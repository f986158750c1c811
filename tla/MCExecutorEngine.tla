-------------------------- MODULE MCExecutorEngine --------------------------
\* Instances of ExecutorEngine for TLC.
EXTENDS ExecutorEngineProps

CONSTANTS s1, s2, t1, t2, t3, t4

OneSession == {s1}
TwoSessions == {s1, s2}
OneTask == {t1}
TwoTasks == {t1, t2}
FourTasks == {t1, t2, t3, t4}
AllInOne == [t \in Tasks |-> s1]
LastInSecond == [t \in Tasks |-> IF t = t4 THEN s2 ELSE s1]
OneId == {"a"}
TwoIds == {"a", "b"}
OneAttempt == {1}
TwoAttempts == {1, 2}
NoTasks == {}
AnyEnd == {"task.completed", "task.failed", "task.stopped"}
Completes == {"task.completed"}
NoEnd == {}
=============================================================================
