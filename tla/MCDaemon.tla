------------------------------- MODULE MCDaemon -------------------------------
\* Instances of Daemon for TLC.
EXTENDS Daemon

CONSTANTS s1, s2, p1, p2, p3, c1, c2

TwoSessions == {s1, s2}
ThreePosts == {p1, p2, p3}
TwoStreams == {c1, c2}
Both == BOOLEAN
OneId == {"t"}
LastInSecond == [p \in Posts |-> IF p = p3 THEN s2 ELSE s1]
SameId == [p \in Posts |-> "t"]
=============================================================================
