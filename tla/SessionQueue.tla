---------------------------- MODULE SessionQueue ----------------------------
(***************************************************************************)
(* What startTask promises its callers, with no runtime, no tool and no    *)
(* promise chain in sight: the tasks of a session take turns in the order  *)
(* of the calls, one at a time, each is settled at most once, and a task   *)
(* whose predecessor was rejected may be rejected without ever running.    *)
(* ExecutorEngine is shown to implement this module; Daemon is built on it. *)
(***************************************************************************)
EXTENDS Integers, FiniteSets

CONSTANTS
    Tasks,       \* finitely many
    SessionOf    \* SessionOf[t]: the session of task t

VARIABLES
    turn,    \* turn[t]: the order of the startTask calls (0: not called)
    stage    \* stage[t]: how far task t is

queueVars == <<turn, stage>>

Stages == {"idle", "queued", "running", "fulfilled", "rejected"}
Over(t) == stage[t] \in {"fulfilled", "rejected"}
Earlier(u, t) == SessionOf[u] = SessionOf[t] /\ turn[u] # 0 /\ turn[u] < turn[t]

QueueInit ==
    /\ turn = [t \in Tasks |-> 0]
    /\ stage = [t \in Tasks |-> "idle"]

Enqueue(t) ==
    /\ stage[t] = "idle"
    /\ stage' = [stage EXCEPT ![t] = "queued"]
    /\ turn' = [turn EXCEPT ![t] = Cardinality({u \in Tasks : stage[u] # "idle"}) + 1]

\* It is t's turn: all that were started before it in its session are over.
Begin(t) ==
    /\ stage[t] = "queued"
    /\ \A u \in Tasks : Earlier(u, t) => Over(u)
    /\ stage' = [stage EXCEPT ![t] = "running"]
    /\ UNCHANGED turn

\* The task right before t was rejected, and takes t with it.
Skip(t) ==
    /\ stage[t] = "queued"
    /\ \A u \in Tasks : Earlier(u, t) => Over(u)
    /\ \E u \in Tasks : /\ Earlier(u, t)
                        /\ stage[u] = "rejected"
                        /\ \A v \in Tasks : Earlier(v, t) => turn[v] <= turn[u]
    /\ stage' = [stage EXCEPT ![t] = "rejected"]
    /\ UNCHANGED turn

Finish(t) ==
    /\ stage[t] = "running"
    /\ \E outcome \in {"fulfilled", "rejected"} : stage' = [stage EXCEPT ![t] = outcome]
    /\ UNCHANGED turn

QueueNext == \E t \in Tasks : Enqueue(t) \/ Begin(t) \/ Skip(t) \/ Finish(t)

QueueSpec == QueueInit /\ [][QueueNext]_queueVars
=============================================================================
