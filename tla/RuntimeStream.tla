---------------------------- MODULE RuntimeStream ----------------------------
(***************************************************************************)
(* What the executor engine may rely on from the handle a runtime adapter  *)
(* returns (RuntimeTaskHandle.events in src/src/core/types.ts): per task   *)
(* one stream that begins with model.input, is read in the order it was    *)
(* emitted, takes nothing after it is closed, and is over for its reader   *)
(* only when everything was read, or when the reader turned away after a   *)
(* terminal event.                                                         *)
(***************************************************************************)
EXTENDS Integers, Sequences, SequencesExt

CONSTANT Tasks

VARIABLES log, read, closed, ended

streamVars == <<log, read, closed, ended>>

Terminal == {"task.completed", "task.failed", "task.stopped"}

\* A stream that has begun has done so with its only model.input.
WellBegun(s) ==
    \A i \in 1 .. Len(s) : (s[i].type = "model.input") <=> (i = 1)

StreamInit ==
    /\ log = [t \in Tasks |-> << >>]
    /\ read = [t \in Tasks |-> 0]
    /\ closed = [t \in Tasks |-> FALSE]
    /\ ended = [t \in Tasks |-> FALSE]

\* Only task t's stream moves.
Only(f, t) == f' = [f EXCEPT ![t] = f'[t]]

\* The adapter emits some events, or closes the stream, or both.
Emit(t) ==
    /\ ~closed[t]
    /\ Only(log, t) /\ Only(closed, t)
    /\ IsPrefix(log[t], log'[t])
    /\ WellBegun(log'[t])
    /\ UNCHANGED <<read, ended>>

\* The reader takes the next event.
Read(t) ==
    /\ ~ended[t]
    /\ read[t] < Len(log[t])
    /\ read' = [read EXCEPT ![t] = @ + 1]
    /\ UNCHANGED <<log, closed, ended>>

\* The reader is done.
End(t) ==
    /\ \/ closed[t] /\ read[t] = Len(log[t])
       \/ \E i \in 1 .. read[t] : log[t][i].type \in Terminal
    /\ ended' = [ended EXCEPT ![t] = TRUE]
    /\ UNCHANGED <<log, read, closed>>

StreamNext == \E t \in Tasks : Emit(t) \/ Read(t) \/ End(t)

StreamSpec == StreamInit /\ [][StreamNext]_streamVars
=============================================================================
