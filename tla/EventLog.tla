------------------------------ MODULE EventLog ------------------------------
(***************************************************************************)
(* What the event log of a session promises its readers, with no queue,    *)
(* no connection and no storage in sight: entries are only ever appended,  *)
(* and every reader holds a prefix of the log that only ever grows.        *)
(* EventStore is shown to implement this module.                           *)
(***************************************************************************)
EXTENDS Integers, Sequences

CONSTANTS
    Entries,   \* what can be written to the log
    Readers    \* the clients that follow the log

VARIABLES
    log,       \* the entries, in order
    held       \* held[r]: what reader r has been given so far

vars == <<log, held>>

Init ==
    /\ log = << >>
    /\ held = [r \in Readers |-> << >>]

\* One more entry is made durable; nobody has seen it yet.
Publish ==
    /\ \E e \in Entries : log' = Append(log, e)
    /\ UNCHANGED held

\* A reader is given the next entries: none skipped, none twice.
Read(r) ==
    /\ \E n \in (Len(held[r]) + 1) .. Len(log) :
          held' = [held EXCEPT ![r] = SubSeq(log, 1, n)]
    /\ UNCHANGED log

Next == Publish \/ \E r \in Readers : Read(r)

Spec == Init /\ [][Next]_vars

=============================================================================
