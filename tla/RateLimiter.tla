------------------------------ MODULE RateLimiter ------------------------------
(***************************************************************************)
(* RateLimiter of src/src/daemon/server.ts: a counter per key and a window *)
(* that starts with the first request after the last window.               *)
(***************************************************************************)
EXTENDS Integers, Sequences, FiniteSets

CONSTANTS
    Keys,        \* the clients' keys
    MaxPerWindow,\* maxRequestsPerMinute
    WindowMs,    \* rateLimitWindowMs
    MaxTime,     \* bound on the clock
    MaxChecks    \* bound: requests of one key at one time

NoKey == 0

ASSUME RateAssumption ==
    /\ NoKey \notin Keys
    /\ MaxPerWindow \in Nat \ {0}
    /\ WindowMs \in Nat \ {0}
    /\ MaxTime \in Nat
    /\ MaxChecks \in Nat

VARIABLES
    now,      \* Date.now()
    entry,    \* entries: count and resetAt of each key; count 0 for none
    accepted, \* accepted[k]: the times at which requests of k were let through
    checked,  \* checked[k]: how many requests of k there were at time `now`
    refused   \* the key of the request that was just refused

rateVars == <<now, entry, accepted, checked, refused>>

RateInit ==
    /\ now = 0
    /\ entry = [k \in Keys |-> [count |-> 0, resetAt |-> 0]]
    /\ accepted = [k \in Keys |-> << >>]
    /\ checked = [k \in Keys |-> 0]
    /\ refused = NoKey

\* Fault: a request in a window starts the window again.
Counted_Restarts(k) == [count |-> entry[k].count + 1, resetAt |-> now + WindowMs]

\* Fault: the count is compared before it is increased.
LetsThrough_Late(k) == entry[k].count <= MaxPerWindow

\* No window of k is open.
Over(k) == entry[k].count = 0 \/ now >= entry[k].resetAt

Counted(k) == [entry[k] EXCEPT !.count = @ + 1]

LetsThrough(k) == entry[k].count + 1 <= MaxPerWindow

\* check(key)
Check(k) ==
    /\ checked[k] < MaxChecks
    /\ checked' = [checked EXCEPT ![k] = @ + 1]
    /\ entry' = [entry EXCEPT ![k] = IF Over(k) THEN [count |-> 1, resetAt |-> now + WindowMs]
                                     ELSE Counted(k)]
    /\ IF Over(k) \/ LetsThrough(k)
       THEN /\ accepted' = [accepted EXCEPT ![k] = Append(@, now)]
            /\ refused' = NoKey
       ELSE /\ refused' = k
            /\ UNCHANGED accepted
    /\ UNCHANGED now

Tick ==
    /\ now < MaxTime
    /\ now' = now + 1
    /\ checked' = [k \in Keys |-> 0]
    /\ refused' = NoKey
    /\ UNCHANGED <<entry, accepted>>

RateNext == Tick \/ \E k \in Keys : Check(k)

-----------------------------------------------------------------------------

\* How many requests of k were let through in the WindowMs from `from` on.
Through(k, from) ==
    Cardinality({i \in 1 .. Len(accepted[k]) : accepted[k][i] \in from .. from + WindowMs - 1})

\* The counter is reset by the clock, so a burst over the end of a window is
\* counted in two; but no stretch of WindowMs, wherever it begins, lets more
\* than two windows' worth through.
RateBound == \A k \in Keys, from \in 0 .. MaxTime : Through(k, from) <= 2 * MaxPerWindow

\* A client is refused only for requests of its own that were let through in
\* the last WindowMs, never for refused ones: it cannot lock itself out.
NoLockout == refused \in Keys => Through(refused, now - WindowMs + 1) >= MaxPerWindow

\* The windows neither let too much through nor keep a client out.
RateWindows == RateBound /\ NoLockout
=============================================================================
