---------------------------- MODULE MCEventStore ----------------------------
\* Instances of EventStore for TLC.
EXTENDS EventStore

CONSTANTS c1, c2

MCClients == {c1, c2}
MCPageLimits == {1, 2}
=============================================================================
