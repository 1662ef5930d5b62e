--------------------------- MODULE MCConsolidator ---------------------------
(* A small instance of Consolidator: one topic and two subscriptions with  *)
(* the same callback, so that renewals coalesce, registrations collide and *)
(* stale decisions append events the reducer rejects.                      *)
EXTENDS ManagementQueries, TLC

CONSTANTS t1, s1, s2, cb, json, xml, r1, r2, gone, c1, c2

Symmetry ==
    Permutations(Subscriptions) \cup Permutations(Registrations) \cup Permutations(Clients)

MCTopicOf == [s \in Subscriptions |-> t1]
MCCallbackOf == [s \in Subscriptions |-> cb]

=============================================================================
