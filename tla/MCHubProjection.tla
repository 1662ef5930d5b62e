--------------------------- MODULE MCHubProjection --------------------------
(* A small instance of HubProjection, with the topic and the subscriptions *)
(* of MCConsolidator.                                                      *)
EXTENDS HubProjection, TLC

CONSTANTS t1, t2, s1, s2, cb, json, r1, r2, r3, gone, h1, h2

Symmetry ==
    Permutations(Topics) \cup Permutations(Subscriptions)
        \cup Permutations(Registrations) \cup Permutations(Clients)

MCTopicOf == [s \in Subscriptions |-> t1]
MCCallbackOf == [s \in Subscriptions |-> cb]

=============================================================================
