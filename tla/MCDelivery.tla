----------------------------- MODULE MCDelivery -----------------------------
(* A small instance of Delivery.  In the first layout both subscriptions   *)
(* name the same group.  In the second s1 has a group of its own and in    *)
(* the third it reads its partition directly; in both, s2 asks for a group *)
(* and a partition, which is never admitted.                               *)
EXTENDS Delivery, TLC

CONSTANTS s1, s2, g1

None == [group |-> <<>>, partitions |-> <<>>]
Named == [group |-> <<g1>>, partitions |-> <<>>]
Listed == [group |-> <<>>, partitions |-> <<0>>]
Both == [group |-> <<g1>>, partitions |-> <<0>>]

MCLayouts == {s1 :> Named @@ s2 :> Named, s1 :> None @@ s2 :> Both, s1 :> Listed @@ s2 :> Both}

=============================================================================
