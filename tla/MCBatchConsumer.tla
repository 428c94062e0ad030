-------------------------- MODULE MCBatchConsumer --------------------------
(* Instances of BatchConsumer for TLC.                                      *)
EXTENDS BatchConsumer, TLC

CONSTANTS p1, p2

OnePartition == {p1}
TwoPartitions == {p1, p2}
TwoMessages == (p1 :> 2)
TwoAndOne == (p1 :> 2 @@ p2 :> 1)
=============================================================================
