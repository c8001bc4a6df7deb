--------------------------- MODULE MCBullyElection ---------------------------
(* A TLC instance of BullyElection: the weights are in the order of the ids. *)
EXTENDS BullyElection

Rising == [n \in Nodes |-> n]
=============================================================================
