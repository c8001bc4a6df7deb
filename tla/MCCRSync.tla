------------------------------ MODULE MCCRSync ------------------------------
(* TLC instances of CRSync: one package, with a CR file of its own and two    *)
(* that a user keeps, one of them for an ability of another framework.        *)
EXTENDS CRSync, TLC

CONSTANT package
Owner == [c \in CRs |-> package]
=============================================================================
