--------------------------- MODULE MCTaskEngine ---------------------------
(* TLC instances of TaskEngine: the chains the program builds. *)
EXTENDS TaskEngine, TLC

\* make_lifecycle_adjust_request; a chain with both kinds of leaf; the
\* sequence of a request of no packages
Chains == "adjust" :> <<"work", "wait">> @@ "chain" :> <<"atomic", "work">>
              @@ "nothing" :> <<>>
=============================================================================
