--------------------------- MODULE MCTeamDirectory ---------------------------
(* TLC instances of TeamDirectory: a master that may come back with another IP, *)
(* on another port, or as the master of another team.                           *)
EXTENDS TeamDirectory, TLC

CONSTANTS f, m

Says(t, i, p) == [team |-> t, ip |-> i, port |-> p]
AnyMove == m :> {Says("a", "1", 80), Says("a", "1", 90), Says("a", "2", 90), Says("b", "1", 80)}
FirstTeam == {<<f, "a">>}
=============================================================================
