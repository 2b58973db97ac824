---------------------------- MODULE MCRelations ----------------------------
(* The instance of MCMembers with an edge from the second team to the Case, *)
(* which Ann may share with Bob while both of them link, unlink and list.   *)
EXTENDS MCMembers, Relations

MCInitialEdges == {[id |-> 0, subject |-> "t2", object |-> "cas"]}
MCMixed == {<<"ann", "t2", "bob">>}
=============================================================================
