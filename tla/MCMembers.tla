----------------------------- MODULE MCMembers -----------------------------
(* The instance of Members for TLC: two actors, two teams, and a project    *)
(* with a Case under the first team.                                        *)
EXTENDS Members

MCEntities == {"ann", "bob", "t1", "t2", "prj", "cas"}
MCScopeParent ==
  [e \in MCEntities |-> CASE e = "prj" -> "t1" [] e = "cas" -> "prj" [] OTHER -> "none"]

(* Both own the first team; the owner of the second is gone and Ann is the  *)
(* admin left.                                                              *)
MCInitialRole ==
  [o \in MCEntities |-> [m \in MCEntities |->
     CASE o = "t1" /\ m \in {"ann", "bob"} -> 4
       [] o = "t2" /\ m = "ann" -> 3
       [] OTHER -> 0]]

ASSUME MCScopesShallow == ShallowScopes
=============================================================================
