----------------------------- MODULE MCPlatform -----------------------------
(* The instance of Platform for TLC: two browsers with two requests in      *)
(* flight, two people, a connector, and one workload per question.          *)
EXTENDS Platform, TLC

MCActors == {"dev", "a1", "a2"}
(* a1 is a member on the connector and, by a grant, an owner of actor a2.   *)
MCRank == [a \in MCActors |-> [e \in MCActors \cup Connectors |->
             CASE a = "a1" /\ e = "a2" -> 4
               [] a = "a1" /\ e \in Connectors -> 2
               [] OTHER -> 0]]
MCPayloads == {[display_name |-> "new"], [platform_role |-> "member"], [platform_role |-> "admin"],
               [target |-> "new"], [status |-> "disabled"]}

Known(p, q) == [i \in {"p", "q"} |-> IF i = "p" THEN p ELSE q]
Strangers == Known(None, None)
Workload(ops, requests, time, known, signed) ==
  [ops |-> ops, requests |-> requests, time |-> time, known |-> known, signed |-> signed]

(* Hits from two browsers across three windows; first logins of one person  *)
(* and of two, with cookies replaced and flows expiring; the logins of a    *)
(* person whose actor is deleted; sessions that are dropped or expire; two  *)
(* claims and the writes of an admin; two runs of a connector under writes  *)
(* and reads.                                                               *)
MCWorkloads ==
  {Workload({"logout"}, 7, 3, Strangers, <<>>),
   Workload({"start", "callback"}, 4, 2, Strangers, <<>>),
   Workload({"start", "callback", "delete"}, 5, 0, Known("a1", None), <<<<"b1", "dev">>>>),
   Workload({"dev_login", "logout", "delete"}, 3, 2, Known("a1", None), <<<<"b1", "dev">>>>),
   Workload({"claim", "write", "delete"}, 4, 0, Known("a1", "a2"), <<<<"b1", "a1">>, <<"b2", "a2">>>>),
   Workload({"claim", "write", "delete", "get"}, 3, 0, Known("a1", "a2"), <<<<"b1", "a1">>, <<"b2", "dev">>>>),
   Workload({"run", "write", "delete", "get"}, 3, 1, Known("a1", None), <<<<"b1", "dev">>, <<"b2", "a1">>>>)}

Symmetry == Permutations(Slots)
=============================================================================
