----------------------------- MODULE MCObjects -----------------------------
(* The instance of Objects for TLC: a Case with four of its fields and a    *)
(* workflow of three states with two close checks.                          *)
EXTENDS Objects, TLC

CONSTANT Bodies   \* the names of the request bodies below that callers send

MCRank == [c \in Clients |-> IF c = "manager" THEN 4 ELSE 2]

MCFields == {"title", "status", "assignee_id", "project_id"}
MCEditable == {"title", "status", "assignee_id"}
MCRequired == {"title", "status", "project_id"}
MCKind == [title |-> {"t1", "t2"}, status |-> {"backlog", "doing", "done"},
           assignee_id |-> {"usr"}, project_id |-> {"prj"}]
MCValues == UNION {MCKind[f] : f \in MCFields}
MCDefault == [title |-> Null, status |-> "backlog", assignee_id |-> Null, project_id |-> Null]
MCWriteFloor == [title |-> 2, status |-> 2, assignee_id |-> 3, project_id |-> 2]
MCStates == <<"backlog", "doing", "done">>
MCTransitions == [backlog |-> {"doing"}, doing |-> {"backlog", "done"}, done |-> {"doing"}]

MCCloseChecks == <<"docs", "tests">>
NoCloseChecks == <<>>

MCRefs == {"usr", "prj"}

(* A PUT of "start" also clears the assignee and one of "rename" resets the *)
(* status; "close" and "assign" lack the required title of a PUT.           *)
Body == [new    |-> [title |-> "t1", project_id |-> "prj"],
         rename |-> [title |-> "t2"],
         start  |-> [title |-> "t2", status |-> "doing"],
         close  |-> [status |-> "done"],
         assign |-> [assignee_id |-> "usr"]]

MCPayloads == {Body[b] : b \in Bodies}
=============================================================================
