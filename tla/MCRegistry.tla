----------------------------- MODULE MCRegistry -----------------------------
(* The instance of Registry for TLC: one seeded type and six bodies, of     *)
(* which two want the same prefix and two the same type id, one refers to   *)
(* the type of another and one to no type at all.                           *)
EXTENDS Registry

Field(name, kind, ref) ==
  [name |-> name, kind |-> kind, required |-> FALSE, editable |-> kind # "ref",
   perm |-> "standard", enum |-> {}, default |-> Absent, ref |-> ref]

Type(id, prefix, fs, parents) ==
  [type_id |-> id, prefix |-> prefix, fields |-> fs, scope_parents |-> parents]

Project == Type("project", "PRJ", {Field("name", "text", Absent)}, {})
Invoice == Type("invoice", "INV", {Field("name", "text", Absent), Field("owner", "ref", "PRJ")},
                {"owner"})
Invite == Type("invite", "INV", {Field("name", "text", Absent)}, {})
Line == Type("line", "LIN", {Field("owner", "ref", "INV")}, {"owner"})
Ticket == Type("line", "TIC", {[Field("state", "enum", Absent) EXCEPT
  !.enum = {"open", "shut"}, !.default = "open", !.required = TRUE, !.perm = "readonly"]}, {})
Note == Type("note", "NOT", {Field("name", "text", Absent)}, {})
Orphan == Type("orphan", "ORP", {Field("owner", "ref", "XXX")}, {"owner"})

MCBuiltin == {Project}
MCSpecs == {Invoice, Invite, Line, Ticket, Note, Orphan}
=============================================================================
