\* Three admins register types; the process may restart at any time.
SPECIFICATION Spec
CONSTANTS
  Clients = {"a1", "a2", "a3"}
  TypeIds = {"invoice", "invite", "line", "note", "orphan"}
  Prefixes = {"INV", "LIN", "TIC", "NOT", "ORP", "XXX"}
  Names = {"name", "owner", "state"}
  Absent = "absent"
  Builtin <- MCBuiltin
  Specs <- MCSpecs
INVARIANTS TypeOK WholeTypes UniqueNames RefsKnown AnsweredIsLive
