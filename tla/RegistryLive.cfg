\* Two admins register types: the older snapshot may be stored last.
SPECIFICATION Spec
CONSTANTS
  Clients = {"a1", "a2"}
  TypeIds = {"invoice", "invite", "line", "note", "orphan"}
  Prefixes = {"INV", "LIN", "TIC", "NOT", "ORP", "XXX"}
  Names = {"name", "owner", "state"}
  Absent = "absent"
  Builtin <- MCBuiltin
  Specs <- MCSpecs
INVARIANT LiveEverywhere
