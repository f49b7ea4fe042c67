SPECIFICATION Spec
CONSTANTS
    Calls = {c1, c2, c3}
    Kinds = {"create", "put", "update", "updateIf", "patch", "patchIf", "delete", "deleteIf"}
SYMMETRY Symmetry
INVARIANTS ConflictsAreReal
PROPERTIES ImplementsDataStore SerialMatchesReference
CHECK_DEADLOCK FALSE
