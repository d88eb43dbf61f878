\* The manager's event log.
SPECIFICATION Spec
CONSTANTS
    Names = {"a", "b"}
    Nested = {"a"}
    Others = {"b"}
    Resources <- EventLogOnly
    Clients = {c1}
INVARIANTS
    LinkResolves
