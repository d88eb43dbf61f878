\* Every resource, with objects coming and going during the requests, and
\* every form, with the properties changing during the request.
SPECIFICATION RedfishSpec
CONSTANTS
    Names = {"a", "b"}
    Nested = {"a"}
    Others = {"b"}
    Resources <- AllResources
    Clients = {c1}
    Forms <- AllForms
    MaxItems = 2
INVARIANTS
    LinkResolves
    EveryMemberTried
    OnceIsForTarget
    AnswerFromStored
PROPERTIES
    ImplementsDirectory
