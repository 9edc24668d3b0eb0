SPECIFICATION Spec
CONSTANTS
    Streams = {"s"}
    StreamParts <- MCStreamParts
    StreamOf <- MCStreamOf
    Messages = {"good", "bad"}
    Kind <- MCKind
    MaxChanges = 3
    MaxUpdates = 2
INVARIANTS
    TypeOK
    RegistrationFollowsAssignment
    SubscriptionsFollowRegistry
PROPERTIES
    NonconformingIsKeptOut
    EventuallyValidated
CHECK_DEADLOCK FALSE
