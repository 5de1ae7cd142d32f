CONSTANTS
    k1 = k1
    k2 = k2
    Consumer = {k1, k2}
    Task = Task
    Worker = Worker
    NoMessage = NoMessage
    MaxEvents = 2
    MaxBatch = 2
    Capacity = 2
    MaxRetries = 1
    MaxPolls = 1
    Caller <- MCCaller
    Message <- MCMessage
    SerializationOf <- MCSerialization
SPECIFICATION Spec
INVARIANT
    UpdateHasItsValue
