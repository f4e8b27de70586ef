\* A thunk that throws while the queue is drained.
CONSTANTS
    Methods <- MCMethods
    SyncTyped = {"add"}
    SyncRaw = {}
    AsyncTyped = {"ask"}
    AsyncRaw = {"raw"}
    Input <- Asks
    Requests = {r1}
    Workers = {w1}
    Main = main
    Unread = Unread
    NoCall = NoCall
    NoOutcome = NoOutcome
    Nowhere = Nowhere
    NoAnswer = NoAnswer
    MaxPush = 0
SPECIFICATION LiveSpec
PROPERTY QueuedIsDelivered
