\* An embedded server, polled: the contract and liveness, for every class of frame.
CONSTANTS
    Methods <- MCMethods
    SyncTyped = {"add"}
    SyncRaw = {}
    AsyncTyped = {"ask"}
    AsyncRaw = {"raw"}
    Input <- EveryInput
    Requests = {r1, r2}
    Workers = {w1}
    Main = main
    Unread = Unread
    NoCall = NoCall
    NoOutcome = NoOutcome
    Nowhere = Nowhere
    NoAnswer = NoAnswer
    MaxPush = 0
SPECIFICATION LiveSpec
INVARIANT TypeOK
INVARIANT QuietMeansQueued
PROPERTY ImplementsContract
PROPERTY EveryCallAnswered
