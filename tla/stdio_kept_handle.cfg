\* A resolved call whose handle is kept.
CONSTANTS
    Methods <- MCMethods
    SyncTyped = {"add"}
    SyncRaw = {}
    AsyncTyped = {"ask"}
    AsyncRaw = {"raw"}
    Input <- ThreadedInput
    Requests = {r1}
    Workers = {w1}
    Main = main
    Unread = Unread
    NoCall = NoCall
    NoOutcome = NoOutcome
    Nowhere = Nowhere
    NoAnswer = NoAnswer
    MaxPush = 0
SPECIFICATION SystemSpec
PROPERTY ResolvedMeansReturns
