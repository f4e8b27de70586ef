\* Every interleaving of two calls and two workers, with the queue as weak as
\* the library documents it.
CONSTANTS
    Methods <- MCMethods
    SyncTyped = {"add"}
    SyncRaw = {}
    AsyncTyped = {"ask"}
    AsyncRaw = {"raw"}
    Input <- ThreadedInput
    Requests = {r1, r2}
    Workers = {w1, w2}
    Main = main
    Unread = Unread
    NoCall = NoCall
    NoOutcome = NoOutcome
    Nowhere = Nowhere
    NoAnswer = NoAnswer
    MaxPush = 1
SPECIFICATION Spec
SYMMETRY Symmetric
INVARIANT TypeOK
INVARIANT AtMostOneAnswer
INVARIANT InflightExact
INVARIANT AbandonedMeansUnreachable
INVARIANT NoAnswerAfterExit
INVARIANT EscapeNeverReturns
PROPERTY FirstAnswerStands
