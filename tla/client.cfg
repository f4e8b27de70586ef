\* Every order of calls, writes, frames and stream events for two calls.
SPECIFICATION LiveSpec
CONSTANTS
    Calls = {c1, c2}
    Handlers = {h1}
INVARIANTS
    TypeOK
    PendingMapExact
    AnswersMatch
    AnswerNotLost
    NothingWaitsAfterClose
PROPERTIES
    EveryCallSettles
