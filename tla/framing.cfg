\* Two frames of up to three bytes, cut into chunks anywhere.
SPECIFICATION Spec
CONSTANTS
    Base = 2
    Width = 2
    Newline = 1
    Payloads <- MCPayloads
    MaxFrames = 2
INVARIANTS
    TypeOK
    ParserFaithful
    ReaderFaithful
    NothingHeldBack
    AllDelivered
