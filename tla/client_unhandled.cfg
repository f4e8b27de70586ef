\* A rejection that comes while the request's write is outstanding.
SPECIFICATION Spec
CONSTANTS
    Calls = {c1}
    Handlers = {h1}
INVARIANTS
    RejectionsReachCallers
