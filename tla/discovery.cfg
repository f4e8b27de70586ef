\* Two registrations, 64 graphs of the structs, one wrapper, one stray line before the answer.
SPECIFICATION FairSpec
CONSTANTS
    Names = {"m"}
    Structs = {"A", "B", "C", "VoidT", "rpcpp__VoidT"}
    Wrappers = {"vectorA"}
    Plain = {"rpcpp__VoidT"}
    Skipped = {"VoidT"}
    Scalars = {"integer"}
    Shapes <- MCShapes
    Signatures <- MCSignatures
    NoHandler = NoHandler
    Untyped = Untyped
    NoDoc = NoDoc
    MaxAdds = 2
    MaxStray = 1
INVARIANTS
    TypeOK
    RefsResolve
    DocumentMatchesDispatch
    EachDeclaredOnce
    DependenciesFirst
    AnswerIsFound
PROPERTIES
    GeneratorFinishes
