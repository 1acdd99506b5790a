SPECIFICATION FairSpec
CONSTANTS
    job1 = job1
    job2 = job2
    manual = manual
    demo = demo
    shared = shared
    own = own
    Ops = {job1, manual, demo}
    Keys = {shared, own}
    KeyOf <- MCKeyOf
    Program <- MCProgram
    BaseFees <- MCBaseFees
    Tip = 1
    MaxAttempts = 2
    Failures = {"rpc", "lostreply", "lag", "drop", "hang"}
INVARIANTS
    TypeOK
    LostToCompetitor
    ToolsTellTheTruth
PROPERTY ExecutionsEnd
