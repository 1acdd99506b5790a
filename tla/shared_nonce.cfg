SPECIFICATION FairSpec
CONSTANTS
    job1 = job1
    job2 = job2
    manual = manual
    demo = demo
    shared = shared
    own = own
    Ops = {job1, job2}
    Keys = {shared}
    KeyOf <- MCKeyOf
    Program <- MCProgram
    BaseFees <- MCBaseFees
    Tip = 1
    MaxAttempts = 2
    Failures = {}
PROPERTY RefusedIsRetried
