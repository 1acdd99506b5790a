CONSTANTS
  Base = 2
  Half = 2
  SeqBytes = 2
  Nil = Nil
  Absent = Absent
  Panic = Panic
  EntryPointV07 = v07
  DummySignature <- MCDummy
  RealSignature <- MCReal
  Requests <- MCRequests
  EntryPoints = {v07, v06}
  Estimates <- MCEstimates
  Fees <- MCFees

SPECIFICATION Spec
INVARIANTS
  TypeOK
  SurvivesStorage
  SignedIsSent
  OnlyFeesChange
  FittingNeverPanics
  EveryOtherKeyIsExecutable
