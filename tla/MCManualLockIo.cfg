SPECIFICATION Spec
CONSTANTS
  p1 = p1
  p2 = p2
  p3 = p3
  p4 = p4
  p5 = p5
  NoProc = NoProc
  Procs <- MCFiveProcs
  Depths = 4
  IoFails <- MCBeforeUnlink
SYMMETRY ProcSymmetry
CHECK_DEADLOCK FALSE
INVARIANT MutualExclusion
