SPECIFICATION Spec
CONSTANTS
  Session = {s1}
  Request = {p1, p2}
  NoPair = NoPair
  MaxPairs = 3
  MaxFaults = 1
INVARIANTS
  ChainInv
  LiveIsIndexed
  EndedIsRefused
  FamilyIsTracked
  ReuseIsProven
PROPERTIES
  RotationIsSerial
  EndedStaysEnded
  ImplementsRefreshChain
CONSTRAINT FewPairs
SYMMETRY Symmetry
CHECK_DEADLOCK FALSE
