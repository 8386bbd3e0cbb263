SPECIFICATION FairSpec
CONSTANTS
  Publisher = {w1}
  Request = {q1}
  Nobody = Nobody
  MaxEventAttempts = 2
  MaxRevision = 2
  MaxFaults = 2
  MaxAttempts = 2
CONSTRAINT FewChanges
INVARIANTS
  AdmissionInv
  AgreesWithStudent
  WithdrawnNeverAdmits
  ReleaseIsUnderWay
PROPERTIES
  DecisionsAreMonotone
  ReleaseSettles
  ChangesSettle
CHECK_DEADLOCK FALSE
