SPECIFICATION Spec
CONSTANTS
  r1 = r1
  r2 = r2
  q1 = q1
  q2 = q2
  Commitments = {"processed", "finalized"}
  Replicas = {r1, r2}
  Reads = {q1, q2}
  CommitmentOf <- MCCommitmentOf
  SameTerm = FALSE
  MaxSlot = 2
  MaxFence = 2
  MaxFaults = 1
SYMMETRY MCSymmetry
CHECK_DEADLOCK FALSE
PROPERTIES
  KeepsPromise
