SPECIFICATION Spec
CONSTANTS
  Workers = {w1, w2}
  Main = Main
  Nobody = Nobody
  UseSerial = FALSE
  MaxConns = 3
  MaxIds = 3
SYMMETRY WorkerSymmetry
INVARIANTS
  PoolConsistent
  NoLostSession
  NoDeadSession
  FreshIds
