SPECIFICATION Spec
CONSTANTS
  Thread = {t1, t2}
  Driver = {d1, d2}
  None = None
  MaxMounts = 3
  MaxStack = 4
SYMMETRY Alike
CHECK_DEADLOCK FALSE
INVARIANTS LocksBalanced ObjectsFresh AttachedServes
