CONSTANTS
  Key = {k1, k2, k3, k4}
  Value = {v1, v2}
  NoValue = NoValue
  None = None
  Capacities = {1, 2, 3}
  DecayInterval = 3
  MaxFrequency = 4
SPECIFICATION Spec
SYMMETRY Symmetry
INVARIANTS WithinCapacity BookkeepingAgrees StoreInv
PROPERTIES ImplementsStore LeastRecentGoes LeastFrequentGoes ScanResistance SecondChance
CHECK_DEADLOCK FALSE
