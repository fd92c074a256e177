CONSTANTS
  Keys = {a, b}
  Values = {on, off}
  Flagged = {a}
  Procs = {p, q}
  Absent = Absent
  Torn = Torn
  None = None
SPECIFICATION Spec
INVARIANTS KeptOnDisk ReadsAtOnce
PROPERTY Atomic
CHECK_DEADLOCK FALSE
