CONSTANTS
  Roots = {r1, r2}
  Addr = {a1, a2, a3, a4}
  N = 2
  Boxed = {1}
  Val = {v0, v1}
  DefaultVal = v0
  Null = Null
  Temp = Temp
  Arg = Arg
  Nested = FALSE
SPECIFICATION Spec
SYMMETRY Symmetry
INVARIANTS TypeOK OwnershipForest
\* Undefined behaviour ends the process: fault states have no successor.
CHECK_DEADLOCK FALSE
