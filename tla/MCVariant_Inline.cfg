CONSTANTS
  Obj = {o1, o2, o3}
  N = 3
  Boxed = {}
  Val = {va, vb}
  DefaultVal = va
  Addr = {p1}
  Null = Null
  Hollow = Hollow
  Unspec = Unspec
  Dead = Dead
SPECIFICATION Spec
SYMMETRY Symmetry
PROPERTIES ImplementsValueSpec
\* Undefined behaviour ends the process: fault states have no successor.
CHECK_DEADLOCK FALSE
