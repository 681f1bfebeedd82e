CONSTANTS
  Obj = {o1, o2, o3}
  N = 3
  Boxed = {1, 2}
  Val = {va, vb}
  DefaultVal = va
  Addr = {p1, p2}
  Null = Null
  Hollow = Hollow
  Unspec = Unspec
  Dead = Dead
SPECIFICATION Spec
SYMMETRY Symmetry
INVARIANTS TypeOK HeapOwnership SlotShape
PROPERTIES ImplementsValueSpec
\* Undefined behaviour ends the process: fault states have no successor.
CHECK_DEADLOCK FALSE
