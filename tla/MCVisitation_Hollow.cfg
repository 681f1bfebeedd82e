CONSTANTS
  N = 3
  TypeOf <- MCTypeOf
  Boxed = {2}
  Val = {0, 1}
  MaxArgs = 3
  HollowOK = TRUE
  Hollow = Hollow
  Null = Null
  None = None
SPECIFICATION Spec
PROPERTY
  ImplementsVisitCall
\* Undefined behaviour (a null item dereferenced) ends the behaviour.
CHECK_DEADLOCK FALSE
