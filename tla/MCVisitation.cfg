CONSTANTS
  N = 3
  TypeOf <- MCTypeOf
  Boxed = {2}
  Val = {0, 1}
  MaxArgs = 3
  HollowOK = FALSE
  Hollow = Hollow
  Null = Null
  None = None
SPECIFICATION Spec
INVARIANTS
  TypeOK
  VisitDeliversActiveValues
  AccessorsAgreeWithWhich
  ComparisonIsLexicographic
PROPERTIES
  EveryCallReturns
