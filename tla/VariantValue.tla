---------------------------- MODULE VariantValue ----------------------------
(***************************************************************************)
(* What a variant promises its clients (spec.md sections 3 and 4.1): each  *)
(* object location either holds no variant, or a variant whose observable  *)
(* state is a discriminator and the value of the active alternative.  A    *)
(* copy gives an independent equal value; a move gives the donor's value   *)
(* to the target and leaves the donor "valid but unspecified": same        *)
(* discriminator and the value Unspec, which a copy passes on and an       *)
(* assignment replaces.  Nothing here mentions buffers, heap cells or      *)
(* visitation: this is the abstract specification the                      *)
(* lifecycle engine in Variant.tla is shown to implement.                  *)
(***************************************************************************)
EXTENDS Naturals

CONSTANTS
  Obj,        \* locations a variant object can be constructed in
  N,          \* number of alternatives
  Val,        \* values an alternative may hold
  Unspec,     \* the unspecified value a moved-from alternative is left with
  Dead        \* no variant lives at the location

VARIABLE val

Tags == 0 .. N - 1

Live == [tag : Tags, v : Val \cup {Unspec}]

AbsTypeOK == val \in [Obj -> Live \cup {Dead}]

\* What a move leaves in its donor: the discriminator, no known value.
MovedFrom(w) == [w EXCEPT !.v = Unspec]

\* A variant comes into existence holding alternative t with value x.
Create(o, t, x) ==
  /\ val[o] = Dead
  /\ val' = [val EXCEPT ![o] = [tag |-> t, v |-> x]]

\* Copy construction: an equal, independent value.
CopyCreate(o, s) ==
  /\ val[o] = Dead /\ val[s] # Dead
  /\ val' = [val EXCEPT ![o] = val[s]]

\* Move construction: the target gets the donor's value.
MoveCreate(o, s) ==
  /\ val[o] = Dead /\ val[s] # Dead
  /\ val' = [val EXCEPT ![o] = val[s], ![s] = MovedFrom(val[s])]

\* Copy assignment: the target takes the source's value; the source is unchanged.
CopyAssign(o, s) ==
  /\ val[o] # Dead /\ val[s] # Dead
  /\ val' = [val EXCEPT ![o] = val[s]]

\* Move assignment (on self-move the value becomes unspecified).
MoveAssign(o, s) ==
  /\ val[o] # Dead /\ val[s] # Dead
  /\ val' = [val EXCEPT ![o] = val[s], ![s] = MovedFrom(val[s])]

Destroy(o) ==
  /\ val[o] # Dead
  /\ val' = [val EXCEPT ![o] = Dead]

Init == val = [o \in Obj |-> Dead]

Next ==
  \E o, s \in Obj :
    \/ \E t \in Tags, x \in Val : Create(o, t, x)
    \/ CopyCreate(o, s)
    \/ MoveCreate(o, s)
    \/ CopyAssign(o, s)
    \/ MoveAssign(o, s)
    \/ Destroy(o)

Spec == Init /\ [][Next]_val
=============================================================================
