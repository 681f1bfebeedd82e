-------------------------- MODULE VariantRefinement --------------------------
(***************************************************************************)
(* Proof that the lifecycle engine of Variant.tla implements the value     *)
(* specification VariantValue.tla under the refinement mapping AbsVal:     *)
(* a live variant is seen as its tag and, through get_value, its value,    *)
(* or Unspec where a move left it; a dead location is Dead.                *)
(*                                                                         *)
(* The mapping is only a value of the abstract specification when no live  *)
(* variant whose value is observable is a moved-from box: get_value of a   *)
(* box with a null unique_ptr is Hollow, which no abstract state holds.    *)
(* So the invariant of VariantProofs is strengthened by HollowUnspec: a    *)
(* live box with a null pointer is always the donor of a move.  The only   *)
(* statements that null a pointer are the two moves, and both mark the     *)
(* donor; a copy of a hollow box faults before it copies.                  *)
(*                                                                         *)
(* Each action lemma proves HollowUnspec' and that the step maps to the    *)
(* corresponding abstract step, or to a stutter for a fault.  Its steps    *)
(* state the successor state, then the mapped value of every location:     *)
(* the target's, the donor's, and that of every other location, which is   *)
(* unchanged because no other live box owns the cells the step writes or  *)
(* frees (NoAlias, NoDangling).                                            *)
(***************************************************************************)
EXTENDS VariantProofs

\* A moved-from box, the only live variant get_value cannot read, is
\* always marked as holding the unspecified value of a move donor.
HollowUnspec == \A o \in Obj : alive[o] /\ IsHollow(o) => unspec[o]

RInv == IInv /\ HollowUnspec

\* The mapped value of one location.
AV(o) ==
  IF alive[o]
    THEN [tag |-> active[o], v |-> IF unspec[o] THEN Unspec ELSE GetValue(o)]
    ELSE Dead

\* One step of the engine seen through the mapping.
AbsStep == [Abs!Next]_AbsVal

-----------------------------------------------------------------------------
(* Facts about the mapping                                                 *)
-----------------------------------------------------------------------------

LEMMA AbsValDef == AbsVal = [o \in Obj |-> AV(o)] /\ AbsVal' = [o \in Obj |-> AV(o)']
BY DEF AbsVal, AV

\* A live variant maps to a live abstract value, a dead location to Dead.
LEMMA AVLive ==
  ASSUME RInv, NEW o \in Obj
  PROVE  /\ alive[o] => AV(o) \in Abs!Live /\ AV(o) # Dead
         /\ ~alive[o] => AV(o) = Dead
<1>1. CASE alive[o]
  <2>1. active[o] \in Tags /\ unspec[o] \in BOOLEAN
    BY DEF RInv, IInv, TypeOK
  <2>2. ~unspec[o] => GetValue(o) \in Val
    BY <1>1, GetValueType DEF RInv, HollowUnspec
  <2>3. AV(o) \in Abs!Live
    BY <1>1, <2>1, <2>2 DEF AV, Abs!Live, Abs!Tags, Tags
  <2>4. QED
    BY <1>1, <2>3, ConstAssumption DEF Abs!Live, Abs!Tags, Tags
<1>2. CASE ~alive[o]
  BY <1>2 DEF AV
<1>3. QED
  BY <1>1, <1>2

\* A location whose state the step leaves alone, and whose owned cell, if
\* any, keeps its value, keeps its mapped value.
LEMMA AVFrame ==
  ASSUME NEW p \in Obj,
         alive'[p] = alive[p], active'[p] = active[p], unspec'[p] = unspec[p],
         slot'[p] = slot[p],
         slot[p].kind = "box" /\ slot[p].ptr # Null =>
           heap'[slot[p].ptr] = heap[slot[p].ptr]
  PROVE  AV(p)' = AV(p)
BY DEF AV, GetValue

\* The mapping after a step described location by location.
LEMMA AbsUnchanged ==
  ASSUME \A p \in Obj : AV(p)' = AV(p)
  PROVE  UNCHANGED AbsVal
BY AbsValDef

LEMMA AbsExcept ==
  ASSUME NEW o \in Obj, NEW e,
         \A p \in Obj : AV(p)' = IF p = o THEN e ELSE AV(p)
  PROVE  AbsVal' = [AbsVal EXCEPT ![o] = e]
BY AbsValDef

LEMMA AbsExcept2 ==
  ASSUME NEW o \in Obj, NEW s \in Obj, NEW e1, NEW e2,
         \A p \in Obj : AV(p)' = IF p = s THEN e2 ELSE IF p = o THEN e1 ELSE AV(p)
  PROVE  AbsVal' = [AbsVal EXCEPT ![o] = e1, ![s] = e2]
BY AbsValDef

\* Constructing alternative t with value x in o's buffer, on top of a heap
\* h that differs from the current one only in cells no other variant
\* owns: o maps to [t, x] (or Unspec when the value is a donor's), every
\* other location keeps its value, and no new hollow box appears.
LEMMA PlaceAbs ==
  ASSUME RInv, NEW o \in Obj, NEW t \in Tags, NEW x \in Val,
         NEW h \in [Addr -> Val \cup {Null}],
         \A p \in Obj \ {o}, a \in Addr : Owns(p, a) => h[a] = heap[a],
         alive' = [alive EXCEPT ![o] = TRUE],
         active' = [active EXCEPT ![o] = t],
         unspec' \in [Obj -> BOOLEAN],
         \A p \in Obj \ {o} : unspec'[p] = unspec[p],
         \/ slot' = [slot EXCEPT ![o] = Plain(t, x)] /\ heap' = h
         \/ \E a \in FreeAddrs : /\ slot' = [slot EXCEPT ![o] = Box(t, a)]
                                 /\ heap' = [h EXCEPT ![a] = x]
  PROVE  /\ HollowUnspec'
         /\ \A p \in Obj :
              AV(p)' = IF p = o THEN [tag |-> t, v |-> IF unspec'[o] THEN Unspec ELSE x]
                                ELSE AV(p)
<1>0. /\ alive \in [Obj -> BOOLEAN] /\ active \in [Obj -> Tags]
      /\ slot \in [Obj -> Slots] /\ unspec \in [Obj -> BOOLEAN]
  BY DEF RInv, IInv, TypeOK
<1>1. CASE slot' = [slot EXCEPT ![o] = Plain(t, x)] /\ heap' = h
  <2>1. AV(o)' = [tag |-> t, v |-> IF unspec'[o] THEN Unspec ELSE x]
    BY <1>0, <1>1 DEF AV, GetValue, Plain
  <2>2. ASSUME NEW p \in Obj \ {o} PROVE AV(p)' = AV(p)
    <3>1. slot[p].kind = "box" /\ slot[p].ptr # Null /\ alive[p] =>
            heap'[slot[p].ptr] = heap[slot[p].ptr]
      BY <1>0, <1>1 DEF Owns, Slots
    <3>2. QED
      BY <1>0, <1>1, <3>1 DEF AV, GetValue
  <2>3. HollowUnspec'
    BY <1>0, <1>1 DEF HollowUnspec, RInv, IsHollow, Plain
  <2>4. QED
    BY <2>1, <2>2, <2>3
<1>2. CASE \E a \in FreeAddrs : /\ slot' = [slot EXCEPT ![o] = Box(t, a)]
                               /\ heap' = [h EXCEPT ![a] = x]
  <2>1. PICK a0 \in FreeAddrs : /\ slot' = [slot EXCEPT ![o] = Box(t, a0)]
                                /\ heap' = [h EXCEPT ![a0] = x]
    BY <1>2
  <2>2. a0 \in Addr /\ heap[a0] = Null /\ a0 # Null
    BY ConstAssumption DEF FreeAddrs
  <2>3. \A p \in Obj : ~Owns(p, a0)
    BY <2>2 DEF RInv, IInv, HeapOwnership, NoDangling
  <2>4. AV(o)' = [tag |-> t, v |-> IF unspec'[o] THEN Unspec ELSE x]
    BY <1>0, <2>1, <2>2 DEF AV, GetValue, Box
  <2>5. ASSUME NEW p \in Obj \ {o} PROVE AV(p)' = AV(p)
    <3>1. slot[p].kind = "box" /\ slot[p].ptr # Null /\ alive[p] =>
            heap'[slot[p].ptr] = heap[slot[p].ptr]
      BY <1>0, <2>1, <2>3 DEF Owns, Slots
    <3>2. QED
      BY <1>0, <2>1, <3>1 DEF AV, GetValue
  <2>6. HollowUnspec'
    BY <1>0, <2>1, <2>2 DEF HollowUnspec, RInv, IsHollow, Box
  <2>7. QED
    BY <2>4, <2>5, <2>6
<1>3. QED
  BY <1>1, <1>2

\* What a move leaves the donor with, on the abstract side.
LEMMA MovedFromRec ==
  ASSUME NEW a, NEW b
  PROVE  Abs!MovedFrom([tag |-> a, v |-> b]) = [tag |-> a, v |-> Unspec]
<1> DEFINE r == [tag |-> a, v |-> b]
<1>1. r = [k \in {"tag", "v"} |-> IF k = "tag" THEN a ELSE b]
  OBVIOUS
<1>2. Abs!MovedFrom(r) = [k \in {"tag", "v"} |-> IF k = "tag" THEN a ELSE Unspec]
  BY <1>1 DEF Abs!MovedFrom
<1>3. [tag |-> a, v |-> Unspec] = [k \in {"tag", "v"} |-> IF k = "tag" THEN a ELSE Unspec]
  OBVIOUS
<1>4. QED
  BY <1>2, <1>3

-----------------------------------------------------------------------------
(* Steps that change nothing the mapping reads                             *)
-----------------------------------------------------------------------------

\* Undefined behaviour only sets fault: the abstract state stutters.
LEMMA StutterAbs ==
  ASSUME RInv, UNCHANGED <<alive, active, slot, heap, unspec>>
  PROVE  HollowUnspec' /\ UNCHANGED AbsVal
BY DEF RInv, HollowUnspec, IsHollow, AbsVal, GetValue

-----------------------------------------------------------------------------
(* Construction                                                            *)
-----------------------------------------------------------------------------

\* A constructor that builds alternative t from value x in a dead location
\* is the abstract Create(o, t, x).
LEMMA CreateAbs ==
  ASSUME RInv, NEW o \in Obj, NEW t \in Tags, NEW x \in Val, ~alive[o],
         Born(o, t), Fresh(o),
         \/ slot' = [slot EXCEPT ![o] = Plain(t, x)] /\ heap' = heap
         \/ CopyInto(o, t, x, heap)
  PROVE  HollowUnspec' /\ Abs!Create(o, t, x)
<1>1. heap \in [Addr -> Val \cup {Null}] /\ unspec \in [Obj -> BOOLEAN]
  BY DEF RInv, IInv, TypeOK
<1>2. \/ slot' = [slot EXCEPT ![o] = Plain(t, x)] /\ heap' = heap
      \/ \E a \in FreeAddrs : /\ slot' = [slot EXCEPT ![o] = Box(t, a)]
                              /\ heap' = [heap EXCEPT ![a] = x]
  BY DEF CopyInto
<1>3. \A p \in Obj \ {o}, a \in Addr : Owns(p, a) => heap[a] = heap[a]
  OBVIOUS
<1>4. /\ alive' = [alive EXCEPT ![o] = TRUE]
      /\ active' = [active EXCEPT ![o] = t]
      /\ unspec' \in [Obj -> BOOLEAN] /\ unspec'[o] = FALSE
      /\ \A p \in Obj \ {o} : unspec'[p] = unspec[p]
  BY <1>1 DEF Born, Fresh
<1>5. /\ HollowUnspec'
      /\ \A p \in Obj :
           AV(p)' = IF p = o THEN [tag |-> t, v |-> IF unspec'[o] THEN Unspec ELSE x]
                             ELSE AV(p)
  BY <1>1, <1>2, <1>3, <1>4, PlaceAbs
<1>6. AbsVal[o] = Dead
  BY AVLive, AbsValDef
<1>7. AbsVal' = [AbsVal EXCEPT ![o] = [tag |-> t, v |-> x]]
  BY <1>4, <1>5, AbsExcept
<1>8. QED
  BY <1>5, <1>6, <1>7 DEF Abs!Create

LEMMA DefaultCtorAbs ==
  ASSUME RInv, NEW o \in Obj, DefaultCtor(o)
  PROVE  HollowUnspec' /\ Abs!Create(o, 0, DefaultVal)
<1>1. 0 \in Tags /\ DefaultVal \in Val
  BY ConstAssumption DEF Tags
<1>2. QED
  BY <1>1, CreateAbs DEF DefaultCtor

\* make(t) in range value-initialises alternative t; out of range it
\* reaches undefined behaviour, which the abstract state does not see.
LEMMA MakeAbs ==
  ASSUME RInv, NEW o \in Obj, NEW t \in MakeTags, Make(o, t)
  PROVE  HollowUnspec' /\ ((t \in Tags /\ Abs!Create(o, t, DefaultVal)) \/ UNCHANGED AbsVal)
<1>1. CASE t \in Tags
  <2>1. DefaultVal \in Val
    BY ConstAssumption
  <2>2. QED
    BY <1>1, <2>1, CreateAbs DEF Make, Crash
<1>2. CASE t \notin Tags
  BY <1>2, StutterAbs DEF Make, Crash
<1>3. QED
  BY <1>1, <1>2

LEMMA ValueCtorAbs ==
  ASSUME RInv, NEW o \in Obj, NEW t \in Tags, NEW x \in Val, ValueCtor(o, t, x)
  PROVE  HollowUnspec' /\ Abs!Create(o, t, x)
BY CreateAbs DEF ValueCtor

\* The copy constructor gives o the mapped value of s, Unspec included:
\* copy_ctor copies the bytes of a moved-from T as they are.
LEMMA CopyCtorAbs ==
  ASSUME RInv, NEW o \in Obj, NEW s \in Obj, CopyCtor(o, s)
  PROVE  HollowUnspec' /\ (Abs!CopyCreate(o, s) \/ UNCHANGED AbsVal)
<1>1. CASE Confused(s) \/ IsHollow(s)
  BY <1>1, StutterAbs DEF CopyCtor, Crash
<1>2. CASE ~Confused(s) /\ ~IsHollow(s)
  <2>1. /\ ~alive[o] /\ alive[s] /\ o # s
        /\ Born(o, active[s])
        /\ CopyInto(o, active[s], GetValue(s), heap)
        /\ Copied(o, s)
    BY <1>2 DEF CopyCtor, CopyCtorVisit, Crash
  <2>0. unspec \in [Obj -> BOOLEAN]
    BY DEF RInv, IInv, TypeOK
  <2>2. /\ active[s] \in Tags /\ heap \in [Addr -> Val \cup {Null}]
    BY DEF RInv, IInv, TypeOK
  <2>3. GetValue(s) \in Val
    BY <1>2, <2>1, GetValueType DEF RInv
  <2>4. /\ alive' = [alive EXCEPT ![o] = TRUE]
        /\ active' = [active EXCEPT ![o] = active[s]]
        /\ unspec' = [unspec EXCEPT ![o] = unspec[s]]
        /\ \/ slot' = [slot EXCEPT ![o] = Plain(active[s], GetValue(s))] /\ heap' = heap
           \/ \E a \in FreeAddrs :
                /\ slot' = [slot EXCEPT ![o] = Box(active[s], a)]
                /\ heap' = [heap EXCEPT ![a] = GetValue(s)]
    BY <2>1 DEF Born, Copied, CopyInto
  <2>5. \A p \in Obj \ {o}, a \in Addr : Owns(p, a) => heap[a] = heap[a]
    OBVIOUS
  <2>6. PICK t \in Tags, x \in Val : t = active[s] /\ x = GetValue(s)
    BY <2>2, <2>3
  <2>7. /\ HollowUnspec'
        /\ \A p \in Obj :
             AV(p)' = IF p = o THEN [tag |-> t, v |-> IF unspec'[o] THEN Unspec ELSE x]
                               ELSE AV(p)
    <3>1. \/ slot' = [slot EXCEPT ![o] = Plain(t, x)] /\ heap' = heap
          \/ \E a \in FreeAddrs : /\ slot' = [slot EXCEPT ![o] = Box(t, a)]
                                  /\ heap' = [heap EXCEPT ![a] = x]
      BY <2>4, <2>6
    <3>2. /\ alive' = [alive EXCEPT ![o] = TRUE]
          /\ active' = [active EXCEPT ![o] = t]
          /\ unspec' \in [Obj -> BOOLEAN] /\ unspec'[o] = unspec[s]
          /\ \A p \in Obj \ {o} : unspec'[p] = unspec[p]
      BY <2>4, <2>6, <2>0
    <3>3. t \in Tags /\ x \in Val
      BY <2>6
    <3>4. QED
      BY <2>2, <2>5, <3>1, <3>2, <3>3, PlaceAbs
  <2>8. \A p \in Obj : AV(p)' = IF p = o THEN AV(s) ELSE AV(p)
    BY <2>0, <2>1, <2>4, <2>6, <2>7 DEF AV
  <2>9. AbsVal[o] = Dead /\ AbsVal[s] # Dead /\ AbsVal[s] = AV(s)
    BY <2>1, AVLive, AbsValDef
  <2>10. QED
    BY <2>7, <2>8, <2>9, AbsExcept DEF Abs!CopyCreate
<1>3. QED
  BY <1>1, <1>2

\* The move constructor: o takes s's buffer as it is (a box its pointer),
\* s is left with its tag and an unspecified value.
LEMMA MoveCtorAbs ==
  ASSUME RInv, NEW o \in Obj, NEW s \in Obj, MoveCtor(o, s)
  PROVE  HollowUnspec' /\ (Abs!MoveCreate(o, s) \/ UNCHANGED AbsVal)
<1>1. CASE Confused(s)
  BY <1>1, StutterAbs DEF MoveCtor, Crash
<1>2. CASE ~Confused(s)
  <2>0. /\ alive \in [Obj -> BOOLEAN] /\ active \in [Obj -> Tags]
        /\ slot \in [Obj -> Slots] /\ unspec \in [Obj -> BOOLEAN]
    BY DEF RInv, IInv, TypeOK
  <2>1. PICK x \in Val :
          /\ ~alive[o] /\ alive[s] /\ o # s
          /\ alive' = [alive EXCEPT ![o] = TRUE]
          /\ active' = [active EXCEPT ![o] = active[s]]
          /\ slot' = [slot EXCEPT ![o] = slot[s], ![s] = MovedFrom(slot[s], x)]
          /\ unspec' = [unspec EXCEPT ![o] = unspec[s], ![s] = TRUE]
          /\ heap' = heap
    BY <1>2 DEF MoveCtor, Crash, Born, Moved
  <2>2. AV(o)' = AV(s)
    BY <2>0, <2>1 DEF AV, GetValue
  <2>3. AV(s)' = Abs!MovedFrom(AV(s))
    <3>1. AV(s) = [tag |-> active[s], v |-> IF unspec[s] THEN Unspec ELSE GetValue(s)]
      BY <2>1 DEF AV
    <3>2. Abs!MovedFrom([tag |-> active[s],
                         v |-> IF unspec[s] THEN Unspec ELSE GetValue(s)])
          = [tag |-> active[s], v |-> Unspec]
      BY MovedFromRec
    <3>3. AV(s)' = [tag |-> active[s], v |-> Unspec]
      BY <2>0, <2>1 DEF AV
    <3>4. QED
      BY <3>1, <3>2, <3>3
  <2>4. ASSUME NEW p \in Obj \ {o, s} PROVE AV(p)' = AV(p)
    BY <2>0, <2>1 DEF AV, GetValue
  <2>5. HollowUnspec'
    BY <2>0, <2>1 DEF RInv, HollowUnspec, IsHollow
  <2>6. AbsVal[o] = Dead /\ AbsVal[s] # Dead /\ AbsVal[s] = AV(s)
    BY <2>1, AVLive, AbsValDef
  <2>7. AbsVal' = [AbsVal EXCEPT ![o] = AV(s), ![s] = Abs!MovedFrom(AV(s))]
    BY <2>1, <2>2, <2>3, <2>4, AbsExcept2
  <2>8. QED
    BY <2>5, <2>6, <2>7 DEF Abs!MoveCreate
<1>3. QED
  BY <1>1, <1>2

-----------------------------------------------------------------------------
(* Destruction                                                             *)
-----------------------------------------------------------------------------

\* Destroying o's alternative deletes only the T that o owns: every other
\* live variant keeps the cell it owns.
LEMMA ReleasedFrame ==
  ASSUME IInv, NEW o \in Obj, alive[o]
  PROVE  \A p \in Obj \ {o}, a \in Addr :
           Owns(p, a) => Released(heap, slot[o])[a] = heap[a]
BY ReleasedAt DEF IInv, HeapOwnership, NoAlias

\* The same, at the pointer of a live box.
LEMMA ReleasedAtBox ==
  ASSUME IInv, NEW o \in Obj, alive[o], NEW p \in Obj \ {o}, alive[p],
         slot[p].kind = "box", slot[p].ptr # Null
  PROVE  /\ slot[p].ptr \in Addr
         /\ Released(heap, slot[o])[slot[p].ptr] = heap[slot[p].ptr]
<1>1. slot[p].ptr \in Addr /\ Owns(p, slot[p].ptr)
  BY DEF IInv, TypeOK, Slots, Owns
<1>2. QED
  BY <1>1, ReleasedFrame

LEMMA DestroyAbs ==
  ASSUME RInv, NEW o \in Obj, Destroy(o)
  PROVE  HollowUnspec' /\ (Abs!Destroy(o) \/ UNCHANGED AbsVal)
<1>1. CASE Confused(o)
  BY <1>1, StutterAbs DEF Destroy, Crash
<1>2. CASE ~Confused(o)
  <2>0. /\ alive \in [Obj -> BOOLEAN] /\ active \in [Obj -> Tags]
        /\ slot \in [Obj -> Slots] /\ unspec \in [Obj -> BOOLEAN]
    BY DEF RInv, IInv, TypeOK
  <2>1. /\ alive[o]
        /\ alive' = [alive EXCEPT ![o] = FALSE]
        /\ slot' = [slot EXCEPT ![o] = Raw]
        /\ heap' = Released(heap, slot[o])
        /\ unspec' = [unspec EXCEPT ![o] = FALSE]
        /\ active' = active
    BY <1>2 DEF Destroy, Crash, Fresh
  <2>2. AV(o)' = Dead
    BY <2>0, <2>1 DEF AV
  <2>3. ASSUME NEW p \in Obj \ {o} PROVE AV(p)' = AV(p)
    <3>1. alive[p] /\ slot[p].kind = "box" /\ slot[p].ptr # Null =>
            heap'[slot[p].ptr] = heap[slot[p].ptr]
      BY <2>1, ReleasedAtBox DEF RInv
    <3>2. QED
      BY <2>0, <2>1, <3>1 DEF AV, GetValue
  <2>4. HollowUnspec'
    BY <2>0, <2>1 DEF RInv, HollowUnspec, IsHollow
  <2>5. AbsVal[o] # Dead
    BY <2>1, AVLive, AbsValDef
  <2>6. AbsVal' = [AbsVal EXCEPT ![o] = Dead]
    BY <2>2, <2>3, AbsExcept
  <2>7. QED
    BY <2>4, <2>5, <2>6 DEF Abs!Destroy
<1>3. QED
  BY <1>1, <1>2

-----------------------------------------------------------------------------
(* Copy assignment                                                         *)
-----------------------------------------------------------------------------

\* Assignment between equal discriminators writes s's value into o's own
\* storage: in the buffer for a plain alternative, into the T o owns for a
\* box.  o then maps to what s maps to.
LEMMA AssignSameAbs ==
  ASSUME RInv, NEW o \in Obj, NEW s \in Obj, alive[o], alive[s], ~Confused(s),
         active[o] = active[s], AssignSame(o, s)
  PROVE  HollowUnspec' /\ (Abs!CopyAssign(o, s) \/ UNCHANGED AbsVal)
<1>0. /\ alive \in [Obj -> BOOLEAN] /\ active \in [Obj -> Tags]
      /\ slot \in [Obj -> Slots] /\ unspec \in [Obj -> BOOLEAN]
      /\ heap \in [Addr -> Val \cup {Null}]
  BY DEF RInv, IInv, TypeOK
<1>1. CASE IsHollow(s) \/ Confused(o) \/ IsHollow(o)
  <2>1. UNCHANGED <<alive, active, slot, heap, unspec>>
    BY <1>1 DEF AssignSame, Crash
  <2>2. QED
    BY <2>1, StutterAbs
<1>2. CASE ~IsHollow(s) /\ ~Confused(o) /\ ~IsHollow(o)
  <2>1. /\ unspec' = [unspec EXCEPT ![o] = unspec[s]]
        /\ alive' = alive /\ active' = active
    BY <1>2 DEF AssignSame, Copied
  <2>2. ASSUME slot[o].kind = "plain"
        PROVE  /\ HollowUnspec'
               /\ \A p \in Obj : AV(p)' = IF p = o THEN AV(s) ELSE AV(p)
    <3>1. slot' = [slot EXCEPT ![o].val = slot[s].val] /\ heap' = heap
      BY <1>2, <2>2 DEF AssignSame
    <3>2. slot[s].kind # "box"
      BY <1>2, <2>2 DEF Confused, RInv, IInv, SlotShape
    <3>3. AV(o)' = AV(s)
      BY <1>0, <2>1, <2>2, <3>1, <3>2 DEF AV, GetValue
    <3>4. ASSUME NEW p \in Obj \ {o} PROVE AV(p)' = AV(p)
      BY <1>0, <2>1, <3>1 DEF AV, GetValue
    <3>5. HollowUnspec'
      BY <1>0, <2>1, <2>2, <3>1 DEF RInv, HollowUnspec, IsHollow
    <3>6. QED
      BY <3>3, <3>4, <3>5
  <2>3. ASSUME slot[o].kind = "box"
        PROVE  /\ HollowUnspec'
               /\ \A p \in Obj : AV(p)' = IF p = o THEN AV(s) ELSE AV(p)
    <3>1. heap' = [heap EXCEPT ![slot[o].ptr] = GetValue(s)] /\ slot' = slot
      BY <1>2, <2>3 DEF AssignSame
    <3>2. slot[o].ptr \in Addr /\ Owns(o, slot[o].ptr)
      BY <1>0, <1>2, <2>3 DEF IsHollow, Slots, Owns
    <3>3. AV(o)' = AV(s)
      <4>1. GetValue(o)' = GetValue(s)
        BY <1>0, <2>3, <3>1, <3>2, ConstAssumption DEF GetValue
      <4>2. QED
        BY <1>0, <2>1, <4>1 DEF AV
    <3>4. ASSUME NEW p \in Obj \ {o} PROVE AV(p)' = AV(p)
      <4>1. alive[p] /\ slot[p].kind = "box" /\ slot[p].ptr # Null =>
              slot[p].ptr # slot[o].ptr
        BY <3>2 DEF RInv, IInv, HeapOwnership, NoAlias, Owns
      <4>2. QED
        BY <1>0, <2>1, <3>1, <4>1 DEF AV, GetValue
    <3>5. HollowUnspec'
      BY <1>0, <1>2, <2>1, <3>1 DEF RInv, HollowUnspec, IsHollow
    <3>6. QED
      BY <3>3, <3>4, <3>5
  <2>4. slot[o].kind \in {"plain", "box"}
    BY <1>0 DEF RInv, IInv, SlotShape, Slots, Kinds
  <2>5. /\ HollowUnspec'
        /\ \A p \in Obj : AV(p)' = IF p = o THEN AV(s) ELSE AV(p)
    BY <2>2, <2>3, <2>4
  <2>6. AbsVal[o] # Dead /\ AbsVal[s] # Dead /\ AbsVal[s] = AV(s)
    BY AVLive, AbsValDef
  <2>7. QED
    BY <2>5, <2>6, AbsExcept DEF Abs!CopyAssign
<1>3. QED
  BY <1>1, <1>2

\* Assignment between different discriminators copies s's value first,
\* then destroys o's alternative and constructs the copy in its place: o
\* maps to what s maps to, and the T o owned is deleted, which no other
\* variant owns.
LEMMA AssignOtherAbs ==
  ASSUME RInv, NEW o \in Obj, NEW s \in Obj, alive[o], alive[s], ~Confused(s),
         active[o] # active[s], AssignOther(o, s)
  PROVE  HollowUnspec' /\ (Abs!CopyAssign(o, s) \/ UNCHANGED AbsVal)
<1>0. /\ alive \in [Obj -> BOOLEAN] /\ active \in [Obj -> Tags]
      /\ slot \in [Obj -> Slots] /\ unspec \in [Obj -> BOOLEAN]
  BY DEF RInv, IInv, TypeOK
<1>1. CASE IsHollow(s) \/ Confused(o)
  <2>1. UNCHANGED <<alive, active, slot, heap, unspec>>
    BY <1>1 DEF AssignOther, Crash
  <2>2. QED
    BY <2>1, StutterAbs
<1>2. CASE ~IsHollow(s) /\ ~Confused(o)
  <2>1. /\ active' = [active EXCEPT ![o] = active[s]]
        /\ CopyInto(o, active[s], GetValue(s), Released(heap, slot[o]))
        /\ unspec' = [unspec EXCEPT ![o] = unspec[s]]
        /\ alive' = alive
    BY <1>2 DEF AssignOther, Copied
  <2>2. GetValue(s) \in Val
    BY <1>2, GetValueType DEF RInv
  <2>3. PICK t \in Tags, x \in Val, h \in [Addr -> Val \cup {Null}] :
          t = active[s] /\ x = GetValue(s) /\ h = Released(heap, slot[o])
    BY <1>0, <2>2, ReleasedAt DEF RInv
  <2>4. /\ t \in Tags /\ x \in Val /\ h \in [Addr -> Val \cup {Null}]
        /\ \A p \in Obj \ {o}, a \in Addr : Owns(p, a) => h[a] = heap[a]
    BY <2>3, ReleasedFrame DEF RInv
  <2>5. /\ alive' = [alive EXCEPT ![o] = TRUE]
        /\ active' = [active EXCEPT ![o] = t]
        /\ unspec' \in [Obj -> BOOLEAN] /\ unspec'[o] = unspec[s]
        /\ \A p \in Obj \ {o} : unspec'[p] = unspec[p]
        /\ \/ slot' = [slot EXCEPT ![o] = Plain(t, x)] /\ heap' = h
           \/ \E a \in FreeAddrs : /\ slot' = [slot EXCEPT ![o] = Box(t, a)]
                                   /\ heap' = [h EXCEPT ![a] = x]
    BY <1>0, <2>1, <2>3 DEF CopyInto
  <2>6. /\ HollowUnspec'
        /\ \A p \in Obj :
             AV(p)' = IF p = o THEN [tag |-> t, v |-> IF unspec'[o] THEN Unspec ELSE x]
                               ELSE AV(p)
    BY <2>4, <2>5, PlaceAbs, ZenonT(60)
  <2>7. \A p \in Obj : AV(p)' = IF p = o THEN AV(s) ELSE AV(p)
    BY <2>3, <2>5, <2>6 DEF AV
  <2>8. AbsVal[o] # Dead /\ AbsVal[s] # Dead /\ AbsVal[s] = AV(s)
    BY AVLive, AbsValDef
  <2>9. QED
    BY <2>6, <2>7, <2>8, AbsExcept DEF Abs!CopyAssign
<1>3. QED
  BY <1>1, <1>2

\* variant::operator=(const variant&) refines the abstract copy assignment.
LEMMA CopyAssignAbs ==
  ASSUME RInv, NEW o \in Obj, NEW s \in Obj, CopyAssign(o, s)
  PROVE  HollowUnspec' /\ (Abs!CopyAssign(o, s) \/ UNCHANGED AbsVal)
<1>1. CASE Confused(s)
  BY <1>1, StutterAbs DEF CopyAssign, Crash
<1>2. CASE ~Confused(s) /\ active[o] = active[s]
  BY <1>2, AssignSameAbs DEF CopyAssign
<1>3. CASE ~Confused(s) /\ active[o] # active[s]
  BY <1>3, AssignOtherAbs DEF CopyAssign
<1>4. QED
  BY <1>1, <1>2, <1>3

-----------------------------------------------------------------------------
(* Move assignment                                                         *)
-----------------------------------------------------------------------------

\* The abstract donor of a move keeps its tag and holds Unspec.
LEMMA AVMoved ==
  ASSUME NEW s \in Obj, alive[s]
  PROVE  Abs!MovedFrom(AV(s)) = [tag |-> active[s], v |-> Unspec]
<1>1. AV(s) = [tag |-> active[s], v |-> IF unspec[s] THEN Unspec ELSE GetValue(s)]
  BY DEF AV
<1>2. QED
  BY <1>1, MovedFromRec

\* A move assignment whose locations map as the abstract one says is one.
LEMMA MoveAssignFinish ==
  ASSUME RInv, NEW o \in Obj, NEW s \in Obj, alive[o], alive[s],
         \A p \in Obj : AV(p)' = IF p = s THEN [tag |-> active[s], v |-> Unspec]
                                 ELSE IF p = o THEN AV(s) ELSE AV(p)
  PROVE  Abs!MoveAssign(o, s)
<1>1. AbsVal[o] # Dead /\ AbsVal[s] # Dead /\ AbsVal[s] = AV(s)
  BY AVLive, AbsValDef
<1>2. Abs!MovedFrom(AV(s)) = [tag |-> active[s], v |-> Unspec]
  BY AVMoved
<1>3. AbsVal' = [AbsVal EXCEPT ![o] = AV(s), ![s] = [tag |-> active[s], v |-> Unspec]]
  BY AbsValDef
<1>4. QED
  BY <1>1, <1>2, <1>3 DEF Abs!MoveAssign

\* Move assignment between equal discriminators: the plain alternative is
\* move-assigned in the buffer, so o maps to what s mapped to and s to its
\* tag with Unspec (move assignment compiles only without boxed
\* alternatives).
LEMMA MoveAssignSameAbs ==
  ASSUME RInv, NEW o \in Obj, NEW s \in Obj, alive[o], alive[s], ~Confused(s),
         active[o] = active[s], Boxed = {}, MoveAssignSame(o, s)
  PROVE  HollowUnspec' /\ (Abs!MoveAssign(o, s) \/ UNCHANGED AbsVal)
<1>0. /\ alive \in [Obj -> BOOLEAN] /\ active \in [Obj -> Tags]
      /\ slot \in [Obj -> Slots] /\ unspec \in [Obj -> BOOLEAN]
      /\ heap \in [Addr -> Val \cup {Null}]
  BY DEF RInv, IInv, TypeOK
<1>1. CASE Confused(o)
  BY <1>1 DEF Confused
<1>2. CASE ~Confused(o) /\ slot[o].kind = "plain"
  <2>1. PICK x \in Val :
          /\ slot' = [slot EXCEPT ![o].val = slot[s].val, ![s].val = x]
          /\ unspec' = [unspec EXCEPT ![o] = unspec[s], ![s] = TRUE]
          /\ UNCHANGED <<alive, active, heap>>
    BY <1>2 DEF MoveAssignSame, Moved
  <2>2. slot[s].kind # "box"
    BY <1>2 DEF Confused, RInv, IInv, SlotShape
  <2>3. AV(s)' = [tag |-> active[s], v |-> Unspec]
    BY <1>0, <2>1 DEF AV
  <2>8. /\ \A p \in Obj : slot'[p].kind = slot[p].kind
        /\ o # s => slot'[o].val = slot[s].val
        /\ \A p \in Obj \ {o, s} : slot'[p] = slot[p]
    BY <1>0, <2>1 DEF Slots
  <2>4. o # s => AV(o)' = AV(s)
    BY <1>0, <1>2, <2>1, <2>2, <2>8 DEF AV, GetValue
  <2>5. ASSUME NEW p \in Obj \ {o, s} PROVE AV(p)' = AV(p)
    BY <1>0, <2>1, <2>8 DEF AV, GetValue
  <2>6. HollowUnspec'
    BY <1>0, <1>2, <2>1, <2>2, <2>8 DEF RInv, HollowUnspec, IsHollow
  <2>7. QED
    BY <2>3, <2>4, <2>5, <2>6, MoveAssignFinish
<1>3. slot[o].kind = "plain"
  BY <1>0 DEF RInv, IInv, SlotShape, Slots, Kinds
<1>4. QED
  BY <1>1, <1>2, <1>3

\* Move assignment between different discriminators: o's alternative is
\* destroyed and s's buffer is moved into o's.
LEMMA MoveAssignOtherAbs ==
  ASSUME RInv, NEW o \in Obj, NEW s \in Obj, alive[o], alive[s], ~Confused(s),
         active[o] # active[s], Boxed = {}, MoveAssignOther(o, s)
  PROVE  HollowUnspec' /\ (Abs!MoveAssign(o, s) \/ UNCHANGED AbsVal)
<1>0. /\ alive \in [Obj -> BOOLEAN] /\ active \in [Obj -> Tags]
      /\ slot \in [Obj -> Slots] /\ unspec \in [Obj -> BOOLEAN]
  BY DEF RInv, IInv, TypeOK
<1>1. CASE Confused(o)
  BY <1>1 DEF Confused
<1>2. CASE ~Confused(o)
  <2>1. PICK x \in Val :
          /\ active' = [active EXCEPT ![o] = active[s]]
          /\ slot' = [slot EXCEPT ![o] = slot[s], ![s] = MovedFrom(slot[s], x)]
          /\ heap' = Released(heap, slot[o])
          /\ unspec' = [unspec EXCEPT ![o] = unspec[s], ![s] = TRUE]
          /\ alive' = alive
    BY <1>2 DEF MoveAssignOther, Moved
  <2>2. o # s
    OBVIOUS
  <2>3. /\ slot'[o] = slot[s]
        /\ slot'[s].kind = slot[s].kind
        /\ \A p \in Obj \ {o, s} : slot'[p] = slot[p]
    BY <1>0, <2>1, <2>2, MovedFromType
  <2>4. slot[s].kind = "box" /\ slot[s].ptr # Null =>
          heap'[slot[s].ptr] = heap[slot[s].ptr]
    BY <2>1, <2>2, ReleasedAtBox DEF RInv
  <2>5. AV(o)' = AV(s)
    BY <1>0, <2>1, <2>2, <2>3, <2>4 DEF AV, GetValue
  <2>6. AV(s)' = [tag |-> active[s], v |-> Unspec]
    BY <1>0, <2>1, <2>2 DEF AV
  <2>7. ASSUME NEW p \in Obj \ {o, s} PROVE AV(p)' = AV(p)
    <3>1. alive[p] /\ slot[p].kind = "box" /\ slot[p].ptr # Null =>
            heap'[slot[p].ptr] = heap[slot[p].ptr]
      BY <2>1, ReleasedAtBox DEF RInv
    <3>2. QED
      BY <1>0, <2>1, <2>3, <3>1 DEF AV, GetValue
  <2>8. HollowUnspec'
    BY <1>0, <2>1, <2>2, <2>3 DEF RInv, HollowUnspec, IsHollow
  <2>9. QED
    BY <2>5, <2>6, <2>7, <2>8, MoveAssignFinish
<1>3. QED
  BY <1>1, <1>2

\* variant::operator=(variant&&) refines the abstract move assignment.
LEMMA MoveAssignAbs ==
  ASSUME RInv, NEW o \in Obj, NEW s \in Obj, MoveAssign(o, s)
  PROVE  HollowUnspec' /\ (Abs!MoveAssign(o, s) \/ UNCHANGED AbsVal)
<1>1. Boxed = {} /\ ~Confused(s)
  BY DEF MoveAssign, MoveAssignCompiles, Confused
<1>2. CASE active[o] = active[s]
  BY <1>1, <1>2, MoveAssignSameAbs DEF MoveAssign
<1>3. CASE active[o] # active[s]
  BY <1>1, <1>3, MoveAssignOtherAbs DEF MoveAssign
<1>4. QED
  BY <1>2, <1>3

\* A read either changes nothing or reaches undefined behaviour.
LEMMA ReadAbs ==
  ASSUME RInv, NEW o \in Obj, Read(o)
  PROVE  HollowUnspec' /\ UNCHANGED AbsVal
BY StutterAbs DEF Read, Crash

-----------------------------------------------------------------------------
(* The step and the theorems                                               *)
-----------------------------------------------------------------------------

\* Each abstract action, taken by some locations, is a step of Abs!Next.
LEMMA AbsNextIntro ==
  ASSUME NEW o \in Obj, NEW s \in Obj
  PROVE  /\ \A t \in Tags, x \in Val : Abs!Create(o, t, x) => Abs!Next
         /\ Abs!CopyCreate(o, s) => Abs!Next
         /\ Abs!MoveCreate(o, s) => Abs!Next
         /\ Abs!CopyAssign(o, s) => Abs!Next
         /\ Abs!MoveAssign(o, s) => Abs!Next
         /\ Abs!Destroy(o) => Abs!Next
BY DEF Abs!Next, Abs!Tags, Tags

LEMMA NextAbs ==
  ASSUME RInv, [Next]_vars
  PROVE  HollowUnspec' /\ AbsStep
<1>1. CASE UNCHANGED vars
  BY <1>1, StutterAbs DEF vars, AbsStep
<1>2. CASE Next
  <2>1. PICK o \in Obj, s \in Obj :
          \/ DefaultCtor(o)
          \/ \E t \in MakeTags : Make(o, t)
          \/ \E t \in Tags, x \in Val : ValueCtor(o, t, x)
          \/ CopyCtor(o, s)
          \/ MoveCtor(o, s)
          \/ CopyAssign(o, s)
          \/ MoveAssign(o, s)
          \/ Destroy(o)
          \/ Read(o)
    BY <1>2 DEF Next
  <2>2. 0 \in Tags /\ DefaultVal \in Val
    BY ConstAssumption DEF Tags
  <2>3. CASE DefaultCtor(o)
    BY <2>2, <2>3, DefaultCtorAbs, AbsNextIntro DEF AbsStep
  <2>4. CASE \E t \in MakeTags : Make(o, t)
    <3>1. PICK t \in MakeTags : Make(o, t)
      BY <2>4
    <3>2. HollowUnspec' /\ ((t \in Tags /\ Abs!Create(o, t, DefaultVal)) \/ UNCHANGED AbsVal)
      BY <3>1, MakeAbs
    <3>3. QED
      BY <2>2, <3>2, AbsNextIntro DEF AbsStep
  <2>5. CASE \E t \in Tags, x \in Val : ValueCtor(o, t, x)
    BY <2>5, ValueCtorAbs, AbsNextIntro DEF AbsStep
  <2>6. CASE CopyCtor(o, s)
    BY <2>6, CopyCtorAbs, AbsNextIntro DEF AbsStep
  <2>7. CASE MoveCtor(o, s)
    BY <2>7, MoveCtorAbs, AbsNextIntro DEF AbsStep
  <2>8. CASE CopyAssign(o, s)
    BY <2>8, CopyAssignAbs, AbsNextIntro DEF AbsStep
  <2>9. CASE MoveAssign(o, s)
    BY <2>9, MoveAssignAbs, AbsNextIntro DEF AbsStep
  <2>10. CASE Destroy(o)
    BY <2>10, DestroyAbs, AbsNextIntro DEF AbsStep
  <2>11. CASE Read(o)
    BY <2>11, ReadAbs DEF AbsStep
  <2>12. QED
    BY <2>1, <2>3, <2>4, <2>5, <2>6, <2>7, <2>8, <2>9, <2>10, <2>11
<1>3. QED
  BY <1>1, <1>2

LEMMA InitRInv == Init => RInv
BY InitIInv DEF Init, RInv, HollowUnspec

LEMMA InitAbs == Init => Abs!Init
BY DEF Init, AbsVal, Abs!Init

LEMMA RInvInvariant == Spec => []RInv
<1>1. RInv /\ [Next]_vars => RInv'
  BY NextIInv, NextAbs DEF RInv
<1>2. QED
  BY InitRInv, <1>1, PTL DEF Spec

\* A live variant whose recursive_wrapper holds a null unique_ptr is always
\* the donor of an earlier move (move_ctor or move_assigner): no
\* constructor, copy or assignment ever leaves a box hollow.
THEOREM HollowOnlyAfterMove == Spec => []HollowUnspec
BY RInvInvariant, PTL DEF RInv

\* The variant lifecycle implements the value specification: under the
\* mapping AbsVal (tag and get_value of each live variant, Unspec for a
\* move donor), every behaviour of the constructors, assignments,
\* destructor and reads of variant.hh is a behaviour of VariantValue, in
\* which a copy is an equal value, a move transfers the value and leaves
\* the donor unspecified, and undefined behaviour is a stutter.
THEOREM Refinement == Spec => ImplementsValueSpec
<1>1. RInv /\ [Next]_vars => [Abs!Next]_AbsVal
  BY NextAbs DEF AbsStep
<1>2. QED
  BY RInvInvariant, InitAbs, <1>1, PTL DEF Spec, ImplementsValueSpec, Abs!Spec
=============================================================================
