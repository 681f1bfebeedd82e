---------------------------- MODULE VariantProofs ----------------------------
(***************************************************************************)
(* Proofs about the lifecycle engine of Variant.tla, for every number of   *)
(* alternatives, every set of boxed alternatives, values, locations and    *)
(* heap addresses.                                                         *)
(*                                                                         *)
(* TypeOK is not inductive by itself: copying a box whose pointer dangles  *)
(* would place Null in a buffer as a value.  The inductive invariant is    *)
(* IInv == TypeOK /\ HeapOwnership /\ SlotShape.  Its parts need each      *)
(* other: a fresh address is unowned only because no live box dangles      *)
(* (NoDangling); freeing one box's T leaves no other box dangling only     *)
(* because no two boxes share it (NoAlias); and a move assignment between  *)
(* equal discriminators hands a pointer over only because a box target     *)
(* implies a boxed tag and so a box source (SlotShape).                    *)
(*                                                                         *)
(* Each action lemma first states the successor state, then describes     *)
(* ownership and the heap after the step pointwise (Owns(p, a)' and        *)
(* heap'[a] in terms of the old state); the three ownership conjuncts      *)
(* follow from those descriptions.                                         *)
(***************************************************************************)
EXTENDS Variant, TLAPS

IInv == TypeOK /\ HeapOwnership /\ SlotShape

USE ConstAssumption

-----------------------------------------------------------------------------
(* Facts about the helpers                                                 *)
-----------------------------------------------------------------------------

LEMMA ReleasedType ==
  ASSUME NEW h \in [Addr -> Val \cup {Null}], NEW sl \in Slots
  PROVE  Released(h, sl) \in [Addr -> Val \cup {Null}]
BY DEF Released, Slots

\* Destroying the alternative of a live variant frees exactly what it owns.
LEMMA ReleasedAt ==
  ASSUME IInv, NEW o \in Obj, alive[o]
  PROVE  /\ Released(heap, slot[o]) \in [Addr -> Val \cup {Null}]
         /\ \A a \in Addr :
              Released(heap, slot[o])[a] = IF Owns(o, a) THEN Null ELSE heap[a]
<1>1. slot[o] \in Slots /\ heap \in [Addr -> Val \cup {Null}]
  BY DEF IInv, TypeOK
<1>2. QED
  BY <1>1, ReleasedType DEF Released, Owns, Slots

\* A readable variant's value is a value: no live box dangles.
LEMMA GetValueType ==
  ASSUME IInv, NEW o \in Obj, alive[o], ~IsHollow(o)
  PROVE  GetValue(o) \in Val
BY DEF IInv, TypeOK, HeapOwnership, NoDangling, Owns, GetValue, IsHollow, Slots

\* What a move leaves in the donor's buffer keeps its shape and owns nothing.
LEMMA MovedFromType ==
  ASSUME NEW sl \in Slots, NEW x \in Val
  PROVE  /\ MovedFrom(sl, x) \in Slots
         /\ MovedFrom(sl, x).kind = sl.kind
         /\ MovedFrom(sl, x).alt = sl.alt
         /\ MovedFrom(sl, x).ptr = IF sl.kind = "box" THEN Null ELSE sl.ptr
BY DEF MovedFrom, Slots

-----------------------------------------------------------------------------
(* One lemma per action                                                    *)
-----------------------------------------------------------------------------

LEMMA InitIInv == Init => IInv
BY DEF Init, IInv, TypeOK, HeapOwnership, NoLeak, NoAlias, NoDangling, Owns,
       SlotShape, Slots, Raw, Tags, Kinds, Faults

LEMMA CrashIInv ==
  ASSUME IInv, NEW k \in Faults, Crash(k)
  PROVE  IInv'
BY DEF IInv, TypeOK, HeapOwnership, NoLeak, NoAlias, NoDangling, Owns,
       SlotShape, Crash

LEMMA DefaultCtorIInv ==
  ASSUME IInv, NEW o \in Obj, DefaultCtor(o)
  PROVE  IInv'
BY DEF IInv, TypeOK, HeapOwnership, NoLeak, NoAlias, NoDangling, Owns,
       SlotShape, DefaultCtor, Born, Fresh, Plain, Slots, Tags, Kinds

LEMMA MakeIInv ==
  ASSUME IInv, NEW o \in Obj, NEW t \in MakeTags, Make(o, t)
  PROVE  IInv'
<1>1. CASE t \in Tags
  <2>1. /\ ~alive[o]
        /\ Born(o, t)
        /\ slot' = [slot EXCEPT ![o] = Plain(t, DefaultVal)]
        /\ Fresh(o)
        /\ UNCHANGED <<heap, fault>>
    BY <1>1 DEF Make
  <2> QED BY <1>1, <2>1 DEF IInv, TypeOK, HeapOwnership, NoLeak, NoAlias, NoDangling, Owns,
                            SlotShape, Born, Fresh, Plain, Slots, Tags, Kinds
<1>2. CASE t \notin Tags
  <2>1. Crash("bad_tag")
    BY <1>2 DEF Make
  <2> QED BY <2>1, CrashIInv DEF Faults
<1> QED BY <1>1, <1>2

\* Constructing alternative t in a location that holds no variant: an
\* inline alternative changes no ownership, a box owns a fresh address.
LEMMA CopyIntoDeadIInv ==
  ASSUME IInv, NEW o \in Obj, ~alive[o], NEW t \in Tags, NEW x \in Val,
         alive' = [alive EXCEPT ![o] = TRUE],
         active' = [active EXCEPT ![o] = t],
         fault' \in Faults, unspec' \in [Obj -> BOOLEAN],
         CopyInto(o, t, x, heap)
  PROVE  IInv'
<1>1. CASE t \notin Boxed /\ slot' = [slot EXCEPT ![o] = Plain(t, x)] /\ heap' = heap
  <2>1. TypeOK'
    BY <1>1 DEF IInv, TypeOK, Plain, Slots, Kinds
  <2>2. \A p \in Obj, a \in Addr : Owns(p, a)' <=> Owns(p, a)
    BY <1>1 DEF Owns, Plain, IInv, TypeOK
  <2>3. SlotShape'
    BY <1>1 DEF IInv, SlotShape, TypeOK, Plain
  <2>4. QED
    BY <1>1, <2>1, <2>2, <2>3 DEF IInv, HeapOwnership, NoLeak, NoAlias, NoDangling
<1>2. CASE t \in Boxed /\ \E a \in FreeAddrs : /\ slot' = [slot EXCEPT ![o] = Box(t, a)]
                                              /\ heap' = [heap EXCEPT ![a] = x]
  <2>1. PICK a0 \in FreeAddrs : /\ slot' = [slot EXCEPT ![o] = Box(t, a0)]
                                /\ heap' = [heap EXCEPT ![a0] = x]
    BY <1>2
  <2>2. a0 \in Addr /\ heap[a0] = Null
    BY DEF FreeAddrs
  <2>3. TypeOK'
    BY <2>1, <2>2 DEF IInv, TypeOK, Box, Slots, Kinds
  <2>4. \A p \in Obj, a \in Addr : Owns(p, a)' <=> (Owns(p, a) \/ (p = o /\ a = a0))
    BY <2>1, <2>2 DEF Owns, Box, IInv, TypeOK
  <2>5. \A p \in Obj : ~Owns(p, a0)
    BY <2>2 DEF IInv, HeapOwnership, NoDangling
  <2>6. \A a \in Addr : ~Owns(o, a)
    BY DEF Owns
  <2>7. \A a \in Addr : heap'[a] = IF a = a0 THEN x ELSE heap[a]
    BY <2>1, <2>2 DEF IInv, TypeOK
  <2>8. NoLeak'
    BY <2>4, <2>7 DEF IInv, HeapOwnership, NoLeak
  <2>9. NoAlias'
    BY <2>4, <2>5, <2>6 DEF IInv, HeapOwnership, NoAlias
  <2>10. NoDangling'
    BY <2>4, <2>7 DEF IInv, HeapOwnership, NoDangling
  <2>11. SlotShape'
    BY <1>2, <2>1 DEF IInv, SlotShape, TypeOK, Box
  <2>12. QED
    BY <2>3, <2>8, <2>9, <2>10, <2>11 DEF IInv, HeapOwnership
<1>3. QED
  BY <1>1, <1>2 DEF CopyInto

\* Replacing the alternative of a live variant by a copy of alternative t:
\* what it owned is freed first, a box then owns a fresh address.
LEMMA CopyIntoLiveIInv ==
  ASSUME IInv, NEW o \in Obj, alive[o], NEW t \in Tags, NEW x \in Val,
         alive' = alive,
         active' = [active EXCEPT ![o] = t],
         fault' \in Faults, unspec' \in [Obj -> BOOLEAN],
         CopyInto(o, t, x, Released(heap, slot[o]))
  PROVE  IInv'
<1> DEFINE h1 == Released(heap, slot[o])
<1>1. /\ h1 \in [Addr -> Val \cup {Null}]
      /\ \A a \in Addr : h1[a] = IF Owns(o, a) THEN Null ELSE heap[a]
  BY ReleasedAt
<1>2. CASE t \notin Boxed /\ slot' = [slot EXCEPT ![o] = Plain(t, x)] /\ heap' = h1
  <2>1. TypeOK'
    BY <1>1, <1>2 DEF IInv, TypeOK, Plain, Slots, Kinds
  <2>2. \A p \in Obj, a \in Addr : Owns(p, a)' <=> (p # o /\ Owns(p, a))
    BY <1>2 DEF Owns, Plain, IInv, TypeOK
  <2>3. NoLeak'
    BY <1>1, <1>2, <2>2 DEF IInv, HeapOwnership, NoLeak
  <2>4. NoAlias'
    BY <2>2 DEF IInv, HeapOwnership, NoAlias
  <2>5. NoDangling'
    BY <1>1, <1>2, <2>2 DEF IInv, HeapOwnership, NoDangling, NoAlias
  <2>6. SlotShape'
    BY <1>2 DEF IInv, SlotShape, TypeOK, Plain
  <2>7. QED
    BY <2>1, <2>3, <2>4, <2>5, <2>6 DEF IInv, HeapOwnership
<1>3. CASE t \in Boxed /\ \E a \in FreeAddrs : /\ slot' = [slot EXCEPT ![o] = Box(t, a)]
                                              /\ heap' = [h1 EXCEPT ![a] = x]
  <2>1. PICK a0 \in FreeAddrs : /\ slot' = [slot EXCEPT ![o] = Box(t, a0)]
                                /\ heap' = [h1 EXCEPT ![a0] = x]
    BY <1>3
  <2>2. a0 \in Addr /\ heap[a0] = Null
    BY DEF FreeAddrs
  <2>3. \A p \in Obj : ~Owns(p, a0)
    BY <2>2 DEF IInv, HeapOwnership, NoDangling
  <2>4. TypeOK'
    BY <1>1, <2>1, <2>2 DEF IInv, TypeOK, Box, Slots, Kinds
  <2>5. \A p \in Obj, a \in Addr :
          Owns(p, a)' <=> ((p # o /\ Owns(p, a)) \/ (p = o /\ a = a0))
    BY <2>1, <2>2 DEF Owns, Box, IInv, TypeOK
  <2>6. \A a \in Addr :
          heap'[a] = IF a = a0 THEN x ELSE IF Owns(o, a) THEN Null ELSE heap[a]
    BY <1>1, <2>1, <2>2
  <2>7. NoLeak'
    BY <2>5, <2>6 DEF IInv, HeapOwnership, NoLeak
  <2>8. NoAlias'
    BY <2>3, <2>5 DEF IInv, HeapOwnership, NoAlias
  <2>9. NoDangling'
    BY <2>3, <2>5, <2>6 DEF IInv, HeapOwnership, NoDangling, NoAlias
  <2>10. SlotShape'
    BY <1>3, <2>1 DEF IInv, SlotShape, TypeOK, Box
  <2>11. QED
    BY <2>4, <2>7, <2>8, <2>9, <2>10 DEF IInv, HeapOwnership
<1>4. QED
  BY <1>2, <1>3 DEF CopyInto

LEMMA ValueCtorIInv ==
  ASSUME IInv, NEW o \in Obj, NEW t \in Tags, NEW x \in Val, ValueCtor(o, t, x)
  PROVE  IInv'
BY CopyIntoDeadIInv DEF ValueCtor, Born, Fresh, IInv, TypeOK, Tags

LEMMA CopyCtorIInv ==
  ASSUME IInv, NEW o \in Obj, NEW s \in Obj, CopyCtor(o, s)
  PROVE  IInv'
<1>1. CASE Confused(s) \/ IsHollow(s)
  BY <1>1, CrashIInv DEF CopyCtor, Faults
<1>2. CASE ~Confused(s) /\ ~IsHollow(s)
  <2>1. GetValue(s) \in Val /\ active[s] \in Tags
    BY <1>2, GetValueType DEF CopyCtor, CopyCtorVisit, IInv, TypeOK
  <2>2. QED
    BY <1>2, <2>1, CopyIntoDeadIInv DEF CopyCtor, CopyCtorVisit, Born, Copied, IInv, TypeOK
<1>3. QED
  BY <1>1, <1>2

LEMMA MoveCtorIInv ==
  ASSUME IInv, NEW o \in Obj, NEW s \in Obj, MoveCtor(o, s)
  PROVE  IInv'
<1>1. CASE Confused(s)
  BY <1>1, CrashIInv DEF MoveCtor, Faults, Confused
<1>2. CASE ~Confused(s)
  <2>1. PICK x \in Val :
          /\ alive' = [alive EXCEPT ![o] = TRUE]
          /\ active' = [active EXCEPT ![o] = active[s]]
          /\ slot' = [slot EXCEPT ![o] = slot[s], ![s] = MovedFrom(slot[s], x)]
          /\ unspec' = [unspec EXCEPT ![o] = unspec[s], ![s] = TRUE]
          /\ UNCHANGED <<heap, fault>>
    BY <1>2 DEF MoveCtor, Born, Moved
  <2>2. ~alive[o] /\ alive[s] /\ o # s
    BY DEF MoveCtor
  <2>3. LET m == MovedFrom(slot[s], x)
        IN  /\ m \in Slots
            /\ m.kind = slot[s].kind /\ m.alt = slot[s].alt
            /\ m.ptr = IF slot[s].kind = "box" THEN Null ELSE slot[s].ptr
    BY MovedFromType DEF IInv, TypeOK
  <2>4. TypeOK'
    BY <2>1, <2>3 DEF IInv, TypeOK
  <2>5. \A p \in Obj, a \in Addr :
          Owns(p, a)' <=> (p = o /\ Owns(s, a)) \/ (p # o /\ p # s /\ Owns(p, a))
    BY <2>1, <2>2, <2>3 DEF Owns, IInv, TypeOK
  <2>6. \A a \in Addr : ~Owns(o, a)
    BY <2>2 DEF Owns
  <2>7. SlotShape'
    BY <2>1, <2>2, <2>3 DEF IInv, SlotShape, TypeOK
  <2>8. QED
    BY <2>1, <2>4, <2>5, <2>6, <2>7 DEF IInv, HeapOwnership, NoLeak, NoAlias, NoDangling
<1>3. QED
  BY <1>1, <1>2

LEMMA DestroyIInv ==
  ASSUME IInv, NEW o \in Obj, Destroy(o)
  PROVE  IInv'
<1>1. CASE Confused(o)
  BY <1>1, CrashIInv DEF Destroy, Faults, Confused
<1>2. CASE ~Confused(o)
  <2>1. /\ alive' = [alive EXCEPT ![o] = FALSE]
        /\ slot' = [slot EXCEPT ![o] = Raw]
        /\ heap' = Released(heap, slot[o])
        /\ unspec' = [unspec EXCEPT ![o] = FALSE]
        /\ UNCHANGED <<active, fault>>
    BY <1>2 DEF Destroy, Fresh
  <2>2. /\ heap' \in [Addr -> Val \cup {Null}]
        /\ \A a \in Addr : heap'[a] = IF Owns(o, a) THEN Null ELSE heap[a]
    BY <2>1, ReleasedAt DEF Destroy
  <2>3. TypeOK'
    BY <2>1, <2>2 DEF IInv, TypeOK, Raw, Slots, Tags, Kinds
  <2>4. \A p \in Obj, a \in Addr : Owns(p, a)' <=> (p # o /\ Owns(p, a))
    BY <2>1 DEF Owns, Raw, IInv, TypeOK
  <2>5. NoLeak'
    BY <2>2, <2>4 DEF NoLeak, IInv, HeapOwnership
  <2>6. NoAlias'
    BY <2>4 DEF NoAlias, IInv, HeapOwnership
  <2>7. NoDangling'
    BY <2>2, <2>4 DEF NoDangling, NoAlias, IInv, HeapOwnership
  <2>8. SlotShape'
    BY <2>1 DEF IInv, SlotShape, TypeOK
  <2>9. QED
    BY <2>3, <2>5, <2>6, <2>7, <2>8 DEF IInv, HeapOwnership
<1>3. QED
  BY <1>1, <1>2

\* Copy assignment between equal discriminators writes a value into the
\* target's own storage: its inline value, or the T its box owns.
LEMMA AssignSameIInv ==
  ASSUME IInv, NEW o \in Obj, NEW s \in Obj, alive[o], alive[s],
         AssignSame(o, s)
  PROVE  IInv'
<1>1. CASE Confused(o) \/ IsHollow(s) \/ IsHollow(o)
  BY <1>1, CrashIInv DEF AssignSame, Faults
<1>2. CASE ~Confused(o) /\ ~IsHollow(s) /\ ~IsHollow(o)
  <2>1. GetValue(s) \in Val
    BY <1>2, GetValueType
  <2>2. /\ alive' = alive /\ active' = active /\ fault' = fault
        /\ unspec' = [unspec EXCEPT ![o] = unspec[s]]
    BY <1>2 DEF AssignSame, Copied
  <2>3. CASE slot[o].kind = "plain" /\ slot' = [slot EXCEPT ![o].val = slot[s].val]
             /\ heap' = heap
    <3>1. slot[s].val \in Val
      BY DEF IInv, TypeOK, Slots
    <3>2. TypeOK'
      BY <2>2, <2>3, <3>1 DEF IInv, TypeOK, Slots
    <3>3. \A p \in Obj, a \in Addr : Owns(p, a)' <=> Owns(p, a)
      BY <2>2, <2>3 DEF Owns, IInv, TypeOK
    <3>4. SlotShape'
      BY <2>2, <2>3 DEF IInv, SlotShape, TypeOK
    <3>5. QED
      BY <2>3, <3>2, <3>3, <3>4 DEF IInv, HeapOwnership, NoLeak, NoAlias, NoDangling
  <2>4. CASE slot[o].kind = "box" /\ heap' = [heap EXCEPT ![slot[o].ptr] = GetValue(s)]
             /\ slot' = slot
    <3>1. slot[o].ptr \in Addr /\ Owns(o, slot[o].ptr)
      BY <1>2, <2>4 DEF IsHollow, Owns, IInv, TypeOK, Slots
    <3>2. TypeOK'
      BY <2>1, <2>2, <2>4, <3>1 DEF IInv, TypeOK
    <3>3. \A p \in Obj, a \in Addr : Owns(p, a)' <=> Owns(p, a)
      BY <2>2, <2>4 DEF Owns
    <3>4. \A a \in Addr : (heap'[a] = Null) <=> (heap[a] = Null)
      BY <2>1, <2>4, <3>1 DEF IInv, HeapOwnership, NoDangling, TypeOK
    <3>5. QED
      BY <2>2, <2>4, <3>2, <3>3, <3>4
         DEF IInv, HeapOwnership, NoLeak, NoAlias, NoDangling, SlotShape
  <2>5. QED
    BY <1>2, <2>3, <2>4 DEF AssignSame
<1>3. QED
  BY <1>1, <1>2 DEF AssignSame

\* Copy assignment between different discriminators builds the copy first,
\* then replaces the target's alternative.
LEMMA AssignOtherIInv ==
  ASSUME IInv, NEW o \in Obj, NEW s \in Obj, alive[o], alive[s],
         AssignOther(o, s)
  PROVE  IInv'
<1>1. CASE IsHollow(s) \/ Confused(o)
  BY <1>1, CrashIInv DEF AssignOther, Faults
<1>2. CASE ~IsHollow(s) /\ ~Confused(o)
  <2>1. GetValue(s) \in Val /\ active[s] \in Tags
    BY <1>2, GetValueType DEF IInv, TypeOK
  <2>2. QED
    BY <1>2, <2>1, CopyIntoLiveIInv DEF AssignOther, Copied, IInv, TypeOK
<1>3. QED
  BY <1>1, <1>2 DEF AssignOther

LEMMA CopyAssignIInv ==
  ASSUME IInv, NEW o \in Obj, NEW s \in Obj, CopyAssign(o, s)
  PROVE  IInv'
BY AssignSameIInv, AssignOtherIInv, CrashIInv DEF CopyAssign, Faults

\* Move assignment between equal discriminators: an inline value is moved
\* (move assignment compiles only without boxed alternatives).
LEMMA MoveAssignSameIInv ==
  ASSUME IInv, NEW o \in Obj, NEW s \in Obj, alive[o], alive[s],
         active[o] = active[s], Boxed = {}, MoveAssignSame(o, s)
  PROVE  IInv'
<1>0. slot \in [Obj -> Slots] /\ heap \in [Addr -> Val \cup {Null}]
  BY DEF IInv, TypeOK
<1>1. CASE Confused(o)
  BY <1>1 DEF Confused
<1>2. CASE ~Confused(o) /\ slot[o].kind = "plain"
  <2>1. PICK x \in Val :
          /\ slot' = [slot EXCEPT ![o].val = slot[s].val, ![s].val = x]
          /\ unspec' = [unspec EXCEPT ![o] = unspec[s], ![s] = TRUE]
          /\ UNCHANGED <<alive, active, heap, fault>>
    BY <1>2 DEF MoveAssignSame, Moved, Confused
  <2>2. /\ slot' \in [Obj -> Slots]
        /\ \A p \in Obj : /\ slot'[p].kind = slot[p].kind
                          /\ slot'[p].alt = slot[p].alt
                          /\ slot'[p].ptr = slot[p].ptr
    BY <1>0, <2>1 DEF Slots
  <2>3. TypeOK'
    BY <2>1, <2>2 DEF IInv, TypeOK
  <2>4. \A p \in Obj, a \in Addr : Owns(p, a)' <=> Owns(p, a)
    BY <2>1, <2>2 DEF Owns
  <2>5. SlotShape'
    BY <2>1, <2>2 DEF IInv, SlotShape
  <2>6. QED
    BY <2>1, <2>3, <2>4, <2>5 DEF IInv, HeapOwnership, NoLeak, NoAlias, NoDangling
<1>3. slot[o].kind = "plain"
  BY <1>0 DEF IInv, SlotShape, Slots, Kinds
<1>4. QED
  BY <1>1, <1>2, <1>3

\* Move assignment between different discriminators: the target's
\* alternative is destroyed, then the donor's is moved in.
LEMMA MoveAssignOtherIInv ==
  ASSUME IInv, NEW o \in Obj, NEW s \in Obj, alive[o], alive[s],
         active[o] # active[s], Boxed = {}, MoveAssignOther(o, s)
  PROVE  IInv'
<1>1. CASE Confused(o)
  BY <1>1 DEF Confused
<1>2. CASE ~Confused(o)
  <2>1. PICK x \in Val :
          /\ active' = [active EXCEPT ![o] = active[s]]
          /\ slot' = [slot EXCEPT ![o] = slot[s], ![s] = MovedFrom(slot[s], x)]
          /\ heap' = Released(heap, slot[o])
          /\ unspec' = [unspec EXCEPT ![o] = unspec[s], ![s] = TRUE]
          /\ UNCHANGED <<alive, fault>>
    BY <1>2 DEF MoveAssignOther, Moved, Confused
  <2>2. o # s
    OBVIOUS
  <2>3. LET m == MovedFrom(slot[s], x)
        IN  /\ m \in Slots
            /\ m.kind = slot[s].kind /\ m.alt = slot[s].alt
            /\ m.ptr = IF slot[s].kind = "box" THEN Null ELSE slot[s].ptr
    BY MovedFromType DEF IInv, TypeOK
  <2>4. /\ heap' \in [Addr -> Val \cup {Null}]
        /\ \A a \in Addr : heap'[a] = IF Owns(o, a) THEN Null ELSE heap[a]
    BY <2>1, ReleasedAt
  <2>5. TypeOK'
    BY <2>1, <2>3, <2>4 DEF IInv, TypeOK
  <2>6. \A p \in Obj, a \in Addr :
          Owns(p, a)' <=> (p = o /\ Owns(s, a)) \/ (p # o /\ p # s /\ Owns(p, a))
    BY <2>1, <2>2, <2>3 DEF Owns, IInv, TypeOK
  <2>7. \A a \in Addr : Owns(s, a) => ~Owns(o, a)
    BY <2>2 DEF IInv, HeapOwnership, NoAlias
  <2>8. NoLeak'
    <3>1. SUFFICES ASSUME NEW a \in Addr, heap'[a] # Null
                   PROVE  \E p \in Obj : Owns(p, a)'
      BY DEF NoLeak
    <3>2. heap[a] # Null /\ ~Owns(o, a)
      BY <2>4, <3>1
    <3>3. PICK q \in Obj : Owns(q, a)
      BY <3>2 DEF IInv, HeapOwnership, NoLeak
    <3>4. QED
      BY <3>2, <3>3, <2>6
  <2>9. NoAlias'
    BY <2>6 DEF IInv, HeapOwnership, NoAlias
  <2>10. NoDangling'
    <3>1. SUFFICES ASSUME NEW p \in Obj, NEW a \in Addr, Owns(p, a)'
                   PROVE  heap'[a] # Null
      BY DEF NoDangling
    <3>2. CASE p = o
      BY <2>4, <2>6, <2>7, <3>1, <3>2 DEF IInv, HeapOwnership, NoDangling
    <3>3. CASE p # o
      BY <2>4, <2>6, <3>1, <3>3 DEF IInv, HeapOwnership, NoDangling, NoAlias
    <3>4. QED
      BY <3>2, <3>3
  <2>11. SlotShape'
    BY <2>1, <2>2, <2>3 DEF IInv, SlotShape, TypeOK
  <2>12. QED
    BY <2>5, <2>8, <2>9, <2>10, <2>11 DEF IInv, HeapOwnership
<1>3. QED
  BY <1>1, <1>2 DEF MoveAssignOther

LEMMA MoveAssignIInv ==
  ASSUME IInv, NEW o \in Obj, NEW s \in Obj, MoveAssign(o, s)
  PROVE  IInv'
<1>1. Boxed = {}
  BY DEF MoveAssign, MoveAssignCompiles
<1>2. QED
  BY <1>1, MoveAssignSameIInv, MoveAssignOtherIInv DEF MoveAssign

LEMMA ReadIInv ==
  ASSUME IInv, NEW o \in Obj, Read(o)
  PROVE  IInv'
BY CrashIInv DEF Read, Faults

LEMMA NextIInv ==
  ASSUME IInv, [Next]_vars
  PROVE  IInv'
<1>1. CASE UNCHANGED vars
  BY <1>1 DEF vars, IInv, TypeOK, HeapOwnership, NoLeak, NoAlias, NoDangling,
              Owns, SlotShape
<1>2. CASE Next
  <2>1. PICK o \in Obj, s \in Obj :
          \/ DefaultCtor(o)
          \/ \E t \in MakeTags : Make(o, t)
          \/ \E t \in Tags, x \in Val : ValueCtor(o, t, x)
          \/ CopyCtor(o, s)
          \/ MoveCtor(o, s)
          \/ CopyAssign(o, s)
          \/ MoveAssign(o, s)
          \/ Destroy(o)
          \/ Read(o)
    BY <1>2 DEF Next
  <2>2. QED
    BY <2>1, DefaultCtorIInv, MakeIInv, ValueCtorIInv, CopyCtorIInv,
       MoveCtorIInv, CopyAssignIInv, MoveAssignIInv, DestroyIInv, ReadIInv
<1>3. QED
  BY <1>1, <1>2

-----------------------------------------------------------------------------
(* Theorems                                                                *)
-----------------------------------------------------------------------------

\* Every reachable state satisfies the inductive invariant: the buffers,
\* discriminators and heap of every variant, through every sequence of
\* construction, copy, move, assignment and destruction, are well typed,
\* every live box's T is owned by exactly one box, and the discriminator
\* agrees with what the buffer holds.
THEOREM Invariance == Spec => []IInv
<1>1. Init => IInv
  BY InitIInv
<1>2. IInv /\ [Next]_vars => IInv'
  BY NextIInv
<1>3. QED
  BY <1>1, <1>2, PTL DEF Spec

\* Type correctness of the variant lifecycle: no step of the constructors,
\* assignments or destructor puts an ill-typed value in a buffer or cell.
THEOREM TypeCorrect == Spec => []TypeOK
BY Invariance, PTL DEF IInv

\* The recursive_wrapper heap discipline: no T is leaked, shared by two
\* boxes, or freed while a live box still points at it, whatever the
\* number of alternatives, values and locations.
THEOREM OwnershipSafe == Spec => []HeapOwnership
BY Invariance, PTL DEF IInv

\* Every live variant's storage is the alternative its discriminator names:
\* raw storage is never live, alt equals which(), a box holds a boxed tag.
THEOREM ShapeSafe == Spec => []SlotShape
BY Invariance, PTL DEF IInv
=============================================================================
