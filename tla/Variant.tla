------------------------------- MODULE Variant -------------------------------
(***************************************************************************)
(* The tagged-storage lifecycle engine of broker::util::variant<Tag, Ts...> *)
(* (src/broker/util/variant.hh) together with the recursive_wrapper<T> box *)
(* it stores for self-referential alternatives.                            *)
(*                                                                         *)
(* A location o of Obj may hold one variant object.  Its state is the      *)
(* discriminator `active` and the aligned buffer `storage`, abstracted to  *)
(* the record slot[o]: what was placement-constructed in the buffer (kind  *)
(* "raw" before construction, "plain" for an inline alternative, "box" for *)
(* a recursive_wrapper), the alternative index it was constructed as, and  *)
(* its value or, for a box, the unique_ptr it holds.  The T a box owns     *)
(* lives on the heap: heap[a] is the value at address a, Null when free.   *)
(*                                                                         *)
(* Every operation is one action and models the whole member function     *)
(* with the visitor it dispatches to.  Undefined behaviour the code can    *)
(* reach (a null or garbage unique_ptr dereferenced, a function flowing    *)
(* off its end) sets `fault`; after it the process is in no defined state  *)
(* and the model stops.                                                    *)
(***************************************************************************)
EXTENDS Naturals, FiniteSets

CONSTANTS
  Obj,         \* locations a variant object can be constructed in
  N,           \* number of alternatives, sizeof...(Ts)
  Boxed,       \* indices of the alternatives that are recursive_wrapper<T>
  Val,         \* values an alternative may hold (one small set for all)
  DefaultVal,  \* the value of a value-initialised alternative, T()
  Addr,        \* heap addresses a recursive_wrapper may allocate
  Null,        \* the null pointer / a free heap cell
  Hollow,      \* what get_value finds in a box whose unique_ptr is null
  Unspec,      \* abstract value of a moved-from alternative
  Dead         \* abstract state of a location holding no variant

\* The assumptions the code makes of its template arguments: the tag is
\* 0 .. N-1, and the first alternative is default-constructible (variant()
\* constructs front{}, and recursive_wrapper has no default constructor).
ASSUME ConstAssumption ==
  /\ N \in Nat \ {0}
  /\ Boxed \subseteq 0 .. N - 1
  /\ 0 \notin Boxed
  /\ DefaultVal \in Val
  /\ Null \notin Addr \cup Val
  /\ Hollow \notin Val
  /\ Unspec \notin Val
  /\ Dead \notin [tag : 0 .. N - 1, v : Val \cup {Unspec}]

VARIABLES
  alive,    \* alive[o]: a variant object lives at o (constructed, not destroyed)
  active,   \* active[o]: the discriminator member `active`
  slot,     \* slot[o]: what lives in the member `storage`
  heap,     \* heap[a]: the T at address a, or Null
  fault,    \* "none", or the undefined behaviour the last step reached
  unspec    \* history: o's value is what a move left behind (no code state)

vars == <<alive, active, slot, heap, fault, unspec>>

Tags == 0 .. N - 1

Kinds == {"raw", "plain", "box"}

Faults == {"none", "deref_source", "deref_target", "type_confusion",
           "bad_tag"}

\* The tags a caller can pass to make(tag t): the valid ones and N, which
\* stands for every value of the tag type beyond the last alternative.
MakeTags == 0 .. N

Slots == [kind : Kinds, alt : Tags, val : Val, ptr : Addr \cup {Null}]

Raw == [kind |-> "raw", alt |-> 0, val |-> DefaultVal, ptr |-> Null]

Plain(t, x) == [kind |-> "plain", alt |-> t, val |-> x, ptr |-> Null]

Box(t, p) == [kind |-> "box", alt |-> t, val |-> DefaultVal, ptr |-> p]

FreeAddrs == {a \in Addr : heap[a] = Null}

\* A box whose unique_ptr is null: what a moved-from recursive_wrapper is.
IsHollow(o) == slot[o].kind = "box" /\ slot[o].ptr = Null

\* The discriminator names a boxed alternative but the buffer holds the
\* unwrapped T: visiting it as recursive_wrapper<T> reads T's bytes as a
\* pointer.
Confused(o) == active[o] \in Boxed /\ slot[o].kind # "box"

\* get_value in external mode: a box is unwrapped to the T it owns.
GetValue(o) ==
  IF slot[o].kind = "box"
    THEN IF slot[o].ptr = Null THEN Hollow ELSE heap[slot[o].ptr]
    ELSE slot[o].val

\* The heap after the destructor of slot sl runs: ~recursive_wrapper
\* destroys its unique_ptr, which deletes the T unless it is null.
Released(h, sl) ==
  IF sl.kind = "box" /\ sl.ptr # Null THEN [h EXCEPT ![sl.ptr] = Null] ELSE h

\* The donor of a move: a moved-from T keeps some value of its type, a
\* moved-from recursive_wrapper has released its pointer.
MovedFrom(sl, x) ==
  IF sl.kind = "box" THEN [sl EXCEPT !.ptr = Null] ELSE [sl EXCEPT !.val = x]

\* Placement-construct in o's buffer a copy of value x of alternative t,
\* on top of heap h.  A box allocates a new T (new T(u)); when no address
\* is free, operator new throws bad_alloc before anything changed, which
\* leaves the state as it was: the step does not happen.
CopyInto(o, t, x, h) ==
  \/ /\ t \notin Boxed
     /\ slot' = [slot EXCEPT ![o] = Plain(t, x)]
     /\ heap' = h
  \/ /\ t \in Boxed
     /\ \E a \in FreeAddrs :
          /\ slot' = [slot EXCEPT ![o] = Box(t, a)]
          /\ heap' = [h EXCEPT ![a] = x]

Crash(k) ==
  /\ fault' = k
  /\ UNCHANGED <<alive, active, slot, heap, unspec>>

\* Updates of the history variable: a value is fresh after construction
\* from a value, is passed on by a copy, and a move leaves its donor with
\* an unspecified one.
Fresh(o) == unspec' = [unspec EXCEPT ![o] = FALSE]

Copied(o, s) == unspec' = [unspec EXCEPT ![o] = unspec[s]]

Moved(o, s) == unspec' = [unspec EXCEPT ![o] = unspec[s], ![s] = TRUE]

Born(o, t) ==
  /\ alive' = [alive EXCEPT ![o] = TRUE]
  /\ active' = [active EXCEPT ![o] = t]

-----------------------------------------------------------------------------
(* Construction                                                            *)
-----------------------------------------------------------------------------

\* variant(): construct(front{}); active = tag{}.
DefaultCtor(o) ==
  /\ ~alive[o]
  /\ Born(o, 0)
  /\ slot' = [slot EXCEPT ![o] = Plain(0, DefaultVal)]
  /\ Fresh(o)
  /\ UNCHANGED <<heap, fault>>

\* Seeded bug: no range check, and the jump through the table runs
\* default_ctor for a tag beyond the last alternative.
MakeUnchecked(o, t) ==
  /\ ~alive[o]
  /\ Born(o, t)
  /\ slot' = [slot EXCEPT ![o] = Plain(t, DefaultVal)]
  /\ Fresh(o)
  /\ UNCHANGED <<heap, fault>>

\* variant::make(t): the factory constructor sets active = t, then visits
\* the raw buffer in EXTERNAL mode with default_ctor, whose operator()
\* receives the unwrapped T and constructs T() -- also when alternative t
\* is recursive_wrapper<T>.  visit_impl asserts that t is in range (a
\* debug build aborts) and then indexes its jump table with t (a release
\* build jumps through whatever lies past the table): an out-of-range tag
\* ends in no defined state either way.
Make(o, t) ==
  /\ ~alive[o]
  /\ \/ /\ t \in Tags
        /\ Born(o, t)
        /\ slot' = [slot EXCEPT ![o] = Plain(t, DefaultVal)]
        /\ Fresh(o)
        /\ UNCHANGED <<heap, fault>>
     \/ /\ t \notin Tags
        /\ Crash("bad_tag")

\* variant(T&& x): initializer<0, Ts...> picks alternative t by overload
\* resolution, constructs it from x (a recursive_wrapper allocates a T),
\* then sets active.
ValueCtor(o, t, x) ==
  /\ ~alive[o]
  /\ Born(o, t)
  /\ CopyInto(o, t, x, heap)
  /\ Fresh(o)
  /\ UNCHANGED fault

\* The copy_ctor visitor: self.construct(other) of the alternative it is
\* handed; a box is copied by recursive_wrapper(const recursive_wrapper&),
\* which allocates new T(other.get()).
CopyCtorVisit(o, s) == CopyInto(o, active[s], GetValue(s), heap)

\* variant(const variant& other): other is visited in INTERNAL mode with
\* copy_ctor, then active = other.active.
CopyCtor(o, s) ==
  /\ ~alive[o] /\ alive[s]
  /\ \/ Confused(s) /\ Crash("type_confusion")
     \/ ~Confused(s) /\ IsHollow(s) /\ Crash("deref_source")
     \/ /\ ~Confused(s) /\ ~IsHollow(s)
        /\ Born(o, active[s])
        /\ CopyCtorVisit(o, s)
        /\ Copied(o, s)
        /\ UNCHANGED fault

\* variant(variant&& other): move_ctor moves the alternative; a box is
\* moved by recursive_wrapper(recursive_wrapper&&), item(other.item.release()).
MoveCtor(o, s) ==
  /\ ~alive[o] /\ alive[s]
  /\ \/ Confused(s) /\ Crash("type_confusion")
     \/ /\ ~Confused(s)
        /\ Born(o, active[s])
        /\ \E x \in Val :
             slot' = [slot EXCEPT ![o] = slot[s], ![s] = MovedFrom(slot[s], x)]
        /\ Moved(o, s)
        /\ UNCHANGED <<heap, fault>>

-----------------------------------------------------------------------------
(* Assignment                                                              *)
-----------------------------------------------------------------------------

\* Seeded bug: the same-alternative copy runs in the wrong direction,
\* assigning the target's value to the source.
AssignSameSwapped(o, s) ==
  \/ IsHollow(s) /\ Crash("deref_source")
  \/ ~IsHollow(s) /\ Confused(o) /\ Crash("type_confusion")
  \/ ~IsHollow(s) /\ ~Confused(o) /\ IsHollow(o) /\ Crash("deref_target")
  \/ /\ ~IsHollow(s) /\ ~Confused(o) /\ ~IsHollow(o)
     /\ \/ slot[o].kind = "plain" /\ slot' = [slot EXCEPT ![s].val = slot[o].val]
                                  /\ UNCHANGED heap
        \/ slot[o].kind = "box" /\ heap' = [heap EXCEPT ![slot[o].ptr] = GetValue(s)]
                                /\ UNCHANGED slot
     /\ Copied(o, s)
     /\ UNCHANGED <<alive, active, fault>>

\* assigner, same discriminator: *reinterpret_cast<Rhs*>(&self.storage) = rhs.
\* For a box that is recursive_wrapper::operator=(const&), assign(rhs.get()):
\* *item = *rhs.item, dereferencing rhs's unique_ptr (the argument) first,
\* then the target's own.
AssignSame(o, s) ==
  \/ IsHollow(s) /\ Crash("deref_source")
  \/ ~IsHollow(s) /\ Confused(o) /\ Crash("type_confusion")
  \/ ~IsHollow(s) /\ ~Confused(o) /\ IsHollow(o) /\ Crash("deref_target")
  \/ /\ ~IsHollow(s) /\ ~Confused(o) /\ ~IsHollow(o)
     /\ \/ slot[o].kind = "plain" /\ slot' = [slot EXCEPT ![o].val = slot[s].val]
                                  /\ UNCHANGED heap
        \/ slot[o].kind = "box" /\ heap' = [heap EXCEPT ![slot[o].ptr] = GetValue(s)]
                                /\ UNCHANGED slot
     /\ Copied(o, s)
     /\ UNCHANGED <<alive, active, fault>>

\* Seeded bug: the old alternative is not destroyed (self.destruct() is
\* missing) before the copy is constructed over it.
AssignOtherNoDestruct(o, s) ==
  \/ IsHollow(s) /\ Crash("deref_source")
  \/ ~IsHollow(s) /\ Confused(o) /\ Crash("type_confusion")
  \/ /\ ~IsHollow(s) /\ ~Confused(o)
     /\ active' = [active EXCEPT ![o] = active[s]]
     /\ CopyInto(o, active[s], GetValue(s), heap)
     /\ Copied(o, s)
     /\ UNCHANGED <<alive, fault>>

\* Seeded bug: self.destruct() runs before the copy of rhs is made
\* (self.destruct(); self.construct(rhs)).  When new T throws bad_alloc the
\* target's old alternative is already destroyed, and the exception leaves
\* a live variant over a destroyed buffer with its old tag.
AssignOtherDestructFirst(o, s) ==
  \/ IsHollow(s) /\ Crash("deref_source")
  \/ ~IsHollow(s) /\ Confused(o) /\ Crash("type_confusion")
  \/ /\ ~IsHollow(s) /\ ~Confused(o)
     /\ active' = [active EXCEPT ![o] = active[s]]
     /\ CopyInto(o, active[s], GetValue(s), Released(heap, slot[o]))
     /\ Copied(o, s)
     /\ UNCHANGED <<alive, fault>>
  \/ /\ ~IsHollow(s) /\ ~Confused(o)
     /\ active[s] \in Boxed
     /\ \A a \in Addr : Released(heap, slot[o])[a] # Null
     /\ slot' = [slot EXCEPT ![o] = Raw]
     /\ heap' = Released(heap, slot[o])
     /\ UNCHANGED <<alive, active, fault, unspec>>

\* assigner, different discriminators: Rhs tmp(rhs); self.destruct();
\* self.construct(std::move(tmp)).  The copy is made before anything is
\* destroyed; the moved-from tmp is destroyed empty.
AssignOther(o, s) ==
  \/ IsHollow(s) /\ Crash("deref_source")
  \/ ~IsHollow(s) /\ Confused(o) /\ Crash("type_confusion")
  \/ /\ ~IsHollow(s) /\ ~Confused(o)
     /\ active' = [active EXCEPT ![o] = active[s]]
     /\ CopyInto(o, active[s], GetValue(s), Released(heap, slot[o]))
     /\ Copied(o, s)
     /\ UNCHANGED <<alive, fault>>

\* variant& operator=(const variant& rhs): rhs is visited in INTERNAL mode
\* with assigner(*this, rhs.active); then active = rhs.active.
CopyAssign(o, s) ==
  /\ alive[o] /\ alive[s]
  /\ \/ Confused(s) /\ Crash("type_confusion")
     \/ ~Confused(s) /\ active[o] = active[s] /\ AssignSame(o, s)
     \/ ~Confused(s) /\ active[o] # active[s] /\ AssignOther(o, s)

\* move_assigner's operator() static_asserts that every alternative is
\* nothrow move assignable, and visit_impl's table callers[] instantiates
\* it for each of them.  recursive_wrapper's move assignment is not
\* noexcept, so operator=(variant&&), and the value assignment o = x that
\* goes through it, compile only for a variant without a boxed
\* alternative.
MoveAssignCompiles == Boxed = {}

\* move_assigner, same discriminator: the inline alternative's own move
\* assignment (no recursive_wrapper is ever move-assigned, see above).
MoveAssignSame(o, s) ==
  /\ \E x \in Val : slot' = [slot EXCEPT ![o].val = slot[s].val, ![s].val = x]
  /\ Moved(o, s)
  /\ UNCHANGED <<alive, active, heap, fault>>

\* Seeded bug: the tag is not carried over; the new alternative is
\* move-constructed, but active keeps naming the old one.
MoveAssignOtherKeepsTag(o, s) ==
  /\ \E x \in Val :
       slot' = [slot EXCEPT ![o] = slot[s], ![s] = MovedFrom(slot[s], x)]
  /\ heap' = Released(heap, slot[o])
  /\ Moved(o, s)
  /\ UNCHANGED <<alive, active, fault>>

\* move_assigner, different discriminators: self.destruct();
\* self.construct(std::move(rhs)).
MoveAssignOther(o, s) ==
  /\ active' = [active EXCEPT ![o] = active[s]]
  /\ \E x \in Val :
       slot' = [slot EXCEPT ![o] = slot[s], ![s] = MovedFrom(slot[s], x)]
  /\ heap' = Released(heap, slot[o])
  /\ Moved(o, s)
  /\ UNCHANGED <<alive, fault>>

\* variant& operator=(variant&& rhs) noexcept: rhs is visited in INTERNAL
\* mode with move_assigner(*this, rhs.active); then active = rhs.active.
\* Without a boxed alternative no buffer can be misread as a wrapper, so no
\* undefined behaviour is reachable here.
MoveAssign(o, s) ==
  /\ MoveAssignCompiles
  /\ alive[o] /\ alive[s]
  /\ \/ active[o] = active[s] /\ MoveAssignSame(o, s)
     \/ active[o] # active[s] /\ MoveAssignOther(o, s)

-----------------------------------------------------------------------------
(* Destruction and reads                                                   *)
-----------------------------------------------------------------------------

\* ~variant(): destruct() visits in INTERNAL mode with dtor, x.~T().
Destroy(o) ==
  /\ alive[o]
  /\ \/ Confused(o) /\ Crash("type_confusion")
     \/ /\ ~Confused(o)
        /\ alive' = [alive EXCEPT ![o] = FALSE]
        /\ slot' = [slot EXCEPT ![o] = Raw]
        /\ heap' = Released(heap, slot[o])
        /\ Fresh(o)
        /\ UNCHANGED <<active, fault>>

\* Reading the active value: operator== and operator< between variants of
\* the same discriminator (equals / less_than, and the wrapper's
\* *x.item == *y.item), std::hash (visit with hasher, external mode) and
\* client visitors.  A read of a readable value changes nothing; the steps
\* below are the reads that dereference a null or garbage pointer.
Read(o) ==
  /\ alive[o]
  /\ \/ Confused(o) /\ Crash("type_confusion")
     \/ IsHollow(o) /\ Crash("deref_source")

-----------------------------------------------------------------------------

Init ==
  /\ alive = [o \in Obj |-> FALSE]
  /\ active = [o \in Obj |-> 0]
  /\ slot = [o \in Obj |-> Raw]
  /\ heap = [a \in Addr |-> Null]
  /\ fault = "none"
  /\ unspec = [o \in Obj |-> FALSE]

Next ==
  /\ fault = "none"
  /\ \E o, s \in Obj :
       \/ DefaultCtor(o)
       \/ \E t \in MakeTags : Make(o, t)
       \/ \E t \in Tags, x \in Val : ValueCtor(o, t, x)
       \/ CopyCtor(o, s)
       \/ MoveCtor(o, s)
       \/ CopyAssign(o, s)
       \/ MoveAssign(o, s)
       \/ Destroy(o)
       \/ Read(o)

Spec == Init /\ [][Next]_vars

(***************************************************************************)
(* Properties                                                              *)
(***************************************************************************)

TypeOK ==
  /\ alive \in [Obj -> BOOLEAN]
  /\ active \in [Obj -> Tags]
  /\ slot \in [Obj -> Slots]
  /\ heap \in [Addr -> Val \cup {Null}]
  /\ fault \in Faults
  /\ unspec \in [Obj -> BOOLEAN]

Owns(o, a) == alive[o] /\ slot[o].kind = "box" /\ slot[o].ptr = a

\* Every allocated T is owned by some live recursive_wrapper: no operation
\* (cross-alternative assignment, move assignment, destruction) leaks one.
NoLeak == \A a \in Addr : heap[a] # Null => \E o \in Obj : Owns(o, a)

\* No two live variants share a heap T: copies are deep, moves hand the
\* pointer over and null the donor's.
NoAlias == \A o1, o2 \in Obj, a \in Addr : Owns(o1, a) /\ Owns(o2, a) => o1 = o2

\* A live wrapper's non-null pointer is allocated: no use after free.
NoDangling == \A o \in Obj, a \in Addr : Owns(o, a) => heap[a] # Null

\* The recursive_wrapper heap cells are owned exclusively and exactly by the
\* live variants (spec.md section 5: strictly hierarchical, exclusive
\* ownership, no double free, no leak).
HeapOwnership == NoLeak /\ NoAlias /\ NoDangling

\* Refinement: seen through get_value, the variants behave as the value
\* specification says -- copies are independent, assignment replaces the
\* value, moves transfer it.  What a move leaves behind maps to Unspec.
AbsVal ==
  [o \in Obj |->
     IF alive[o]
       THEN [tag |-> active[o], v |-> IF unspec[o] THEN Unspec ELSE GetValue(o)]
       ELSE Dead]

Abs == INSTANCE VariantValue WITH val <- AbsVal

\* The lifecycle engine implements the value specification.
ImplementsValueSpec == Abs!Spec

\* The buffer of a live variant holds a constructed alternative of the
\* index the discriminator names (copy, move and assignment all carry the
\* tag over), only a recursive_wrapper holds a pointer, and only a boxed
\* alternative is ever held in a recursive_wrapper.
SlotShape ==
  \A o \in Obj : alive[o] =>
    /\ slot[o].kind # "raw"
    /\ slot[o].alt = active[o]
    /\ slot[o].kind = "box" => active[o] \in Boxed
    /\ slot[o].kind # "box" => slot[o].ptr = Null

\* spec.md section 3, invariant (c): the discriminator and the type living
\* in the buffer agree -- a boxed discriminator also means a
\* recursive_wrapper is in the buffer.  variant::make breaks it for a
\* boxed tag.
TagMatchesStorage ==
  /\ SlotShape
  /\ \A o \in Obj : alive[o] /\ active[o] \in Boxed => slot[o].kind = "box"

\* A moved-from variant may be assigned to (spec.md section 5: a moved-from
\* value is valid but unspecified).  Copy assignment into a moved-from boxed alternative
\* dereferences its null unique_ptr.
AssignToMovedFromIsDefined == fault # "deref_target"

=============================================================================
