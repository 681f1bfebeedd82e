--------------------------- MODULE VariantNesting ---------------------------
(***************************************************************************)
(* Nested variants: a variant whose boxed alternative is                   *)
(* recursive_wrapper<Node>, where Node = {val, variant child} is the       *)
(* self-referential type recursive_wrapper exists for (spec section 8).    *)
(* A Node allocated at heap address a holds a value heap[a] and one child  *)
(* variant object, the location Kid(a), which lives exactly as long as     *)
(* the Node does.  A client names the root variants and, through get, the *)
(* variants nested in them, and assigns any of them from any other.        *)
(*                                                                         *)
(* The copy assignment and the value assignment of a variant are modelled *)
(* as whole statements: operators from a memory M to the                   *)
(* memory after the statement, following the code's order of reads,       *)
(* allocations, destructions and frees, down to the recursion through      *)
(* Node's memberwise assignment into the child variant.  A read of a       *)
(* variant that an earlier part of the same statement destroyed is a use  *)
(* after free and sets `fault` to the line that does it; an exception      *)
(* (bad_alloc from operator new) leaves the memory as it is at the throw   *)
(* and reaches the client, who goes on.                                    *)
(*                                                                         *)
(* Move assignment is not modelled: it does not compile for a variant with *)
(* a recursive_wrapper alternative (see Variant's MoveAssignCompiles), and  *)
(* for the same reason a value is assigned through a named variant.        *)
(*                                                                         *)
(* The module only runs under TLC: the statements are RECURSIVE operators. *)
(***************************************************************************)
EXTENDS Naturals, FiniteSets

CONSTANTS
  Roots,       \* variant objects of the client (locals, members)
  Addr,        \* heap addresses a recursive_wrapper<Node> may allocate
  N,           \* number of alternatives, sizeof...(Ts)
  Boxed,       \* indices of the alternatives that are recursive_wrapper<Node>
  Val,         \* values of an inline alternative or of Node::val
  DefaultVal,  \* the value of a value-initialised alternative
  Null,        \* the null pointer / a free heap cell
  Temp,        \* the location of the assigner's temporary alternative tmp
  Arg,         \* the location of the client's variant built from a value
  Nested       \* whether the client assigns between a variant and one
               \* nested in it

ASSUME NestingAssumption ==
  /\ N \in Nat \ {0}
  /\ Boxed \subseteq 1 .. N - 1
  /\ DefaultVal \in Val
  /\ Null \notin Addr \cup Val
  /\ Temp \notin Roots
  /\ Arg \notin Roots \cup {Temp}
  /\ Nested \in BOOLEAN

VARIABLES
  alive,    \* alive[o]: a variant object lives at o
  active,   \* active[o]: its discriminator
  slot,     \* slot[o]: what lives in its storage
  heap,     \* heap[a]: Node::val of the Node at a, or Null when a is free
  fault     \* "none", or the undefined behaviour the last statement reached

vars == <<alive, active, slot, heap, fault>>

Tags == 0 .. N - 1

\* The child variant member of the Node at address a.
Kid(a) == [in |-> a]

Obj == Roots \cup {Kid(a) : a \in Addr} \cup {Temp, Arg}

Faults == {"none", "deref_source", "deref_target", "copy_reads_freed_rhs"}

Raw == [kind |-> "raw", alt |-> 0, val |-> DefaultVal, ptr |-> Null]

Plain(t, x) == [kind |-> "plain", alt |-> t, val |-> x, ptr |-> Null]

Box(t, p) == [kind |-> "box", alt |-> t, val |-> DefaultVal, ptr |-> p]

\* The storage of a variant whose tag is t holds an alternative of type t.
SlotsOf(t) ==
  IF t \in Boxed THEN {Box(t, p) : p \in Addr \cup {Null}}
                 ELSE {Plain(t, x) : x \in Val}

(***************************************************************************)
(* Memory and ownership.                                                   *)
(***************************************************************************)
Mem == [alive |-> alive, active |-> active, slot |-> slot, heap |-> heap,
        fault |-> fault, exc |-> FALSE]

\* The statement goes on: no undefined behaviour, no exception in flight.
Live(M) == M.fault = "none" /\ ~M.exc

\* The Node a box's unique_ptr item owns.
Owned(M, o) ==
  IF M.slot[o].kind = "box" /\ M.slot[o].ptr # Null
    THEN {M.slot[o].ptr} ELSE {}

\* The Nodes reachable from o's storage through the child variants.
Below(M, o) ==
  LET f[k \in 0 .. Cardinality(Addr)] ==
        IF k = 0 THEN Owned(M, o)
        ELSE f[k - 1] \cup UNION {Owned(M, Kid(a)) : a \in f[k - 1]}
  IN  f[Cardinality(Addr)]

\* The variants nested, at any depth, in o.
Inside(M, o) == {Kid(a) : a \in Below(M, o)}

\* The variants a client can name: the roots and what get reaches in them.
Reachable == Roots \cup UNION {Inside(Mem, r) : r \in Roots}

FreeCells(M) == {a \in Addr : M.heap[a] = Null}

\* operator new: some free address.
NewCell(M) == CHOOSE a \in FreeCells(M) : TRUE

\* delete of the Node at a: ~Node destroys the child variant, whose dtor
\* visitor destroys its recursive_wrapper, which deletes its Node, and so
\* on down; every Node below a is freed and every child in them destroyed.
DeleteCell(M, a) ==
  IF a = Null THEN M
  ELSE LET S == {a} \cup Below(M, Kid(a))
           K == {Kid(b) : b \in S}
       IN  [M EXCEPT
              !.heap = [b \in Addr |-> IF b \in S THEN Null ELSE M.heap[b]],
              !.alive = [x \in Obj |-> IF x \in K THEN FALSE ELSE M.alive[x]],
              !.slot = [x \in Obj |-> IF x \in K THEN Raw ELSE M.slot[x]]]

\* destruct(): the dtor visitor destroys o's alternative; o stays a variant
\* object with raw storage.
Destruct(M, o) ==
  LET M1 == IF M.slot[o].kind = "box" THEN DeleteCell(M, M.slot[o].ptr) ELSE M
  IN  [M1 EXCEPT !.slot[o] = Raw]

\* ~variant() on a temporary; the dead location keeps no tag.
Kill(M, o) == [Destruct(M, o) EXCEPT !.alive[o] = FALSE, !.active[o] = 0]

\* Mutant: the move constructor copies the pointer instead of releasing it.
MoveIntoShared(M, o, s) == [M EXCEPT !.slot[o] = M.slot[s]]

\* construct(std::move(x)) of s's alternative into o's raw storage: a box
\* takes the pointer with item(other.item.release()).
MoveInto(M, o, s) ==
  [M EXCEPT !.slot[o] = M.slot[s],
            !.slot[s] = IF M.slot[s].kind = "box"
                          THEN [M.slot[s] EXCEPT !.ptr = Null]
                          ELSE M.slot[s]]

(***************************************************************************)
(* The statements.                                                         *)
(***************************************************************************)
RECURSIVE CopyInto(_, _, _)
\* Copy-construct s's alternative into the raw storage t, then take
\* other.active (variant(const variant&) with copy_ctor).  A box runs
\* new T(other.get()): operator new first, which may throw, then *item of
\* the source, null in a moved-from box, then Node's copy constructor,
\* which copies val and copy-constructs the child.  A throw below frees
\* this level's Node and goes on up.
CopyInto(M, t, s) ==
  IF M.slot[s].kind # "box"
    THEN [M EXCEPT !.slot[t] = M.slot[s], !.active[t] = M.active[s],
                   !.alive[t] = TRUE]
  ELSE IF FreeCells(M) = {} THEN [M EXCEPT !.exc = TRUE]
  ELSE IF M.slot[s].ptr = Null THEN [M EXCEPT !.fault = "deref_source"]
  ELSE LET c == NewCell(M)
           a == M.slot[s].ptr
           M1 == CopyInto([M EXCEPT !.heap[c] = M.heap[a]], Kid(c), Kid(a))
       IN  IF M1.exc THEN [M1 EXCEPT !.heap[c] = Null]
           ELSE IF M1.fault # "none" THEN M1
           ELSE [M1 EXCEPT !.slot[t] = Box(M.slot[s].alt, c),
                           !.active[t] = M.active[s], !.alive[t] = TRUE]

\* recursive_wrapper::operator=(const recursive_wrapper&), assign(rhs.get()):
\* *item = *rhs.item runs Node's memberwise assignment, whose first member
\* val is assigned here; the child variant follows.
BoxAssignVal(M, o, s) == [M EXCEPT !.heap[M.slot[o].ptr] = M.heap[M.slot[s].ptr]]

\* The assigner on different tags: Rhs tmp(rhs) (which may throw before
\* anything changed), self.destruct(), self.construct(std::move(tmp)), and
\* ~tmp at the end of the block.
AssignOtherM(M, o, s) ==
  LET Mt == CopyInto(M, Temp, s)
  IN  IF Live(Mt) THEN Kill(MoveInto(Destruct(Mt, o), o, Temp), Temp) ELSE Mt

\* Mutant: active = rhs.active is left out after the visitor.
CopyAssignTagStale(M1, o, s) ==
  IF ~Live(M1) THEN M1
  ELSE IF ~M1.alive[s] THEN [M1 EXCEPT !.fault = "copy_reads_freed_rhs"]
  ELSE M1

\* operator=(const variant&) after its visit returns: active = rhs.active
\* reads rhs again, which the visit may have destroyed.
CopyAssignTag(M1, o, s) ==
  IF ~Live(M1) THEN M1
  ELSE IF ~M1.alive[s] THEN [M1 EXCEPT !.fault = "copy_reads_freed_rhs"]
  ELSE [M1 EXCEPT !.active[o] = M1.active[s]]

RECURSIVE CopyAssignM(_, _, _)
\* o = s (operator=(const variant&) with the assigner visitor).  Same tag:
\* the alternative is copy-assigned in place; for a box that is Node's
\* memberwise assignment, val and then the child variants, recursively.
\* Different tags: AssignOtherM.  Then active = rhs.active.
CopyAssignM(M, o, s) ==
  LET M1 ==
        IF M.active[o] = M.active[s] THEN
          IF M.slot[s].kind # "box" THEN [M EXCEPT !.slot[o].val = M.slot[s].val]
          ELSE IF M.slot[s].ptr = Null THEN [M EXCEPT !.fault = "deref_source"]
          ELSE IF M.slot[o].ptr = Null THEN [M EXCEPT !.fault = "deref_target"]
          ELSE CopyAssignM(BoxAssignVal(M, o, s),
                           Kid(M.slot[o].ptr), Kid(M.slot[s].ptr))
        ELSE AssignOtherM(M, o, s)
  IN  CopyAssignTag(M1, o, s)

\* variant arg(x): the converting constructor builds alternative t from x,
\* a Node{x, variant()} when t is boxed (recursive_wrapper(U&&) runs
\* new T(...), which may throw before arg exists).
MakeArg(M, t, x) ==
  IF t \notin Boxed
    THEN [M EXCEPT !.slot[Arg] = Plain(t, x), !.active[Arg] = t,
                   !.alive[Arg] = TRUE]
  ELSE IF FreeCells(M) = {} THEN [M EXCEPT !.exc = TRUE]
  ELSE LET c == NewCell(M)
       IN  [M EXCEPT !.heap[c] = x, !.alive[Kid(c)] = TRUE,
                     !.active[Kid(c)] = 0,
                     !.slot[Kid(c)] = Plain(0, DefaultVal),
                     !.slot[Arg] = Box(t, c), !.active[Arg] = t,
                     !.alive[Arg] = TRUE]

\* { variant arg(x); o = arg; }: a value of alternative t assigned through
\* a named variant; arg is destroyed at the end of the block, also when
\* the copy assignment throws.
AssignM(M, o, t, x) ==
  LET Ma == MakeArg(M, t, x)
      Mc == IF Live(Ma) THEN CopyAssignM(Ma, o, Arg) ELSE Ma
  IN  IF Ma.exc \/ Mc.fault # "none" THEN Mc ELSE Kill(Mc, Arg)

(***************************************************************************)
(* The specification.                                                      *)
(***************************************************************************)
\* A statement's outcome becomes the state; an exception it threw has
\* reached the client.
Commit(M) ==
  /\ alive' = M.alive
  /\ active' = M.active
  /\ slot' = M.slot
  /\ heap' = M.heap
  /\ fault' = M.fault

\* The pairs a client assigns between: unless Nested, never a variant and
\* one nested in it.
Names(o, s) ==
  /\ o \in Reachable
  /\ s \in Reachable
  /\ Nested \/ o = s \/ (o \notin Inside(Mem, s) /\ s \notin Inside(Mem, o))

Init ==
  /\ alive = [o \in Obj |-> o \in Roots]
  /\ active = [o \in Obj |-> 0]
  /\ slot = [o \in Obj |-> IF o \in Roots THEN Plain(0, DefaultVal) ELSE Raw]
  /\ heap = [a \in Addr |-> Null]
  /\ fault = "none"

CopyAssign(o, s) == Names(o, s) /\ Commit(CopyAssignM(Mem, o, s))

Assign(o, t, x) ==
  /\ o \in Reachable
  /\ Commit(AssignM(Mem, o, t, x))

Next ==
  /\ fault = "none"
  /\ \/ \E o, s \in Obj : CopyAssign(o, s)
     \/ \E o \in Obj, t \in Tags, x \in Val : Assign(o, t, x)

Spec == Init /\ [][Next]_vars

(***************************************************************************)
(* Properties.                                                             *)
(***************************************************************************)
\* Type correctness: every live variant's storage holds an alternative of
\* the type its discriminator names, whatever assignments nested it.
TypeOK ==
  /\ alive \in [Obj -> BOOLEAN]
  /\ active \in [Obj -> Tags]
  /\ heap \in [Addr -> Val \cup {Null}]
  /\ fault \in Faults
  /\ \A o \in Obj : alive[o] /\ fault = "none" => slot[o] \in SlotsOf(active[o])

\* Ownership of the nested Nodes is a forest hanging from the roots (spec
\* section 5): the child variant of a Node lives exactly as long as the
\* Node, every allocated Node is below exactly one root (no leak, no Node
\* shared by two trees), no two live boxes hold the same pointer, and no
\* live box points at a freed Node.  Copying and destroying whole
\* subtrees through the recursion of the Node's members must keep it in
\* every defined state.
OwnershipForest ==
  fault = "none" =>
  /\ \A a \in Addr : (heap[a] # Null) = alive[Kid(a)]
  /\ \A a \in Addr :
       heap[a] # Null => Cardinality({r \in Roots : a \in Below(Mem, r)}) = 1
  /\ \A o, p \in Obj :
       alive[o] /\ alive[p] /\ o # p => Owned(Mem, o) \cap Owned(Mem, p) = {}
  /\ \A o \in Obj : alive[o] => \A a \in Owned(Mem, o) : heap[a] # Null

\* Copying a variant from one nested in it, x = get<Node>(x).child, is
\* defined: the tmp the assigner makes keeps the copy safe, and the
\* active = rhs.active at line 291 after it never reads a destroyed rhs.
CopyFromNestedIsDefined == fault # "copy_reads_freed_rhs"
=============================================================================
