----------------------------- MODULE Visitation -----------------------------
(***************************************************************************)
(* The visitation framework of src/broker/util/variant.hh and what is     *)
(* built on it: apply_visitor (unary, n-ary by currying through           *)
(* binary_visitor, and delayed), visit, the jump-table dispatch           *)
(* visit_impl/invoke with its internal/external mode, the accessors       *)
(* get<T> and is<T>, operator== and operator< between variants, and       *)
(* std::hash.                                                              *)
(*                                                                         *)
(* One caller issues one request at a time (the library is synchronous).   *)
(* A request runs as a sequence of steps, one per C++ call frame: every    *)
(* call in the chain is a tail call (`return f(...)`), so one frame         *)
(* variable suffices.  The variants visited are readable (a moved-from    *)
(* box is the lifecycle model's concern), each seen as its tag and the    *)
(* value of its alternative.  Alternative i has its own type; when i is   *)
(* boxed the buffer holds recursive_wrapper<T_i>.                          *)
(***************************************************************************)
EXTENDS Naturals, Sequences, SequencesExt

CONSTANTS
  N,         \* number of alternatives, sizeof...(Ts)
  TypeOf,    \* the type T_i of each alternative (unwrapped when boxed)
  Boxed,     \* alternatives stored as recursive_wrapper<T>
  Val,       \* values of the alternatives, ordered by their operator<
  MaxArgs,   \* most variants passed to one visit call
  HollowOK,  \* whether an operand may be a box that was moved from
  Hollow,    \* the value of a box whose unique_ptr is null
  Null,      \* nullptr returned by get<T>
  None       \* no answer yet

ASSUME VisitAssumption ==
  /\ N \in Nat \ {0}
  /\ TypeOf \in [0 .. N - 1 -> STRING]
  /\ Boxed \subseteq 0 .. N - 1
  /\ Val \subseteq Nat
  /\ MaxArgs \in Nat \ {0}
  /\ HollowOK \in BOOLEAN
  /\ Hollow \notin Val
  /\ Null \notin [type : STRING, wrapped : BOOLEAN, v : Val \cup {Hollow}]
  /\ Null # None

VARIABLES
  req,      \* the request being served: operation and operands
  frame,    \* the C++ frame currently executing
  answer    \* what the last finished request returned, or None

vars == <<req, frame, answer>>

Tags == 0 .. N - 1

Types == Range(TypeOf)

\* A readable variant: its tag and the value of its alternative.
Variants == [tag : Tags, v : Val]

\* The operands a caller may pass: readable variants and, when HollowOK,
\* variants whose boxed alternative was moved from (item == nullptr).
Operands == Variants \cup (IF HollowOK THEN [tag : Boxed, v : {Hollow}] ELSE {})

\* What a visitor's operator() receives: the alternative's type T_i,
\* wrapped when it is the recursive_wrapper<T_i> itself, and its value.
Received == [type : Types, wrapped : BOOLEAN, v : Val \cup {Hollow}]

\* get_value: in internal mode (std::true_type) a box is presented as the
\* wrapper; in external mode (std::false_type) x.get() unwraps it.
GetValue(x, internal) ==
  [type |-> TypeOf[x.tag], wrapped |-> internal /\ x.tag \in Boxed, v |-> x.v]

\* x.get() is *item: external mode dereferences a box's pointer.
UnwrapsNull(x, internal) == ~internal /\ x.v = Hollow

\* A visitor: a leaf visitor (the client's, getter<T>, hasher, equals{x},
\* less_than{x}) under a chain of binary_visitors.  binary_visitor<V, Vi>
\* holds the inner visitor and visitable vi; `bound` lists the visitables
\* of the chain, innermost first.
Leaves == [kind : {"client", "hasher"}] \cup [kind : {"getter"}, t : Types]
          \cup [kind : {"equals", "less_than"}, self : Operands]

Visitors == [leaf : Leaves, bound : Seq(Operands)]

Leaf(l) == [leaf |-> l, bound |-> <<>>]

\* binary_visitor<Visitor, V>(visitor, v), and its member visitor.
BinaryVisitor(w, x) == [leaf |-> w.leaf, bound |-> Append(w.bound, x)]

InnerVisitor(w) == [leaf |-> w.leaf, bound |-> Front(w.bound)]

Idle == [kind |-> "idle"]

\* Undefined behaviour was reached: the call has no defined outcome.
Fault == [kind |-> "fault"]

ApplyF(w, vs) == [kind |-> "apply", w |-> w, vs |-> vs]

DispatchF(w, x, args, internal) ==
  [kind |-> "dispatch", w |-> w, target |-> x, args |-> args, internal |-> internal]

CallF(w, args) == [kind |-> "call", w |-> w, args |-> args]

RetF(r) == [kind |-> "ret", val |-> r]

\* std::hash<T_i>{}(x): a function of the type and the value only.
StdHash(a) == [htype |-> a.type, hval |-> a.v]

Requests ==
  [op : {"visit"}, vs : UNION {[1 .. k -> Operands] : k \in 1 .. MaxArgs}]
  \cup [op : {"get", "is"}, t : Types, vs : [1 .. 1 -> Operands]]
  \cup [op : {"hash"}, vs : [1 .. 1 -> Operands]]
  \cup [op : {"eq", "lt"}, vs : [1 .. 2 -> Operands]]

-----------------------------------------------------------------------------
(* The caller's requests                                                   *)
-----------------------------------------------------------------------------

Begin(r, f) ==
  /\ frame = Idle
  /\ req' = r
  /\ frame' = f
  /\ answer' = None

\* visit(v, vs...): apply_visitor(v, expose(vs)...); expose is the
\* identity on a variant.
Visit(vs) == Begin([op |-> "visit", vs |-> vs], ApplyF(Leaf([kind |-> "client"]), vs))

\* apply_visitor(visitor) returns a delayed_visitor (or, for an lvalue, a
\* delayed_visitor_wrapper) whose operator()(vs...) is
\* apply_visitor(visitor, vs...).
VisitDelayed(vs) == Visit(vs)

\* get<T>(v): apply_visitor(getter<T>{}, expose(v)); is<T>(v) compares
\* that result with nullptr.
Get(t, x) ==
  Begin([op |-> "get", t |-> t, vs |-> <<x>>], ApplyF(Leaf([kind |-> "getter", t |-> t]), <<x>>))

Is(t, x) ==
  Begin([op |-> "is", t |-> t, vs |-> <<x>>], ApplyF(Leaf([kind |-> "getter", t |-> t]), <<x>>))

\* std::hash<variant>: visit(hasher{}, v).
Hash(x) == Begin([op |-> "hash", vs |-> <<x>>], ApplyF(Leaf([kind |-> "hasher"]), <<x>>))

\* operator==: x.active == y.active && y.apply_visitor_internal(equals{x}).
Equal(x, y) ==
  Begin([op |-> "eq", vs |-> <<x, y>>],
        IF x.tag = y.tag
          THEN DispatchF(Leaf([kind |-> "equals", self |-> x]), y, <<>>, TRUE)
          ELSE RetF(FALSE))

\* operator<: same discriminator, y.apply_visitor_internal(less_than{x});
\* otherwise x.active < y.active.
Less(x, y) ==
  Begin([op |-> "lt", vs |-> <<x, y>>],
        IF x.tag = y.tag
          THEN DispatchF(Leaf([kind |-> "less_than", self |-> x]), y, <<>>, TRUE)
          ELSE RetF(x.tag < y.tag))

-----------------------------------------------------------------------------
(* The call frames                                                         *)
-----------------------------------------------------------------------------

\* apply_visitor(visitor, v, vs...) with vs non-empty:
\* apply_visitor(binary_visitor<Visitor, V>(visitor, v), vs...).
ApplyN ==
  /\ frame.kind = "apply" /\ Len(frame.vs) >= 2
  /\ frame' = ApplyF(BinaryVisitor(frame.w, Head(frame.vs)), Tail(frame.vs))
  /\ UNCHANGED <<req, answer>>

\* apply_visitor(visitor, visitable): visitable.apply<std::false_type>(visitor).
Apply1Internal ==
  /\ frame.kind = "apply" /\ Len(frame.vs) = 1
  /\ frame' = DispatchF(frame.w, frame.vs[1], <<>>, TRUE)
  /\ UNCHANGED <<req, answer>>

Apply1 ==
  /\ frame.kind = "apply" /\ Len(frame.vs) = 1
  /\ frame' = DispatchF(frame.w, frame.vs[1], <<>>, FALSE)
  /\ UNCHANGED <<req, answer>>

\* visit_impl indexes callers[] by the target's tag; invoke reinterprets
\* the storage as that alternative and calls
\* visitor(get_value(*x, internal), args...).
DispatchRaw ==
  /\ frame.kind = "dispatch"
  /\ frame' = IF UnwrapsNull(frame.target, frame.internal) THEN Fault
              ELSE CallF(frame.w, <<frame.target>> \o frame.args)
  /\ UNCHANGED <<req, answer>>

DispatchArgsLast ==
  /\ frame.kind = "dispatch"
  /\ frame' = IF UnwrapsNull(frame.target, frame.internal) THEN Fault
              ELSE CallF(frame.w, frame.args \o <<GetValue(frame.target, frame.internal)>>)
  /\ UNCHANGED <<req, answer>>

Dispatch ==
  /\ frame.kind = "dispatch"
  /\ frame' = IF UnwrapsNull(frame.target, frame.internal) THEN Fault
              ELSE CallF(frame.w, <<GetValue(frame.target, frame.internal)>> \o frame.args)
  /\ UNCHANGED <<req, answer>>

\* binary_visitor::operator()(xs...):
\* visitable.apply<std::false_type>(visitor, xs...).
CallBinaryStalls ==
  /\ frame.kind = "call" /\ frame.w.bound # <<>>
  /\ frame' = frame
  /\ UNCHANGED <<req, answer>>

CallBinary ==
  /\ frame.kind = "call" /\ frame.w.bound # <<>>
  /\ frame' = DispatchF(InnerVisitor(frame.w), Last(frame.w.bound), frame.args, FALSE)
  /\ UNCHANGED <<req, answer>>

\* getter<T>: &val for a T&, nullptr for any other type (the template
\* overload for const U&), a recursive_wrapper<T> included.
GetterCall(t, a) == IF a.type = t /\ ~a.wrapped THEN a ELSE Null

\* equals / less_than: self's storage reinterpreted as Rhs and compared
\* with rhs by Rhs's own == or <; recursive_wrapper's compare *item.
CompareSwapped(l, a) == IF l.kind = "equals" THEN l.self.v = a.v ELSE a.v < l.self.v

Compare(l, a) == IF l.kind = "equals" THEN l.self.v = a.v ELSE l.self.v < a.v

\* What invoke's call visitor(x, args...) returns, per leaf visitor; the
\* client visitor's result is the arguments it received.
LeafResult(l, args) ==
  CASE l.kind = "client" -> args
    [] l.kind = "getter" -> GetterCall(l.t, args[1])
    [] l.kind = "hasher" -> StdHash(args[1])
    [] l.kind \in {"equals", "less_than"} -> Compare(l, args[1])

\* recursive_wrapper's == and < compare *x.item with *y.item.
DerefsNull(l, args) ==
  l.kind \in {"equals", "less_than"} /\ Hollow \in {l.self.v, args[1].v}

CallLeaf ==
  /\ frame.kind = "call" /\ frame.w.bound = <<>>
  /\ frame' = IF DerefsNull(frame.w.leaf, frame.args) THEN Fault
              ELSE RetF(LeafResult(frame.w.leaf, frame.args))
  /\ UNCHANGED <<req, answer>>

\* The result reaches the caller; is<T> compares it with nullptr.
ReturnIsInverted ==
  /\ frame.kind = "ret"
  /\ answer' = IF req.op = "is" THEN frame.val = Null ELSE frame.val
  /\ frame' = Idle
  /\ UNCHANGED req

Return ==
  /\ frame.kind = "ret"
  /\ answer' = IF req.op = "is" THEN frame.val # Null ELSE frame.val
  /\ frame' = Idle
  /\ UNCHANGED req

-----------------------------------------------------------------------------

Init ==
  /\ req = [op |-> "none"]
  /\ frame = Idle
  /\ answer = None

Client ==
  \/ \E k \in 1 .. MaxArgs : \E vs \in [1 .. k -> Operands] : Visit(vs) \/ VisitDelayed(vs)
  \/ \E t \in Types, x \in Operands : Get(t, x) \/ Is(t, x)
  \/ \E x \in Operands : Hash(x)
  \/ \E x, y \in Operands : Equal(x, y) \/ Less(x, y)

\* The steps of a call in progress.
Step == ApplyN \/ Apply1 \/ Dispatch \/ CallBinary \/ CallLeaf \/ Return

Next == Client \/ Step

\* A caller need not call again, but a call in progress runs on the
\* caller's thread and never blocks: its steps are weakly fair.
Spec == Init /\ [][Next]_vars /\ WF_vars(Step)

(***************************************************************************)
(* Properties.  Each answer is compared with what spec.md sections 4.1,   *)
(* 4.2 and 4.5 say the operation means, computed directly from the        *)
(* operands without any dispatch.                                         *)
(***************************************************************************)

Hashes == [htype : Types, hval : Val]

\* The result type of the visitor a request runs, and what it returns.
VisitorResult(op) ==
  IF op = "visit" THEN Seq(Received)
  ELSE IF op \in {"get", "is"} THEN Received \cup {Null}
  ELSE IF op = "hash" THEN Hashes
  ELSE BOOLEAN

AnswerType(op) == IF op = "is" THEN BOOLEAN ELSE VisitorResult(op)

Frames ==
  {Idle, Fault}
  \cup [kind : {"apply"}, w : Visitors, vs : Seq(Operands)]
  \cup [kind : {"dispatch"}, w : Visitors, target : Operands, args : Seq(Received),
        internal : BOOLEAN]
  \cup [kind : {"call"}, w : Visitors, args : Seq(Received)]
  \cup [kind : {"ret"}, val : VisitorResult(req.op)]

TypeOK ==
  /\ req \in Requests \cup {[op |-> "none"]}
  /\ frame \in Frames
  /\ answer \in AnswerType(req.op) \cup {None}

\* The active value of x as a client sees it: its unwrapped type and value.
Unwrapped(x) == [type |-> TypeOf[x.tag], wrapped |-> FALSE, v |-> x.v]

\* The meaning of each request.
Reference(r) ==
  LET x == r.vs[1] IN
  CASE r.op = "visit" -> [i \in DOMAIN r.vs |-> Unwrapped(r.vs[i])]
    [] r.op = "hash"  -> [htype |-> TypeOf[x.tag], hval |-> x.v]
    [] r.op = "get"   -> IF TypeOf[x.tag] = r.t THEN Unwrapped(x) ELSE Null
    [] r.op = "is"    -> TypeOf[x.tag] = r.t
    [] r.op = "eq"    -> x = r.vs[2]
    [] r.op = "lt"    -> \/ x.tag < r.vs[2].tag
                         \/ x.tag = r.vs[2].tag /\ x.v < r.vs[2].v

Answered == frame = Idle /\ answer # None

\* n-ary visit (the binary_visitor currying of apply_visitor, lines
\* 102-123 and 647-652) calls the client visitor with the unwrapped active
\* values of v1..vk, in that order, and std::hash hashes the unwrapped
\* active value only, without the discriminator.
VisitDeliversActiveValues ==
  Answered /\ req.op \in {"visit", "hash"} => answer = Reference(req)

\* get<T> and is<T> (lines 684-709) never fail and agree with which():
\* get<T>(v) is the active value exactly when the active alternative's
\* unwrapped type is T, and null otherwise.
AccessorsAgreeWithWhich ==
  req.op \in {"get", "is"} => /\ frame # Fault
                              /\ Answered => answer = Reference(req)

\* operator== and operator< (lines 572-580, through equals and less_than
\* in internal mode) are the lexicographic order on (tag, value): a box
\* compares its T, never the wrapper's identity.
ComparisonIsLexicographic ==
  Answered /\ req.op \in {"eq", "lt"} => answer = Reference(req)

\* Every call of the library returns to its caller: the chain of
\* binary_visitor frames is finite.
EveryCallReturns == frame # Idle ~> frame = Idle

-----------------------------------------------------------------------------
(* The promise of one call, VisitCall, seen through the frames.           *)
-----------------------------------------------------------------------------

\* A request whose behaviour is undefined: it reads a box that was moved
\* from, either through x.get() (every operand of visit, get, is and hash
\* is dispatched in external mode) or through recursive_wrapper's == and <,
\* which operator== and operator< reach only when the discriminators agree.
ReadsHollow(r) ==
  /\ \E i \in DOMAIN r.vs : r.vs[i].v = Hollow
  /\ r.op \in {"eq", "lt"} => r.vs[1].tag = r.vs[2].tag

CallStatus == CASE frame = Idle  -> "idle"
                [] frame = Fault -> "fault"
                [] OTHER         -> "busy"

AbsCall == INSTANCE VisitCall WITH Request <- Requests, NoReq <- [op |-> "none"],
             Result <- Reference, Undefined <- ReadsHollow, status <- CallStatus

\* Every call (visit, get, is, hash, ==, <), moved-from boxes among its
\* operands included, either returns the meaning of its request or, when
\* the request reads a moved-from box (item.get() null, lines 142 and 184),
\* dereferences it; no other call faults and no faulting call returns.
ImplementsVisitCall == AbsCall!Spec
=============================================================================
