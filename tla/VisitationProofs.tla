-------------------------- MODULE VisitationProofs --------------------------
(***************************************************************************)
(* Proofs about Visitation for every number of alternatives, every         *)
(* assignment of types, every set of values and every arity MaxArgs.      *)
(*                                                                         *)
(* The answers are only visible when a call returns, so the properties    *)
(* are not inductive.  The strengthening FrameInv says what each frame of *)
(* the call chain holds for the request in progress: an apply frame and   *)
(* the variants already bound in its binary_visitor chain concatenate to  *)
(* the operands; a dispatch or call frame has already unwrapped a suffix  *)
(* `rest` of them into its arguments, in order, and those were readable   *)
(* (a moved-from one faults instead); a return frame holds what the leaf  *)
(* visitor returns for all of them.                                        *)
(***************************************************************************)
EXTENDS Visitation, TLAPS, SequenceTheorems

External == {"visit", "hash", "get", "is"}

\* The leaf visitor an externally dispatched request starts with.
LeafOf(r) ==
  IF r.op = "visit" THEN [kind |-> "client"]
  ELSE IF r.op = "hash" THEN [kind |-> "hasher"]
  ELSE [kind |-> "getter", t |-> r.t]

\* The leaf visitor operator== and operator< bind to x.
CmpLeaf(r) == [kind |-> IF r.op = "eq" THEN "equals" ELSE "less_than", self |-> r.vs[1]]

UnwrapAll(s) == [i \in 1 .. Len(s) |-> Unwrapped(s[i])]

\* What the leaf visitor of a request returns.
VisitorRef(r) ==
  IF r.op \in {"eq", "lt"} THEN Reference(r) ELSE LeafResult(LeafOf(r), UnwrapAll(r.vs))

ApplyOK ==
  /\ req.op \in External
  /\ frame.w.leaf = LeafOf(req)
  /\ frame.vs # <<>>
  /\ frame.w.bound \o frame.vs = req.vs

DispatchOK ==
  IF req.op \in External
    THEN /\ ~frame.internal
         /\ frame.w.leaf = LeafOf(req)
         /\ \E rest \in Seq(Variants) :
               /\ req.vs = (frame.w.bound \o <<frame.target>>) \o rest
               /\ frame.args = UnwrapAll(rest)
    ELSE /\ frame.internal
         /\ frame.w = Leaf(CmpLeaf(req))
         /\ frame.target = req.vs[2]
         /\ frame.args = <<>>
         /\ req.vs[1].tag = req.vs[2].tag

CallOK ==
  IF req.op \in External
    THEN /\ frame.w.leaf = LeafOf(req)
         /\ \E rest \in Seq(Variants) :
               /\ req.vs = frame.w.bound \o rest
               /\ frame.args = UnwrapAll(rest)
    ELSE /\ frame.w = Leaf(CmpLeaf(req))
         /\ frame.args = <<GetValue(req.vs[2], TRUE)>>
         /\ req.vs[1].tag = req.vs[2].tag

\* A call in progress serves a request the caller issued.
ReqLive == frame # Idle => req \in Requests

FrameInv ==
  /\ ReqLive
  /\ frame.kind = "apply" => ApplyOK
  /\ frame.kind = "dispatch" => DispatchOK
  /\ frame.kind = "call" => CallOK
  /\ frame.kind = "ret" => frame.val = VisitorRef(req)
  /\ Answered => answer = Reference(req)
  /\ ~HollowOK => frame # Fault

IInv == TypeOK /\ FrameInv

-----------------------------------------------------------------------------
(* Facts about operands and sequences                                      *)
-----------------------------------------------------------------------------

\* A function on 1..k is a sequence of length k.
LEMMA FixedSeq ==
  \A k \in Nat : \A f \in [1 .. k -> Operands] :
     f \in Seq(Operands) /\ Len(f) = k /\ (k # 0 => f # <<>>)
<1> SUFFICES ASSUME NEW k \in Nat, NEW f \in [1 .. k -> Operands]
             PROVE  f \in Seq(Operands) /\ Len(f) = k /\ (k # 0 => f # <<>>)
  OBVIOUS
<1>1. f \in Seq(Operands) OBVIOUS
<1>2. Len(f) = k BY <1>1, LenProperties
<1>3. Len(<<>>) = 0 BY EmptySeq
<1> QED BY <1>1, <1>2, <1>3

\* The operands of each request the caller can issue: one to MaxArgs for visit, one for get, is and hash, two for == and <.
LEMMA ReqShape ==
  ASSUME NEW r \in Requests
  PROVE  /\ r.vs \in Seq(Operands)
         /\ r.vs # <<>>
         /\ r.op \in {"visit", "get", "is", "hash", "eq", "lt"}
         /\ r.op \in {"get", "is", "hash"} => Len(r.vs) = 1
         /\ r.op \in {"get", "is"} => r.t \in Types
         /\ r.op \in {"eq", "lt"} => Len(r.vs) = 2 /\ r.vs[1] \in Operands /\ r.vs[2] \in Operands
<1>1. CASE r.op = "visit"
  <2>1. PICK k \in 1 .. MaxArgs : r.vs \in [1 .. k -> Operands]
    BY <1>1 DEF Requests
  <2>2. k \in Nat /\ k # 0
    BY VisitAssumption
  <2> QED BY <1>1, <2>1, <2>2, FixedSeq
<1>2. CASE r \in [op : {"get", "is"}, t : Types, vs : [1 .. 1 -> Operands]]
  <2>1. r.vs \in [1 .. 1 -> Operands] /\ r.op \in {"get", "is"} /\ r.t \in Types
    BY <1>2
  <2>2. r.vs \in Seq(Operands) /\ Len(r.vs) = 1 /\ r.vs # <<>>
    <3>1. 1 \in Nat /\ 1 # 0 OBVIOUS
    <3> QED BY <2>1, <3>1, FixedSeq, Zenon
  <2> QED BY <2>1, <2>2
<1>3. CASE r \in [op : {"hash"}, vs : [1 .. 1 -> Operands]]
  <2>1. r.vs \in [1 .. 1 -> Operands] /\ r.op = "hash"
    BY <1>3
  <2>2. r.vs \in Seq(Operands) /\ Len(r.vs) = 1 /\ r.vs # <<>>
    <3>1. 1 \in Nat /\ 1 # 0 OBVIOUS
    <3> QED BY <2>1, <3>1, FixedSeq, Zenon
  <2> QED BY <2>1, <2>2
<1>4. CASE r \in [op : {"eq", "lt"}, vs : [1 .. 2 -> Operands]]
  <2>1. r.vs \in [1 .. 2 -> Operands] /\ r.op \in {"eq", "lt"}
    BY <1>4
  <2>2. r.vs \in Seq(Operands) /\ Len(r.vs) = 2 /\ r.vs # <<>>
    <3>1. 2 \in Nat /\ 2 # 0 OBVIOUS
    <3> QED BY <2>1, <3>1, FixedSeq, Zenon
  <2> QED BY <2>1, <2>2
<1> QED BY <1>1, <1>2, <1>3, <1>4 DEF Requests

\* A frame step keeps serving the request it started with.
LEMMA ReqLiveKept ==
  ASSUME IInv, frame.kind # "idle", req' = req
  PROVE  ReqLive'
BY DEF IInv, FrameInv, ReqLive, Idle

\* What get_value and the unwrapping of an operand produce; only a box that was moved from holds Hollow.
LEMMA OperandShape ==
  ASSUME NEW x \in Operands
  PROVE  /\ x \in [tag : Tags, v : Val \cup {Hollow}]
         /\ Unwrapped(x) \in Received
         /\ \A b \in BOOLEAN : GetValue(x, b) \in Received
         /\ ~HollowOK => x.v # Hollow
         /\ x.v # Hollow => x \in Variants
         /\ Unwrapped(x) # Null
<1>1. /\ x \in [tag : Tags, v : Val \cup {Hollow}]
      /\ Unwrapped(x) \in Received
      /\ \A b \in BOOLEAN : GetValue(x, b) \in Received
      /\ ~HollowOK => x.v # Hollow
      /\ x.v # Hollow => x \in Variants
  BY VisitAssumption DEF Operands, Variants, Unwrapped, Received, GetValue, Types, Range, Tags
<1>2. Unwrapped(x) \in [type : STRING, wrapped : BOOLEAN, v : Val \cup {Hollow}]
  BY <1>1, VisitAssumption DEF Unwrapped, Tags
<1>3. Unwrapped(x) # Null
  BY <1>2, VisitAssumption
<1> QED BY <1>1, <1>3

\* Readable variants are operands.
LEMMA VariantsAreOperands == Variants \subseteq Operands /\ Seq(Variants) \subseteq Seq(Operands)
<1>1. Variants \subseteq Operands BY DEF Operands
<1> QED BY <1>1, SeqMonotonic

\* Concatenation of operand lists is associative.
LEMMA ConcatAssocOperands ==
  \A s, t, u \in Seq(Operands) : (s \o t) \o u = s \o (t \o u)
BY ConcatAssociative

\* Unwrapping a list of operands gives a list of received values of the same length.
LEMMA UnwrapAllType ==
  ASSUME NEW s \in Seq(Operands)
  PROVE  /\ UnwrapAll(s) \in Seq(Received)
         /\ Len(UnwrapAll(s)) = Len(s)
BY OperandShape DEF UnwrapAll

\* get_value of one more readable variant, prepended, is the unwrapping of the longer list.
LEMMA UnwrapCons ==
  ASSUME NEW x \in Variants, NEW s \in Seq(Variants)
  PROVE  <<Unwrapped(x)>> \o UnwrapAll(s) = UnwrapAll(<<x>> \o s)
BY DEF UnwrapAll

\* binary_visitor moves the first remaining variant onto the end of the bound chain.
LEMMA AppendHeadTail ==
  ASSUME NEW S, NEW b \in Seq(S), NEW s \in Seq(S), s # <<>>
  PROVE  /\ Append(b, Head(s)) \in Seq(S)
         /\ Tail(s) \in Seq(S)
         /\ Append(b, Head(s)) \o Tail(s) = b \o s
BY HeadTailProperties

\* apply_visitor with at least two variants leaves at least one.
LEMMA TailNonEmpty ==
  ASSUME NEW S, NEW s \in Seq(S), Len(s) >= 2
  PROVE  Tail(s) # <<>>
<1>1. Len(Tail(s)) = Len(s) - 1 BY HeadTailProperties, EmptySeq
<1>2. Len(s) \in Nat BY LenProperties
<1>3. \A n, m : n \in Nat /\ n >= 2 /\ m = n - 1 => m # 0 BY SMT
<1>4. Len(Tail(s)) # 0 BY <1>1, <1>2, <1>3, Zenon
<1>5. Len(<<>>) = 0 BY EmptySeq
<1> QED BY <1>4, <1>5, Zenon

\* binary_visitor::operator() dispatches the last variant bound and keeps the rest.
LEMMA FrontLast ==
  ASSUME NEW S, NEW b \in Seq(S), b # <<>>
  PROVE  /\ Front(b) \in Seq(S)
         /\ Last(b) \in S
         /\ b = Front(b) \o <<Last(b)>>
BY DEF Front, Last

-----------------------------------------------------------------------------
(* Init and the steps of a call                                            *)
-----------------------------------------------------------------------------

\* Before the first call, the invariant holds.
LEMMA InitIInv == Init => IInv
BY DEF Init, IInv, TypeOK, FrameInv, ReqLive, Frames, Idle, Fault, Answered, AnswerType,
       VisitorResult

\* Wrapping a variant in a binary_visitor (apply_visitor, lines 647-652) preserves the invariant.
LEMMA ApplyNIInv ==
  ASSUME IInv, ApplyN
  PROVE  IInv'
<1>1. /\ frame.kind = "apply"
      /\ frame.w \in Visitors /\ frame.vs \in Seq(Operands)
      /\ ApplyOK
  BY DEF IInv, TypeOK, Frames, FrameInv, ApplyN, Idle, Fault
<1>2. /\ frame.vs # <<>>
      /\ Append(frame.w.bound, Head(frame.vs)) \in Seq(Operands)
      /\ Tail(frame.vs) \in Seq(Operands)
      /\ Append(frame.w.bound, Head(frame.vs)) \o Tail(frame.vs) = frame.w.bound \o frame.vs
  <2>1. frame.w.bound \in Seq(Operands) BY <1>1 DEF Visitors
  <2>2. frame.vs # <<>> BY <1>1 DEF ApplyOK
  <2>3. frame.vs \in Seq(Operands) BY <1>1
  <2> QED BY <2>1, <2>2, <2>3, AppendHeadTail
<1>3. /\ BinaryVisitor(frame.w, Head(frame.vs)) \in Visitors
      /\ BinaryVisitor(frame.w, Head(frame.vs)).leaf = frame.w.leaf
      /\ BinaryVisitor(frame.w, Head(frame.vs)).bound = Append(frame.w.bound, Head(frame.vs))
  BY <1>1, <1>2 DEF Visitors, BinaryVisitor
<1>4. Tail(frame.vs) # <<>>
  <2>1. Len(frame.vs) >= 2 BY DEF ApplyN
  <2>2. frame.vs \in Seq(Operands) BY <1>1
  <2> QED BY <2>1, <2>2, TailNonEmpty
<1>5. frame' = ApplyF(BinaryVisitor(frame.w, Head(frame.vs)), Tail(frame.vs)) /\ req' = req /\ answer' = answer
  BY DEF ApplyN
<1>6. TypeOK'
  BY <1>2, <1>3, <1>5 DEF IInv, TypeOK, Frames, ApplyF
<1>7. FrameInv'
  <2>1. ReqLive' BY <1>1, <1>5, ReqLiveKept
  <2> QED BY <1>1, <1>2, <1>3, <1>4, <1>5, <2>1 DEF FrameInv, ApplyOK, ApplyF, Answered, Idle, Fault
<1> QED BY <1>6, <1>7 DEF IInv

\* Starting the dispatch of the last variant (lines 626-632) preserves the invariant.
LEMMA Apply1IInv ==
  ASSUME IInv, Apply1
  PROVE  IInv'
<1>1. /\ frame.kind = "apply"
      /\ frame.w \in Visitors /\ frame.vs \in Seq(Operands)
      /\ ApplyOK
      /\ Len(frame.vs) = 1
  BY DEF IInv, TypeOK, Frames, FrameInv, Apply1, Idle, Fault
<1>2. /\ frame.vs[1] \in Operands
      /\ frame.vs = <<frame.vs[1]>>
      /\ req.vs = (frame.w.bound \o <<frame.vs[1]>>) \o <<>>
  <2>1. frame.vs[1] \in Operands /\ frame.vs = <<frame.vs[1]>>
    BY <1>1
  <2>2. frame.w.bound \in Seq(Operands) /\ frame.w.bound \o frame.vs = req.vs
    BY <1>1 DEF Visitors, ApplyOK
  <2>3. frame.w.bound \o <<frame.vs[1]>> \in Seq(Operands)
    BY <2>1, <2>2
  <2> QED BY <2>1, <2>2, <2>3, ConcatEmptySeq
<1>3. frame' = DispatchF(frame.w, frame.vs[1], <<>>, FALSE) /\ req' = req /\ answer' = answer
  BY DEF Apply1
<1>4. TypeOK'
  BY <1>1, <1>2, <1>3 DEF IInv, TypeOK, Frames, DispatchF
<1>5. DispatchOK'
  <2>1. <<>> \in Seq(Variants) /\ <<>> = UnwrapAll(<<>>)
    BY DEF UnwrapAll
  <2>2. req.op \in External /\ frame.w.leaf = LeafOf(req)
    BY <1>1 DEF ApplyOK
  <2> QED BY <1>2, <1>3, <2>1, <2>2 DEF DispatchOK, DispatchF
<1>6. FrameInv'
  <2>1. ReqLive' BY <1>1, <1>3, ReqLiveKept
  <2> QED BY <1>3, <1>5, <2>1 DEF FrameInv, DispatchF, Answered, Idle, Fault
<1> QED BY <1>4, <1>6 DEF IInv

\* visit_impl with get_value (lines 307-323, 466-515) preserves the invariant.
LEMMA DispatchIInv ==
  ASSUME IInv, Dispatch
  PROVE  IInv'
<1>1. /\ frame.kind = "dispatch"
      /\ frame.w \in Visitors /\ frame.target \in Operands
      /\ frame.args \in Seq(Received) /\ frame.internal \in BOOLEAN
      /\ DispatchOK
  BY DEF IInv, TypeOK, Frames, FrameInv, Dispatch, Idle, Fault
<1>2. CASE UnwrapsNull(frame.target, frame.internal)
  <2>1. frame' = Fault /\ req' = req /\ answer' = answer
    BY <1>2 DEF Dispatch
  <2>2. HollowOK
    BY <1>1, <1>2, OperandShape DEF UnwrapsNull
  <2>3. TypeOK'
    BY <2>1 DEF IInv, TypeOK, Frames
  <2>4. FrameInv'
    <3>1. ReqLive' BY <1>1, <2>1, ReqLiveKept
    <3> QED BY <2>1, <2>2, <3>1 DEF FrameInv, Fault, Answered, Idle
  <2> QED BY <2>3, <2>4 DEF IInv
<1>3. CASE ~UnwrapsNull(frame.target, frame.internal)
  <2>1. /\ frame' = CallF(frame.w, <<GetValue(frame.target, frame.internal)>> \o frame.args)
        /\ req' = req /\ answer' = answer
    BY <1>3 DEF Dispatch
  <2>2. GetValue(frame.target, frame.internal) \in Received
    BY <1>1, OperandShape
  <2>3. <<GetValue(frame.target, frame.internal)>> \o frame.args \in Seq(Received)
    BY <1>1, <2>2
  <2>4. TypeOK'
    BY <1>1, <2>1, <2>3 DEF IInv, TypeOK, Frames, CallF
  <2>5. CASE req.op \in External
    <3>1. ~frame.internal /\ frame.w.leaf = LeafOf(req)
      BY <1>1, <2>5 DEF DispatchOK
    <3>2. PICK rest \in Seq(Variants) :
            /\ req.vs = (frame.w.bound \o <<frame.target>>) \o rest
            /\ frame.args = UnwrapAll(rest)
      BY <1>1, <2>5 DEF DispatchOK
    <3>3. frame.target \in Variants
      BY <1>1, <1>3, <3>1, OperandShape DEF UnwrapsNull
    <3>4. <<frame.target>> \o rest \in Seq(Variants)
      BY <3>3
    <3>5. req.vs = frame.w.bound \o (<<frame.target>> \o rest)
      <4>1. frame.w.bound \in Seq(Operands) /\ <<frame.target>> \in Seq(Operands)
        BY <1>1 DEF Visitors
      <4>2. rest \in Seq(Operands)
        BY VariantsAreOperands
      <4>3. (frame.w.bound \o <<frame.target>>) \o rest
              = frame.w.bound \o (<<frame.target>> \o rest)
        BY <4>1, <4>2, ConcatAssocOperands
      <4> QED BY <3>2, <4>3
    <3>6. <<GetValue(frame.target, frame.internal)>> \o frame.args
            = UnwrapAll(<<frame.target>> \o rest)
      <4>1. GetValue(frame.target, frame.internal) = Unwrapped(frame.target)
        BY <3>1 DEF GetValue, Unwrapped
      <4> QED BY <4>1, <3>2, <3>3, UnwrapCons
    <3>7. CallOK'
      BY <2>1, <2>5, <3>1, <3>4, <3>5, <3>6 DEF CallOK, CallF
    <3>8. ReqLive' BY <1>1, <2>1, ReqLiveKept
    <3> QED BY <2>1, <2>4, <3>7, <3>8 DEF IInv, FrameInv, CallF, Answered, Idle, Fault
  <2>6. CASE req.op \notin External
    <3>1. /\ frame.internal
          /\ frame.w = Leaf(CmpLeaf(req))
          /\ frame.target = req.vs[2]
          /\ frame.args = <<>>
          /\ req.vs[1].tag = req.vs[2].tag
      BY <1>1, <2>6 DEF DispatchOK
    <3>2. <<GetValue(frame.target, frame.internal)>> \o frame.args
            = <<GetValue(req.vs[2], TRUE)>>
      BY <3>1
    <3>3. CallOK'
      BY <2>1, <2>6, <3>1, <3>2 DEF CallOK, CallF
    <3>4. ReqLive' BY <1>1, <2>1, ReqLiveKept
    <3> QED BY <2>1, <2>4, <3>3, <3>4 DEF IInv, FrameInv, CallF, Answered, Idle, Fault
  <2> QED BY <2>5, <2>6
<1> QED BY <1>2, <1>3

\* binary_visitor::operator() (lines 112-117) preserves the invariant.
LEMMA CallBinaryIInv ==
  ASSUME IInv, CallBinary
  PROVE  IInv'
<1>1. /\ frame.kind = "call"
      /\ frame.w \in Visitors /\ frame.args \in Seq(Received)
      /\ frame.w.bound # <<>>
      /\ CallOK
  BY DEF IInv, TypeOK, Frames, FrameInv, CallBinary, Idle, Fault
<1>2. /\ frame' = DispatchF(InnerVisitor(frame.w), Last(frame.w.bound), frame.args, FALSE)
      /\ req' = req /\ answer' = answer
  BY DEF CallBinary
<1>3. /\ Front(frame.w.bound) \in Seq(Operands)
      /\ Last(frame.w.bound) \in Operands
      /\ frame.w.bound = Front(frame.w.bound) \o <<Last(frame.w.bound)>>
  <2>1. frame.w.bound \in Seq(Operands) BY <1>1 DEF Visitors
  <2> QED BY <1>1, <2>1, FrontLast
<1>4. /\ InnerVisitor(frame.w) \in Visitors
      /\ InnerVisitor(frame.w).leaf = frame.w.leaf
      /\ InnerVisitor(frame.w).bound = Front(frame.w.bound)
  BY <1>1, <1>3 DEF Visitors, InnerVisitor
<1>5. TypeOK'
  BY <1>1, <1>2, <1>3, <1>4 DEF IInv, TypeOK, Frames, DispatchF
<1>6. req.op \in External
  <2>1. SUFFICES ASSUME req.op \notin External PROVE FALSE
    OBVIOUS
  <2>2. frame.w = Leaf(CmpLeaf(req))
    BY <1>1, <2>1 DEF CallOK
  <2> QED BY <1>1, <2>2 DEF Leaf
<1>7. PICK rest \in Seq(Variants) :
        /\ req.vs = frame.w.bound \o rest
        /\ frame.args = UnwrapAll(rest)
  BY <1>1, <1>6 DEF CallOK
<1>8. DispatchOK'
  BY <1>1, <1>2, <1>3, <1>4, <1>6, <1>7 DEF DispatchOK, DispatchF, CallOK
<1>9. ReqLive' BY <1>1, <1>2, ReqLiveKept
<1> QED BY <1>2, <1>5, <1>8, <1>9 DEF IInv, FrameInv, DispatchF, Answered, Idle, Fault

-----------------------------------------------------------------------------
(* What the leaf visitors return                                           *)
-----------------------------------------------------------------------------

\* For visit, get, is and hash, what the leaf visitor returns on the unwrapped operands is the meaning spec.md gives the request.
LEMMA ExternalRef ==
  ASSUME NEW r \in Requests, r.op \in External
  PROVE  (IF r.op = "is" THEN VisitorRef(r) # Null ELSE VisitorRef(r)) = Reference(r)
<1>1. /\ r.vs \in Seq(Operands)
      /\ r.op \in {"get", "is", "hash"} => Len(r.vs) = 1
  BY ReqShape
<1>2. VisitorRef(r) = LeafResult(LeafOf(r), UnwrapAll(r.vs))
  BY DEF VisitorRef, External
<1>3. r.op \in {"get", "is", "hash"} => /\ UnwrapAll(r.vs)[1] = Unwrapped(r.vs[1])
                                      /\ r.vs[1] \in Operands
  BY <1>1 DEF UnwrapAll
<1>4. CASE r.op = "visit"
  <2>1. DOMAIN r.vs = 1 .. Len(r.vs)
    BY <1>1, LenProperties
  <2> QED BY <1>2, <1>4, <2>1 DEF LeafResult, LeafOf, UnwrapAll, Reference
<1>5. CASE r.op = "hash"
  BY <1>2, <1>3, <1>5 DEF LeafResult, LeafOf, StdHash, Unwrapped, Reference
<1>6. CASE r.op = "get"
  BY <1>2, <1>3, <1>6 DEF LeafResult, LeafOf, GetterCall, Unwrapped, Reference
<1>7. CASE r.op = "is"
  <2>1. Unwrapped(r.vs[1]) # Null
    BY <1>3, <1>7, OperandShape
  <2>2. VisitorRef(r) = IF TypeOf[r.vs[1].tag] = r.t THEN Unwrapped(r.vs[1]) ELSE Null
    BY <1>2, <1>3, <1>7 DEF LeafResult, LeafOf, GetterCall, Unwrapped
  <2> QED BY <1>7, <2>1, <2>2 DEF Reference
<1> QED BY <1>4, <1>5, <1>6, <1>7 DEF External

\* The leaf visitors return values of the request's result type on readable operands.
LEMMA ExternalRefType ==
  ASSUME NEW r \in Requests, r.op \in External, r.vs \in Seq(Variants)
  PROVE  VisitorRef(r) \in VisitorResult(r.op)
<1>1. /\ r.vs \in Seq(Operands)
      /\ r.op \in {"get", "is", "hash"} => Len(r.vs) = 1
      /\ r.op \in {"get", "is"} => r.t \in Types
  BY ReqShape
<1>2. VisitorRef(r) = LeafResult(LeafOf(r), UnwrapAll(r.vs))
  BY DEF VisitorRef, External
<1>3. r.op \in {"get", "is", "hash"} => /\ UnwrapAll(r.vs)[1] = Unwrapped(r.vs[1])
                                      /\ r.vs[1] \in Variants
  BY <1>1 DEF UnwrapAll
<1>4. CASE r.op = "visit"
  <2>1. UnwrapAll(r.vs) \in Seq(Received)
    BY <1>1, UnwrapAllType
  <2> QED BY <1>2, <1>4, <2>1 DEF LeafResult, LeafOf, VisitorResult
<1>5. CASE r.op \in {"get", "is"}
  <2>1. Unwrapped(r.vs[1]) \in Received
    BY <1>3, <1>5, VariantsAreOperands, OperandShape
  <2> QED BY <1>2, <1>3, <1>5, <2>1 DEF LeafResult, LeafOf, GetterCall, VisitorResult
<1>6. CASE r.op = "hash"
  <2>1. Unwrapped(r.vs[1]) \in Received
    BY <1>3, <1>6, VariantsAreOperands, OperandShape
  <2>2. r.vs[1].v \in Val
    BY <1>3, <1>6 DEF Variants
  <2> QED BY <1>2, <1>3, <1>6, <2>1, <2>2 DEF LeafResult, LeafOf, StdHash, Unwrapped, Received,
             VisitorResult, Hashes
<1> QED BY <1>4, <1>5, <1>6 DEF External

\* Calling the leaf visitor (invoke, lines 487-495) preserves the invariant.
LEMMA CallLeafIInv ==
  ASSUME IInv, CallLeaf
  PROVE  IInv'
<1>1. /\ frame.kind = "call"
      /\ frame.w \in Visitors /\ frame.args \in Seq(Received)
      /\ frame.w.bound = <<>>
      /\ CallOK
      /\ req \in Requests
  BY DEF IInv, TypeOK, Frames, FrameInv, ReqLive, CallLeaf, Idle, Fault
<1>2. req' = req /\ answer' = answer
  BY DEF CallLeaf
<1>3. ReqLive'
  BY <1>1, <1>2, ReqLiveKept
<1>4. CASE req.op \in External
  <2>1. frame.w.leaf = LeafOf(req)
    BY <1>1, <1>4 DEF CallOK
  <2>2. PICK rest \in Seq(Variants) :
          /\ req.vs = frame.w.bound \o rest
          /\ frame.args = UnwrapAll(rest)
    BY <1>1, <1>4 DEF CallOK
  <2>3. <<>> \o rest = rest
    BY ConcatEmptySeq, Zenon
  <2>4. req.vs = rest
    BY <1>1, <2>2, <2>3
  <2>5. ~DerefsNull(frame.w.leaf, frame.args)
    BY <2>1 DEF DerefsNull, LeafOf
  <2>6. frame' = RetF(VisitorRef(req))
    <3>1. req.op \notin {"eq", "lt"}
      BY <1>4 DEF External
    <3> QED BY <2>1, <2>2, <2>4, <2>5, <3>1 DEF CallLeaf, VisitorRef
  <2>7. VisitorRef(req) \in VisitorResult(req.op)
    BY <1>1, <1>4, <2>4, ExternalRefType
  <2>8. TypeOK'
    BY <1>1, <1>2, <2>6, <2>7 DEF IInv, TypeOK, Frames, RetF
  <2>9. FrameInv'
    BY <1>2, <1>3, <2>6 DEF FrameInv, RetF, Answered, Idle, Fault
  <2> QED BY <2>8, <2>9 DEF IInv
<1>5. CASE req.op \notin External
  <2>1. /\ frame.w = Leaf(CmpLeaf(req))
        /\ frame.args = <<GetValue(req.vs[2], TRUE)>>
        /\ req.vs[1].tag = req.vs[2].tag
    BY <1>1, <1>5 DEF CallOK
  <2>2. req.op \in {"eq", "lt"} /\ req.vs[1] \in Operands /\ req.vs[2] \in Operands
    <3>1. /\ req.op \in {"visit", "get", "is", "hash", "eq", "lt"}
          /\ req.op \in {"eq", "lt"} => req.vs[1] \in Operands /\ req.vs[2] \in Operands
      BY <1>1, ReqShape
    <3> QED BY <1>5, <3>1 DEF External
  <2>3. /\ frame.w.leaf = CmpLeaf(req)
        /\ CmpLeaf(req).kind \in {"equals", "less_than"}
        /\ CmpLeaf(req).self = req.vs[1]
        /\ frame.args[1] = GetValue(req.vs[2], TRUE)
        /\ GetValue(req.vs[2], TRUE).v = req.vs[2].v
    BY <2>1 DEF Leaf, CmpLeaf, GetValue
  <2>4. CASE DerefsNull(frame.w.leaf, frame.args)
    <3>1. frame' = Fault
      BY <2>4 DEF CallLeaf
    <3>2. HollowOK
      <4>1. req.vs[1].v = Hollow \/ req.vs[2].v = Hollow
        BY <2>3, <2>4 DEF DerefsNull
      <4> QED BY <2>2, <4>1, OperandShape
    <3>3. TypeOK'
      BY <1>2, <3>1 DEF IInv, TypeOK, Frames
    <3>4. FrameInv'
      BY <1>2, <1>3, <3>1, <3>2 DEF FrameInv, Fault, Answered, Idle
    <3> QED BY <3>3, <3>4 DEF IInv
  <2>5. CASE ~DerefsNull(frame.w.leaf, frame.args)
    <3>1. frame' = RetF(Compare(CmpLeaf(req), GetValue(req.vs[2], TRUE)))
      BY <2>3, <2>5 DEF CallLeaf, LeafResult
    <3>2. Compare(CmpLeaf(req), GetValue(req.vs[2], TRUE)) = Reference(req)
      <4>1. /\ req.vs[1] \in [tag : Tags, v : Val \cup {Hollow}]
            /\ req.vs[2] \in [tag : Tags, v : Val \cup {Hollow}]
        BY <2>2, OperandShape
      <4>2. Tags \subseteq Nat
        BY VisitAssumption DEF Tags
      <4>3. CASE req.op = "eq"
        BY <2>1, <4>1, <4>3 DEF Compare, CmpLeaf, GetValue, Reference
      <4>4. CASE req.op = "lt"
        <5>1. Reference(req) = \/ req.vs[1].tag < req.vs[2].tag
                               \/ req.vs[1].tag = req.vs[2].tag /\ req.vs[1].v < req.vs[2].v
          BY <4>4 DEF Reference
        <5>2. Compare(CmpLeaf(req), GetValue(req.vs[2], TRUE)) = (req.vs[1].v < req.vs[2].v)
          BY <4>4 DEF Compare, CmpLeaf, GetValue
        <5>3. req.vs[1].tag \in Tags
          BY <4>1
        <5>4. req.vs[1].tag \in Nat
          BY <4>2, <5>3
        <5>5. ~(req.vs[1].tag < req.vs[2].tag)
          BY <2>1, <5>4
        <5>6. req.vs[1].v # Hollow /\ req.vs[2].v # Hollow
          BY <2>3, <2>5 DEF DerefsNull
        <5>7. req.vs[1].v \in Nat /\ req.vs[2].v \in Nat
          BY <4>1, <5>6, VisitAssumption
        <5>8. (req.vs[1].v < req.vs[2].v) \in BOOLEAN
          BY <5>7
        <5> QED BY <2>1, <5>1, <5>2, <5>5, <5>8, Zenon
      <4> QED BY <2>2, <4>3, <4>4
    <3>3. VisitorRef(req) = Reference(req)
      BY <2>2 DEF VisitorRef
    <3>4. Reference(req) \in VisitorResult(req.op)
      BY <2>2 DEF Reference, VisitorResult
    <3>5. TypeOK'
      BY <1>2, <3>1, <3>2, <3>4 DEF IInv, TypeOK, Frames, RetF
    <3>6. FrameInv'
      BY <1>2, <1>3, <3>1, <3>2, <3>3 DEF FrameInv, RetF, Answered, Idle, Fault
    <3> QED BY <3>5, <3>6 DEF IInv
  <2> QED BY <2>4, <2>5
<1> QED BY <1>4, <1>5

\* Returning the result to the caller (lines 701-709 for is) preserves the invariant.
LEMMA ReturnIInv ==
  ASSUME IInv, Return
  PROVE  IInv'
<1>1. /\ frame.kind = "ret"
      /\ frame.val \in VisitorResult(req.op)
      /\ frame.val = VisitorRef(req)
      /\ req \in Requests
  BY DEF IInv, TypeOK, Frames, FrameInv, ReqLive, Return, Idle, Fault
<1>2. /\ frame' = Idle /\ req' = req
      /\ answer' = IF req.op = "is" THEN frame.val # Null ELSE frame.val
  BY DEF Return
<1>3. answer' = Reference(req)
  <2>1. CASE req.op \in External
    BY <1>1, <1>2, <2>1, ExternalRef
  <2>2. CASE req.op \notin External
    <3>1. req.op \in {"visit", "get", "is", "hash", "eq", "lt"}
      BY <1>1, ReqShape
    <3> QED BY <1>1, <1>2, <2>2, <3>1 DEF VisitorRef, External
  <2> QED BY <2>1, <2>2
<1>4. TypeOK'
  BY <1>1, <1>2 DEF IInv, TypeOK, Frames, AnswerType
<1>5. FrameInv'
  BY <1>2, <1>3 DEF FrameInv, ReqLive, Idle, Fault, Answered
<1> QED BY <1>4, <1>5 DEF IInv

-----------------------------------------------------------------------------
(* The caller's requests                                                   *)
-----------------------------------------------------------------------------

\* A request that starts apply_visitor with its leaf visitor establishes the invariant.
LEMMA StartApply ==
  ASSUME IInv, NEW r \in Requests, r.op \in External,
         req' = r, frame' = ApplyF(Leaf(LeafOf(r)), r.vs), answer' = None
  PROVE  IInv'
<1>1. r.vs \in Seq(Operands) /\ r.vs # <<>> /\ (r.op \in {"get", "is"} => r.t \in Types)
  BY ReqShape
<1>2. <<>> \o r.vs = r.vs
  BY <1>1, ConcatEmptySeq, Zenon
<1>3. <<>> \in Seq(Operands)
  BY EmptySeq, Zenon
<1>4. Leaf(LeafOf(r)) \in Visitors
  BY <1>1, <1>3 DEF Leaf, LeafOf, Leaves, Visitors, External
<1>5. TypeOK'
  BY <1>1, <1>4 DEF TypeOK, Frames, ApplyF, AnswerType
<1>6. FrameInv'
  BY <1>1, <1>2 DEF FrameInv, ReqLive, ApplyOK, ApplyF, Leaf, Idle, Fault, Answered
<1> QED BY <1>5, <1>6 DEF IInv

\* visit(vs...) establishes the invariant.
LEMMA VisitIInv ==
  ASSUME IInv, NEW k \in 1 .. MaxArgs, NEW vs \in [1 .. k -> Operands], Visit(vs)
  PROVE  IInv'
<1> DEFINE r == [op |-> "visit", vs |-> vs]
<1>1. r \in Requests
  BY DEF Requests
<1>2. req' = r /\ frame' = ApplyF(Leaf(LeafOf(r)), r.vs) /\ answer' = None
  BY DEF Visit, Begin, LeafOf
<1> QED BY <1>1, <1>2, StartApply DEF External

\* get<T> and is<T> establish the invariant.
LEMMA GetIsIInv ==
  ASSUME IInv, NEW t \in Types, NEW x \in Operands, Get(t, x) \/ Is(t, x)
  PROVE  IInv'
<1>1. CASE Get(t, x)
  <2> DEFINE r == [op |-> "get", t |-> t, vs |-> <<x>>]
  <2>1. r \in Requests
    BY DEF Requests
  <2>2. req' = r /\ frame' = ApplyF(Leaf(LeafOf(r)), r.vs) /\ answer' = None
    BY <1>1 DEF Get, Begin, LeafOf
  <2> QED BY <2>1, <2>2, StartApply DEF External
<1>2. CASE Is(t, x)
  <2> DEFINE r == [op |-> "is", t |-> t, vs |-> <<x>>]
  <2>1. r \in Requests
    BY DEF Requests
  <2>2. req' = r /\ frame' = ApplyF(Leaf(LeafOf(r)), r.vs) /\ answer' = None
    BY <1>2 DEF Is, Begin, LeafOf
  <2> QED BY <2>1, <2>2, StartApply DEF External
<1> QED BY <1>1, <1>2

\* std::hash establishes the invariant.
LEMMA HashIInv ==
  ASSUME IInv, NEW x \in Operands, Hash(x)
  PROVE  IInv'
<1> DEFINE r == [op |-> "hash", vs |-> <<x>>]
<1>1. r \in Requests
  BY DEF Requests
<1>2. req' = r /\ frame' = ApplyF(Leaf(LeafOf(r)), r.vs) /\ answer' = None
  BY DEF Hash, Begin, LeafOf
<1> QED BY <1>1, <1>2, StartApply DEF External

\* operator== and operator< establish the invariant, on both the equal-tag and the different-tag paths.
LEMMA CompareIInv ==
  ASSUME IInv, NEW x \in Operands, NEW y \in Operands, Equal(x, y) \/ Less(x, y)
  PROVE  IInv'
<1>1. /\ x \in [tag : Tags, v : Val \cup {Hollow}]
      /\ y \in [tag : Tags, v : Val \cup {Hollow}]
      /\ Tags \subseteq Nat
  BY OperandShape, VisitAssumption DEF Tags
<1>2. <<>> \in Seq(Received) /\ <<>> \in Seq(Operands)
  BY EmptySeq, Zenon
<1>3. CASE x.tag = y.tag
  <2>1. SUFFICES ASSUME NEW op \in {"eq", "lt"},
                        req' = [op |-> op, vs |-> <<x, y>>],
                        frame' = DispatchF(Leaf(CmpLeaf(req')), y, <<>>, TRUE),
                        answer' = None
                 PROVE  IInv'
    <3>1. CASE Equal(x, y)
      BY <1>3, <3>1 DEF Equal, Begin, CmpLeaf
    <3>2. CASE Less(x, y)
      <4>1. /\ req' = [op |-> "lt", vs |-> <<x, y>>]
            /\ frame' = DispatchF(Leaf([kind |-> "less_than", self |-> x]), y, <<>>, TRUE)
            /\ answer' = None
        BY <1>3, <3>2 DEF Less, Begin
      <4>2. CmpLeaf(req') = [kind |-> "less_than", self |-> x]
        BY <4>1 DEF CmpLeaf
      <4> QED BY <4>1, <4>2
    <3> QED BY <3>1, <3>2
  <2>2. req' \in Requests
    BY <2>1 DEF Requests
  <2>3. Leaf(CmpLeaf(req')) \in Visitors
    BY <1>2, <2>1 DEF Leaf, CmpLeaf, Leaves, Visitors
  <2>4. TypeOK'
    BY <1>2, <2>1, <2>2, <2>3 DEF TypeOK, Frames, DispatchF, AnswerType
  <2>5. FrameInv'
    BY <1>3, <2>1, <2>2 DEF FrameInv, ReqLive, DispatchOK, DispatchF, External, Idle, Fault,
                            Answered
  <2> QED BY <2>4, <2>5 DEF IInv
<1>4. CASE x.tag # y.tag
  <2>1. SUFFICES ASSUME NEW op \in {"eq", "lt"},
                        req' = [op |-> op, vs |-> <<x, y>>],
                        frame' = RetF(Reference(req')),
                        answer' = None
                 PROVE  IInv'
    <3>1. CASE Equal(x, y)
      <4>1. (x = y) = FALSE
        BY <1>4
      <4> QED BY <1>4, <3>1, <4>1 DEF Equal, Begin, Reference
    <3>2. CASE Less(x, y)
      <4>1. x.tag \in Nat /\ y.tag \in Nat
        BY <1>1
      <4>2. (x.tag < y.tag \/ (x.tag = y.tag /\ x.v < y.v)) = (x.tag < y.tag)
        BY <1>4, <4>1
      <4>3. /\ req' = [op |-> "lt", vs |-> <<x, y>>]
            /\ frame' = RetF(x.tag < y.tag)
            /\ answer' = None
        BY <1>4, <3>2 DEF Less, Begin
      <4>4. Reference(req') = (x.tag < y.tag \/ (x.tag = y.tag /\ x.v < y.v))
        BY <4>3 DEF Reference
      <4> QED BY <4>2, <4>3, <4>4
    <3> QED BY <3>1, <3>2
  <2>2. req' \in Requests
    BY <2>1 DEF Requests
  <2>3. Reference(req') \in BOOLEAN
    BY <2>1 DEF Reference
  <2>4. TypeOK'
    BY <2>1, <2>2, <2>3 DEF TypeOK, Frames, RetF, AnswerType, VisitorResult
  <2>5. FrameInv'
    BY <2>1, <2>2 DEF FrameInv, ReqLive, RetF, VisitorRef, Idle, Fault, Answered
  <2> QED BY <2>4, <2>5 DEF IInv
<1> QED BY <1>3, <1>4

-----------------------------------------------------------------------------
(* The invariant and the properties it implies                             *)
-----------------------------------------------------------------------------

\* A step that changes nothing preserves the invariant.
LEMMA StutterIInv ==
  ASSUME IInv, UNCHANGED vars
  PROVE  IInv'
BY DEF vars, IInv, TypeOK, Frames, FrameInv, ReqLive, ApplyOK, DispatchOK, CallOK, Answered,
       VisitorRef, LeafOf, CmpLeaf, AnswerType, VisitorResult

\* Every step of the specification preserves the invariant.
LEMMA NextIInv ==
  ASSUME IInv, [Next]_vars
  PROVE  IInv'
<1>1. CASE Client
  <2>1. CASE \E k \in 1 .. MaxArgs : \E vs \in [1 .. k -> Operands] : Visit(vs) \/ VisitDelayed(vs)
    BY <2>1, VisitIInv DEF VisitDelayed
  <2>2. CASE \E t \in Types, x \in Operands : Get(t, x) \/ Is(t, x)
    BY <2>2, GetIsIInv
  <2>3. CASE \E x \in Operands : Hash(x)
    BY <2>3, HashIInv
  <2>4. CASE \E x, y \in Operands : Equal(x, y) \/ Less(x, y)
    BY <2>4, CompareIInv
  <2> QED BY <1>1, <2>1, <2>2, <2>3, <2>4 DEF Client
<1>2. CASE Step
  BY <1>2, ApplyNIInv, Apply1IInv, DispatchIInv, CallBinaryIInv, CallLeafIInv, ReturnIInv
     DEF Step
<1>3. CASE UNCHANGED vars
  BY <1>3, StutterIInv
<1> QED BY <1>1, <1>2, <1>3 DEF Next

\* Every reachable state of the request/frame machine satisfies the
\* strengthened invariant: what each frame of apply_visitor, the
\* binary_visitor chain and the leaf visitors holds agrees with the request.
THEOREM VisitationInvariant == Spec => []IInv
<1>1. Init => IInv
  BY InitIInv
<1>2. IInv /\ [Next]_vars => IInv'
  BY NextIInv
<1> QED BY <1>1, <1>2, PTL DEF Spec

\* The model's typing of requests, frames and answers holds in every state.
THEOREM VisitationTypeCorrect == Spec => []TypeOK
<1>1. IInv => TypeOK
  BY DEF IInv
<1> QED BY <1>1, VisitationInvariant, PTL

\* n-ary visit and std::hash deliver the unwrapped active values of the
\* operands, in order (apply_visitor through binary_visitor, lines 102-123
\* and 616-682), for every arity and every list of alternatives.
THEOREM VisitCorrect == Spec => []VisitDeliversActiveValues
<1>1. IInv => VisitDeliversActiveValues
  BY DEF IInv, FrameInv, VisitDeliversActiveValues
<1> QED BY <1>1, VisitationInvariant, PTL

\* operator== and operator< (lines 572-580) are the lexicographic order on
\* (which(), value), also when moved-from boxes may be compared.
THEOREM ComparisonCorrect == Spec => []ComparisonIsLexicographic
<1>1. IInv => ComparisonIsLexicographic
  BY DEF IInv, FrameInv, ComparisonIsLexicographic
<1> QED BY <1>1, VisitationInvariant, PTL

\* When no operand is a moved-from box, get<T> and is<T> (lines 684-709)
\* never fault and agree with which().  With moved-from boxes the property
\* fails (run moved_from_get), so the hypothesis is needed.
THEOREM AccessorsCorrect == ~HollowOK => (Spec => []AccessorsAgreeWithWhich)
<1> SUFFICES ASSUME ~HollowOK PROVE Spec => []AccessorsAgreeWithWhich
  OBVIOUS
<1>1. IInv => AccessorsAgreeWithWhich
  BY DEF IInv, FrameInv, AccessorsAgreeWithWhich
<1> QED BY <1>1, VisitationInvariant, PTL
=============================================================================
