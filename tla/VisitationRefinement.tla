------------------------ MODULE VisitationRefinement ------------------------
(***************************************************************************)
(* Proof that the frame machine of Visitation implements VisitCall, the   *)
(* promise of one synchronous call, under the mapping AbsCall: the        *)
(* status is "idle" at Idle, "fault" at Fault and "busy" in every frame   *)
(* of the chain; req and answer are the same.  Begin is Call, Return is   *)
(* Reply, a step to Fault is Crash and every other frame step stutters.   *)
(*                                                                         *)
(* IInv of VisitationProofs already says that a return frame holds the    *)
(* meaning of the request.  HollowRead adds the other half: a call        *)
(* faults only when its request reads a moved-from box, and reaches a     *)
(* return frame only when it does not.                                     *)
(***************************************************************************)
EXTENDS VisitationProofs

HollowRead ==
  /\ frame = Fault => ReadsHollow(req)
  /\ frame.kind = "ret" => ~ReadsHollow(req)

RInv == IInv /\ HollowRead

-----------------------------------------------------------------------------
(* HollowRead is preserved                                                 *)
-----------------------------------------------------------------------------

\* The operand a dispatch frame targets sits in the request right after the visitables already bound.
LEMMA ConcatAt ==
  ASSUME NEW S, NEW a \in Seq(S), NEW b \in Seq(S), NEW x \in S
  PROVE  /\ Len(a) + 1 \in DOMAIN ((a \o <<x>>) \o b)
         /\ ((a \o <<x>>) \o b)[Len(a) + 1] = x
BY SMT

\* A list of readable variants holds no moved-from box.
LEMMA NoHollowIn ==
  ASSUME NEW s \in Seq(Variants)
  PROVE  ~\E i \in DOMAIN s : s[i].v = Hollow
<1> SUFFICES ASSUME NEW i \in DOMAIN s PROVE s[i].v # Hollow
  OBVIOUS
<1>1. s[i] \in Variants
  OBVIOUS
<1>2. s[i].v \in Val
  BY <1>1 DEF Variants
<1> QED BY <1>2, VisitAssumption

\* A step into an apply, dispatch or call frame keeps HollowRead: the call neither faults nor returns.
LEMMA MidFrameHollow ==
  ASSUME frame'.kind \in {"apply", "dispatch", "call"}
  PROVE  HollowRead'
BY DEF HollowRead, Fault

\* visit_impl faults (x.get() on a null item, line 142) only on a moved-from operand of the request.
LEMMA DispatchHollow ==
  ASSUME IInv, Dispatch
  PROVE  HollowRead'
<1>1. /\ frame.kind = "dispatch"
      /\ frame.w \in Visitors /\ frame.target \in Operands
      /\ DispatchOK
  BY DEF IInv, TypeOK, Frames, FrameInv, Dispatch, Idle, Fault
<1>2. CASE UnwrapsNull(frame.target, frame.internal)
  <2>1. frame' = Fault /\ req' = req
    BY <1>2 DEF Dispatch
  <2>2. ~frame.internal /\ frame.target.v = Hollow
    BY <1>2 DEF UnwrapsNull
  <2>3. req.op \in External
    BY <1>1, <2>2 DEF DispatchOK
  <2>4. PICK rest \in Seq(Variants) : req.vs = (frame.w.bound \o <<frame.target>>) \o rest
    BY <1>1, <2>3 DEF DispatchOK
  <2>5. frame.w.bound \in Seq(Operands) /\ rest \in Seq(Operands)
    BY <1>1, VariantsAreOperands DEF Visitors
  <2>6. /\ Len(frame.w.bound) + 1 \in DOMAIN ((frame.w.bound \o <<frame.target>>) \o rest)
        /\ ((frame.w.bound \o <<frame.target>>) \o rest)[Len(frame.w.bound) + 1] = frame.target
    BY <1>1, <2>5, ConcatAt
  <2>7. \E i \in DOMAIN req.vs : req.vs[i].v = Hollow
    BY <2>2, <2>4, <2>6
  <2>8. ReadsHollow(req)
    BY <2>3, <2>7 DEF ReadsHollow, External
  <2> QED BY <2>1, <2>8 DEF HollowRead, Fault
<1>3. CASE ~UnwrapsNull(frame.target, frame.internal)
  <2>1. frame'.kind = "call"
    BY <1>3 DEF Dispatch, CallF
  <2> QED BY <2>1, MidFrameHollow
<1> QED BY <1>2, <1>3

\* Calling the leaf visitor (lines 487-495) returns exactly when no operand it reads is moved from;
\* recursive_wrapper's == and < (line 184) fault on a moved-from box.
LEMMA CallLeafHollow ==
  ASSUME IInv, CallLeaf
  PROVE  HollowRead'
<1>1. /\ frame.kind = "call"
      /\ frame.w.bound = <<>>
      /\ CallOK
      /\ req \in Requests
  BY DEF IInv, TypeOK, Frames, FrameInv, ReqLive, CallLeaf, Idle, Fault
<1>2. req' = req
  BY DEF CallLeaf
<1>3. CASE req.op \in External
  <2>1. frame.w.leaf = LeafOf(req)
    BY <1>1, <1>3 DEF CallOK
  <2>2. PICK rest \in Seq(Variants) : req.vs = frame.w.bound \o rest
    BY <1>1, <1>3 DEF CallOK
  <2>3. <<>> \o rest = rest
    BY ConcatEmptySeq, Zenon
  <2>4. req.vs \in Seq(Variants)
    BY <1>1, <2>2, <2>3
  <2>5. ~\E i \in DOMAIN req.vs : req.vs[i].v = Hollow
    BY <2>4, NoHollowIn
  <2>6. ~DerefsNull(frame.w.leaf, frame.args)
    BY <2>1 DEF DerefsNull, LeafOf
  <2>7. frame' # Fault
    BY <2>6 DEF CallLeaf, RetF, Fault
  <2> QED BY <1>2, <2>5, <2>7 DEF HollowRead, ReadsHollow
<1>4. CASE req.op \notin External
  <2>1. /\ frame.w = Leaf(CmpLeaf(req))
        /\ frame.args = <<GetValue(req.vs[2], TRUE)>>
        /\ req.vs[1].tag = req.vs[2].tag
    BY <1>1, <1>4 DEF CallOK
  <2>2. req.op \in {"eq", "lt"} /\ Len(req.vs) = 2 /\ req.vs \in Seq(Operands)
    <3>1. /\ req.op \in {"visit", "get", "is", "hash", "eq", "lt"}
          /\ req.op \in {"eq", "lt"} => Len(req.vs) = 2
          /\ req.vs \in Seq(Operands)
      BY <1>1, ReqShape
    <3> QED BY <1>4, <3>1 DEF External
  <2>3. DOMAIN req.vs = {1, 2}
    BY <2>2
  <2>4. DerefsNull(frame.w.leaf, frame.args) <=> (req.vs[1].v = Hollow \/ req.vs[2].v = Hollow)
    BY <2>1 DEF DerefsNull, Leaf, CmpLeaf, GetValue
  <2>5. ReadsHollow(req) <=> (req.vs[1].v = Hollow \/ req.vs[2].v = Hollow)
    BY <2>1, <2>3 DEF ReadsHollow
  <2>6. CASE DerefsNull(frame.w.leaf, frame.args)
    <3>1. frame' = Fault
      BY <2>6 DEF CallLeaf
    <3> QED BY <1>2, <2>4, <2>5, <2>6, <3>1 DEF HollowRead, Fault
  <2>7. CASE ~DerefsNull(frame.w.leaf, frame.args)
    <3>1. frame' # Fault
      BY <2>7 DEF CallLeaf, RetF, Fault
    <3> QED BY <1>2, <2>4, <2>5, <2>7, <3>1 DEF HollowRead
  <2> QED BY <2>6, <2>7
<1> QED BY <1>3, <1>4

\* operator== and operator< on different discriminators return without reading either box.
LEMMA CompareHollow ==
  ASSUME NEW x \in Operands, NEW y \in Operands, Equal(x, y) \/ Less(x, y)
  PROVE  HollowRead'
<1>1. CASE x.tag = y.tag
  <2>1. frame'.kind = "dispatch"
    BY <1>1 DEF Equal, Less, Begin, DispatchF
  <2> QED BY <2>1, MidFrameHollow
<1>2. CASE x.tag # y.tag
  <2>1. /\ req'.op \in {"eq", "lt"}
        /\ req'.vs = <<x, y>>
        /\ frame'.kind = "ret"
    BY <1>2 DEF Equal, Less, Begin, RetF
  <2>2. ~ReadsHollow(req')
    BY <1>2, <2>1 DEF ReadsHollow
  <2> QED BY <2>1, <2>2 DEF HollowRead, Fault
<1> QED BY <1>1, <1>2

\* Every step preserves HollowRead.
LEMMA NextHollow ==
  ASSUME IInv, HollowRead, [Next]_vars
  PROVE  HollowRead'
<1>1. CASE Client
  <2>1. CASE \E k \in 1 .. MaxArgs : \E vs \in [1 .. k -> Operands] : Visit(vs) \/ VisitDelayed(vs)
    <3>1. frame'.kind = "apply"
      BY <2>1 DEF Visit, VisitDelayed, Begin, ApplyF
    <3> QED BY <3>1, MidFrameHollow
  <2>2. CASE \E t \in Types, x \in Operands : Get(t, x) \/ Is(t, x)
    <3>1. frame'.kind = "apply"
      BY <2>2 DEF Get, Is, Begin, ApplyF
    <3> QED BY <3>1, MidFrameHollow
  <2>3. CASE \E x \in Operands : Hash(x)
    <3>1. frame'.kind = "apply"
      BY <2>3 DEF Hash, Begin, ApplyF
    <3> QED BY <3>1, MidFrameHollow
  <2>4. CASE \E x, y \in Operands : Equal(x, y) \/ Less(x, y)
    BY <2>4, CompareHollow
  <2> QED BY <1>1, <2>1, <2>2, <2>3, <2>4 DEF Client
<1>2. CASE ApplyN \/ Apply1 \/ CallBinary
  <2>1. frame'.kind \in {"apply", "dispatch"}
    BY <1>2 DEF ApplyN, Apply1, CallBinary, ApplyF, DispatchF
  <2> QED BY <2>1, MidFrameHollow
<1>3. CASE Dispatch
  BY <1>3, DispatchHollow
<1>4. CASE CallLeaf
  BY <1>4, CallLeafHollow
<1>5. CASE Return
  <2>1. frame' = Idle
    BY <1>5 DEF Return
  <2> QED BY <2>1 DEF HollowRead, Idle, Fault
<1>6. CASE UNCHANGED vars
  BY <1>6 DEF vars, HollowRead
<1> QED BY <1>1, <1>2, <1>3, <1>4, <1>5, <1>6 DEF Next, Step

\* Before the first call, and after every step, RInv holds.
LEMMA InitRInv == Init => RInv
BY InitIInv DEF Init, RInv, HollowRead, Idle, Fault

\* Every step preserves RInv.
LEMMA NextRInv ==
  ASSUME RInv, [Next]_vars
  PROVE  RInv'
BY NextIInv, NextHollow DEF RInv

\* A call reaches undefined behaviour only when its request reads a box
\* that was moved from (x.get() at line 142 or *item in the comparisons at
\* line 184), and returns only when it reads none.
THEOREM FaultOnlyOnHollowRead == Spec => []HollowRead
<1>1. RInv => HollowRead
  BY DEF RInv
<1>2. Spec => []RInv
  BY InitRInv, NextRInv, PTL DEF Spec
<1> QED BY <1>1, <1>2, PTL

-----------------------------------------------------------------------------
(* The steps of Visitation are steps of VisitCall                          *)
-----------------------------------------------------------------------------

\* The status the mapping gives each frame.
LEMMA StatusOf ==
  /\ frame = Idle => CallStatus = "idle"
  /\ frame = Fault => CallStatus = "fault"
  /\ frame.kind \notin {"idle", "fault"} => CallStatus = "busy"
BY DEF CallStatus, Idle, Fault

LEMMA StatusOfNext ==
  /\ frame' = Idle => CallStatus' = "idle"
  /\ frame' = Fault => CallStatus' = "fault"
  /\ frame'.kind \notin {"idle", "fault"} => CallStatus' = "busy"
BY DEF CallStatus, Idle, Fault

\* Before the first call, VisitCall is in its initial state.
LEMMA InitAbs == Init => AbsCall!Init
BY StatusOf DEF Init, AbsCall!Init

\* A caller's request is a call of VisitCall.
LEMMA BeginAbs ==
  ASSUME NEW r \in Requests, frame = Idle, req' = r, answer' = None,
         frame'.kind \notin {"idle", "fault"}
  PROVE  AbsCall!Next
<1>1. CallStatus = "idle" /\ CallStatus' = "busy"
  BY StatusOf, StatusOfNext
<1>2. AbsCall!Call(r)
  BY <1>1 DEF AbsCall!Call
<1> QED BY <1>2 DEF AbsCall!Next

LEMMA ClientAbs ==
  ASSUME Client
  PROVE  AbsCall!Next
<1>1. CASE \E k \in 1 .. MaxArgs : \E vs \in [1 .. k -> Operands] : Visit(vs) \/ VisitDelayed(vs)
  <2>1. PICK k \in 1 .. MaxArgs : \E vs \in [1 .. k -> Operands] : Visit(vs)
    BY <1>1 DEF VisitDelayed
  <2>0. PICK vs \in [1 .. k -> Operands] : Visit(vs)
    BY <2>1
  <2>2. [op |-> "visit", vs |-> vs] \in Requests
    BY DEF Requests
  <2>3. /\ frame = Idle /\ req' = [op |-> "visit", vs |-> vs] /\ answer' = None
        /\ frame'.kind \notin {"idle", "fault"}
    BY <2>0 DEF Visit, Begin, ApplyF
  <2> QED BY <2>2, <2>3, BeginAbs
<1>2. CASE \E t \in Types, x \in Operands : Get(t, x) \/ Is(t, x)
  <2>1. PICK t \in Types, x \in Operands : Get(t, x) \/ Is(t, x)
    BY <1>2
  <2>2. PICK op \in {"get", "is"} :
          /\ frame = Idle /\ req' = [op |-> op, t |-> t, vs |-> <<x>>] /\ answer' = None
          /\ frame'.kind \notin {"idle", "fault"}
    BY <2>1 DEF Get, Is, Begin, ApplyF
  <2>3. [op |-> op, t |-> t, vs |-> <<x>>] \in Requests
    BY DEF Requests
  <2> QED BY <2>2, <2>3, BeginAbs
<1>3. CASE \E x \in Operands : Hash(x)
  <2>1. PICK x \in Operands : Hash(x)
    BY <1>3
  <2>2. [op |-> "hash", vs |-> <<x>>] \in Requests
    BY DEF Requests
  <2>3. /\ frame = Idle /\ req' = [op |-> "hash", vs |-> <<x>>] /\ answer' = None
        /\ frame'.kind \notin {"idle", "fault"}
    BY <2>1 DEF Hash, Begin, ApplyF
  <2> QED BY <2>2, <2>3, BeginAbs
<1>4. CASE \E x, y \in Operands : Equal(x, y) \/ Less(x, y)
  <2>1. PICK x \in Operands, y \in Operands : Equal(x, y) \/ Less(x, y)
    BY <1>4
  <2>2. PICK op \in {"eq", "lt"} :
          /\ frame = Idle /\ req' = [op |-> op, vs |-> <<x, y>>] /\ answer' = None
          /\ frame'.kind \notin {"idle", "fault"}
    BY <2>1 DEF Equal, Less, Begin, DispatchF, RetF
  <2>3. [op |-> op, vs |-> <<x, y>>] \in Requests
    BY DEF Requests
  <2> QED BY <2>2, <2>3, BeginAbs
<1> QED BY <1>1, <1>2, <1>3, <1>4 DEF Client

\* A step inside the call chain that neither faults nor returns is invisible to the caller.
LEMMA FrameStutter ==
  ASSUME frame.kind \in {"apply", "dispatch", "call", "ret"},
         frame'.kind \in {"apply", "dispatch", "call", "ret"},
         req' = req, answer' = answer
  PROVE  UNCHANGED AbsCall!avars
<1>1. CallStatus = "busy" /\ CallStatus' = "busy"
  BY StatusOf, StatusOfNext
<1> QED BY <1>1 DEF AbsCall!avars

\* A step to undefined behaviour is VisitCall's Crash.
LEMMA CrashAbs ==
  ASSUME frame.kind \in {"dispatch", "call"}, frame' = Fault, req' = req, answer' = answer,
         HollowRead'
  PROVE  AbsCall!Crash
<1>1. CallStatus = "busy" /\ CallStatus' = "fault"
  BY StatusOf, StatusOfNext
<1>2. ReadsHollow(req)
  BY DEF HollowRead
<1> QED BY <1>1, <1>2 DEF AbsCall!Crash

\* The answer Return hands the caller is the meaning of the request.
LEMMA ReturnAnswer ==
  ASSUME IInv, Return
  PROVE  answer' = Reference(req)
<1>1. /\ frame.val \in VisitorResult(req.op)
      /\ frame.val = VisitorRef(req)
      /\ req \in Requests
  BY DEF IInv, TypeOK, Frames, FrameInv, ReqLive, Return, Idle, Fault
<1>2. answer' = IF req.op = "is" THEN frame.val # Null ELSE frame.val
  BY DEF Return
<1>3. CASE req.op \in External
  BY <1>1, <1>2, <1>3, ExternalRef
<1>4. CASE req.op \notin External
  <2>1. req.op \in {"visit", "get", "is", "hash", "eq", "lt"}
    BY <1>1, ReqShape
  <2> QED BY <1>1, <1>2, <1>4, <2>1 DEF VisitorRef, External
<1> QED BY <1>3, <1>4

\* Return is VisitCall's Reply.
LEMMA ReplyAbs ==
  ASSUME RInv, Return
  PROVE  AbsCall!Reply
<1>1. frame.kind = "ret" /\ frame' = Idle /\ req' = req
  BY DEF Return
<1>2. CallStatus = "busy" /\ CallStatus' = "idle"
  BY <1>1, StatusOf, StatusOfNext
<1>3. ~ReadsHollow(req)
  BY <1>1 DEF RInv, HollowRead
<1>4. answer' = Reference(req)
  BY ReturnAnswer DEF RInv
<1> QED BY <1>1, <1>2, <1>3, <1>4 DEF AbsCall!Reply

\* Every step of Visitation, from a state of RInv to one of RInv, is a step or a stutter of VisitCall.
LEMMA NextAbs ==
  ASSUME RInv, RInv', [Next]_vars
  PROVE  [AbsCall!Next]_AbsCall!avars
<1>1. CASE Client
  BY <1>1, ClientAbs
<1>2. CASE ApplyN \/ Apply1 \/ CallBinary
  <2>1. /\ frame.kind \in {"apply", "call"}
        /\ frame'.kind \in {"apply", "dispatch"}
        /\ req' = req /\ answer' = answer
    BY <1>2 DEF ApplyN, Apply1, CallBinary, ApplyF, DispatchF
  <2> QED BY <2>1, FrameStutter
<1>3. CASE Dispatch
  <2>1. frame.kind = "dispatch" /\ req' = req /\ answer' = answer
    BY <1>3 DEF Dispatch
  <2>2. CASE UnwrapsNull(frame.target, frame.internal)
    <3>1. frame' = Fault
      BY <1>3, <2>2 DEF Dispatch
    <3>2. HollowRead'
      BY DEF RInv
    <3> QED BY <2>1, <3>1, <3>2, CrashAbs DEF AbsCall!Next
  <2>3. CASE ~UnwrapsNull(frame.target, frame.internal)
    <3>1. frame'.kind = "call"
      BY <1>3, <2>3 DEF Dispatch, CallF
    <3> QED BY <2>1, <3>1, FrameStutter
  <2> QED BY <2>2, <2>3
<1>4. CASE CallLeaf
  <2>1. frame.kind = "call" /\ req' = req /\ answer' = answer
    BY <1>4 DEF CallLeaf
  <2>2. CASE DerefsNull(frame.w.leaf, frame.args)
    <3>1. frame' = Fault
      BY <1>4, <2>2 DEF CallLeaf
    <3>2. HollowRead'
      BY DEF RInv
    <3> QED BY <2>1, <3>1, <3>2, CrashAbs DEF AbsCall!Next
  <2>3. CASE ~DerefsNull(frame.w.leaf, frame.args)
    <3>1. frame'.kind = "ret"
      BY <1>4, <2>3 DEF CallLeaf, RetF
    <3> QED BY <2>1, <3>1, FrameStutter
  <2> QED BY <2>2, <2>3
<1>5. CASE Return
  BY <1>5, ReplyAbs DEF AbsCall!Next
<1>6. CASE UNCHANGED vars
  BY <1>6 DEF vars, AbsCall!avars, CallStatus
<1> QED BY <1>1, <1>2, <1>3, <1>4, <1>5, <1>6 DEF Next, Step

\* Every behaviour of the visitation frame machine (apply_visitor, the
\* binary_visitor chain, visit_impl/invoke, the leaf visitors, the
\* comparisons and hash), with moved-from boxes among the operands, is a
\* behaviour of VisitCall: each call returns the meaning of its request,
\* or faults exactly when it reads a moved-from box (lines 142 and 184).
THEOREM VisitRefinement == Spec => ImplementsVisitCall
<1>1. Spec => []RInv
  BY InitRInv, NextRInv, PTL DEF Spec
<1>2. Init => AbsCall!Init
  BY InitAbs
<1>3. RInv /\ RInv' /\ [Next]_vars => [AbsCall!Next]_AbsCall!avars
  BY NextAbs
<1> QED BY <1>1, <1>2, <1>3, PTL DEF Spec, ImplementsVisitCall, AbsCall!Spec
==============================================================================
