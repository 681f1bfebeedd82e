------------------------------ MODULE VisitCall ------------------------------
(***************************************************************************)
(* What one synchronous call of the visitation library promises its       *)
(* caller (spec.md sections 4.1, 4.2 and 4.5), with no dispatch in it: a  *)
(* call takes a request, and either returns the request's meaning or, when *)
(* the request reads a box that was moved from, has undefined behaviour    *)
(* and never returns.  The calls of one caller do not overlap.             *)
(***************************************************************************)
CONSTANTS
  Request,       \* the requests a caller may make
  NoReq,         \* the request before the first call
  None,          \* no answer yet
  Result(_),     \* the meaning of a request
  Undefined(_)   \* the requests whose behaviour is undefined

VARIABLES
  req,      \* the last request made
  status,   \* "idle", "busy" while a call runs, "fault" after undefined behaviour
  answer    \* what the last call returned, or None

avars == <<req, status, answer>>

Init ==
  /\ req = NoReq
  /\ status = "idle"
  /\ answer = None

\* The caller calls the library with request r.
Call(r) ==
  /\ status = "idle"
  /\ req' = r
  /\ status' = "busy"
  /\ answer' = None

\* The call returns the meaning of its request.
Reply ==
  /\ status = "busy"
  /\ ~Undefined(req)
  /\ answer' = Result(req)
  /\ status' = "idle"
  /\ UNCHANGED req

\* The call reaches undefined behaviour; nothing is defined after it.
Crash ==
  /\ status = "busy"
  /\ Undefined(req)
  /\ status' = "fault"
  /\ UNCHANGED <<req, answer>>

Next == (\E r \in Request : Call(r)) \/ Reply \/ Crash

Spec == Init /\ [][Next]_avars
==============================================================================
