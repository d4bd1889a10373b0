-------------------------- MODULE Connection_proofs --------------------------
(***************************************************************************)
(* The detailed Connection implements the one the event loop is modelled   *)
(* with, for any number of pieces of input, timeouts and pieces of output, *)
(* any targets and any situations.                                         *)
(***************************************************************************)
EXTENDS Connection, TLAPS

-----------------------------------------------------------------------------
(* What the parser makes of a request. *)

(* Request::CheckStatus keeps the request a request. *)
LEMMA CheckStatusType ==
    ASSUME NEW r \in Requests
    PROVE  CheckStatus(r) \in Requests
BY DEF CheckStatus, Requests, Statuses

(* So does Request::Parse, whatever the piece of input brings. *)
LEMMA ParsedType ==
    ASSUME NEW r \in Requests, NEW q \in Parsed(r)
    PROVE  q \in Requests
<1>1. ASSUME NEW t \in Target \cup {"none"}
      PROVE  Rejected(r, t) \in Requests
  <2>1. 400 \in Statuses
    BY DEF Statuses, ErrorStatuses
  <2>2. "broken" \in {"head", "body", "done", "broken"}
    OBVIOUS
  <2>3. Rejected(r, t) =
           [r EXCEPT !.status = "Bad", !.code = 400, !.target = t, !.phase = "broken"]
    BY DEF Rejected
  <2>4. QED
    BY <2>1, <2>2, <2>3, ZenonT(60) DEF Requests
<1>2. Targets \subseteq Target
  BY ConnectionAssumption
<1>3. CASE r.phase = "head"
  <2>1. CASE q \in HeadParsed(r)
    BY <2>1, CheckStatusType DEF HeadParsed
  <2>2. CASE q \in { Rejected(r, t) : t \in Targets \cup {"none"} }
    BY <1>1, <1>2, <2>2
  <2>3. QED
    BY <1>3, <2>1, <2>2 DEF Parsed, Buffered
<1>4. CASE r.phase = "body"
  <2>1. [r EXCEPT !.begun = TRUE] \in Requests
    BY DEF Requests
  <2>2. [r EXCEPT !.begun = TRUE, !.phase = "done"] \in Requests
    BY DEF Requests
  <2>3. r.target \in Target \cup {"none"}
    BY DEF Requests
  <2>4. QED
    BY <1>1, <1>4, <2>1, <2>2, <2>3, CheckStatusType DEF Parsed, BodyParsed
<1>5. CASE r.phase \in {"done", "broken"}
  BY <1>1, <1>5 DEF Parsed, Requests
<1>6. QED
  BY <1>3, <1>4, <1>5 DEF Requests

(***************************************************************************)
(* How the status of a request goes with the phase of its parser.          *)
(***************************************************************************)
RequestOK(r) ==
    /\ r.phase = "head"   => r.status = "Incomplete"
    /\ r.phase = "body"   => r.status # "Complete"
    /\ r.phase = "done"   => r.status \in {"Complete", "Bad"}
    /\ r.phase = "broken" => r.status = "Bad"
    /\ r.phase \in {"body", "done"} => r.target \in Targets
    /\ r.status = "Bad" => r.code \in ErrorStatuses

(* A request that asks for an interim reply asks for 100 (Continue). *)
AsksForContinue(r) == r.status = "Expect" => r.code = 100

(***************************************************************************)
(* CheckStatus sets the status that belongs to the phase of the parser,    *)
(* and the code 100 with the status Expect.                                *)
(***************************************************************************)
LEMMA CheckStatusOK ==
    ASSUME NEW r \in Requests, r.phase \in {"body", "done"}, r.target \in Targets,
           r.phase = "body" => r.status # "Complete",
           r.status = "Bad" => r.code \in ErrorStatuses
    PROVE  RequestOK(CheckStatus(r)) /\ AsksForContinue(CheckStatus(r))
BY DEF CheckStatus, RequestOK, AsksForContinue, Requests

(* A request that was rejected has the status and the code of it. *)
LEMMA RejectedOK ==
    ASSUME NEW r \in Requests, NEW t,
           r.phase \in {"body", "done"} => t \in Targets
    PROVE  RequestOK(Rejected(r, t)) /\ AsksForContinue(Rejected(r, t))
BY DEF Rejected, RequestOK, AsksForContinue, Requests, ErrorStatuses

(* Request::Parse keeps status, code and phase together, in every phase. *)
LEMMA ParsedOK ==
    ASSUME NEW r \in Requests, RequestOK(r), NEW q \in Parsed(r)
    PROVE  RequestOK(q) /\ AsksForContinue(q)
<1>1. CASE r.phase = "head"
  <2>1. CASE q \in HeadParsed(r)
    BY <1>1, <2>1, CheckStatusOK DEF HeadParsed, RequestOK
  <2>2. CASE q \in { Rejected(r, t) : t \in Targets \cup {"none"} }
    BY <1>1, <2>2, RejectedOK
  <2>3. CASE q = r
    BY <1>1, <2>3 DEF RequestOK, AsksForContinue
  <2>4. QED
    BY <1>1, <2>1, <2>2, <2>3 DEF Parsed, Buffered
<1>2. CASE r.phase = "body"
  <2>1. ASSUME NEW p \in {"body", "done"}, NEW h \in Requests,
               h = [r EXCEPT !.begun = TRUE] \/ h = [r EXCEPT !.begun = TRUE, !.phase = "done"]
        PROVE  RequestOK(CheckStatus(h)) /\ AsksForContinue(CheckStatus(h))
    <3>1. /\ h.phase \in {"body", "done"}
          /\ h.target = r.target /\ h.status = r.status /\ h.code = r.code
      BY <1>2, <2>1 DEF Requests
    <3>2. QED
      BY <1>2, <3>1, CheckStatusOK DEF RequestOK
  <2>2. /\ [r EXCEPT !.begun = TRUE] \in Requests
        /\ [r EXCEPT !.begun = TRUE, !.phase = "done"] \in Requests
    BY DEF Requests
  <2>3. RequestOK(CheckStatus(r)) /\ AsksForContinue(CheckStatus(r))
    BY <1>2, CheckStatusOK DEF RequestOK
  <2>4. RequestOK(Rejected(r, r.target)) /\ AsksForContinue(Rejected(r, r.target))
    BY <1>2, RejectedOK DEF RequestOK
  <2>5. QED
    BY <1>2, <2>1, <2>2, <2>3, <2>4 DEF Parsed, BodyParsed
<1>3. CASE r.phase = "done"
  BY <1>3, RejectedOK DEF Parsed, RequestOK, AsksForContinue
<1>4. CASE r.phase = "broken"
  BY <1>4, RejectedOK DEF Parsed
<1>5. QED
  BY <1>1, <1>2, <1>3, <1>4 DEF Requests

-----------------------------------------------------------------------------
(* What the handlers make of a response. *)

(***************************************************************************)
(* A reply formed from p: the send buffer is left alone, and the status is *)
(* 100 only if it was already.                                             *)
(***************************************************************************)
FormedFrom(p, q) ==
    /\ q \in Responses
    /\ q.complete
    /\ q.buffer = p.buffer
    /\ q.sends = p.sends
    /\ q.code # None
    /\ q.code = 100 => p.code = 100

(* A response that gets a status and a body is formed. *)
Completed(p, k, b) == [p EXCEPT !.code = k, !.body = b, !.complete = TRUE]

(***************************************************************************)
(* To set code and body and mark the response as ready forms a reply, if   *)
(* the code is one, and is 100 only for a reply that is interim.           *)
(***************************************************************************)
LEMMA CompleteForms ==
    ASSUME NEW p \in Responses, NEW k \in Statuses, NEW b \in Bodies,
           k # None, k = 100 => p.code = 100
    PROVE  FormedFrom(p, Completed(p, k, b))
<1> DEFINE q == Completed(p, k, b)
<1>1. q.code = k /\ q.buffer = p.buffer /\ q.sends = p.sends
  BY DEF Responses, Completed
<1>2. q.complete
  BY DEF Responses, Completed
<1>3. q \in Responses
  BY DEF Responses, Completed
<1>4. QED
  BY <1>1, <1>2, <1>3 DEF FormedFrom

(***************************************************************************)
(* FormResponse forms a reply from a request that has a status, and is     *)
(* never the one to turn it into an interim one.                           *)
(***************************************************************************)
LEMMA FormResponseForms ==
    ASSUME NEW p \in Responses, NEW r \in Requests,
           p.code = None => r.code \notin {None, 100}
    PROVE  FormedFrom(p, FormResponse(p, r))
<1> DEFINE k == IF p.code = None THEN r.code ELSE p.code
<1>1. k \in Statuses /\ k # None /\ (k = 100 => p.code = 100)
  BY DEF Requests, Responses
<1>2. FormResponse(p, r) = Completed(p, k, p.body)
  BY DEF FormResponse, Responses, Completed
<1>3. p.body \in Bodies
  BY DEF Responses
<1> HIDE DEF k
<1>4. QED
  BY <1>1, <1>2, <1>3, CompleteForms

(* HandleError forms a reply from a request with the status of an error. *)
LEMMA HandleErrorForms ==
    ASSUME NEW p \in Responses, NEW r \in Requests, r.code \in ErrorStatuses
    PROVE  FormedFrom(p, HandleError(p, r))
<1> DEFINE b == [p EXCEPT !.body = r.code]
<1>1. b \in Responses /\ b.code = p.code /\ b.buffer = p.buffer /\ b.sends = p.sends
  BY DEF Responses, Bodies
<1>2. r.code \notin {None, 100}
  BY DEF ErrorStatuses, None
<1>3. FormedFrom(b, FormResponse(b, r))
  BY <1>1, <1>2, FormResponseForms
<1>4. QED
  BY <1>1, <1>3 DEF FormedFrom, HandleError

(***************************************************************************)
(* An exception in a handler ends in a reply, and the request takes its    *)
(* status.                                                                 *)
(***************************************************************************)
LEMMA FailedForms ==
    ASSUME NEW p \in Responses, NEW r \in Requests, NEW code \in ErrorStatuses,
           NEW ran \in BOOLEAN, NEW o \in Failed(p, r, code, ran)
    PROVE  /\ FormedFrom(p, o.response)
           /\ o.request = [r EXCEPT !.code = code]
<1> DEFINE q == [r EXCEPT !.code = code]
<1>1. q \in Requests /\ q.code = code
  BY DEF Requests, Statuses
<1>2. FormedFrom(p, HandleError(p, q))
  BY <1>1, HandleErrorForms
<1>3. o = Outcome(HandleError(p, q), q, ran)
  BY DEF Failed
<1>4. QED
  BY <1>2, <1>3 DEF Outcome

(* A request that was carried out, or redirected: the reply has its code. *)
LEMMA CodedForms ==
    ASSUME NEW p \in Responses, NEW r \in Requests, NEW u \in Responses,
           u.code \in {200, 302}, u.buffer = p.buffer, u.sends = p.sends
    PROVE  FormedFrom(p, FormResponse(u, r))
<1>1. u.code \notin {None, 100}
  BY DEF None
<1>2. FormedFrom(u, FormResponse(u, r))
  BY <1>1, FormResponseForms
<1>3. QED
  BY <1>1, <1>2 DEF FormedFrom

(* HandleRegular forms a reply, whatever the target and its outcome. *)
LEMMA HandleRegularForms ==
    ASSUME NEW p \in Responses, NEW r \in Requests, r.target \in Target,
           NEW o \in HandleRegular(p, r)
    PROVE  /\ FormedFrom(p, o.response)
           /\ o.request \in { [r EXCEPT !.code = k] : k \in Statuses }
           /\ o.ran \in BOOLEAN
<1>1. /\ {404, 502} \subseteq ErrorStatuses
      /\ ErrorStatuses \subseteq Statuses
      /\ 200 \in Bodies
  BY DEF ErrorStatuses, Statuses, Bodies
<1>2. ASSUME NEW code \in {404, 502}, NEW ran \in BOOLEAN, o \in Failed(p, r, code, ran)
      PROVE  /\ FormedFrom(p, o.response)
             /\ o.request \in { [r EXCEPT !.code = k] : k \in Statuses }
             /\ o.ran \in BOOLEAN
  <2>1. o.ran = ran
    BY <1>2 DEF Failed, Outcome
  <2>2. FormedFrom(p, o.response) /\ o.request = [r EXCEPT !.code = code]
    BY <1>1, <1>2, FailedForms
  <2>3. code \in Statuses
    BY <1>1
  <2>4. QED
    BY <2>1, <2>2, <2>3
<1>3. ASSUME NEW q, NEW ran \in BOOLEAN, FormedFrom(p, q), o = Outcome(q, r, ran)
      PROVE  /\ FormedFrom(p, o.response)
             /\ o.request \in { [r EXCEPT !.code = k] : k \in Statuses }
             /\ o.ran \in BOOLEAN
  <2>1. r = [r EXCEPT !.code = r.code] /\ r.code \in Statuses
    BY DEF Requests
  <2>2. QED
    BY <1>3, <2>1 DEF Outcome
<1>ran. FormedFrom(p, FormResponse([p EXCEPT !.code = 200, !.body = 200], r))
  <2> DEFINE u == [p EXCEPT !.code = 200, !.body = 200]
  <2>1. u \in Responses /\ u.code = 200 /\ u.buffer = p.buffer /\ u.sends = p.sends
    BY ZenonT(60) DEF Responses, Statuses, Bodies
  <2>2. QED
    BY <2>1, CodedForms
<1>4. CASE r.target = "redirect"
  <2> DEFINE u == [p EXCEPT !.code = 302]
  <2>1. u \in Responses /\ u.code = 302 /\ u.buffer = p.buffer /\ u.sends = p.sends
    BY DEF Responses, Statuses
  <2>2. FormedFrom(p, FormResponse(u, r))
    BY <2>1, CodedForms
  <2>3. QED
    BY <1>3, <1>4, <2>2 DEF HandleRegular, HandleRedirection
<1>5. CASE r.target = "unresolved"
  BY <1>2, <1>5, ZenonT(60) DEF HandleRegular
<1>6. CASE r.target = "cgi"
  BY <1>2, <1>3, <1>6, <1>ran, ZenonT(60) DEF HandleRegular, HandleCGI
<1>7. CASE r.target = "method"
  <2>1. CASE r.code > 399
    <3>1. [p EXCEPT !.body = 200] \in Responses
      BY <1>1 DEF Responses
    <3>2. r.code \notin {None, 100}
      BY <2>1 DEF None
    <3>3. FormedFrom([p EXCEPT !.body = 200], FormResponse([p EXCEPT !.body = 200], r))
      BY <3>1, <3>2, FormResponseForms
    <3>4. FormedFrom(p, FormResponse([p EXCEPT !.body = 200], r))
      BY <3>3 DEF FormedFrom, Responses
    <3>5. QED
      BY <1>2, <1>3, <1>7, <2>1, <3>4, ZenonT(60) DEF HandleRegular, HandleMethod
  <2>2. CASE ~ (r.code > 399)
    BY <1>2, <1>3, <1>7, <1>ran, <2>2, ZenonT(60) DEF HandleRegular, HandleMethod
  <2>3. QED
    BY <2>1, <2>2
<1>8. QED
  BY <1>4, <1>5, <1>6, <1>7 DEF Target

-----------------------------------------------------------------------------
(***************************************************************************)
(* The inductive invariant: the types; a response without a status is      *)
(* fresh; nothing of an interim reply is kept in the buffer or counted;    *)
(* what the buffer holds can still be sent; and the request was carried    *)
(* out at most once for each piece of input.                               *)
(***************************************************************************)
ResponseOK(p) ==
    /\ p.complete \/ p = NewResponse
    /\ p.complete => p.code # None
    /\ p.code = 100 => p.sends = 0
    /\ p.buffer.full + p.sends < MaxSends

IInv ==
    /\ TypeOK
    /\ RequestOK(request)
    /\ ResponseOK(response)
    /\ executed <= receives

(* A reply formed from a sound response is a sound response. *)
LEMMA FormedOK ==
    ASSUME NEW p \in Responses, ResponseOK(p), NEW q, FormedFrom(p, q)
    PROVE  q \in Responses /\ ResponseOK(q)
BY DEF FormedFrom, ResponseOK, Responses, NewResponse, None

(* A new connection satisfies the invariant. *)
LEMMA InitIInv == Init => IInv
<1> SUFFICES ASSUME Init PROVE IInv
  OBVIOUS
<1> USE DEF Init
<1>1. request \in Requests
  BY DEF NewRequest, Requests, Statuses
<1>2. response \in Responses
  BY MaxSendsAssumption DEF NewResponse, Responses, Statuses, Bodies, Buffers, EmptyBuffer
<1>3. TypeOK
  <2>1. state \in States /\ closing \in BOOLEAN
    BY DEF States
  <2>4. wire \in Seq(Wire)
    OBVIOUS
  <2>2. executed \in 0 .. MaxReceives /\ receives \in 0 .. MaxReceives /\ waits \in 0 .. MaxWaits
    BY ConnectionAssumption
  <2>3. QED
    BY <1>1, <1>2, <2>1, <2>2, <2>4 DEF TypeOK
<1>4. RequestOK(request) /\ ResponseOK(response)
  BY MaxSendsAssumption DEF RequestOK, ResponseOK, NewRequest, NewResponse, EmptyBuffer, None
<1>5. executed <= receives
  OBVIOUS
<1>6. QED
  BY <1>3, <1>4, <1>5 DEF IInv

(***************************************************************************)
(* What a call leaves in the response when a reply was formed: the reply   *)
(* of a fresh response may be an interim one, a final one stays final.     *)
(***************************************************************************)
Answered(p, q) ==
    /\ q \in Responses
    /\ q.complete
    /\ q.buffer = p.buffer
    /\ q.sends = p.sends
    /\ q.code # None
    /\ q.code = 100 => p.code \in {None, 100}

(***************************************************************************)
(* An answer keeps the response sound, is a reply, and stays final if it   *)
(* was.                                                                    *)
(***************************************************************************)
LEMMA AnsweredOK ==
    ASSUME NEW p \in Responses, ResponseOK(p), NEW q, Answered(p, q)
    PROVE  /\ ResponseOK(q)
           /\ ReplySeen(q) \in {"continue", "final"}
           /\ ReplySeen(p) = "final" => ReplySeen(q) = "final"
<1>1. p.code = None => p = NewResponse
  BY DEF ResponseOK
<1>2. NewResponse.sends = 0
  BY DEF NewResponse
<1>3. QED
  BY <1>1, <1>2 DEF ResponseOK, Answered, ReplySeen

(***************************************************************************)
(* What Connection::Receive leaves behind: an incomplete request with its  *)
(* response untouched, or a reply.                                         *)
(***************************************************************************)
LEMMA ReceiveForms ==
    ASSUME IInv, Receive
    PROVE  /\ request' \in Requests /\ RequestOK(request')
           /\ \/ state' = "Request" /\ UNCHANGED response
              \/ state' \in {"Response", "CGI"} /\ Answered(response, response')
           /\ executed' \in {executed, executed + 1}
<1> USE DEF IInv, TypeOK
<1>1. PICK r \in Parsed(request) :
         /\ state' = NextState(r)
         /\ \/ ReceiveIncomplete(r)
            \/ ReceiveBad(r)
            \/ ReceiveExpect(r)
            \/ ReceiveComplete(r)
  BY DEF Receive
<1>2. r \in Requests /\ RequestOK(r) /\ AsksForContinue(r)
  BY ParsedType, ParsedOK
<1>3. CASE ReceiveIncomplete(r)
  BY <1>1, <1>2, <1>3 DEF ReceiveIncomplete, NextState
<1>4. r.status # "Incomplete" => state' \in {"Response", "CGI"}
  BY <1>1 DEF NextState
<1>5. CASE ReceiveBad(r)
  <2>1. FormedFrom(response, response')
    BY <1>2, <1>5, HandleErrorForms DEF ReceiveBad, RequestOK
  <2>2. QED
    BY <1>2, <1>4, <1>5, <2>1 DEF ReceiveBad, FormedFrom, Answered
<1>6. CASE ReceiveExpect(r)
  <2>1. r.code = 100 /\ 100 \in Statuses /\ 100 # None
    BY <1>2, <1>6 DEF ReceiveExpect, AsksForContinue, Statuses, None
  <2>2. CASE response.code # None
    <3>1. FormedFrom(response, response')
      BY <1>2, <1>6, <2>2, FormResponseForms DEF ReceiveExpect, HandleExpect
    <3>2. QED
      BY <1>2, <1>4, <1>6, <3>1 DEF ReceiveExpect, FormedFrom, Answered
  <2>3. CASE response.code = None
    <3>1. response' = [response EXCEPT !.code = 100, !.complete = TRUE]
      BY <1>6, <2>1, <2>3 DEF ReceiveExpect, HandleExpect, FormResponse
    <3>2. /\ response'.code = 100 /\ response'.buffer = response.buffer
          /\ response'.sends = response.sends
      BY <3>1 DEF Responses
    <3>3. response'.complete
      BY <3>1 DEF Responses
    <3>4. response' \in Responses
      BY <2>1, <3>1 DEF Responses
    <3>5. Answered(response, response')
      BY <2>1, <2>3, <3>2, <3>3, <3>4 DEF Answered
    <3>6. QED
      BY <1>2, <1>4, <1>6, <3>5 DEF ReceiveExpect
  <2>4. QED
    BY <2>2, <2>3
<1>7. CASE ReceiveComplete(r)
  <2>1. r.target \in Target
    BY <1>2, <1>7, ConnectionAssumption DEF ReceiveComplete, RequestOK, Requests
  <2>2. PICK o \in HandleRegular(response, r) :
           /\ request'  = o.request
           /\ response' = o.response
           /\ executed' = executed + (IF o.ran THEN 1 ELSE 0)
    BY <1>7 DEF ReceiveComplete
  <2>3. /\ FormedFrom(response, o.response)
        /\ o.request \in { [r EXCEPT !.code = k] : k \in Statuses }
        /\ o.ran \in BOOLEAN
    BY <1>2, <2>1, HandleRegularForms
  <2>4. PICK k \in Statuses : request' = [r EXCEPT !.code = k]
    BY <2>2, <2>3
  <2>5. request' \in Requests /\ RequestOK(request')
    BY <1>2, <1>7, <2>4 DEF ReceiveComplete, RequestOK, Requests
  <2>6. QED
    BY <1>4, <1>7, <2>2, <2>3, <2>5 DEF ReceiveComplete, FormedFrom, Answered
<1>8. QED
  BY <1>1, <1>3, <1>5, <1>6, <1>7

-----------------------------------------------------------------------------
(* The output: what Send makes of the response. *)

(***************************************************************************)
(* What the client received is a sequence of replies, also after one more  *)
(* piece.                                                                  *)
(***************************************************************************)
LEMMA DeliveredType ==
    ASSUME TypeOK, NEW whole \in BOOLEAN
    PROVE  Delivered(response, whole) \in Seq(Wire)
<1> USE DEF TypeOK
<1>1. [code |-> response.code, body |-> response.body, whole |-> whole] \in Wire
  BY DEF Wire, Responses
<1>2. [wire EXCEPT ![Len(wire)].whole = whole] \in Seq(Wire)
  <2>1. ASSUME NEW w \in Wire
        PROVE  [w EXCEPT !.whole = whole] \in Wire
    BY DEF Wire
  <2>2. wire \in Seq(Wire) /\ Len(wire) \in Nat
    OBVIOUS
  <2>3. CASE Len(wire) = 0
    <3>1. Len(wire) \notin DOMAIN wire
      BY <2>2, <2>3
    <3>2. wire = [i \in DOMAIN wire |-> wire[i]]
      BY <2>2
    <3>3. [wire EXCEPT ![Len(wire)].whole = whole] = [i \in DOMAIN wire |-> wire[i]]
      BY <3>1
    <3>4. QED
      BY <2>2, <3>2, <3>3, Zenon
  <2>4. CASE Len(wire) > 0
    <3>1. wire[Len(wire)] \in Wire
      BY <2>2, <2>4
    <3>2. [wire[Len(wire)] EXCEPT !.whole = whole] \in Wire
      BY <2>1, <3>1
    <3>3. QED
      BY <2>2, <2>4, <3>2
  <2>5. QED
    BY <2>2, <2>3, <2>4
<1>3. QED
  BY <1>1, <1>2 DEF Delivered

(* The buffer a piece is taken from fits the reply. *)
LEMMA FillsFit ==
    ASSUME NEW p \in Responses, ResponseOK(p), NEW b \in Fills(p)
    PROVE  b \in Buffers /\ (b.full > 0 => b.full + p.sends < MaxSends)
<1>1. CASE p.buffer # EmptyBuffer
  BY <1>1 DEF Fills, Responses, ResponseOK
<1>2. CASE p.buffer = EmptyBuffer /\ p.body = None
  <2>1. b = [full |-> 0, rest |-> TRUE]
    BY <1>2 DEF Fills
  <2>2. 0 \in 0 .. MaxSends - 1
    BY MaxSendsAssumption
  <2>3. QED
    BY <2>1, <2>2 DEF Buffers
<1>3. CASE p.buffer = EmptyBuffer /\ p.body # None
  BY <1>3 DEF Fills
<1>4. QED
  BY <1>1, <1>2, <1>3

(* A response stays sound when a piece of BUFFER_SIZE bytes of it was sent. *)
LEMMA FullPieceOK ==
    ASSUME NEW p \in Responses, ResponseOK(p), p.complete, p.code # 100,
           NEW b \in Fills(p), b.full > 0,
           NEW q, q = [p EXCEPT !.buffer = [b EXCEPT !.full = @ - 1],
                                !.body = None, !.sends = @ + 1]
    PROVE  /\ q \in Responses
           /\ ResponseOK(q)
           /\ ReplySeen(q) = ReplySeen(p)
           /\ q.sends = p.sends + 1 /\ q.sends < MaxSends
<1>1. b \in Buffers /\ b.full + p.sends < MaxSends
  BY FillsFit
<1>2. b.full \in 0 .. MaxSends - 1 /\ b.full \in Nat /\ p.sends \in Nat /\ MaxSends \in Nat
  BY <1>1, MaxSendsAssumption DEF Buffers, Responses
<1> DEFINE left == [b EXCEPT !.full = @ - 1]
<1>3. left \in Buffers /\ left.full = b.full - 1
  BY <1>1, <1>2 DEF Buffers
<1>4. p.sends + 1 \in 0 .. MaxSends - 1
  BY <1>1, <1>2
<1> HIDE DEF left
<1>5. /\ q.buffer = left /\ q.code = p.code /\ q.sends = p.sends + 1
      /\ q.complete = p.complete
  BY DEF Responses, left
<1>6. q \in Responses
  BY <1>3, <1>4 DEF Responses, Bodies, left
<1>7. ResponseOK(q)
  BY <1>1, <1>2, <1>3, <1>5 DEF ResponseOK
<1>8. QED
  BY <1>4, <1>5, <1>6, <1>7, <1>2 DEF ReplySeen

(* A response stays sound when its last piece was sent. *)
LEMMA LastPieceOK ==
    ASSUME NEW p \in Responses, ResponseOK(p), p.complete,
           NEW q, q = [p EXCEPT !.buffer = EmptyBuffer, !.body = None]
    PROVE  /\ q \in Responses
           /\ ResponseOK(q)
           /\ ReplySeen(q) = ReplySeen(p)
           /\ q.sends = p.sends
<1>1. EmptyBuffer \in Buffers /\ EmptyBuffer.full = 0
  BY MaxSendsAssumption DEF EmptyBuffer, Buffers
<1>2. /\ q.buffer = EmptyBuffer /\ q.code = p.code /\ q.sends = p.sends
      /\ q.complete = p.complete
  BY DEF Responses
<1>3. q \in Responses
  BY <1>1, ZenonT(60) DEF Responses, Bodies
<1>4. p.sends \in Nat /\ p.sends < MaxSends
  BY MaxSendsAssumption DEF Responses
<1>5. ResponseOK(q)
  BY <1>1, <1>2, <1>4 DEF ResponseOK
<1>6. QED
  BY <1>2, <1>3, <1>5 DEF ReplySeen

(* The response that replaces an interim one is sound, and no reply. *)
LEMMA FreshOK ==
    NewResponse \in Responses /\ ResponseOK(NewResponse) /\ ReplySeen(NewResponse) = "none"
<1>1. NewResponse \in Responses
  BY MaxSendsAssumption DEF NewResponse, Responses, Statuses, Bodies, Buffers, EmptyBuffer
<1>2. QED
  BY <1>1, MaxSendsAssumption DEF ResponseOK, ReplySeen, NewResponse, EmptyBuffer, None

-----------------------------------------------------------------------------
(* The inductive invariant. *)

(* The invariant is inductive: each call of the class keeps it. *)
LEMMA NextKeepsIInv ==
    IInv /\ [Next]_vars => IInv'
<1> SUFFICES ASSUME IInv, [Next]_vars PROVE IInv'
  OBVIOUS
<1> USE DEF IInv
<1>1. CASE Receive
  <2>1. /\ request' \in Requests /\ RequestOK(request')
        /\ executed' \in {executed, executed + 1}
    BY <1>1, ReceiveForms
  <2>2. response' \in Responses /\ ResponseOK(response')
    BY <1>1, ReceiveForms, AnsweredOK DEF Answered, TypeOK
  <2>3. state' \in States
    BY <1>1, ReceiveForms DEF States
  <2>4. receives' \in 0 .. MaxReceives /\ executed' \in 0 .. MaxReceives /\ executed' <= receives'
    BY <1>1, <2>1, ConnectionAssumption DEF Receive, TypeOK
  <2>5. QED
    BY <1>1, <2>1, <2>2, <2>3, <2>4 DEF Receive, TypeOK
<1>2. CASE Dispatch
  <2>1. CASE UNCHANGED << state, response, wire >>
    BY <1>2, <2>1 DEF Dispatch, TypeOK
  <2>2. ASSUME response.complete, NEW b \in Fills(response),
               SendInterim \/ SendFullPiece(b) \/ SendLastPiece(b)
        PROVE  IInv'
    <3>1. response \in Responses /\ b \in Buffers
      BY <2>2, FillsFit DEF TypeOK
    <3>2. response' \in Responses /\ ResponseOK(response')
      <4>1. CASE SendInterim
        BY <4>1, FreshOK DEF SendInterim
      <4>2. CASE SendFullPiece(b)
        BY <2>2, <3>1, <4>2, FullPieceOK DEF SendFullPiece
      <4>3. CASE SendLastPiece(b)
        BY <2>2, <3>1, <4>3, LastPieceOK DEF SendLastPiece
      <4>4. QED
        BY <2>2, <4>1, <4>2, <4>3
    <3>3. state' \in States
      BY <2>2 DEF SendInterim, SendFullPiece, SendLastPiece, TypeOK, States
    <3>4. wire' \in Seq(Wire)
      <4>1. PICK whole \in BOOLEAN : wire' = Delivered(response, whole)
        <5>1. CASE SendInterim
          BY <5>1 DEF SendInterim
        <5>2. CASE SendFullPiece(b)
          <6>1. (b.full = 1 /\ ~ b.rest) \in BOOLEAN
            OBVIOUS
          <6>2. QED
            BY <5>2, <6>1 DEF SendFullPiece
        <5>3. CASE SendLastPiece(b)
          <6>1. PICK cut \in IF "short" \in Situations THEN {b.full > 0, TRUE} ELSE {FALSE} :
                   wire' = Delivered(response, ~ cut)
            BY <5>3 DEF SendLastPiece
          <6>2. (~ cut) \in BOOLEAN
            OBVIOUS
          <6>3. QED
            BY <6>1, <6>2
        <5>4. QED
          BY <2>2, <5>1, <5>2, <5>3
      <4>2. QED
        BY <4>1, DeliveredType
    <3>5. QED
      BY <1>2, <3>2, <3>3, <3>4 DEF Dispatch, TypeOK
  <2>3. QED
    BY <1>2, <2>1, <2>2 DEF Dispatch, Send
<1>3. CASE HandleTimeout
  <2>1. waits' \in 0 .. MaxWaits
    BY <1>3, ConnectionAssumption DEF HandleTimeout, TypeOK
  <2>2. CASE state = "Start"
    BY <1>3, <2>1, <2>2 DEF HandleTimeout, TypeOK
  <2>3. CASE state # "Start"
    <3>1. PICK code \in {408, 504} :
             /\ request'  = [request EXCEPT !.code = code]
             /\ response' = HandleError(response, request')
      BY <1>3, <2>3 DEF HandleTimeout
    <3>2. code \in ErrorStatuses /\ code \in Statuses
      BY DEF ErrorStatuses, Statuses
    <3>3. request' \in Requests /\ RequestOK(request') /\ request'.code = code
      BY <3>1, <3>2 DEF TypeOK, Requests, RequestOK
    <3>4. response' \in Responses /\ ResponseOK(response')
      BY <3>1, <3>2, <3>3, HandleErrorForms, FormedOK, ZenonT(60) DEF TypeOK
    <3>5. QED
      BY <1>3, <2>1, <2>3, <3>3, <3>4 DEF HandleTimeout, TypeOK
  <2>4. QED
    BY <2>2, <2>3
<1>4. CASE UNCHANGED vars
  BY <1>4 DEF vars, TypeOK
<1>5. QED
  BY <1>1, <1>2, <1>3, <1>4 DEF Next, Closed

(***************************************************************************)
(* The invariant IInv holds of every connection: the request is in a phase *)
(* that fits its status, the response is formed as far as its fields say,  *)
(* and nothing is carried out more often than something was received.      *)
(***************************************************************************)
THEOREM Invariance == Spec => []IInv
<1>1. QED
  BY InitIInv, NextKeepsIInv, PTL DEF Spec

(* Every variable of the connection keeps its type. *)
THEOREM TypeCorrect == Spec => []TypeOK
<1>1. IInv => TypeOK
  BY DEF IInv
<1>2. QED
  BY <1>1, Invariance, PTL

-----------------------------------------------------------------------------
(* The refinement. *)

(* The connection as the event loop sees it, in the terms of ConnectionSpec. *)
Seen == [state |-> state, reply |-> ReplySeen(response), sends |-> response.sends]

(* What the event loop sees of the connection is one of its connections. *)
LEMMA SeenType ==
    ASSUME IInv
    PROVE  Seen \in Connections
BY DEF Seen, ReplySeen, Connections, Replies, IInv, TypeOK, Responses

(* A new connection is a new connection to the event loop. *)
LEMMA InitRefines ==
    Init => Lifecycle!Init
BY DEF Init, NewResponse, ReplySeen, Lifecycle!Init, Lifecycle!NewConnection

(* Connection::Receive is the Received of ConnectionLifecycle. *)
LEMMA ReceiveRefines ==
    ASSUME IInv, IInv', Receive
    PROVE  Seen' \in Received(Seen)
<1>1. Seen' \in Connections
  BY SeenType DEF Seen, ReplySeen, Connections, Replies, IInv, TypeOK, Responses
<1>2. CASE state' = "Request" /\ UNCHANGED response
  BY <1>1, <1>2 DEF Seen, Received
<1>3. CASE state' \in {"Response", "CGI"} /\ Answered(response, response')
  <2>1. /\ ReplySeen(response') \in {"continue", "final"}
        /\ ReplySeen(response) = "final" => ReplySeen(response') = "final"
    BY <1>3, AnsweredOK DEF IInv, TypeOK
  <2>2. ReplySeen(response) \in Replies
    BY DEF ReplySeen, Replies
  <2>3. ReplySeen(response') \in FormedReplies(ReplySeen(response))
    BY <2>1, <2>2 DEF FormedReplies, KeepKind, Replies
  <2>4. QED
    BY <1>1, <1>3, <2>3 DEF Seen, Received, Answered
<1>4. QED
  BY <1>2, <1>3, ReceiveForms

(* Connection::Dispatch is the Dispatched of ConnectionLifecycle. *)
LEMMA DispatchRefines ==
    ASSUME IInv, Dispatch
    PROVE  Seen' \in Dispatched(Seen)
<1>1. CASE ~ response.complete /\ UNCHANGED << state, response, wire >>
  BY <1>1 DEF Seen, Dispatched, ReplySeen
<1>2. ASSUME response.complete, NEW b \in Fills(response),
             SendInterim \/ SendFullPiece(b) \/ SendLastPiece(b)
      PROVE  Seen' \in Dispatched(Seen)
  <2>1. response \in Responses /\ ResponseOK(response)
    BY DEF IInv, TypeOK
  <2>2. CASE SendInterim
    <3>1. Seen.reply = "continue" /\ Seen.sends = 0
      BY <1>2, <2>1, <2>2 DEF SendInterim, Seen, ReplySeen, ResponseOK
    <3>2. Seen' = [Seen EXCEPT !.reply = "none"]
      BY <2>2, <3>1, FreshOK DEF SendInterim, Seen, NewResponse
    <3>3. QED
      BY <3>1, <3>2 DEF Dispatched
  <2>3. CASE SendFullPiece(b)
    <3>1. Seen.reply = "final"
      BY <1>2, <2>3 DEF SendFullPiece, Seen, ReplySeen
    <3>2. /\ ReplySeen(response') = ReplySeen(response)
          /\ response'.sends = response.sends + 1
          /\ response'.sends < MaxSends
      BY <1>2, <2>1, <2>3, FullPieceOK DEF SendFullPiece
    <3>3. Seen' = [Seen EXCEPT !.sends = @ + 1] /\ Seen'.sends < MaxSends
      BY <2>3, <3>2 DEF SendFullPiece, Seen
    <3>4. QED
      BY <3>1, <3>3 DEF Dispatched
  <2>4. CASE SendLastPiece(b)
    <3>1. Seen.reply = "final"
      BY <1>2, <2>4 DEF SendLastPiece, Seen, ReplySeen
    <3>2. ReplySeen(response') = ReplySeen(response) /\ response'.sends = response.sends
      BY <1>2, <2>1, <2>4, LastPieceOK DEF SendLastPiece
    <3>3. Seen' = [Seen EXCEPT !.state = "Done"]
      BY <2>4, <3>2 DEF SendLastPiece, Seen
    <3>4. QED
      BY <3>1, <3>3 DEF Dispatched
  <2>5. QED
    BY <1>2, <2>2, <2>3, <2>4
<1>3. QED
  BY <1>1, <1>2 DEF Dispatch, Send

(***************************************************************************)
(* Connection::HandleTimeout is the TimedOut of ConnectionLifecycle, or    *)
(* leaves what the event loop sees as it is.                               *)
(***************************************************************************)
LEMMA TimeoutRefines ==
    ASSUME IInv, HandleTimeout
    PROVE  \/ UNCHANGED Seen
           \/ ~ CloseImmediately(Seen) /\ Seen' = TimedOut(Seen)
<1>1. CASE state = "Start"
  <2>1. UNCHANGED << state, response >>
    BY <1>1 DEF HandleTimeout
  <2>2. Seen' = Seen
    BY <2>1 DEF Seen
  <2>3. QED
    BY <2>2
<1>2. CASE state # "Start"
  <2>1. PICK code \in {408, 504} :
           /\ request'  = [request EXCEPT !.code = code]
           /\ response' = HandleError(response, request')
    BY <1>2 DEF HandleTimeout
  <2>2. request' \in Requests /\ request'.code \in ErrorStatuses
    BY <2>1 DEF IInv, TypeOK, Requests, ErrorStatuses, Statuses
  <2>3. FormedFrom(response, response')
    BY <2>1, <2>2, HandleErrorForms DEF IInv, TypeOK
  <2>4. response.code = 100 => response'.code = 100
    BY <2>1, <2>2 DEF HandleError, FormResponse, IInv, TypeOK, Responses, None
  <2>5. response.code = 100 => response.complete
    BY DEF IInv, ResponseOK, NewResponse, None
  <2>6. ReplySeen(response') = KeepKind(ReplySeen(response), "final")
    BY <2>3, <2>4, <2>5 DEF FormedFrom, ReplySeen, KeepKind, IInv, ResponseOK, NewResponse, None
  <2>7. QED
    BY <1>2, <2>3, <2>6 DEF FormedFrom, HandleTimeout, Seen, CloseImmediately, TimedOut
<1>3. QED
  BY <1>1, <1>2

(***************************************************************************)
(* Every call of the Connection class, with the parser, the handlers and   *)
(* the send buffer behind it, is a step of the connection the event loop   *)
(* is modelled with, or leaves that unchanged.                             *)
(***************************************************************************)
THEOREM Refinement == Spec => ImplementsLifecycle
<1> USE DEF Lifecycle!Received, Lifecycle!Dispatched, Lifecycle!TimedOut,
            Lifecycle!CloseImmediately, Lifecycle!CanClose, Lifecycle!Connections,
            Lifecycle!States, Lifecycle!Replies, Lifecycle!FormedReplies, Lifecycle!KeepKind
<1>1. IInv /\ IInv' /\ [Next]_vars =>
        [Lifecycle!Next]_[state |-> state, reply |-> ReplySeen(response), sends |-> response.sends]
  <2> SUFFICES ASSUME IInv, IInv', [Next]_vars
               PROVE  Lifecycle!Next \/ UNCHANGED Seen
    BY DEF Seen
  <2>1. CASE Receive
    <3>1. Lifecycle!Receive
      BY <2>1, ReceiveRefines
         DEF Lifecycle!Receive, Seen, Received, Connections, States, Replies, FormedReplies, KeepKind
    <3>2. QED
      BY <2>1, <3>1 DEF Lifecycle!Next, Receive, Live
  <2>2. CASE Dispatch
    <3>1. Lifecycle!Dispatch
      BY <2>2, DispatchRefines DEF Lifecycle!Dispatch, Seen, Dispatched
    <3>2. QED
      BY <2>2, <3>1 DEF Lifecycle!Next, Dispatch, Live
  <2>3. CASE HandleTimeout
    <3>1. Lifecycle!HandleTimeout \/ UNCHANGED Seen
      BY <2>3, TimeoutRefines
         DEF Lifecycle!HandleTimeout, Seen, CloseImmediately, TimedOut, KeepKind
    <3>2. QED
      BY <2>3, <3>1 DEF Lifecycle!Next, HandleTimeout, Live
  <2>4. CASE UNCHANGED vars
    BY <2>4 DEF vars, Seen
  <2>5. QED
    BY <2>1, <2>2, <2>3, <2>4 DEF Next, Closed
<1>2. QED
  BY <1>1, InitRefines, Invariance, PTL DEF Spec, ImplementsLifecycle, Lifecycle!Spec

-----------------------------------------------------------------------------
(* That a request is carried out once. *)

(* Only a request whose message is complete is carried out. *)
LEMMA ExecutedWhenComplete ==
    ASSUME IInv, Receive, executed' # executed
    PROVE  request'.phase = "done" /\ executed' = executed + 1
<1> USE DEF IInv, TypeOK
<1>1. PICK r \in Parsed(request) : ReceiveComplete(r)
  BY DEF Receive, ReceiveIncomplete, ReceiveBad, ReceiveExpect
<1>2. r \in Requests /\ RequestOK(r) /\ r.status = "Complete"
  BY <1>1, ParsedType, ParsedOK DEF ReceiveComplete
<1>3. r.phase = "done" /\ r.target \in Target
  BY <1>2, ConnectionAssumption DEF RequestOK, Requests
<1>4. PICK o \in HandleRegular(response, r) :
         /\ request'  = o.request
         /\ executed' = executed + (IF o.ran THEN 1 ELSE 0)
  BY <1>1 DEF ReceiveComplete
<1>5. PICK k \in Statuses : request' = [r EXCEPT !.code = k]
  BY <1>2, <1>3, <1>4, HandleRegularForms
<1>6. request'.phase = "done"
  BY <1>2, <1>3, <1>5 DEF Requests
<1>7. QED
  BY <1>4, <1>6

OnceDone == executed = 0 \/ (executed = 1 /\ request.phase = "done")

(***************************************************************************)
(* Unless input follows the end of a request, the request is carried out   *)
(* at most once, however its input is cut up, and whatever timeouts come   *)
(* before its end.                                                         *)
(***************************************************************************)
THEOREM CarriedOutOnce ==
    ASSUME "extra" \notin Situations
    PROVE  Spec => []ExecutedOnce
<1>1. Init => OnceDone
  BY DEF Init, OnceDone
<1>2. IInv /\ OnceDone /\ [Next]_vars => OnceDone'
  <2> SUFFICES ASSUME IInv, OnceDone, [Next]_vars PROVE OnceDone'
    OBVIOUS
  <2>1. CASE Receive
    <3>1. request.phase # "done" /\ executed = 0
      BY <2>1 DEF Receive, OnceDone
    <3>2. QED
      BY <2>1, <3>1, ExecutedWhenComplete DEF OnceDone
  <2>2. CASE Dispatch
    BY <2>2 DEF Dispatch, OnceDone
  <2>3. CASE HandleTimeout
    <3>1. request'.phase = request.phase
      BY <2>3 DEF HandleTimeout, IInv, TypeOK, Requests
    <3>2. QED
      BY <2>3, <3>1 DEF HandleTimeout, OnceDone
  <2>4. CASE UNCHANGED vars
    BY <2>4 DEF vars, OnceDone
  <2>5. QED
    BY <2>1, <2>2, <2>3, <2>4 DEF Next, Closed
<1>3. OnceDone => ExecutedOnce
  BY DEF OnceDone, ExecutedOnce
<1>4. QED
  BY <1>1, <1>2, <1>3, Invariance, PTL DEF Spec

-----------------------------------------------------------------------------
(***************************************************************************)
(* What a client receives on its connection, for any number of pieces of   *)
(* input, timeouts and pieces of output: interim replies it asked for, and *)
(* then one final reply, in full.                                          *)
(***************************************************************************)

(* What goes out. *)

(* A final reply was begun: a part of it is left to send, or it is done. *)
Started == response.buffer # EmptyBuffer \/ state = "Done"

(* Of the replies on the wire, the last alone is final, once it was begun. *)
WireInv ==
    /\ response.buffer # EmptyBuffer => response.buffer.rest
    /\ response.code = 100 => ~ Started
    /\ \A i \in 1 .. Len(wire) : Final(wire[i]) <=> Started /\ i = Len(wire)
    /\ Started => wire # << >>
    /\ state = "Done" => Last(wire).whole

(* Interim replies are those of a request that asks for them. *)
ExpectInv ==
    /\ request.phase = "head" => ~ request.expect
    /\ request.status = "Expect" => request.expect
    /\ response.code = 100 => request.expect
    /\ \A i \in 1 .. Len(wire) : ~ Final(wire[i]) => request.expect

(***************************************************************************)
(* A request that asks for an interim reply goes on to do so, and only the *)
(* header section can make it ask.                                         *)
(***************************************************************************)
LEMMA ParsedExpect ==
    ASSUME NEW r \in Requests, RequestOK(r), r.status = "Expect" => r.expect, NEW q \in Parsed(r)
    PROVE  /\ q.expect = r.expect \/ r.phase = "head"
           /\ q.phase = "head" => q = r
           /\ q.status = "Expect" => q.expect
<1>1. ASSUME NEW h \in Requests, h.status = "Expect" => h.expect
      PROVE  /\ CheckStatus(h).expect = h.expect
             /\ CheckStatus(h).phase = h.phase
             /\ CheckStatus(h).status = "Expect" => CheckStatus(h).expect
  BY <1>1 DEF CheckStatus, Requests
<1>2. \A t : /\ Rejected(r, t).expect = r.expect
             /\ Rejected(r, t).phase = "broken" /\ Rejected(r, t).status = "Bad"
  BY DEF Rejected, Requests
<1>3. CASE r.phase = "head"
  <2>1. CASE q \in HeadParsed(r)
    <3>1. PICK h \in Requests :
             /\ q = CheckStatus(h)
             /\ h.phase \in {"body", "done"}
             /\ h.status = IF h.expect THEN "Expect" ELSE r.status
      BY <2>1 DEF HeadParsed
    <3>2. h.status = "Expect" => h.expect
      BY <1>3, <3>1 DEF RequestOK
    <3> QED
      BY <1>1, <1>3, <3>1, <3>2
  <2> QED
    BY <1>2, <1>3, <2>1 DEF Parsed, Buffered
<1>4. CASE r.phase = "body"
  <2> DEFINE begun == [r EXCEPT !.begun = TRUE]
             ended == [r EXCEPT !.begun = TRUE, !.phase = "done"]
  <2>1. /\ begun \in Requests /\ begun.expect = r.expect /\ begun.status = r.status
        /\ begun.phase = "body"
    BY <1>4 DEF Requests
  <2>2. /\ ended \in Requests /\ ended.expect = r.expect /\ ended.status = r.status
        /\ ended.phase = "done"
    BY DEF Requests
  <2>3. q \in { CheckStatus(r), CheckStatus(begun), CheckStatus(ended), Rejected(r, r.target) }
    BY <1>4 DEF Parsed, BodyParsed
  <2> HIDE DEF begun, ended
  <2> QED
    BY <1>1, <1>2, <1>4, <2>1, <2>2, <2>3
<1>5. CASE r.phase \in {"done", "broken"}
  BY <1>2, <1>5 DEF Parsed
<1> QED
  BY <1>3, <1>4, <1>5 DEF Requests

(* An interim reply is only formed for a request that asks for one. *)
LEMMA ReceiveExpects ==
    ASSUME IInv, ExpectInv, Receive
    PROVE  /\ request.expect => request'.expect
           /\ request'.phase = "head" => ~ request'.expect
           /\ request'.status = "Expect" => request'.expect
           /\ response'.code = 100 => request'.expect
<1> USE DEF IInv, TypeOK
<1>1. PICK r \in Parsed(request) :
         ReceiveIncomplete(r) \/ ReceiveBad(r) \/ ReceiveExpect(r) \/ ReceiveComplete(r)
  BY DEF Receive
<1>2. r \in Requests /\ RequestOK(r)
  BY ParsedType, ParsedOK
<1>3. /\ request.expect => r.expect
      /\ r.phase = "head" => ~ r.expect
      /\ r.status = "Expect" => r.expect
  BY ParsedExpect DEF ExpectInv
<1>4. CASE ReceiveIncomplete(r) \/ ReceiveExpect(r)
  BY <1>2, <1>3, <1>4 DEF ReceiveIncomplete, ReceiveExpect, ExpectInv
<1>5. CASE ReceiveBad(r)
  <2>1. FormedFrom(response, response')
    BY <1>2, <1>5, HandleErrorForms DEF ReceiveBad, RequestOK
  <2> QED
    BY <1>3, <1>5, <2>1 DEF ReceiveBad, FormedFrom, ExpectInv
<1>6. CASE ReceiveComplete(r)
  <2>1. r.target \in Target
    BY <1>2, <1>6, ConnectionAssumption DEF ReceiveComplete, RequestOK, Requests
  <2>2. PICK o \in HandleRegular(response, r) :
           request' = o.request /\ response' = o.response
    BY <1>6 DEF ReceiveComplete
  <2>3. /\ FormedFrom(response, response')
        /\ request' \in { [r EXCEPT !.code = k] : k \in Statuses }
    BY <1>2, <2>1, <2>2, HandleRegularForms
  <2>4. request'.expect = r.expect /\ request'.phase = r.phase /\ request'.status = r.status
    BY <1>2, <2>3 DEF Requests
  <2> QED
    BY <1>3, <2>3, <2>4 DEF FormedFrom, ExpectInv
<1> QED
  BY <1>1, <1>4, <1>5, <1>6

(***************************************************************************)
(* Delivered adds one reply, of the response, if none of it was sent       *)
(* before, or else goes on with the last.                                  *)
(***************************************************************************)
LEMMA DeliveredReply ==
    ASSUME TypeOK, NEW whole \in BOOLEAN,
           response.buffer # EmptyBuffer => wire # << >>
    PROVE  LET w == Delivered(response, whole)
           IN  /\ Len(w) = IF response.buffer = EmptyBuffer THEN Len(wire) + 1 ELSE Len(wire)
               /\ w # << >> /\ Last(w).whole = whole
               /\ \A i \in 1 .. Len(wire) : w[i].code = wire[i].code
               /\ response.buffer = EmptyBuffer => w[Len(w)].code = response.code
<1> USE DEF TypeOK
<1>1. wire \in Seq(Wire) /\ Len(wire) \in Nat
  OBVIOUS
<1>2. CASE response.buffer = EmptyBuffer
  <2> DEFINE reply == [code |-> response.code, body |-> response.body, whole |-> whole]
  <2>1. Delivered(response, whole) = Append(wire, reply)
    BY <1>2 DEF Delivered
  <2>2. reply \in Wire /\ reply.code = response.code /\ reply.whole = whole
    BY DEF Wire, Responses
  <2> HIDE DEF reply
  <2>3. /\ Len(Append(wire, reply)) = Len(wire) + 1
        /\ Append(wire, reply)[Len(wire) + 1] = reply
        /\ \A i \in 1 .. Len(wire) : Append(wire, reply)[i] = wire[i]
    BY <1>1, <2>2
  <2> QED
    BY <1>1, <1>2, <2>1, <2>2, <2>3 DEF Last
<1>3. CASE response.buffer # EmptyBuffer
  <2> DEFINE n == Len(wire)
             w == [wire EXCEPT ![n].whole = whole]
  <2>1. Delivered(response, whole) = w /\ n > 0
    BY <1>1, <1>3 DEF Delivered
  <2>2. /\ Len(w) = n
        /\ \A i \in 1 .. n : i # n => w[i] = wire[i]
        /\ w[n] = [wire[n] EXCEPT !.whole = whole]
    BY <1>1, <2>1
  <2>3. wire[n] \in Wire
    BY <1>1, <2>1
  <2>4. w[n].whole = whole /\ w[n].code = wire[n].code
    BY <2>2, <2>3 DEF Wire
  <2> HIDE DEF w
  <2>5. w # << >>
    BY <2>1, <2>2
  <2> QED
    BY <1>1, <1>3, <2>1, <2>2, <2>4, <2>5 DEF Last
<1> QED
  BY <1>2, <1>3

-----------------------------------------------------------------------------
(* The invariant is inductive. *)

(* A reply that is received or timed out does not touch what was sent. *)
LEMMA FormingKeeps ==
    ASSUME IInv, WireInv, Receive \/ HandleTimeout
    PROVE  /\ WireInv'
           /\ UNCHANGED wire
<1> USE DEF IInv, TypeOK
<1>1. CASE Receive
  <2>1. UNCHANGED wire /\ state # "Done" /\ state' # "Done"
    BY <1>1, ReceiveForms DEF Receive, Live
  <2>2. response'.buffer = response.buffer
    BY <1>1, ReceiveForms DEF Answered
  <2>3. response'.code = 100 => response.code \in {None, 100} \/ UNCHANGED response
    BY <1>1, ReceiveForms DEF Answered
  <2>4. response.code = None => response.buffer = EmptyBuffer
    BY DEF ResponseOK, NewResponse
  <2> QED
    BY <2>1, <2>2, <2>3, <2>4 DEF WireInv, Started
<1>2. CASE HandleTimeout
  <2>1. UNCHANGED << wire, state >>
    BY <1>2 DEF HandleTimeout
  <2>2. response'.buffer = response.buffer /\ (response'.code = 100 => response.code = 100)
    <3>1. CASE UNCHANGED response
      BY <3>1
    <3>2. CASE state # "Start"
      <4>1. PICK code \in {408, 504} :
               /\ request'  = [request EXCEPT !.code = code]
               /\ response' = HandleError(response, request')
        BY <1>2, <3>2 DEF HandleTimeout
      <4>2. request' \in Requests /\ request'.code \in ErrorStatuses
        BY <4>1 DEF Requests, ErrorStatuses, Statuses
      <4>3. FormedFrom(response, response')
        BY <4>1, <4>2, HandleErrorForms
      <4> QED
        BY <4>3 DEF FormedFrom
    <3> QED
      BY <1>2, <3>1, <3>2 DEF HandleTimeout
  <2> QED
    BY <2>1, <2>2 DEF WireInv, Started
<1> QED
  BY <1>1, <1>2

(* A piece that is filled in one go has a rest that is smaller than a piece. *)
LEMMA FillsHaveRest ==
    ASSUME IInv, WireInv, "exact" \notin Situations, NEW b \in Fills(response)
    PROVE  b.rest /\ b \in Buffers
<1>1. b \in Buffers
  BY FillsFit DEF IInv, TypeOK
<1> QED
  BY <1>1 DEF Fills, WireInv

(* Sending keeps the last reply on the wire the only final one. *)
LEMMA SendingKeeps ==
    ASSUME IInv, WireInv, Dispatch, "exact" \notin Situations, "short" \notin Situations
    PROVE  /\ WireInv'
           /\ \A i \in 1 .. Len(wire') :
                 ~ Final(wire'[i]) => response.code = 100 \/ (i \in 1 .. Len(wire) /\ ~ Final(wire[i]))
           /\ response'.code = 100 => response.code = 100
<1> USE DEF IInv
<1>0. wire \in Seq(Wire) /\ Len(wire) \in Nat /\ state # "Done"
  BY DEF TypeOK, Dispatch, Live
<1>1. CASE UNCHANGED << state, response, wire >>
  BY <1>0, <1>1 DEF WireInv, Started
<1>2. ASSUME NEW b \in Fills(response), SendInterim \/ SendFullPiece(b) \/ SendLastPiece(b)
      PROVE  /\ WireInv'
             /\ \A i \in 1 .. Len(wire') :
                   ~ Final(wire'[i]) => response.code = 100 \/ (i \in 1 .. Len(wire) /\ ~ Final(wire[i]))
             /\ response'.code = 100 => response.code = 100
  <2>1. b.rest /\ b \in Buffers
    BY <1>2, FillsHaveRest
  <2>2. response \in Responses
    BY DEF TypeOK
  <2>3. ASSUME NEW whole \in BOOLEAN, wire' = Delivered(response, whole)
        PROVE  /\ Len(wire') = IF response.buffer = EmptyBuffer THEN Len(wire) + 1 ELSE Len(wire)
               /\ wire' # << >> /\ Last(wire').whole = whole
               /\ \A i \in 1 .. Len(wire) : wire'[i].code = wire[i].code
               /\ response.buffer = EmptyBuffer => wire'[Len(wire')].code = response.code
    BY <2>3, DeliveredReply DEF WireInv, Started
  <2>4. CASE SendInterim
    <3>1. /\ response.code = 100 /\ response.buffer = EmptyBuffer /\ response' = NewResponse
          /\ wire' = Delivered(response, TRUE) /\ UNCHANGED state
      BY <2>4 DEF SendInterim, WireInv, Started
    <3>2. response'.buffer = EmptyBuffer /\ response'.code # 100
      BY <3>1 DEF NewResponse, None
    <3>3. Len(wire') = Len(wire) + 1 /\ ~ Started /\ ~ Started'
      BY <1>0, <2>3, <3>1, <3>2 DEF WireInv, Started
    <3>4. \A i \in 1 .. Len(wire') : ~ Final(wire'[i])
      <4> TAKE i \in 1 .. Len(wire')
      <4>1. CASE i \in 1 .. Len(wire)
        <5>1. ~ Final(wire[i])
          BY <3>3, <4>1 DEF WireInv
        <5>2. wire'[i].code = wire[i].code
          BY <2>3, <3>1, <4>1
        <5> QED
          BY <5>1, <5>2 DEF Final
      <4>2. CASE i = Len(wire')
        <5>1. wire'[i].code = 100
          BY <2>3, <3>1, <4>2
        <5> QED
          BY <5>1 DEF Final
      <4> QED
        BY <1>0, <3>3, <4>1, <4>2
    <3>5. state' # "Done"
      BY <1>0, <3>1
    <3>6. WireInv'
      BY <3>2, <3>3, <3>4, <3>5 DEF WireInv
    <3> QED
      <4>1. response.code = 100 /\ response'.code # 100
        BY <3>1, <3>2
      <4> QED
        BY <3>6, <4>1
  <2>5. CASE SendFullPiece(b) \/ SendLastPiece(b)
    <3>1. response.code # 100 /\ response'.code = response.code
      BY <2>2, <2>5 DEF SendFullPiece, SendLastPiece, Responses
    <3>2. PICK whole \in BOOLEAN :
             wire' = Delivered(response, whole) /\ (state' = "Done" => whole)
      <4>1. CASE SendFullPiece(b)
        BY <1>0, <4>1 DEF SendFullPiece
      <4>2. CASE SendLastPiece(b)
        BY <4>2 DEF SendLastPiece
      <4> QED
        BY <2>5, <4>1, <4>2
    <3>3. \/ response'.buffer # EmptyBuffer /\ response'.buffer.rest
          \/ response'.buffer = EmptyBuffer /\ state' = "Done"
      <4>1. CASE SendFullPiece(b)
        <5>1. response'.buffer = [b EXCEPT !.full = @ - 1]
          BY <2>2, <4>1 DEF SendFullPiece, Responses
        <5>2. response'.buffer.rest
          BY <2>1, <5>1 DEF Buffers
        <5> QED
          BY <5>2 DEF EmptyBuffer
      <4>2. CASE SendLastPiece(b)
        BY <2>2, <4>2 DEF SendLastPiece, Responses
      <4> QED
        BY <2>5, <4>1, <4>2
    <3>4. Started'
      BY <3>3 DEF Started
    <3>5. /\ \A i \in 1 .. Len(wire') : Final(wire'[i]) <=> i = Len(wire')
          /\ \A i \in 1 .. Len(wire') : ~ Final(wire'[i]) => i \in 1 .. Len(wire) /\ ~ Final(wire[i])
      BY <1>0, <2>3, <3>1, <3>2, SMTT(60) DEF WireInv, Started, Final
    <3> QED
      BY <2>3, <3>1, <3>2, <3>3, <3>4, <3>5 DEF WireInv
  <2> QED
    BY <1>2, <2>4, <2>5
<1> QED
  BY <1>1, <1>2 DEF Dispatch, Send

(* A new connection has nothing on the wire. *)
LEMMA InitReplies == Init => WireInv /\ ExpectInv
BY DEF Init, WireInv, ExpectInv, Started, NewResponse, NewRequest, EmptyBuffer, None

(* Each call keeps both parts. *)
LEMMA NextKeepsReplies ==
    ASSUME "exact" \notin Situations, "short" \notin Situations
    PROVE  IInv /\ WireInv /\ ExpectInv /\ [Next]_vars => WireInv' /\ ExpectInv'
<1> SUFFICES ASSUME IInv, WireInv, ExpectInv, [Next]_vars PROVE WireInv' /\ ExpectInv'
  OBVIOUS
<1>1. CASE Receive
  BY <1>1, FormingKeeps, ReceiveExpects DEF ExpectInv
<1>2. CASE HandleTimeout
  <2>1. WireInv' /\ UNCHANGED wire
    BY <1>2, FormingKeeps
  <2>2. /\ request'.phase = request.phase /\ request'.expect = request.expect
        /\ request'.status = request.status
    BY <1>2 DEF HandleTimeout, IInv, TypeOK, Requests
  <2>3. response'.code = 100 => response.code = 100
    <3>1. CASE state = "Start"
      BY <1>2, <3>1 DEF HandleTimeout
    <3>2. CASE state # "Start"
      <4>1. PICK code \in {408, 504} :
               /\ request'  = [request EXCEPT !.code = code]
               /\ response' = HandleError(response, request')
        BY <1>2, <3>2 DEF HandleTimeout
      <4>2. request' \in Requests /\ request'.code \in ErrorStatuses
        BY <4>1 DEF IInv, TypeOK, Requests, ErrorStatuses, Statuses
      <4>3. FormedFrom(response, response')
        BY <4>1, <4>2, HandleErrorForms DEF IInv, TypeOK
      <4> QED
        BY <4>3 DEF FormedFrom
    <3> QED
      BY <3>1, <3>2
  <2> QED
    BY <2>1, <2>2, <2>3 DEF ExpectInv
<1>3. CASE Dispatch
  <2>1. UNCHANGED request
    BY <1>3 DEF Dispatch
  <2> QED
    BY <1>3, <2>1, SendingKeeps DEF ExpectInv
<1>4. CASE UNCHANGED vars
  BY <1>4 DEF vars, WireInv, ExpectInv, Started
<1> QED
  BY <1>1, <1>2, <1>3, <1>4 DEF Next, Closed

LEMMA RepliesInvariance ==
    ASSUME "exact" \notin Situations, "short" \notin Situations
    PROVE  Spec => [](WireInv /\ ExpectInv)
BY InitReplies, NextKeepsReplies, Invariance, PTL DEF Spec

-----------------------------------------------------------------------------

(***************************************************************************)
(* A client receives one final status line at most, also when timeouts     *)
(* and input strike while its reply is being sent: unless the size of the  *)
(* reply is a multiple of BUFFER_SIZE, or send() takes a part of a piece.  *)
(***************************************************************************)
THEOREM OneReply ==
    ASSUME "exact" \notin Situations, "short" \notin Situations
    PROVE  Spec => []OneFinalReply
<1>1. WireInv => OneFinalReply
  BY DEF WireInv, OneFinalReply
<1> QED
  BY <1>1, RepliesInvariance, PTL

(***************************************************************************)
(* The event loop closes no connection before its final reply was sent in  *)
(* full (Dispatch), under the same conditions.                             *)
(***************************************************************************)
THEOREM RepliesAreWhole ==
    ASSUME "exact" \notin Situations, "short" \notin Situations
    PROVE  Spec => []DoneMeansDelivered
<1>1. TypeOK /\ WireInv => DoneMeansDelivered
  BY DEF TypeOK, WireInv, Started, DoneMeansDelivered, Last
<1> QED
  BY <1>1, RepliesInvariance, TypeCorrect, PTL

(***************************************************************************)
(* Interim replies are sent to a client that asked for one, and before the *)
(* final reply (SendInterim).                                              *)
(***************************************************************************)
THEOREM InterimsComeFirst ==
    ASSUME "exact" \notin Situations, "short" \notin Situations
    PROVE  Spec => []InterimFirst
<1>1. TypeOK /\ WireInv /\ ExpectInv => InterimFirst
  BY DEF TypeOK, WireInv, ExpectInv, InterimFirst
<1> QED
  BY <1>1, RepliesInvariance, TypeCorrect, PTL

-----------------------------------------------------------------------------
(* Status and body, and errors. *)

(* The part of ExpectInv about the request, which needs no conditions. *)
ExpectKnown ==
    /\ request.phase = "head" => ~ request.expect
    /\ request.status = "Expect" => request.expect

(* A failed reply without Expect header comes with a failed request. *)
ErrorsKnown ==
    ~ request.expect /\ response.code \in ErrorStatuses => request.code \in ErrorStatuses

(* An error page and its status. *)
Matches(p) ==
    /\ p.body \in ErrorStatuses => p.code = p.body
    /\ p.code \in ErrorStatuses => p.body \in {None, p.code}

(***************************************************************************)
(* Without timeouts and Expect header: while the request is incomplete     *)
(* there is nothing of a reply, and afterwards the reply is in order.      *)
(***************************************************************************)
TurnInv ==
    waits = 0 /\ ~ request.expect =>
       /\ request.status = "Incomplete" => request.code = None /\ response = NewResponse
       /\ Matches(response)
       /\ StatusMatchesBody

(***************************************************************************)
(* Parsing leaves the code of a request without Expect header alone, or    *)
(* makes it 400 when it rejects the request.                               *)
(***************************************************************************)
LEMMA ParsedCode ==
    ASSUME NEW r \in Requests, RequestOK(r), NEW q \in Parsed(r),
           r.phase = "head" => ~ r.expect,
           r.status = "Expect" => r.expect,
           ~ q.expect
    PROVE  /\ ~ r.expect
           /\ q.status # "Expect"
           /\ q.code \in {400, r.code}
           /\ q.status = "Bad" => r.status = "Bad" \/ q.code = 400
           /\ q.status # "Bad" => q.code = r.code
           /\ q.status = "Incomplete" => r.status = "Incomplete"
<1>1. ~ r.expect /\ q.status # "Expect" /\ r.status # "Expect"
  BY ParsedExpect
<1>2. ASSUME NEW h \in Requests, h.status # "Expect"
      PROVE  /\ CheckStatus(h).code = h.code
             /\ CheckStatus(h).status \in {h.status, "Complete"}
  BY <1>2 DEF CheckStatus, Requests
<1>3. \A t : Rejected(r, t).status = "Bad" /\ Rejected(r, t).code = 400
  BY DEF Rejected, Requests
<1>4. CASE r.phase = "head"
  <2>1. CASE q \in HeadParsed(r)
    <3>1. PICK h \in Requests :
             /\ q = CheckStatus(h)
             /\ h.code = r.code
             /\ h.status = IF h.expect THEN "Expect" ELSE r.status
      BY <2>1 DEF HeadParsed
    <3>2. ~ h.expect
      <4>1. CheckStatus(h).expect = h.expect
        BY DEF CheckStatus, Requests
      <4> QED
        BY <3>1, <4>1
    <3> QED
      BY <1>1, <1>2, <3>1, <3>2
  <2> QED
    BY <1>1, <1>3, <1>4, <2>1 DEF Parsed, Buffered
<1>5. CASE r.phase = "body"
  <2> DEFINE begun == [r EXCEPT !.begun = TRUE]
             ended == [r EXCEPT !.begun = TRUE, !.phase = "done"]
  <2>1. begun \in Requests /\ begun.code = r.code /\ begun.status = r.status
    BY DEF Requests
  <2>2. ended \in Requests /\ ended.code = r.code /\ ended.status = r.status
    BY DEF Requests
  <2>3. q \in { CheckStatus(r), CheckStatus(begun), CheckStatus(ended), Rejected(r, r.target) }
    BY <1>5 DEF Parsed, BodyParsed
  <2> HIDE DEF begun, ended
  <2> QED
    BY <1>1, <1>2, <1>3, <2>1, <2>2, <2>3
<1>6. CASE r.phase \in {"done", "broken"}
  BY <1>1, <1>3, <1>6 DEF Parsed
<1> QED
  BY <1>4, <1>5, <1>6 DEF Requests

(* The code and the body of a reply that is formed. *)
LEMMA FormedReply ==
    ASSUME NEW p \in Responses, NEW r \in Requests
    PROVE  /\ FormResponse(p, r).code = IF p.code = None THEN r.code ELSE p.code
           /\ FormResponse(p, r).body = p.body
           /\ HandleError(p, r).code = IF p.code = None THEN r.code ELSE p.code
           /\ HandleError(p, r).body = r.code
<1>1. ASSUME NEW u, DOMAIN u = DOMAIN p
      PROVE  /\ FormResponse(u, r).code = IF u.code = None THEN r.code ELSE u.code
             /\ FormResponse(u, r).body = u.body
  BY <1>1 DEF FormResponse, Responses
<1>2. /\ DOMAIN [p EXCEPT !.body = r.code] = DOMAIN p
      /\ [p EXCEPT !.body = r.code].code = p.code
      /\ [p EXCEPT !.body = r.code].body = r.code
  BY DEF Responses
<1> QED
  BY <1>1, <1>2 DEF HandleError

(***************************************************************************)
(* HandleRegular: an error of the reply is one of the request; the reply   *)
(* that is formed first has a status and a body that belong together; and  *)
(* a method is only carried out for a request without an error.            *)
(***************************************************************************)
LEMMA HandledInTurn ==
    ASSUME NEW p \in Responses, NEW r \in Requests, r.target \in Target,
           NEW o \in HandleRegular(p, r)
    PROVE  /\ o.response.code \in ErrorStatuses =>
                 p.code \in ErrorStatuses \/ o.request.code \in ErrorStatuses
           /\ r.code \in ErrorStatuses => o.request.code \in ErrorStatuses
           /\ o.ran /\ r.target # "cgi" => ~ r.code > 399
           /\ p = NewResponse /\ r.code = None => Matches(o.response)
<1> DEFINE Goal ==
           /\ o.response.code \in ErrorStatuses =>
                 p.code \in ErrorStatuses \/ o.request.code \in ErrorStatuses
           /\ r.code \in ErrorStatuses => o.request.code \in ErrorStatuses
           /\ p = NewResponse /\ r.code = None => Matches(o.response)
<1>1. ASSUME NEW code \in {404, 502}, NEW ran \in BOOLEAN, o \in Failed(p, r, code, ran)
      PROVE  Goal /\ o.ran = ran
  <2> DEFINE q == [r EXCEPT !.code = code]
  <2>1. q \in Requests /\ q.code = code /\ code \in ErrorStatuses
    BY DEF Requests, Statuses, ErrorStatuses
  <2>2. o.response = HandleError(p, q) /\ o.request = q /\ o.ran = ran
    BY <1>1 DEF Failed, Outcome
  <2> HIDE DEF q
  <2>3. /\ o.response.code = IF p.code = None THEN code ELSE p.code
        /\ o.response.body = code
    BY <2>1, <2>2, FormedReply
  <2>4. p = NewResponse => p.code = None
    BY DEF NewResponse
  <2> QED
    BY <2>1, <2>2, <2>3, <2>4 DEF Matches
<1>2. ASSUME NEW code \in {None, 200, 302}, NEW body \in {None, 200}, NEW u \in Responses,
             u.code = IF code = None THEN p.code ELSE code,
             u.body = IF body = None THEN p.body ELSE body,
             o.response = FormResponse(u, r), o.request = r
      PROVE  /\ o.response.code \in ErrorStatuses =>
                   p.code \in ErrorStatuses \/ o.request.code \in ErrorStatuses
             /\ r.code \in ErrorStatuses => o.request.code \in ErrorStatuses
             /\ p = NewResponse /\ r.code = None => Matches(o.response)
  <2>1. /\ o.response.code = IF u.code = None THEN r.code ELSE u.code
        /\ o.response.body = u.body
    BY <1>2, FormedReply
  <2>2. p = NewResponse => p.code = None /\ p.body = None
    BY DEF NewResponse
  <2>3. {None, 200, 302} \cap ErrorStatuses = {}
    BY DEF None, ErrorStatuses
  <2> QED
    BY <1>2, <2>1, <2>2, <2>3 DEF Matches
<1>3. CASE r.target = "redirect"
  <2> DEFINE u == [p EXCEPT !.code = 302]
  <2>1. u \in Responses /\ u.code = 302 /\ u.body = p.body
    BY DEF Responses, Statuses
  <2>2. o.response = FormResponse(u, r) /\ o.request = r /\ o.ran = FALSE
    BY <1>3 DEF HandleRegular, HandleRedirection, Outcome
  <2>3. 302 # None
    BY DEF None
  <2> HIDE DEF u
  <2> QED
    BY <1>2, <2>1, <2>2, <2>3
<1>4. CASE r.target = "unresolved"
  BY <1>1, <1>4, ZenonT(60) DEF HandleRegular
<1>ran. ASSUME o = Outcome(FormResponse([p EXCEPT !.code = 200, !.body = 200], r), r, TRUE)
        PROVE  Goal
  <2> DEFINE u == [p EXCEPT !.code = 200, !.body = 200]
  <2>1. u \in Responses /\ u.code = 200 /\ u.body = 200
    BY ZenonT(60) DEF Responses, Statuses, Bodies
  <2>2. o.response = FormResponse(u, r) /\ o.request = r
    BY <1>ran DEF Outcome
  <2>3. 200 # None
    BY DEF None
  <2> HIDE DEF u
  <2> QED
    BY <1>2, <2>1, <2>2, <2>3
<1>5. CASE r.target = "cgi"
  BY <1>1, <1>5, <1>ran, ZenonT(60) DEF HandleRegular, HandleCGI
<1>6. CASE r.target = "method"
  <2>1. CASE o \in Failed(p, r, 404, FALSE)
    BY <1>1, <2>1, ZenonT(60)
  <2>2. CASE o \notin Failed(p, r, 404, FALSE) /\ r.code > 399
    <3> DEFINE u == [p EXCEPT !.body = 200]
    <3>1. u \in Responses /\ u.code = p.code /\ u.body = 200
      BY DEF Responses, Bodies
    <3>2. o.response = FormResponse(u, r) /\ o.request = r /\ o.ran = FALSE
      <4>1. o \in HandleMethod(p, r)
        BY <1>6 DEF HandleRegular
      <4>2. o = Outcome(FormResponse([p EXCEPT !.body = 200], r), r, FALSE)
        BY <2>2, <4>1 DEF HandleMethod
      <4> QED
        BY <4>2 DEF Outcome
    <3>3. 200 # None
      BY DEF None
    <3> HIDE DEF u
    <3> QED
      BY <1>2, <3>1, <3>2, <3>3
  <2>3. CASE o \notin Failed(p, r, 404, FALSE) /\ ~ r.code > 399
    BY <1>6, <2>3, <1>ran DEF HandleRegular, HandleMethod
  <2> QED
    BY <2>1, <2>2, <2>3
<1> QED
  BY <1>3, <1>4, <1>5, <1>6 DEF Target

(***************************************************************************)
(* Receive, on a connection whose request does not turn out to expect.     *)
(***************************************************************************)
LEMMA ReceiveInTurn ==
    ASSUME IInv, ExpectKnown, Receive
    PROVE  /\ ExpectKnown'
           /\ ErrorsKnown => ErrorsKnown'
           /\ TurnInv /\ "extra" \notin Situations => TurnInv'
<1> USE DEF IInv, TypeOK
<1>1. PICK r \in Parsed(request) :
         ReceiveIncomplete(r) \/ ReceiveBad(r) \/ ReceiveExpect(r) \/ ReceiveComplete(r)
  BY DEF Receive
<1>2. r \in Requests /\ RequestOK(r)
  BY ParsedType, ParsedOK
<1>3. /\ r.expect = request.expect \/ request.phase = "head"
      /\ r.phase = "head" => r = request
      /\ r.status = "Expect" => r.expect
  BY ParsedExpect DEF ExpectKnown
<1>4. ~ r.expect =>
         /\ ~ request.expect
         /\ r.status # "Expect"
         /\ r.code \in {400, request.code}
         /\ r.status = "Bad" => request.status = "Bad" \/ r.code = 400
         /\ r.status # "Bad" => r.code = request.code
         /\ r.status = "Incomplete" => request.status = "Incomplete"
  BY <1>2, ParsedCode DEF ExpectKnown
<1>5. 400 \in ErrorStatuses /\ None \notin ErrorStatuses
  BY DEF ErrorStatuses, None
<1>6. UNCHANGED << wire, waits >>
  BY DEF Receive
<1>7. \/ request' = r
      \/ ReceiveComplete(r) /\ \E k \in Statuses : request' = [r EXCEPT !.code = k]
  <2>1. CASE ReceiveComplete(r)
    <3>1. r.target \in Target
      BY <1>2, <2>1, ConnectionAssumption DEF ReceiveComplete, RequestOK, Requests
    <3> QED
      BY <1>2, <2>1, <3>1, HandleRegularForms DEF ReceiveComplete
  <2> QED
    BY <1>1, <2>1 DEF ReceiveIncomplete, ReceiveBad, ReceiveExpect
<1>8. /\ request'.expect = r.expect /\ request'.phase = r.phase
      /\ request'.status = r.status
  BY <1>2, <1>7 DEF Requests
<1>9. ExpectKnown'
  BY <1>3, <1>8 DEF ExpectKnown
<1>10. ASSUME "extra" \notin Situations, TurnInv, waits' = 0, ~ r.expect
       PROVE  /\ request.status = "Incomplete" /\ request.code = None
              /\ response = NewResponse /\ StatusMatchesBody
  <2>1. request.phase # "done" /\ request.status # "Bad"
    BY <1>10 DEF Receive
  <2>2. request.status = "Incomplete"
    BY <1>4, <1>10, <2>1 DEF RequestOK, Requests, ExpectKnown
  <2> QED
    BY <1>4, <1>6, <1>10, <2>2 DEF TurnInv
<1>11. StatusMatchesBody => StatusMatchesBody'
  BY <1>6 DEF StatusMatchesBody
<1>12. NewResponse.code = None /\ NewResponse.body = None /\ Matches(NewResponse)
  BY DEF NewResponse, Matches, None, ErrorStatuses
<1>13. CASE ReceiveIncomplete(r)
  <2>1. request' = r /\ UNCHANGED response /\ r.status = "Incomplete"
    BY <1>13 DEF ReceiveIncomplete
  <2>2. ErrorsKnown => ErrorsKnown'
    BY <1>4, <1>5, <2>1 DEF ErrorsKnown
  <2>3. TurnInv /\ "extra" \notin Situations => TurnInv'
    BY <1>4, <1>10, <1>11, <1>12, <2>1 DEF TurnInv
  <2> QED
    BY <1>9, <2>2, <2>3
<1>14. CASE ReceiveBad(r)
  <2>1. request' = r /\ response' = HandleError(response, r) /\ r.status = "Bad"
    BY <1>14 DEF ReceiveBad
  <2>2. r.code \in ErrorStatuses
    BY <1>2, <2>1 DEF RequestOK
  <2>3. response.code = None => response'.code = r.code /\ response'.body = r.code
    BY <1>2, <2>1, FormedReply
  <2>4. ErrorsKnown => ErrorsKnown'
    BY <2>1, <2>2 DEF ErrorsKnown
  <2>5. ASSUME TurnInv, "extra" \notin Situations, waits' = 0, ~ request'.expect
        PROVE  Matches(response') /\ StatusMatchesBody'
    <3>1. response.code = None
      BY <1>8, <1>10, <1>12, <2>5
    <3> QED
      BY <1>8, <1>10, <1>11, <2>3, <2>5, <3>1 DEF Matches
  <2>6. request'.status # "Incomplete"
    BY <2>1
  <2> QED
    BY <1>9, <2>4, <2>5, <2>6 DEF TurnInv
<1>15. CASE ReceiveExpect(r)
  <2>1. request'.expect
    BY <1>3, <1>8, <1>15 DEF ReceiveExpect
  <2> QED
    BY <1>9, <2>1 DEF ErrorsKnown, TurnInv
<1>16. CASE ReceiveComplete(r)
  <2>1. r.target \in Target /\ r.status = "Complete"
    BY <1>2, <1>16, ConnectionAssumption DEF ReceiveComplete, RequestOK, Requests
  <2>2. PICK o \in HandleRegular(response, r) :
           request' = o.request /\ response' = o.response
    BY <1>16 DEF ReceiveComplete
  <2>3. /\ o.response.code \in ErrorStatuses =>
              response.code \in ErrorStatuses \/ o.request.code \in ErrorStatuses
        /\ r.code \in ErrorStatuses => o.request.code \in ErrorStatuses
        /\ response = NewResponse /\ r.code = None => Matches(o.response)
    BY <1>2, <2>1, HandledInTurn
  <2>4. ErrorsKnown => ErrorsKnown'
    BY <1>4, <1>8, <2>1, <2>2, <2>3 DEF ErrorsKnown
  <2>5. ASSUME TurnInv, "extra" \notin Situations, waits' = 0, ~ request'.expect
        PROVE  Matches(response') /\ StatusMatchesBody'
    BY <1>4, <1>8, <1>10, <1>11, <2>1, <2>2, <2>3, <2>5
  <2>6. request'.status # "Incomplete"
    BY <1>8, <2>1
  <2> QED
    BY <1>9, <2>4, <2>5, <2>6 DEF TurnInv
<1> QED
  BY <1>1, <1>13, <1>14, <1>15, <1>16

(* A piece of the reply on the wire carries the status it began with. *)
LEMMA DeliveredMatches ==
    ASSUME TypeOK, Matches(response), StatusMatchesBody, NEW whole \in BOOLEAN,
           wire' = Delivered(response, whole)
    PROVE  StatusMatchesBody'
<1> USE DEF TypeOK
<1>1. wire \in Seq(Wire) /\ Len(wire) \in Nat
  OBVIOUS
<1>2. CASE response.buffer = EmptyBuffer
  <2> DEFINE reply == [code |-> response.code, body |-> response.body, whole |-> whole]
  <2>1. wire' = Append(wire, reply)
    BY <1>2 DEF Delivered
  <2>2. reply \in Wire /\ reply.code = response.code /\ reply.body = response.body
    BY DEF Wire, Responses
  <2> HIDE DEF reply
  <2>3. ASSUME NEW i \in 1 .. Len(wire')
        PROVE  \/ i \in 1 .. Len(wire) /\ wire'[i] = wire[i]
               \/ wire'[i] = reply
    BY <1>1, <2>1, <2>2
  <2> QED
    BY <2>2, <2>3 DEF StatusMatchesBody, Matches
<1>3. CASE response.buffer # EmptyBuffer
  <2>1. wire' = [wire EXCEPT ![Len(wire)].whole = whole]
    BY <1>3 DEF Delivered
  <2>2. Len(wire') = Len(wire)
    BY <1>1, <2>1
  <2>3. ASSUME NEW i \in 1 .. Len(wire)
        PROVE  wire'[i].code = wire[i].code /\ wire'[i].body = wire[i].body
    <3>1. wire[i] \in Wire
      BY <1>1
    <3>2. wire'[i] = IF i = Len(wire) THEN [wire[i] EXCEPT !.whole = whole] ELSE wire[i]
      BY <1>1, <2>1
    <3> QED
      BY <3>1, <3>2 DEF Wire
  <2> QED
    BY <2>2, <2>3 DEF StatusMatchesBody
<1> QED
  BY <1>2, <1>3

(* Dispatch, which leaves the request alone. *)
LEMMA DispatchInTurn ==
    ASSUME IInv, Dispatch
    PROVE  /\ ExpectKnown => ExpectKnown'
           /\ ErrorsKnown => ErrorsKnown'
           /\ TurnInv => TurnInv'
<1> USE DEF IInv, TypeOK
<1>1. UNCHANGED << request, waits >>
  BY DEF Dispatch
<1>2. CASE UNCHANGED << response, wire >>
  BY <1>1, <1>2 DEF ExpectKnown, ErrorsKnown, TurnInv, StatusMatchesBody
<1>3. CASE ~ UNCHANGED << response, wire >>
  <2>1. response.complete /\ Send
    BY <1>3 DEF Dispatch
  <2>2. PICK b \in Fills(response) : SendInterim \/ SendFullPiece(b) \/ SendLastPiece(b)
    BY <2>1 DEF Send
  <2>3. /\ response' = NewResponse \/ (response'.code = response.code /\ response'.body = None)
        /\ \E whole \in BOOLEAN : wire' = Delivered(response, whole)
    <3>1. CASE SendInterim
      BY <3>1 DEF SendInterim
    <3>2. CASE SendFullPiece(b)
      BY <3>2 DEF SendFullPiece, Responses
    <3>3. CASE SendLastPiece(b)
      BY <3>3 DEF SendLastPiece, Responses
    <3> QED
      BY <2>2, <3>1, <3>2, <3>3
  <2>4. None \notin ErrorStatuses /\ NewResponse.code = None /\ NewResponse.body = None
    BY DEF None, ErrorStatuses, NewResponse
  <2>5. ErrorsKnown => ErrorsKnown'
    BY <1>1, <2>3, <2>4 DEF ErrorsKnown
  <2>6. Matches(response) => Matches(response')
    BY <2>3, <2>4 DEF Matches
  <2>7. Matches(response) /\ StatusMatchesBody => StatusMatchesBody'
    BY <2>3, DeliveredMatches
  <2>8. response # NewResponse
    BY <2>1 DEF NewResponse
  <2>9. TurnInv => TurnInv'
    BY <1>1, <2>6, <2>7, <2>8 DEF TurnInv
  <2> QED
    BY <1>1, <2>5, <2>9 DEF ExpectKnown
<1> QED
  BY <1>2, <1>3

(* HandleTimeout, which makes an error of the request. *)
LEMMA TimeoutInTurn ==
    ASSUME IInv, HandleTimeout
    PROVE  /\ ExpectKnown => ExpectKnown'
           /\ ErrorsKnown => ErrorsKnown'
           /\ TurnInv => TurnInv'
<1> USE DEF IInv, TypeOK
<1>1. waits' # 0
  BY ConnectionAssumption DEF HandleTimeout
<1>2. CASE state = "Start"
  BY <1>1, <1>2 DEF HandleTimeout, ExpectKnown, ErrorsKnown, TurnInv
<1>3. CASE state # "Start"
  <2>1. PICK k \in {408, 504} : request' = [request EXCEPT !.code = k]
    BY <1>3 DEF HandleTimeout
  <2>2. /\ request'.code \in ErrorStatuses /\ request'.expect = request.expect
        /\ request'.phase = request.phase /\ request'.status = request.status
    BY <2>1 DEF Requests, ErrorStatuses
  <2> QED
    BY <1>1, <2>2 DEF ExpectKnown, ErrorsKnown, TurnInv
<1> QED
  BY <1>2, <1>3

LEMMA InitInTurn == Init => ExpectKnown /\ ErrorsKnown /\ TurnInv
BY DEF Init, ExpectKnown, ErrorsKnown, TurnInv, Matches, StatusMatchesBody,
       NewRequest, NewResponse, None, ErrorStatuses

LEMMA NextInTurn ==
    ASSUME IInv, ExpectKnown, [Next]_vars
    PROVE  /\ ExpectKnown'
           /\ ErrorsKnown => ErrorsKnown'
           /\ TurnInv /\ "extra" \notin Situations => TurnInv'
<1>1. CASE UNCHANGED vars
  BY <1>1 DEF vars, ExpectKnown, ErrorsKnown, TurnInv, StatusMatchesBody
<1> QED
  BY <1>1, ReceiveInTurn, DispatchInTurn, TimeoutInTurn DEF Next, Closed

LEMMA ErrorsInvariance == Spec => [](ExpectKnown /\ ErrorsKnown)
BY InitInTurn, NextInTurn, Invariance, PTL DEF Spec

LEMMA TurnInvariance ==
    ASSUME "extra" \notin Situations
    PROVE  Spec => [](ExpectKnown /\ TurnInv)
<1>1. IInv /\ ExpectKnown /\ TurnInv /\ [Next]_vars => ExpectKnown' /\ TurnInv'
  BY NextInTurn
<1> QED
  BY <1>1, InitInTurn, Invariance, PTL DEF Spec

(***************************************************************************)
(* In a connection without timeouts, Expect header, and input that follows *)
(* its request, the status a client receives and the body that comes with  *)
(* it belong together (FormResponse and HandleError), for any target, any  *)
(* cutting up of the input, and any pieces the reply is sent in.           *)
(***************************************************************************)
THEOREM StatusesMatchInTurn ==
    ASSUME "extra" \notin Situations
    PROVE  Spec => []StatusMatchesBodyInTurn
<1>1. TurnInv => StatusMatchesBodyInTurn
  BY DEF TurnInv, StatusMatchesBodyInTurn
<1> QED
  BY <1>1, TurnInvariance, PTL

(***************************************************************************)
(* Once the reply to a request without Expect header is that it failed,    *)
(* DetermineMethod does not let the request be carried out any more,       *)
(* whatever is received and however often the connection times out.        *)
(***************************************************************************)
THEOREM FailedIsNotExecuted == Spec => ErrorsAreNotExecuted
<1> DEFINE Spared ==
       request'.target # "cgi" /\ ~ request'.expect /\ executed' > executed
          => response.code \notin ErrorStatuses
<1>1. IInv /\ ExpectKnown /\ ErrorsKnown /\ [Next]_vars => [Spared]_vars
  <2> SUFFICES ASSUME IInv, ExpectKnown, ErrorsKnown, Next,
                      request'.target # "cgi", ~ request'.expect, executed' > executed,
                      response.code \in ErrorStatuses
               PROVE  FALSE
    OBVIOUS
  <2> USE DEF IInv, TypeOK
  <2>1. executed \in Nat
    BY ConnectionAssumption
  <2>2. executed' # executed
    BY <2>1
  <2>3. Receive
    BY <2>2 DEF Next, Dispatch, HandleTimeout, Closed, vars
  <2>4. PICK r \in Parsed(request) :
           ReceiveIncomplete(r) \/ ReceiveBad(r) \/ ReceiveExpect(r) \/ ReceiveComplete(r)
    BY <2>3 DEF Receive
  <2>5. ReceiveComplete(r)
    BY <2>2, <2>4 DEF ReceiveIncomplete, ReceiveBad, ReceiveExpect
  <2>6. r \in Requests /\ RequestOK(r)
    BY ParsedType, ParsedOK
  <2>7. r.target \in Target /\ r.status = "Complete"
    BY <2>5, <2>6, ConnectionAssumption DEF ReceiveComplete, RequestOK, Requests
  <2>8. PICK o \in HandleRegular(response, r) :
           /\ request' = o.request
           /\ executed' = executed + (IF o.ran THEN 1 ELSE 0)
    BY <2>5 DEF ReceiveComplete
  <2>9. o.ran /\ request'.target = r.target /\ request'.expect = r.expect
    <3>1. PICK k \in Statuses : request' = [r EXCEPT !.code = k]
      BY <2>6, <2>7, <2>8, HandleRegularForms
    <3>2. o.ran
      BY <2>1, <2>2, <2>8
    <3> QED
      BY <2>6, <3>1, <3>2 DEF Requests
  <2>10. ~ r.code > 399
    BY <2>6, <2>7, <2>9, HandledInTurn
  <2>11. r.code = request.code /\ ~ request.expect
    BY <2>6, <2>7, <2>9, ParsedCode DEF ExpectKnown
  <2>12. r.code \in ErrorStatuses
    BY <2>11 DEF ErrorsKnown
  <2> QED
    BY <2>10, <2>12 DEF ErrorStatuses
<1>2. QED
  BY <1>1, Invariance, ErrorsInvariance, PTL DEF Spec, ErrorsAreNotExecuted
=============================================================================
