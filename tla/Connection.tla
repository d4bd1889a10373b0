------------------------------ MODULE Connection ------------------------------
(***************************************************************************)
(* One connection in detail: the classes Connection and ResponseHandler,   *)
(* with the Request, the Response and its send buffer as far as they       *)
(* decide which status and which body reach the client, and whether the    *)
(* request is carried out.                                                 *)
(*                                                                         *)
(* What a piece of input means to the request parser is a choice among the *)
(* outcomes the parser has in its phase; how a path is resolved and a file *)
(* handled is the choice between success and failure.  A status stands for *)
(* its class: 200 for 200 and 201, 400 for every error of the parser and   *)
(* the validator, 404 for every error of the method.                       *)
(***************************************************************************)
EXTENDS ConnectionLifecycle, Sequences, SequencesExt

CONSTANTS
    MaxReceives,    \* the most pieces of input the client sends
    MaxWaits,       \* the most timeouts the event loop finds
    Targets,        \* what the request may address, see Target
    Situations      \* what may happen in a run, see below

Target == {"method", "cgi", "redirect", "unresolved"}

ASSUME ConnectionAssumption ==
    /\ MaxReceives \in Nat
    /\ MaxWaits \in Nat
    /\ Targets \subseteq Target

(***************************************************************************)
(* "expect": the request may have the header Expect: 100-continue;         *)
(* "extra": input may follow a request that is complete or was rejected;   *)
(* "exact": the size of a reply may be a multiple of BUFFER_SIZE;          *)
(* "short": send() may take only a part of what it is given.               *)
(***************************************************************************)
ASSUME SituationsAssumption ==
    Situations \subseteq {"expect", "extra", "exact", "short"}

(* No status, no body, or no target yet. *)
None == 0

ErrorStatuses == {400, 404, 408, 502, 504}
Statuses      == {None, 100, 200, 302} \cup ErrorStatuses

(* A body is the result of the request, or the page of an error. *)
Bodies == {None, 200} \cup ErrorStatuses

VARIABLES
    state,          \* Connection::_state
    closing,        \* Connection::_close_connection_immediate
    request,        \* Connection::_request
    response,       \* ResponseHandler::_response
    executed,       \* how often the request was carried out
    wire,           \* the replies the client received, the last maybe in part
    receives,       \* how many pieces were received
    waits           \* how many timeouts were found

vars == << state, closing, request, response, executed, wire, receives, waits >>

(***************************************************************************)
(* The request: its status for Connection::Receive, its status code, how   *)
(* far the parser is, whether a byte of the message body was read          *)
(* (msg_bytes_read), and what the header section asked for.                *)
(***************************************************************************)
Requests ==
    [ status : {"Incomplete", "Bad", "Expect", "Complete"},
      code   : Statuses,
      phase  : {"head", "body", "done", "broken"},
      begun  : BOOLEAN,
      expect : BOOLEAN,
      target : Target \cup {"none"} ]

NewRequest == [ status |-> "Incomplete", code |-> None, phase |-> "head",
                begun |-> FALSE, expect |-> FALSE, target |-> "none" ]

(***************************************************************************)
(* What is left of the reply in the send buffer: full pieces of            *)
(* BUFFER_SIZE bytes, and a last one that is smaller.                      *)
(***************************************************************************)
Buffers == [full : 0 .. MaxSends - 1, rest : BOOLEAN]

EmptyBuffer == [full |-> 0, rest |-> FALSE]

Responses ==
    [ code     : Statuses,
      body     : Bodies,
      complete : BOOLEAN,
      buffer   : Buffers,
      sends    : 0 .. MaxSends - 1 ]

NewResponse == [ code |-> None, body |-> None, complete |-> FALSE,
                 buffer |-> EmptyBuffer, sends |-> 0 ]

Wire == [code : Statuses, body : Bodies, whole : BOOLEAN]

Init ==
    /\ state    = "Start"
    /\ closing  = FALSE
    /\ request  = NewRequest
    /\ response = NewResponse
    /\ executed = 0
    /\ wire     = << >>
    /\ receives = 0
    /\ waits    = 0

-----------------------------------------------------------------------------
(* Request::Parse: what a piece of input may make of the request. *)

(***************************************************************************)
(* An exception of the parser or the validator.  The same input is         *)
(* rejected again when more is received: neither the buffer nor the        *)
(* parsers are reset.  (The exceptions are left to RequestHead: a request  *)
(* line of two words, which is accepted the second time, and an invalid    *)
(* character, after which the parsers read beyond their table of handlers; *)
(* that the process may end there is a fault of KernelEvents.)             *)
(***************************************************************************)
Rejected(r, t) ==
    [r EXCEPT !.status = "Bad", !.code = 400, !.target = t, !.phase = "broken"]

(* Mutant: a message body that has begun counts as complete. *)
CheckStatusEager(r) ==
    IF r.phase = "done" \/ r.begun THEN [r EXCEPT !.status = "Complete"] ELSE r

(***************************************************************************)
(* Request::CheckStatus.  100 (Continue) is only asked for while nothing   *)
(* of the message body has been read.                                      *)
(***************************************************************************)
CheckStatus(r) ==
    CASE r.phase = "done"      -> [r EXCEPT !.status = "Complete"]
      [] r.phase # "done" /\ r.status = "Expect" ->
            IF r.begun THEN [r EXCEPT !.status = "Incomplete"]
                       ELSE [r EXCEPT !.code = 100]
      [] OTHER                 -> r

(* The header section is not there yet: the input is only buffered. *)
Buffered(r) == { r }

(***************************************************************************)
(* The header section is complete and valid, and so is the target: the     *)
(* request is complete, or a message body is to come, of which some may    *)
(* have come already.                                                      *)
(***************************************************************************)
HeadParsed(r) ==
    LET heads == { q \in Requests :
                      /\ q.code   = r.code
                      /\ q.phase  \in {"body", "done"}
                      /\ q.target \in Targets
                      /\ q.expect => "expect" \in Situations
                      /\ q.status = IF q.expect THEN "Expect" ELSE r.status }
    IN  { CheckStatus(q) : q \in heads }

(* More of the message body, or its end, or an empty piece. *)
BodyParsed(r) ==
    { CheckStatus(r),
      CheckStatus([r EXCEPT !.begun = TRUE]),
      CheckStatus([r EXCEPT !.begun = TRUE, !.phase = "done"]) }

(***************************************************************************)
(* Input after the end of the request is taken without a change of status, *)
(* or rejected because no Content-Length announced it (411).               *)
(***************************************************************************)
Parsed(r) ==
    CASE r.phase = "head" ->
            Buffered(r) \cup HeadParsed(r)
               \cup { Rejected(r, t) : t \in Targets \cup {"none"} }
      [] r.phase = "body"   -> BodyParsed(r) \cup { Rejected(r, r.target) }
      [] r.phase = "done"   -> { r, Rejected(r, r.target) }
      [] r.phase = "broken" -> { Rejected(r, r.target) }

-----------------------------------------------------------------------------
(* ResponseHandler: how a reply is formed. *)

(* Mutant: the request's status always replaces the response's. *)
FormResponseOverwrite(p, r) == [p EXCEPT !.code = r.code, !.complete = TRUE]

(***************************************************************************)
(* FormResponse.  SetStatusLine takes the status of the request only if    *)
(* the response has none.                                                  *)
(***************************************************************************)
FormResponse(p, r) ==
    [p EXCEPT !.code = IF @ = None THEN r.code ELSE @, !.complete = TRUE]

(* HandleError, with the default page of the error. *)
HandleError(p, r) == FormResponse([p EXCEPT !.body = r.code], r)

HandleExpect(p, r) == FormResponse(p, r)

(* What HandleRegular makes of request and response; ran: was it executed? *)
Outcome(p, r, ran) == [response |-> p, request |-> r, ran |-> ran]

(* Mutant: the status of the exception is not given to the request. *)
FailedWithoutStatus(p, r, code, ran) ==
    { Outcome(FormResponse([p EXCEPT !.body = code], r), r, ran) }

(* An http::exception: the request takes its status, and HandleError runs. *)
Failed(p, r, code, ran) ==
    LET q == [r EXCEPT !.code = code] IN { Outcome(HandleError(p, q), q, ran) }

(* HandleRedirection: the response takes the code of the return directive. *)
HandleRedirection(p, r) ==
    { Outcome(FormResponse([p EXCEPT !.code = 302], r), r, FALSE) }

HandleCGI(p, r) ==
    { Outcome(FormResponse([p EXCEPT !.code = 200, !.body = 200], r), r, TRUE) }
       \cup Failed(p, r, 502, TRUE)

(* Mutant: the status of the request is not looked at. *)
HandleMethodAlways(p, r) ==
    { Outcome(FormResponse([p EXCEPT !.code = 200, !.body = 200], r), r, TRUE) }
       \cup Failed(p, r, 404, FALSE)

(***************************************************************************)
(* HandleMethod.  DetermineMethod turns a request that has an error status *)
(* into GetError, which reads the target and leaves the status alone.      *)
(***************************************************************************)
HandleMethod(p, r) ==
    Failed(p, r, 404, FALSE) \cup
    IF r.code > 399
       THEN { Outcome(FormResponse([p EXCEPT !.body = 200], r), r, FALSE) }
       ELSE { Outcome(FormResponse([p EXCEPT !.code = 200, !.body = 200], r), r, TRUE) }

HandleRegular(p, r) ==
    CASE r.target = "redirect"   -> HandleRedirection(p, r)
      [] r.target = "unresolved" -> Failed(p, r, 404, FALSE)
      [] r.target = "cgi"        -> HandleCGI(p, r)
      [] r.target = "method"     -> HandleMethod(p, r)

-----------------------------------------------------------------------------
(* Connection. *)

Live == state # "Done" /\ ~ closing

(* SetNextState *)
NextState(r) ==
    CASE r.status = "Incomplete" -> "Request"
      [] r.status # "Incomplete" /\ r.target = "cgi" -> "CGI"
      [] OTHER -> "Response"

ReceiveIncomplete(r) ==
    /\ r.status = "Incomplete"
    /\ request' = r
    /\ UNCHANGED << response, executed >>

ReceiveBad(r) ==
    /\ r.status = "Bad"
    /\ request'  = r
    /\ response' = HandleError(response, r)
    /\ UNCHANGED executed

ReceiveExpect(r) ==
    /\ r.status = "Expect"
    /\ request'  = r
    /\ response' = HandleExpect(response, r)
    /\ UNCHANGED executed

ReceiveComplete(r) ==
    /\ r.status = "Complete"
    /\ \E o \in HandleRegular(response, r) :
          /\ request'  = o.request
          /\ response' = o.response
          /\ executed' = executed + (IF o.ran THEN 1 ELSE 0)

Receive ==
    /\ Live
    /\ receives < MaxReceives
    /\ request.phase = "done" \/ request.status = "Bad" => "extra" \in Situations
    /\ receives' = receives + 1
    /\ \E r \in Parsed(request) :
          /\ state' = NextState(r)
          /\ \/ ReceiveIncomplete(r)
             \/ ReceiveBad(r)
             \/ ReceiveExpect(r)
             \/ ReceiveComplete(r)
    /\ UNCHANGED << closing, wire, waits >>

-----------------------------------------------------------------------------
(* ResponseHandler::Send. *)

(***************************************************************************)
(* GetCompleteResponseString: a buffer that is not empty is sent as it is; *)
(* an empty one is filled with status line, header fields and what is left *)
(* to read of the body.  The status line and fields fit one piece.         *)
(***************************************************************************)
Fills(p) ==
    IF p.buffer # EmptyBuffer THEN { p.buffer }
    ELSE IF p.body = None THEN { [full |-> 0, rest |-> TRUE] }
    ELSE { b \in Buffers :
              /\ b # EmptyBuffer
              /\ b.full + p.sends < MaxSends
              /\ "exact" \notin Situations => b.rest }

(* The client receives a piece: the first of a reply, or more of the last. *)
Delivered(p, whole) ==
    IF p.buffer = EmptyBuffer
       THEN Append(wire, [code |-> p.code, body |-> p.body, whole |-> whole])
       ELSE [wire EXCEPT ![Len(wire)].whole = whole]

(* 100 (Continue): a fresh Response object is made for the final reply. *)
SendInterim ==
    /\ response.code = 100
    /\ response' = NewResponse
    /\ wire' = Delivered(response, TRUE)
    /\ UNCHANGED state

(* Mutant: the whole buffer is cleared, and filled anew for the next piece. *)
SendFullPieceClearing(b) ==
    /\ response.code # 100
    /\ b.full > 0
    /\ response' = [response EXCEPT !.buffer = EmptyBuffer, !.body = None, !.sends = @ + 1]
    /\ wire' = Delivered(response, b.full = 1 /\ ~ b.rest)
    /\ UNCHANGED state

(* BUFFER_SIZE bytes were sent, and are erased from the buffer. *)
SendFullPiece(b) ==
    /\ response.code # 100
    /\ b.full > 0
    /\ response' = [response EXCEPT !.buffer = [b EXCEPT !.full = @ - 1],
                                    !.body = None, !.sends = @ + 1]
    /\ wire' = Delivered(response, b.full = 1 /\ ~ b.rest)
    /\ UNCHANGED state

(* Mutant: the size of what was sent is not compared with BUFFER_SIZE. *)
SendAnyPiece(b) ==
    /\ response.code # 100
    /\ response' = [response EXCEPT !.buffer = EmptyBuffer, !.body = None]
    /\ wire' = Delivered(response, b.full = 0)
    /\ state' = "Done"

(* Mutant: a fresh Response is made, and the connection kept alive. *)
SendLastPieceAlive(b) ==
    /\ response.code # 100
    /\ b.full = 0
    /\ response' = NewResponse
    /\ wire' = Delivered(response, TRUE)
    /\ UNCHANGED state

(* Fewer bytes were sent: the buffer is cleared, and the reply is done. *)
SendLastPiece(b) ==
    /\ response.code # 100
    /\ b.full = 0 \/ "short" \in Situations
    /\ response' = [response EXCEPT !.buffer = EmptyBuffer, !.body = None]
    /\ \E cut \in IF "short" \in Situations THEN {b.full > 0, TRUE} ELSE {FALSE} :
          wire' = Delivered(response, ~ cut)
    /\ state' = "Done"

(***************************************************************************)
(* Dispatch, which does nothing while no reply is formed.  What happens    *)
(* when send() fails is the event loop's concern.                          *)
(***************************************************************************)
Send == \E b \in Fills(response) :
           SendInterim \/ SendFullPiece(b) \/ SendLastPiece(b)

Dispatch ==
    /\ Live
    /\ \/ response.complete /\ Send
       \/ ~ response.complete /\ UNCHANGED << state, response, wire >>
    /\ UNCHANGED << closing, request, executed, receives, waits >>

(***************************************************************************)
(* HandleTimeout, called by each turn of the event loop that finds the     *)
(* timer expired.                                                          *)
(***************************************************************************)
HandleTimeout ==
    /\ Live
    /\ waits < MaxWaits
    /\ waits' = waits + 1
    /\ IF state = "Start"
          THEN closing' = TRUE /\ UNCHANGED << request, response >>
          ELSE LET r == [request EXCEPT !.code = IF state = "CGI" THEN 504 ELSE 408]
               IN  /\ request'  = r
                   /\ response' = HandleError(response, r)
                   /\ UNCHANGED closing
    /\ UNCHANGED << state, executed, wire, receives >>

(* The event loop deletes the connection. *)
Closed == ~ Live /\ UNCHANGED vars

Next == Receive \/ Dispatch \/ HandleTimeout \/ Closed

Spec == Init /\ [][Next]_vars

-----------------------------------------------------------------------------
(* What the state is made of, and what the class promises. *)

(* Every variable has its type. *)
TypeOK ==
    /\ state    \in States
    /\ closing  \in BOOLEAN
    /\ request  \in Requests
    /\ response \in Responses
    /\ executed \in 0 .. MaxReceives
    /\ wire     \in Seq(Wire)
    /\ receives \in 0 .. MaxReceives
    /\ waits    \in 0 .. MaxWaits

(* The connection as the event loop sees it. *)
ReplySeen(p) ==
    IF ~ p.complete THEN "none" ELSE IF p.code = 100 THEN "continue" ELSE "final"

Lifecycle == INSTANCE ConnectionSpec WITH
    connection <- [state |-> state, reply |-> ReplySeen(response), sends |-> response.sends]

(***************************************************************************)
(* Every call of the class changes the connection in a way the event loop  *)
(* is prepared for: the detailed connection implements the abstract one.   *)
(***************************************************************************)
ImplementsLifecycle == Lifecycle!Spec

-----------------------------------------------------------------------------

Final(reply) == reply.code # 100

(***************************************************************************)
(* The status a client receives and the body that comes with it belong     *)
(* together: an error page comes under the status of its error, and an     *)
(* error status with no other body than its page.                          *)
(***************************************************************************)
StatusMatchesBody ==
    \A i \in 1 .. Len(wire) :
       /\ wire[i].body \in ErrorStatuses => wire[i].code = wire[i].body
       /\ wire[i].code \in ErrorStatuses => wire[i].body \in {None, wire[i].code}

(***************************************************************************)
(* They do in each connection that met no timeout and no Expect header,    *)
(* whatever the request addresses and however its input is cut up.         *)
(***************************************************************************)
StatusMatchesBodyInTurn ==
    waits = 0 /\ ~ request.expect => StatusMatchesBody

(* A request is carried out at most once, however its input is cut up. *)
ExecutedOnce == executed <= 1

(* A client receives at most one final status line on its connection. *)
OneFinalReply ==
    \A i, j \in 1 .. Len(wire) : Final(wire[i]) /\ Final(wire[j]) => i = j

(* A connection that may be closed has delivered a final reply, in full. *)
DoneMeansDelivered ==
    state = "Done" =>
       /\ wire # << >>
       /\ Final(Last(wire))
       /\ Last(wire).whole

(***************************************************************************)
(* Interim replies come before the final one, and only if the client asked *)
(* for them.                                                               *)
(***************************************************************************)
InterimFirst ==
    /\ \A i, j \in 1 .. Len(wire) : i < j /\ Final(wire[i]) => Final(wire[j])
    /\ \A i \in 1 .. Len(wire) : ~ Final(wire[i]) => request.expect

(***************************************************************************)
(* Once the reply to a request is that it failed, the request is not       *)
(* carried out, whatever is received later.  (One for a CGI program is:    *)
(* only HandleMethod looks at the status of the request; and CheckStatus   *)
(* replaces that status by 100 when an Expect header is still unanswered.) *)
(***************************************************************************)
ErrorsAreNotExecuted ==
    [][ request'.target # "cgi" /\ ~ request'.expect /\ executed' > executed
           => response.code \notin ErrorStatuses ]_vars
=============================================================================
