------------------------------ MODULE MessageBody ------------------------------
(***************************************************************************)
(* How a Request takes in its message body: Request::Parse and the states  *)
(* of RequestParser from the end of the header section on, with a client   *)
(* that sends one well-formed message, cut into pieces as it pleases.      *)
(*                                                                         *)
(* The header section arrives in the first piece, with none, some or all   *)
(* of the message behind it; its own parsing is not part of this module.   *)
(***************************************************************************)
EXTENDS ChunkedParser

CONSTANTS
    Messages,       \* the messages a client may send, see Message
    ConfigMaxBody   \* client_max_body_size of the target, in bytes

-----------------------------------------------------------------------------
(* The client: a message of RFC 7230, in either framing. *)

Hex(n) ==
    IF n < 16 THEN << HexDigits[n + 1] >>
              ELSE << HexDigits[(n \div 16) + 1], HexDigits[(n % 16) + 1] >>

CRLF == << "CR", "LF" >>

(* Chunks, each with the extension ext, then the last chunk and the trailer. *)
Chunked(chunks, ext, trailer) ==
    FlattenSeq([i \in DOMAIN chunks |->
                   Hex(Len(chunks[i])) \o ext \o CRLF \o chunks[i] \o CRLF])
       \o << "0" >> \o ext \o CRLF
       \o FlattenSeq([i \in DOMAIN trailer |-> << trailer[i] >> \o CRLF])
       \o CRLF

ChunkedMessage(chunks, ext, trailer, expect) ==
    [ framing |-> "chunked", data |-> FlattenSeq(chunks), expect |-> expect,
      chunks |-> chunks, ext |-> ext, trailer |-> trailer,
      wire |-> Chunked(chunks, ext, trailer) ]

MessageOfLength(data, expect) ==
    [ framing |-> "length", data |-> data, expect |-> expect,
      chunks |-> << >>, ext |-> << >>, trailer |-> << >>, wire |-> data ]

(***************************************************************************)
(* The extension of a chunk is a line of text, and within the limit        *)
(* wherever it is cut: the '\0' of a piece that ends there counts too.     *)
(***************************************************************************)
IsExtension(ext) ==
    /\ ext \in Seq(STRING) /\ "LF" \notin ToSet(ext)
    /\ ext # << >> => ext[1] = ";" /\ 2 * Len(ext) < MaxChunkExt

(* No chunk is longer than what two digits can say, see Hex. *)
IsMessage(m) ==
    /\ "NUL" \notin ToSet(m.data)
    /\ IF m.framing = "length"
          THEN m = MessageOfLength(m.data, m.expect) /\ m.data \in Seq(STRING)
          ELSE /\ m = ChunkedMessage(m.chunks, m.ext, m.trailer, m.expect)
               /\ m.chunks \in Seq(Seq(STRING))
               /\ \A i \in DOMAIN m.chunks : Len(m.chunks[i]) \in 1 .. 255
               /\ IsExtension(m.ext) /\ m.trailer \in Seq({"field"})

ASSUME BodyLimitAssumption == ConfigMaxBody \in Nat
ASSUME MessagesAssumption  == \A m \in Messages : IsMessage(m)

-----------------------------------------------------------------------------

VARIABLES
    message,    \* the message the client sends
    received,   \* how much of it was received
    request     \* the Request

vars == << message, received, request >>

(***************************************************************************)
(* cur_state is that of RequestParser, parser its ChunkedParser with the   *)
(* message body; buf what was received and not parsed without an          *)
(* exception; begun tells whether msg_bytes_read is more than 0.           *)
(***************************************************************************)
NewRequest ==
    [ cur_state |-> "HeaderDone", parser |-> NewParser, buf |-> << >>,
      begun |-> FALSE, status |-> "Incomplete", code |-> 0 ]

Init ==
    /\ message \in Messages
    /\ received = 0
    /\ request = NewRequest

-----------------------------------------------------------------------------
(* RequestParser.  An exception is the field error of the parser. *)

Failed(r) == r.parser.error # NoError

Fail(r, code) == [r EXCEPT !.parser = Throw(@, code)]

(* Mutant: the length is not compared with the limit. *)
HeaderDoneHandlerUnlimited(r, m) ==
    LET q == IF m.expect THEN [r EXCEPT !.status = "Expect"] ELSE r
    IN  CASE m.framing = "chunked" -> [q EXCEPT !.cur_state = "Chunked"]
          [] m.framing = "length" /\ m.data = << >> -> [q EXCEPT !.cur_state = "Done"]
          [] OTHER -> [q EXCEPT !.cur_state = "MsgBody"]

(***************************************************************************)
(* HeaderDoneHandler, which calls the RequestValidator.  Only the headers  *)
(* of the message are looked at: Expect, Transfer-Encoding, Content-Length.*)
(***************************************************************************)
HeaderDoneHandler(r, m) ==
    LET q == IF m.expect THEN [r EXCEPT !.status = "Expect"] ELSE r
    IN  CASE m.framing = "chunked" -> [q EXCEPT !.cur_state = "Chunked"]
          [] m.framing = "length" /\ Len(m.data) > ConfigMaxBody -> Fail(q, 413)
          [] m.framing = "length" /\ m.data = << >> -> [q EXCEPT !.cur_state = "Done"]
          [] OTHER -> [q EXCEPT !.cur_state = "MsgBody"]

MessageBodyHandler(r, m, input) ==
    LET body == r.parser.body \o SubSeq(input, 1, Min({Len(input), Len(m.data)}))
    IN  [r EXCEPT !.parser.body = body,
                  !.begun = body # << >>,
                  !.cur_state = IF Len(body) = Len(m.data) THEN "Done" ELSE @]

Ended(p) == p.error = NoError /\ p.cur_state = "Done"

(* What was parsed, and whether anything was read (msg_bytes_read). *)
ChunksParsed(r, parser, read) ==
    [r EXCEPT !.parser = parser,
              !.begun = @ \/ (read /\ parser.error = NoError),
              !.cur_state = IF Ended(parser) THEN "Done" ELSE @]

(* HandleEndOfChunkedMessage only changes header fields. *)
ChunkedHandler(r, input) == ChunksParsed(r, Parse(r.parser, input), input # << >>)

ParseMessage(r, m, input) ==
    CASE Failed(r)                 -> r
      [] r.cur_state = "MsgBody"   -> MessageBodyHandler(r, m, input)
      [] r.cur_state = "Chunked"   -> ChunkedHandler(r, input)
      [] OTHER                     -> r

(* One piece, behind the header section if that is still to be looked at. *)
ParseRequest(r, m, input) ==
    ParseMessage(IF r.cur_state = "HeaderDone" THEN HeaderDoneHandler(r, m) ELSE r,
                 m, input)

-----------------------------------------------------------------------------
(* Request. *)

CheckStatus(r) ==
    CASE r.cur_state = "Done" -> [r EXCEPT !.status = "Complete"]
      [] r.cur_state # "Done" /\ r.status = "Expect" ->
            IF r.begun THEN [r EXCEPT !.status = "Incomplete"]
                       ELSE [r EXCEPT !.code = 100]
      [] OTHER -> r

(* An exception leaves the buffer as it is, else it is left with this. *)
AfterParse(r, input, buf) ==
    IF Failed(r)
       THEN [r EXCEPT !.buf = input, !.status = "Bad", !.code = r.parser.error]
       ELSE CheckStatus([r EXCEPT !.buf = buf])

ParseAll(r, m, input, buf) ==
    IF ~ CanParse(r.parser)
       THEN [r EXCEPT !.status = "Undefined"]
       ELSE AfterParse(ParseRequest([r EXCEPT !.parser.error = NoError], m, input),
                       input, buf)

(***************************************************************************)
(* Request::Parse.  After an exception the buffer is not cleared, and is   *)
(* parsed again from its beginning with the next piece.  (If the exception *)
(* came in the first piece the beginning is the header section, left out   *)
(* of buf: a parser that stopped at a limit throws again at any character.)*)
(***************************************************************************)
RequestParse(r, m, piece) == ParseAll(r, m, r.buf \o piece, << >>)

-----------------------------------------------------------------------------

(***************************************************************************)
(* A piece arrives.  The first may end with the header section; a client   *)
(* goes on to send its message when the server has rejected it.            *)
(***************************************************************************)
Receive(n) ==
    /\ request.status # "Undefined"
    /\ n > 0 \/ request = NewRequest
    /\ received + n <= Len(message.wire)
    /\ received' = received + n
    /\ request' = RequestParse(request, message,
                               SubSeq(message.wire, received + 1, received + n))
    /\ UNCHANGED message

Next == \E n \in 0 .. Len(message.wire) : Receive(n)

Spec == Init /\ [][Next]_vars

-----------------------------------------------------------------------------

AllReceived == received = Len(message.wire)

Limit == IF message.framing = "length" THEN ConfigMaxBody ELSE DefaultMaxBody

(* The data of chunks is also read for its line endings and high octets. *)
DataIsTaken ==
    message.framing # "length" => ToSet(message.data) \cap {"CR", "LF", "high"} = {}

(* A size has no letter behind its first digit: SizeHandler takes none there. *)
SizesAreTaken ==
    \A i \in DOMAIN message.chunks :
       Len(message.chunks[i]) < 16 \/ Len(message.chunks[i]) % 16 < 10

Plain == DataIsTaken /\ SizesAreTaken

(* What the parser has of the message: its body, and the data not yet saved. *)
Taken ==
    request.parser.body
       \o IF request.parser.cur_state = "Data" THEN request.parser.buffer ELSE << >>

(***************************************************************************)
(* However a message is cut that is sent with its length, or in chunks of  *)
(* sizes that are understood, without line endings or octets from 0x80 on  *)
(* in their data, at any time what was taken of it is the beginning of the *)
(* data: no piece is lost, taken twice or out of order.  The request is    *)
(* complete when all of it was received, no sooner, and has exactly the    *)
(* data for a body.                                                        *)
(***************************************************************************)
PlainDataIsUnderstood ==
    Plain =>
       /\ IsPrefix(Taken, message.data)
       /\ request.status = "Complete" => AllReceived
       /\ Len(message.data) <= Limit /\ AllReceived /\ request # NewRequest =>
             request.status = "Complete" /\ request.parser.body = message.data

(***************************************************************************)
(* A message of a length beyond the limit of its target is never complete, *)
(* and none of it is kept.                                                 *)
(***************************************************************************)
OverlongIsRejected ==
    message.framing = "length" /\ Len(message.data) > ConfigMaxBody =>
       request.status # "Complete" /\ request.parser.body = << >>
=============================================================================
