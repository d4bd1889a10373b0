------------------------------ MODULE RequestHead ------------------------------
(***************************************************************************)
(* From the first octet of a request to the end of its header section:     *)
(* Request::Parse with RequestParser, RequestLineParser, HeaderFieldParser *)
(* and RequestValidator, and a client that sends a head in pieces.         *)
(*                                                                         *)
(* The Request keeps what it receives until it sees an empty line, and     *)
(* then parses all of it at once.  This module ends where the head is      *)
(* accepted or rejected; MessageBody goes on from there.                   *)
(***************************************************************************)
EXTENDS RequestTarget, UriHost

CONSTANTS
    Heads,          \* what clients may send, see Wire
    MaxHeaderSize,  \* MAX_HEADER_SIZE
    MaxSizeT,       \* the largest value of a size_t
    AllowedMethods, \* what the location of the target allows
    ConfigMaxBody   \* and its client_max_body_size, in bytes

(* No line endings but those of the head. *)
ASSUME HeadsAssumption ==
    \A h \in Heads :
       /\ {"CR", "LF"} \cap ToSet(h.method \o h.target \o h.version) = {}
       /\ \A i \in DOMAIN h.fields :
             {"CR", "LF"} \cap ToSet(h.fields[i].name \o h.fields[i].value) = {}

ASSUME HeadLimitsAssumption ==
    MaxHeaderSize \in Nat /\ MaxSizeT \in Nat /\ ConfigMaxBody \in Nat

-----------------------------------------------------------------------------
(***************************************************************************)
(* The client.  A head has texts for its method, target and version, a     *)
(* sequence of fields with name and value, the line ending it uses, extra, *)
(* which the client sends behind the head, and whether it sends everything *)
(* in one piece.  Behind the head of a chunked message there is no extra:  *)
(* how such a message is read is the matter of MessageBody.                *)
(***************************************************************************)
HeadText(h) ==
    h.method \o << "SP" >> \o h.target
       \o (IF h.version = << >> THEN << >> ELSE << "SP" >> \o h.version) \o h.eol
       \o FlattenSeq([i \in DOMAIN h.fields |->
                         h.fields[i].name \o << ":", "SP" >> \o h.fields[i].value \o h.eol])
       \o h.eol

Wire(h) == HeadText(h) \o h.extra

-----------------------------------------------------------------------------

VARIABLES
    head,       \* what the client sends
    received,   \* how many characters of it were received
    request     \* the Request

vars == << head, received, request >>

NewFieldParser ==
    [ cur_state |-> "Start", buffer |-> << >>, skip_char |-> FALSE, cur_field |-> << >>,
      bytes_read |-> 0, pos |-> 0, fields |-> << >>, error |-> 0 ]

NewURI == [ host |-> << >>, port |-> << >>, path |-> << >>, query |-> << >> ]

NewRequest ==
    [ cur_state |-> "RequestLine", line |-> "Start", parser |-> NewFieldParser, buf |-> << >>,
      method |-> << >>, uri |-> NewURI, body |-> << >>,
      expect |-> FALSE, status |-> "Incomplete", code |-> 0, error |-> 0 ]

Init ==
    /\ head \in Heads
    /\ received = 0
    /\ request = NewRequest

Reject(r, code) == [r EXCEPT !.error = code]

-----------------------------------------------------------------------------
(* URI. *)

Kept(old, new) == IF new = << >> THEN old ELSE new

(* ParseInput(Part::Host): the URI and the error of the parser. *)
HostParsed(r, p) ==
    [r EXCEPT !.error = p.error,
              !.uri.host = Kept(@, p.host), !.uri.port = Kept(@, p.port)]

TargetParsed(r, p) ==
    [r EXCEPT !.error = p.error, !.uri.path = p.path, !.uri.query = p.query]

(* The versions of HTTP are the words with a slash in them. *)
Versions == {"HTTP/1.1", "HTTP/1.0", "HTTP/1.x", "XTTP/1.1"}

HasSlash(text) == ToSet(text) \cap ({"/"} \cup Versions) # {}

(***************************************************************************)
(* operator=(std::string const&), which clears the URI, and ParseInput: a  *)
(* target without a slash is taken for a host.                             *)
(***************************************************************************)
SetTarget(r, text) ==
    LET q == [r EXCEPT !.uri = NewURI]
    IN  CASE ~ HasSlash(text) -> HostParsed(q, ParseHost(text))
          [] text # << >> /\ Head(text) = "/" -> TargetParsed(q, ParseTarget(text))
          [] OTHER -> Reject(q, 400)

SetTargetHost(r, text) == HostParsed(r, ParseHost(text))

-----------------------------------------------------------------------------
(* RequestLineParser, on a line with its line ending. *)

Methods == { << "GET" >>, << "POST" >>, << "DELETE" >> }

BeginWithH == Versions \ {"XTTP/1.1"}
EndsInDigit(c) == IsDigit(c) \/ c \in Versions \ {"HTTP/1.x"}

(* GetEndPos: where c is from start on, 0 if nowhere or at start itself. *)
GetEndPos(s, c, start) ==
    LET found == { i \in start + 1 .. Len(s) : s[i] = c }
    IN  IF found = {} \/ At(s, start) = c THEN 0 ELSE Min(found)

(***************************************************************************)
(* The position of a '\r', which is relative to the version, is compared   *)
(* with that of the version itself: a '\r' as far behind the beginning of  *)
(* the version as that is in the line is not seen.                         *)
(***************************************************************************)
GetCRLFPos(line, start) ==
    LET lf == GetEndPos(line, "LF", start)
        cr == GetEndPos(line, "CR", start)
        unseen == TextSize(SubSeq(line, start, cr - 1)) = TextSize(SubSeq(line, 1, start - 1))
    IN  IF cr # 0 /\ lf = cr + 1 /\ ~ unseen THEN cr ELSE lf

VersionHandler(r, version) ==
    CASE Head(version) \notin BeginWithH \/ ~ EndsInDigit(Last(version)) ->
            Reject([r EXCEPT !.line = "Invalid"], 400)
      [] Head(version) \in BeginWithH /\ EndsInDigit(Last(version))
            /\ version # << "HTTP/1.1" >> -> Reject(r, 505)
      [] OTHER -> [r EXCEPT !.line = "Done"]

AfterTarget(r, line, start, end) ==
    CASE r.error # 0 -> r
      [] r.error = 0 /\ end = 0 -> Reject([r EXCEPT !.line = "Version"], 400)
      [] OTHER -> VersionHandler([r EXCEPT !.line = "Version"], SubSeq(line, start, end - 1))

TargetHandler(r, line, start, end) ==
    IF end = 0
       THEN Reject(r, 400)
       ELSE AfterTarget(SetTarget(r, SubSeq(line, start, end - 1)), line, end + 1,
                        GetCRLFPos(line, end + 1))

MethodHandler(r, line, end) ==
    CASE end = 0 -> Reject(r, 400)
      [] end # 0 /\ SubSeq(line, 1, end - 1) \notin Methods -> Reject(r, 501)
      [] OTHER -> TargetHandler([r EXCEPT !.method = SubSeq(line, 1, end - 1), !.line = "Target"],
                                line, end + 1, GetEndPos(line, "SP", end + 1))

(* A handler beyond the end of a table is called: anything may happen. *)
Undefined(r) == [r EXCEPT !.status = "Undefined"]

(***************************************************************************)
(* The parser goes on in the state it was left in, at the beginning of the *)
(* line.                                                                   *)
(***************************************************************************)
ParseRequestLine(r, line) ==
    CASE r.line = "Start" /\ ~ IsTChar(Head(line)) -> Reject([r EXCEPT !.line = "Invalid"], 400)
      [] r.line = "Start" /\ IsTChar(Head(line)) ->
            MethodHandler([r EXCEPT !.line = "Method"], line, GetEndPos(line, "SP", 1))
      [] r.line = "Method"  -> MethodHandler(r, line, GetEndPos(line, "SP", 1))
      [] r.line = "Target"  -> TargetHandler(r, line, 1, GetEndPos(line, "SP", 1))
      [] r.line = "Version" -> AfterTarget(r, line, 1, GetCRLFPos(line, 1))
      [] r.line = "Invalid" -> Undefined(r)

-----------------------------------------------------------------------------
(* HeaderFieldParser; fields is the map of the HTTPMessage. *)

(***************************************************************************)
(* The value is appended to the one the field has, but insert() leaves an  *)
(* element of the map as it is: the first value stays.                     *)
(***************************************************************************)
SetHeaderField(fields, name, value) ==
    IF name \in DOMAIN fields THEN fields ELSE fields @@ (name :> value)

TrimmedRight(s) ==
    LET solid == { i \in DOMAIN s : ~ IsWhitespace(s[i]) }
    IN  SubSeq(s, 1, IF solid = {} THEN 1 ELSE Max(solid))

PushFieldValue(p) ==
    [p EXCEPT !.fields = SetHeaderField(@, p.cur_field, TrimmedRight(p.buffer)),
              !.buffer = << >>]

FieldGoto(p, s, skip) == [p EXCEPT !.cur_state = s, !.skip_char = skip]

HandleCRLF(p, c, peek, next) ==
    CASE c = "CR" /\ peek # "LF" -> FieldGoto(p, "Invalid", p.skip_char)
      [] OTHER -> FieldGoto(IF p.buffer = << >> THEN p ELSE PushFieldValue(p), next, TRUE)

(* Mutant: an empty line does not end the fields. *)
FieldStartOn(p, c, peek) ==
    CASE c = "NUL"  -> FieldGoto(p, "Done", FALSE)
      [] c = "LF"   -> HandleCRLF(p, c, peek, "Start")
      [] c = "CR"   -> HandleCRLF(p, c, peek, "Start")
      [] IsTChar(c) -> FieldGoto(p, "Name", FALSE)
      [] OTHER      -> FieldGoto(p, "Invalid", FALSE)

FieldStart(p, c, peek) ==
    CASE c = "NUL"  -> FieldGoto(p, "Done", FALSE)
      [] c = "LF"   -> [HandleCRLF(p, c, peek, "Done") EXCEPT !.pos = @ + 1]
      [] c = "CR"   -> HandleCRLF(p, c, peek, "Start")
      [] IsTChar(c) -> FieldGoto(p, "Name", FALSE)
      [] OTHER      -> FieldGoto(p, "Invalid", FALSE)

NameHandler(p, c) ==
    CASE c = ":" -> [FieldGoto(p, "ValueStart", TRUE) EXCEPT
                        !.cur_field = p.buffer, !.buffer = << >>]
      [] c = "NUL" \/ IsTChar(c) -> FieldGoto(p, "Name", p.skip_char)
      [] OTHER   -> FieldGoto(p, "Invalid", p.skip_char)

(* Anything but white space begins the value, a line ending too. *)
ValueStartHandler(p, c) ==
    IF IsWhitespace(c) THEN FieldGoto(p, "ValueStart", TRUE) ELSE FieldGoto(p, "Value", FALSE)

ValueHandler(p, c, peek) ==
    CASE c = "NUL" -> FieldGoto(PushFieldValue(p), "Done", p.skip_char)
      [] c = "LF"  -> HandleCRLF(p, c, peek, "Start")
      [] c = "CR"  -> HandleCRLF(p, c, peek, "Value")
      [] IsVChar(c) \/ IsWhitespace(c) -> FieldGoto(p, "Value", p.skip_char)
      [] OTHER     -> FieldGoto(p, "Invalid", p.skip_char)

TooLarge(p) ==
    \/ p.bytes_read > MaxHeaderSize
    \/ p.cur_state \in {"Name", "Value"} /\ TextSize(p.buffer) > MaxHeaderSize

FieldNextState(p, c, peek) ==
    CASE TooLarge(p) -> Reject(p, 431)
      [] ~ TooLarge(p) /\ p.cur_state = "Start" -> FieldStart([p EXCEPT !.buffer = << >>], c, peek)
      [] ~ TooLarge(p) /\ p.cur_state = "Name"  -> NameHandler(p, c)
      [] ~ TooLarge(p) /\ p.cur_state = "ValueStart" -> ValueStartHandler(p, c)
      [] ~ TooLarge(p) /\ p.cur_state = "Value" -> ValueHandler(p, c, peek)

AfterFieldState(p, c) ==
    CASE p.error # 0 \/ p.cur_state = "Done" -> p
      [] p.cur_state = "Invalid" -> Reject(p, 400)
      [] OTHER -> [p EXCEPT !.pos = @ + 1,
                            !.buffer = IF p.skip_char THEN @ ELSE Append(@, c)]

FieldTurn(p, c, peek) ==
    IF p.error # 0 \/ p.cur_state = "Done"
       THEN p
       ELSE AfterFieldState(
               FieldNextState([p EXCEPT !.bytes_read = IF c = "NUL" THEN @ ELSE @ + Size(c)],
                              c, peek), c)

ParseFields(p, input) ==
    FoldLeft(LAMBDA q, i : FieldTurn(q, At(input, i), At(input, i + 1)),
             [p EXCEPT !.pos = 0, !.skip_char = FALSE],
             [i \in 1 .. Len(input) + 1 |-> i])

-----------------------------------------------------------------------------
(***************************************************************************)
(* RequestValidator.  Its checks in their order, each with the status of   *)
(* its exception: the first that applies is thrown.                        *)
(***************************************************************************)
HostName         == << "Host" >>
Expect           == << "Expect" >>
ContentEncoding  == << "Content-Encoding" >>
TransferEncoding == << "Transfer-Encoding" >>
ContentLength    == << "Content-Length" >>

Has(f, name) == name \in DOMAIN f
HasOther(f, name, value) == Has(f, name) /\ f[name] # << value >>

Check(code, applies) == [code |-> code, applies |-> applies]

FirstOf(checks) ==
    LET i == SelectInSeq(checks, LAMBDA c : c.applies) IN IF i = 0 THEN 0 ELSE checks[i].code

HostChecks(f) ==
    << Check(400, ~ Has(f, HostName)),
       Check(400, Has(f, HostName) /\ {"SP", ","} \cap ToSet(f[HostName]) # {}) >>

PreConfigChecks(f, method) ==
    << Check(417, HasOther(f, Expect, "100-continue")),
       Check(415, Has(f, ContentEncoding)),
       Check(400, Has(f, TransferEncoding) /\ Has(f, ContentLength)),
       Check(501, HasOther(f, TransferEncoding, "chunked")),
       Check(400, Has(f, TransferEncoding) /\ method # << "POST" >>) >>

NoNumber(f) == Has(f, ContentLength) /\ ~ IsDigit(Head(f[ContentLength]))
IsLength(f) == Has(f, ContentLength) /\ IsValidString(IsDigit, f[ContentLength], {})
LengthOf(f) == IF IsLength(f) THEN Decimal(f[ContentLength]) ELSE 0

(* Mutant: the method is not looked at. *)
PostConfigChecksAnyMethod(f, method) ==
    << Check(400, Has(f, ContentLength) /\ ~ IsLength(f)),
       Check(StdException, NoNumber(f) \/ LengthOf(f) > MaxSizeT),
       Check(413, LengthOf(f) > ConfigMaxBody),
       Check(405, method \notin AllowedMethods) >>

(* Mutant: the length is not looked at before it is converted. *)
PostConfigChecksAnyLength(f, method) ==
    << Check(StdException, NoNumber(f) \/ LengthOf(f) > MaxSizeT),
       Check(413, LengthOf(f) > ConfigMaxBody),
       Check(400, LengthOf(f) # 0 /\ method # << "POST" >>),
       Check(405, method \notin AllowedMethods) >>

(* std::stoull throws without a number, and for one beyond a size_t. *)
PostConfigChecks(f, method) ==
    << Check(400, Has(f, ContentLength) /\ ~ IsLength(f)),
       Check(StdException, NoNumber(f) \/ LengthOf(f) > MaxSizeT),
       Check(413, LengthOf(f) > ConfigMaxBody),
       Check(400, LengthOf(f) # 0 /\ method # << "POST" >>),
       Check(405, method \notin AllowedMethods) >>

Framing(f) ==
    CASE Has(f, TransferEncoding) -> "Chunked"
      [] LengthOf(f) # 0          -> "MsgBody"
      [] OTHER                    -> "Done"

(* Mutant: the state is advanced before the fields are checked. *)
ValidatedOn(r, f) ==
    LET error == FirstOf(PreConfigChecks(f, r.method) \o PostConfigChecks(f, r.method))
    IN  [r EXCEPT !.error = error, !.expect = Has(f, Expect), !.cur_state = Framing(f)]

Validated(r, f) ==
    LET error == FirstOf(PreConfigChecks(f, r.method) \o PostConfigChecks(f, r.method))
    IN  [r EXCEPT !.error = error, !.expect = Has(f, Expect),
                  !.cur_state = IF error = 0 THEN Framing(f) ELSE @]

Process(r, f) ==
    CASE FirstOf(HostChecks(f)) # 0 -> Reject(r, FirstOf(HostChecks(f)))
      [] OTHER -> LET q == SetTargetHost(r, f[HostName])
                  IN  IF q.error # 0 THEN q ELSE Validated(q, f)

-----------------------------------------------------------------------------
(* RequestParser, from a state to the next as long as there is input. *)

(* MessageBodyHandler; a chunked message is left to MessageBody. *)
MessageBodyHandler(r, rest) ==
    LET n == LengthOf(r.parser.fields)
    IN  IF r.cur_state = "MsgBody"
           THEN [r EXCEPT !.body = SubSeq(rest, 1, Min({n, Len(rest)})),
                          !.cur_state = IF Len(rest) >= n THEN "Done" ELSE "MsgBody"]
           ELSE r

(***************************************************************************)
(* AfterParseCheck.  rest is what is behind the head: one octet of it is   *)
(* not noticed.                                                            *)
(***************************************************************************)
AfterParseCheck(r, rest) ==
    IF r.cur_state = "Done" /\ TextSize(rest) > 1 /\ ~ Has(r.parser.fields, ContentLength)
       THEN Reject(r, 411)
       ELSE r

HeaderDoneHandler(r, rest) ==
    IF r.error # 0 THEN r ELSE AfterParseCheck(MessageBodyHandler(r, rest), rest)

HeaderFieldHandler(r, input) ==
    LET p == ParseFields(r.parser, input)
        q == [r EXCEPT !.parser = p, !.error = p.error, !.cur_state = "HeaderField"]
    IN  IF p.error = 0 /\ p.cur_state = "Done"
           THEN HeaderDoneHandler(Process(q, p.fields), SubSeq(input, p.pos + 1, Len(input)))
           ELSE q

RequestLineHandler(r, input, end) ==
    LET q == ParseRequestLine(r, SubSeq(input, 1, end))
    IN  IF q.line # "Done" THEN q ELSE HeaderFieldHandler(q, SubSeq(input, end + 1, Len(input)))

(***************************************************************************)
(* Each parser goes on in the state it was left in, and at the beginning   *)
(* of the input: after a rejection that is all of it, again.               *)
(***************************************************************************)
ParseHead(r, input) ==
    CASE r.cur_state = "RequestLine" ->
            RequestLineHandler(r, input, SelectInSeq(input, LAMBDA c : c = "LF"))
      [] r.cur_state = "HeaderField" /\ r.parser.cur_state = "Invalid" -> Undefined(r)
      [] r.cur_state = "HeaderField" /\ r.parser.cur_state = "Done" ->
            HeaderDoneHandler(Process(r, r.parser.fields), input)
      [] r.cur_state = "HeaderField" /\ r.parser.cur_state \notin {"Invalid", "Done"} ->
            HeaderFieldHandler(r, input)
      [] OTHER -> AfterParseCheck(r, input)

-----------------------------------------------------------------------------
(* Request::Parse. *)

(* Mutant: an empty line has no carriage return. *)
CanParseLFOnly(buf) ==
    \E i \in 1 .. Len(buf) - 1 : buf[i] = "LF" /\ buf[i + 1] = "LF"

CanParse(buf) ==
    \E i \in 1 .. Len(buf) - 1 :
       buf[i] = "LF" /\ (buf[i + 1] = "LF" \/ (buf[i + 1] = "CR" /\ At(buf, i + 2) = "LF"))

CheckStatus(r) ==
    CASE r.cur_state = "Done" -> [r EXCEPT !.status = "Complete"]
      [] r.cur_state # "Done" /\ r.expect ->
            IF r.body # << >> THEN [r EXCEPT !.status = "Incomplete"]
                              ELSE [r EXCEPT !.status = "Expect", !.code = 100]
      [] OTHER -> r

(***************************************************************************)
(* An exception that is none of http leaves Parse, and the event loop.     *)
(* After any exception the input is kept.                                  *)
(***************************************************************************)
AfterParse(r) ==
    CASE r.status = "Undefined" -> r
      [] r.status # "Undefined" /\ r.error = 0 -> CheckStatus([r EXCEPT !.buf = << >>])
      [] r.status # "Undefined" /\ r.error = StdException -> [r EXCEPT !.status = "Escaped"]
      [] OTHER -> [r EXCEPT !.status = "Bad", !.code = r.error]

RequestParse(r, buf) ==
    LET q == [r EXCEPT !.buf = buf, !.error = 0, !.parser.error = 0]
    IN  IF CanParse(buf) THEN AfterParse(ParseHead(q, buf)) ELSE q

-----------------------------------------------------------------------------

Undecided == request.cur_state \in {"RequestLine", "HeaderField"} /\ request.status = "Incomplete"

(***************************************************************************)
(* A piece of n characters arrives; one that arrives after a rejection,    *)
(* before the connection is closed, is given to the Request as well.       *)
(***************************************************************************)
Receive(n) ==
    /\ Undecided \/ request.status = "Bad"
    /\ received' = received + n
    /\ request' = RequestParse(request, request.buf \o SubSeq(Wire(head), received + 1, received + n))
    /\ UNCHANGED head

Next ==
    \E n \in 1 .. Len(Wire(head)) - received :
       (head.whole => n = Len(Wire(head))) /\ Receive(n)

Spec == Init /\ [][Next]_vars

-----------------------------------------------------------------------------
(***************************************************************************)
(* What is promised: the grammars of RFC 7230 and RFC 3986, without any    *)
(* parser.                                                                 *)
(***************************************************************************)
WellEncoded(s, Class(_)) ==
    \A i \in DOMAIN s :
       IF s[i] = "%"
          THEN /\ IsHexDig(At(s, i + 1)) /\ IsHexDig(At(s, i + 2))
               /\ ~ IsLineEnd(ToUpper(At(s, i + 1)), ToUpper(At(s, i + 2)))
          ELSE Class(s[i])

Decoded(s) ==
    FlattenSeq([i \in DOMAIN s |->
        CASE s[i] = "%" -> << Octet(ToUpper(s[i + 1]), ToUpper(s[i + 2])) >>
          [] At(s, i - 1) = "%" \/ At(s, i - 2) = "%" -> << >>
          [] OTHER -> << s[i] >>])

Before(s, c) == IF c \in ToSet(s) THEN SubSeq(s, 1, SelectInSeq(s, LAMBDA d : d = c) - 1) ELSE s
After(s, c)  == SubSeq(s, Len(Before(s, c)) + 2, Len(s))

PathPart(t)  == Before(t, "?")
QueryPart(t) == IF After(t, "?") # << >> /\ Last(t) = "#" THEN Front(After(t, "?"))
                                                       ELSE After(t, "?")

IsOriginForm(t) ==
    /\ At(t, 1) = "/"
    /\ \A i \in 1 .. Len(PathPart(t)) - 1 : << t[i], t[i + 1] >> # << "/", "/" >>
    /\ WellEncoded(PathPart(t), LAMBDA c : c = "/" \/ IsPChar(c))
    /\ WellEncoded(QueryPart(t), LAMBDA c : c \in {"/", "?"} \/ IsPChar(c))

(* The digits of "10.1.2.3" in four groups. *)
IsQuad(t) ==
    \E i, j, k \in DOMAIN t :
       /\ i < j /\ j < k
       /\ { n \in DOMAIN t : t[n] = "." } = {i, j, k}
       /\ \A group \in { SubSeq(t, 1, i - 1), SubSeq(t, i + 1, j - 1),
                          SubSeq(t, j + 1, k - 1), SubSeq(t, k + 1, Len(t)) } :
             /\ Len(group) \in 1 .. 3
             /\ IsValidString(IsDigit, group, {})
             /\ Decimal(group) <= 255

(* A name is not empty: section 2.7.1 of RFC 7230. *)
IsRegName(t) ==
    /\ Before(t, ":") # << >>
    /\ WellEncoded(Before(t, ":"), IsUnreservedSubDelim)
    /\ IsValidString(IsDigit, After(t, ":"), {})

IsHost(t) == IF IsIPv4Format(t) THEN IsQuad(t) ELSE IsRegName(t)

(***************************************************************************)
(* Where the parsers are known to depart from the grammars: a target       *)
(* without a slash, which is taken for a host; a '?' behind a %HH, an      *)
(* encoded '?', a ':' behind a %HH, IP literals, and of addresses those    *)
(* with a port or a group of other than two or three digits.               *)
(***************************************************************************)
TakenForHost(t) == t # << >> /\ ~ HasSlash(t)

BehindPercent(s, c) == \E i \in DOMAIN s : s[i] = c /\ At(s, i - 3) = "%"

RegularTarget(t) ==
    /\ ~ TakenForHost(t)
    /\ ~ BehindPercent(t, "?")
    /\ \A i \in DOMAIN t : t[i] = "%" => << At(t, i + 1), At(t, i + 2) >> \notin { << "3", "F" >>, << "3", "f" >> }

RegularHost(t) ==
    IF IsIPv4Format(t)
       THEN /\ ":" \notin ToSet(t)
            /\ Len(Before(t, ".")) \in 2 .. 3 /\ Len(AfterLast(t, ".")) \in 1 .. 3
       ELSE t # << >> /\ Head(t) # "[" /\ ~ BehindPercent(t, ":")

(* A value does not begin or end with white space. *)
Trimmed(s) ==
    LET solid == { i \in DOMAIN s : ~ IsWhitespace(s[i]) }
    IN  IF solid = {} THEN << >> ELSE SubSeq(s, Min(solid), Max(solid))

HostsSent(h) ==
    { Trimmed(h.fields[i].value) : i \in { j \in DOMAIN h.fields : h.fields[j].name = HostName } }

(* What is read as a host, and an address without the digits of its last group. *)
HostsRead(h) == HostsSent(h) \cup { t \in {h.target} : TakenForHost(t) }

EndsInPeriod(t) ==
    /\ t # << >> /\ Last(t) = "."
    /\ IsIPv4Format(IF Head(t) = "[" THEN AfterLast(t, ":") ELSE t)

(* Where the line ending of the request line is not recognised. *)
RegularLine(h) == h.eol = << "LF" >> \/ TextSize(h.method \o h.target) + 2 # TextSize(h.version)

(* What begins with an H and ends in a digit is taken for a version. *)
RegularVersion(v) ==
    v = << >> \/ v[1] \notin BeginWithH \/ ~ EndsInDigit(Last(v)) \/ Len(v) = 1

(* A value begins with anything, a line ending too. *)
NoEmptyValue(h) == \A i \in DOMAIN h.fields : Trimmed(h.fields[i].value) # << >>

RegularValues(h) ==
    NoEmptyValue(h) /\ \A i \in DOMAIN h.fields : Head(Trimmed(h.fields[i].value)) \notin Controls

-----------------------------------------------------------------------------

(* The field that comes first gives its name a value. *)
Declared(h) ==
    [name \in { h.fields[i].name : i \in DOMAIN h.fields } |->
        Trimmed(h.fields[SelectInSeq(h.fields, LAMBDA f : f.name = name)].value)]

TooLong(h) ==
    TextSize(HeadText(h)) >
       MaxHeaderSize + TextSize(h.method \o h.target \o h.version \o h.eol) + 2

(* A name is a token, a value has visible characters and white space. *)
IllFormed(h) ==
    \E i \in DOMAIN h.fields :
       \/ h.fields[i].name = << >> \/ ~ IsValidString(IsTChar, h.fields[i].name, {})
       \/ ~ IsValidString(IsVChar, h.fields[i].value, Blanks)

(* Which of two faults of its fields is found first is left open. *)
Regular(h) ==
    /\ RegularLine(h) /\ RegularVersion(h.version) /\ RegularTarget(h.target)
    /\ RegularValues(h) /\ ~ (TooLong(h) /\ IllFormed(h))
    /\ \A t \in HostsSent(h) : RegularHost(t)

LineChecks(h) ==
    << Check(400, ~ IsTChar(Head(h.method))),
       Check(501, h.method \notin Methods),
       Check(400, h.version = << >>),
       Check(414, TextSize(h.target) > MaxUriSize),
       Check(400, ~ IsOriginForm(h.target)),
       Check(400, h.version \notin { << "HTTP/1.1" >>, << "HTTP/1.0" >> }),
       Check(505, h.version = << "HTTP/1.0" >>),
       Check(431, TooLong(h)),
       Check(400, IllFormed(h)) >>

Promised(h, f, seen) ==
    FirstOf(LineChecks(h) \o HostChecks(f)
               \o << Check(400, Has(f, HostName) /\ ~ IsHost(f[HostName])) >>
               \o PreConfigChecks(f, h.method) \o PostConfigChecks(f, h.method)
               \o << Check(411, Framing(f) = "Done" /\ seen > 1 /\ ~ Has(f, ContentLength)) >>)

HeadReceived == received >= Len(HeadText(head))
SeenBehind   == TextSize(SubSeq(head.extra, 1, received - Len(HeadText(head))))
Accepted     == HeadReceived /\ request.status \in {"Incomplete", "Expect", "Complete"}

(* What is known to go wrong after a rejection, see RejectionStands. *)
TwoWords(h) == h.version = << >> /\ h.target = << "HTTP/1.1" >>

(***************************************************************************)
(* However a head is cut into pieces, it is waited for to its end and then *)
(* decided at once: rejected with the status of the first rule it breaks,  *)
(* and accepted with exactly the fields it has, if it breaks none.         *)
(***************************************************************************)
HeadIsUnderstood ==
    [][Regular(head) /\ ~ HeadReceived =>
          IF HeadReceived'
             THEN /\ request'.error = Promised(head, Declared(head), SeenBehind')
                  /\ Accepted' => request'.parser.fields = Declared(head)
                                   /\ request'.method = head.method
             ELSE request' = [NewRequest EXCEPT !.buf = SubSeq(Wire(head), 1, received')]]_vars

(***************************************************************************)
(* A client that goes on sending after a rejection does not change it: the *)
(* request is never accepted, and if its line and the grammar of its       *)
(* fields were in order it is rejected with the same status again.  The    *)
(* exception is a request line of two words.                               *)
(***************************************************************************)
RejectionStands ==
    [][request.status = "Bad" /\ ~ TwoWords(head) =>
          /\ request'.status \in {"Bad", "Undefined"}
          /\ request.line = "Done" /\ request.parser.cur_state # "Invalid" =>
                request'.status = "Bad" /\ request'.code = request.code]_vars

(***************************************************************************)
(* An accepted request is for what the client addressed: the path and the  *)
(* query are the decoded parts of its target, and the host and the port    *)
(* are exactly those of the Host field.                                    *)
(***************************************************************************)
AddressIsUnderstood ==
    Accepted /\ NoEmptyValue(head) /\ ~ TwoWords(head) /\ ~ TakenForHost(head.target) =>
       /\ RegularTarget(head.target) =>
             /\ request.uri.path = Decoded(PathPart(head.target))
             /\ request.uri.query = Decoded(QueryPart(head.target))
       /\ LET Low(s) == [i \in DOMAIN s |-> ToLower(s[i])]
              uri == request.uri
          IN  Low(Decoded(Declared(head)[HostName]))
                 \in IF uri.port = << >> THEN { Low(uri.host), Low(uri.host \o << ":" >>) }
                                         ELSE { Low(uri.host \o << ":" >> \o uri.port) }

(***************************************************************************)
(* A message is awaited of a POST only, in one framing and within the      *)
(* limit of its target; and a client is told to go on (100) only when a    *)
(* message is awaited.                                                     *)
(***************************************************************************)
BodyIsInvited ==
    LET names == { head.fields[i].name : i \in DOMAIN head.fields }
    IN  /\ Accepted /\ (request.cur_state \in {"MsgBody", "Chunked"} \/ request.body # << >>) =>
              /\ head.method = << "POST" >>
              /\ {TransferEncoding, ContentLength} \cap names # {}
              /\ ~ {TransferEncoding, ContentLength} \subseteq names
              /\ LengthOf(request.parser.fields) <= ConfigMaxBody
        /\ request.code = 100 =>
              request.cur_state \in {"MsgBody", "Chunked"} /\ request.body = << >>

(***************************************************************************)
(* What a client sends behind an empty line is never one of the fields.    *)
(***************************************************************************)
BodyIsNoField ==
    NoEmptyValue(head) =>
       DOMAIN request.parser.fields \subseteq { head.fields[i].name : i \in DOMAIN head.fields }

(***************************************************************************)
(* An exception leaves Parse, which ends the server, only for a length     *)
(* beyond a size_t, or an address that ends in a period: as the Host, or   *)
(* as a target without a slash, of its own or the last part of a literal   *)
(* that is not closed.                                                     *)
(***************************************************************************)
EscapesAreKnown ==
    request.status = "Escaped" =>
       \/ \E t \in HostsRead(head) : EndsInPeriod(t)
       \/ LengthOf(Declared(head)) > MaxSizeT
=============================================================================
