-------------------------------- MODULE UriHost --------------------------------
(***************************************************************************)
(* The parser of hosts with their ports: URIHostParser of                  *)
(* src/src/request/parser.  ParseHost maps a text to the parser that has   *)
(* read it, with the host and the port it gave to the URI.                 *)
(***************************************************************************)
EXTENDS Characters

(* The exceptions of std::stoi, which are none of those of http. *)
StdException == 1

NewHostParser ==
    [ cur_state |-> "Start", buffer |-> << >>, skip_char |-> FALSE,
      groups |-> 0, colons |-> 0, digits |-> 0, literal |-> FALSE,
      host |-> << >>, port |-> << >>, pos |-> 0, error |-> 0 ]

HostGoto(p, s) == [p EXCEPT !.cur_state = s]

(* Mutant: the buffer is not cleared. *)
PushHostKeeping(p, next) ==
    [p EXCEPT !.host = IF p.buffer = << >> THEN @ ELSE p.buffer,
              !.skip_char = TRUE, !.cur_state = next]

PushHost(p, next) ==
    [p EXCEPT !.host = IF p.buffer = << >> THEN @ ELSE p.buffer, !.buffer = << >>,
              !.skip_char = TRUE, !.cur_state = next]

PushPort(p) ==
    [p EXCEPT !.port = IF p.buffer = << >> THEN @ ELSE p.buffer, !.buffer = << >>,
              !.skip_char = TRUE, !.cur_state = "Done"]

IsUnreservedSubDelim(c) == IsUnreserved(c) \/ IsSubDelim(c)

(* "IPv4" is assumed of digits with two periods at least. *)
IsIPv4Format(s) ==
    /\ IsValidString(IsDigit, s, {".", ":", "-"})
    /\ Cardinality({ i \in DOMAIN s : s[i] = "." }) > 1

HostStart(p, c, input) ==
    CASE c = "NUL" -> PushHost(p, "Done")
      [] c = "["   -> [HostGoto(p, "Literal") EXCEPT !.literal = TRUE]
      [] c = "%"   -> HostGoto(p, "RegNamePct")
      [] c \notin {"NUL", "[", "%"} /\ IsIPv4Format(input) -> HostGoto(p, "IPv4")
      [] ~ IsIPv4Format(input) /\ IsUnreservedSubDelim(c)  -> HostGoto(p, "RegName")
      [] OTHER     -> HostGoto(p, "Invalid")

LiteralHandler(p, c) ==
    CASE c = "v"                -> HostGoto(p, "IPvF")
      [] c = ":" \/ IsHexDig(c) -> HostGoto(p, "IPv6")
      [] OTHER                  -> HostGoto(p, "Invalid")

UpToBracket(s) ==
    IF "]" \in ToSet(s) THEN SubSeq(s, 1, SelectInSeq(s, LAMBDA c : c = "]") - 1) ELSE s

(* The digits from position i up to the closing bracket, after a colon. *)
ValidLastBitsIPv4(input, i) ==
    /\ At(input, i - 1) = ":" /\ IsDigit(At(input, i))
    /\ IsIPv4Format(UpToBracket(SubSeq(input, i, Len(input))))

HandleIPv6Colon(p) ==
    IF p.colons > 1
       THEN HostGoto(p, "Invalid")
       ELSE [HostGoto(p, "IPv6") EXCEPT !.colons = @ + 1, !.digits = 0, !.groups = @ + 1]

(* NormalizeIPv6HexDig pushes the lower case of a letter itself. *)
HandleIPv6Digit(p, c) ==
    IF p.digits > 3
       THEN HostGoto(p, "Invalid")
       ELSE [HostGoto(p, "IPv6") EXCEPT
               !.colons = 0, !.digits = @ + 1, !.skip_char = TRUE,
               !.buffer = Append(@, ToLower(c))]

IPv6Handler(p, c, input, i) ==
    CASE c = "]" -> HostGoto(p, IF p.groups >= 1 THEN "LiteralEnd" ELSE "Invalid")
      [] c = ":" -> HandleIPv6Colon(p)
      [] c \notin {"]", ":"} /\ ValidLastBitsIPv4(input, i) ->
            [HostGoto(p, "IPv4") EXCEPT !.groups = 0, !.digits = 0]
      [] ~ ValidLastBitsIPv4(input, i) /\ IsHexDig(c) -> HandleIPv6Digit(p, c)
      [] OTHER   -> HostGoto(p, "Invalid")

IPvFHandler(p, c, groups) ==
    CASE c = "]" -> [HostGoto(p, IF groups >= 4 THEN "LiteralEnd" ELSE "Invalid")
                        EXCEPT !.groups = groups]
      [] c = "." /\ IsHexDig(Last(p.buffer)) -> [HostGoto(p, "IPvF") EXCEPT !.groups = groups]
      [] c \notin {"]", "."} /\ (IsUnreservedSubDelim(c) \/ c = ":") ->
            [HostGoto(p, "IPvF") EXCEPT !.groups = groups]
      [] OTHER   -> HostGoto(p, "Invalid")

-----------------------------------------------------------------------------
(* The digits of a group, and whether its octet is one of 0 to 255. *)

AfterLast(s, c) ==
    IF c \in ToSet(s) THEN SubSeq(s, SelectLastInSeq(s, LAMBDA d : d = c) + 1, Len(s)) ELSE s

LastGroup(buffer) ==
    IF "." \in ToSet(buffer) THEN AfterLast(buffer, ".") ELSE AfterLast(buffer, ":")

(* std::stoi throws when there is no digit. *)
NoOctet(buffer) == LastGroup(buffer) = << >>

ValidDecOctetGroup(buffer) ==
    IsValidString(IsDigit, LastGroup(buffer), {}) /\ Decimal(LastGroup(buffer)) <= 255

HandleIPv4Digits(p) ==
    CASE p.digits > 3 -> HostGoto(p, "Invalid")
      [] p.digits <= 3 /\ (PrecededBy(p.buffer, ".") \/ p.groups = 0) ->
            [HostGoto(p, "IPv4") EXCEPT !.digits = 1, !.groups = @ + 1]
      [] OTHER        -> [HostGoto(p, "IPv4") EXCEPT !.digits = @ + 1]

IPv4Handler(p, c) ==
    CASE c = "NUL" /\ p.groups = 4 /\ NoOctet(p.buffer) -> [p EXCEPT !.error = StdException]
      [] c = "NUL" /\ p.groups = 4 /\ ~ NoOctet(p.buffer) /\ ValidDecOctetGroup(p.buffer) ->
            PushHost(p, "Done")
      [] c = ":" /\ p.groups = 4               -> PushHost(p, "Port")
      [] c = "]" /\ p.literal /\ p.groups = 4  -> HostGoto(p, "LiteralEnd")
      [] c = "." /\ IsDigit(Last(p.buffer)) /\ ValidDecOctetGroup(p.buffer) ->
            HostGoto(p, "IPv4")
      [] IsDigit(c)                            -> HandleIPv4Digits(p)
      [] OTHER                                 -> HostGoto(p, "Invalid")

-----------------------------------------------------------------------------

LiteralEndHandler(p, c) ==
    CASE c = "NUL" -> PushHost(p, "Done")
      [] c = ":"   -> PushHost(p, "Port")
      [] OTHER     -> HostGoto(p, "Invalid")

RegNameHandler(p, c) ==
    CASE c = "NUL" -> PushHost(p, "Done")
      [] c = ":"   -> PushHost(p, "Port")
      [] c = "%"   -> HostGoto(p, "RegNamePct")
      [] IsUnreservedSubDelim(c) -> HostGoto(p, "RegName")
      [] OTHER     -> HostGoto(p, "Invalid")

RegNamePctHandler(p, c) ==
    CASE ~ IsHexDig(c)                              -> HostGoto(p, "Invalid")
      [] IsHexDig(c) /\ PrecededBy(p.buffer, "%")   -> HostGoto(p, "RegNamePct")
      [] IsHexDig(c) /\ ~ PrecededBy(p.buffer, "%") -> HostGoto(p, "RegNamePctDone")

(* A ':' is none of the characters that may follow a %HH. *)
AfterPct(p, c) ==
    CASE c = "NUL" -> PushHost(p, "Done")
      [] c = "%"   -> HostGoto(p, "RegNamePct")
      [] IsUnreservedSubDelim(c) -> HostGoto(p, "RegName")
      [] OTHER     -> HostGoto(p, "Invalid")

RegNamePctDoneHandler(p, c) ==
    IF EndsInLineEnd(p.buffer)
       THEN [p EXCEPT !.error = 400]
       ELSE AfterPct([p EXCEPT !.buffer = DecodePercent(@)], c)

PortHandler(p, c) ==
    CASE c = "NUL"  -> PushPort(p)
      [] IsDigit(c) -> HostGoto(p, "Port")
      [] OTHER      -> HostGoto(p, "Invalid")

HostNextState(p, c, input, i) ==
    CASE p.cur_state = "Start"      -> HostStart(p, c, input)
      [] p.cur_state = "Literal"    -> LiteralHandler(p, c)
      [] p.cur_state = "IPv6"       -> IPv6Handler(p, c, input, i)
      [] p.cur_state = "IPvF"       -> IPvFHandler(p, c, p.groups + 1)
      [] p.cur_state = "IPv4"       -> IPv4Handler(p, c)
      [] p.cur_state = "LiteralEnd" -> LiteralEndHandler(p, c)
      [] p.cur_state = "RegName"    -> RegNameHandler(p, c)
      [] p.cur_state = "RegNamePct" -> RegNamePctHandler(p, c)
      [] p.cur_state = "RegNamePctDone" -> RegNamePctDoneHandler(p, c)
      [] p.cur_state = "Port"       -> PortHandler(p, c)

AfterHostState(p, c) ==
    CASE p.error # 0 \/ p.cur_state = "Done" -> p
      [] p.cur_state = "Invalid" -> [p EXCEPT !.error = 400]
      [] OTHER -> IF p.skip_char THEN p ELSE [p EXCEPT !.buffer = Append(@, c)]

HostTurn(p, input, i) ==
    IF p.error # 0 \/ p.cur_state = "Done"
       THEN p
       ELSE AfterHostState(HostNextState([p EXCEPT !.skip_char = FALSE, !.pos = i],
                                         At(input, i), input, i),
                           At(input, i))

(***************************************************************************)
(* The loop and AfterParseCheck.  Only a '\0' leads to the end state, so    *)
(* there is never more behind it; but of no text at all the check finds    *)
(* size() - 1 larger than any position.                                    *)
(***************************************************************************)
ParseHost(input) ==
    IF input = << >>
       THEN [NewHostParser EXCEPT !.error = 400]
       ELSE FoldLeft(LAMBDA p, i : HostTurn(p, input, i), NewHostParser,
                     [i \in 1 .. Len(input) + 1 |-> i])
=============================================================================
