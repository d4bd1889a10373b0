----------------------------- MODULE ChunkedParser -----------------------------
(***************************************************************************)
(* The parser of a message in chunked transfer coding: the class           *)
(* ChunkedParser of src/src/request/parser on top of the loop of           *)
(* AStateParser.                                                           *)
(*                                                                         *)
(* The parser works on one piece of input at a time and keeps its state    *)
(* between them.  At the end of each piece the loop also hands it the '\0' *)
(* behind the last character, so where the input is cut is something the   *)
(* parser sees.  The module has no variables: Parse maps the parser and a  *)
(* piece to the parser afterwards.                                         *)
(***************************************************************************)
EXTENDS Naturals, Sequences, SequencesExt

CONSTANTS
    MaxChunkExt,    \* MAX_CHUNKEXT_SIZE, the longest chunk extension
    DefaultMaxBody  \* Request::max_body_size as a request is made

ASSUME ChunkLimitsAssumption == MaxChunkExt \in Nat /\ DefaultMaxBody \in Nat

(***************************************************************************)
(* Characters.  "x" and "y" stand for octets with no meaning to the        *)
(* parser; "high" for an octet from 0x80 on, which a char, being signed,   *)
(* has as a negative number; "field" for a trailer field that is valid and *)
(* allowed there, "forbidden" for one of illegal_fields, without its line  *)
(* ending; "NUL" for the '\0' at the end of a piece.                       *)
(***************************************************************************)
HexDigits == << "0", "1", "2", "3", "4", "5", "6", "7", "8", "9",
                "A", "B", "C", "D", "E", "F" >>

HexValue(c) == (CHOOSE i \in 1 .. 16 : HexDigits[i] = c) - 1

IsHexDig(c) == c \in ToSet(HexDigits)
IsDigit(c)  == c \in ToSet(SubSeq(HexDigits, 1, 10))

(* From 0x00 to 0xFF, of the int that the char is made. *)
IsOctet(c)  == c # "high"

(* What operator>> makes of a chunk size: 0 if it does not begin with one. *)
HextoDec(buffer) ==
    IF Head(buffer) = "NUL" THEN 0
    ELSE FoldLeft(LAMBDA n, c : 16 * n + HexValue(c), 0, buffer)

-----------------------------------------------------------------------------
(***************************************************************************)
(* The parser, with the message body and the trailer fields it has given   *)
(* to the Request, and the status of the exception that ended the piece.   *)
(***************************************************************************)
NoError == 0

ChunkStates == {"Start", "Size", "Data", "Last", "Trailer", "End", "Done", "Invalid"}

NewParser ==
    [ cur_state |-> "Start", buffer |-> << >>, skip_char |-> FALSE,
      chunk_size |-> 0, ext_size |-> 0, ext |-> FALSE, trailer |-> FALSE,
      cr |-> FALSE, body |-> << >>, fields |-> 0, error |-> NoError ]

Push(p, s)     == [p EXCEPT !.cur_state = s, !.skip_char = FALSE]
Skip(p, s)     == [p EXCEPT !.cur_state = s, !.skip_char = TRUE]
Throw(p, code) == [p EXCEPT !.error = code]

(***************************************************************************)
(* ParseTrailerHeader.  The HeaderFieldParser ends at a '\0', and finds no *)
(* field in a buffer that begins with one.                                 *)
(***************************************************************************)
ParseTrailerHeader(p) ==
    CASE Head(p.buffer) = "NUL"   -> [p EXCEPT !.buffer = << >>]
      [] p.buffer = << "field" >> -> [p EXCEPT !.fields = @ + 1, !.buffer = << >>]
      [] OTHER                    -> Throw(p, 400)

(* Only in these states is anything saved, and the buffer cleared. *)
SaveParsedValue(p) ==
    CASE p.cur_state = "Size" ->
            [p EXCEPT !.chunk_size = HextoDec(p.buffer), !.buffer = << >>]
      [] p.cur_state = "Data" ->
            [p EXCEPT !.body = @ \o p.buffer, !.buffer = << >>]
      [] p.cur_state = "Trailer" -> ParseTrailerHeader(p)
      [] OTHER -> p

AfterSaving(p, c, next, skip) ==
    IF p.error # NoError THEN p
    ELSE [p EXCEPT !.cur_state = next, !.skip_char = skip, !.cr = (c = "CR")]

HandleCRLF(p, c, next, skip) ==
    CASE p.cr /\ c # "LF" -> Push(p, "Invalid")
      [] OTHER -> AfterSaving(IF p.buffer = << >> THEN p ELSE SaveParsedValue(p),
                              c, next, skip)

(* The state that follows the line of a chunk size or of the last chunk. *)
AfterLine(s) == IF s = "Size" THEN "Data" ELSE "Trailer"

HandleChunkExtension(p, c) ==
    IF c = "LF"
       THEN HandleCRLF([p EXCEPT !.ext = FALSE, !.ext_size = 0], c,
                       AfterLine(p.cur_state), TRUE)
       ELSE [Skip(p, p.cur_state) EXCEPT !.ext_size = @ + 1]

-----------------------------------------------------------------------------
(* The handlers, one for each state. *)

(* Mutant: the end of a piece is not expected between two chunks. *)
StartHandlerUncut(p, c) ==
    CASE c = "0"                -> Skip(p, "Last")
      [] c # "0" /\ IsHexDig(c) -> Push(p, "Size")
      [] OTHER                  -> Push(p, "Invalid")

StartHandler(p, c) ==
    CASE c = "0"                  -> Skip(p, "Last")
      [] c = "NUL"                -> Push(p, "Start")
      [] c # "0" /\ IsHexDig(c)   -> Push(p, "Size")
      [] OTHER                    -> Push(p, "Invalid")

(* What the lines of a chunk size and of the last chunk have in common. *)
LineHandler(p, c) ==
    CASE p.ext /\ p.ext_size > MaxChunkExt   -> Throw(p, 413)
      [] p.ext /\ p.ext_size <= MaxChunkExt  -> HandleChunkExtension(p, c)
      [] ~ p.ext /\ c = "NUL" -> Skip(p, p.cur_state)
      [] ~ p.ext /\ c = "CR"  -> HandleCRLF(p, c, p.cur_state, TRUE)
      [] ~ p.ext /\ c = "LF"  -> HandleCRLF(p, c, AfterLine(p.cur_state), TRUE)
      [] ~ p.ext /\ c = ";"   -> [Skip(p, p.cur_state) EXCEPT !.ext = TRUE]
      [] OTHER                -> Push(p, "Invalid")

SizeHandler(p, c) ==
    CASE Len(p.buffer) > 7           -> Throw(p, 413)
      [] Len(p.buffer) <= 7 /\ ~ p.ext /\ IsDigit(c) -> Push(p, "Size")
      [] OTHER                       -> LineHandler(p, c)

LastHandler(p, c) == LineHandler(p, c)

(* A line feed ends the data once the count is 0, and is data before. *)
TakeData(p, c) ==
    CASE c = "NUL" -> Skip(p, "Data")
      [] c = "CR"  -> HandleCRLF(p, c, "Data", p.chunk_size = 0)
      [] c = "LF"  -> HandleCRLF(p, c, IF p.chunk_size = 0 THEN "Start" ELSE "Data",
                                 p.chunk_size = 0)
      [] c \notin {"NUL", "CR", "LF"} /\ IsOctet(c) -> Push(p, "Data")
      [] OTHER     -> Push(p, "Invalid")

(* Every character counts as one of the data, '\0' and line endings too. *)
DataHandler(p, c) ==
    IF Len(p.body) + p.chunk_size > DefaultMaxBody
       THEN Throw(p, 413)
       ELSE TakeData([p EXCEPT !.chunk_size = IF @ > 0 THEN @ - 1 ELSE 0], c)

TrailerHandler(p, c) ==
    CASE c = "CR"  -> HandleCRLF(p, c, "Trailer", TRUE)
      [] c = "LF" /\ p.trailer   ->
            HandleCRLF([p EXCEPT !.trailer = FALSE], c, "Trailer", TRUE)
      [] c = "LF" /\ ~ p.trailer -> Push(p, "End")
      [] c = "NUL" -> Skip(p, "Trailer")
      [] OTHER     -> [Push(p, "Trailer") EXCEPT !.trailer = TRUE]

EndHandler(p, c) == IF c = "NUL" THEN Skip(p, "Done") ELSE Push(p, "Invalid")

GetNextState(p, c) ==
    CASE p.cur_state = "Start"   -> StartHandler(p, c)
      [] p.cur_state = "Size"    -> SizeHandler(p, c)
      [] p.cur_state = "Data"    -> DataHandler(p, c)
      [] p.cur_state = "Last"    -> LastHandler(p, c)
      [] p.cur_state = "Trailer" -> TrailerHandler(p, c)
      [] p.cur_state = "End"     -> EndHandler(p, c)

-----------------------------------------------------------------------------
UpdateBuffer(p, c) ==
    IF p.skip_char THEN p ELSE [p EXCEPT !.buffer = Append(@, c)]

CheckInvalidState(p) == IF p.cur_state = "Invalid" THEN Throw(p, 400) ELSE p

AfterHandler(p, c) ==
    IF p.error # NoError THEN p ELSE CheckInvalidState(UpdateBuffer(p, c))

(***************************************************************************)
(* One turn of the loop of AStateParser.  An exception, or the end state,  *)
(* ends the loop.                                                          *)
(***************************************************************************)
Turn(p, c) ==
    IF p.error # NoError \/ p.cur_state = "Done"
       THEN p
       ELSE AfterHandler(GetNextState(p, c), c)

(***************************************************************************)
(* The table of handlers has no entry for a parser that has found an       *)
(* invalid character: to parse on is undefined.                            *)
(***************************************************************************)
CanParse(p) == p.cur_state # "Invalid"

AfterParseCheck(p) ==
    IF p.error = NoError /\ p.cur_state = "Done" /\ p.chunk_size # 0
       THEN Throw(p, 400)
       ELSE p

(* ParseString *)
Parse(p, input) ==
    AfterParseCheck(FoldLeft(Turn, [p EXCEPT !.error = NoError], Append(input, "NUL")))
=============================================================================
