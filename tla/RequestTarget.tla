----------------------------- MODULE RequestTarget -----------------------------
(***************************************************************************)
(* The parser of request targets in origin form: RequestTargetParser of    *)
(* src/src/request/parser.  ParseTarget maps a text to the parser that has *)
(* read it, with the path and the query it gave to the URI.                *)
(***************************************************************************)
EXTENDS Characters

CONSTANT MaxUriSize     \* MAX_URI_SIZE

ASSUME UriSizeAssumption == MaxUriSize \in Nat

(***************************************************************************)
(* part is the part of the URI that is read; pos counts the characters     *)
(* read; error is the status of the exception that was thrown, or 0.       *)
(***************************************************************************)
NewTargetParser ==
    [ cur_state |-> "Start", buffer |-> << >>, skip_char |-> FALSE, part |-> "Path",
      path |-> << >>, query |-> << >>, pos |-> 0, error |-> 0 ]

Goto(p, s) == [p EXCEPT !.cur_state = s]

(* A '?' that was percent-encoded or came after a %HH may be in the buffer. *)
BeforeQuestionMark(s) ==
    IF "?" \in ToSet(s) THEN SubSeq(s, 1, SelectInSeq(s, LAMBDA c : c = "?") - 1) ELSE s

PushBuffertoField(p, next) ==
    LET q == [p EXCEPT !.buffer = << >>, !.skip_char = TRUE, !.cur_state = next]
    IN  IF p.part = "Path" THEN [q EXCEPT !.path = BeforeQuestionMark(p.buffer)]
                           ELSE [q EXCEPT !.query = p.buffer]

TargetStart(p, c) == Goto(p, IF c = "/" THEN "Path" ELSE "Invalid")

PathHandler(p, c) ==
    CASE c = "NUL" -> PushBuffertoField(p, "Done")
      [] c = "?"   -> PushBuffertoField(p, "Query")
      [] c = "%"   -> Goto(p, "Percent")
      [] (c = "/" /\ ~ PrecededBy(p.buffer, "/")) \/ IsPChar(c) -> Goto(p, "Path")
      [] OTHER     -> Goto(p, "Invalid")

QueryHandler(p, c) ==
    CASE c \in {"NUL", "#"} -> PushBuffertoField(p, "Done")
      [] c = "%"            -> Goto(p, "Percent")
      [] c \in {"/", "?"} \/ IsPChar(c) -> Goto(p, "Query")
      [] OTHER              -> Goto(p, "Invalid")

PercentHandler(p, c) ==
    CASE ~ IsHexDig(c)                              -> Goto(p, "Invalid")
      [] IsHexDig(c) /\ PrecededBy(p.buffer, "%")   -> Goto(p, "Percent")
      [] IsHexDig(c) /\ ~ PrecededBy(p.buffer, "%") -> Goto(p, "PercentDone")

(* What follows a %HH, which was decoded.  A '?' does not end the path here. *)
AfterPercent(p, c) ==
    CASE c = "NUL" \/ (c = "#" /\ p.part = "Query") -> PushBuffertoField(p, "Done")
      [] c = "%"                 -> Goto(p, "Percent")
      [] c = "?"                 -> Goto(p, "Query")
      [] c = "/" \/ IsPChar(c)   -> Goto(p, p.part)
      [] OTHER                   -> Goto(p, "Invalid")

PercentDoneHandler(p, c) ==
    IF EndsInLineEnd(p.buffer)
       THEN [p EXCEPT !.error = 400]
       ELSE AfterPercent([p EXCEPT !.buffer = DecodePercent(@)], c)

TargetNextState(p, c) ==
    CASE p.cur_state = "Start"       -> TargetStart(p, c)
      [] p.cur_state = "Path"        -> PathHandler([p EXCEPT !.part = "Path"], c)
      [] p.cur_state = "Query"       -> QueryHandler([p EXCEPT !.part = "Query"], c)
      [] p.cur_state = "Percent"     -> PercentHandler(p, c)
      [] p.cur_state = "PercentDone" -> PercentDoneHandler(p, c)

(* UpdateBuffer, CheckInvalidState and IncrementCounter of the loop. *)
AfterTargetState(p, c) ==
    CASE p.error # 0             -> p
      [] p.cur_state = "Invalid" -> [p EXCEPT !.error = 400]
      [] p.cur_state = "Done"    -> p
      [] OTHER -> [p EXCEPT !.pos = @ + 1,
                            !.buffer = IF p.skip_char THEN @ ELSE Append(@, c)]

TargetTurn(p, c) ==
    IF p.error # 0 \/ p.cur_state = "Done"
       THEN p
       ELSE AfterTargetState(TargetNextState([p EXCEPT !.skip_char = FALSE], c), c)

(* Characters behind the one that ended the target. *)
AfterTargetCheck(p, input) ==
    IF p.error = 0 /\ p.cur_state = "Done" /\ p.pos + 1 < Len(input)
       THEN [p EXCEPT !.error = 400]
       ELSE p

(* PreParseCheck, the loop and AfterParseCheck *)
ParseTarget(input) ==
    IF TextSize(input) > MaxUriSize
       THEN [NewTargetParser EXCEPT !.error = 414]
       ELSE AfterTargetCheck(FoldLeft(TargetTurn, NewTargetParser, Append(input, "NUL")),
                             input)
=============================================================================
