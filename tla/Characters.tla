------------------------------ MODULE Characters ------------------------------
(***************************************************************************)
(* The characters of a request: the classes of                             *)
(* src/src/utils/is_functions.cpp and the conversions of                   *)
(* src/src/utils/request_utils.cpp.                                        *)
(*                                                                         *)
(* Text is a sequence of characters.  A character is a string of one       *)
(* letter, or one of the names below; any other string is a word: a run of *)
(* letters, digits and hyphens that is not all digits, in one piece.  No   *)
(* handler of a parser tells the later letters of a word from the first.   *)
(***************************************************************************)
EXTENDS Naturals, Sequences, SequencesExt

Blanks   == {"SP", "HT"}                 \* space and tab; "BQ" is the backquote
\* "CTL" is any other control character, or an octet from 0x80 on: of no class either.
Controls == {"CR", "LF", "NUL", "CTL"}

SubDelims       == {"!", "$", "&", "'", "(", ")", "*", "+", ",", ";", "="}
UnreservedMarks == {"-", ".", "_", "~"}
TokenMarks      == {"!", "#", "$", "%", "&", "'", "*", "+", "-", ".", "^", "_", "BQ", "|", "~"}
OtherMarks      == {"/", ":", "@", "?", "[", "]", "<", ">", "{", "}"}

Marks == Blanks \cup Controls \cup SubDelims \cup UnreservedMarks \cup TokenMarks \cup OtherMarks

\* Decimal digits by their value, then the other hexadecimal ones.
Upper16 == << "0", "1", "2", "3", "4", "5", "6", "7", "8", "9",
              "A", "B", "C", "D", "E", "F" >>
Lower16 == << "0", "1", "2", "3", "4", "5", "6", "7", "8", "9",
              "a", "b", "c", "d", "e", "f" >>

IsDigit(c)      == \E i \in 1 .. 10 : Upper16[i] = c
IsHexDig(c)     == \E i \in 1 .. 16 : Upper16[i] = c \/ Lower16[i] = c
IsAlnum(c)      == c \notin Marks
IsUnreserved(c) == c \in UnreservedMarks \/ IsAlnum(c)
IsSubDelim(c)   == c \in SubDelims
IsPChar(c)      == c \in {":", "@"} \/ IsUnreserved(c) \/ IsSubDelim(c)
IsTChar(c)      == c \in TokenMarks \/ IsAlnum(c)
IsVChar(c)      == c \notin Blanks \cup Controls
IsWhitespace(c) == c \in Blanks

\* IsValidString, with the characters allowed besides those of the class.
IsValidString(Class(_), s, allow) == \A i \in DOMAIN s : Class(s[i]) \/ s[i] \in allow

-----------------------------------------------------------------------------

\* A character takes one octet, a word as many as it has letters.
Size(c) == IF c \in Marks THEN 1 ELSE Len(c)
TextSize(s) == FoldLeft(LAMBDA n, c : n + Size(c), 0, s)

PrecededBy(read_buf, c) == read_buf # << >> /\ Last(read_buf) = c

\* The character of s at i, and the '\0' behind its last one.
At(s, i) == IF i \in DOMAIN s THEN s[i] ELSE "NUL"

\* toupper and tolower, as they are used: on hexadecimal digits.
ToUpper(c) == IF \E i \in 11 .. 16 : Lower16[i] = c
                 THEN Upper16[CHOOSE i \in 11 .. 16 : Lower16[i] = c] ELSE c
ToLower(c) == IF \E i \in 11 .. 16 : Upper16[i] = c
                 THEN Lower16[CHOOSE i \in 11 .. 16 : Upper16[i] = c] ELSE c

(***************************************************************************)
(* The octets that two hexadecimal digits may stand for; "octet" is any    *)
(* that matters to no parser.                                              *)
(***************************************************************************)
Octet(high, low) ==
    CASE << high, low >> = << "2", "5" >> -> "%"
      [] << high, low >> = << "2", "E" >> -> "."
      [] << high, low >> = << "2", "F" >> -> "/"
      [] << high, low >> = << "3", "F" >> -> "?"
      [] << high, low >> = << "0", "0" >> -> "NUL"
      [] << high, low >> = << "0", "A" >> -> "LF"
      [] << high, low >> = << "0", "D" >> -> "CR"
      [] OTHER -> "octet"

IsLineEnd(high, low) == Octet(high, low) \in {"CR", "LF"}

(***************************************************************************)
(* NormalizeString and DecodePercent, as the parsers of targets and hosts  *)
(* call them: on the %HH a buffer ends with.  DecodePercent throws         *)
(* BadRequestException for an encoded line ending.                         *)
(***************************************************************************)
EndsInLineEnd(buffer) ==
    IsLineEnd(ToUpper(buffer[Len(buffer) - 1]), ToUpper(buffer[Len(buffer)]))

DecodePercent(buffer) ==
    Append(SubSeq(buffer, 1, Len(buffer) - 3),
           Octet(ToUpper(buffer[Len(buffer) - 1]), ToUpper(buffer[Len(buffer)])))

\* The value of a string of decimal digits.
Decimal(s) == FoldLeft(LAMBDA n, c : 10 * n + (CHOOSE i \in 1 .. 10 : Upper16[i] = c) - 1, 0, s)
=============================================================================
