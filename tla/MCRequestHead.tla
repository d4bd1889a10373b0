----------------------------- MODULE MCRequestHead -----------------------------
(***************************************************************************)
(* The heads of the runs of RequestHead, each family around one part of    *)
(* the head; the fields and the request line also cut into any pieces.     *)
(***************************************************************************)
EXTENDS RequestHead

Field(name, value) == [name |-> << name >>, value |-> value]

HostField == Field("Host", << "ex" >>)

CRLF == << "CR", "LF" >>

Requested(methods, targets, versions, fields, eols, extras, whole) ==
    [ method : methods, target : targets, version : versions, fields : fields,
      eol : eols, extra : extras, whole : {whole} ]

MCAllowed == { << "GET" >>, << "POST" >> }

Get  == << "GET" >>
Post == << "POST" >>
V11  == << "HTTP/1.1" >>
Root == << "/" >>

(* Two more fields around Host, and the length of a field section. *)
Pool ==
    { HostField, Field("X", << "y", "SP", "y" >>), [name |-> << "X", "SP" >>, value |-> << "y" >>],
      Field("Content-Length", << "2" >>), Field("Content-Length", << "9" >>),
      Field("Content-Length", << "0" >>), Field("Content-Length", << "3", "0", "0" >>),
      Field("Content-Length", << "1", ",", "1" >>), Field("Content-Length", << "y" >>), Field("Transfer-Encoding", << "chunked" >>),
      Field("Transfer-Encoding", << "gzip" >>), Field("Expect", << "100-continue" >>),
      Field("Expect", << "200-ok" >>), Field("Content-Encoding", << "gzip" >>) }

FieldHeads ==
    Requested({Get, Post}, {Root}, {V11},
              { << a, HostField, b >> : a, b \in Pool }, { << "LF" >> }, { << >> }, FALSE)
    \cup Requested({Post}, {Root}, {V11}, { << a, b >> : a, b \in Pool }, {CRLF}, { << >> }, TRUE)

(* Lines that break one rule or another, and line endings in any place. *)
LineHeads ==
    Requested({Get, << "PUT" >>, << "DELETE" >>, << "@" >>}, {Root, << "/", "ab" >>, << "/", "abc" >>},
              { V11, << "HTTP/1.0" >>, << "HTTP/1.x" >>, << "XTTP/1.1" >> },
              { << HostField >>, << >>, << Field("X", << >>), HostField >>,
                << HostField, Field("long", << "y1234567890123456789" >>) >> },
              {CRLF, << "LF" >>}, { << >> }, FALSE)

(* Something behind the head: a message, or what looks like a field. *)
ExtraHeads ==
    Requested({Get, Post}, {Root}, {V11},
              { << HostField >>, << HostField, Field("Content-Length", << "2" >>) >>,
                << HostField, Field("Content-Length", << "2" >>), Field("Expect", << "100-continue" >>) >>,
                << HostField, Field("Content-Length", << "0" >>) >> },
              {CRLF}, { << "y" >>, << "y", "z" >>, << "Z", ":", "y", "LF", "LF" >> }, FALSE)

(* Rejected heads of every kind, and a client that goes on sending. *)
RejectedHeads ==
    Requested({Get, << "PUT" >>, << "@" >>}, { Root, << "/", "%" >>, << >> },
              { V11, << "HTTP/1.0" >>, << "XTTP/1.1" >>, << >> },
              { << HostField >>, << >>, << Field("Host", << "a", "/" >>) >>, << [name |-> << "X", "SP" >>, value |-> << "y" >>] >>,
                << HostField, Field("Content-Length", << "9" >>) >>, << HostField, Field("Transfer-Encoding", << "gzip" >>) >>,
                << HostField, Field("long", << "y1234567890123456789", "y1234567890123456789", "y1234567890123456789" >>) >> },
              {CRLF}, { << "y" >>, << "y", "LF", "LF", "y" >> }, FALSE)
    \cup Requested({Get, Post}, {V11}, { << >> }, { << HostField >> }, {CRLF}, { << "y" >> }, FALSE)

TargetHeads ==
    Requested({Get}, { << "/" >> \o t : t \in BoundedSeq({"/", "a", "%", "?", "#", "2", "F"}, 4) },
              {V11}, { << HostField >> }, { << "LF" >> }, { << >> }, TRUE)
    \cup Requested({Get}, { << "/", "%", "0", d, "/" >> \o t : d \in {"A", "d", "9"}, t \in {<< >>, << "?", "b" >>} },
              {V11}, { << HostField >> }, { << "LF" >> }, { << >> }, TRUE)

(* Targets without a slash, whole and with a client that goes on sending. *)
Slashless ==
    { << "a" >> \o t : t \in BoundedSeq({"a", ":", "8", "%", "?"}, 3) }
    \cup { << "1" >> \o a \o << ".", "1", ".", "1", "." >> \o c : a \in { << "0" >>, << >> },
              c \in { << "1" >>, << >>, << "1", "." >>, << "1", ":", "8" >>, << "1", ":" >> } }
    \cup { << "*" >>, << "?" >>, << "%", "4", "1" >>, << ":", "8" >>, << "[" , ":", ":", "1", "]", ":", "8" >>,
           << "[", ":", ":", "1", "0", ".", "1", ".", "1", ".", "1", "." >> }

SlashlessHeads ==
    Requested({Get}, Slashless, {V11},
              { << Field("Host", t) >> : t \in { << "ex" >>, << "ex", ":", "9" >>, << "1", "0", ".", "1", ".", "1", ".", "1", "." >> } },
              { << "LF" >> }, { << >> }, TRUE)
    \cup Requested({Get, Post, << "PUT" >>}, { << "a" >>, << "a", ":", "8" >>, << "a", "%" >>, << "*" >>, << "a", "/" >> },
              {V11, << "HTTP/1.0" >>, << >>},
              { << HostField >>, << HostField, Field("Content-Length", << "2" >>) >>, << Field("Host", << "a", "/" >>) >> },
              {CRLF}, { << "y" >>, << "y", "LF", "LF", "y" >> }, FALSE)

Digits == { << "1" >>, << "2", "5" >>, << "2", "5", "6" >>, << "0", "0", "1", "0" >>, << >> }

Hosts ==
    { a \o << "." >> \o b \o << "." >> \o b \o << "." >> \o c \o d :
         a \in Digits, b \in Digits, c \in Digits, d \in { << >>, << ":", "8" >>, << ":", "x" >> } }
    \cup { << "[" >> \o a \o b \o c : a \in { << ":", ":" >>, << "v", "1", "." >> },
              b \in BoundedSeq({"1", "F", ":", "."}, 2),
              c \in { << "]" >>, << "]", ":", "8" >>, << >> }
                    \cup { << "1", "0", ".", "1", ".", "1", "." >> \o d : d \in { << "1", "]" >>, << "1" >>, << "1", "." >>, << "1", ".", "]" >> } } }
    \cup { << "a" >> \o t : t \in BoundedSeq({"%", "2", "a", ":", "/"}, 4) }

HostHeads ==
    Requested({Get}, {Root}, {V11}, { << Field("Host", t) >> : t \in Hosts }, { << "LF" >> }, { << >> }, TRUE)

(* White space and controls in names and values, and what looks like a version. *)
ValueHeads ==
    Requested({Get}, {Root}, {V11, << "HTTP/1.1", "HTTP/1.1" >>, << "H" >>, << "HTTP/1.1", "y" >>},
              { << [name |-> n, value |-> v], HostField >> :
                   n \in { << "X" >>, << >>, << "X", "SP" >>, << "Host" >>, << "CTL" >> },
                   v \in { a \o << "y" >> \o b : a, b \in { << >>, << "SP" >>, << "HT", "SP" >>, << "CTL" >> } } },
              { << "LF" >> }, { << >> }, TRUE)
    \cup Requested({Get}, {Root}, {V11},
              { << Field("Host", t) >> : t \in { << ":", "8" >>, << "ex", ":" >>, << "SP", "ex", "SP" >>, << "CTL", "e" >>, << "e", "CTL" >> } },
              {CRLF}, { << >> }, FALSE)

AllHeads == FieldHeads \cup LineHeads \cup ExtraHeads \cup RejectedHeads \cup TargetHeads
               \cup SlashlessHeads \cup ValueHeads \cup HostHeads
=============================================================================
