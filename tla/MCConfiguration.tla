--------------------------- MODULE MCConfiguration ---------------------------
(***************************************************************************)
(* The sources of the run of Configuration, in families: the values of     *)
(* each directive, pairs of directives and of locations, and files that    *)
(* lack a ';', a '}' or more.                                              *)
(***************************************************************************)
EXTENDS Configuration

D(key, args)     == [key |-> key, args |-> args, closed |-> TRUE]
Open(key, args)  == [key |-> key, args |-> args, closed |-> FALSE]
Remark(args)     == [key |-> "#", args |-> args, closed |-> TRUE]
Location(uri, body) == [key |-> "location", args |-> << uri >>, body |-> body, closed |-> TRUE]
Server(body)     == [word |-> << "server" >>, body |-> body, closed |-> TRUE]

MCIPv6 == { << ":", ":", "1" >>, << ":", ":" >> }

A == << "a" >>
B == << "b" >>
PathA == << "/", "a" >>
Slash == << "/" >>

Loopback == << "1", "2", "7", ".", "0", ".", "0", ".", "1" >>
V6       == << "[", ":", ":", "1", "]" >>

Addresses ==
    { Loopback, << "localhost" >>, << "*" >>, << "0" >>, V6, << "[", ":", ":", "]" >>,
      << "1", ".", "2", ".", "3" >>, << "2", "5", "6", ".", "0", ".", "0", ".", "1" >>,
      << "1", ".", "0", "1", ".", "0", ".", "1" >>, << "[", "1", "]" >>, A, << "[", ":", ":", "1", "x" >>,
      << "1", ".", "1", ".", "1", "." >> }
Ports == { << "8", "0" >>, << "0" >>, << "0", "8" >>, << "6", "5", "5", "3", "5" >>,
           << "6", "5", "5", "3", "6" >>, A, << "8", "a" >> }

ListenArgs ==
    { << t >> : t \in Addresses \cup Ports } \cup { << a \o << ":" >> \o p >> : a \in Addresses, p \in Ports }
    \cup { << << ":", "8" >> >>, << Loopback \o << ":" >> >>, << << "8", "0" >>, << "8", "1" >> >> }

Sizes == { << "5" >>, << "5", "m" >>, << "5", "M" >>, << "m" >>, << "m", "5" >>, << "5", "m", "m" >>,
           << "5", "m", "5" >>, << "5", "k" >>, << "9", "9" >>, << "1", "0", "0" >>, << "1", "0", "1" >>,
           << "1", "0", "0", "1" >> }

Values ==
    { D("client_max_body_size", << s >>) : s \in Sizes }
    \cup { D("client_max_body_size", << << "5" >>, << "m" >> >>), D("autoindex", << << "on" >> >>),
           D("autoindex", << << "off" >> >>), D("autoindex", << A >>), D("autoindex", << << "on" >>, A >>),
           D("error_page", << << "4", "0", "4" >>, PathA >>), D("error_page", << PathA >>),
           D("error_page", << << "4", "0", "4" >>, A >>),
           D("error_page", << << "4", "0", "4" >>, << "5", "0", "0" >>, PathA >>),
           D("error_page", << << "4", "0", "4" >>, << "4", "0", "4" >>, PathA >>),
           D("error_page", << << "2", "9", "9" >>, PathA >>), D("error_page", << << "6", "0", "0" >>, PathA >>),
           D("error_page", << A, PathA >>),
           D("return", << << "3", "0", "1" >> >>), D("return", << << "3", "0", "1" >>, PathA >>),
           D("return", << PathA >>), D("return", << << "9", "9", "9" >>, A >>), D("return", << << "0" >>, A, B >>),
           D("root", << PathA >>), D("root", << PathA, A >>), D("index", << A, B >>), D("index", << >>),
           D("listen", << << "8", "0" >> >>), D("server_name", << A, B >>) }

LocationValues ==
    { D("autoindex", << << "on" >> >>), D("root", << PathA >>), D("alias", << PathA >>), D("alias", << A, B >>),
      D("cgi_pass", << PathA >>), D("cgi_pass", << A >>), D("cgi_pass", << << ".", "p" >>, PathA >>),
      D("cgi_pass", << A, PathA >>), D("cgi_pass", << << ".", "p" >>, PathA, A >>),
      D("allowed_methods", << << "GET" >>, << "POST" >>, << "DELETE" >> >>),
      D("allowed_methods", << << "GET" >>, << "GET" >> >>), D("allowed_methods", << << "PUT" >> >>),
      D("allowed_methods", << << "GET" >>, << "GET" >>, << "GET" >>, << "GET" >> >>),
      D("return", << << "3", "0", "1" >>, A >>), D("index", << A >>), D("error_page", << PathA >>),
      D("client_max_body_size", << << "7" >> >>), D("listen", << << "8", "0" >> >>),
      Remark(<< A >>), Open("index", << B >>), D("nonsense", << A >>) }

LocationUris == { Slash, PathA, << "/", "a", "/" >>, << "/", "%", "2", "E" >>, A, << "/", "/" >>,
                  << "/", "a", "?", "b" >>, << "/", "a", "?" >> }

ValueSources ==
    { << Server(<< D("listen", a) >>) >> : a \in ListenArgs }
    \cup { << Server(<< d, e >>) >> : d, e \in Values \cup { Remark(<< A, << ";" >>, << "}" >> >>) } }

LocationSources ==
    { << Server(<< Location(Slash, << d, e >>) >>) >> : d, e \in LocationValues }
    \cup { << Server(<< Location(u, << D("root", << A >>) >>), D("index", << A >>), Location(v, << >>) >>) >> :
              u, v \in LocationUris }

(* Files with something missing, in one or the other of two servers. *)
Bodies ==
    { << >>, << Open("listen", << << "8", "0" >> >>) >>, << D("index", << A >>), Open("root", << PathA >>) >>,
      << Open("server_name", << A >>), D("index", << A >>) >>, << Open("server_name", << >>) >>,
      << D("server_name", << << "}" >>, << "}" >> >>), [Location(Slash, << D("index", << A >>) >>) EXCEPT !.closed = FALSE] >>,
      << D("server_name", << << "}" >> >>), [Location(Slash, << D("index", << A >>) >>) EXCEPT !.closed = FALSE] >>,
      << [Location(Slash, << >>) EXCEPT !.args = << >>, !.closed = FALSE] >>, << [Location(Slash, << >>) EXCEPT !.args = << >>] >>,
      << [Location(Slash, << >>) EXCEPT !.args = << Slash, A >>] >>,
      << [Location(Slash, << >>) EXCEPT !.args = << Slash, << "}" >> >>] >>, << Location(<< ";" >>, << >>) >>,
      << Open("root", << PathA >>), Location(Slash, << >>) >>,
      << Location(Slash, << D("index", << << "{" >>, << ";" >>, << "}" >> >>) >>) >>,
      << Location(Slash, << >>), Location(PathA, << Open("index", << A >>) >>) >>,
      << Location(Slash, << Open("index", << A >>), D("root", << PathA >>) >>) >> }

Blocks == [word : { << "server" >>, << "sirver" >>, << "http" >>, << "sever" >> }, body : Bodies, closed : BOOLEAN]

StructureSources == { << >> } \cup { << b >> : b \in Blocks } \cup { << b, c >> : b \in Blocks, c \in { d \in Blocks : d.word = << "server" >> /\ Len(d.body) = 1 } }
   \cup { << Server(<< Open("server_name", << >>) >>), [word |-> << ";" >>, body |-> << >>, closed |-> FALSE] >> }

MCSources == ValueSources \cup LocationSources \cup StructureSources
=============================================================================
