--------------------------------- MODULE MCCGI ---------------------------------
(***************************************************************************)
(* The requests and programs of the run of CGI, in two families: bodies    *)
(* and output that are empty, fit, and do not fit a pipe of two bytes; and *)
(* sites with programs and files, right and wrong, and errands to them.    *)
(***************************************************************************)
EXTENDS CGI

W == << "/", "s" >>                     \* where the server was started
C == << "/", "c" >>
N == << "/", "c", "n" >>                \* begins like it
P == << "/", "p" >>
Q == << "/", "q" >>
Y == << "/", "a", ".", "y" >>
X == << "/", "a", "x", "y" >>           \* without the period
B == << "/", "b" >>

Runnable == { W \o C \o P, B \o P, W \o P, W \o C, C, B, W }

(* With the directory of the programs also where its path alone leads, or not. *)
Tree(twice) ==
    [ p \in Runnable \cup { W \o C \o Q, W \o C \o Y, W \o C \o X } |->
         CASE p = C                       -> IF twice THEN Directory ELSE Absent
           [] p \in { W, W \o C, B }      -> Directory
           [] p \notin { C, W, W \o C, B } -> File(1) ]

Pass(extension, executable) == [file_extension |-> extension, executable_path |-> executable]

Period == << "." >>

Passes ==
    { Pass(<< >>, Period \o P), Pass(<< >>, Period \o Q), Pass(<< >>, B \o P), Pass(<< >>, W \o C \o P),
      Pass(<< ".", "y" >>, B \o P), Pass(<< ".", "y" >>, Period \o P), Pass(<< ".", "y" >>, B \o Q) }

Slash == << "/" >>

Site(twice, uri, values, pass) ==
    [ cwd |-> W, tree |-> Tree(twice), runnable |-> Runnable \ (IF twice THEN {} ELSE {C}),
      config |-> TargetConfig([values |-> << >>],
                              [uri |-> uri, values |-> values @@ ("cgi_pass" :> pass)]) ]

Sites ==
    { Site(twice, uri, "root" :> root, pass) :
         twice \in BOOLEAN, uri \in { C, C \o Slash }, root \in { Slash, << "w" >> }, pass \in Passes }
    \cup { Site(twice, uri, "alias" :> alias, pass) :
              twice \in BOOLEAN, uri \in { C, C \o Slash }, alias \in { C, C \o Slash }, pass \in Passes }

Asking(site, method, path, query) ==
    [host |-> << "h" >>, path |-> path, query |-> query, method |-> method, site |-> site]

OtherErrands ==
    { e \in { Asking(s, m, C \o x, q) :
                s \in Sites, m \in { "GET", "DELETE" },
                x \in { Slash, P, Q, Y, X, P \o << "p" >>, P \o Slash, << "n" >> \o P, << >> },
                q \in { << >>, << "k" >>, << "k", "/" >> } } :
         IsPrefix(e.site.config["uri"], e.path) }

Anything == [octets |-> 0, layers |-> 0]

Trivial == [reads |-> "nothing", first |-> "reads", output |-> 0, status |-> 0, executes |-> TRUE]

ErrandCall(e) == [errand |-> e, request |-> [method |-> e.method] @@ Anything, program |-> Trivial]

-----------------------------------------------------------------------------

(* A program that is there. *)
Plain(method) ==
    Asking(Site(TRUE, C \o Slash, "root" :> Slash, Pass(<< >>, Period \o P)), method, C \o P, << >>)

Gets == [method : {"GET"}, octets : {0}, layers : {0}]

Posts ==
    [method : {"POST"}, octets : {0}, layers : {0}]
       \cup [method : {"POST"}, octets : {1, 3}, layers : 0 .. 2]

(* A body that is not decoded yet when it is written. *)
PostsInLayers == [method : {"POST"}, octets : {1}, layers : {4}]

(* Programs that take a body by its CONTENT_LENGTH, as those of cgi-bin. *)
ByLength ==
    [ reads : {"length"}, first : {"reads"}, output : {0, 1, 3}, status : {0, 1},
      executes : BOOLEAN ]

(* Programs that write first, or leave their input alone: their output  *)
(* fits the pipe, or else they and the server could wait for each other. *)
WritesFirst ==
    [ reads : {"length"}, first : {"writes"}, output : {2}, status : {0},
      executes : {TRUE} ]

ReadsNothing ==
    [ reads : {"nothing"}, first : {"reads"}, output : {0, 2}, status : {0, 1},
      executes : {TRUE} ]

Programs == ByLength \cup WritesFirst \cup ReadsNothing

PairsOf(requests, programs) == [request : requests, program : programs]

ServiceCalls(method) ==
    { [errand |-> Plain(method)] @@ c :
         c \in IF method = "GET" THEN PairsOf(Gets, Programs)
                                 ELSE PairsOf(Posts, Programs) \cup PairsOf(PostsInLayers, ReadsNothing) }

Plains == { Plain("GET"), Plain("POST") }

MCErrands == OtherErrands \cup Plains

MCCalls(e) == IF e \in Plains THEN ServiceCalls(e.method) ELSE { ErrandCall(e) }
=============================================================================
