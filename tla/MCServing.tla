------------------------------- MODULE MCServing -------------------------------
(***************************************************************************)
(* Two families for the run of Serving: two clients with any requests for  *)
(* a small tree, on a disk with and without room, and one request that     *)
(* others interfere with; a third has several servers and locations.       *)
(***************************************************************************)
EXTENDS Serving

CONSTANTS c1, c2

W   == << "/", "w" >>
WD  == W \o << "/", "d" >>      \* a directory with an index file
WE  == W \o << "/", "e" >>      \* one that is empty
WC  == W \o << "/", "c" >>      \* one that is closed
WL  == W \o << "/", "l" >>      \* one that is locked

In(directory, name) == directory \o << "/", name >>

MCPaths == { W, WD, WE, WC, WL, In(W, "f"), In(W, "s"), In(W, "n"), In(WD, "i"), In(WD, "f"),
             In(WE, "n"), In(WC, "f"), In(WC, "n"), In(WL, "f") }

MCTree ==
    [p \in MCPaths |->
        CASE p \in { W, WD, WE } -> Directory
          [] p = WC              -> [kind |-> "closed", inode |-> 0]
          [] p = WL              -> [kind |-> "locked", inode |-> 0]
          [] p = In(W, "f")      -> File(1)
          [] p = In(W, "s")      -> File(2)
          [] p = In(WD, "f")     -> File(3)
          [] p = In(WC, "f")     -> File(4)
          [] p = In(WL, "f")     -> File(5)
          [] p = In(WD, "i")     -> File(6)
          [] OTHER               -> Absent]

MCData == << << "a" >>, << "a" >>, << "b" >>, << "b" >>, << >>, << "a", "b" >> >>

MCShared == { In(W, "f"), In(W, "n"), WE, In(WD, "i") }

All == { << "GET" >>, << "POST" >>, << "DELETE" >> }

Location(uri, values) == [uri |-> uri, values |-> values]
Server(values, locations) == [values |-> values, locations |-> locations]

Root == "root" :> W
Allowing(methods) == "allowed_methods" :> methods

MCServer ==
    Server(Root @@ ("index" :> << << "n" >>, << "i" >> >>),
           << Location(<< "/" >>, Allowing(All)),
              Location(<< "/", "d", "/" >>, Allowing(All) @@ ("autoindex" :> TRUE)),
              Location(<< "/", "e" >>, Allowing(All) @@ ("autoindex" :> TRUE)),
              Location(<< "/", "x" >>, Allowing(All) @@ ("alias" :> WD)),
              Location(<< "/", "g" >>, Allowing(All) @@ ("cgi_pass" :> << "p" >>)),
              Location(<< "/", "r" >>, Allowing(All) @@ ("return" :> << 301, << "/" >> >>)),
              Location(<< "/", "d", "/", "f" >>, Allowing({ << "GET" >> })) >>)

Request(method, p, body) ==
    [host |-> << "h" >>, port |-> << "80" >>, method |-> method, path |-> p, body |-> body]

Reads == { Request("GET", p, << >>) :
             p \in { << "/", "f" >>, << "/", "n" >>, << "/", "d", "/", "f" >>, << "/", "d", "/" >>,
                     << "/", "e", "/" >>, << "/" >>, << "/", "s" >>, << "/", "l", "/", "f" >>,
                     << "/", "f", "/", "f" >>, << "/", "f", "/" >>, << "/", "d" >>,
                     << "/", "x", "/", "/", "f" >>, << "/", "g" >>, << "/", "r" >> } }

Posts == { Request("POST", p, b) :
             p \in { << "/", "f" >>, << "/", "e", "/", "n" >>, << "/", "s" >>, << "/", "c", "/", "n" >>,
                     << "/", "n" >>, << "/", "n", "/", "f" >>, << "/", "d", "/", "f" >>, << "/", "d", "/" >> },
             b \in { << "p" >>, << "p", "q" >> } }

Deletes == { Request("DELETE", p, << >>) :
               p \in { << "/", "f" >>, << "/", "n" >>, << "/", "e" >>, << "/", "e", "/" >>,
                       << "/", "c", "/", "f" >>, << "/", "l", "/", "f" >>, << "/", "x", "/", "f" >> } }

Scenario(servers, requests, room, times) ==
    [servers |-> servers, requests |-> requests, tree |-> MCTree, data |-> MCData, sealed |-> { 2 },
     space |-> room, outsiders |-> times]

Pairs ==
    { Scenario(<< MCServer >>, c1 :> r @@ c2 :> q, n, 0) :
         r \in Reads \cup Posts \cup Deletes, q \in Posts \cup Deletes, n \in { 1, 9 } }

Interfered ==
    { Scenario(<< MCServer >>, c1 :> r @@ c2 :> Request("GET", << "/", "s" >>, << >>), 9, 2) :
         r \in { Request("GET", << "/", "f" >>, << >>), Request("GET", << "/", "d", "/" >>, << >>),
                 Request("GET", << "/", "e", "/" >>, << >>), Request("POST", << "/", "f" >>, << "p" >>),
                 Request("POST", << "/", "n" >>, << "p", "q" >>), Request("DELETE", << "/", "f" >>, << >>) } }

-----------------------------------------------------------------------------
(* Servers of the same and of other ports, and locations in any order.     *)

Port(p)  == "listen" :> << << "0" >>, << p >> >>
Name(n)  == "server_name" :> << << n >> >>

Uris == { << "/" >>, << "/", "d" >>, << "/", "d", "/" >> }

Orders == { << u, v, w >> : u, v, w \in Uris } \cup { << u, v >> : u, v \in Uris }

Located4(order) == [i \in DOMAIN order |-> Location(order[i], Allowing(All) @@ ("alias" :> order[i]))]

HasRoot(order) == << "/" >> \in ToSet(order) /\ IsInjective(order)

Selections ==
    { Scenario(<< Server(Root @@ Port(p) @@ Name(n), Located4(o)),
                  Server(Root @@ Port(q) @@ Name(m), << Location(<< "/" >>, Allowing(All)) >>) >>,
               c1 :> [Request("GET", t, << >>) EXCEPT !.host = << h >>]
                  @@ c2 :> Request("GET", << "/", "d", "/", "f" >>, << >>), 9, 0) :
         p, q \in { "80", "81" }, n, m \in { "h", "k" }, h \in { "h", "k" },
         o \in { x \in Orders : HasRoot(x) },
         t \in { << "/", "d", "/", "f" >>, << "/", "d", "f" >> } }

MCScenarios == Pairs \cup Interfered \cup Selections
=============================================================================
