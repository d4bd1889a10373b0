------------------------------- MODULE FileStore -------------------------------
(***************************************************************************)
(* What the server promises about the files it serves.  A request is       *)
(* carried out at one moment: what it does to the files, and what its      *)
(* answer says, agree with the files as they were then.  Only while others *)
(* change the files during a request is less promised: nothing but the     *)
(* file it is about is touched.                                            *)
(***************************************************************************)
EXTENDS FileSystem, FiniteSetsExt

CONSTANTS
    Clients, NoClient,
    Paths,      \* the paths there are
    Pieces      \* what files and bodies of requests are made of

VARIABLES
    files,      \* for each path the kind of what is there, its content, and if it is sealed
    space,      \* how many pieces the disk still takes
    current,    \* the client whose request is carried out
    asked,      \* what it asks for: "none" if it is not about files
    disturbed,  \* somebody else has changed the files meanwhile
    answers     \* what the clients were answered

vars == << files, space, current, asked, disturbed, answers >>

NoAnswer == [status |-> 0, shown |-> << >>]
Wishes   == [method : { "GET", "POST", "DELETE", "none" }, path : Seq(STRING), body : Seq(Pieces)]
NoWish   == [method |-> "none", path |-> << >>, body |-> << >>]

(* The kinds of files alone, as a tree. *)
Tree == [p \in Paths |-> [kind |-> files[p].kind, inode |-> 0]]

Writes(wish) == wish.method \in { "POST", "DELETE" }

(* What requests are answered with; 301 stands for the code of any redirection. *)
Statuses == { 200, 201, 301, 400, 403, 404, 405, 431, 500, 502 }

Untouched == UNCHANGED << files, space >>

IsPlain(path) == files[path].kind = "file" /\ ~ files[path].sealed

(* Can the path be read, extended or made, removed?  A path without a slash, *)
(* which an alias may lead to, is in no directory that can be looked at.    *)
Can(wish) ==
    CASE wish.method = "GET"    -> wish.path \in Paths /\ IsPlain(wish.path) /\ IsThere(Tree, wish.path)
      [] wish.method = "POST"   ->
            /\ wish.path \in Paths /\ LastSlash(wish.path) # 0
            /\ (IsPlain(wish.path) /\ IsThere(Tree, wish.path)) \/ MayCreate(Tree, wish.path)
      [] wish.method = "DELETE" ->
            /\ wish.path \in Paths /\ files[wish.path].kind = "file"
            /\ IsThere(Tree, wish.path) /\ Kind(Tree, Parent(wish.path)) = "directory"
      [] wish.method = "none"   -> FALSE

Init ==
    /\ files \in [Paths -> [kind : DirectoryKinds \cup {"absent", "file"},
                            content : Seq(Pieces), sealed : BOOLEAN]]
    /\ space \in Nat
    /\ current = NoClient
    /\ asked = NoWish
    /\ disturbed = FALSE
    /\ answers = [c \in Clients |-> NoAnswer]

(* A request is answered without a look at the files. *)
Reject(c) ==
    /\ current = NoClient
    /\ answers[c] = NoAnswer
    /\ \E status \in Statuses : answers' = [answers EXCEPT ![c] = [NoAnswer EXCEPT !.status = status]]
    /\ UNCHANGED << files, space, current, asked, disturbed >>

(* A request comes to be carried out. *)
Begin(c) ==
    /\ current = NoClient
    /\ answers[c] = NoAnswer
    /\ current' = c
    /\ asked' \in Wishes
    /\ disturbed' = FALSE
    /\ UNCHANGED << files, space, answers >>

Done(status, shown) ==
    /\ answers' = [answers EXCEPT ![current] = [status |-> status, shown |-> shown]]
    /\ current' = NoClient
    /\ asked' = NoWish
    /\ disturbed' = FALSE

(* Nothing is done, and the answer says so: it fails, or was not about files. *)
Refuse ==
    /\ ~ disturbed
    /\ ~ Can(asked)
    /\ Untouched
    /\ \E status \in Statuses :
          /\ asked.method # "none" => status >= 400
          /\ Done(status, << >>)

Fetch ==
    /\ ~ disturbed
    /\ asked.method = "GET" /\ Can(asked)
    /\ Untouched
    /\ Done(200, files[asked.path].content)

(* A target that is a directory is answered by one of its files, or a list. *)
Index ==
    /\ ~ disturbed
    /\ asked.method = "GET" /\ asked.path # << >> /\ Last(asked.path) = "/"
    /\ Untouched
    /\ \/ \E q \in Paths :
             /\ IsPrefix(asked.path, q) /\ IsPlain(q) /\ IsThere(Tree, q)
             /\ Done(200, files[q].content)
       \/ IsDirectory(Tree, asked.path) /\ Done(200, << >>)

(***************************************************************************)
(* The body goes behind what is there: all of it, if the disk takes it.    *)
(* If not, the answer is an error, but for a body of one piece: that one   *)
(* was still in a buffer when the answer was formed.                       *)
(***************************************************************************)
Store ==
    /\ ~ disturbed
    /\ asked.method = "POST" /\ Can(asked)
    /\ LET stored == Min({ space, Len(asked.body) })
       IN  /\ files' = [files EXCEPT ![asked.path] =
                           [ kind    |-> "file",
                             content |-> @.content \o SubSeq(asked.body, 1, stored),
                             sealed  |-> @.sealed ]]
           /\ space' = space - stored
           /\ Done(CASE stored < Len(asked.body) /\ Len(asked.body) > 1 -> 500
                     [] OTHER -> IF files[asked.path].kind = "absent" THEN 201 ELSE 200,
                   << >>)

RemoveFile ==
    /\ ~ disturbed
    /\ asked.method = "DELETE" /\ Can(asked)
    /\ files' = [files EXCEPT ![asked.path] = [kind |-> "absent", content |-> << >>, sealed |-> FALSE]]
    /\ UNCHANGED space
    /\ Done(200, << >>)

(* The request of a client touches one file, and only if it may write. *)
OnlyItsFile(touched) ==
    \A p \in Paths : files'[p] # files[p] => p \in touched \/ (Writes(asked) /\ p = asked.path)

(* Somebody else changes a file. *)
Others ==
    /\ \E q \in Paths : OnlyItsFile({q})
    /\ disturbed' = (current # NoClient)
    /\ UNCHANGED << current, asked, answers >>

(* A request goes on while others change the files. *)
Continue ==
    /\ disturbed
    /\ OnlyItsFile({})
    /\ \/ UNCHANGED << current, asked, disturbed, answers >>
       \/ /\ current' = NoClient /\ asked' = NoWish /\ disturbed' = FALSE
          /\ \A c \in Clients \ {current} : answers'[c] = answers[c]

Next ==
    \/ \E c \in Clients : Reject(c) \/ Begin(c)
    \/ current # NoClient /\ (Refuse \/ Fetch \/ Index \/ Store \/ RemoveFile)
    \/ Others
    \/ Continue

Spec == Init /\ [][Next]_vars
=============================================================================
