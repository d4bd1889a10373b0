-------------------------------- MODULE Serving --------------------------------
(***************************************************************************)
(* How requests for files are carried out: the target is resolved, and     *)
(* ResponseHandler and FileHandler look at the file system and change it,  *)
(* one system call at a time.  The server's only thread takes one request  *)
(* after the other, but a reply is sent later than it was formed, and      *)
(* other processes use the same files between any two calls.               *)
(***************************************************************************)
EXTENDS FileSystem, FiniteSetsExt, Target

CONSTANTS
    Clients, NoClient,
    Paths,      \* the paths there are
    Pieces,     \* what files and bodies are made of: as much as a stream buffers
    Shared,     \* the paths that others use, too
    Foreign,    \* what others write there
    Scenarios   \* the servers of the configuration, the requests of the clients, the files
                \* and the disk at first, and how often others change them

ASSUME ClientsAssumption == NoClient \notin Clients /\ Shared \subseteq Paths /\ Foreign \in Pieces

(* A path is a sequence of words and slashes: not empty, and without a slash at its end. *)
ASSUME PathsAssumption == \A p \in Paths : p \in Seq(STRING) /\ p # << >> /\ ~ EndsInSlash(p)

(* The values of a target are what the directives take. *)
IsTarget(config) ==
    /\ config["uri"] \in Seq(STRING)
    /\ config["root"] \in Seq(STRING) /\ config["alias"] \in Seq(STRING)
    /\ config["index"] \in Seq(Seq(STRING)) /\ config["autoindex"] \in BOOLEAN
    /\ IsSet(config["return"]) => config["return"][1] = 301

(* A server always has a location for "/". *)
IsServer(server) ==
    /\ server.locations \in Seq(ToSet(server.locations))
    /\ \A location \in ToSet(server.locations) : IsTarget(TargetConfig(server, location))
    /\ \E location \in ToSet(server.locations) : location.uri = << "/" >>

(* The path of a request is read from its first slash on. *)
Requests ==
    [ host : Seq(STRING), port : Seq(STRING), method : { "GET", "POST", "DELETE" },
      path : { p \in Seq(STRING) : p # << >> /\ p[1] = "/" }, body : Seq(Pieces) ]

IsScenario(s) ==
    /\ s.servers \in Seq(ToSet(s.servers)) \ {<< >>}
    /\ \A server \in ToSet(s.servers) : IsServer(server)
    /\ s.requests \in [Clients -> Requests]
    /\ s.tree \in [Paths -> Entries]
    /\ s.data \in Seq(Seq(Pieces)) /\ s.sealed \subseteq 1 .. Len(s.data)
    /\ WellFormed(s.tree, Len(s.data))
    /\ s.space \in Nat /\ s.outsiders \in Nat

ASSUME ScenariosAssumption == \A s \in Scenarios : IsScenario(s)

VARIABLES
    scenario,
    tree, data, space,      \* the file system, and how many pieces the disk still takes
    outsiders,              \* how often others may still change the files
    client,                 \* the client whose request is carried out
    at,                     \* the call that is made for it next
    target,                 \* its TargetConfig
    path,                   \* its resolved path
    turn,                   \* which index file is looked for
    generate,               \* _generate_index
    created,                \* the file was created for this request
    listed,                 \* the entries that readdir() returns
    replies,                \* status, the open file and its length, and what was sent
    before,                 \* history: files and disk when the request came
    disturbed               \* history: others have changed files since it came

fileSystem == << tree, data, space >>
request    == << client, target, path, turn, generate, created, listed >>
history    == << before, disturbed >>
vars       == << scenario, fileSystem, outsiders, at, request, replies, history >>

NoReply == [status |-> 0, inode |-> 0, length |-> 0, shown |-> << >>, sent |-> FALSE, body |-> << >>]

(* The files as anybody finds them. *)
Files ==
    [p \in Paths |->
        [ kind    |-> tree[p].kind,
          content |-> IF tree[p].kind = "file" THEN data[tree[p].inode] ELSE << >>,
          sealed  |-> tree[p].kind = "file" /\ tree[p].inode \in scenario.sealed ]]

NoRequest ==
    /\ client = NoClient /\ at = "idle" /\ target = << >> /\ path = << >> /\ turn = 1
    /\ generate = FALSE /\ created = FALSE /\ listed = {}
    /\ before = << >> /\ disturbed = FALSE

Init ==
    /\ scenario \in Scenarios
    /\ tree = scenario.tree /\ data = scenario.data /\ space = scenario.space
    /\ outsiders = scenario.outsiders
    /\ replies = [c \in Clients |-> NoReply]
    /\ NoRequest

-----------------------------------------------------------------------------

Method == scenario.requests[client].method
Body   == scenario.requests[client].body

IsAllowedMethod(config, method) == << method >> \in config["allowed_methods"]

ReplyTo(c, status) == replies' = [replies EXCEPT ![c] = [@ EXCEPT !.status = status]]

(* ValidMethod and IsRedirected answer before anything is done. *)
Answered(c, config) ==
    /\ \/ ~ IsAllowedMethod(config, scenario.requests[c].method) /\ ReplyTo(c, 405)
       \/ /\ IsAllowedMethod(config, scenario.requests[c].method)
          /\ IsSet(config["return"])
          /\ ReplyTo(c, config["return"][1])
    /\ UNCHANGED << at, request, history >>

(* GetResolvedPath: the rest of it is SearchIndexFiles. *)
Resolve(c, r, config) ==
    /\ IsAllowedMethod(config, r.method) /\ ~ IsSet(config["return"])
    /\ client' = c
    /\ target' = config
    /\ LET search == IndexIsDue(config, r.path, r.method) /\ config["autoindex"]
       IN  /\ at'   = IF search THEN "index" ELSE "assign"
           /\ path' = IF search THEN Located(config, r.path) ELSE Resolved(config, r.path, r.method)
    /\ before' = [files |-> Files, space |-> space]
    /\ UNCHANGED << turn, generate, created, listed, replies, disturbed >>

(* SetupConfig, and what comes of it. *)
Validate(c) ==
    LET r == scenario.requests[c]
    IN  /\ at = "idle"
        /\ replies[c] = NoReply
        /\ \E server \in { ServerSelection(scenario.servers, r.host, r.port) } :
              \E location \in { LocationSelection(server, r.path) } :
                 \E config \in { TargetConfig(server, location) } :
                    Answered(c, config) \/ Resolve(c, r, config)
        /\ UNCHANGED << scenario, fileSystem, outsiders >>

Goto(step) == at' = step /\ UNCHANGED << request, history, replies >>

(* FormResponse: the request is done with.  shown is history. *)
FormResponse(status, inode, length, shown) ==
    /\ replies' = [replies EXCEPT ![client] =
                      [@ EXCEPT !.status = status, !.inode = inode, !.length = length, !.shown = shown]]
    /\ client' = NoClient /\ at' = "idle" /\ target' = << >> /\ path' = << >> /\ turn' = 1
    /\ generate' = FALSE /\ created' = FALSE /\ listed' = {}
    /\ before' = << >> /\ disturbed' = FALSE

(* A reply whose body is a text of the server's own. *)
Reply(status) == FormResponse(status, 0, 0, << >>)

(* GetFileHandlingError *)
FileHandlingError(errno) ==
    CASE errno = "ENOENT" -> 404 [] errno = "EACCES" -> 403 [] OTHER -> 500

(* Mutant: the search goes on with the same file. *)
NextTurnSame(n) == n

NextTurn(n) == n + 1

SearchIndexFiles ==
    /\ at = "index"
    /\ IF turn > Len(target["index"])
          THEN /\ generate' = TRUE /\ path' = CleanUpPath(path) /\ at' = "assign"
               /\ UNCHANGED turn
          ELSE LET file == CleanUpPath(path \o target["index"][turn])
               IN  /\ IF IsThere(tree, file)
                         THEN path' = file /\ at' = "assign" /\ UNCHANGED turn
                         ELSE turn' = NextTurn(turn) /\ UNCHANGED << path, at >>
                   /\ UNCHANGED generate
    /\ UNCHANGED << scenario, fileSystem, outsiders, client, target, created, listed, replies, history >>

(* IsHandledByCGI and DetermineMethod *)
Handler ==
    CASE IsSet(target["cgi_pass"])                       -> "cgi"
      [] ~ IsSet(target["cgi_pass"]) /\ generate         -> "list"
      [] ~ IsSet(target["cgi_pass"]) /\ ~ generate       ->
            CASE Method = "GET" -> "get" [] Method = "POST" -> "subdir" [] Method = "DELETE" -> "find"

AssignResponseResolvedPath ==
    /\ at = "assign"
    /\ \/ path = << >> /\ Reply(404)
       \/ EndsInSlash(path) /\ ~ IsDirectory(tree, path) /\ Reply(403)
       \/ path # << >> /\ (EndsInSlash(path) => IsDirectory(tree, path)) /\ Goto(Handler)
    /\ UNCHANGED << scenario, fileSystem, outsiders >>

(***************************************************************************)
(* A program's reply, or what CGI::Setup and Execute throw, or the parser  *)
(* that reads the header fields of its output; see CGI and CGIScript.      *)
(***************************************************************************)
HandleCGI ==
    /\ at = "cgi"
    /\ \E status \in { 200, 400, 403, 404, 431, 500, 502 } : Reply(status)
    /\ UNCHANGED << scenario, fileSystem, outsiders >>

-----------------------------------------------------------------------------
(* GET *)

GetFile ==
    /\ at = "get"
    /\ IF IsThere(tree, path) THEN Goto("kind") ELSE Reply(FileHandlingError(Stat(tree, path)))
    /\ UNCHANGED << scenario, fileSystem, outsiders >>

NoDirectory ==
    /\ at = "kind"
    /\ IF IsDirectory(tree, path) THEN Reply(404) ELSE Goto("open")
    /\ UNCHANGED << scenario, fileSystem, outsiders >>

(* A file that can be opened: for reading and writing at once, in any case. *)
IsOpenable(p) == Stat(tree, p) = "file" /\ Inode(tree, p) \notin scenario.sealed

(* GetStreamSize: what the file holds when the reply is formed. *)
StreamSize(inode) == Len(data[inode])

CreateStreamFromPath ==
    /\ at = "open"
    /\ IF IsOpenable(path)
          THEN FormResponse(200, Inode(tree, path), StreamSize(Inode(tree, path)), data[Inode(tree, path)])
          ELSE Reply(500)
    /\ UNCHANGED << scenario, fileSystem, outsiders >>

(* ExecuteGetGeneratedIndex: the directory is read, then each entry's stat() taken. *)
OpenDirectory ==
    /\ at = "list"
    /\ IF Stat(tree, path) \in { "directory", "closed" }
          THEN /\ listed' = Inside(tree, WithoutSlash(path))
               /\ at' = "entries"
               /\ UNCHANGED << client, target, path, turn, generate, created, history, replies >>
          ELSE Reply(500)
    /\ UNCHANGED << scenario, fileSystem, outsiders >>

FormatLines ==
    /\ at = "entries"
    /\ Reply(IF \A e \in listed : IsThere(tree, e) THEN 200 ELSE 500)
    /\ UNCHANGED << scenario, fileSystem, outsiders >>

-----------------------------------------------------------------------------
(* POST *)

DirectoryPath(p) == SubSeq(p, 1, LastSlash(p))

ValidSubDirectory ==
    /\ at = "subdir"
    /\ IF DirectoryPath(path) = << "/" >> \/ IsDirectory(tree, DirectoryPath(path))
          THEN Goto("look")
          ELSE Reply(403)
    /\ UNCHANGED << scenario, fileSystem, outsiders >>

(* Mutant: the file is created without a look whether it is there. *)
MustCreateAlways(errno) == TRUE

MustCreate(errno) == errno = "ENOENT"

CreateFileIfNeeded ==
    /\ at = "look"
    /\ Goto(IF MustCreate(Stat(tree, path)) THEN "create" ELSE "write")
    /\ UNCHANGED << scenario, fileSystem, outsiders >>

NewFile(content) ==
    /\ tree' = [tree EXCEPT ![path] = File(Len(data) + 1)]
    /\ data' = Append(data, content)

(* What creat() fails with. *)
CreateErrno ==
    CASE Stat(tree, path) = "ENOENT" /\ Kind(tree, Parent(path)) = "closed" -> "EACCES"
      [] Stat(tree, path) = "ENOENT" /\ Kind(tree, Parent(path)) # "closed" -> "ENOENT"
      [] Stat(tree, path) = "file"                                          -> "EACCES"
      [] OTHER -> IF IsDirectory(tree, path) THEN "EISDIR" ELSE Stat(tree, path)

(* A file that was made since it was looked for is emptied. *)
CreateFile ==
    /\ at = "create"
    /\ IF IsOpenable(path) \/ MayCreate(tree, path)
          THEN /\ IF IsOpenable(path)
                     THEN data' = [data EXCEPT ![Inode(tree, path)] = << >>] /\ UNCHANGED tree
                     ELSE NewFile(<< >>)
               /\ at' = "write" /\ created' = TRUE
               /\ UNCHANGED << client, target, path, turn, generate, listed, history, replies >>
          ELSE Reply(FileHandlingError(CreateErrno)) /\ UNCHANGED << tree, data >>
    /\ UNCHANGED << scenario, space, outsiders >>

(***************************************************************************)
(* WriteToFile: a body of one piece stays in the stream's buffer until the *)
(* stream is gone, and a full disk is noticed by nobody; more is written   *)
(* at once.                                                                *)
(***************************************************************************)
Stored == Min({ space, Len(Body) })

IsNoticed == Stored < Len(Body) /\ Len(Body) > 1

(* Mutant: the file is opened without std::ios_base::app. *)
AppendedInPlace(content, piece) == piece \o SubSeq(content, Len(piece) + 1, Len(content))

Appended(content, piece) == content \o piece

WriteToFile ==
    /\ at = "write"
    /\ IF IsOpenable(path) \/ MayCreate(tree, path)
          THEN /\ IF IsOpenable(path)
                     THEN /\ data' = [data EXCEPT ![Inode(tree, path)] = Appended(@, SubSeq(Body, 1, Stored))]
                          /\ UNCHANGED tree
                     ELSE NewFile(SubSeq(Body, 1, Stored))
               /\ space' = space - Stored
               /\ IF IsNoticed THEN Reply(500) ELSE Reply(IF created THEN 201 ELSE 200)
          ELSE Reply(500) /\ UNCHANGED fileSystem
    /\ UNCHANGED << scenario, outsiders >>

-----------------------------------------------------------------------------
(* DELETE *)

FindFile ==
    /\ at = "find"
    /\ IF IsThere(tree, path) THEN Goto("regular") ELSE Reply(FileHandlingError(Stat(tree, path)))
    /\ UNCHANGED << scenario, fileSystem, outsiders >>

IsRegularFile(p) == Stat(tree, p) = "file"

RegularOnly ==
    /\ at = "regular"
    /\ IF IsRegularFile(path) THEN Goto("remove") ELSE Reply(403)
    /\ UNCHANGED << scenario, fileSystem, outsiders >>

(* remove() takes a file, or a directory that is empty. *)
IsRemovable(p) ==
    /\ IsThere(tree, p) /\ Kind(tree, Parent(p)) = "directory"
    /\ IsDirectory(tree, p) => Inside(tree, WithoutSlash(p)) = {}

RemoveFile ==
    /\ at = "remove"
    /\ IF IsRemovable(path)
          THEN tree' = [tree EXCEPT ![WithoutSlash(path)] = Absent] /\ Reply(200)
          ELSE Reply(500) /\ UNCHANGED tree
    /\ UNCHANGED << scenario, data, space, outsiders >>

-----------------------------------------------------------------------------

(* Send reads the body: as much as the file holds by now. *)
Send(c) ==
    /\ at = "idle"
    /\ replies[c].status # 0 /\ ~ replies[c].sent
    /\ replies' = [replies EXCEPT ![c] =
                      [@ EXCEPT !.sent = TRUE, !.body = IF replies[c].inode # 0
                                                           THEN data[replies[c].inode] ELSE << >>]]
    /\ UNCHANGED << scenario, fileSystem, outsiders, at, request, history >>

(* Others remove, make or extend a file, or make or remove a directory. *)
Outside(p) ==
    /\ outsiders > 0
    /\ outsiders' = outsiders - 1
    /\ \/ /\ tree[p].kind = "file"
          /\ \/ tree' = [tree EXCEPT ![p] = Absent] /\ UNCHANGED data
             \/ data' = [data EXCEPT ![tree[p].inode] = Append(@, Foreign)] /\ UNCHANGED tree
       \/ /\ MayCreate(tree, p)
          /\ \/ tree' = [tree EXCEPT ![p] = File(Len(data) + 1)] /\ data' = Append(data, << Foreign >>)
             \/ tree' = [tree EXCEPT ![p] = Directory] /\ UNCHANGED data
       \/ /\ tree[p].kind = "directory" /\ Inside(tree, p) = {}
          /\ tree' = [tree EXCEPT ![p] = Absent] /\ UNCHANGED data
    /\ disturbed' = (client # NoClient)
    /\ UNCHANGED << scenario, space, at, request, replies, before >>

Serve ==
    \/ \E c \in Clients : Validate(c) \/ Send(c)
    \/ SearchIndexFiles \/ AssignResponseResolvedPath \/ HandleCGI
    \/ GetFile \/ NoDirectory \/ CreateStreamFromPath \/ OpenDirectory \/ FormatLines
    \/ ValidSubDirectory \/ CreateFileIfNeeded \/ CreateFile \/ WriteToFile
    \/ FindFile \/ RegularOnly \/ RemoveFile

(* Everybody was answered. *)
AllSent == \A c \in Clients : replies[c].sent

Next == Serve \/ (\E p \in Shared : Outside(p))

Spec == Init /\ [][Next]_vars /\ WF_vars(Serve)

-----------------------------------------------------------------------------

(***************************************************************************)
(* What is asked of the files: a request that its location allows, and     *)
(* that is neither redirected nor given to a program.                      *)
(***************************************************************************)
Asked ==
    IF client = NoClient THEN [method |-> "none", path |-> << >>, body |-> << >>]
    ELSE [ method |-> IF << Method >> \in target["allowed_methods"] /\ target["return"] = << >> /\ target["cgi_pass"] = << >>
                         THEN Method ELSE "none",
           path   |-> CleanUpPath(Located(target, scenario.requests[client].path)),
           body   |-> Body ]

IsHidden == client # NoClient /\ ~ disturbed

Store ==
    INSTANCE FileStore WITH
        files   <- IF IsHidden THEN before.files ELSE Files,
        space   <- IF IsHidden THEN before.space ELSE space,
        current <- client,
        asked   <- Asked,
        answers <- [c \in Clients |->
                       [status |-> replies[c].status, shown |-> replies[c].shown]]

(***************************************************************************)
(* The calls that are made for a request, taken together, do what FileStore *)
(* promises: what happens to the files and what the answer says is what    *)
(* one step would do, unless others interfere, and then it is still only   *)
(* the file that was asked for that is touched.                            *)
(***************************************************************************)
ImplementsFileStore == Store!Spec

(* The servers a request with this port may be for. *)
Candidates(servers, port) ==
    LET ofPort == { i \in DOMAIN servers : PortNumber(servers[i]) = port }
    IN  IF ofPort = {} THEN DOMAIN servers ELSE ofPort

IsServerFor(servers, i, r) ==
    LET candidates == Candidates(servers, r.port)
        named      == { j \in candidates : r.host \in ServerNames(servers[j]) }
    IN  i = Min(IF named = {} THEN candidates ELSE named)

IsLocationFor(locations, l, p) ==
    /\ IsPrefix(locations[l].uri, p)
    /\ \A k \in DOMAIN locations :
          IsPrefix(locations[k].uri, p) => Len(locations[k].uri) <= Len(locations[l].uri)

(***************************************************************************)
(* A request is carried out with the values of the location whose URI is   *)
(* the longest that its target begins with, in the server of its port and  *)
(* name: in whatever order the configuration gives them, and whatever the  *)
(* others are.                                                             *)
(***************************************************************************)
TheBestLocationServes ==
    client # NoClient =>
       LET r == scenario.requests[client]
       IN  \E i \in DOMAIN scenario.servers :
              /\ IsServerFor(scenario.servers, i, r)
              /\ \E l \in DOMAIN scenario.servers[i].locations :
                    /\ IsLocationFor(scenario.servers[i].locations, l, r.path)
                    /\ target = TargetConfig(scenario.servers[i], scenario.servers[i].locations[l])

(***************************************************************************)
(* What is sent of a file begins with all that was there when its length   *)
(* was announced, although other requests and other processes extended,    *)
(* removed or replaced the file before it was sent.                        *)
(***************************************************************************)
WhatWasAnnouncedIsSent ==
    \A c \in Clients : replies[c].sent /\ replies[c].inode # 0 =>
        /\ replies[c].length = Len(replies[c].shown)
        /\ IsPrefix(replies[c].shown, replies[c].body)

(***************************************************************************)
(* Every request is answered: none of the calls made for one leads back to *)
(* where it has been.                                                      *)
(***************************************************************************)
EveryRequestIsAnswered == <>AllSent
=============================================================================
