-------------------------------- MODULE Target --------------------------------
(***************************************************************************)
(* What a request is directed at: the server and the location that are     *)
(* chosen for it, the values that hold there, and the path of the file, as *)
(* resolved_target/ finds them.  Servers and locations are the records of  *)
(* Configuration; a text is a sequence of characters or, where nothing     *)
(* tells them apart, of words; a slash is always one by itself.            *)
(***************************************************************************)
EXTENDS Naturals, SequencesExt

(* What a server without the directive has. *)
Default ==
    [ listen |-> << << "80" >>, << "0" >> >>,
      server_name |-> << << "localhost" >> >>,
      root  |-> << "/", "www", "/", "html" >>,
      index |-> << << "index.php" >>, << "index.html" >>, << "index.htm" >>,
                   << "index.nginx-debian.html" >> >>,
      client_max_body_size |-> 1, error_page |-> << >>, autoindex |-> FALSE,
      return |-> << >>, alias |-> << >>, cgi_pass |-> << >>, allowed_methods |-> {} ]

Directive(values, key) == IF key \in DOMAIN values THEN values[key] ELSE Default[key]

-----------------------------------------------------------------------------
(* ServerSelection: host and port are those of the request's Host field.   *)

PortNumber(s)  == Directive(s.values, "listen")[2]
ServerNames(s) == ToSet(Directive(s.values, "server_name"))

CompatiblePorts(servers, port) ==
    FoldLeft(LAMBDA some, s : IF PortNumber(s) = port THEN Append(some, s) ELSE some, << >>, servers)

(* The first one of that name, or else the first. *)
CompatibleServerName(servers, host) ==
    LET named == SelectInSeq(servers, LAMBDA s : host \in ServerNames(s))
    IN  IF named = 0 THEN servers[1] ELSE servers[named]

(* SelectCompatiblePorts, SelectCompatibleServerNames.  The only server of a *)
(* port is taken whatever its name, being the first of them.               *)
ServerSelection(servers, host, port) ==
    LET compatible == CompatiblePorts(servers, port)
    IN  IF compatible = << >>
           THEN CompatibleServerName(servers, host)
           ELSE CompatibleServerName(compatible, host)

-----------------------------------------------------------------------------

CompatibleLocations(locations, path) ==
    FoldLeft(LAMBDA some, l : IF IsPrefix(l.uri, path) THEN Append(some, l) ELSE some, << >>, locations)

(* Mutant: the first location that matches is taken. *)
LongestMatchFirst(locations) == locations[1]

(* GetLongestMatch: a later location must match more than those before. *)
LongestMatch(locations) ==
    FoldLeft(LAMBDA best, l : IF Len(l.uri) > Len(best.uri) THEN l ELSE best, locations[1], locations)

LocationSelection(server, path) ==
    LET compatible == CompatibleLocations(server.locations, path)
    IN  IF compatible = << >> THEN server.locations[1] ELSE LongestMatch(compatible)

-----------------------------------------------------------------------------

(* A directive of the location, or else of its server. *)
Inherited(server, location, key) ==
    IF key \in DOMAIN location.values THEN location.values[key] ELSE Directive(server.values, key)

LocationKeysOnly  == { "cgi_pass", "allowed_methods", "alias" }
InheritedKeys     == { "root", "index", "client_max_body_size", "error_page", "autoindex", "return" }

(* TargetConfig::Setup *)
TargetConfig(server, location) ==
    [ key \in LocationKeysOnly \cup InheritedKeys \cup {"uri"} |->
         CASE key = "uri"               -> location.uri
           [] key \in LocationKeysOnly  -> Directive(location.values, key)
           [] key \in InheritedKeys     -> Inherited(server, location, key) ]

IsSet(value) == value # << >>

-----------------------------------------------------------------------------
(* ResolvedPath *)

(* CleanUpPath: one slash for several. *)
CleanUpPath(path) ==
    FoldLeft(LAMBDA p, c : IF c = "/" /\ p # << >> /\ Last(p) = "/" THEN p ELSE Append(p, c), << >>, path)

(* What location and target begin with alike gives way to the alias. *)
ReplaceAlias(target, path) ==
    LET common == LongestCommonPrefix({ target["uri"], path })
    IN  target["alias"] \o SubSeq(path, Len(common) + 1, Len(path))

AppendRoot(target, path) == target["root"] \o path

EndsInSlash(path) == path # << >> /\ Last(path) = "/"

(* The path before index files are looked for. *)
Located(target, path) ==
    IF IsSet(target["alias"]) THEN ReplaceAlias(target, path) ELSE AppendRoot(target, path)

IndexIsDue(target, path, method) ==
    EndsInSlash(Located(target, path)) /\ method = "GET" /\ ~ IsSet(target["cgi_pass"])

(* Resolve where no index file is looked for. *)
Resolved(target, path, method) ==
    IF IndexIsDue(target, path, method) /\ ~ target["autoindex"]
       THEN << >>
       ELSE CleanUpPath(Located(target, path))
=============================================================================
