------------------------------- MODULE CGIScript -------------------------------
(***************************************************************************)
(* Which program is run for a request, and with which file: what class CGI *)
(* does in Setup, and what is done with the resolved path before.          *)
(*                                                                         *)
(* An errand l is a request for a program: its host, path, query and       *)
(* method, and the site it is sent to, which has files, the directory that *)
(* the server was started in (cwd), the files that may be executed         *)
(* (runnable) and the TargetConfig of the location.  Names and paths are   *)
(* sequences of characters.                                                *)
(***************************************************************************)
EXTENDS FileSystem, FiniteSetsExt, Target

cgi_pass(l) == l.site.config["cgi_pass"]

HasTwoArguments(l) == cgi_pass(l).file_extension # << >>

LocationIsDir(l) == EndsInSlash(l.site.config["uri"])

(* GetParsedURI: the Host field has set the host before it. *)
ParsedURI(l) == l.host \o l.path \o IF l.query = << >> THEN << >> ELSE << "?" >> \o l.query

ResolvedPath(l) == Resolved(l.site.config, l.path, l.method)

(* _path *)
Path(l) == l.site.cwd \o ResolvedPath(l)

IsAbsolutePath(path) == path[1] = "/"

MakeAbsolutePath(executable, path) ==
    path \o IF IsPrefix(<< ".", "/" >>, executable) THEN SubSeq(executable, 3, Len(executable)) ELSE executable

(* What the system takes a path for. *)
OnDisk(l, path) ==
    IF IsAbsolutePath(path) THEN path ELSE MakeAbsolutePath(path, l.site.cwd \o << "/" >>)

IsValidFile(l, path) == IsThere(l.site.tree, OnDisk(l, path))

-----------------------------------------------------------------------------
(* The comparison of names. *)

RemoveQuery(path) == SubSeq(path, 1, SelectInSeq(path \o << "?" >>, LAMBDA c : c = "?") - 1)

FromBehind(name, n) == name[Len(name) - n]

(* Mutant: it is enough that one name ends in the other. *)
EndAlikeSuffix(one, two) == IsSuffix(one, two) \/ IsSuffix(two, one)

(***************************************************************************)
(* FileNameCompare goes back from the ends until the names differ or both  *)
(* have a slash; the first character of each is not looked at.             *)
(***************************************************************************)
EndAlike(one, two) ==
    LET compared == 0 .. Min({ Len(one), Len(two) }) - 2
        stops    == { n \in compared : FromBehind(one, n) # FromBehind(two, n) \/ FromBehind(one, n) = "/" }
    IN  IF stops = {}
           THEN Len(one) = Len(two)
           ELSE FromBehind(one, Min(stops)) = FromBehind(two, Min(stops))

FileNameCompare(l, one, two) ==
    IF l.method = "GET" THEN EndAlike(RemoveQuery(one), RemoveQuery(two)) ELSE EndAlike(one, two)

(* The first character of the extension, its period, is not compared. *)
HasExtension(l, name) ==
    LET extension == cgi_pass(l).file_extension
    IN  Len(name) >= Len(extension) /\ IsSuffix(Tail(extension), name)

-----------------------------------------------------------------------------
(***************************************************************************)
(* What a function comes to: what it returns, with status 200, or an       *)
(* exception with its status.                                              *)
(***************************************************************************)
Found(value)  == [status |-> 200, value |-> value]
Exception(status) == [status |-> status, value |-> << >>]

(* The first failure of two. *)
AndThen(one, two) == IF one.status = 200 THEN two ELSE one

(* A program that would be executed in place of the file asked for. *)
IsAnotherFile(l, path) == ~ EndsInSlash(Path(l)) /\ IsValidFile(l, Path(l)) /\ Path(l) # path

(* IsValidPath, ValidScript, IsExecutable *)
ValidPath(l, path) ==
    CASE ~ IsValidFile(l, path) -> Exception(404)
      [] IsValidFile(l, path) /\ HasTwoArguments(l) -> Found(path)
      [] IsValidFile(l, path) /\ ~ HasTwoArguments(l) ->
            IF IsAnotherFile(l, path)
               THEN Exception(404)
               ELSE IF OnDisk(l, path) \in l.site.runnable THEN Found(path) ELSE Exception(403)

BothDirectories(l) == LocationIsDir(l) /\ EndsInSlash(ParsedURI(l))

SetExecutablePath(l) ==
    LET executable == cgi_pass(l).executable_path
    IN  CASE IsAbsolutePath(executable) -> ValidPath(l, executable)
          [] ~ IsAbsolutePath(executable) /\ BothDirectories(l) ->
                ValidPath(l, MakeAbsolutePath(executable, Path(l)))
          [] ~ IsAbsolutePath(executable) /\ ~ BothDirectories(l) ->
                IF EndsInSlash(Path(l))
                   THEN ValidPath(l, executable)
                   ELSE IF FileNameCompare(l, Path(l), executable)
                           THEN ValidPath(l, Path(l))
                           ELSE Exception(404)

(* The outcomes: one, or for a directory one for each file that can be first. *)
SetCGIOneArgument(l) ==
    LET program == SetExecutablePath(l)
    IN  { AndThen(program,
                  IF EndsInSlash(ParsedURI(l)) \/ FileNameCompare(l, ParsedURI(l), program.value)
                     THEN Found(<< program.value >>)
                     ELSE Exception(404)) }

(* The names readdir() returns; what is below the entries is not looked at. *)
EntriesOf(l) ==
    IF IsDirectory(l.site.tree, Path(l))
       THEN { SubSeq(p, Len(WithoutSlash(Path(l))) + 2, Len(p)) : p \in Inside(l.site.tree, WithoutSlash(Path(l))) }
       ELSE {}

FindFile(l) == { Path(l) \o name : name \in { e \in EntriesOf(l) : HasExtension(l, e) } }

(* ValidateExtension does not ask if there is such a file. *)
Scripts(l) ==
    IF BothDirectories(l) THEN FindFile(l) ELSE { p \in { Path(l) } : HasExtension(l, p) }

SetCGITwoArguments(l) ==
    LET program == SetExecutablePath(l)
    IN  IF Scripts(l) = {}
           THEN { AndThen(program, Exception(404)) }
           ELSE { AndThen(program, Found(<< program.value, script >>)) : script \in Scripts(l) }

SetArgv(l) == IF HasTwoArguments(l) THEN SetCGITwoArguments(l) ELSE SetCGIOneArgument(l)

(***************************************************************************)
(* AssignResponseResolvedPath looks for a directory where the resolved     *)
(* path says, not where it is taken for a program.                         *)
(***************************************************************************)
IsForbidden(l) == EndsInSlash(ResolvedPath(l)) /\ ~ IsDirectory(l.site.tree, OnDisk(l, ResolvedPath(l)))

Setup(l) == IF IsForbidden(l) THEN { Exception(403) } ELSE SetArgv(l)

-----------------------------------------------------------------------------
(* What is promised, by the names of the configuration and of the target. *)

Name(path) == SubSeq(path, LastSlash(path) + 1, Len(path))

(* What there is on a site can be looked at; an executable has a slash, see Directives. *)
IsSite(site) ==
    /\ site.cwd \in Seq(STRING) /\ site.cwd # << >> /\ site.cwd[1] = "/"
    /\ \A p \in DOMAIN site.tree :
          /\ p \in Seq(STRING) /\ ~ EndsInSlash(p)
          /\ site.tree[p].kind # "absent" => IsThere(site.tree, p)
    /\ \A p \in site.runnable : IsThere(site.tree, p)
    /\ \A key \in { "uri", "root", "alias" } : site.config[key] \in Seq(STRING)
    /\ LET pass == site.config["cgi_pass"]
       IN  /\ IsSet(pass) /\ pass.file_extension \in Seq(STRING)
           /\ pass.executable_path \in Seq(STRING) /\ "/" \in ToSet(pass.executable_path)

(* A request as the parser leaves it, to a site. *)
IsErrand(l) ==
    /\ l.host \in Seq(STRING) /\ l.query \in Seq(STRING)
    /\ l.path \in Seq(STRING) /\ l.path # << >> /\ l.path[1] = "/"
    /\ IsSite(l.site)

(***************************************************************************)
(* Where the search is known to go astray: a query takes part in telling   *)
(* directories and comparing names, and so does a question mark that was   *)
(* encoded or configured; an alias may turn a directory into what looks    *)
(* like a file, or a file into a directory; a first slash, and one that an *)
(* extension has, does not separate names; and every name ends in the      *)
(* extension that is only a period.                                        *)
(***************************************************************************)
RegularErrand(l) ==
    /\ l.query # << >> => /\ ~ EndsInSlash(l.path) /\ ~ EndsInSlash(l.query)
                          /\ l.method = "GET" \/ HasTwoArguments(l)
    /\ "?" \notin ToSet(l.host) \cup ToSet(l.path) \cup ToSet(Path(l)) \cup ToSet(cgi_pass(l).executable_path)
    /\ EndsInSlash(ResolvedPath(l)) = EndsInSlash(l.path)
    /\ l.host # << >> /\ "/" \in ToSet(ResolvedPath(l))
    /\ HasTwoArguments(l) =>
          Len(cgi_pass(l).file_extension) > 1 /\ "/" \notin ToSet(cgi_pass(l).file_extension)

(* The program of the configuration, and the file or a file of the directory. *)
IsAsked(l, argv) ==
    LET executable == cgi_pass(l).executable_path
    IN  /\ IsValidFile(l, argv[1])
        /\ Name(argv[1]) = Name(executable)
        /\ IsAbsolutePath(executable) => argv[1] = executable
        /\ Len(argv) = (IF HasTwoArguments(l) THEN 2 ELSE 1)
        /\ HasTwoArguments(l) =>
              /\ IsSuffix(Tail(cgi_pass(l).file_extension), Name(argv[2]))
              /\ IF EndsInSlash(l.path)
                    THEN IsPrefix(Path(l), argv[2]) /\ IsValidFile(l, argv[2])
                    ELSE argv[2] = Path(l)
        /\ ~ HasTwoArguments(l) =>
              /\ OnDisk(l, argv[1]) \in l.site.runnable
              /\ ~ EndsInSlash(l.path) =>
                    /\ Name(l.path) = Name(executable)
                    /\ IsValidFile(l, Path(l)) => argv[1] = Path(l)

(* There is something to run: it has the name, and the extension, and may be executed. *)
IsOffered(l) ==
    LET executable == cgi_pass(l).executable_path
        extension  == cgi_pass(l).file_extension
    IN  IF HasTwoArguments(l)
           THEN /\ IsAbsolutePath(executable) /\ IsValidFile(l, executable)
                /\ IF EndsInSlash(l.path)
                      THEN LocationIsDir(l) /\ \E e \in EntriesOf(l) : IsSuffix(extension, e)
                      ELSE IsSuffix(extension, Path(l))
           ELSE IF EndsInSlash(l.path)
                   THEN /\ LocationIsDir(l) /\ ~ IsAbsolutePath(executable)
                        /\ MakeAbsolutePath(executable, Path(l)) \in l.site.runnable
                   ELSE /\ Path(l) \in l.site.runnable
                        /\ Name(l.path) = Name(executable) /\ Name(Path(l)) = Name(executable)
                        /\ IsAbsolutePath(executable) => Path(l) = executable

Runs(l, outcome) ==
    IF outcome.status = 200 THEN IsAsked(l, outcome.value) ELSE IsForbidden(l) \/ ~ IsOffered(l)
=============================================================================
