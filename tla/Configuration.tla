---------------------------- MODULE Configuration ----------------------------
(***************************************************************************)
(* The configuration file is read into servers and locations: NginxConfig, *)
(* ServerContext, LocationContext and ConfigValues of src/src/config.      *)
(*                                                                         *)
(* The file is a sequence of words.  "{", "}", ";" and "#" are words of    *)
(* their own, wherever they stand; the words of a value are texts, see     *)
(* Characters.  Between two words there is one blank.                      *)
(*                                                                         *)
(* source is what somebody wrote: servers of directives and locations,     *)
(* each a line of the file.  A directive that is not closed lacks its ';', *)
(* a block that is not closed its '}'.  A remark stands behind a '#'.      *)
(***************************************************************************)
EXTENDS Directives

CONSTANT Sources

VARIABLES
    source,
    phase,        \* what is being read
    config_file,  \* _config_file: the words that are left of the file
    pos,          \* where in it the parsers are
    servers,      \* _servers
    server,       \* the ServerContext under construction
    location,     \* the LocationContext under construction
    error         \* the exception, or "" while there is none

vars == << source, phase, config_file, pos, servers, server, location, error >>

-----------------------------------------------------------------------------
(* The file that is written for a source. *)

WordsOf(d) ==
    CASE d.key = "#"         -> << << "#" >> >> \o d.args
      [] d.key = "location"  -> << << "location" >> >> \o d.args \o << << "{" >> >>
      [] OTHER -> << << d.key >> >> \o d.args \o IF d.closed THEN << << ";" >> >> ELSE << >>

Closing(block) == IF block.closed THEN << << << "}" >> >> >> ELSE << >>

LinesOf(d) ==
    IF d.key # "location"
       THEN << WordsOf(d) >>
       ELSE << WordsOf(d) >> \o [i \in DOMAIN d.body |-> WordsOf(d.body[i])] \o Closing(d)

Lines(src) ==
    FlattenSeq([n \in DOMAIN src |->
        << << src[n].word, << "{" >> >> >>
        \o FlattenSeq([i \in DOMAIN src[n].body |-> LinesOf(src[n].body[i])])
        \o Closing(src[n])])

-----------------------------------------------------------------------------
(***************************************************************************)
(* The contexts.  The domain of values is the set of the directives whose  *)
(* bool_ flag is set; the others have their defaults.                      *)
(***************************************************************************)
DefaultLocation == [ uri |-> << "/" >>, values |-> << >> ]

(* The default location is pushed by the constructor, and not counted. *)
NewServer ==
    [ amount |-> 0, locations |-> << DefaultLocation >>, values |-> << >> ]

NoLocation == [ uri |-> << >>, values |-> << >>, end |-> 0 ]

Throw(exception) ==
    /\ phase' = "Rejected"
    /\ error' = exception
    /\ UNCHANGED << source, config_file, pos, servers, server, location >>

Word(i) == IF i \in DOMAIN config_file THEN config_file[i] ELSE << >>

(* Mutant: the search does not stop at the end of the location. *)
FindFirstAnywhere(word, start, end) ==
    IF \E i \in start .. Len(config_file) : config_file[i] = word
       THEN CHOOSE i \in start .. Len(config_file) :
               config_file[i] = word /\ \A j \in start .. i - 1 : config_file[j] # word
       ELSE 0

(* find_first_of: the first place of a word from start to end, or 0. *)
FindFirst(word, start, end) ==
    IF \E i \in start .. end : config_file[i] = word
       THEN CHOOSE i \in start .. end :
               config_file[i] = word /\ \A j \in start .. i - 1 : config_file[j] # word
       ELSE 0

Assign(values, key, value) == [k \in DOMAIN values \cup {key} |-> IF k = key THEN value ELSE values[k]]

-----------------------------------------------------------------------------
(* NginxConfig *)

WithoutRemark(line) ==
    LET hash == SelectInSeq(line, LAMBDA w : w = << "#" >>)
    IN  IF hash = 0 THEN line ELSE SubSeq(line, 1, hash - 1)

Count(words, word) == Cardinality({ i \in DOMAIN words : words[i] = word })

(* CheckBrackets *)
OpenBrackets(words) == Count(words, << "{" >>) # Count(words, << "}" >>)

(* LoadConfigFile: what is left of the lines, in one piece. *)
LoadConfigFile(lines) == FlattenSeq([i \in DOMAIN lines |-> WithoutRemark(lines[i])])

Init ==
    /\ source \in Sources
    /\ config_file = LoadConfigFile(Lines(source))
    /\ IF OpenBrackets(config_file)
          THEN phase = "Rejected" /\ error = "OpenBrackets"
          ELSE phase = "Servers" /\ error = ""
    /\ pos = 1
    /\ servers = << >>
    /\ server = NewServer
    /\ location = NoLocation

(* Six characters are skipped, and never compared, before a '{'. *)
IsServerContext == TextSize(Word(pos)) \in {5, 6} /\ Word(pos + 1) = << "{" >>

FindServerContext ==
    /\ phase = "Servers"
    /\ pos <= Len(config_file)
    /\ IF IsServerContext
          THEN /\ phase' = "Server"
               /\ pos' = pos + 2
               /\ server' = NewServer
               /\ UNCHANGED << source, config_file, servers, location, error >>
          ELSE Throw("BadServerContext")

EndOfFile ==
    /\ phase = "Servers"
    /\ pos > Len(config_file)
    /\ IF servers = << >>
          THEN Throw("NoServerContexts")
          ELSE /\ phase' = "Loaded"
               /\ UNCHANGED << source, config_file, pos, servers, server, location, error >>

-----------------------------------------------------------------------------
(* The values of a directive, in ServerContext and in LocationContext. *)

(***************************************************************************)
(* The arguments go up to the next ';' among the words, in whatever line.  *)
(* If there is none they are all that is left, and value_end is npos.      *)
(***************************************************************************)
Arguments(value_end, end) ==
    SubSeq(config_file, pos + 1, IF value_end = 0 THEN end ELSE value_end - 1)

(* DoubleDirectiveCheck *)
IsDouble(values, key) ==
    \/ key \in DOMAIN values
    \/ key = "root" /\ "alias" \in DOMAIN values
    \/ key = "alias" /\ "root" \in DOMAIN values

(* Mutant: a directive given twice counts with its last value. *)
ProblemLast(values, keys, value_end, args) ==
    CASE config_file[pos] \notin { << k >> : k \in keys } -> "InvalidDirective"
      [] OTHER -> CASE value_end = pos + 1 -> "BadInput"
                    [] args = << >> /\ value_end = 0 -> "StdException"
                    [] args # << >> /\ ~ IsValue(config_file[pos][1], args) -> "InvalidValue"
                    [] OTHER -> ""

(* The checks in their order, each with its exception. *)
Problem(values, keys, value_end, args) ==
    CASE config_file[pos] \notin { << k >> : k \in keys } -> "InvalidDirective"
      [] OTHER -> CASE value_end = pos + 1 -> "BadInput"
                    [] args = << >> /\ value_end = 0 -> "StdException"
                    [] args # << >> /\ IsDouble(values, config_file[pos][1]) -> "MultipleDirective"
                    [] args # << >> /\ ~ IsDouble(values, config_file[pos][1])
                          /\ ~ IsValue(config_file[pos][1], args) -> "InvalidValue"
                    [] OTHER -> ""

(***************************************************************************)
(* The value of the directive at pos, up to a ';' before end, is assigned  *)
(* by Set; the parser goes on at next.                                     *)
(***************************************************************************)
ReadDirective(values, keys, end, Set(_), After(_)) ==
    \E value_end \in { FindFirst(<< ";" >>, pos + 1, end) } :
    \E args \in { Arguments(value_end, end) } :
    \E problem \in { Problem(values, keys, value_end, args) } :
       IF problem # ""
          THEN Throw(problem)
          ELSE /\ Set(Assign(values, config_file[pos][1], ValueOf(config_file[pos][1], args)))
               /\ pos' = After(value_end)
               /\ UNCHANGED << source, phase, config_file, servers, error >>

-----------------------------------------------------------------------------
(* ServerContext *)

AtDirective == pos <= Len(config_file) /\ Word(pos) # << "}" >>

(***************************************************************************)
(* GetDirectiveValuePairs, for a directive other than location.  Without a *)
(* ';' it goes on at the beginning of the file: npos + 1.                  *)
(***************************************************************************)
ServerDirective ==
    /\ phase = "Server"
    /\ AtDirective
    /\ Word(pos) # << "location" >>
    /\ ReadDirective(server.values, ServerKeys, Len(config_file),
                     LAMBDA values : /\ server' = [server EXCEPT !.values = values]
                                     /\ UNCHANGED location,
                     LAMBDA value_end : value_end + 1)

(* FindLocationContextEnd: the '}' that closes the first '{' behind start. *)
Closes(i) ==
    /\ config_file[i] = << "}" >>
    /\ Cardinality({ j \in pos + 1 .. i : config_file[j] = << "}" >> })
          >= Cardinality({ j \in pos + 1 .. i : config_file[j] = << "{" >> })

LocationContextEnd ==
    IF \E i \in pos + 1 .. Len(config_file) : Closes(i)
       THEN CHOOSE i \in pos + 1 .. Len(config_file) : Closes(i) /\ \A j \in pos + 1 .. i - 1 : ~ Closes(j)
       ELSE Len(config_file)

Words == UNION { ToSet(LoadConfigFile(Lines(src))) : src \in Sources }

(* The URI that LocationUri makes of a word, or << >> if it throws. *)
UriOf == [w \in Words |-> IF IsLocationUri(w) THEN LocationUri(w) ELSE << >>]

UriProblem(uri) ==
    CASE uri \in { << "{" >>, << "}" >> } -> "BadInput"
      [] uri = << >> -> "StdException"
      [] uri \notin { << "{" >>, << "}" >>, << >> } -> IF UriOf[uri] = << >> THEN "BadUri" ELSE ""

(***************************************************************************)
(* SetLocation begins a LocationContext with the words up to its end; the  *)
(* first of them is the URI, and what is between it and the '{' is         *)
(* skipped.  Without a '{' the URI is read as a directive.                 *)
(***************************************************************************)
OpenLocation ==
    /\ phase = "Server"
    /\ AtDirective
    /\ Word(pos) = << "location" >>
    /\ \E end \in { LocationContextEnd } :
       \E bracket \in { FindFirst(<< "{" >>, pos + 2, end) } :
       \E problem \in { UriProblem(Word(pos + 1)) } :
          IF problem # ""
             THEN Throw(problem)
             ELSE /\ phase' = "Location"
                  /\ location' = [uri |-> UriOf[Word(pos + 1)], values |-> << >>, end |-> end]
                  /\ pos' = IF bracket = 0 THEN pos + 1 ELSE bracket + 1
                  /\ server' = [server EXCEPT !.amount = @ + 1,
                                              !.locations = IF server.amount = 0 THEN << >> ELSE @]
                  /\ UNCHANGED << source, config_file, servers, error >>

(***************************************************************************)
(* After the last directive of a server: a location for the paths that     *)
(* have none.  A server may also end with the file.                        *)
(***************************************************************************)
HasLocation(s, uri) == \E i \in DOMAIN s.locations : s.locations[i].uri = uri

WithDefault(s) ==
    IF HasLocation(s, << "/" >>) THEN s ELSE [s EXCEPT !.locations = Append(@, DefaultLocation)]

CloseServer ==
    /\ phase = "Server"
    /\ ~ AtDirective
    /\ servers' = Append(servers, WithDefault(server))
    /\ phase' = "Servers"
    /\ pos' = pos + 1
    /\ UNCHANGED << source, config_file, server, location, error >>

-----------------------------------------------------------------------------
(* LocationContext *)

AtLocationDirective == pos <= location.end /\ Word(pos) # << "}" >>

(* As ServerDirective, but without a ';' the parser stays where it is. *)
LocationDirective ==
    /\ phase = "Location"
    /\ AtLocationDirective
    /\ ReadDirective(location.values, LocationKeys, location.end,
                     LAMBDA values : /\ location' = [location EXCEPT !.values = values]
                                     /\ UNCHANGED server,
                     LAMBDA value_end : IF value_end = 0 THEN pos ELSE value_end + 1)

(* Mutant: two locations may have one URI. *)
IsDuplicateNever(s, uri) == FALSE

IsDuplicate(s, uri) == HasLocation(s, uri)

CloseLocation ==
    /\ phase = "Location"
    /\ ~ AtLocationDirective
    /\ IF IsDuplicate(server, location.uri)
          THEN Throw("DuplicateLocationUri")
          ELSE /\ server' = [server EXCEPT !.locations =
                                Append(@, [uri |-> location.uri, values |-> location.values])]
               /\ phase' = "Server"
               /\ pos' = location.end + 1
               /\ UNCHANGED << source, config_file, servers, location, error >>

-----------------------------------------------------------------------------

Done == phase \in {"Loaded", "Rejected"}

Next ==
    \/ FindServerContext \/ EndOfFile
    \/ ServerDirective \/ OpenLocation \/ CloseServer
    \/ LocationDirective \/ CloseLocation

Spec == Init /\ [][Next]_vars /\ WF_vars(Next)
-----------------------------------------------------------------------------

URIs(s) == { s.locations[i].uri : i \in DOMAIN s.locations }

-----------------------------------------------------------------------------
(***************************************************************************)
(* What is promised of a source, without the words of a file.              *)
(***************************************************************************)
DirectivesIn(body) == { i \in DOMAIN body : body[i].key \notin {"#", "location"} }
LocationsIn(body) == SelectSeq(body, LAMBDA d : d.key = "location")

IsAddressText(t) ==
    \/ t \in { << "localhost" >>, << "0" >>, << "*" >> } \/ IsIPv4(t)
    \/ t # << >> /\ Head(t) = "[" /\ Last(t) = "]" /\ SubSeq(t, 2, Len(t) - 1) \in IPv6Addresses

(* "address:port", the address or the port alone. *)
Listens(t) ==
    { << IpAddress(SubSeq(t, 1, i - 1)), SubSeq(t, i + 1, Len(t)) >> :
        i \in { j \in DOMAIN t : /\ t[j] = ":" /\ IsAddressText(SubSeq(t, 1, j - 1))
                                 /\ IsPort(SubSeq(t, j + 1, Len(t))) } }
    \cup (IF IsPort(t) THEN { << DefaultIP, t >> } ELSE {})
    \cup (IF IsAddressText(t) /\ t # << "0" >> THEN { << IpAddress(t), DefaultPort >> } ELSE {})

(* Digits, and possibly an m. *)
IsSize(t) ==
    \E n \in {Len(t) - 1, Len(t)} :
       /\ IsNumber(SubSeq(t, 1, n)) /\ ToSet(SubSeq(t, n + 1, Len(t))) \subseteq {"m", "M"}
       /\ Decimal(SubSeq(t, 1, n)) <= MaxCMBS

Promised(d) ==
    CASE d.key = "listen" -> Len(d.args) = 1 /\ Listens(d.args[1]) # {}
      [] d.key = "client_max_body_size" -> Len(d.args) = 1 /\ IsSize(d.args[1])
      [] OTHER -> d.args # << >> /\ IsValue(d.key, d.args)

Given(d) == IF d.key = "listen" THEN CHOOSE l \in Listens(d.args[1]) : TRUE
                                ELSE ValueOf(d.key, d.args)

InOrder(body, keys) ==
    LET ds == DirectivesIn(body)
    IN  /\ \A i \in ds : body[i].key \in keys /\ Promised(body[i])
        /\ \A i, j \in ds : body[i].key = body[j].key => i = j
        /\ ~ {"root", "alias"} \subseteq { body[i].key : i \in ds }

LocationsInOrder(ls) ==
    /\ \A i \in DOMAIN ls : ls[i].closed /\ IsLocationUri(ls[i].args[1]) /\ InOrder(ls[i].body, LocationKeys)
    /\ \A i, j \in DOMAIN ls : LocationUri(ls[i].args[1]) = LocationUri(ls[j].args[1]) => i = j

SourceInOrder ==
    /\ source # << >>
    /\ \A n \in DOMAIN source :
          /\ source[n].word = << "server" >> /\ source[n].closed
          /\ InOrder(source[n].body, ServerKeys)
          /\ LocationsInOrder(LocationsIn(source[n].body))

GivenValues(body) ==
    LET ds == DirectivesIn(body)
    IN  [k \in { body[i].key : i \in ds } |-> Given(body[CHOOSE i \in ds : body[i].key = k])]

Meaning(s) ==
    LET ls == LocationsIn(s.body)
        given == [i \in DOMAIN ls |-> [ uri |-> LocationUri(ls[i].args[1]),
                                        values |-> GivenValues(ls[i].body) ]]
    IN  [ values |-> GivenValues(s.body),
          locations |-> IF \E i \in DOMAIN given : given[i].uri = << "/" >>
                           THEN given ELSE Append(given, DefaultLocation) ]

(***************************************************************************)
(* Where the reader is known to be looser: a directive without ';' takes   *)
(* the following lines for its value, a bracket in a value is taken for    *)
(* that of a block, a server may begin with any word of five or six        *)
(* letters, words behind a URI are skipped, a '[' need not be closed, and  *)
(* a size is taken modulo that of a size_t.                                *)
(***************************************************************************)
Ends(d) == d.closed /\ (d.key # "#" => { << "{" >>, << "}" >>, << ";" >> } \cap ToSet(d.args) = {})

RegularDirective(d) ==
    /\ Ends(d) \/ d.key = "location"
    /\ d.key = "location" => Len(d.args) = 1 /\ \A i \in DOMAIN d.body : Ends(d.body[i])
    /\ d.key = "listen" => \A i \in DOMAIN d.args : d.args[i][1] = "[" => "]" \in ToSet(d.args[i])
    /\ d.key = "client_max_body_size" =>
          \A i \in DOMAIN d.args : Decimal(SelectSeq(d.args[i], IsDigit)) < SizeModulus

Regular ==
    \A n \in DOMAIN source :
       /\ TextSize(source[n].word) \in {5, 6} => source[n].word = << "server" >>
       /\ \A i \in DOMAIN source[n].body : RegularDirective(source[n].body[i])

-----------------------------------------------------------------------------

(***************************************************************************)
(* A file is loaded exactly if it breaks no rule, and then the servers are *)
(* those that were written: each with its own directives and locations, in *)
(* the order of the file.                                                  *)
(***************************************************************************)
ConfigIsUnderstood ==
    Done /\ Regular =>
       IF SourceInOrder
          THEN /\ phase = "Loaded"
               /\ Len(servers) = Len(source)
               /\ \A n \in DOMAIN servers :
                     [values |-> servers[n].values, locations |-> servers[n].locations] = Meaning(source[n])
          ELSE phase = "Rejected"

(***************************************************************************)
(* Whatever was written, a server that was read has one location, and only *)
(* one, for "/", and no two for one URI: LocationSelection finds one for   *)
(* every path.                                                             *)
(***************************************************************************)
EveryPathHasALocation ==
    \A n \in DOMAIN servers :
       /\ << "/" >> \in URIs(servers[n])
       /\ \A i, j \in DOMAIN servers[n].locations :
             servers[n].locations[i].uri = servers[n].locations[j].uri => i = j

(***************************************************************************)
(* A ';' missing behind the last directive of a location or of the file is *)
(* noticed.                                                                *)
(***************************************************************************)
OpenEnd(body) == body # << >> /\ Last(body).key \notin {"#", "location"} /\ ~ Last(body).closed

LastEndIsNoticed ==
    /\ \/ \E n \in DOMAIN source :
             \E i \in DOMAIN source[n].body :
                source[n].body[i].key = "location" /\ OpenEnd(source[n].body[i].body)
       \/ source # << >> /\ OpenEnd(Last(source).body)
    => phase # "Loaded"

(***************************************************************************)
(* Every file is read to an end: where a ';' is missing a parser stays in  *)
(* its place or returns to the beginning of the file, but only once.       *)
(***************************************************************************)
LoadingEnds == <>Done
=============================================================================
