------------------------------ MODULE Directives ------------------------------
(***************************************************************************)
(* The values of the directives of a configuration file: the classes of    *)
(* src/src/config/directive_validation, Listen and ServerName.             *)
(*                                                                         *)
(* An argument is a text of Characters, args is the sequence of what a     *)
(* directive has between its key and the ';', which is never empty here.   *)
(* For each directive one operator says which arguments are accepted, and  *)
(* one what value they give.                                               *)
(***************************************************************************)
EXTENDS RequestTarget

CONSTANTS
    SizeModulus,      \* size_t has the values 0 .. SizeModulus - 1
    MaxCMBS,          \* the largest client_max_body_size
    MaxPort,          \* 65535
    IPv6Addresses     \* the texts that inet_pton takes for IPv6 addresses

ASSUME DirectiveAssumption ==
    /\ SizeModulus \in Nat \ {0}
    /\ MaxCMBS \in 0 .. SizeModulus - 1
    /\ MaxPort \in Nat

(* ft_atosize_t, on digits and whatever follows them. *)
SizeT(s) ==
    FoldLeft(LAMBDA n, c : IF IsDigit(c) THEN (10 * n + Decimal(<< c >>)) % SizeModulus ELSE n, 0, s)

IsNumber(s) == IsValidString(IsDigit, s, {})

(* The arguments with the blanks between them. *)
Value(args) == FlattenSeq([i \in DOMAIN args |-> IF i = 1 THEN args[i] ELSE << "SP" >> \o args[i]])

LastIndex(s, c) == SelectLastInSeq(s, LAMBDA d : d = c)

-----------------------------------------------------------------------------
(* Listen *)

DefaultPort == << "8", "0" >>
DefaultIP   == << "1", "2", "7", ".", "0", ".", "0", ".", "1" >>

IsPort(s) ==
    /\ IsNumber(s)
    /\ Decimal(s) \in 1 .. MaxPort
    /\ s[1] # "0"

IsDecimalOctet(s) ==
    /\ Len(s) \in 1 .. 3 /\ IsNumber(s)
    /\ Decimal(s) <= 255
    /\ Len(s) > 1 => s[1] # "0"

(* inet_pton for AF_INET: four numbers between three periods. *)
FourOctets(s, periods) ==
    /\ Cardinality(periods) = 3
    /\ \A i \in periods \cup {0} :
          IsDecimalOctet(SubSeq(s, i + 1, Min({ j \in periods \cup {Len(s) + 1} : j > i }) - 1))

IsIPv4(s) == FourOctets(s, { i \in DOMAIN s : s[i] = "." })

(* A '[' anywhere makes it an IPv6 address between two characters. *)
IsAddress(s) ==
    IF "[" \in ToSet(s) THEN SubSeq(s, 2, Len(s) - 1) \in IPv6Addresses ELSE IsIPv4(s)

IsIpAddress(s) == s \in { << "localhost" >>, << "0" >>, << "*" >> } \/ IsAddress(s)

IpAddress(s) == IF s \in { << "localhost" >>, << "0" >>, << "*" >> } THEN DefaultIP ELSE s

NoColonBefore(s)   == LastIndex(s, ":") = 0 \/ (s[1] = "[" /\ Last(s) = "]")
LooksLikeAddress(s) == {".", ":", "localhost", "*", "["} \cap ToSet(s) # {}

(* Mutant: a port is looked for behind the first ':'. *)
ListenSplitFirst(s) ==
    LET pos == SelectInSeq(s, LAMBDA c : c = ":")
    IN  CASE ~ NoColonBefore(s)  -> << SubSeq(s, 1, pos - 1), SubSeq(s, pos + 1, Len(s)) >>
          [] NoColonBefore(s) /\ LooksLikeAddress(s)   -> << s, DefaultPort >>
          [] NoColonBefore(s) /\ ~ LooksLikeAddress(s) -> << DefaultIP, s >>

(* SplitPortIP: the address and the port that are checked. *)
ListenSplit(s) ==
    LET pos == LastIndex(s, ":")
    IN  CASE ~ NoColonBefore(s)  -> << SubSeq(s, 1, pos - 1), SubSeq(s, pos + 1, Len(s)) >>
          [] NoColonBefore(s) /\ LooksLikeAddress(s)   -> << s, DefaultPort >>
          [] NoColonBefore(s) /\ ~ LooksLikeAddress(s) -> << DefaultIP, s >>

IsListen(args) ==
    \E s \in { Value(args) } :
       /\ LastIndex(s, ":") \notin {1, Len(s)}
       /\ \E split \in { ListenSplit(s) } : IsIpAddress(split[1]) /\ IsPort(split[2])

Listen(args) ==
    LET split == ListenSplit(Value(args)) IN << IpAddress(split[1]), split[2] >>

-----------------------------------------------------------------------------
(* LocationUri.  A text without '/' is parsed as a host, and then refused. *)

IsLocationUri(s) == s # << >> /\ s[1] = "/" /\ ParseTarget(s).error = 0

(* GetParsedURI *)
LocationUri(s) ==
    LET p == ParseTarget(s) IN p.path \o IF p.query = << >> THEN << >> ELSE << "?" >> \o p.query

-----------------------------------------------------------------------------
(* Root, Index, SetAutoindex, ClientMaxBodySize *)

IsRoot(args) == Len(args) = 1

IsAutoindex(args) == args \in { << << "on" >> >>, << << "off" >> >> }

(* Digits, and then possibly an m that stands for nothing. *)
IsCMBS(args) ==
    /\ Len(args) = 1
    /\ IsNumber(Front(args[1])) /\ (IsDigit(Last(args[1])) \/ Last(args[1]) \in {"m", "M"})
    /\ SizeT(args[1]) <= MaxCMBS

-----------------------------------------------------------------------------
(* AddToErrorPageMap, ReturnDir, CGIPass, AllowedMethods *)

IsErrorPage(args) ==
    /\ Last(args)[1] = "/"
    /\ \A i \in 1 .. Len(args) - 1 : IsNumber(args[i]) /\ Decimal(args[i]) \in 300 .. 599
    /\ \A i, j \in 1 .. Len(args) - 1 : Decimal(args[i]) = Decimal(args[j]) => i = j

ErrorPage(args) == [ code \in { Decimal(args[i]) : i \in 1 .. Len(args) - 1 } |-> Last(args) ]

IsReturn(args) == Len(args) <= 2 /\ IsNumber(args[1]) /\ SizeT(args[1]) <= 999

Return(args) == << SizeT(args[1]), IF Len(args) = 2 THEN args[2] ELSE << >> >>

IsCGIPass(args) ==
    /\ Len(args) <= 2 /\ "/" \in ToSet(Last(args))
    /\ Len(args) = 2 => args[1][1] = "."

CGIPass(args) ==
    [ file_extension |-> IF Len(args) = 2 THEN args[1] ELSE << >>, executable_path |-> Last(args) ]

IsAllowedMethods(args) ==
    Len(args) <= 3 /\ ToSet(args) \subseteq { << "GET" >>, << "POST" >>, << "DELETE" >> }

-----------------------------------------------------------------------------

ServerKeys == { "listen", "server_name", "root", "index", "client_max_body_size",
                "error_page", "autoindex", "return" }
LocationKeys == { "autoindex", "root", "index", "client_max_body_size", "error_page",
                  "cgi_pass", "allowed_methods", "return", "alias" }

IsValue(key, args) ==
    CASE key = "listen" -> IsListen(args)
      [] key \in {"server_name", "index"} -> TRUE
      [] key \in {"root", "alias"} -> IsRoot(args)
      [] key = "client_max_body_size" -> IsCMBS(args)
      [] key = "error_page" -> IsErrorPage(args)
      [] key = "autoindex" -> IsAutoindex(args)
      [] key = "return" -> IsReturn(args)
      [] key = "cgi_pass" -> IsCGIPass(args)
      [] key = "allowed_methods" -> IsAllowedMethods(args)

ValueOf(key, args) ==
    CASE key = "listen" -> Listen(args)
      [] key \in {"server_name", "index"} -> args
      [] key \in {"root", "alias"} -> args[1]
      [] key = "client_max_body_size" -> SizeT(args[1])
      [] key = "error_page" -> ErrorPage(args)
      [] key = "autoindex" -> args = << << "on" >> >>
      [] key = "return" -> Return(args)
      [] key = "cgi_pass" -> CGIPass(args)
      [] key = "allowed_methods" -> ToSet(args)
=============================================================================
