------------------------- MODULE Configuration_proofs -------------------------
(***************************************************************************)
(* What a configuration file is read into, for any file: each server has   *)
(* exactly one location for "/", and no two locations for one URI.         *)
(***************************************************************************)
EXTENDS Configuration, TLAPS

IsSeq(s) == s \in Seq(ToSet(s))

Distinct(locations) ==
    \A i, j \in DOMAIN locations : locations[i].uri = locations[j].uri => i = j

IsServer(s) ==
    /\ s = [amount |-> s.amount, locations |-> s.locations, values |-> s.values]
    /\ IsSeq(s.locations)
    /\ Distinct(s.locations)

(***************************************************************************)
(* EveryPathHasALocation is about the servers that were read.  Inductive   *)
(* is only what also holds of the one that is being read, which may be     *)
(* without a location for "/" until its block ends.                        *)
(***************************************************************************)
ServersRead ==
    /\ IsSeq(servers)
    /\ \A n \in DOMAIN servers : IsServer(servers[n]) /\ << "/" >> \in URIs(servers[n])

IInv == IsServer(server) /\ ServersRead

-----------------------------------------------------------------------------

(* An element behind a sequence leaves the others where they are. *)
LEMMA Appending ==
    ASSUME NEW s, NEW e, IsSeq(s)
    PROVE  /\ IsSeq(Append(s, e))
           /\ DOMAIN Append(s, e) = DOMAIN s \cup {Len(s) + 1}
           /\ Len(s) + 1 \notin DOMAIN s
           /\ Append(s, e)[Len(s) + 1] = e
           /\ \A i \in DOMAIN s : Append(s, e)[i] = s[i]
<1> DEFINE S == ToSet(s) \cup {e}
<1>1. s \in Seq(S) /\ e \in S
  BY DEF IsSeq, ToSet
<1>2. /\ Append(s, e) \in Seq(S)
      /\ Len(Append(s, e)) = Len(s) + 1
      /\ Append(s, e)[Len(s) + 1] = e
      /\ \A i \in 1 .. Len(s) : Append(s, e)[i] = s[i]
  BY <1>1
<1>3. DOMAIN s = 1 .. Len(s) /\ DOMAIN Append(s, e) = 1 .. Len(s) + 1 /\ Len(s) \in Nat
  BY <1>1, <1>2
<1>4. Append(s, e) \in Seq(ToSet(Append(s, e)))
  <2>1. \A i \in 1 .. Len(s) + 1 : Append(s, e)[i] \in ToSet(Append(s, e))
    BY <1>3 DEF ToSet
  <2> QED
    BY <2>1, <1>2, <1>3
<1> QED
  BY <1>2, <1>3, <1>4 DEF IsSeq

(* A location with a new URI may be appended. *)
LEMMA AppendingLocation ==
    ASSUME NEW s, NEW l, IsServer(s), ~ HasLocation(s, l.uri)
    PROVE  /\ IsServer([s EXCEPT !.locations = Append(@, l)])
           /\ URIs([s EXCEPT !.locations = Append(@, l)]) = URIs(s) \cup {l.uri}
<1> DEFINE t == [s EXCEPT !.locations = Append(@, l)]
<1>1. /\ t = [amount |-> s.amount, locations |-> Append(s.locations, l), values |-> s.values]
      /\ t.locations = Append(s.locations, l)
  BY DEF IsServer
<1>2. /\ IsSeq(t.locations)
      /\ DOMAIN t.locations = DOMAIN s.locations \cup {Len(s.locations) + 1}
      /\ Len(s.locations) + 1 \notin DOMAIN s.locations
      /\ t.locations[Len(s.locations) + 1] = l
      /\ \A i \in DOMAIN s.locations : t.locations[i] = s.locations[i]
  BY <1>1, Appending DEF IsServer
<1>3. Distinct(t.locations)
  BY <1>2 DEF IsServer, Distinct, HasLocation
<1>4. t = [amount |-> t.amount, locations |-> t.locations, values |-> t.values]
  BY <1>1
<1>5. URIs(t) = URIs(s) \cup {l.uri}
  BY <1>2 DEF URIs
<1> QED
  BY <1>2, <1>3, <1>4, <1>5 DEF IsServer

(* The location for "/" that is appended when a server has none. *)
LEMMA Defaulting ==
    ASSUME NEW s, IsServer(s)
    PROVE  IsServer(WithDefault(s)) /\ << "/" >> \in URIs(WithDefault(s))
<1>1. DefaultLocation.uri = << "/" >>
  BY DEF DefaultLocation
<1>2. CASE HasLocation(s, << "/" >>)
  BY <1>2 DEF WithDefault, HasLocation, URIs
<1>3. CASE ~ HasLocation(s, << "/" >>)
  BY <1>1, <1>3, AppendingLocation DEF WithDefault
<1> QED
  BY <1>2, <1>3

(* A server whose directives change keeps its locations. *)
LEMMA Assigning ==
    ASSUME NEW s, NEW values, IsServer(s)
    PROVE  IsServer([s EXCEPT !.values = values])
BY DEF IsServer

-----------------------------------------------------------------------------

LEMMA Initial == Init => IInv
<1> SUFFICES ASSUME Init PROVE IInv
  OBVIOUS
<1>1. ServersRead
  <2>1. servers = << >>
    BY DEF Init
  <2> QED
    BY <2>1 DEF ServersRead, IsSeq, ToSet
<1>2. IsServer(server)
  <2>1. server = [amount |-> 0, locations |-> << DefaultLocation >>, values |-> << >>]
    BY DEF Init, NewServer
  <2> QED
    BY <2>1 DEF IsServer, IsSeq, ToSet, Distinct
<1> QED
  BY <1>1, <1>2 DEF IInv

(* A directive of a server leaves its locations as they are. *)
LEMMA ServerDirectives == IInv /\ ServerDirective => IInv'
<1> SUFFICES ASSUME IInv, ServerDirective PROVE IInv'
  OBVIOUS
<1>1. \/ UNCHANGED << servers, server >>
      \/ /\ UNCHANGED servers
         /\ \E values : server' = [server EXCEPT !.values = values]
  BY DEF ServerDirective, ReadDirective, Throw
<1>2. IsServer(server')
  BY <1>1, Assigning DEF IInv
<1>3. servers' = servers
  BY <1>1
<1> QED
  BY <1>2, <1>3 DEF IInv, ServersRead, URIs

LEMMA LocationDirectives == IInv /\ LocationDirective => IInv'
<1> SUFFICES ASSUME IInv, LocationDirective PROVE IInv'
  OBVIOUS
<1>1. UNCHANGED << servers, server >>
  BY DEF LocationDirective, ReadDirective, Throw
<1> QED
  BY <1>1 DEF IInv, ServersRead, URIs

(* With the first location the default one goes; no other one does. *)
LEMMA Opening == IInv /\ OpenLocation => IInv'
<1> SUFFICES ASSUME IInv, OpenLocation PROVE IInv'
  OBVIOUS
<1>1. CASE UNCHANGED << servers, server >>
  BY <1>1 DEF IInv, ServersRead, URIs
<1>2. CASE /\ UNCHANGED servers
           /\ server' = [server EXCEPT !.amount = @ + 1,
                                       !.locations = IF server.amount = 0 THEN << >> ELSE @]
  <2>1. /\ server'.locations = << >> \/ server'.locations = server.locations
        /\ server' = [amount |-> server'.amount, locations |-> server'.locations,
                      values |-> server'.values]
    BY <1>2 DEF IInv, IsServer
  <2>2. IsSeq(<< >>) /\ Distinct(<< >>)
    BY DEF IsSeq, ToSet, Distinct
  <2>3. IsServer(server')
    BY <2>1, <2>2 DEF IInv, IsServer
  <2> QED
    BY <1>2, <2>3 DEF IInv, ServersRead, URIs
<1> QED
  BY <1>1, <1>2 DEF OpenLocation, Throw

(* Only a location with a URI of its own is kept. *)
LEMMA ClosingLocation == IInv /\ CloseLocation => IInv'
<1> SUFFICES ASSUME IInv, CloseLocation PROVE IInv'
  OBVIOUS
<1> DEFINE l == [uri |-> location.uri, values |-> location.values]
<1>1. CASE UNCHANGED << servers, server >>
  BY <1>1 DEF IInv, ServersRead, URIs
<1>2. CASE /\ ~ IsDuplicate(server, location.uri)
           /\ UNCHANGED servers
           /\ server' = [server EXCEPT !.locations = Append(@, l)]
  <2>1. ~ HasLocation(server, l.uri)
    BY <1>2 DEF IsDuplicate
  <2>2. IsServer(server')
    BY <1>2, <2>1, AppendingLocation DEF IInv
  <2> QED
    BY <1>2, <2>2 DEF IInv, ServersRead, URIs
<1> QED
  BY <1>1, <1>2 DEF CloseLocation, Throw

(* A server gets its location for "/" when its block ends. *)
LEMMA ClosingServer == IInv /\ CloseServer => IInv'
<1> SUFFICES ASSUME IInv, CloseServer PROVE IInv'
  OBVIOUS
<1> DEFINE s == WithDefault(server)
<1>1. server' = server /\ servers' = Append(servers, s)
  BY DEF CloseServer
<1>2. IsServer(s) /\ << "/" >> \in URIs(s)
  BY Defaulting DEF IInv
<1>3. /\ IsSeq(servers')
      /\ DOMAIN servers' = DOMAIN servers \cup {Len(servers) + 1}
      /\ servers'[Len(servers) + 1] = s
      /\ \A i \in DOMAIN servers : servers'[i] = servers[i]
  BY <1>1, Appending DEF IInv, ServersRead
<1>4. \A n \in DOMAIN servers' : IsServer(servers'[n]) /\ << "/" >> \in URIs(servers'[n])
  BY <1>2, <1>3 DEF IInv, ServersRead
<1> QED
  BY <1>1, <1>3, <1>4 DEF IInv, ServersRead, URIs

LEMMA Finding == IInv /\ (FindServerContext \/ EndOfFile) => IInv'
<1> SUFFICES ASSUME IInv, FindServerContext \/ EndOfFile PROVE IInv'
  OBVIOUS
<1>1. servers' = servers /\ (server' = server \/ server' = NewServer)
  BY DEF FindServerContext, EndOfFile, Throw
<1>2. IsServer(NewServer)
  BY DEF NewServer, IsServer, IsSeq, ToSet, Distinct
<1> QED
  BY <1>1, <1>2 DEF IInv, ServersRead, URIs

LEMMA Inductive == IInv /\ [Next]_vars => IInv'
<1>1. IInv /\ UNCHANGED vars => IInv'
  BY DEF vars, IInv, ServersRead, URIs
<1> QED
  BY <1>1, Finding, ServerDirectives, Opening, ClosingServer, LocationDirectives, ClosingLocation DEF Next

-----------------------------------------------------------------------------

(***************************************************************************)
(* Whatever is written into a configuration file, in whatever order and    *)
(* with whatever is missing: a server that was read has one location for   *)
(* "/", so that the search for a path finds one, and no two for one URI.   *)
(***************************************************************************)
THEOREM LocationsAreDistinct == Spec => []EveryPathHasALocation
<1>1. IInv => EveryPathHasALocation
  BY DEF IInv, ServersRead, IsServer, Distinct, EveryPathHasALocation
<1> QED
  BY <1>1, Initial, Inductive, PTL DEF Spec
=============================================================================
