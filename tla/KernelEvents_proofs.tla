------------------------- MODULE KernelEvents_proofs -------------------------
(***************************************************************************)
(* Proofs about KernelEvents, for any number of clients, descriptors,      *)
(* listening sockets and pieces of input, with any faults.                 *)
(***************************************************************************)
EXTENDS KernelEvents, FiniteSetTheorems, TLAPS

-----------------------------------------------------------------------------
(* What the calls of a Connection return. *)

(* A new Connection is a connection. *)
LEMMA NewConnectionType ==
    NewConnection \in Connections
BY MaxSendsAssumption DEF NewConnection, Connections, States, Replies

(* Each call leaves a connection behind. *)
LEMMA LifecycleTypes ==
    ASSUME NEW c \in Connections
    PROVE  /\ Received(c) \subseteq Connections
           /\ Dispatched(c) \subseteq Connections
           /\ TimedOut(c) \in Connections
<1>1. Received(c) \subseteq Connections
  BY DEF Received
<1>2. Dispatched(c) \subseteq Connections
  <2>1. CASE c.reply = "none"
    BY <2>1 DEF Dispatched
  <2>2. CASE c.reply = "continue"
    BY <2>2 DEF Dispatched, Connections, Replies
  <2>3. CASE c.reply = "final"
    <3>1. [c EXCEPT !.state = "Done"] \in Connections
      BY DEF Connections, States
    <3>2. ASSUME NEW d \in { [c EXCEPT !.sends = @ + 1] }, d.sends < MaxSends
          PROVE  d \in Connections
      BY <3>2, MaxSendsAssumption DEF Connections
    <3>3. QED
      BY <2>3, <3>1, <3>2 DEF Dispatched
  <2>4. QED
    BY <2>1, <2>2, <2>3 DEF Connections, Replies
<1>3. TimedOut(c) \in Connections
  BY DEF TimedOut, KeepKind, Connections, Replies
<1>4. QED
  BY <1>1, <1>2, <1>3

(* No call leads back to state Start. *)
LEMMA LifecycleStates ==
    ASSUME NEW c \in Connections
    PROVE  /\ \A d \in Received(c) : d.state # "Start"
           /\ c.state # "Start" => \A d \in Dispatched(c) : d.state # "Start"
           /\ TimedOut(c).state = c.state
<1>1. \A d \in Received(c) : d.state # "Start"
  BY DEF Received, FormedReplies, KeepKind, Connections
<1>2. c.state # "Start" => \A d \in Dispatched(c) : d.state # "Start"
  <2>1. CASE c.reply = "none"
    BY <2>1 DEF Dispatched
  <2>2. CASE c.reply = "continue"
    BY <2>2 DEF Dispatched, Connections
  <2>3. CASE c.reply = "final"
    BY <2>3 DEF Dispatched, Connections
  <2>4. QED
    BY <2>1, <2>2, <2>3 DEF Connections, Replies
<1>3. TimedOut(c).state = c.state
  BY DEF TimedOut, Connections
<1>4. QED
  BY <1>1, <1>2, <1>3

(* A final reply stays final, and what was sent of it stays sent. *)
LEMMA FinalRepliesStand ==
    ASSUME NEW c \in Connections, c.reply = "final"
    PROVE  \A d \in Received(c) \cup Dispatched(c) \cup {TimedOut(c)} :
              d.reply = "final" /\ c.sends <= d.sends
<1>1. \A d \in Received(c) : d.reply = "final" /\ d.sends = c.sends
  BY DEF Received, FormedReplies, KeepKind, Connections
<1>2. \A d \in Dispatched(c) : d.reply = "final" /\ c.sends <= d.sends
  BY DEF Dispatched, Connections
<1>3. TimedOut(c).reply = "final" /\ TimedOut(c).sends = c.sends
  BY DEF TimedOut, KeepKind, Connections
<1>4. QED
  BY <1>1, <1>2, <1>3 DEF Connections

-----------------------------------------------------------------------------
(***************************************************************************)
(* The inductive invariant.  None of its parts is inductive alone: that    *)
(* the map matches the descriptors needs that a client is on one           *)
(* descriptor, which needs that a client that is away is on none, and the  *)
(* bound on unread input needs that no more is unread than was sent.       *)
(***************************************************************************)
IInv ==
    /\ TypeOK
    /\ MapMatchesDescriptors
    /\ OneDescriptorPerClient
    /\ KnotesFollowConnections
    /\ NothingIsKeptForTheAbsent

(* The server begins with an empty map, no clients and no knotes. *)
LEMMA InitIInv ==
    Init => IInv
<1> SUFFICES ASSUME Init PROVE IInv
  OBVIOUS
<1> USE DEF Init
<1>1. TypeOK
  BY BoundsAssumption
     DEF TypeOK, SocketTypeOK, MapTypeOK, LoopTypeOK
<1>2. MapMatchesDescriptors
  BY DEF MapMatchesDescriptors, Absent
<1>3. OneDescriptorPerClient
  BY ClientsAssumption DEF OneDescriptorPerClient
<1>4. KnotesFollowConnections
  BY DEF KnotesFollowConnections, Absent
<1>5. NothingIsKeptForTheAbsent
  BY ClientsAssumption DEF NothingIsKeptForTheAbsent, Queued
<1>6. QED
  BY <1>1, <1>2, <1>3, <1>4, <1>5 DEF IInv

(***************************************************************************)
(* A step of the loop that only moves on: it leaves clients, descriptors   *)
(* and connections alone, and will visit no descriptor without one.        *)
(***************************************************************************)
LEMMA LoopMovesOn ==
    ASSUME IInv, LoopTypeOK', UNCHANGED << clientVars, fdVars, connVars >>,
           \A f \in sweep' : InMap(f)
    PROVE  IInv'
<1> USE DEF clientVars, fdVars, connVars, IInv
<1>1. TypeOK'
  BY DEF TypeOK, SocketTypeOK, MapTypeOK
<1>2. MapMatchesDescriptors'
  BY DEF MapMatchesDescriptors
<1>3. OneDescriptorPerClient'
  BY DEF OneDescriptorPerClient
<1>4. KnotesFollowConnections'
  BY DEF KnotesFollowConnections
<1>5. NothingIsKeptForTheAbsent'
  BY DEF NothingIsKeptForTheAbsent, Queued, InMap
<1>6. QED
  BY <1>1, <1>2, <1>3, <1>4, <1>5

(***************************************************************************)
(* RemoveFromConnectionMap, on any descriptor, open or not.                *)
(***************************************************************************)
LEMMA RemovalKeepsIInv ==
    ASSUME IInv, NEW f \in Fds, RemoveFromConnectionMap(f), LoopTypeOK',
           sweep' \subseteq sweep \ {f}
    PROVE  IInv'
<1> USE DEF IInv, RemoveFromConnectionMap, Close
<1>1. TypeOK'
  BY BoundsAssumption DEF TypeOK, SocketTypeOK, MapTypeOK
<1>2. MapMatchesDescriptors'
  BY DEF TypeOK, MapTypeOK, SocketTypeOK, MapMatchesDescriptors, Absent
<1>3. OneDescriptorPerClient'
  BY ClientsAssumption DEF TypeOK, SocketTypeOK, OneDescriptorPerClient
<1>4. KnotesFollowConnections'
  BY DEF TypeOK, MapTypeOK, SocketTypeOK, KnotesFollowConnections, Absent
<1>5. NothingIsKeptForTheAbsent'
  <2>1. \A c \in Clients :
          peer'[c] # "away" <=> (Queued(c)' \/ \E g \in Fds : open'[g] = c)
    BY ClientsAssumption
       DEF TypeOK, SocketTypeOK, NothingIsKeptForTheAbsent, OneDescriptorPerClient, Queued
  <2>2. \A c \in Clients : inbox'[c] <= sent'[c]
    BY DEF TypeOK, SocketTypeOK, NothingIsKeptForTheAbsent
  <2>3. \A c \in Clients : peer'[c] = "away" => sent'[c] = 0 /\ c \notin blocked'
    BY DEF TypeOK, SocketTypeOK, NothingIsKeptForTheAbsent
  <2>4. \A g \in expired' \cup sweep' : InMap(g)'
    BY DEF TypeOK, LoopTypeOK, MapTypeOK, NothingIsKeptForTheAbsent, InMap
  <2>5. QED
    BY <2>1, <2>2, <2>3, <2>4 DEF NothingIsKeptForTheAbsent
<1>6. QED
  BY <1>1, <1>2, <1>3, <1>4, <1>5

-----------------------------------------------------------------------------
(* The steps of the clients and the clock. *)

(* Nothing a client does breaks the invariant. *)
LEMMA ClientKeepsIInv ==
    ASSUME IInv, NEW c \in Clients,
           \/ ClientConnects(c)
           \/ ClientSends(c)
           \/ ClientFinishes(c)
           \/ ClientResets(c)
           \/ ClientReads(c)
    PROVE  IInv'
<1> USE DEF IInv, clientVars, fdVars, connVars, loopVars
<1>1. CASE ClientConnects(c)
  <2> USE <1>1 DEF ClientConnects
  <2>1. TypeOK'
    BY DEF TypeOK, SocketTypeOK, MapTypeOK, LoopTypeOK
  <2>2. MapMatchesDescriptors'
    BY DEF MapMatchesDescriptors
  <2>3. OneDescriptorPerClient'
    BY ClientsAssumption
       DEF TypeOK, SocketTypeOK, OneDescriptorPerClient, NothingIsKeptForTheAbsent, Queued
  <2>4. KnotesFollowConnections'
    BY DEF KnotesFollowConnections
  <2>5. NothingIsKeptForTheAbsent'
    BY DEF TypeOK, SocketTypeOK, NothingIsKeptForTheAbsent, Queued, InMap
  <2>6. QED
    BY <2>1, <2>2, <2>3, <2>4, <2>5
<1>2. CASE ClientSends(c)
  <2> USE <1>2 DEF ClientSends
  <2>1. TypeOK'
    <3>1. sent[c] \in 0 .. MaxPieces /\ inbox[c] \in 0 .. MaxPieces /\ inbox[c] <= sent[c]
      BY DEF TypeOK, SocketTypeOK, NothingIsKeptForTheAbsent
    <3>2. QED
      BY <3>1, BoundsAssumption DEF TypeOK, SocketTypeOK, MapTypeOK, LoopTypeOK
  <2>2. MapMatchesDescriptors'
    BY DEF MapMatchesDescriptors
  <2>3. OneDescriptorPerClient'
    BY DEF OneDescriptorPerClient
  <2>4. KnotesFollowConnections'
    BY DEF KnotesFollowConnections
  <2>5. NothingIsKeptForTheAbsent'
    BY DEF TypeOK, SocketTypeOK, NothingIsKeptForTheAbsent, Queued, InMap
  <2>6. QED
    BY <2>1, <2>2, <2>3, <2>4, <2>5
<1>3. CASE ClientFinishes(c)
  <2> USE <1>3 DEF ClientFinishes
  <2>1. TypeOK'
    BY DEF TypeOK, SocketTypeOK, MapTypeOK, LoopTypeOK
  <2>2. MapMatchesDescriptors' /\ OneDescriptorPerClient' /\ KnotesFollowConnections'
    BY DEF MapMatchesDescriptors, OneDescriptorPerClient, KnotesFollowConnections
  <2>3. NothingIsKeptForTheAbsent'
    BY DEF TypeOK, SocketTypeOK, NothingIsKeptForTheAbsent, Queued, InMap
  <2>4. QED
    BY <2>1, <2>2, <2>3
<1>4. CASE ClientResets(c)
  <2> USE <1>4 DEF ClientResets
  <2>1. TypeOK'
    BY BoundsAssumption DEF TypeOK, SocketTypeOK, MapTypeOK, LoopTypeOK
  <2>2. MapMatchesDescriptors' /\ OneDescriptorPerClient' /\ KnotesFollowConnections'
    BY DEF TypeOK, SocketTypeOK,
           MapMatchesDescriptors, OneDescriptorPerClient, KnotesFollowConnections
  <2>3. NothingIsKeptForTheAbsent'
    <3>1. ASSUME NEW d \in Clients
          PROVE  peer'[d] # "away" <=> (Queued(d)' \/ \E g \in Fds : open'[g] = d)
      BY DEF TypeOK, SocketTypeOK, NothingIsKeptForTheAbsent, OneDescriptorPerClient, Queued
    <3>2. QED
      BY <3>1 DEF TypeOK, SocketTypeOK, NothingIsKeptForTheAbsent, InMap
  <2>4. QED
    BY <2>1, <2>2, <2>3
<1>5. CASE ClientReads(c)
  <2> USE <1>5 DEF ClientReads
  <2>1. TypeOK'
    BY DEF TypeOK, SocketTypeOK, MapTypeOK, LoopTypeOK
  <2>2. MapMatchesDescriptors' /\ OneDescriptorPerClient' /\ KnotesFollowConnections'
    BY DEF MapMatchesDescriptors, OneDescriptorPerClient, KnotesFollowConnections
  <2>3. NothingIsKeptForTheAbsent'
    BY DEF NothingIsKeptForTheAbsent, Queued, InMap
  <2>4. QED
    BY <2>1, <2>2, <2>3
<1>6. QED
  BY <1>1, <1>2, <1>3, <1>4, <1>5

(* A timer that runs out is that of a connection in the map. *)
LEMMA ClockKeepsIInv ==
    ASSUME IInv, NEW f \in Fds, TimeElapses(f)
    PROVE  IInv'
<1> USE DEF IInv, TimeElapses, clientVars, fdVars, connVars, loopVars
<1>1. TypeOK'
  BY DEF TypeOK, SocketTypeOK, MapTypeOK, LoopTypeOK
<1>2. MapMatchesDescriptors' /\ OneDescriptorPerClient' /\ KnotesFollowConnections'
  BY DEF MapMatchesDescriptors, OneDescriptorPerClient, KnotesFollowConnections
<1>3. NothingIsKeptForTheAbsent'
  BY DEF NothingIsKeptForTheAbsent, Queued, InMap
<1>4. QED
  BY <1>1, <1>2, <1>3

-----------------------------------------------------------------------------
(* kevent() and the sweep. *)

(***************************************************************************)
(* kevent() reports events of descriptors with a knote, and so of          *)
(* descriptors, listeners or the timer.                                    *)
(***************************************************************************)
LEMMA KeventKeepsIInv ==
    ASSUME IInv, Kevent
    PROVE  IInv'
<1> USE DEF IInv, Kevent
<1>1. ReadReady \cup WriteReady \cup AcceptReady \cup {TimerEvent} \subseteq Events
  <2>1. ASSUME NEW e \in ReadReady
        PROVE  e \in Events
    <3>1. PICK f \in Fds : e = [ident |-> f, filter |-> "READ",
                                eof |-> peer[open[f]] \in {"fin", "rst"}]
      BY DEF TypeOK, SocketTypeOK, ReadReady
    <3>2. (peer[open[f]] \in {"fin", "rst"}) \in BOOLEAN
      OBVIOUS
    <3>3. QED
      BY <3>1, <3>2 DEF Events
  <2>2. ASSUME NEW e \in WriteReady
        PROVE  e \in Events
    <3>1. PICK f \in Fds : e = [ident |-> f, filter |-> "WRITE", eof |-> peer[open[f]] = "rst"]
      BY DEF TypeOK, SocketTypeOK, WriteReady
    <3>2. (peer[open[f]] = "rst") \in BOOLEAN
      OBVIOUS
    <3>3. QED
      BY <3>1, <3>2 DEF Events
  <2>3. ASSUME NEW e \in AcceptReady
        PROVE  e \in Events
    <3>1. PICK l \in Listeners : e = [ident |-> l, filter |-> "READ", eof |-> FALSE]
      BY DEF AcceptReady
    <3>2. QED
      BY <3>1 DEF Events
  <2>4. QED
    BY <2>1, <2>2, <2>3 DEF Events
<1>2. batch' \subseteq Events
  BY <1>1
<1>3. LoopTypeOK'
  BY <1>2 DEF TypeOK, LoopTypeOK
<1>4. \A f \in sweep' : InMap(f)
  OBVIOUS
<1>5. QED
  BY <1>3, <1>4, LoopMovesOn

(***************************************************************************)
(* CloseHangingConnections keeps the invariant, also where it skips        *)
(* connections.                                                            *)
(***************************************************************************)
LEMMA SweepKeepsIInv ==
    ASSUME IInv, CloseHangingConnections
    PROVE  IInv'
<1>1. ASSUME NEW f \in Fds, KeepConnection(f)
      PROVE  IInv'
  BY <1>1, LoopMovesOn
     DEF KeepConnection, Visits, IInv, TypeOK, LoopTypeOK, NothingIsKeptForTheAbsent
<1>2. ASSUME NEW f \in Fds, TimeOutConnection(f)
      PROVE  IInv'
  <2> USE <1>2 DEF TimeOutConnection, Visits, IInv, clientVars, fdVars
  <2> DEFINE c == connection_map[f].conn
  <2>1. connection_map[f] \in Entries
    BY DEF TypeOK, MapTypeOK, NothingIsKeptForTheAbsent, InMap, Absent
  <2>2. c \in Connections
    BY <2>1 DEF Entries
  <2>3. TimedOut(c) \in Connections /\ TimedOut(c).state = c.state /\ c.state # "Start"
    BY <2>2, LifecycleTypes, LifecycleStates DEF CloseImmediately
  <2>4. /\ connection_map'[f].owner = connection_map[f].owner
        /\ connection_map'[f].conn.state = connection_map[f].conn.state
        /\ connection_map'[f].conn.state # "Start"
        /\ connection_map'[f] \in Entries
        /\ \A g \in Fds \ {f} : connection_map'[g] = connection_map[g]
    BY <2>1, <2>3 DEF TypeOK, MapTypeOK, Entries
  <2>5. TypeOK'
    <3>1. connection_map' \in [Fds -> Entries \cup {Absent}]
      BY <2>4 DEF TypeOK, MapTypeOK
    <3>2. QED
      BY <3>1 DEF TypeOK, SocketTypeOK, MapTypeOK, LoopTypeOK
  <2>6. MapMatchesDescriptors'
    BY <2>4 DEF MapMatchesDescriptors
  <2>7. OneDescriptorPerClient'
    BY DEF OneDescriptorPerClient
  <2>8. KnotesFollowConnections'
    BY <2>4 DEF TypeOK, SocketTypeOK, KnotesFollowConnections
  <2>9. NothingIsKeptForTheAbsent'
    BY <2>4 DEF TypeOK, LoopTypeOK, MapTypeOK, NothingIsKeptForTheAbsent, Queued, InMap
  <2>10. QED
    BY <2>5, <2>6, <2>7, <2>8, <2>9
<1>3. ASSUME NEW f \in Fds, CloseHanging(f)
      PROVE  IInv'
  <2>1. CASE RemoveFromConnectionMap(f) /\ sweep' \subseteq sweep \ {f}
               /\ UNCHANGED << pc, batch, cause >>
    <3>1. LoopTypeOK'
      BY <1>3, <2>1 DEF IInv, TypeOK, LoopTypeOK, CloseHanging, Visits
    <3>2. QED
      BY <2>1, <3>1, RemovalKeepsIInv
  <2>2. CASE End("dangling")
    BY <2>2, LoopMovesOn DEF End, IInv, TypeOK, LoopTypeOK, NothingIsKeptForTheAbsent
  <2>3. QED
    BY <1>3, <2>1, <2>2 DEF CloseHanging
<1>4. CASE SweepDone
  BY <1>4, LoopMovesOn
     DEF SweepDone, IInv, TypeOK, LoopTypeOK, NothingIsKeptForTheAbsent
<1>5. QED
  BY <1>1, <1>2, <1>3, <1>4 DEF CloseHangingConnections

-----------------------------------------------------------------------------
(* The events. *)

(* Only the listening sockets and the timer have events on no client's fd. *)
LEMMA EventIdents ==
    ASSUME NEW e \in Events
    PROVE  /\ e.eof => e.ident \in Fds
           /\ e.filter = "WRITE" => e.ident \in Fds
           /\ e.filter = "READ" /\ e.ident \notin Listeners => e.ident \in Fds
<1>1. CASE e \in [ident : Fds, filter : {"READ", "WRITE"}, eof : BOOLEAN]
  BY <1>1
<1>2. CASE e \in [ident : Listeners, filter : {"READ"}, eof : {FALSE}]
  BY <1>2
<1>3. CASE e = TimerEvent
  BY <1>3 DEF TimerEvent
<1>4. QED
  BY <1>1, <1>2, <1>3 DEF Events

(* To go on to the next event keeps the type of the loop. *)
LEMMA HandledKeepsLoopType ==
    ASSUME LoopTypeOK, NEW e, Handled(e)
    PROVE  LoopTypeOK'
BY DEF LoopTypeOK, Handled

(* An exception in a handler leaves everything else as it was. *)
LEMMA EndKeepsIInv ==
    ASSUME IInv, NEW why \in {"kevent", "accept", "send", "throw", "dangling"}, End(why)
    PROVE  IInv'
BY LoopMovesOn DEF End, IInv, TypeOK, LoopTypeOK, NothingIsKeptForTheAbsent

(***************************************************************************)
(* Removing a connection for EV_EOF keeps the invariant, even if its       *)
(* descriptor was closed before.                                           *)
(***************************************************************************)
LEMMA EofKeepsIInv ==
    ASSUME IInv, NEW e \in batch, HandleEof(e)
    PROVE  IInv'
<1>1. e.ident \in Fds
  BY EventIdents DEF HandleEof, IInv, TypeOK, LoopTypeOK
<1>2. LoopTypeOK' /\ sweep' \subseteq sweep \ {e.ident}
  BY HandledKeepsLoopType
     DEF HandleEof, Handles, Handled, IInv, TypeOK, LoopTypeOK
<1>3. QED
  BY <1>1, <1>2, RemovalKeepsIInv DEF HandleEof

(***************************************************************************)
(* A client that is accepted gets a descriptor, an entry of the map and a  *)
(* read knote, and leaves the queue.                                       *)
(***************************************************************************)
LEMMA AcceptKeepsIInv ==
    ASSUME IInv, NEW e \in batch, AcceptNewConnection(e)
    PROVE  IInv'
<1>1. CASE End("accept")
  BY <1>1, EndKeepsIInv
<1>2. ASSUME NEW c \in queue[e.ident], NEW f \in Free,
             e.ident \in Listeners,
             open'  = [open EXCEPT ![f] = c],
             queue' = [queue EXCEPT ![e.ident] = @ \ {c}],
             AddToConnectionMap(f, c),
             pc = "events",
             Handled(e),
             UNCHANGED << peer, sent, inbox, blocked >>
      PROVE  IInv'
  <2> USE <1>2 DEF IInv, AddToConnectionMap
  <2>1. f \in Fds /\ c \in Clients /\ c # NoClient /\ open[f] = NoClient
    BY ClientsAssumption DEF TypeOK, SocketTypeOK, Free
  <2>2. [owner |-> c, conn |-> NewConnection] \in Entries
    BY <2>1, NewConnectionType DEF Entries
  <2>3. connection_map' \in [Fds -> Entries \cup {Absent}]
    BY <2>1, <2>2 DEF TypeOK, MapTypeOK
  <2>4. TypeOK'
    <3>1. LoopTypeOK'
      BY HandledKeepsLoopType DEF TypeOK
    <3>2. SocketTypeOK'
      BY <2>1 DEF TypeOK, SocketTypeOK
    <3>3. QED
      BY <2>3, <3>1, <3>2 DEF TypeOK, MapTypeOK
  <2>5. MapMatchesDescriptors'
    BY <2>1 DEF TypeOK, MapTypeOK, SocketTypeOK, MapMatchesDescriptors
  <2>6. OneDescriptorPerClient'
    BY <2>1 DEF TypeOK, SocketTypeOK, OneDescriptorPerClient
  <2>7. KnotesFollowConnections'
    BY <2>1 DEF TypeOK, SocketTypeOK, MapTypeOK, KnotesFollowConnections, NewConnection
  <2>8. NothingIsKeptForTheAbsent'
    <3>1. ASSUME NEW d \in Clients
          PROVE  peer'[d] # "away" <=> (Queued(d)' \/ \E g \in Fds : open'[g] = d)
      <4>1. CASE d = c
        <5>1. open'[f] = d
          BY <2>1, <4>1 DEF TypeOK, SocketTypeOK
        <5>2. peer[d] # "away"
          BY <4>1 DEF NothingIsKeptForTheAbsent, Queued
        <5>3. QED
          BY <2>1, <5>1, <5>2
      <4>2. CASE d # c
        <5>1. Queued(d)' <=> Queued(d)
          BY <4>2 DEF TypeOK, SocketTypeOK, Queued
        <5>2. (\E g \in Fds : open'[g] = d) <=> (\E g \in Fds : open[g] = d)
          BY <2>1, <4>2, ClientsAssumption DEF TypeOK, SocketTypeOK
        <5>3. QED
          BY <5>1, <5>2 DEF NothingIsKeptForTheAbsent
      <4>3. QED
        BY <4>1, <4>2
    <3>2. \A g \in expired' \cup sweep' : InMap(g)'
      BY <2>1 DEF TypeOK, MapTypeOK, LoopTypeOK, Handled, NothingIsKeptForTheAbsent, InMap
    <3>3. QED
      BY <3>1, <3>2 DEF NothingIsKeptForTheAbsent
  <2>9. QED
    BY <2>4, <2>5, <2>6, <2>7, <2>8
<1>3. QED
  BY <1>1, <1>2 DEF AcceptNewConnection, Handles

(***************************************************************************)
(* ReceiveRequest moves the connection out of state Start and registers    *)
(* its write event together.                                               *)
(***************************************************************************)
LEMMA ReceiveKeepsIInv ==
    ASSUME IInv, NEW e \in batch, ReceiveRequest(e)
    PROVE  IInv'
<1>1. CASE \E why \in {"throw", "kevent"} : End(why)
  BY <1>1, EndKeepsIInv
<1>2. ASSUME NEW f \in Fds, f = e.ident, open[f] # NoClient,
             NEW d \in ReceivedBy(f),
             connection_map' = [connection_map EXCEPT ![f].conn = d],
             NEW n \in LeftUnread(f),
             inbox' = [inbox EXCEPT ![open[f]] = n],
             expired'  = expired \ {f},
             write_on' = WriteRegistered(f),
             Handled(e),
             UNCHANGED << peer, sent, blocked, queue, open, read_on >>
      PROVE  IInv'
  <2> USE <1>2 DEF IInv, LeftUnread, WriteRegistered
  <2>1. open[f] \in Clients
    BY DEF TypeOK, SocketTypeOK
  <2>2. connection_map[f] \in Entries /\ connection_map[f].conn \in Connections
    BY DEF TypeOK, MapTypeOK, MapMatchesDescriptors, Absent, Entries
  <2>3. d \in Connections /\ d.state # "Start"
    BY <2>2, LifecycleTypes, LifecycleStates DEF ReceivedBy
  <2>4. /\ connection_map'[f] \in Entries
        /\ connection_map'[f].owner = connection_map[f].owner
        /\ connection_map'[f].conn = d
        /\ \A g \in Fds \ {f} : connection_map'[g] = connection_map[g]
    BY <2>2, <2>3 DEF TypeOK, MapTypeOK, Entries
  <2>5. TypeOK'
    <3>1. connection_map' \in [Fds -> Entries \cup {Absent}]
      BY <2>4 DEF TypeOK, MapTypeOK
    <3>2. LoopTypeOK'
      BY HandledKeepsLoopType DEF TypeOK
    <3>3. SocketTypeOK'
      BY BoundsAssumption DEF TypeOK, SocketTypeOK
    <3>4. QED
      BY <3>1, <3>2, <3>3 DEF TypeOK, MapTypeOK
  <2>6. MapMatchesDescriptors'
    BY <2>4 DEF MapMatchesDescriptors
  <2>7. OneDescriptorPerClient'
    BY DEF OneDescriptorPerClient
  <2>8. KnotesFollowConnections'
    BY <2>3, <2>4 DEF KnotesFollowConnections
  <2>9. NothingIsKeptForTheAbsent'
    <3>1. \A g \in expired' \cup sweep' : InMap(g)'
      BY <2>4 DEF TypeOK, MapTypeOK, LoopTypeOK, Handled, NothingIsKeptForTheAbsent, InMap
    <3>2. \A c \in Clients : inbox'[c] <= sent'[c]
      BY DEF TypeOK, SocketTypeOK, NothingIsKeptForTheAbsent
    <3>3. QED
      BY <3>1, <3>2 DEF NothingIsKeptForTheAbsent, Queued
  <2>10. QED
    BY <2>5, <2>6, <2>7, <2>8, <2>9
<1>3. e.ident \in Fds
  BY EventIdents DEF ReceiveRequest, IInv, TypeOK, LoopTypeOK
<1>4. QED
  BY <1>1, <1>2, <1>3 DEF ReceiveRequest

(***************************************************************************)
(* SendResponse keeps the invariant, whether it sends a piece, ends the    *)
(* connection or fails.                                                    *)
(***************************************************************************)
LEMMA SendKeepsIInv ==
    ASSUME IInv, NEW e \in batch, SendResponse(e)
    PROVE  IInv'
<1> DEFINE f == e.ident
           c == connection_map[f].conn
<1>1. f \in Fds /\ pc = "events"
  BY EventIdents DEF SendResponse, Handles, IInv, TypeOK, LoopTypeOK
<1>2. CASE Handled(e) /\ UNCHANGED << clientVars, fdVars, connVars >>
  BY <1>2, HandledKeepsLoopType, LoopMovesOn
     DEF Handled, IInv, TypeOK, NothingIsKeptForTheAbsent
<1>3. CASE End("send")
  BY <1>3, EndKeepsIInv
<1>4. CASE RemoveFromConnectionMap(f) /\ Handled(e)
  <2>1. LoopTypeOK' /\ sweep' \subseteq sweep \ {f}
    BY <1>1, <1>4, HandledKeepsLoopType DEF Handled, IInv, TypeOK, LoopTypeOK
  <2>2. QED
    BY <1>1, <1>4, <2>1, RemovalKeepsIInv
<1>5. ASSUME InMap(f), c.reply # "none", NEW d \in Dispatched(c),
             connection_map' = [connection_map EXCEPT ![f].conn = d],
             expired' = expired \ {f},
             blocked' \in { blocked, blocked \cup {open[f]} },
             UNCHANGED << peer, sent, inbox, queue, fdVars >>,
             Handled(e)
      PROVE  IInv'
  <2> USE <1>1, <1>5 DEF IInv, fdVars
  <2> HIDE DEF f
  <2>1. connection_map[f] \in Entries /\ c \in Connections /\ open[f] \in Clients
    BY DEF TypeOK, MapTypeOK, SocketTypeOK, MapMatchesDescriptors, Absent, Entries, InMap
  <2>2. c.state # "Start"
    BY DEF KnotesFollowConnections, NewConnection
  <2>3. d \in Connections /\ d.state # "Start"
    BY <2>1, <2>2, LifecycleTypes, LifecycleStates
  <2>4. /\ connection_map'[f] \in Entries
        /\ connection_map'[f].owner = connection_map[f].owner
        /\ connection_map'[f].conn = d
        /\ \A g \in Fds \ {f} : connection_map'[g] = connection_map[g]
    BY <2>1, <2>3 DEF TypeOK, MapTypeOK, Entries
  <2>5. TypeOK'
    <3>1. connection_map' \in [Fds -> Entries \cup {Absent}]
      BY <2>4 DEF TypeOK, MapTypeOK
    <3>2. LoopTypeOK'
      BY HandledKeepsLoopType DEF TypeOK
    <3>3. SocketTypeOK'
      BY <2>1 DEF TypeOK, SocketTypeOK
    <3>4. QED
      BY <3>1, <3>2, <3>3 DEF TypeOK, MapTypeOK
  <2>6. MapMatchesDescriptors'
    BY <2>4 DEF MapMatchesDescriptors
  <2>7. OneDescriptorPerClient'
    BY DEF OneDescriptorPerClient
  <2>8. KnotesFollowConnections'
    BY <2>2, <2>3, <2>4 DEF TypeOK, SocketTypeOK, KnotesFollowConnections
  <2>9. NothingIsKeptForTheAbsent'
    <3>1. \A g \in expired' \cup sweep' : InMap(g)'
      BY <2>4 DEF TypeOK, MapTypeOK, LoopTypeOK, Handled, NothingIsKeptForTheAbsent, InMap
    <3>2. \A a \in Clients : peer'[a] = "away" => sent'[a] = 0 /\ a \notin blocked'
      BY <2>1 DEF NothingIsKeptForTheAbsent
    <3>3. QED
      BY <3>1, <3>2 DEF NothingIsKeptForTheAbsent, Queued
  <2>10. QED
    BY <2>5, <2>6, <2>7, <2>8, <2>9
<1>6. QED
  BY <1>2, <1>3, <1>4, <1>5 DEF SendResponse

-----------------------------------------------------------------------------
(* The theorems. *)

(***************************************************************************)
(* The invariant is inductive: every step of the loop, the clients and the *)
(* clock keeps it.                                                         *)
(***************************************************************************)
LEMMA NextKeepsIInv ==
    IInv /\ [Next]_vars => IInv'
<1> SUFFICES ASSUME IInv, [Next]_vars PROVE IInv'
  OBVIOUS
<1>1. CASE UNCHANGED vars
  BY <1>1, LoopMovesOn
     DEF vars, loopVars, IInv, TypeOK, LoopTypeOK, NothingIsKeptForTheAbsent
<1>2. CASE Kevent
  BY <1>2, KeventKeepsIInv
<1>3. CASE CloseHangingConnections
  BY <1>3, SweepKeepsIInv
<1>4. ASSUME NEW e \in batch, HandleEvent(e)
      PROVE  IInv'
  <2>1. CASE HandleTimer(e)
    BY <2>1, HandledKeepsLoopType, LoopMovesOn
       DEF HandleTimer, Handled, IInv, TypeOK, NothingIsKeptForTheAbsent
  <2>2. QED
    BY <1>4, <2>1, EofKeepsIInv, AcceptKeepsIInv, ReceiveKeepsIInv, SendKeepsIInv
       DEF HandleEvent
<1>5. CASE EventsDone
  BY <1>5, LoopMovesOn
     DEF EventsDone, IInv, TypeOK, LoopTypeOK, NothingIsKeptForTheAbsent
<1>6. CASE Environment
  BY <1>6, ClientKeepsIInv, ClockKeepsIInv DEF Environment
<1>7. QED
  BY <1>1, <1>2, <1>3, <1>4, <1>5, <1>6 DEF Next, KernelEventLoop, Ended

(***************************************************************************)
(* The invariant IInv holds in every state of the server: the conjunction  *)
(* of the type invariant with the relations between descriptors, map,      *)
(* knotes and clients, none of which is inductive without the others.      *)
(***************************************************************************)
THEOREM Invariance == Spec => []IInv
<1>1. Init => IInv
  BY InitIInv
<1>2. IInv /\ [Next]_vars => IInv'
  BY NextKeepsIInv
<1>3. QED
  BY <1>1, <1>2, PTL DEF Spec

(* Every variable of the event loop keeps its type. *)
THEOREM TypeCorrect == Spec => []TypeOK
<1>1. IInv => TypeOK
  BY DEF IInv
<1>2. QED
  BY <1>1, Invariance, PTL

(***************************************************************************)
(* No client is served from the Connection of another: the map holds one   *)
(* for exactly the open descriptors, made for the client at the other end, *)
(* however descriptors are closed, accepted and reused within a batch.     *)
(***************************************************************************)
THEOREM MapIsFaithful == Spec => []MapMatchesDescriptors
<1>1. IInv => MapMatchesDescriptors
  BY DEF IInv
<1>2. QED
  BY <1>1, Invariance, PTL

(* A client is never served on two descriptors. *)
THEOREM OneDescriptor == Spec => []OneDescriptorPerClient
<1>1. IInv => OneDescriptorPerClient
  BY DEF IInv
<1>2. QED
  BY <1>1, Invariance, PTL

(***************************************************************************)
(* The kqueue watches the input of every connection, and the output of     *)
(* exactly those that received something.                                  *)
(***************************************************************************)
THEOREM KnotesAreFaithful == Spec => []KnotesFollowConnections
<1>1. IInv => KnotesFollowConnections
  BY DEF IInv
<1>2. QED
  BY <1>1, Invariance, PTL

(* Nothing is kept for a client that is away, and none is lost. *)
THEOREM NothingLeaks == Spec => []NothingIsKeptForTheAbsent
<1>1. IInv => NothingIsKeptForTheAbsent
  BY DEF IInv
<1>2. QED
  BY <1>1, Invariance, PTL

-----------------------------------------------------------------------------
(* That a final reply stands, an action property. *)

Stands(f) ==
    /\ connection_map'[f].conn.reply = "final"
    /\ connection_map[f].conn.sends <= connection_map'[f].conn.sends

(* A step that leaves the entry of f alone. *)
LEMMA UntouchedStands ==
    ASSUME IInv, NEW f \in Fds, InMap(f), connection_map[f].conn.reply = "final",
           connection_map'[f] = connection_map[f]
    PROVE  Stands(f)
<1>1. connection_map[f].conn \in Connections
  BY DEF IInv, TypeOK, MapTypeOK, InMap, Absent, Entries
<1>2. QED
  BY <1>1 DEF Stands, Connections

(* A call of the Connection of g. *)
LEMMA CallStands ==
    ASSUME IInv, NEW f \in Fds, InMap(f), connection_map[f].conn.reply = "final",
           NEW g \in Fds,
           NEW d \in Received(connection_map[g].conn)
                       \cup Dispatched(connection_map[g].conn)
                       \cup {TimedOut(connection_map[g].conn)},
           connection_map' = [connection_map EXCEPT ![g].conn = d]
    PROVE  Stands(f)
<1>1. CASE f = g
  <2>1. connection_map[f].conn \in Connections /\ connection_map[f] \in Entries
    BY DEF IInv, TypeOK, MapTypeOK, InMap, Absent, Entries
  <2>2. d.reply = "final" /\ connection_map[f].conn.sends <= d.sends
    BY <1>1, <2>1, FinalRepliesStand
  <2>3. connection_map'[f].conn = d
    BY <1>1, <2>1 DEF IInv, TypeOK, MapTypeOK, Entries
  <2>4. QED
    BY <2>2, <2>3 DEF Stands
<1>2. CASE f # g
  BY <1>2, UntouchedStands DEF IInv, TypeOK, MapTypeOK
<1>3. QED
  BY <1>1, <1>2

(* The removal of a connection, which closes its descriptor. *)
LEMMA RemovalStands ==
    ASSUME IInv, NEW f \in Fds, InMap(f), connection_map[f].conn.reply = "final",
           f \notin Closed, NEW g \in Fds, RemoveFromConnectionMap(g)
    PROVE  Stands(f)
<1>1. f # g
  BY DEF Closed, RemoveFromConnectionMap, Close, InMap,
         IInv, TypeOK, SocketTypeOK, MapMatchesDescriptors
<1>2. QED
  BY <1>1, UntouchedStands DEF RemoveFromConnectionMap, IInv, TypeOK, MapTypeOK

(* No step but a close touches a final reply, or takes back a piece of it. *)
LEMMA NextStands ==
    ASSUME IInv, Next,
           NEW f \in Fds, InMap(f), connection_map[f].conn.reply = "final", f \notin Closed
    PROVE  Stands(f)
<1>1. CASE UNCHANGED connection_map
  BY <1>1, UntouchedStands
<1>2. CASE Kevent
  BY <1>2, <1>1 DEF Kevent, connVars
<1>3. CASE CloseHangingConnections
  <2>1. ASSUME NEW g \in Fds, TimeOutConnection(g)
        PROVE  Stands(f)
    BY <2>1, CallStands DEF TimeOutConnection
  <2>2. ASSUME NEW g \in Fds, CloseHanging(g)
        PROVE  Stands(f)
    BY <1>1, <2>2, RemovalStands DEF CloseHanging, End, connVars
  <2>3. QED
    BY <1>1, <1>3, <2>1, <2>2
       DEF CloseHangingConnections, KeepConnection, SweepDone, connVars
<1>4. ASSUME NEW e \in batch, HandleEvent(e)
      PROVE  Stands(f)
  <2>1. e \in Events
    BY DEF IInv, TypeOK, LoopTypeOK
  <2>2. CASE HandleEof(e)
    BY <2>1, <2>2, EventIdents, RemovalStands DEF HandleEof
  <2>3. CASE AcceptNewConnection(e)
    <3>1. ASSUME NEW g \in Free, NEW c, AddToConnectionMap(g, c)
          PROVE  Stands(f)
      <4>1. f # g
        BY DEF Free, InMap, IInv, MapMatchesDescriptors
      <4>2. QED
        BY <3>1, <4>1, UntouchedStands DEF AddToConnectionMap, IInv, TypeOK, MapTypeOK, Free
    <3>2. QED
      BY <1>1, <2>3, <3>1 DEF AcceptNewConnection, End, connVars
  <2>4. CASE ReceiveRequest(e)
    <3>1. e.ident \in Fds
      BY <2>1, <2>4, EventIdents DEF ReceiveRequest
    <3>2. ReceivedBy(e.ident) \subseteq Received(connection_map[e.ident].conn)
      BY DEF ReceivedBy
    <3>3. QED
      BY <1>1, <2>4, <3>1, <3>2, CallStands DEF ReceiveRequest, End, connVars
  <2>5. CASE SendResponse(e)
    <3>1. e.ident \in Fds
      BY <2>1, <2>5, EventIdents DEF SendResponse
    <3>2. QED
      BY <1>1, <2>5, <3>1, CallStands, RemovalStands DEF SendResponse, End, connVars
  <2>6. CASE HandleTimer(e)
    BY <1>1, <2>6 DEF HandleTimer, connVars
  <2>7. QED
    BY <1>4, <2>2, <2>3, <2>4, <2>5, <2>6 DEF HandleEvent
<1>5. CASE EventsDone
  BY <1>5, <1>1 DEF EventsDone, connVars
<1>6. CASE Environment
  BY <1>6, <1>1
     DEF Environment, ClientConnects, ClientSends, ClientFinishes, ClientResets,
         ClientReads, TimeElapses, connVars
<1>7. CASE Ended
  BY <1>7, <1>1 DEF Ended, vars, connVars
<1>8. QED
  BY <1>2, <1>3, <1>4, <1>5, <1>6, <1>7 DEF Next, KernelEventLoop

(***************************************************************************)
(* A final reply stands until its connection is closed, and the count of   *)
(* its pieces sent never falls, whatever timeouts and input come after it. *)
(***************************************************************************)
THEOREM RepliesStand == Spec => FinalReplyStands
<1> DEFINE Standing ==
      \A f \in Fds :
         LET c == connection_map[f].conn
             d == connection_map'[f].conn
         IN  InMap(f) /\ c.reply = "final" /\ f \notin Closed
                => d.reply = "final" /\ c.sends <= d.sends
<1>1. IInv /\ [Next]_vars => [Standing]_vars
  <2> SUFFICES ASSUME IInv, Next PROVE Standing
    OBVIOUS
  <2>1. QED
    BY NextStands DEF Stands
<1>2. QED
  BY <1>1, Invariance, PTL DEF Spec, FinalReplyStands
-----------------------------------------------------------------------------
(***************************************************************************)
(* Clients that send their request in one piece and do not reset their     *)
(* connection, and a server that is not idle for a minute: the conditions  *)
(* under which no event of a batch is stale when it is handled.            *)
(***************************************************************************)
Polite ==
    /\ Faults \cap {"reset", "idle", "throw"} = {}
    /\ MaxPieces <= 1

(* There are descriptors for all clients at once. *)
EnoughDescriptors ==
    /\ IsFiniteSet(Clients) /\ IsFiniteSet(Fds)
    /\ Cardinality(Clients) <= Cardinality(Fds)

NobodyVanishes ==
    /\ \A c \in Clients : peer[c] # "rst"
    /\ expired = {}

(* A connection that left state Start has all the input of its client. *)
HeardInFull ==
    \A f \in Fds :
       InMap(f) /\ connection_map[f].conn.state # "Start" =>
          sent[open[f]] > 0 /\ inbox[open[f]] = 0

(* The event of a listener has a client to accept. *)
ClientsAwaitAccept ==
    \A e \in batch : e.ident \in Listeners => queue[e.ident] # {}

InputEvent(e) == e.ident \in Fds /\ e.filter = "READ" /\ ~ e.eof

(* The event of some input finds it, and is the only one of its descriptor. *)
InputAwaitsReceive ==
    \A e \in batch :
       InputEvent(e) =>
          /\ open[e.ident] # NoClient
          /\ inbox[open[e.ident]] > 0
          /\ connection_map[e.ident].conn.state = "Start"
          /\ \A d \in batch : d.ident = e.ident => d = e

(* The event of possible output finds it still possible. *)
OutputFits ==
    /\ \A e \in batch :
          e.filter = "WRITE" => ~ e.eof /\ open[e.ident] \notin blocked
    /\ \A c \in blocked : c \in Clients /\ ~ Queued(c)

(***************************************************************************)
(* What holds, on top of IInv, of a server whose clients are polite.       *)
(***************************************************************************)
PoliteInv ==
    /\ NobodyVanishes
    /\ HeardInFull
    /\ ClientsAwaitAccept
    /\ InputAwaitsReceive
    /\ OutputFits

(* The server begins without connections and without events. *)
LEMMA InitPoliteInv ==
    Init => PoliteInv
BY DEF Init, PoliteInv, NobodyVanishes, HeardInFull, ClientsAwaitAccept,
       InputAwaitsReceive, OutputFits, InMap, Absent

(* A step that only moves on, or drops events. *)
LEMMA MovingOnKeepsPoliteInv ==
    ASSUME PoliteInv, UNCHANGED << clientVars, fdVars, connVars >>,
           batch' \subseteq batch
    PROVE  PoliteInv'
<1> USE DEF clientVars, fdVars, connVars, PoliteInv
<1>1. NobodyVanishes'
  BY DEF NobodyVanishes
<1>2. HeardInFull'
  BY DEF HeardInFull, InMap
<1>3. ClientsAwaitAccept'
  BY DEF ClientsAwaitAccept
<1>4. InputAwaitsReceive'
  BY DEF InputAwaitsReceive, InputEvent
<1>5. OutputFits'
  BY DEF OutputFits, Queued
<1>6. QED
  BY <1>1, <1>2, <1>3, <1>4, <1>5

(***************************************************************************)
(* The clients.  One that was heard has sent all it will, and one that     *)
(* waits to be accepted has no output to read.                             *)
(***************************************************************************)
LEMMA ClientKeepsPoliteInv ==
    ASSUME Polite, IInv, PoliteInv, NEW c \in Clients,
           \/ ClientConnects(c) \/ ClientSends(c) \/ ClientFinishes(c)
           \/ ClientResets(c) \/ ClientReads(c)
    PROVE  PoliteInv'
<1> USE DEF fdVars, connVars, loopVars, PoliteInv
<1>t. TypeOK /\ MapMatchesDescriptors /\ OneDescriptorPerClient
        /\ KnotesFollowConnections /\ NothingIsKeptForTheAbsent
  BY DEF IInv
<1>1. CASE ClientConnects(c)
  <2> USE <1>1 DEF ClientConnects
  <2>1. NobodyVanishes'
    BY <1>t DEF NobodyVanishes, TypeOK, SocketTypeOK
  <2>2. HeardInFull'
    BY DEF HeardInFull, InMap
  <2>3. ClientsAwaitAccept'
    BY <1>t DEF ClientsAwaitAccept, TypeOK, SocketTypeOK
  <2>4. InputAwaitsReceive'
    BY DEF InputAwaitsReceive, InputEvent
  <2>5. c \notin blocked
    BY <1>t DEF NothingIsKeptForTheAbsent
  <2>6. \A d \in Clients \ {c} : Queued(d)' => Queued(d)
    BY <1>t DEF Queued, TypeOK, SocketTypeOK
  <2>7. OutputFits'
    BY <2>5, <2>6 DEF OutputFits
  <2>8. QED
    BY <2>1, <2>2, <2>3, <2>4, <2>7
<1>2. CASE ClientSends(c)
  <2> USE <1>2 DEF ClientSends
  <2>1. NobodyVanishes'
    BY DEF NobodyVanishes
  <2>2. HeardInFull'
    <3>1. sent[c] = 0
      BY <1>t, BoundsAssumption DEF Polite, TypeOK, SocketTypeOK
    <3>2. SUFFICES ASSUME NEW f \in Fds, InMap(f)', (connection_map[f].conn.state # "Start")'
                   PROVE  (sent[open[f]] > 0 /\ inbox[open[f]] = 0)'
      BY DEF HeardInFull
    <3>3. sent[open[f]] > 0 /\ inbox[open[f]] = 0
      BY <3>2 DEF HeardInFull, InMap
    <3>4. open[f] # c
      BY <3>1, <3>3
    <3>5. QED
      BY <3>3, <3>4, <1>t DEF TypeOK, SocketTypeOK
  <2>3. ClientsAwaitAccept'
    BY DEF ClientsAwaitAccept
  <2>4. InputAwaitsReceive'
    <3>1. \A d \in Clients : inbox'[d] >= inbox[d] /\ inbox[d] \in Nat
      BY <1>t, BoundsAssumption DEF TypeOK, SocketTypeOK
    <3>2. ASSUME NEW e \in batch, InputEvent(e)
          PROVE  inbox'[open[e.ident]] > 0
      <4>1. open[e.ident] # NoClient /\ inbox[open[e.ident]] > 0
        BY <3>2 DEF InputAwaitsReceive
      <4>2. open[e.ident] \in Clients
        BY <3>2, <4>1, <1>t DEF InputEvent, TypeOK, SocketTypeOK
      <4> DEFINE o == open[e.ident]
      <4>3. inbox'[o] >= inbox[o] /\ inbox[o] \in Nat
        BY <4>2, <3>1
      <4>4. inbox'[o] \in Nat
        BY <1>t, <4>2, BoundsAssumption DEF TypeOK, SocketTypeOK
      <4>5. inbox[o] > 0
        BY <4>1
      <4> HIDE DEF o
      <4>6. inbox'[o] > 0
        BY <4>3, <4>4, <4>5
      <4>7. QED
        BY <4>6 DEF o
    <3>3. QED
      BY <3>2 DEF InputAwaitsReceive, InputEvent
  <2>5. OutputFits'
    BY DEF OutputFits, Queued
  <2>6. QED
    BY <2>1, <2>2, <2>3, <2>4, <2>5
<1>3. CASE ClientFinishes(c)
  <2> USE <1>3 DEF ClientFinishes
  <2>1. NobodyVanishes'
    BY <1>t DEF NobodyVanishes, TypeOK, SocketTypeOK
  <2>2. HeardInFull'
    BY DEF HeardInFull, InMap
  <2>3. ClientsAwaitAccept' /\ InputAwaitsReceive'
    BY DEF ClientsAwaitAccept, InputAwaitsReceive, InputEvent
  <2>4. OutputFits'
    BY DEF OutputFits, Queued
  <2>5. QED
    BY <2>1, <2>2, <2>3, <2>4
<1>4. CASE ClientResets(c)
  BY <1>4 DEF ClientResets, Polite
<1>5. CASE ClientReads(c)
  <2> USE <1>5 DEF ClientReads
  <2>1. NobodyVanishes'
    BY DEF NobodyVanishes
  <2>2. HeardInFull'
    BY DEF HeardInFull, InMap
  <2>3. ClientsAwaitAccept' /\ InputAwaitsReceive'
    BY DEF ClientsAwaitAccept, InputAwaitsReceive, InputEvent
  <2>4. OutputFits'
    BY DEF OutputFits, Queued
  <2>5. QED
    BY <2>1, <2>2, <2>3, <2>4
<1>6. QED
  BY <1>1, <1>2, <1>3, <1>4, <1>5

(***************************************************************************)
(* kevent(): input is reported of a connection that was not heard before,  *)
(* so no output is.                                                        *)
(***************************************************************************)
LEMMA KeventKeepsPoliteInv ==
    ASSUME IInv, IInv', PoliteInv, Kevent
    PROVE  PoliteInv'
<1> USE DEF PoliteInv
<1>t. TypeOK /\ MapMatchesDescriptors /\ OneDescriptorPerClient
        /\ KnotesFollowConnections /\ NothingIsKeptForTheAbsent
  BY DEF IInv
<1>u. UNCHANGED << clientVars, fdVars, connVars >>
  BY DEF Kevent
<1>b. batch' \subseteq ReadReady \cup WriteReady \cup AcceptReady \cup {TimerEvent}
  BY DEF Kevent
<1>r. ASSUME NEW e \in ReadReady
      PROVE  /\ e.ident \in Fds /\ e.filter = "READ"
             /\ e.eof = (peer[open[e.ident]] \in {"fin", "rst"})
             /\ e.ident \in read_on /\ e.ident \notin Listeners
             /\ ~ e.eof => inbox[open[e.ident]] > 0
  <2>1. PICK f \in read_on :
           /\ inbox[open[f]] > 0 \/ peer[open[f]] \in {"fin", "rst"}
           /\ e = [ident |-> f, filter |-> "READ",
                   eof |-> peer[open[f]] \in {"fin", "rst"}]
    BY DEF ReadReady
  <2>2. e.ident = f /\ e.filter = "READ" /\ e.eof = (peer[open[f]] \in {"fin", "rst"})
    BY <2>1
  <2>3. f \in Fds /\ f \notin Listeners
    BY <1>t, ListenersAssumption DEF TypeOK, SocketTypeOK
  <2>4. ~ e.eof => inbox[open[f]] > 0
    BY <2>1, <2>2
  <2>5. QED
    BY <2>2, <2>3, <2>4
<1>w. ASSUME NEW e \in WriteReady
      PROVE  /\ e.ident \in Fds /\ e.filter = "WRITE"
             /\ e.eof = (peer[open[e.ident]] = "rst")
             /\ e.ident \in write_on /\ e.ident \notin Listeners
             /\ open[e.ident] \notin blocked
  BY <1>t, ListenersAssumption DEF WriteReady, TypeOK, SocketTypeOK
<1>a. ASSUME NEW e \in AcceptReady
      PROVE  /\ e.ident \in Listeners /\ e.filter = "READ" /\ e.ident \notin Fds
             /\ queue[e.ident] # {}
  BY ListenersAssumption DEF AcceptReady
<1>e. TimerEvent.ident \notin Fds \cup Listeners /\ TimerEvent.filter = "TIMER"
  BY ListenersAssumption DEF TimerEvent
<1>1. NobodyVanishes'
  BY <1>u DEF NobodyVanishes, clientVars, connVars
<1>2. HeardInFull'
  BY <1>u DEF HeardInFull, InMap, clientVars, fdVars, connVars
<1>3. ClientsAwaitAccept'
  BY <1>u, <1>b, <1>r, <1>w, <1>a, <1>e DEF ClientsAwaitAccept, clientVars
<1>4. InputAwaitsReceive'
  <2>1. SUFFICES ASSUME NEW e \in batch', InputEvent(e)
                 PROVE  /\ open[e.ident] # NoClient
                        /\ inbox[open[e.ident]] > 0
                        /\ connection_map[e.ident].conn.state = "Start"
                        /\ \A d \in batch' : d.ident = e.ident => d = e
    BY <1>u DEF InputAwaitsReceive, InputEvent, clientVars, fdVars, connVars
  <2>2. e \in ReadReady
    BY <2>1, <1>b, <1>w, <1>a, <1>e DEF InputEvent
  <2>3. open[e.ident] # NoClient /\ inbox[open[e.ident]] > 0
    BY <2>1, <2>2, <1>r, <1>t DEF InputEvent, KnotesFollowConnections
  <2>4. connection_map[e.ident].conn.state = "Start"
    <3>1. InMap(e.ident)
      BY <2>1, <2>3, <1>t DEF InputEvent, InMap, MapMatchesDescriptors
    <3>2. QED
      BY <3>1, <2>1, <2>3, <1>t, BoundsAssumption DEF InputEvent, HeardInFull
  <2>5. ASSUME NEW d \in batch', d.ident = e.ident
        PROVE  d = e
    <3>1. d \notin WriteReady
      BY <2>5, <2>4, <1>w, <1>t DEF KnotesFollowConnections
    <3>2. d \in ReadReady
      BY <2>5, <3>1, <2>1, <1>b, <1>a, <1>e DEF InputEvent
    <3>3. d.eof = e.eof /\ d.filter = e.filter
      BY <2>5, <3>2, <2>2, <1>r
    <3>4. QED
      BY <2>5, <3>2, <2>2 DEF ReadReady
  <2>6. QED
    BY <2>3, <2>4, <2>5
<1>5. OutputFits'
  <2>1. ASSUME NEW e \in batch', e.filter = "WRITE"
        PROVE  ~ e.eof /\ open[e.ident] \notin blocked
    <3>1. e \in WriteReady
      BY <2>1, <1>b, <1>r, <1>a, <1>e
    <3>2. open[e.ident] \in Clients
      BY <3>1, <1>w, <1>t DEF KnotesFollowConnections, TypeOK, SocketTypeOK
    <3>3. QED
      BY <3>1, <3>2, <1>w DEF NobodyVanishes
  <2>2. QED
    BY <1>u, <2>1 DEF OutputFits, Queued, clientVars, fdVars
<1>6. QED
  BY <1>1, <1>2, <1>3, <1>4, <1>5

(***************************************************************************)
(* RemoveFromConnectionMap, when no other event of the batch is about      *)
(* input of the descriptor.                                                *)
(***************************************************************************)
LEMMA RemovalKeepsPoliteInv ==
    ASSUME IInv, PoliteInv, NEW f \in Fds, RemoveFromConnectionMap(f),
           batch' \subseteq batch,
           \A d \in batch' : InputEvent(d) => d.ident # f
    PROVE  PoliteInv'
<1> USE DEF RemoveFromConnectionMap, Close, PoliteInv
<1>t. TypeOK /\ MapMatchesDescriptors /\ OneDescriptorPerClient
  BY DEF IInv
<1>o. ASSUME NEW g \in Fds, g # f
      PROVE  /\ open'[g] = open[g] /\ connection_map'[g] = connection_map[g]
             /\ open[g] \in Clients =>
                   sent'[open[g]] = sent[open[g]] /\ inbox'[open[g]] = inbox[open[g]]
  <2>1. open'[g] = open[g] /\ connection_map'[g] = connection_map[g]
    BY <1>o, <1>t DEF TypeOK, SocketTypeOK, MapTypeOK
  <2>2. ASSUME open[g] \in Clients
        PROVE  open[g] # open[f]
    BY <2>2, <1>o, <1>t, ClientsAssumption DEF OneDescriptorPerClient
  <2>3. QED
    BY <2>1, <2>2
<1>f. open'[f] = NoClient /\ ~ InMap(f)'
  BY <1>t DEF InMap, Absent, TypeOK, SocketTypeOK, MapTypeOK
<1>1. NobodyVanishes'
  BY DEF NobodyVanishes
<1>2. HeardInFull'
  <2>1. ASSUME NEW g \in Fds, InMap(g)'
        PROVE  g # f /\ InMap(g) /\ open[g] \in Clients
    <3>1. g # f
      BY <2>1, <1>f
    <3>2. InMap(g)
      BY <2>1, <3>1, <1>o DEF InMap
    <3>3. QED
      BY <3>1, <3>2, <1>t DEF InMap, MapMatchesDescriptors, TypeOK, SocketTypeOK
  <2>2. QED
    BY <2>1, <1>o DEF HeardInFull
<1>3. ClientsAwaitAccept'
  BY DEF ClientsAwaitAccept
<1>4. InputAwaitsReceive'
  <2>1. SUFFICES ASSUME NEW e \in batch', InputEvent(e)
                 PROVE  (/\ open[e.ident] # NoClient
                         /\ inbox[open[e.ident]] > 0
                         /\ connection_map[e.ident].conn.state = "Start"
                         /\ \A d \in batch : d.ident = e.ident => d = e)'
    BY DEF InputAwaitsReceive, InputEvent
  <2>2. e.ident # f /\ e.ident \in Fds
    BY <2>1 DEF InputEvent
  <2>3. open[e.ident] # NoClient /\ inbox[open[e.ident]] > 0
    BY <2>1 DEF InputAwaitsReceive
  <2>4. open[e.ident] \in Clients
    BY <2>2, <2>3, <1>t DEF TypeOK, SocketTypeOK
  <2>5. connection_map[e.ident].conn.state = "Start"
        /\ \A d \in batch : d.ident = e.ident => d = e
    BY <2>1 DEF InputAwaitsReceive
  <2>6. QED
    BY <2>2, <2>3, <2>4, <2>5, <1>o
<1>5. OutputFits'
  <2>1. ASSUME NEW e \in batch', e.filter = "WRITE"
        PROVE  ~ e.eof /\ open'[e.ident] \notin blocked'
    <3>1. ~ e.eof /\ open[e.ident] \notin blocked
      BY <2>1 DEF OutputFits
    <3>2. CASE e.ident = f
      BY <3>1, <3>2, <1>f, ClientsAssumption DEF OutputFits
    <3>3. CASE e.ident # f
      <4>1. e.ident \in Fds
        BY <2>1, <1>t, EventIdents, ListenersAssumption DEF TypeOK, LoopTypeOK, Events, TimerEvent
      <4>2. QED
        BY <3>1, <3>3, <4>1, <1>o
    <3>4. QED
      BY <3>2, <3>3
  <2>2. QED
    BY <2>1 DEF OutputFits, Queued
<1>6. QED
  BY <1>1, <1>2, <1>3, <1>4, <1>5

(***************************************************************************)
(* accept() on a descriptor no event is about whose input matters.         *)
(***************************************************************************)
LEMMA AcceptKeepsPoliteInv ==
    ASSUME IInv, PoliteInv, NEW e \in batch, AcceptNewConnection(e)
    PROVE  PoliteInv'
<1> USE DEF PoliteInv
<1>t. TypeOK /\ MapMatchesDescriptors /\ OneDescriptorPerClient
  BY DEF IInv
<1>e. e \in Events /\ batch \subseteq Events
  BY <1>t DEF TypeOK, LoopTypeOK
<1>1. CASE End("accept")
  BY <1>1, MovingOnKeepsPoliteInv DEF End
<1>2. CASE ~ End("accept")
  <2>1. PICK c \in queue[e.ident], f \in Free :
               /\ open'  = [open EXCEPT ![f] = c]
               /\ queue' = [queue EXCEPT ![e.ident] = @ \ {c}]
               /\ AddToConnectionMap(f, c)
               /\ Handled(e)
               /\ UNCHANGED << peer, sent, inbox, blocked >>
    BY <1>2 DEF AcceptNewConnection
  <2>2. e.ident \in Listeners /\ ~ e.eof /\ f \in Fds /\ open[f] = NoClient /\ c \in Clients
    BY <1>t, <2>1 DEF AcceptNewConnection, Free, TypeOK, SocketTypeOK
  <2>o. ASSUME NEW g \in Fds, g # f
        PROVE  open'[g] = open[g] /\ connection_map'[g] = connection_map[g]
    BY <2>o, <2>1, <2>2, <1>t DEF AddToConnectionMap, TypeOK, SocketTypeOK, MapTypeOK
  <2>f. open'[f] = c /\ connection_map'[f].conn = NewConnection
    BY <2>1, <2>2, <1>t DEF AddToConnectionMap, TypeOK, SocketTypeOK, MapTypeOK
  <2>b. batch' = batch \ {e}
    BY <2>1 DEF Handled
  <2>3. NobodyVanishes'
    BY <2>1 DEF NobodyVanishes, AddToConnectionMap
  <2>4. HeardInFull'
    <3>1. (connection_map[f].conn.state = "Start")'
      BY <2>f DEF NewConnection
    <3>2. ASSUME NEW g \in Fds, InMap(g)', (connection_map[g].conn.state # "Start")'
          PROVE  (sent[open[g]] > 0 /\ inbox[open[g]] = 0)'
      <4>1. g # f
        BY <3>1, <3>2
      <4>2. InMap(g) /\ connection_map[g].conn.state # "Start"
        BY <3>2, <4>1, <2>o DEF InMap
      <4>3. sent[open[g]] > 0 /\ inbox[open[g]] = 0
        BY <4>2 DEF HeardInFull
      <4>4. QED
        BY <4>1, <4>3, <2>o, <2>1
    <3>3. QED
      BY <3>2 DEF HeardInFull
  <2>5. ClientsAwaitAccept'
    <3>1. ASSUME NEW d \in batch', d.ident \in Listeners
          PROVE  queue'[d.ident] # {}
      <4>1. d.ident # e.ident
        <5>1. ASSUME d.ident = e.ident
              PROVE  d = e
          <6>1. ASSUME NEW k \in batch, k.ident \in Listeners
                PROVE  k = [ident |-> k.ident, filter |-> "READ", eof |-> FALSE]
            <7>1. k \notin [ident : Fds, filter : {"READ", "WRITE"}, eof : BOOLEAN]
              BY <6>1, ListenersAssumption
            <7>2. k # TimerEvent
              BY <6>1, ListenersAssumption DEF TimerEvent
            <7>3. k \in [ident : Listeners, filter : {"READ"}, eof : {FALSE}]
              BY <7>1, <7>2, <6>1, <1>e DEF Events
            <7>4. QED
              BY <7>3
          <6>2. QED
            BY <6>1, <5>1, <3>1, <2>2, <2>b
        <5>2. QED
          BY <5>1, <3>1, <2>b
      <4>2. queue'[d.ident] = queue[d.ident]
        BY <4>1, <3>1, <2>1, <2>2, <1>t DEF TypeOK, SocketTypeOK
      <4>3. QED
        BY <4>2, <3>1, <2>b DEF ClientsAwaitAccept
    <3>2. QED
      BY <3>1 DEF ClientsAwaitAccept
  <2>6. InputAwaitsReceive'
    <3>1. SUFFICES ASSUME NEW d \in batch', InputEvent(d)
                   PROVE  (/\ open[d.ident] # NoClient
                           /\ inbox[open[d.ident]] > 0
                           /\ connection_map[d.ident].conn.state = "Start"
                           /\ \A k \in batch : k.ident = d.ident => k = d)'
      BY DEF InputAwaitsReceive, InputEvent
    <3>2. open[d.ident] # NoClient /\ inbox[open[d.ident]] > 0
          /\ connection_map[d.ident].conn.state = "Start"
          /\ \A k \in batch : k.ident = d.ident => k = d
      BY <3>1, <2>b DEF InputAwaitsReceive
    <3>3. d.ident # f /\ d.ident \in Fds
      BY <3>1, <3>2, <2>2 DEF InputEvent
    <3>4. QED
      BY <3>2, <3>3, <2>o, <2>b, <2>1
  <2>7. OutputFits'
    <3>1. c \notin blocked
      BY <2>1, <2>2 DEF OutputFits, Queued
    <3>2. ASSUME NEW d \in batch', d.filter = "WRITE"
          PROVE  ~ d.eof /\ open'[d.ident] \notin blocked'
      <4>1. d.ident \in Fds
        BY <3>2, <2>b, <1>e, EventIdents
      <4>2. ~ d.eof /\ open[d.ident] \notin blocked
        BY <3>2, <2>b DEF OutputFits
      <4>3. CASE d.ident = f
        BY <4>2, <4>3, <3>1, <2>f, <2>1
      <4>4. CASE d.ident # f
        BY <4>1, <4>2, <4>4, <2>o, <2>1
      <4>5. QED
        BY <4>3, <4>4
    <3>3. \A k \in Clients : Queued(k)' => Queued(k)
      BY <2>1, <2>2, <1>t DEF Queued, TypeOK, SocketTypeOK
    <3>4. QED
      BY <3>2, <3>3, <2>1 DEF OutputFits
  <2>8. QED
    BY <2>3, <2>4, <2>5, <2>6, <2>7
<1>3. QED
  BY <1>1, <1>2

(***************************************************************************)
(* ReceiveRequest, which leaves nothing unread.                            *)
(***************************************************************************)
LEMMA ReceiveKeepsPoliteInv ==
    ASSUME IInv, PoliteInv, NEW e \in batch, ReceiveRequest(e)
    PROVE  PoliteInv'
<1> USE DEF PoliteInv
<1>t. TypeOK /\ MapMatchesDescriptors /\ OneDescriptorPerClient
        /\ NothingIsKeptForTheAbsent
  BY DEF IInv
<1>e. e \in Events /\ batch \subseteq Events
  BY <1>t DEF TypeOK, LoopTypeOK
<1>1. CASE End("throw") \/ End("kevent")
  BY <1>1, MovingOnKeepsPoliteInv DEF End
<1>2. CASE ~ End("throw") /\ ~ End("kevent")
  <2> DEFINE f == e.ident
             c == open[f]
  <2>1. /\ c # NoClient
        /\ \E d \in ReceivedBy(f) :
              connection_map' = [connection_map EXCEPT ![f].conn = d]
        /\ \E n \in LeftUnread(f) : inbox' = [inbox EXCEPT ![c] = n]
        /\ expired'  = expired \ {f}
        /\ batch' = batch \ {e}
        /\ UNCHANGED << peer, sent, blocked, queue, open, read_on >>
    BY <1>2 DEF ReceiveRequest, Handled
  <2>i. InputEvent(e)
    BY <1>e, EventIdents DEF ReceiveRequest, InputEvent
  <2>2. f \in Fds /\ c \in Clients
    BY <2>1, <2>i, <1>t DEF InputEvent, TypeOK, SocketTypeOK
  <2>3. inbox[c] > 0 /\ \A d \in batch : d.ident = f => d = e
    BY <2>i, <2>1 DEF InputAwaitsReceive
  <2>4. inbox' = [inbox EXCEPT ![c] = 0]
    BY <2>1 DEF LeftUnread
  <2>5. sent[c] > 0
    <3>1. inbox[c] <= sent[c] /\ inbox[c] \in Nat /\ sent[c] \in Nat
      BY <1>t, <2>2, BoundsAssumption
         DEF NothingIsKeptForTheAbsent, TypeOK, SocketTypeOK
    <3>2. QED
      BY <2>3, <3>1
  <2>o. ASSUME NEW g \in Fds, g # f
        PROVE  /\ connection_map'[g] = connection_map[g]
               /\ open[g] \in Clients => inbox'[open[g]] = inbox[open[g]]
    <3>1. connection_map'[g] = connection_map[g]
      BY <2>o, <2>1, <1>t DEF TypeOK, MapTypeOK
    <3>2. open[g] # c
      BY <2>o, <2>1, <2>2, <1>t DEF OneDescriptorPerClient
    <3>3. QED
      BY <3>1, <3>2, <2>4, <1>t DEF TypeOK, SocketTypeOK
  <2> HIDE DEF f, c
  <2>6. NobodyVanishes'
    BY <2>1 DEF NobodyVanishes
  <2>7. HeardInFull'
    <3>1. ASSUME NEW g \in Fds, InMap(g)', (connection_map[g].conn.state # "Start")'
          PROVE  (sent[open[g]] > 0 /\ inbox[open[g]] = 0)'
      <4>1. CASE g = f
        <5>1. inbox'[c] = 0
          BY <2>2, <2>4, <1>t DEF TypeOK, SocketTypeOK
        <5>2. QED
          BY <4>1, <5>1, <2>1, <2>5 DEF c, f
      <4>2. CASE g # f
        <5>1. InMap(g) /\ connection_map[g].conn.state # "Start"
          BY <3>1, <4>2, <2>o DEF InMap
        <5>2. open[g] \in Clients
          BY <5>1, <1>t DEF InMap, MapMatchesDescriptors, TypeOK, SocketTypeOK
        <5>3. sent[open[g]] > 0 /\ inbox[open[g]] = 0
          BY <5>1 DEF HeardInFull
        <5>4. QED
          BY <4>2, <5>2, <5>3, <2>o, <2>1
      <4>3. QED
        BY <4>1, <4>2
    <3>2. QED
      BY <3>1 DEF HeardInFull
  <2>8. ClientsAwaitAccept'
    BY <2>1 DEF ClientsAwaitAccept
  <2>9. InputAwaitsReceive'
    <3>1. SUFFICES ASSUME NEW d \in batch', InputEvent(d)
                   PROVE  (/\ open[d.ident] # NoClient
                           /\ inbox[open[d.ident]] > 0
                           /\ connection_map[d.ident].conn.state = "Start"
                           /\ \A k \in batch : k.ident = d.ident => k = d)'
      BY DEF InputAwaitsReceive, InputEvent
    <3>2. open[d.ident] # NoClient /\ inbox[open[d.ident]] > 0
          /\ connection_map[d.ident].conn.state = "Start"
          /\ \A k \in batch : k.ident = d.ident => k = d
      BY <3>1, <2>1 DEF InputAwaitsReceive
    <3>3. d.ident # f /\ d.ident \in Fds
      BY <3>1, <2>1, <2>3 DEF InputEvent
    <3>4. open[d.ident] \in Clients
      BY <3>2, <3>3, <1>t DEF TypeOK, SocketTypeOK
    <3>5. QED
      BY <3>2, <3>3, <3>4, <2>o, <2>1
  <2>10. OutputFits'
    BY <2>1 DEF OutputFits, Queued
  <2>11. QED
    BY <2>6, <2>7, <2>8, <2>9, <2>10
<1>3. QED
  BY <1>1, <1>2

(***************************************************************************)
(* SendResponse.  Its event is about no input, so the connection was heard *)
(* and its state is not Start, or there is no reply to send.               *)
(***************************************************************************)
LEMMA SendKeepsPoliteInv ==
    ASSUME IInv, PoliteInv, NEW e \in batch, SendResponse(e)
    PROVE  PoliteInv'
<1> USE DEF PoliteInv
<1>t. TypeOK /\ MapMatchesDescriptors /\ OneDescriptorPerClient
        /\ KnotesFollowConnections
  BY DEF IInv
<1>e. e \in Events /\ batch \subseteq Events
  BY <1>t DEF TypeOK, LoopTypeOK
<1>f. e.ident \in Fds /\ e.filter = "WRITE"
  BY <1>e, EventIdents DEF SendResponse
<1>i. ASSUME NEW d \in batch, InputEvent(d)
      PROVE  d.ident # e.ident
  BY <1>i, <1>f DEF InputAwaitsReceive, InputEvent
<1>1. CASE UNCHANGED << clientVars, fdVars, connVars >>
  <2>1. batch' \subseteq batch
    BY DEF SendResponse, Handled, End
  <2>2. QED
    BY <1>1, <2>1, MovingOnKeepsPoliteInv
<1>2. CASE RemoveFromConnectionMap(e.ident) /\ Handled(e)
  <2>1. batch' = batch \ {e}
    BY <1>2 DEF Handled
  <2>2. QED
    BY <1>2, <1>f, <1>i, <2>1, RemovalKeepsPoliteInv DEF InputEvent
<1>3. ASSUME NEW f \in Fds, f = e.ident, InMap(f),
             connection_map[f].conn.reply # "none",
             NEW d \in Dispatched(connection_map[f].conn),
             connection_map' = [connection_map EXCEPT ![f].conn = d],
             expired' = expired \ {f},
             blocked' \in { blocked, blocked \cup {open[f]} },
             UNCHANGED << peer, sent, inbox, queue, fdVars >>,
             Handled(e)
      PROVE  PoliteInv'
  <2> DEFINE c == connection_map[f].conn
  <2>1. connection_map[f] \in Entries /\ c \in Connections /\ open[f] \in Clients
    BY <1>3, <1>t DEF TypeOK, MapTypeOK, SocketTypeOK, InMap, Absent, Entries,
                      MapMatchesDescriptors
  <2>2. c.state # "Start"
    BY <1>3, <1>t DEF KnotesFollowConnections, NewConnection
  <2>o. ASSUME NEW g \in Fds, g # f
        PROVE  connection_map'[g] = connection_map[g] /\ open[g] # open[f]
    BY <2>o, <2>1, <1>3, <1>t, ClientsAssumption
       DEF OneDescriptorPerClient, TypeOK, MapTypeOK
  <2>f. connection_map'[f].owner = connection_map[f].owner
    BY <2>1, <1>3, <1>t DEF TypeOK, MapTypeOK, Entries
  <2>b. batch' = batch \ {e}
    BY <1>3 DEF Handled
  <2>u. UNCHANGED << peer, sent, inbox, queue, open >>
    BY <1>3 DEF fdVars
  <2>3. NobodyVanishes'
    BY <1>3 DEF NobodyVanishes
  <2>4. HeardInFull'
    <3>1. sent[open[f]] > 0 /\ inbox[open[f]] = 0
      BY <1>3, <2>2 DEF HeardInFull
    <3>2. ASSUME NEW g \in Fds, InMap(g)', (connection_map[g].conn.state # "Start")'
          PROVE  (sent[open[g]] > 0 /\ inbox[open[g]] = 0)'
      <4>1. CASE g = f
        BY <4>1, <3>1, <2>u
      <4>2. CASE g # f
        BY <4>2, <3>2, <2>o, <2>u DEF HeardInFull, InMap
      <4>3. QED
        BY <4>1, <4>2
    <3>3. QED
      BY <3>2 DEF HeardInFull
  <2>5. ClientsAwaitAccept'
    BY <2>b, <2>u DEF ClientsAwaitAccept
  <2>6. InputAwaitsReceive'
    <3>1. SUFFICES ASSUME NEW k \in batch', InputEvent(k)
                   PROVE  (/\ open[k.ident] # NoClient
                           /\ inbox[open[k.ident]] > 0
                           /\ connection_map[k.ident].conn.state = "Start"
                           /\ \A j \in batch : j.ident = k.ident => j = k)'
      BY DEF InputAwaitsReceive, InputEvent
    <3>2. open[k.ident] # NoClient /\ inbox[open[k.ident]] > 0
          /\ connection_map[k.ident].conn.state = "Start"
          /\ \A j \in batch : j.ident = k.ident => j = k
      BY <3>1, <2>b DEF InputAwaitsReceive
    <3>3. k.ident # f /\ k.ident \in Fds
      BY <3>1, <2>b, <1>3, <1>i DEF InputEvent
    <3>4. QED
      BY <3>2, <3>3, <2>o, <2>b, <2>u
  <2>7. OutputFits'
    <3>1. ~ Queued(open[f])
      BY <1>t, <1>3 DEF OneDescriptorPerClient, Queued
    <3>2. \A k \in blocked' : k \in Clients /\ ~ Queued(k)
      BY <3>1, <2>1, <1>3 DEF OutputFits
    <3>3. ASSUME NEW k \in batch', k.filter = "WRITE"
          PROVE  ~ k.eof /\ open[k.ident] \notin blocked'
      <4>1. k \in Events /\ ~ k.eof /\ open[k.ident] \notin blocked /\ k.ident \in Fds
        BY <3>3, <2>b, <1>e, EventIdents DEF OutputFits
      <4>2. ~ e.eof
        BY DEF SendResponse
      <4>3. ASSUME NEW j \in batch, j.filter = "WRITE", ~ j.eof
            PROVE  j = [ident |-> j.ident, filter |-> "WRITE", eof |-> FALSE]
        <5>1. j \in [ident : Fds, filter : {"READ", "WRITE"}, eof : BOOLEAN]
          <6>1. j \notin [ident : Listeners, filter : {"READ"}, eof : {FALSE}]
            BY <4>3
          <6>2. j # TimerEvent
            BY <4>3 DEF TimerEvent
          <6>3. QED
            BY <6>1, <6>2, <1>e DEF Events
        <5>2. QED
          BY <5>1, <4>3
      <4>4. k.ident # e.ident
        BY <4>1, <4>2, <4>3, <3>3, <2>b, <1>f
      <4>5. open[k.ident] # open[f]
        BY <4>1, <4>4, <2>o, <1>3
      <4>6. QED
        BY <4>1, <4>5, <1>3
    <3>4. QED
      BY <3>2, <3>3, <2>u DEF OutputFits, Queued
  <2>8. QED
    BY <2>3, <2>4, <2>5, <2>6, <2>7
<1>4. QED
  BY <1>1, <1>2, <1>3, <1>f DEF SendResponse, End

(* An event, whichever handler it is given to. *)
LEMMA EventKeepsPoliteInv ==
    ASSUME IInv, PoliteInv, NEW e \in batch, HandleEvent(e)
    PROVE  PoliteInv'
<1>1. e \in Events
  BY DEF IInv, TypeOK, LoopTypeOK
<1>2. CASE HandleEof(e)
  <2>1. e.eof /\ e.ident \in Fds
    BY <1>1, <1>2, EventIdents DEF HandleEof
  <2>2. batch' = batch \ {e} /\ RemoveFromConnectionMap(e.ident)
    BY <1>2 DEF HandleEof, Handled
  <2>3. ASSUME NEW d \in batch', InputEvent(d)
        PROVE  d.ident # e.ident
    BY <2>1, <2>2, <2>3 DEF PoliteInv, InputAwaitsReceive, InputEvent
  <2>4. QED
    BY <2>1, <2>2, <2>3, RemovalKeepsPoliteInv
<1>3. CASE HandleTimer(e)
  BY <1>3, MovingOnKeepsPoliteInv DEF HandleTimer, Handled
<1>4. QED
  BY <1>2, <1>3, AcceptKeepsPoliteInv, ReceiveKeepsPoliteInv, SendKeepsPoliteInv
     DEF HandleEvent

(* Every step. *)
LEMMA NextKeepsPoliteInv ==
    ASSUME Polite, IInv, IInv', PoliteInv, [Next]_vars
    PROVE  PoliteInv'
<1>1. CASE Kevent
  BY <1>1, KeventKeepsPoliteInv
<1>2. CASE CloseHangingConnections
  <2>1. ASSUME NEW f \in Fds, TimeOutConnection(f) \/ CloseHanging(f)
        PROVE  FALSE
    BY <2>1 DEF TimeOutConnection, CloseHanging, PoliteInv, NobodyVanishes
  <2>2. QED
    BY <1>2, <2>1, MovingOnKeepsPoliteInv
       DEF CloseHangingConnections, KeepConnection, SweepDone
<1>3. ASSUME NEW e \in batch, HandleEvent(e)
      PROVE  PoliteInv'
  BY <1>3, EventKeepsPoliteInv
<1>4. CASE EventsDone
  BY <1>4, MovingOnKeepsPoliteInv DEF EventsDone
<1>5. CASE Environment
  <2>1. ASSUME NEW f \in Fds, TimeElapses(f)
        PROVE  FALSE
    BY <2>1 DEF TimeElapses, Polite
  <2>2. QED
    BY <1>5, <2>1, ClientKeepsPoliteInv DEF Environment
<1>6. CASE UNCHANGED vars
  BY <1>6, MovingOnKeepsPoliteInv DEF vars, loopVars
<1>7. QED
  BY <1>1, <1>2, <1>3, <1>4, <1>5, <1>6 DEF Next, KernelEventLoop, Ended

(***************************************************************************)
(* Where there are descriptors for all clients, one that waits finds one:  *)
(* were all in use, two would be connected to one client.                  *)
(***************************************************************************)
LEMMA ADescriptorIsFree ==
    ASSUME EnoughDescriptors, IInv, NEW c \in Clients, Queued(c)
    PROVE  Free # {}
<1> SUFFICES ASSUME Free = {} PROVE FALSE
  OBVIOUS
<1>t. TypeOK /\ OneDescriptorPerClient
  BY DEF IInv
<1>1. open \in [Fds -> Clients \ {c}]
  BY <1>t DEF Free, TypeOK, SocketTypeOK, OneDescriptorPerClient, Queued
<1>2. /\ IsFiniteSet(Clients \ {c})
      /\ Cardinality(Clients \ {c}) = Cardinality(Clients) - 1
  BY FS_RemoveElement DEF EnoughDescriptors
<1>3. Cardinality(Clients) \in Nat /\ Cardinality(Fds) \in Nat
  BY FS_CardinalityType DEF EnoughDescriptors
<1>4. Cardinality(Clients \ {c}) < Cardinality(Fds)
  BY <1>2, <1>3 DEF EnoughDescriptors
<1>5. PICK f \in Fds, g \in Fds : f # g /\ open[f] = open[g]
  BY <1>1, <1>2, <1>4, FS_PigeonHole DEF EnoughDescriptors
<1>6. QED
  BY <1>1, <1>5, <1>t, ClientsAssumption DEF OneDescriptorPerClient

(***************************************************************************)
(* The invariant PoliteInv, from the general one.                          *)
(***************************************************************************)
LEMMA PoliteInvariance ==
    ASSUME Polite
    PROVE  Spec => []PoliteInv
<1>1. Init => PoliteInv
  BY InitPoliteInv
<1>2. IInv /\ IInv' /\ PoliteInv /\ [Next]_vars => PoliteInv'
  BY NextKeepsPoliteInv
<1>3. QED
  BY <1>1, <1>2, Invariance, PTL DEF Spec

(***************************************************************************)
(* Where clients send their request in one piece, none resets, and the     *)
(* minute of the timeout does not pass, a connection leaves state Start    *)
(* only because its client sent something: no event of input is handled on *)
(* a descriptor that was closed and given to another client meanwhile.     *)
(***************************************************************************)
THEOREM HeardClientsDidSpeak ==
    ASSUME Polite
    PROVE  Spec => []HeardClientsSpoke
<1>1. PoliteInv => HeardClientsSpoke
  BY DEF PoliteInv, HeardInFull, HeardClientsSpoke
<1>2. QED
  BY <1>1, PoliteInvariance, PTL

(***************************************************************************)
(* Under the same conditions, and with descriptors for all clients at      *)
(* once, no call of the event loop fails and the server never leaves it,   *)
(* for any number of clients that connect, send, read, and finish whenever *)
(* they like, and any length of the event list.                            *)
(***************************************************************************)
THEOREM PoliteClientsKeepItUp ==
    ASSUME Polite, EnoughDescriptors
    PROVE  Spec => []ServerStaysUp
<1>1. Init => ServerStaysUp
  BY DEF Init, ServerStaysUp
<1>2. IInv /\ PoliteInv /\ ServerStaysUp /\ [Next]_vars => ServerStaysUp'
  <2> SUFFICES ASSUME IInv, PoliteInv, cause = "none", [Next]_vars, cause' # "none"
               PROVE  FALSE
    BY DEF ServerStaysUp
  <2>1. CASE \E f \in Fds : CloseHanging(f)
    BY <2>1 DEF CloseHanging, PoliteInv, NobodyVanishes
  <2>2. ASSUME NEW e \in batch, AcceptNewConnection(e)
        PROVE  FALSE
    <3>1. queue[e.ident] = {} \/ Free = {}
      BY <2>2 DEF AcceptNewConnection, Handled
    <3>2. PICK c \in Clients : c \in queue[e.ident] /\ e.ident \in Listeners
      BY <2>2 DEF AcceptNewConnection, PoliteInv, ClientsAwaitAccept,
                  IInv, TypeOK, SocketTypeOK
    <3>3. QED
      BY <3>1, <3>2, ADescriptorIsFree DEF Queued
  <2>3. ASSUME NEW e \in batch, ReceiveRequest(e)
        PROVE  FALSE
    <3>1. e \in Events
      BY DEF IInv, TypeOK, LoopTypeOK
    <3>2. InputEvent(e)
      BY <2>3, <3>1, EventIdents DEF ReceiveRequest, InputEvent
    <3>3. QED
      BY <2>3, <3>2
         DEF ReceiveRequest, Handled, Polite, PoliteInv, InputAwaitsReceive
  <2>4. ASSUME NEW e \in batch, SendResponse(e)
        PROVE  FALSE
    <3>1. PICK s \in Fds :
             /\ s = e.ident /\ InMap(s)
             /\ peer[open[s]] = "rst" \/ open[s] \in blocked
      <4>1. e.ident \in Fds
        BY <2>4, EventIdents DEF SendResponse, IInv, TypeOK, LoopTypeOK
      <4>2. QED
        BY <2>4, <4>1 DEF SendResponse, Handled
    <3>2. open[s] \in Clients
      BY <3>1 DEF InMap, IInv, TypeOK, SocketTypeOK, MapMatchesDescriptors
    <3>3. QED
      BY <2>4, <3>1, <3>2 DEF SendResponse, PoliteInv, NobodyVanishes, OutputFits
  <2>5. QED
    BY <2>1, <2>2, <2>3, <2>4
       DEF Next, KernelEventLoop, Environment, Ended, Kevent, CloseHangingConnections,
           KeepConnection, TimeOutConnection, SweepDone, HandleEvent, HandleEof,
           HandleTimer, Handled, EventsDone, ClientConnects, ClientSends,
           ClientFinishes, ClientResets, ClientReads, TimeElapses, vars, loopVars
<1>3. QED
  BY <1>1, <1>2, Invariance, PoliteInvariance, PTL DEF Spec

-----------------------------------------------------------------------------
(* Why a connection is closed, an action property. *)

(***************************************************************************)
(* A connection that is done does not stay in the map: the call that ends  *)
(* it is the one after which it is removed.                                *)
(***************************************************************************)
NoneIsDone == \A f \in Fds : connection_map[f].conn.state # "Done"

LEMMA NextKeepsNoneIsDone ==
    ASSUME IInv, IInv', NoneIsDone, [Next]_vars
    PROVE  NoneIsDone'
<1>t. /\ connection_map \in [Fds -> Entries \cup {Absent}]
      /\ \A g \in Fds : connection_map[g].conn \in Connections
  BY NewConnectionType DEF IInv, TypeOK, MapTypeOK, Entries, Absent
<1>1. ASSUME UNCHANGED connection_map
      PROVE  NoneIsDone'
  BY <1>1 DEF NoneIsDone
<1>2. ASSUME NEW g \in Fds, RemoveFromConnectionMap(g)
      PROVE  NoneIsDone'
  BY <1>2, <1>t DEF NoneIsDone, RemoveFromConnectionMap, Absent, NewConnection
<1>3. ASSUME NEW g \in Fds, NEW d, d.state # "Done",
             connection_map' = [connection_map EXCEPT ![g].conn = d]
      PROVE  NoneIsDone'
  <2>1. connection_map'[g].conn = d
    BY <1>3, <1>t DEF Entries, Absent
  <2>2. \A f \in Fds \ {g} : connection_map'[f] = connection_map[f]
    BY <1>3, <1>t
  <2>3. QED
    BY <1>3, <2>1, <2>2 DEF NoneIsDone
<1>4. CASE CloseHangingConnections
  <2>1. ASSUME NEW g \in Fds, TimeOutConnection(g)
        PROVE  NoneIsDone'
    <3>1. TimedOut(connection_map[g].conn).state # "Done"
      BY <1>t, LifecycleStates DEF NoneIsDone
    <3>2. QED
      BY <2>1, <3>1, <1>3 DEF TimeOutConnection
  <2>2. QED
    BY <1>4, <2>1, <1>1, <1>2
       DEF CloseHangingConnections, CloseHanging, KeepConnection, SweepDone, End, connVars
<1>5. ASSUME NEW e \in batch, HandleEvent(e)
      PROVE  NoneIsDone'
  <2>1. e \in Events
    BY DEF IInv, TypeOK, LoopTypeOK
  <2>2. CASE HandleEof(e)
    BY <2>1, <2>2, <1>2, EventIdents DEF HandleEof
  <2>3. CASE AcceptNewConnection(e)
    <3>1. ASSUME NEW g \in Free, NEW c, AddToConnectionMap(g, c)
          PROVE  NoneIsDone'
      BY <3>1, <1>t DEF NoneIsDone, AddToConnectionMap, NewConnection
    <3>2. QED
      BY <2>3, <3>1, <1>1 DEF AcceptNewConnection, End, connVars
  <2>4. CASE ReceiveRequest(e)
    <3>1. e.ident \in Fds
      BY <2>1, <2>4, EventIdents DEF ReceiveRequest
    <3>2. \A d \in ReceivedBy(e.ident) : d.state # "Done"
      BY DEF ReceivedBy, Received
    <3>3. QED
      BY <2>4, <3>1, <3>2, <1>1, <1>3 DEF ReceiveRequest, End, connVars
  <2>5. CASE SendResponse(e)
    <3>1. e.ident \in Fds
      BY <2>1, <2>5, EventIdents DEF SendResponse
    <3>2. QED
      BY <2>5, <3>1, <1>1, <1>2, <1>3 DEF SendResponse, CanClose, End, connVars
  <2>6. CASE HandleTimer(e)
    BY <2>6, <1>1 DEF HandleTimer, connVars
  <2>7. QED
    BY <1>5, <2>2, <2>3, <2>4, <2>5, <2>6 DEF HandleEvent
<1>6. QED
  BY <1>1, <1>4, <1>5
     DEF Next, KernelEventLoop, Environment, Ended, Kevent, EventsDone,
         ClientConnects, ClientSends, ClientFinishes, ClientResets, ClientReads,
         TimeElapses, vars, connVars

LEMMA NoneIsDoneInvariance == Spec => []NoneIsDone
<1>1. Init => NoneIsDone
  BY DEF Init, NoneIsDone, Absent, NewConnection
<1>2. IInv /\ IInv' /\ NoneIsDone /\ [Next]_vars => NoneIsDone'
  BY NextKeepsNoneIsDone
<1>3. QED
  BY <1>1, <1>2, Invariance, PTL DEF Spec

Reason(f) ==
    \/ connection_map[f].conn.reply = "final"
    \/ f \in expired /\ connection_map[f].conn = NewConnection

(* Removal closes the descriptor it is given, and no other. *)
LEMMA RemovalClosesOne ==
    ASSUME IInv, NEW f \in Closed, NEW g \in Fds, RemoveFromConnectionMap(g)
    PROVE  f = g
BY DEF Closed, RemoveFromConnectionMap, Close, IInv, TypeOK, SocketTypeOK

(* Only a final reply that was sent to its end makes a connection done. *)
LEMMA FinalRepliesEnd ==
    ASSUME NEW c \in Connections, c.state # "Done",
           NEW d \in Dispatched(c), CanClose(d)
    PROVE  c.reply = "final"
BY DEF Connections, Replies, Dispatched, CanClose

LEMMA NextClosesWithReason ==
    ASSUME IInv, NoneIsDone, Next, NEW f \in Closed \ EofClosed
    PROVE  Reason(f)
<1>f. f \in Fds /\ open[f] # NoClient /\ open'[f] = NoClient
  BY DEF Closed
<1>1. open' # open
  BY <1>f
<1>2. ASSUME NEW g \in Fds, CloseHanging(g)
      PROVE  Reason(f)
  <2>1. RemoveFromConnectionMap(g)
    <3>1. CASE End("dangling")
      BY <3>1, <1>1 DEF End, fdVars
    <3>2. QED
      BY <1>2, <3>1 DEF CloseHanging
  <2>2. f = g
    BY <2>1, RemovalClosesOne
  <2>3. connection_map[f].conn = NewConnection
    BY <1>2, <2>2 DEF CloseHanging, CloseImmediately, IInv, KnotesFollowConnections
  <2>4. QED
    BY <1>2, <2>2, <2>3 DEF CloseHanging, Reason
<1>3. ASSUME NEW e \in batch, HandleEvent(e)
      PROVE  Reason(f)
  <2>1. e \in Events
    BY DEF IInv, TypeOK, LoopTypeOK
  <2>2. CASE HandleEof(e)
    <3>1. e.ident = f
      BY <2>1, <2>2, EventIdents, RemovalClosesOne DEF HandleEof
    <3>2. e \in batch \ batch' /\ e.eof
      BY <2>2 DEF HandleEof, Handled
    <3>3. QED
      BY <3>1, <3>2 DEF EofClosed
  <2>3. CASE AcceptNewConnection(e)
    <3>1. ASSUME NEW c \in queue[e.ident], NEW g \in Free,
                 open' = [open EXCEPT ![g] = c]
          PROVE  Reason(f)
      BY <3>1, <1>f DEF Free, IInv, TypeOK, SocketTypeOK
    <3>2. QED
      BY <2>3, <3>1, <1>1 DEF AcceptNewConnection, End, fdVars
  <2>4. CASE ReceiveRequest(e)
    BY <2>4, <1>1 DEF ReceiveRequest, End, fdVars
  <2>5. CASE SendResponse(e)
    <3>1. e.ident \in Fds
      BY <2>1, <2>5, EventIdents DEF SendResponse
    <3>2. PICK d \in Dispatched(connection_map[e.ident].conn) :
             CanClose(d) /\ RemoveFromConnectionMap(e.ident)
      <4>1. CASE End("send")
        BY <4>1, <1>1 DEF End, fdVars
      <4>2. ~ UNCHANGED fdVars
        BY <1>1 DEF fdVars
      <4>3. QED
        BY <2>5, <4>1, <4>2 DEF SendResponse
    <3>3. f = e.ident
      BY <3>1, <3>2, RemovalClosesOne
    <3>4. connection_map[f].conn \in Connections
      BY <1>f, NewConnectionType DEF IInv, TypeOK, MapTypeOK, Entries, Absent
    <3>5. QED
      BY <3>2, <3>3, <3>4, <1>f, FinalRepliesEnd DEF NoneIsDone, Reason
  <2>6. CASE HandleTimer(e)
    BY <2>6, <1>1 DEF HandleTimer, fdVars
  <2>7. QED
    BY <1>3, <2>2, <2>3, <2>4, <2>5, <2>6 DEF HandleEvent
<1>4. QED
  BY <1>1, <1>2, <1>3
     DEF Next, KernelEventLoop, CloseHangingConnections, KeepConnection,
         TimeOutConnection, SweepDone, Environment, Ended, Kevent, EventsDone,
         ClientConnects, ClientSends, ClientFinishes, ClientResets, ClientReads,
         TimeElapses, vars, fdVars

(***************************************************************************)
(* Of its own accord the server closes a connection only when its final    *)
(* reply was sent to the end, or when its client never said anything until *)
(* the timeout: not with another client's timeout, nor with another        *)
(* client's reply, however descriptors are reused.                         *)
(***************************************************************************)
THEOREM ClosingHasAReason == Spec => ClosesWithReason
<1> DEFINE Reasonable == \A f \in Closed \ EofClosed :
           \/ connection_map[f].conn.reply = "final"
           \/ f \in expired /\ connection_map[f].conn = NewConnection
<1>1. IInv /\ NoneIsDone /\ [Next]_vars => [Reasonable]_vars
  <2> SUFFICES ASSUME IInv, NoneIsDone, Next PROVE Reasonable
    OBVIOUS
  <2>1. QED
    BY NextClosesWithReason DEF Reason
<1>2. QED
  BY <1>1, Invariance, NoneIsDoneInvariance, PTL DEF Spec, ClosesWithReason
=============================================================================
