----------------------------- MODULE KernelEvents -----------------------------
(***************************************************************************)
(* The event loop of the server: class KernelEvents of src/src/server, the *)
(* descriptors, kqueue knotes and sockets it works on, and the clients at  *)
(* the other end.                                                          *)
(*                                                                         *)
(* The server is one thread.  Each turn of KernelEventLoop takes a batch   *)
(* of events from kevent(), visits every connection to see whether it has  *)
(* timed out, and then handles the events of the batch one after another.  *)
(* Clients and the clock act between any two of these steps, so an event   *)
(* may describe a state of affairs that has passed when it is handled, and *)
(* a descriptor may have been closed, or given to another client.          *)
(***************************************************************************)
EXTENDS ConnectionLifecycle, FiniteSets

CONSTANTS
    Clients,    \* the clients, each with at most one connection at a time
    NoClient,   \* what a free descriptor is connected to
    Fds,        \* the descriptor numbers the process has for its clients
    Listeners,  \* the descriptors of the listening sockets
    MaxEvents,  \* the length of the event list given to kevent() (100)
    MaxPieces,  \* the most pieces of input a client sends on one connection
    Faults      \* what may go wrong in a run, see below

TimerIdent == 1234

ASSUME ClientsAssumption   == NoClient \notin Clients
ASSUME FdsAssumption       == Fds \subseteq Nat /\ Listeners \subseteq Nat
ASSUME ListenersAssumption ==
    Fds \cap Listeners = {} /\ TimerIdent \notin Fds \cup Listeners
ASSUME BoundsAssumption    == MaxEvents \in Nat \ {0} /\ MaxPieces \in Nat

(***************************************************************************)
(* "reset": clients may reset their connection; "idle": the 60 seconds     *)
(* after which a connection has timed out may pass; "throw": input may     *)
(* raise an exception no handler catches (std::stoull on a Content-Length  *)
(* beyond 64 bits), or follow input that was invalid, which is undefined   *)
(* (see MessageBody); "dangling": the iterator of CloseHangingConnections, *)
(* incremented after its element was erased, may lead anywhere.            *)
(***************************************************************************)
ASSUME FaultsAssumption == Faults \subseteq {"reset", "idle", "throw", "dangling"}

VARIABLES
    \* the clients and what the kernel holds for them
    peer,           \* what the client did with its connection
    sent,           \* how many pieces of input it has sent
    inbox,          \* how many of them the server has not read
    blocked,        \* the clients whose connection takes no more output
    queue,          \* for each listener, the clients that wait for accept()
    \* descriptors and knotes
    open,           \* the client each descriptor is connected to
    read_on,        \* the descriptors with a read knote in the kqueue
    write_on,       \* the descriptors with a write knote in the kqueue
    \* the state of KernelEvents
    connection_map, \* for each descriptor, its Connection if it has one
    expired,        \* the descriptors whose Connection was idle for too long
    \* the event loop
    pc,             \* where the loop is: kevent(), the sweep, the events
    sweep,          \* the descriptors CloseHangingConnections has yet to visit
    batch,          \* the events of the batch that are not handled yet
    cause           \* why the server ended, if it has

clientVars == << peer, sent, inbox, blocked, queue >>
fdVars     == << open, read_on, write_on >>
connVars   == << connection_map, expired >>
loopVars   == << pc, sweep, batch, cause >>
vars       == << clientVars, fdVars, connVars, loopVars >>

Entries == [owner : Clients, conn : Connections]

(* No Connection in connection_map for this descriptor. *)
Absent == [owner |-> NoClient, conn |-> NewConnection]

InMap(f) == connection_map[f].owner # NoClient

Free == { f \in Fds : open[f] = NoClient }

Queued(c) == \E l \in Listeners : c \in queue[l]

TimerEvent == [ident |-> TimerIdent, filter |-> "TIMER", eof |-> FALSE]

Events ==
    [ident : Fds, filter : {"READ", "WRITE"}, eof : BOOLEAN]
       \cup [ident : Listeners, filter : {"READ"}, eof : {FALSE}]
       \cup {TimerEvent}

Init ==
    /\ peer     = [c \in Clients |-> "away"]
    /\ sent     = [c \in Clients |-> 0]
    /\ inbox    = [c \in Clients |-> 0]
    /\ blocked  = {}
    /\ queue    = [l \in Listeners |-> {}]
    /\ open     = [f \in Fds |-> NoClient]
    /\ read_on  = {}
    /\ write_on = {}
    /\ connection_map = [f \in Fds |-> Absent]
    /\ expired  = {}
    /\ pc       = "kevent"
    /\ sweep    = {}
    /\ batch    = {}
    /\ cause    = "none"

-----------------------------------------------------------------------------
(* The clients and the clock. *)

Running == pc # "ended"

ClientConnects(c) ==
    /\ Running
    /\ peer[c] = "away"
    /\ peer' = [peer EXCEPT ![c] = "up"]
    /\ \E l \in Listeners : queue' = [queue EXCEPT ![l] = @ \cup {c}]
    /\ UNCHANGED << sent, inbox, blocked, fdVars, connVars, loopVars >>

(* Some bytes of a request, also before the connection is accepted. *)
ClientSends(c) ==
    /\ Running
    /\ peer[c] = "up"
    /\ sent[c] < MaxPieces
    /\ sent'  = [sent EXCEPT ![c] = @ + 1]
    /\ inbox' = [inbox EXCEPT ![c] = @ + 1]
    /\ UNCHANGED << peer, blocked, queue, fdVars, connVars, loopVars >>

(* The client closes its connection, or shuts down its sending side. *)
ClientFinishes(c) ==
    /\ Running
    /\ peer[c] = "up"
    /\ peer' = [peer EXCEPT ![c] = "fin"]
    /\ UNCHANGED << sent, inbox, blocked, queue, fdVars, connVars, loopVars >>

(***************************************************************************)
(* The client resets its connection: unread input is discarded, and a      *)
(* connection that was not yet accepted leaves the listener's queue.       *)
(***************************************************************************)
ClientResets(c) ==
    /\ Running
    /\ "reset" \in Faults
    /\ peer[c] \in {"up", "fin"}
    /\ peer'    = [peer EXCEPT ![c] = IF Queued(c) THEN "away" ELSE "rst"]
    /\ sent'    = [sent EXCEPT ![c] = IF Queued(c) THEN 0 ELSE @]
    /\ inbox'   = [inbox EXCEPT ![c] = 0]
    /\ blocked' = blocked \ {c}
    /\ queue'   = [l \in Listeners |-> queue[l] \ {c}]
    /\ UNCHANGED << fdVars, connVars, loopVars >>

(* The client reads, and its connection takes output again. *)
ClientReads(c) ==
    /\ Running
    /\ c \in blocked
    /\ blocked' = blocked \ {c}
    /\ UNCHANGED << peer, sent, inbox, queue, fdVars, connVars, loopVars >>

(* TIMEOUT_SEC seconds have passed since the Connection's timer was reset. *)
TimeElapses(f) ==
    /\ Running
    /\ "idle" \in Faults
    /\ InMap(f)
    /\ f \notin expired
    /\ expired' = expired \cup {f}
    /\ UNCHANGED << clientVars, fdVars, connection_map, loopVars >>

-----------------------------------------------------------------------------
(* close(), and the removal of a connection. *)

(***************************************************************************)
(* close() removes the knotes of the descriptor.  On a descriptor that is  *)
(* not open it fails, which the code does not look at.                     *)
(***************************************************************************)
Close(f) ==
    /\ open'     = [open EXCEPT ![f] = NoClient]
    /\ read_on'  = read_on \ {f}
    /\ write_on' = write_on \ {f}
    /\ peer'     = [c \in Clients |-> IF c = open[f] THEN "away" ELSE peer[c]]
    /\ sent'     = [c \in Clients |-> IF c = open[f] THEN 0 ELSE sent[c]]
    /\ inbox'    = [c \in Clients |-> IF c = open[f] THEN 0 ELSE inbox[c]]
    /\ blocked'  = blocked \ {open[f]}
    /\ UNCHANGED queue

(* Mutant: the entry of the map is left in place. *)
RemoveKeepingEntry(f) == UNCHANGED connVars /\ Close(f)

(* Mutant: the connection is shut down, its descriptor is not closed. *)
RemoveByShutdown(f) ==
    /\ connection_map' = [connection_map EXCEPT ![f] = Absent]
    /\ expired' = expired \ {f}
    /\ peer'  = [c \in Clients |-> IF c = open[f] THEN "away" ELSE peer[c]]
    /\ sent'  = [c \in Clients |-> IF c = open[f] THEN 0 ELSE sent[c]]
    /\ inbox' = [c \in Clients |-> IF c = open[f] THEN 0 ELSE inbox[c]]
    /\ UNCHANGED << blocked, queue, fdVars >>

RemoveFromConnectionMap(f) ==
    /\ connection_map' = [connection_map EXCEPT ![f] = Absent]
    /\ expired' = expired \ {f}
    /\ Close(f)

(* An exception leaves KernelEventLoop; main() reports it and exits. *)
End(why) ==
    /\ pc'    = "ended"
    /\ cause' = why
    /\ UNCHANGED << sweep, batch, clientVars, fdVars, connVars >>

-----------------------------------------------------------------------------
(* kevent() *)

ReadReady ==
    { [ident |-> f, filter |-> "READ", eof |-> peer[open[f]] \in {"fin", "rst"}] :
         f \in { g \in read_on :
                    inbox[open[g]] > 0 \/ peer[open[g]] \in {"fin", "rst"} } }

WriteReady ==
    { [ident |-> f, filter |-> "WRITE", eof |-> peer[open[f]] = "rst"] :
         f \in { g \in write_on : open[g] \notin blocked } }

AcceptReady ==
    { [ident |-> l, filter |-> "READ", eof |-> FALSE] :
         l \in { k \in Listeners : queue[k] # {} } }

(***************************************************************************)
(* kevent() blocks until something is ready or the timer of 5 seconds has  *)
(* fired, and returns every ready event, or as many as the list can hold.  *)
(* The order of the events in the list is the kernel's: the loop may meet  *)
(* them in any.  With no changes to make and a valid kqueue the call does  *)
(* not fail, and reports no event with EV_ERROR.                           *)
(***************************************************************************)
Kevent ==
    /\ pc = "kevent"
    /\ \E fired \in SUBSET {TimerEvent} :
          LET ready == ReadReady \cup WriteReady \cup AcceptReady \cup fired
          IN  /\ ready # {}
              /\ batch' \in { b \in SUBSET ready :
                                 \/ b = ready
                                 \/ Cardinality(b) = MaxEvents }
              /\ Cardinality(batch') <= MaxEvents
    /\ sweep' = { f \in Fds : InMap(f) }
    /\ pc'    = "sweep"
    /\ UNCHANGED << cause, clientVars, fdVars, connVars >>

-----------------------------------------------------------------------------
(***************************************************************************)
(* CloseHangingConnections visits the map in the order of the descriptors. *)
(* RemoveFromConnectionMap erases the element the loop's iterator is at,   *)
(* and the loop then increments that iterator: undefined behaviour, after  *)
(* which the loop visits some of the remaining connections, or crashes.    *)
(***************************************************************************)
Visits(f) ==
    /\ pc = "sweep"
    /\ f \in sweep
    /\ \A g \in sweep : f <= g

KeepConnection(f) ==
    /\ Visits(f)
    /\ f \notin expired
    /\ sweep' = sweep \ {f}
    /\ UNCHANGED << pc, batch, cause, clientVars, fdVars, connVars >>

TimeOutConnection(f) ==
    /\ Visits(f)
    /\ f \in expired
    /\ ~ CloseImmediately(connection_map[f].conn)
    /\ connection_map' = [connection_map EXCEPT ![f].conn = TimedOut(@)]
    /\ sweep' = sweep \ {f}
    /\ UNCHANGED << expired, pc, batch, cause, clientVars, fdVars >>

CloseHanging(f) ==
    /\ Visits(f)
    /\ f \in expired
    /\ CloseImmediately(connection_map[f].conn)
    /\ \/ /\ RemoveFromConnectionMap(f)
          /\ \/ sweep' = sweep \ {f}
             \/ "dangling" \in Faults /\ sweep' \in SUBSET (sweep \ {f})
          /\ UNCHANGED << pc, batch, cause >>
       \/ /\ "dangling" \in Faults
          /\ End("dangling")

SweepDone ==
    /\ pc = "sweep"
    /\ sweep = {}
    /\ pc' = "events"
    /\ UNCHANGED << sweep, batch, cause, clientVars, fdVars, connVars >>

-----------------------------------------------------------------------------
(* The events of the batch. *)

Handles(e) == pc = "events" /\ e \in batch

Handled(e) == batch' = batch \ {e} /\ UNCHANGED << pc, sweep, cause >>

(* EV_EOF, on either filter: the connection is removed, read or not. *)
HandleEof(e) ==
    /\ Handles(e)
    /\ e.eof
    /\ RemoveFromConnectionMap(e.ident)
    /\ Handled(e)

(* The lowest free descriptor number, the one accept() returns. *)
LowestFree(f) == f \in Free /\ \A g \in Free : f <= g

AddToConnectionMap(f, c) ==
    /\ connection_map' =
          [connection_map EXCEPT ![f] = [owner |-> c, conn |-> NewConnection]]
    /\ expired' = expired \ {f}
    /\ read_on' = read_on \cup {f}
    /\ UNCHANGED write_on

AcceptNewConnection(e) ==
    /\ Handles(e)
    /\ ~ e.eof
    /\ e.ident \in Listeners
    /\ \/ \E c \in queue[e.ident], f \in Free :
             /\ LowestFree(f)
             /\ open'  = [open EXCEPT ![f] = c]
             /\ queue' = [queue EXCEPT ![e.ident] = @ \ {c}]
             /\ AddToConnectionMap(f, c)
             /\ Handled(e)
             /\ UNCHANGED << peer, sent, inbox, blocked >>
       \/ /\ queue[e.ident] = {} \/ Free = {}
          /\ End("accept")

(***************************************************************************)
(* What Connection::Receive may make of the input: input that is empty, on *)
(* a connection that had none before, leaves the request incomplete.       *)
(***************************************************************************)
ReceivedBy(f) ==
    LET c      == connection_map[f].conn
        quiet  == c.state = "Start" /\ inbox[open[f]] = 0
    IN  { d \in Received(c) : quiet => d.state = "Request" }

(* Mutant: recv() is called once, which may leave some of the input unread. *)
LeftUnreadByOneRecv(f) == 0 .. inbox[open[f]]

(* recv() is called until it has nothing to return. *)
LeftUnread(f) == {0}

(* Mutant: the write event is only registered once a reply is formed. *)
WriteRegisteredWhenFormed(f) ==
    IF connection_map'[f].conn.reply = "none" THEN write_on ELSE write_on \cup {f}

WriteRegistered(f) == write_on \cup {f}

(***************************************************************************)
(* ReceiveRequest.  On a descriptor that was closed since the batch was    *)
(* taken, recv() returns nothing, there is no connection to give it to,    *)
(* and the registration of the write event fails.                          *)
(***************************************************************************)
ReceiveRequest(e) ==
    /\ Handles(e)
    /\ ~ e.eof
    /\ e.ident \notin Listeners
    /\ e.filter = "READ"
    /\ \/ /\ open[e.ident] # NoClient
          /\ \E d \in ReceivedBy(e.ident) :
                connection_map' = [connection_map EXCEPT ![e.ident].conn = d]
          /\ \E n \in LeftUnread(e.ident) :
                inbox' = [inbox EXCEPT ![open[e.ident]] = n]
          /\ expired'  = expired \ {e.ident}
          /\ write_on' = WriteRegistered(e.ident)
          /\ Handled(e)
          /\ UNCHANGED << peer, sent, blocked, queue, open, read_on >>
       \/ /\ open[e.ident] # NoClient
          /\ inbox[open[e.ident]] > 0
          /\ "throw" \in Faults
          /\ End("throw")
       \/ /\ open[e.ident] = NoClient
          /\ End("kevent")

(***************************************************************************)
(* SendResponse.  A reply that is not formed yet is not sent.  send()      *)
(* fails on a connection that was reset, or that takes no more output.     *)
(***************************************************************************)
SendResponse(e) ==
    /\ Handles(e)
    /\ ~ e.eof
    /\ e.filter = "WRITE"
    /\ LET s     == e.ident
           c     == connection_map[s].conn
           ready == c.reply # "none"
           fails == peer[open[s]] = "rst" \/ open[s] \in blocked
       IN  \/ /\ ~ InMap(s) \/ ~ ready
              /\ Handled(e)
              /\ UNCHANGED << clientVars, fdVars, connVars >>
           \/ /\ InMap(s) /\ ready /\ fails
              /\ End("send")
           \/ /\ InMap(s) /\ ready /\ ~ fails
              /\ \E d \in Dispatched(c) :
                    \/ /\ CanClose(d)
                       /\ RemoveFromConnectionMap(s)
                    \/ /\ ~ CanClose(d)
                       /\ connection_map' = [connection_map EXCEPT ![s].conn = d]
                       /\ expired' = expired \ {s}
                       /\ blocked' \in { blocked, blocked \cup {open[s]} }
                       /\ UNCHANGED << peer, sent, inbox, queue, fdVars >>
              /\ Handled(e)

(* The event of the timer only serves to let kevent() return. *)
HandleTimer(e) ==
    /\ Handles(e)
    /\ ~ e.eof
    /\ e.filter = "TIMER"
    /\ Handled(e)
    /\ UNCHANGED << clientVars, fdVars, connVars >>

EventsDone ==
    /\ pc = "events"
    /\ batch = {}
    /\ pc' = "kevent"
    /\ UNCHANGED << sweep, batch, cause, clientVars, fdVars, connVars >>

-----------------------------------------------------------------------------

HandleEvent(e) ==
    \/ HandleEof(e)
    \/ AcceptNewConnection(e)
    \/ ReceiveRequest(e)
    \/ SendResponse(e)
    \/ HandleTimer(e)

CloseHangingConnections ==
    \/ \E f \in Fds : KeepConnection(f) \/ TimeOutConnection(f) \/ CloseHanging(f)
    \/ SweepDone

KernelEventLoop ==
    \/ Kevent
    \/ CloseHangingConnections
    \/ \E e \in batch : HandleEvent(e)
    \/ EventsDone

Environment ==
    \/ \E c \in Clients :
          \/ ClientConnects(c)
          \/ ClientSends(c)
          \/ ClientFinishes(c)
          \/ ClientResets(c)
          \/ ClientReads(c)
    \/ \E f \in Fds : TimeElapses(f)

(* The process is gone: nothing more is modelled. *)
Ended == pc = "ended" /\ UNCHANGED vars

Next == KernelEventLoop \/ Environment \/ Ended

Spec == Init /\ [][Next]_vars

(***************************************************************************)
(* The server's only thread runs, the clock goes on, and a client whose    *)
(* connection is full reads at last; nothing makes a client send or leave. *)
(***************************************************************************)
Fairness ==
    /\ WF_vars(KernelEventLoop)
    /\ \A f \in Fds : WF_vars(TimeElapses(f))
    /\ \A c \in Clients : WF_vars(ClientReads(c))

FairSpec == Spec /\ Fairness

-----------------------------------------------------------------------------
(* What the state is made of. *)

SocketTypeOK ==
    /\ peer    \in [Clients -> {"away", "up", "fin", "rst"}]
    /\ sent    \in [Clients -> 0 .. MaxPieces]
    /\ inbox   \in [Clients -> 0 .. MaxPieces]
    /\ blocked \subseteq Clients
    /\ queue   \in [Listeners -> SUBSET Clients]
    /\ open    \in [Fds -> Clients \cup {NoClient}]
    /\ read_on  \subseteq Fds
    /\ write_on \subseteq Fds

MapTypeOK ==
    /\ connection_map \in [Fds -> Entries \cup {Absent}]
    /\ expired \subseteq Fds

(* The sweep is over when the events are handled. *)
LoopTypeOK ==
    /\ pc \in {"kevent", "sweep", "events", "ended"}
    /\ sweep \subseteq Fds
    /\ pc = "events" => sweep = {}
    /\ batch \subseteq Events
    /\ cause \in {"none", "kevent", "accept", "send", "throw", "dangling"}

(* Every variable has its type. *)
TypeOK == SocketTypeOK /\ MapTypeOK /\ LoopTypeOK

-----------------------------------------------------------------------------
(* Safety. *)

(***************************************************************************)
(* connection_map holds a Connection for exactly the descriptors that are  *)
(* connected to a client, and it is the one that was made for that client: *)
(* whatever the order of closing, accepting and reusing a descriptor, no   *)
(* client is served from the Request and Response of another.              *)
(***************************************************************************)
MapMatchesDescriptors ==
    \A f \in Fds : connection_map[f].owner = open[f]

(* A client is never on two descriptors, or on one and in a queue as well. *)
OneDescriptorPerClient ==
    /\ \A f, g \in Fds : open[f] = open[g] /\ open[f] # NoClient => f = g
    /\ \A f \in Fds, l \in Listeners : open[f] \notin queue[l]
    /\ \A k, l \in Listeners : queue[k] \cap queue[l] # {} => k = l

(***************************************************************************)
(* The kqueue reports input of every open connection, and reports that     *)
(* output is possible exactly for those that received something.  So a     *)
(* reply, the one of a timeout included, is never formed on a connection   *)
(* SendResponse would not hear of, and a silent one is never written to.   *)
(***************************************************************************)
KnotesFollowConnections ==
    /\ read_on = { f \in Fds : open[f] # NoClient }
    /\ write_on = { f \in read_on : connection_map[f].conn.state # "Start" }
    /\ \A f \in Fds :
          connection_map[f].conn.state = "Start" =>
             connection_map[f].conn = NewConnection

(***************************************************************************)
(* A connection ends where its client is: a client is connected (it may    *)
(* have finished or reset) exactly as long as a queue or a descriptor      *)
(* holds it, and no resource is kept for a client that is away.            *)
(***************************************************************************)
NothingIsKeptForTheAbsent ==
    /\ \A c \in Clients :
          peer[c] # "away" <=> (Queued(c) \/ \E f \in Fds : open[f] = c)
    /\ \A c \in Clients : inbox[c] <= sent[c]
    /\ \A c \in Clients : peer[c] = "away" => sent[c] = 0 /\ c \notin blocked
    /\ \A f \in expired \cup sweep : InMap(f)

(***************************************************************************)
(* A connection that left state Start did so because its client sent       *)
(* something.                                                              *)
(***************************************************************************)
HeardClientsSpoke ==
    \A f \in Fds :
       InMap(f) /\ connection_map[f].conn.state # "Start" => sent[open[f]] > 0

(* The server never leaves its loop. *)
ServerStaysUp == cause = "none"

-----------------------------------------------------------------------------
(* What a step may not do. *)

(* The descriptors closed by this step, and those EV_EOF closed. *)
Closed    == { f \in Fds : open[f] # NoClient /\ open'[f] = NoClient }
EofClosed == { f \in Closed : \E e \in batch \ batch' : e.eof /\ e.ident = f }

(***************************************************************************)
(* A final reply stands until its connection is closed: a timeout, more    *)
(* input or an Expect header after it neither withdraw it nor turn it into *)
(* an interim one, and the count of its pieces sent never falls.           *)
(***************************************************************************)
FinalReplyStands ==
    [][ \A f \in Fds :
           LET c == connection_map[f].conn
               d == connection_map'[f].conn
           IN  InMap(f) /\ c.reply = "final" /\ f \notin Closed
                  => d.reply = "final" /\ c.sends <= d.sends ]_vars

(***************************************************************************)
(* Of its own accord, which is not by an end-of-file event, the server     *)
(* closes a connection only because its reply was sent to the end, or      *)
(* because the client was silent until the timeout.                        *)
(***************************************************************************)
ClosesWithReason ==
    [][ \A f \in Closed \ EofClosed :
           \/ connection_map[f].conn.reply = "final"
           \/ f \in expired /\ connection_map[f].conn = NewConnection ]_vars

-----------------------------------------------------------------------------
(* Liveness. *)

(***************************************************************************)
(* Every accepted connection is released at last, whether the client       *)
(* speaks, waits, finishes or disappears, or else the server has ended.    *)
(***************************************************************************)
EveryConnectionIsReleased ==
    \A c \in Clients :
       (\E f \in Fds : open[f] = c) ~>
          ((\A f \in Fds : open[f] # c) \/ pc = "ended")
=============================================================================
