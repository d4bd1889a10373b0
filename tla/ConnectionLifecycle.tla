------------------------- MODULE ConnectionLifecycle -------------------------
(***************************************************************************)
(* What the event loop sees of one client connection, the `Connection`     *)
(* class of src/src/connection: the state that decides what a timeout      *)
(* does, whether a reply is formed, and how many pieces of it were sent.   *)
(* Which request was read, and which status and body the reply carries,    *)
(* are left to the module Connection, which implements this one.           *)
(*                                                                         *)
(* The module has no variables: each operator maps a connection to the     *)
(* set of connections that one call of the class may leave behind.         *)
(***************************************************************************)
EXTENDS Naturals

CONSTANT
    MaxSends    \* the most pieces of BUFFER_SIZE bytes one reply is sent in

ASSUME MaxSendsAssumption == MaxSends \in Nat \ {0}

States  == {"Start", "Request", "Response", "CGI", "Done"}

(***************************************************************************)
(* The reply of the connection's Response object: not formed, an interim   *)
(* 100 (Continue), or a final one.                                         *)
(***************************************************************************)
Replies == {"none", "continue", "final"}

Connections == [state : States, reply : Replies, sends : 0 .. MaxSends - 1]

NewConnection == [state |-> "Start", reply |-> "none", sends |-> 0]

-----------------------------------------------------------------------------

(***************************************************************************)
(* ResponseGenerator::SetStatusLine takes the request's status only while  *)
(* the response has none, so a reply that is formed a second time keeps    *)
(* its kind; only a request that was carried out overwrites the status     *)
(* (with 200, 201 or a redirection code).                                  *)
(***************************************************************************)
KeepKind(reply, kind) == IF reply = "none" THEN kind ELSE reply

(* Mutant: every reply that is formed brings its own status. *)
FormedRepliesOverwrite(reply) == { "final", "continue" }

FormedReplies(reply) ==
    { "final", KeepKind(reply, "continue"), KeepKind(reply, "final") }

(***************************************************************************)
(* Connection::Receive.  The input leaves the request incomplete, or ends  *)
(* it and a reply is formed: for an error, for an Expect header, or for    *)
(* the request itself.                                                     *)
(***************************************************************************)
Received(c) ==
    { d \in Connections :
         /\ d.sends = c.sends
         /\ \/ d.state = "Request" /\ d.reply = c.reply
            \/ d.state \in {"Response", "CGI"} /\ d.reply \in FormedReplies(c.reply) }

(* Mutant: the end of the reply is not noticed. *)
DispatchedPastEnd(c) ==
    IF c.reply = "final" THEN { [c EXCEPT !.sends = @ + 1] } ELSE { c }

(***************************************************************************)
(* Connection::Dispatch, when the send succeeds.  An interim reply is      *)
(* replaced by an empty one, a full piece of a final reply leaves the rest *)
(* to be sent, and the last piece ends the connection.                     *)
(***************************************************************************)
Dispatched(c) ==
    CASE c.reply = "none"     -> { c }
      [] c.reply = "continue" -> { [c EXCEPT !.reply = "none"] }
      [] c.reply = "final"    ->
            { [c EXCEPT !.state = "Done"] }
            \cup { d \in { [c EXCEPT !.sends = @ + 1] } : d.sends < MaxSends }

(* Mutant: the connection is closed as soon as its reply is formed. *)
CanCloseEarly(c) == c.state \in {"Response", "Done"}

(* Connection::CanClose *)
CanClose(c) == c.state = "Done"

(***************************************************************************)
(* Connection::HandleTimeout: a connection that never received anything is *)
(* to be closed at once, any other one gets an error reply.                *)
(***************************************************************************)
CloseImmediately(c) == c.state = "Start"

(* Mutant: a timeout only closes silent connections. *)
TimedOutNoReply(c) == c

TimedOut(c) == [c EXCEPT !.reply = KeepKind(@, "final")]

=============================================================================
