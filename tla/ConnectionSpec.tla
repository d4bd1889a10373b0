---------------------------- MODULE ConnectionSpec ----------------------------
(***************************************************************************)
(* The promise the Connection class makes to the event loop: it goes       *)
(* through its life by the calls of ConnectionLifecycle, in any order the  *)
(* loop makes them, until it can be closed.  KernelEvents relies on        *)
(* exactly these steps; the module Connection is shown to take no others.  *)
(***************************************************************************)
EXTENDS ConnectionLifecycle

VARIABLE connection

Init == connection = NewConnection

Receive == connection' \in Received(connection)

Dispatch == connection' \in Dispatched(connection)

HandleTimeout ==
    /\ ~ CloseImmediately(connection)
    /\ connection' = TimedOut(connection)

Next ==
    /\ ~ CanClose(connection)
    /\ Receive \/ Dispatch \/ HandleTimeout

Spec == Init /\ [][Next]_connection
=============================================================================
