---------------------------- MODULE MCKernelEvents ----------------------------
(***************************************************************************)
(* Instances of KernelEvents for TLC: clients are model values, and the    *)
(* descriptors small numbers, as in a process whose listening socket is 4. *)
(***************************************************************************)
EXTENDS KernelEvents, TLC

CONSTANTS c1, c2

MCClients == {c1, c2}
TwoFds    == {5, 6}
MCListeners == {4}

NoFaults   == {}
AllFaults  == {"reset", "idle", "throw", "dangling"}
Idle       == {"idle"}

(* Clients are interchangeable in the safety runs. *)
ClientSymmetry == Permutations(MCClients)
=============================================================================
