---------------------------- MODULE MCMessageBody ----------------------------
(***************************************************************************)
(* The messages of the runs of MessageBody: zero to two chunks of one or   *)
(* two octets, a chunk whose size takes two digits and is the limit, with  *)
(* or without extensions and a trailer, and messages of every length up to *)
(* one more than the limit, with any octets in them.  The chunks with an   *)
(* octet from 0x80 on are those the parser does not take.                  *)
(***************************************************************************)
EXTENDS MessageBody

Chunks ==
    BoundedSeq({ << "x" >>, << "x", "y" >>, << "y", "x" >> }, 2)
       \cup { << << "x", "high" >> >>, << << "high" >>, << "x" >> >> }
       \cup { << [i \in 1 .. 17 |-> IF i = 9 THEN "y" ELSE "x"] >> }

Extensions == { << >>, << ";", "x" >> }
Trailers   == { << >>, << "field" >> }

MCMessages ==
    { ChunkedMessage(c, e, t, b) :
         c \in Chunks, e \in Extensions, t \in Trailers, b \in BOOLEAN }
    \cup { MessageOfLength(d, b) : d \in BoundedSeq({"x", "y", "high", "LF"}, 4), b \in BOOLEAN }
=============================================================================
