---------------------------- MODULE PacketLanes ----------------------------
(***************************************************************************)
(* What the outbound side of a Router promises to the kernel: one lane per *)
(* destination.  A packet offered to a lane is dropped at once or accepted *)
(* at its tail; accepted packets leave the lane from its head, one at a    *)
(* time and in order, and only a router that stops throws the rest away.   *)
(* How many workers, queues and bytes that takes is not said.              *)
(***************************************************************************)
EXTENDS Naturals, Sequences

CONSTANTS Dests, Packets

VARIABLES lane,     \* the packets of each destination, accepted and not sent
          stopping  \* the router is being stopped

LaneInit == lane = [d \in Dests |-> <<>>] /\ stopping = FALSE

Accept(d) ==
  /\ ~stopping
  /\ \E k \in Packets : lane' = [lane EXCEPT ![d] = Append(@, k)]
  /\ UNCHANGED stopping

Depart(d) ==
  /\ lane[d] # <<>>
  /\ lane' = [lane EXCEPT ![d] = Tail(@)]
  /\ UNCHANGED stopping

Stop == ~stopping /\ stopping' = TRUE /\ UNCHANGED lane

ThrowAway(d) ==
  /\ stopping /\ lane[d] # <<>>
  /\ lane' = [lane EXCEPT ![d] = <<>>]
  /\ UNCHANGED stopping

LaneNext == Stop \/ \E d \in Dests : Accept(d) \/ Depart(d) \/ ThrowAway(d)

LaneSpec == LaneInit /\ [][LaneNext]_<<lane, stopping>>

\* The packet at the head of a lane leaves it.
Departs ==
  \A d \in Dests, k \in Packets :
    (lane[d] # <<>> /\ Head(lane[d]) = k) ~> (lane[d] = <<>> \/ Head(lane[d]) # k)

Promise == LaneSpec /\ Departs
=============================================================================
