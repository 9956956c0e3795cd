-------------------------- MODULE MCOutboundQueue --------------------------
(* Instances of OutboundQueue for TLC. *)
EXTENDS OutboundQueue, TLC

\* Four packets, the second a big one: together they exceed the budget.
FourPackets == <<1, 2, 1, 1>>
=============================================================================
