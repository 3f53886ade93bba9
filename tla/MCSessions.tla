------------------------------ MODULE MCSessions ------------------------------
(***************************************************************************)
(* An instance of Sessions for TLC: a cursor subscriber and a producer     *)
(* that share two addresses.                                               *)
(***************************************************************************)
EXTENDS Sessions

CONSTANTS s1, p1, a1, a2

MCClients == {s1, p1}
MCSubscribers == {s1}
MCAddrs == {a1, a2}
===============================================================================
