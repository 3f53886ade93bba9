------------------------------ MODULE MCRendering -----------------------------
(* Bounded instance of Rendering.                                          *)
EXTENDS Rendering

Content(derived, attitude) == [derived |-> derived, attitude |-> attitude]

(* A full sample, and one that is refused alone and mended by a neighbour. *)
MCContents == {Good, Content("bad", "absent")}
===============================================================================
