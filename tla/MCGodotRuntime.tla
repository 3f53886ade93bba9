---------------------------- MODULE MCGodotRuntime ----------------------------
(* An instance of GodotRuntime for TLC; its constants are numbers.         *)
EXTENDS GodotRuntime
===============================================================================
