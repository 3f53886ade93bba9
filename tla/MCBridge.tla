------------------------------- MODULE MCBridge -------------------------------
(* Two aircraft, of which one is flown as the user's when it is selected.  *)
EXTENDS Bridge

MCAircraft == {1, 2}

(* The pilot had frozen one axis.                                          *)
MCHome == {1}
===============================================================================
