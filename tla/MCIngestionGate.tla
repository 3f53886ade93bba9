---------------------------- MODULE MCIngestionGate ----------------------------
(***************************************************************************)
(* Instances of IngestionGate for TLC.                                     *)
(***************************************************************************)
EXTENDS IngestionGate

CONSTANTS i1, i2, m1, m2, a1, a2

MCIngesters == {i1, i2}
MCMaintainers == {m1, m2}
MCAircraft == {a1, a2}

(* A session with one aircraft in it.                                      *)
MCRecordings == {[a \in MCAircraft |-> [state |-> a = a1, spawned |-> a = a1]]}
===============================================================================
