---------------------------- MODULE MCCursorStream ----------------------------
(***************************************************************************)
(* Instances of CursorStream for TLC.  One aircraft that spawns at 1, has  *)
(* an event at 2 and samples at 1 and 3.                                   *)
(***************************************************************************)
EXTENDS CursorStream

Ev(t, n, k) == [ts |-> t, aircraft |-> 1, id |-> n, kind |-> k]

MCSample == {<<1, 1>>, <<1, 3>>}
MCEvent == {Ev(1, 1, "spawn"), Ev(2, 2, "custom")}

Short == [states |-> MCSample, events |-> {Ev(1, 1, "spawn"), Ev(2, 2, "custom")}]

(* The first instant of it only: one page per baseline.                    *)
Single == [states |-> {<<1, 1>>}, events |-> {Ev(1, 1, "spawn")}]

MCShort == {Short}
MCSingle == {Single}
MCEmpty == {EmptyStore}
MCNothing == {}

(* A producer's spawn with an initial state, and one event after it.       *)
MCFeedSamples == {<<1, 1>>}
MCFeedEvents == {Ev(1, 1, "spawn"), Ev(2, 2, "custom")}
MCFeedSpawn == {Ev(1, 1, "spawn")}
===============================================================================
