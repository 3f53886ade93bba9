----------------------------- MODULE MCPlayback -------------------------------
(* Constants of the run on module Playback.                                *)
EXTENDS Playback

MCSample == {<<1, 1>>, <<1, 3>>}
MCEvent == {[ts |-> 2, aircraft |-> 1, id |-> 1, kind |-> "custom"]}
MCRecordings == {[states |-> {<<1, 1>>, <<1, 3>>}, events |-> {}]}
===============================================================================
