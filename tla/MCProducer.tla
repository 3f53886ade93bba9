------------------------------ MODULE MCProducer ------------------------------
(***************************************************************************)
(* Bounded instance of Producer.                                           *)
(***************************************************************************)
EXTENDS Producer
===============================================================================
