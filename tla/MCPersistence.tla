---------------------------- MODULE MCPersistence -----------------------------
(* The runs on module Persistence give its constants in their cfg.         *)
EXTENDS Persistence
===============================================================================
