------------------------ MODULE MCPersistentExecutor ------------------------
(* Instances of PersistentExecutor for TLC; each cfg says which question it *)
(* asks.                                                                    *)
EXTENDS PersistentExecutor
=============================================================================
