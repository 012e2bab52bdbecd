--------------------------- MODULE MCMessageBridge ---------------------------
(* Instances of MessageBridge for TLC.  Texts are interchangeable; the runs   *)
(* that check safety properties only use that.                                *)
EXTENDS MessageBridge, TLC

TextSymmetry == Permutations(Texts)
=============================================================================
