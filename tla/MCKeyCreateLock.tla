--------------------------- MODULE MCKeyCreateLock ---------------------------
(* Bounds for model-checking KeyCreateLock.                                *)
EXTENDS KeyCreateLock
=============================================================================
