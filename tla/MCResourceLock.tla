--------------------------- MODULE MCResourceLock ---------------------------
(* A small instance of ResourceLock.                                         *)
EXTENDS ResourceLock
=============================================================================
