---------------------------- MODULE MCObjectStore ----------------------------
(* ObjectStore for TLC, with callers that use no guard.                       *)
EXTENDS ObjectStore
=============================================================================
