--------------------------- MODULE MCMappedBuffers ---------------------------
(* MappedBuffers for TLC, by itself: the client fills what it is offered.      *)
EXTENDS MappedBuffers
=============================================================================
