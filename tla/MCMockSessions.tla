--------------------------- MODULE MCMockSessions ---------------------------
(* MockSessions for TLC: one client logs in and sends an order, another only  *)
(* logs in.  An answer is due a tick after its request, the server sends a    *)
(* heartbeat after a tick and drops a client after two, so that all three     *)
(* meet in one step.                                                          *)
EXTENDS MockSessions

MCMaxRequests == [s \in Clients |-> IF s = 1 THEN 1 ELSE 0]
=============================================================================
