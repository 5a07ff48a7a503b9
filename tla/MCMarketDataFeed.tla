------------------------- MODULE MCMarketDataFeed -------------------------
(* With four slots one version can be read, one wait for its grace period,  *)
(* one be on the stack and one be filled.  Three bytes in datagrams of one   *)
(* or two give up to four versions, so that two can be superseded in one     *)
(* grace period while others have been reclaimed before.                     *)
EXTENDS MarketDataFeed

MCPayload == [m_pos : Positions, m_end : Positions]
MCBlank == [m_pos |-> 0, m_end |-> 0]
=============================================================================
