-------------------------- MODULE MCMarketDataBook --------------------------
(* MarketDataBook for TLC, with replacements that change the price.           *)
EXTENDS MarketDataBook
=============================================================================
