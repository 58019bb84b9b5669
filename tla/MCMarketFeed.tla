---------------------------- MODULE MCMarketFeed ----------------------------
(* Small instances of MarketFeed.                                          *)
EXTENDS MarketFeed

CONSTANTS s1, s2

=============================================================================
