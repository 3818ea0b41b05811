----------------------------- MODULE MCStartup ------------------------------
(* Model values for Startup. *)
EXTENDS Startup

CoinEx(k, s) == [ex |-> "coinex", kind |-> k, symbol |-> s, depth |-> 50]
Bybit(k, d) == [ex |-> "bybit", kind |-> k, symbol |-> "a", depth |-> d]

BothExchanges == {CoinEx("trade", "a"), CoinEx("book", "b"), Bybit("trade", 1), Bybit("quote", 1)}
=============================================================================
