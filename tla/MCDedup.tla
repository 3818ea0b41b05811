------------------------------ MODULE MCDedup ------------------------------
(* Dedup for CoinEx with two books it does not tell apart and a quote, and *)
(* for Bybit with the same books and a message without a timestamp.        *)
EXTENDS Dedup, TLC

Message(topic, symbol, stamp) == [topic |-> topic, symbol |-> symbol, stamp |-> stamp]

Books == {Message("book", "BTC", 1), Message("book", "ETH", 1)}
FewMsgs == [coinex |-> Books \union {Message("quote", "BTC", 1)},
            bybit  |-> Books \union {Message("book", "BTC", 0)}]
Symmetry == Permutations(Channels)
=============================================================================
