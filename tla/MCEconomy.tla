----------------------------- MODULE MCEconomy ------------------------------
(* Three users; the pool of USDT as made at genesis, that of ETH likewise, and one that a
   user makes. *)
EXTENDS Economy
CONSTANTS ann, bob, cat, chainlink, pyth, binance, tune, e1, e2, n1, n2, email, k1, k2
MCWealth == [u \in Users |-> IF u = cat THEN 4500 ELSE 2500]
MCGenesis == [a \in Pools |-> CASE a = Eco -> 400 [] a = Reserve -> 5000 [] a = ValPool -> 500
                                [] a = AiFund -> 40 [] OTHER -> 0]
MCParts == {"dex", "price", "answer", "reserve", "ai", "fund", "sub", "market", "evm", "early", "did", "call", "fomo"}
MCMaxOps == [p \in MCParts |-> CASE p = "dex" -> 3 [] p = "price" -> 4 [] p = "answer" -> 4
                                 [] p = "reserve" -> 2 [] p = "ai" -> 4 [] p = "fund" -> 5 [] p = "sub" -> 4
                                 [] p = "market" -> 8 [] p = "evm" -> 5 [] p = "early" -> 2 [] p = "did" -> 4 [] p = "call" -> 1 [] p = "fomo" -> 0]
MCMaxDay == [p \in MCParts |-> CASE p = "reserve" -> 4 [] p \in {"early", "sub"} -> 3 [] p \in {"price", "ai"} -> 1 [] p \in {"evm", "call", "fomo"} -> 0 [] OTHER -> 2]
MCUnit == [p \in {"USDT", "nETH", "ETH"} |-> CASE p = "USDT" -> 1 [] p = "nETH" -> 100 [] p = "ETH" -> 10]
MCFirst == [p \in {"USDT", "nETH", "ETH"} |-> CASE p = "USDT" -> <<10000, 20000>>
              [] p = "nETH" -> <<5000, 200>> [] p = "ETH" -> <<0, 0>>]
MCTokens == [p \in {"USDT", "nETH", "ETH"} |-> CASE p = "USDT" -> 4000 [] p = "nETH" -> 200
               [] p = "ETH" -> 20000]
MCAmounts0 == [p \in {"USDT", "nETH", "ETH"} |-> IF p = "USDT" THEN {1000} ELSE {2500}]
MCAmounts1 == [p \in {"USDT", "nETH", "ETH"} |-> CASE p = "USDT" -> {2000} [] p = "nETH" -> {100}
                 [] p = "ETH" -> {16000, 4000}]
MCWeight == [u \in {bob, cat} |-> IF u = bob THEN 110 ELSE 100]
MCValidators == <<ann, bob>>
MCBuys == {[who |-> ann, ts |-> 1, amount |-> 6], [who |-> ann, ts |-> 2, amount |-> 5],
             [who |-> ann, ts |-> 3, amount |-> 4], [who |-> ann, ts |-> 6, amount |-> 7],
             [who |-> ann, ts |-> 12, amount |-> 6]}
MCKind == [a \in {"fan", "frac"} |-> IF a = "fan" THEN "ft" ELSE "nft"]
MCHoldings == [a \in {"fan", "frac"} |-> [u \in Users |-> IF u = cat THEN 0 ELSE 2]]
MCSymmetry == Permutations(Sources)
MCStaked == [u \in Users |-> IF u = cat THEN 1000 ELSE 0]
MCTiers == {[price |-> 1300, period |-> "monthly"], [price |-> 90, period |-> "lifetime"]}
=============================================================================
