------------------------------ MODULE MCMiner -------------------------------
(* Two branches over a common block; the second overtakes the first and the   *)
(* first the second.  Transactions that depend on each other and exclude each *)
(* other, some in blocks that do not connect.                                 *)
EXTENDS Miner

g == <<0>>
a1 == <<0, 1>>   a2 == <<0, 1, 2>>   a3 == <<0, 1, 2, 3>>   a4 == <<0, 1, 2, 3, 4>>
b2 == <<0, 1, 5>>   b3 == <<0, 1, 5, 6>>

MCBlock == {g, a1, a2, a3, a4, b2, b3}
MCTrust == [b \in MCBlock |-> CASE b = b3 -> 5 [] b = a4 -> 6 [] OTHER -> Len(b)]

\* Lower case names are coinbases: e belongs to a proof-of-stake block, f claims a fee.
\* A and B spend the same output, C spends from A, E from C and D.  The others only come
\* in blocks: P and Q spend the same output, R spends from P; S is a coinstake, U is badly
\* signed, W older than what it spends, I spends the coinbase of its own block.
MCCoinBase == {"c1", "k1", "c2", "c3", "c4", "d2", "d3", "e3", "f3"}
InBlocksOnly == {"P", "Q", "R", "S", "U", "V", "W", "I"}
MCTx == MCCoinBase \cup {"A", "B", "C", "D", "E"} \cup InBlocksOnly
MCvin == [t \in MCTx |->
    CASE t \in {"A", "B"} -> <<<<"c1", 1>>>>
      [] t = "C" -> <<<<"A", 1>>>>
      [] t = "D" -> <<<<"c1", 2>>>>
      [] t = "E" -> <<<<"C", 1>>, <<"D", 1>>>>
      [] t \in {"P", "Q"} -> <<<<"k1", 1>>>>
      [] t = "R" -> <<<<"P", 1>>>>
      [] t \in {"S", "U", "V", "W"} -> <<<<"k1", 2>>>>
      [] t = "I" -> <<<<"c3", 1>>>>
      [] OTHER -> <<>>]
MCvout == [t \in MCTx |->
    CASE t \in {"c1", "k1"} -> <<5, 5>> [] t \in {"A", "B", "D", "P", "Q", "U", "V", "W"} -> <<4>>
      [] t \in {"C", "R"} -> <<3>> [] t = "S" -> <<6>> [] t = "I" -> <<1>>
      [] t = "e3" -> <<0>> [] t = "f3" -> <<11>> [] OTHER -> <<2>>]
MCTime == [t \in MCTx |-> IF t = "W" THEN 0 ELSE 1]
MCStakeSubsidy == [t \in {"S"} |-> 1]
MCSubsidy == [h \in 0..4 |-> 10]

Contents(x1, x2, x3, x4, y3) ==
    [b \in MCBlock |->
        CASE b = g  -> <<>>
          [] b = a1 -> x1
          [] b = a2 -> <<"c2">> \o x2
          [] b = a3 -> x3
          [] b = a4 -> <<"c4">> \o x4
          [] b = b2 -> <<"d2">>
          [] b = b3 -> <<"d3">> \o y3]
MCBlockContents ==
    {Contents(<<"c1">>, z[1], z[2], <<"U">>, z[3]) :
        z \in {<<<<"A">>, <<"c3", "D">>, <<"B">>>>, <<<<"B">>, <<"c3", "D">>, <<"A">>>>,
              <<<<"A">>, <<"c3", "D">>, <<>>>>, <<<<>>, <<"c3", "A", "C">>, <<"B">>>>,
              <<<<>>, <<"c3", "A", "C">>, <<>>>>}}
    \cup {Contents(<<"k1">>, z[1], x3, z[2], z[3]) :
        x3 \in {<<"c3">>, <<"c3", "P", "R">>, <<"c3", "R", "P">>, <<"c3", "P", "Q">>, <<"c3", "U">>,
                <<"c3", "W">>, <<"c3", "I">>, <<"f3">>, <<"f3", "V">>, <<"e3", "S">>, <<"e3", "S", "V">>},
        z \in {<<<<>>, <<"R">>, <<"P", "R">>>>, <<<<"P">>, <<"R">>, <<"Q">>>>, <<<<>>, <<>>, <<"R", "P">>>>}}

\* Nothing, what comes of c1, or the stake of k1 and what comes of P
MCWallets == {{}, {<<"c1", 1>>, <<"A", 1>>, <<"C", 1>>}, {<<"k1", 2>>, <<"S", 1>>, <<"P", 1>>}}

\* The wallet has something where blocks pay it, and the miner is at work elsewhere.
MCWalletContents ==
    mine # {} => \/ <<"c1", 1>> \in mine /\ vtx[a1] = <<"c1">> /\ vtx[b3] = <<"d3", "B">>
                 \/ <<"k1", 2>> \in mine /\ vtx[a3] \in {<<"c3", "P", "R">>, <<"e3", "S">>}
MCMinerIdle == mine # {} => stage' = "idle"
=============================================================================
