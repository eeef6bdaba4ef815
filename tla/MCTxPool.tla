------------------------------ MODULE MCTxPool ------------------------------
EXTENDS TxPool

CONSTANTS ta, tb, tc, td, tu, tv, coin, sender

\* tb double spends ta, and spends a second coin that td spends; tc spends the output
\* of ta; td and tc are the first two contract transactions of sender; tu and tv spend
\* what td spends
MCTxSeq == <<ta, tb, td, tc, tu, tv>>
MCVin == [t \in {ta, tb, tc, td, tu, tv} |->
  CASE t = ta -> {<<coin, 0>>}
    [] t = tb -> {<<coin, 0>>, <<coin, 1>>}
    [] t = tc -> {<<ta, 0>>}
    [] OTHER -> {<<coin, 1>>}]
MCVout == [t \in {ta, tb, tc, td, tu, tv} |-> 1]
MCContract == [t \in {ta, tb, tc, td, tu, tv} |->
  CASE t = td -> <<sender, 1>> [] t = tc -> <<sender, 2>> [] OTHER -> None]
MCMined == {{}, {ta, td, tc}}
MCMaxSubmits == [o \in BOOLEAN |-> IF o THEN 1 ELSE 2]
MCTwoSubmits == [o \in BOOLEAN |-> 2]
MCMaxUpdates == [o \in BOOLEAN |-> IF o THEN 1 ELSE 2]
MCNoUpdates == [o \in BOOLEAN |-> 0]
MCCoins == {<<coin, 0>>, <<coin, 1>>}
=============================================================================
