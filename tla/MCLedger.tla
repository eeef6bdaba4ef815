------------------------------ MODULE MCLedger ------------------------------
(***************************************************************************)
(* Ledger with a handful of signed transactions, in groups that meet each  *)
(* other: a scenario is one group.                                         *)
(***************************************************************************)
EXTENDS Ledger

A == <<"alice">>
B == <<"bob">>
K == <<"keeper">>
MCAdmin == <<"admin">>
Bonus == <<"bonus">>      \* ContractAddr
V == <<"vault">>          \* two contracts that exist already
W == <<"well">>
New == CreateAddress(A, 1)

Pkh(a, v) == [value |-> v, script |-> PayToPubKeyHashScript(a)]
CallOf(from, to, v, gas, nonce) == [value |-> v, script |-> MakeContractScriptPubkey(from, to, gas, nonce)]
Note == [value |-> 0, script |-> Script("opreturn", NoAddr, NoArg)]
Id(name) == <<name, 0>>
G(i) == <<Id("genesis"), i>>
T(name, from, vin, vout) ==
  [id |-> Id(name), vin |-> vin, vout |-> vout, signers |-> [i \in DOMAIN vin |-> from], type |-> "unknown"]

MCGenesisUtxo == <<Pkh(A, 20), Pkh(A, 20), Pkh(B, 20), Pkh(B, 20)>>
Wrap(a, v) == NewUtxoWrap(v, MakeContractScriptPubkey(MCAdmin, a, 1, 0), 0)
MCGenesisState ==
  [bal |-> (A :> 40) @@ (B :> 40) @@ (Bonus :> 0) @@ (V :> 10) @@ (W :> 10),
   nonce |-> (Bonus :> 1) @@ (V :> 1) @@ (W :> 1), code |-> {Bonus, V, W},
   utxo |-> (Bonus :> Wrap(Bonus, 0)) @@ (V :> Wrap(V, 10)) @@ (W :> Wrap(W, 10))]

\* transactions without contracts
Pay == T("pay", A, <<G(0)>>, <<Pkh(B, 10), Note, Pkh(A, 8)>>)
Chained == T("chained", A, <<<<Id("pay"), 2>>>>, <<Pkh(B, 6)>>)
Token(a, n) == [value |-> 0, script |-> Script("token", a, [token |-> <<Id("issue"), 0>>, amount |-> n])]
Issue == T("issue", A, <<G(1)>>, <<[value |-> 0, script |-> Script("issue", A, [amount |-> 5])], Pkh(A, 18)>>)
Give == T("give", A, <<<<Id("issue"), 0>>, <<Id("issue"), 1>>>>, <<Token(B, 3), Token(A, 2), Pkh(A, 16)>>)
Lose == T("lose", A, <<<<Id("issue"), 0>>, <<Id("issue"), 1>>>>, <<Token(B, 3), Pkh(A, 16)>>)

\* split addresses
Declare == T("declare", A, <<G(0)>>,
             <<[value |-> 0, script |-> Script("split", <<"split">>, [addrs |-> <<A, B>>, weights |-> <<1, 2>>])],
               Pkh(A, 18)>>)
SplitAddr == MakeSplitAddress(Declare, 1)
PaySplit == T("paysplit", B, <<G(2)>>, <<Pkh(SplitAddr, 10), Pkh(B, 8)>>)
Share == T("share", B, <<<<<<"split", Id("paysplit")>>, 1>>>>, <<Pkh(A, 5)>>)
Child == T("child", B, <<<<Id("paysplit"), 1>>>>, <<Pkh(A, 6)>>)

\* contracts
Call1 == T("call1", A, <<G(0)>>, <<CallOf(A, V, 3, 4, 1), Pkh(A, 13)>>)
Call2 == T("call2", A, <<G(1)>>, <<CallOf(A, V, 0, 4, 2), Pkh(A, 16)>>)
GasBack == InternalTx(<<NullHash, 1>>, 1, <<Pkh(A, 2)>>)   \* the gas that call1 leaves
SpendBack == T("spendback", A, <<<<GasBack.id, 0>>, <<Id("call1"), 1>>>>, <<Pkh(B, 13)>>)
Fails == T("fails", B, <<G(2)>>, <<CallOf(B, V, 3, 4, 1), Pkh(B, 13)>>)
Deploy == T("deploy", A, <<G(0)>>, <<CallOf(A, NoAddr, 3, 4, 1), Pkh(A, 13)>>)
Prepay == T("prepay", B, <<G(2)>>, <<Pkh(New, 4), Pkh(B, 14)>>)
CallNew == T("callnew", B, <<G(3)>>, <<CallOf(B, New, 2, 4, 1), Pkh(B, 14)>>)
BadDeploy == T("baddeploy", A, <<G(1)>>, <<CallOf(A, NoAddr, 3, 4, 1), Pkh(A, 13)>>)
Across == T("across", A, <<G(0)>>, <<CallOf(A, V, 0, 4, 1), Pkh(A, 16)>>)
Plain == T("plain", B, <<G(2)>>, <<Pkh(V, 3), Pkh(B, 15)>>)
Factory == T("factory", A, <<G(1)>>, <<CallOf(A, V, 0, 4, 2), Pkh(A, 16)>>)
Many == T("many", A, <<G(0)>>, <<CallOf(A, V, 0, 4, 1), Pkh(A, 16)>>)
Undone == T("undone", B, <<G(2)>>, <<CallOf(B, V, 0, 4, 1), Pkh(B, 16)>>)
Two == T("two", A, <<G(0)>>, <<CallOf(A, V, 0, 4, 1), Pkh(A, 16)>>)
Reads == T("reads", B, <<G(2)>>, <<CallOf(B, V, 0, 4, 1), Pkh(B, 16)>>)
Gift == T("gift", A, <<G(0)>>, <<CallOf(A, V, 0, 4, 1), Pkh(B, 6), Pkh(A, 10)>>)
Late == [Prepay EXCEPT !.id = Id("late"), !.type = "pay"]
Builder == T("builder", A, <<G(0)>>, <<CallOf(A, NoAddr, 3, 4, 1), Pkh(A, 13)>>)

Step(op, from, to, v) == [op |-> op, from |-> from, to |-> to, value |-> v, when |-> from, atLeast |-> 0]
P(gas, refund, steps) == [ok |-> TRUE, gas |-> gas, refund |-> refund, steps |-> steps]
MCProgram ==
  ("switch" :> P(0, 0, <<Step("call", Bonus, K, 5)>>)) @@
  ("call1" :> P(2, 1, <<Step("call", V, B, 2)>>)) @@
  ("call2" :> P(1, 0, <<Step("call", V, A, 1), Step("call", V, B, 1), Step("call", V, A, 1)>>)) @@
  ("fails" :> [P(2, 0, <<Step("call", V, A, 1)>>) EXCEPT !.ok = FALSE]) @@
  ("deploy" :> P(3, 0, <<>>)) @@
  ("baddeploy" :> P(9, 0, <<>>)) @@
  ("callnew" :> P(1, 0, <<Step("call", New, B, 1)>>)) @@
  ("across" :> P(1, 0, <<Step("call", V, W, 2)>>)) @@
  ("factory" :> P(1, 0, <<Step("create", V, NoAddr, 1)>>)) @@
  ("many" :> P(1, 0, <<Step("call", V, A, 1), Step("call", V, B, 1), Step("call", V, K, 1)>>)) @@
  ("undone" :> P(1, 0, <<Step("undone", V, A, 1)>>)) @@
  ("two" :> P(1, 0, <<Step("call", V, A, 1), Step("call", W, A, 1)>>)) @@
  ("builder" :> P(3, 0, <<Step("call", New, B, 1)>>)) @@
  ("reads" :> P(1, 0, <<[Step("call", V, A, 1) EXCEPT !.when = K, !.atLeast = 2]>>))

Group ==
  [plain |-> {Pay, Chained, Issue, Give, Lose}, split |-> {Declare, PaySplit, Share, Child},
   calls |-> {Call1, Call2, Fails, SpendBack}, deploy |-> {Deploy, Prepay, CallNew, BadDeploy},
   across |-> {Across, Plain, Factory}, many |-> {Many, Fails}, two |-> {Two}, reads |-> {Reads},
   gift |-> {Gift}, late |-> {Deploy, Late}, builder |-> {Builder, Prepay}, undone |-> {Undone}]

\* bounds: two of a group in a block, in any order, no output spent twice;
\* three blocks where a share of a split payment is spent
Disjoint(s) == \A i, j \in DOMAIN s : i # j => ToSet(s[i].vin) \cap ToSet(s[j].vin) = {}
MCPending ==
  [g \in DOMAIN Group |-> {s \in UNION {SetToSeqs(S) : S \in {X \in SUBSET Group[g] : Cardinality(X) <= 2}} :
                             Disjoint(s)}]
MCMaxBlocks == [g \in DOMAIN Group |-> IF g = "split" THEN 3 ELSE 2]
==============================================================================
