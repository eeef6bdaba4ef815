-------------------------------- MODULE MCEvm --------------------------------
(***************************************************************************)
(* Instances of Evm: a user and two contracts, one of which may create a   *)
(* third; storage of three slots.                                          *)
(***************************************************************************)
EXTENDS EvmWorlds

MCPath ==
  [x \in {"u", "a", "b", "n", "k1", "k2", "k3"} |->
     CASE x = "u" -> <<0, 0, 0>> [] x = "a" -> <<0, 0, 1>> [] x = "b" -> <<1, 1, 0>>
       [] x = "n" -> <<0, 1, 1>>
       [] x = "k1" -> <<0, 0>> [] x = "k2" -> <<0, 1>> [] x = "k3" -> <<1, 0>>]

Slots(values) == Build([p \in {Path[k] : k \in DOMAIN values} |->
                    Encoded(values[CHOOSE k \in DOMAIN values : Path[k] = p])])
At(accounts) == [p \in {Path[a] : a \in DOMAIN accounts} |->
                   accounts[CHOOSE a \in DOMAIN accounts : Path[a] = p]]

MCCreateAddress == [x \in {<<"u", 1>>} |-> "b"]
MCCreateAddress2 == [x \in {"a"} |-> "n"]

Base(slots) == [a \in {"u", "a"} |->
  IF a = "u" THEN Account(0, 1, Nil, NoCode)
  ELSE Account(1, 1, Slots([k \in slots |-> 1]), "code")]
With(used, more, ops, slots, n, m) ==
  [accounts |-> At(more @@ Base(used)), codes |-> {"code"}, ops |-> ops \cup {"transact"},
   slots |-> slots, steps |-> n, blocks |-> m]
Other(balance, code) == "b" :> Account(1, balance, Nil, code)

MCScenes ==
  {With({"k1"}, Other(0, "code"), {"CALL", "SELFDESTRUCT"}, {}, 4, 1),
   With({"k1"}, Other(0, "code"), {"CALL", "STATICCALL", "DELEGATECALL", "SSTORE"}, {"k1"}, 4, 1),
   With({"k1"}, <<>>, {"SELFDESTRUCT", "SSTORE", "LOG"}, {"k1"}, 4, 1),
   With({"k1"}, <<>>, {"CREATE", "SELFDESTRUCT"}, {}, 5, 1),
   With({"k1"}, <<>>, {"CREATE", "SELFDESTRUCT", "SSTORE"}, {"k1"}, 2, 2)}
  \cup {With(used, <<>>, {"SSTORE"}, Keys, 3, 1) : used \in SUBSET Keys}
==============================================================================
