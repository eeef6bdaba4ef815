------------------------------- MODULE Worlds -------------------------------
(***************************************************************************)
(* What the execution of contracts promises, with nothing of how it is     *)
(* kept: the world is a map of accounts, a call that begins puts the whole *)
(* world aside, a call that fails puts it back, and the end of a block     *)
(* removes the accounts that have destroyed themselves.                    *)
(***************************************************************************)
EXTENDS Integers, Sequences, SequencesExt

CONSTANTS Addrs, Keys, Codes, Values, NoCode, Start

VARIABLES
  world,        \* [accounts, refund, logs]
  saved         \* the worlds put aside, one for each call in progress

wvars == <<world, saved>>

Nobody == [exists |-> FALSE, nonce |-> 0, balance |-> 0, code |-> NoCode,
           storage |-> [k \in Keys |-> 0], suicided |-> FALSE]
Fresh == [Nobody EXCEPT !.exists = TRUE]

Touch(w, a) == [w EXCEPT !.accounts[a].exists = TRUE]
Bump(w, a) == [w EXCEPT !.accounts[a].exists = TRUE, !.accounts[a].nonce = @ + 1]
Pay(w, from, to, v) ==
  LET paid == [Touch(Touch(w, from), to) EXCEPT !.accounts[from].balance = @ - v]
  IN [paid EXCEPT !.accounts[to].balance = @ + v]
Made(w, a) ==
  [w EXCEPT !.accounts[a] = [Fresh EXCEPT !.nonce = 1, !.balance = w.accounts[a].balance]]

Set(w) == world' = w /\ UNCHANGED saved
\* a call begins in the world w: w is put aside
Begin(w, change) == saved' = Append(saved, w) /\ world' = change

Calls(w) ==
  \/ Set(w)                                            \* a call of nobody
  \/ \E from, to \in Addrs, v \in 0..1 :
       w.accounts[from].balance >= v /\ Begin(w, Pay(w, from, to, v))
  \/ \E to \in Addrs : Begin(w, Touch(w, to))          \* a static call
Creates ==
  \E a, from \in Addrs, v \in 0..1 :
    /\ world.accounts[from].balance >= v
    /\ LET w == Bump(world, from)
       IN IF w.accounts[a].nonce /= 0 \/ w.accounts[a].code /= NoCode THEN Set(w)
          ELSE Begin(w, Pay(Made(w, a), from, a, v))

Transact == saved = <<>> /\ \E u \in Addrs : Calls(Bump(world, u))
Nested == saved /= <<>> /\ Calls(world)
Delegate == saved /= <<>> /\ Begin(world, world)

Store ==
  \E a \in Addrs, k \in Keys, v \in Values :
    Set([world EXCEPT !.accounts[a].storage[k] = v,
                      !.refund = IF world.accounts[a].storage[k] /= 0 /\ v = 0 THEN @ + 1 ELSE @])
Emit == \E a \in Addrs : Set([world EXCEPT !.logs = Append(@, a)])

\* the account gives its balance away and is marked; its call ends
Destroyed(a, to) ==
  LET given == [Touch(world, to) EXCEPT !.accounts[to].balance = @ + world.accounts[a].balance]
  IN [given EXCEPT !.accounts[a].balance = 0, !.accounts[a].suicided = TRUE,
                   !.refund = IF world.accounts[a].suicided THEN @ ELSE @ + 1]
Destroy ==
  /\ saved /= <<>> /\ saved' = Front(saved)
  /\ \E a, to \in Addrs : world' = Destroyed(a, to)

End ==
  /\ saved /= <<>> /\ saved' = Front(saved)
  /\ \/ world' = world
     \/ \E a \in Addrs, c \in Codes : world' = [world EXCEPT !.accounts[a].code = c]
Undo == saved /= <<>> /\ saved' = Front(saved) /\ world' = Last(saved)

Settled(w) ==
  [accounts |-> [a \in Addrs |-> IF w.accounts[a].suicided THEN Nobody ELSE w.accounts[a]],
   refund |-> 0, logs |-> <<>>]
Settle == saved = <<>> /\ Set(Settled(world))

Init == world \in Start /\ saved = <<>>
Next ==
  \/ Transact \/ Nested \/ Delegate \/ Creates \/ Store \/ Emit \/ Destroy \/ End \/ Undo \/ Settle
Spec == Init /\ [][Next]_wvars
==============================================================================
