---------------------------- MODULE TxPoolProofs ----------------------------
(***************************************************************************)
(* The theorem about TxPool, for any transactions, threads and chains:     *)
(* however operations overlap, an outpoint lists only orphans that are in  *)
(* the orphan pool; and as long as they do not, the pool and outPointToTx  *)
(* agree, so no two of its transactions spend the same outpoint.           *)
(*                                                                         *)
(* The second part is about what a thread has left to do. removeTx takes a *)
(* transaction out of the pool before it frees its outpoints, and between  *)
(* the two nothing can put it back; an outpoint that is freed and belongs  *)
(* to another transaction is followed by the removal of that one; and      *)
(* between checkDoubleSpend and addTx no outpoint is taken.                *)
(***************************************************************************)
EXTENDS TxPool, FiniteSetTheorems, TLAPS

-----------------------------------------------------------------------------
(* The invariant.                                                          *)

OutPoint == Spent(Txs) \cup (Txs \X Nat)

\* What a thread may have left to do.
Light == [op : {"orphans"}, accepted : Seq(Txs), outs : Seq(OutPoint) \ {<<>>}]
           \cup [op : {"conflicts", "unorphan"}, tx : Txs]
Entering == {"accept", "admit", "send", "store", "spend"}
Steps == Light
  \cup [op : Entering, tx : Txs, dup : BOOLEAN, then : Seq(Light), else : Seq(Light)]
  \cup [op : {"orphan", "delete", "unnonce", "uncache", "cache"}, tx : Txs]
  \cup [op : {"unspend"}, tx : Txs, out : OutPoint]
  \cup [op : {"free"}, tx : Txs, out : OutPoint, ds : Txs]
  \cup [op : {"child"}, out : OutPoint]
  \cup [op : {"children"}, outs : Seq(OutPoint) \ {<<>>}]

Blocks == Seq(Seq(Txs))

Typed ==
  /\ todo \in [Threads -> Seq(Steps)]
  /\ DOMAIN hashToTx \subseteq Txs
  /\ DOMAIN hashToOrphanTx \subseteq Txs
  /\ \A o \in DOMAIN outPointToTx : outPointToTx[o] \in Txs
  /\ newTxScriptCh \in Seq(Txs) /\ scripts \subseteq Txs
  /\ chain \in Blocks /\ updates \in Seq([detach : Blocks, attach : Blocks])

\* An orphan that an outpoint lists is in the orphan pool and spends the outpoint.
Orphaned ==
  \A o \in DOMAIN outPointToOrphan : \A t \in outPointToOrphan[o] :
    t \in DOMAIN hashToOrphanTx /\ o \in Vin[t]

\* Steps of removeTx, which put nothing into the pool.
Removal == {"delete", "unspend", "free"}

\* Step i of q frees an outpoint of a transaction that a step before it deletes.
After(q, i) ==
  \E j \in 1..(i - 1) :
    /\ q[j].op = "delete" /\ q[j].tx = q[i].tx
    /\ \A k \in (j + 1)..(i - 1) : q[k].op \in Removal

\* Steps that a thread may take up next, whatever the pool is.
Neat(q) ==
  \A i \in DOMAIN q : /\ q[i].op \notin {"admit", "send", "store", "spend", "free"}
                      /\ q[i].op = "unspend" => After(q, i)

\* Step i of q frees an outpoint of a transaction that is not in the pool P by then.
Gone(q, i, P) ==
  \/ After(q, i)
  \/ q[i].tx \notin P /\ \A k \in 1..(i - 1) : q[k].op \in Removal

\* What a thread that runs alone has left to do, when the transactions of P are in
\* the pool and M is outPointToTx.
Stack(q, P, M) ==
  /\ \A i \in DOMAIN q :
       /\ i # 1 => q[i].op \notin {"admit", "send", "store", "spend", "free"}
       /\ q[i].op \in {"unspend", "free"} => Gone(q, i, P)
  /\ q # <<>> => /\ q[1].op \in {"send", "store", "spend"} => Vin[q[1].tx] \cap DOMAIN M = {}
                 /\ q[1].op = "free" => q[1].out \in DOMAIN M /\ M[q[1].out] = q[1].ds

\* M lists the outpoints of t.
Listed(t, M) == \A o \in Vin[t] : o \in DOMAIN M /\ M[o] = t

\* The next step of q takes t into the pool, or out of it.
Passing(t, q) == q # <<>> /\ q[1].op \in {"spend", "delete"} /\ q[1].tx = t

Alone ==
  /\ \A th, u \in Threads : todo[th] # <<>> /\ todo[u] # <<>> => th = u
  /\ \A th \in Threads : Stack(todo[th], DOMAIN hashToTx, outPointToTx)
  /\ \A t \in DOMAIN hashToTx :
       Listed(t, outPointToTx) \/ \E th \in Threads : Passing(t, todo[th])

IInv == Typed /\ Orphaned /\ (~overlap => Alone)
-----------------------------------------------------------------------------
(* What threads are given to do.                                           *)

Safe == {q \in Seq(Steps) : Neat(q)}
EnterStep == [op : Entering, tx : Txs, dup : BOOLEAN, then : Seq(Light), else : Seq(Light)]
OnTx == {"conflicts", "unorphan", "orphan", "delete", "unnonce", "uncache", "cache"}

\* The fields of a step.
LEMMA StepFields ==
  ASSUME NEW s \in Steps
  PROVE  /\ s.op \in Entering => s \in EnterStep
         /\ s.op \in OnTx => s.tx \in Txs
         /\ s.op \in {"unspend", "free"} => s.tx \in Txs /\ s.out \in OutPoint
         /\ s.op = "free" => s.ds \in Txs
         /\ s.op = "child" => s.out \in OutPoint
         /\ s.op = "children" => s.outs \in Seq(OutPoint) \ {<<>>}
         /\ s.op = "orphans" => s.accepted \in Seq(Txs) /\ s.outs \in Seq(OutPoint) \ {<<>>}
BY DEF Steps, Light, Entering, EnterStep, OnTx

\* Steps that name a transaction.
LEMMA OnOK ==
  ASSUME NEW t \in Txs, NEW name \in OnTx
  PROVE  On(name, t) \in Steps /\ On(name, t).op = name /\ On(name, t).tx = t
BY DEF Steps, Light, OnTx, On

\* Steps that end maybeAcceptTx name a transaction.
LEMMA LightOn ==
  ASSUME NEW t \in Txs, NEW name \in {"conflicts", "unorphan"}
  PROVE  On(name, t) \in Light
BY DEF Light, On

\* Steps of processOrphans are steps.
LEMMA LightOps ==
  ASSUME NEW s \in Light
  PROVE  s \in Steps /\ s.op \in {"orphans", "conflicts", "unorphan"}
BY DEF Steps, Light

\* Steps of processOrphans and what ends maybeAcceptTx may come at any time.
LEMMA NeatLight ==
  ASSUME NEW q \in Seq(Light)
  PROVE  q \in Safe
<1>1. \A i \in DOMAIN q : q[i] \in Light
  OBVIOUS
<1>2. \A i \in DOMAIN q : q[i] \in Steps /\ q[i].op \in {"orphans", "conflicts", "unorphan"}
  BY Zenon, <1>1, LightOps
<1>3. q \in Seq(Steps)
  BY <1>2
<1> QED  BY Zenon, <1>2, <1>3 DEF Safe, Neat

\* Work that comes after other work stays neat.
LEMMA NeatConcat ==
  ASSUME NEW p \in Safe, NEW q \in Safe
  PROVE  p \o q \in Safe
<1> DEFINE r == p \o q
<1>1. p \in Seq(Steps) /\ q \in Seq(Steps) /\ Neat(p) /\ Neat(q)
  BY Zenon DEF Safe
<1>2. /\ r \in Seq(Steps) /\ DOMAIN r = 1..(Len(p) + Len(q)) /\ Len(p) \in Nat /\ Len(q) \in Nat
      /\ DOMAIN p = 1..Len(p) /\ DOMAIN q = 1..Len(q)
      /\ \A i \in 1..Len(p) : r[i] = p[i]
      /\ \A i \in 1..Len(q) : r[Len(p) + i] = q[i]
  BY <1>1
<1> HIDE DEF r
<1>3. ASSUME NEW i \in 1..Len(p)
      PROVE  /\ r[i].op \notin {"admit", "send", "store", "spend", "free"}
             /\ r[i].op = "unspend" => After(r, i)
  <2>1. /\ p[i].op \notin {"admit", "send", "store", "spend", "free"}
        /\ p[i].op = "unspend" => After(p, i)
    BY Zenon, <1>1, <1>2 DEF Neat
  <2>2. \A k \in 1..i : k \in 1..Len(p)
    BY <1>2
  <2>3. ASSUME p[i].op = "unspend" PROVE After(r, i)
    <3>1. PICK j \in 1..(i - 1) :
            /\ p[j].op = "delete" /\ p[j].tx = p[i].tx
            /\ \A k \in (j + 1)..(i - 1) : p[k].op \in Removal
      BY Zenon, <2>1, <2>3 DEF After
    <3>2. \A k \in j..(i - 1) : r[k] = p[k]
      BY <1>2, <2>2
    <3>3. j \in j..(i - 1) /\ \A k \in (j + 1)..(i - 1) : k \in j..(i - 1)
      BY <3>1
    <3>4. r[i] = p[i]
      BY Zenon, <1>2
    <3> QED  BY Zenon, <3>1, <3>2, <3>3, <3>4 DEF After
  <2> QED  BY Zenon, <1>2, <2>1, <2>3
<1>4. ASSUME NEW i \in 1..Len(q)
      PROVE  /\ r[Len(p) + i].op \notin {"admit", "send", "store", "spend", "free"}
             /\ r[Len(p) + i].op = "unspend" => After(r, Len(p) + i)
  <2>1. /\ q[i].op \notin {"admit", "send", "store", "spend", "free"}
        /\ q[i].op = "unspend" => After(q, i)
    BY Zenon, <1>1, <1>2 DEF Neat
  <2>2. ASSUME q[i].op = "unspend" PROVE After(r, Len(p) + i)
    <3>1. PICK j \in 1..(i - 1) :
            /\ q[j].op = "delete" /\ q[j].tx = q[i].tx
            /\ \A k \in (j + 1)..(i - 1) : q[k].op \in Removal
      BY Zenon, <2>1, <2>2 DEF After
    <3>2. j \in 1..Len(q) /\ Len(p) + j \in 1..(Len(p) + i - 1)
      BY <1>2
    <3>3. ASSUME NEW k \in (Len(p) + j + 1)..(Len(p) + i - 1) PROVE r[k].op \in Removal
      <4>1. k - Len(p) \in (j + 1)..(i - 1) /\ k - Len(p) \in 1..Len(q)
            /\ k = Len(p) + (k - Len(p))
        BY SMTT(60), <1>2
      <4> QED  BY ZenonT(60), <1>2, <3>1, <4>1
    <3>4. r[Len(p) + j] = q[j] /\ r[Len(p) + i] = q[i]
      BY Zenon, <1>2, <3>2
    <3> QED  BY SMTT(60), <3>1, <3>2, <3>3, <3>4 DEF After
  <2> QED  BY Zenon, <1>2, <2>1, <2>2
<1>5. \A i \in DOMAIN r : i \in 1..Len(p) \/ \E j \in 1..Len(q) : i = Len(p) + j
  <2> SUFFICES ASSUME NEW i \in DOMAIN r, i \notin 1..Len(p)
               PROVE  i - Len(p) \in 1..Len(q) /\ i = Len(p) + (i - Len(p))
    BY Zenon
  <2> QED  BY <1>2
<1>6. Neat(r)
  BY Zenon, <1>3, <1>4, <1>5 DEF Neat
<1> QED  BY Zenon, <1>2, <1>6 DEF Safe, r

\* Steps that a thread comes to only from the step before.
Busy == {"admit", "send", "store", "spend", "free"}

\* Steps that free nothing are neat.
LEMMA NeatPlain ==
  ASSUME NEW q \in Seq(Steps), \A i \in DOMAIN q : q[i].op \notin Busy \cup {"unspend"}
  PROVE  q \in Safe
BY Zenon DEF Safe, Neat, Busy

\* One step that frees nothing.
LEMMA NeatOne ==
  ASSUME NEW s \in Steps, s.op \notin Busy \cup {"unspend"}
  PROVE  <<s>> \in Safe
<1>1. <<s>> \in Seq(Steps) /\ \A i \in DOMAIN <<s>> : <<s>>[i] = s
  OBVIOUS
<1> QED  BY Zenon, <1>1, NeatPlain

\* Two steps that free nothing.
LEMMA NeatTwo ==
  ASSUME NEW s \in Steps, NEW u \in Steps, {s.op, u.op} \cap (Busy \cup {"unspend"}) = {}
  PROVE  <<s, u>> \in Safe
<1>1. <<s, u>> \in Seq(Steps) /\ \A i \in DOMAIN <<s, u>> : <<s, u>>[i] \in {s, u}
  OBVIOUS
<1> QED  BY Zenon, <1>1, NeatPlain

\* Nothing to do is neat.
LEMMA NeatNone == <<>> \in Safe
<1>1. <<>> \in Seq(Steps) /\ DOMAIN <<>> = {}
  OBVIOUS
<1> QED  BY Zenon, <1>1 DEF Safe, Neat

\* The outputs of a transaction, and the outpoints it spends.
LEMMA OutsOK ==
  ASSUME NEW t \in Txs
  PROVE  Outs(t) \in Seq(OutPoint)
<1>1. Vout[t] \in Nat
  BY Zenon, PoolAssumption
<1>2. \A i \in 1..Vout[t] : <<t, i - 1>> \in OutPoint
  BY <1>1 DEF OutPoint
<1> QED  BY <1>1, <1>2 DEF Outs

\* The outpoints of a transaction, one after the other, are outpoints.
LEMMA ListingOK ==
  ASSUME NEW t \in Txs
  PROVE  /\ Cardinality(Vin[t]) \in Nat
         /\ \A i \in 1..Cardinality(Vin[t]) : Listing(Vin[t])[i] \in OutPoint
<1> DEFINE n == Cardinality(Vin[t])
           seqs == [1..n -> Vin[t]]
<1>1. n \in Nat /\ ExistsBijection(1..n, Vin[t])
  BY Zenon, PoolAssumption, FS_CardinalityType
<1>2. PICK f \in seqs : \A o \in Vin[t] : \E i \in 1..n : f[i] = o
  BY Zenon, <1>1 DEF ExistsBijection, Bijection, Injection, Surjection
<1>3. Vin[t] \subseteq Members(f)
  BY Zenon, <1>2 DEF Members
<1>4. Listing(Vin[t]) \in seqs
  BY Zenon, <1>2, <1>3 DEF Listing
<1>5. Vin[t] \subseteq OutPoint
  BY Zenon DEF OutPoint, Spent
<1> HIDE DEF n
<1> QED  BY Zenon, <1>1, <1>4, <1>5 DEF n

\* processOrphans.
LEMMA OrphanStepsOK ==
  ASSUME NEW accepted \in Seq(Txs), NEW outs \in Seq(OutPoint)
  PROVE  OrphanSteps(accepted, outs) \in Seq(Light)
<1>1. CASE outs # <<>>
  <2> DEFINE s == [op |-> "orphans", accepted |-> accepted, outs |-> outs]
  <2>1. s \in Light
    BY <1>1 DEF Light
  <2> HIDE DEF s
  <2>2. <<s>> \in Seq(Light)
    BY <2>1
  <2> QED  BY Zenon, <1>1, <2>2 DEF OrphanSteps, s
<1>2. CASE outs = <<>>
  <2>1. \A i \in 1..Len(accepted) : accepted[i] \in Txs /\ Len(accepted) \in Nat
    OBVIOUS
  <2>2. \A i \in 1..Len(accepted) : On("conflicts", accepted[i]) \in Light
    BY Zenon, <2>1, LightOn
  <2>3. [i \in 1..Len(accepted) |-> On("conflicts", accepted[i])] \in Seq(Light)
    BY <2>2
  <2>4. DOMAIN accepted = 1..Len(accepted)
    OBVIOUS
  <2> QED  BY Zenon, <1>2, <2>3, <2>4 DEF OrphanSteps
<1> QED  BY <1>1, <1>2

\* maybeAcceptTx.
LEMMA AcceptOK ==
  ASSUME NEW t \in Txs, NEW dup \in BOOLEAN, NEW then \in Seq(Light), NEW else \in Seq(Light)
  PROVE  <<AcceptStep(t, dup, then, else)>> \in Safe
<1> DEFINE s == AcceptStep(t, dup, then, else)
<1>1. s \in Steps /\ s.op = "accept"
  BY DEF AcceptStep, Steps, Entering
<1> HIDE DEF s
<1>2. s.op \notin Busy \cup {"unspend"}
  BY <1>1 DEF Busy
<1> QED  BY Zenon, <1>1, <1>2, NeatOne DEF s

\* ProcessTx gives a thread neat work.
LEMMA ProcessTxOK ==
  ASSUME NEW t \in Txs
  PROVE  ProcessTx(t) \in Safe
<1>1. <<t>> \in Seq(Txs) /\ <<>> \in Seq(Light)
  OBVIOUS
<1>2. OrphanSteps(<<t>>, Outs(t)) \in Seq(Light)
  BY Zenon, <1>1, OutsOK, OrphanStepsOK
<1> QED  BY Zenon, <1>1, <1>2, AcceptOK DEF ProcessTx

\* The end of removeTx.
LEMMA ChildStepsOK ==
  ASSUME NEW outs \in Seq(OutPoint)
  PROVE  ChildSteps(outs) \in Safe
<1> DEFINE s == [op |-> "children", outs |-> outs]
<1>1. outs # <<>> => s \in Steps /\ s.op = "children"
  BY DEF Steps
<1> HIDE DEF s
<1>2. outs # <<>> => <<s>> \in Safe
  BY Zenon, <1>1, NeatOne DEF Busy
<1> QED  BY Zenon, <1>2, NeatNone DEF ChildSteps, s

\* removeTx deletes the transaction and then frees its outpoints.
LEMMA RemoveTxOK ==
  ASSUME NEW t \in Txs, NEW recursive \in BOOLEAN
  PROVE  RemoveTx(t, recursive) \in Safe
<1> DEFINE n == Cardinality(Vin[t])
           U == [i \in 1..n |-> [op |-> "unspend", tx |-> t, out |-> Listing(Vin[t])[i]]]
           D == <<On("delete", t)>> \o U
           N == IF Contract[t] # None THEN <<On("unnonce", t)>> ELSE <<>>
           C == IF recursive THEN ChildSteps(Outs(t)) ELSE <<>>
<1>1. n \in Nat /\ \A i \in 1..n : Listing(Vin[t])[i] \in OutPoint
  BY Zenon, ListingOK
<1>2. \A i \in 1..n : U[i] \in Steps /\ U[i].op = "unspend" /\ U[i].tx = t
  BY <1>1 DEF Steps
<1>3. On("delete", t) \in Steps /\ On("delete", t).op = "delete" /\ On("delete", t).tx = t
  BY Zenon, OnOK DEF OnTx
<1>4. U \in Seq(Steps) /\ Len(U) = n
  BY <1>1, <1>2
<1> HIDE DEF U, n
<1>5. /\ D \in Seq(Steps) /\ DOMAIN D = 1..(n + 1) /\ D[1] = On("delete", t)
      /\ \A i \in 2..(n + 1) : D[i] = U[i - 1] /\ i - 1 \in 1..n
  BY <1>1, <1>3, <1>4
<1> HIDE DEF D
<1>6. /\ D[1].op = "delete" /\ D[1].tx = t
      /\ \A i \in 2..(n + 1) : D[i].op = "unspend" /\ D[i].tx = t
  BY Zenon, <1>2, <1>3, <1>5
<1>7. ASSUME NEW i \in 1..(n + 1) PROVE D[i].op \notin Busy /\ (D[i].op = "unspend" => After(D, i))
  <2>1. CASE i = 1
    BY Zenon, <1>6, <2>1 DEF Busy
  <2>2. CASE i # 1
    <3>1. i \in 2..(n + 1) /\ 1 \in 1..(i - 1)
          /\ \A k \in (1 + 1)..(i - 1) : k \in 2..(n + 1)
      BY <1>1, <2>2
    <3>2. After(D, i)
      BY Zenon, <1>6, <3>1 DEF After, Removal
    <3> QED  BY Zenon, <1>6, <3>1, <3>2 DEF Busy
  <2> QED  BY <2>1, <2>2
<1>8. D \in Safe
  BY Zenon, <1>5, <1>7 DEF Safe, Neat, Busy
<1>9. N \in Safe
  <2>1. On("unnonce", t) \in Steps /\ On("unnonce", t).op = "unnonce"
    BY Zenon, OnOK DEF OnTx
  <2>2. <<On("unnonce", t)>> \in Safe
    BY Zenon, <2>1, NeatOne DEF Busy
  <2> QED  BY Zenon, <2>2, NeatNone
<1>10. C \in Safe
  BY Zenon, OutsOK, ChildStepsOK, NeatNone
<1> HIDE DEF N, C
<1>11. (D \o N) \o C \in Safe
  BY Zenon, <1>8, <1>9, <1>10, NeatConcat
<1> QED  BY Zenon, <1>11 DEF RemoveTx, D, U, n, N, C

\* The order of the numbers, as a relation.
Smaller == {pair \in Nat \X Nat : pair[1] < pair[2]}

\* A set that has 0 and with each number the next one has every number.
LEMMA Induction ==
  ASSUME NEW S, 0 \in S, \A n \in Nat : n \in S => n + 1 \in S
  PROVE  Nat \subseteq S
<1> DEFINE T == Nat \ S
<1> SUFFICES ASSUME T # {} PROVE FALSE
  OBVIOUS
<1>1. IsWellFoundedOn(Smaller, Nat)
  BY NatLessThanWellFounded DEF OpToRel, Smaller
<1>2. PICK x \in T : \A y \in T : ~(<<y, x>> \in Smaller)
  BY Zenon, <1>1, WFMin
<1>3. x \in Nat /\ x # 0
  OBVIOUS
<1>4. x - 1 \in Nat /\ <<x - 1, x>> \in Smaller
  BY <1>3 DEF Smaller
<1>5. x - 1 \in S /\ x = (x - 1) + 1
  BY <1>2, <1>3, <1>4
<1> QED  BY <1>4, <1>5

\* What sequences, and the joins of two of them, have in common.
LEMMA ConcatOK ==
  ASSUME NEW P, <<>> \in P, \A p, q \in P : p \o q \in P,
         NEW seqs, Len(seqs) \in Nat, \A i \in 1..Len(seqs) : seqs[i] \in P
  PROVE  Concat(seqs) \in P
<1> DEFINE len == Len(seqs)
           Add(a, i) == a \o seqs[i]
           Join(k, g) == g = [i \in 0..k |-> IF i = 0 THEN <<>> ELSE Add(g[i - 1], i)]
           T == {k \in Nat : \E g : Join(k, g)}
<1>1. Concat(seqs) = (CHOOSE g : Join(len, g))[len]
  BY DEF Concat
<1>2. \A a \in P, i \in 1..len : Add(a, i) \in P
  OBVIOUS
<1> HIDE DEF len, Add
<1>3. len \in Nat /\ len \in 0..len
  BY DEF len
<1>4. 0 \in T
  <2> DEFINE h == [i \in 0..0 |-> <<>>]
  <2>1. Join(0, h)
    OBVIOUS
  <2> HIDE DEF h, Join
  <2> QED  BY <2>1
<1>5. ASSUME NEW k \in Nat, k \in T PROVE k + 1 \in T
  <2>1. PICK g : Join(k, g)
    BY Zenon, <1>5
  <2> DEFINE h == [i \in 0..(k + 1) |-> IF i = k + 1 THEN Add(g[k], i) ELSE g[i]]
  <2>2. \A i \in 0..(k + 1) : h[i] = IF i = 0 THEN <<>> ELSE Add(h[i - 1], i)
    BY <2>1
  <2>3. Join(k + 1, h)
    BY Zenon, <2>2
  <2> HIDE DEF h, Join
  <2> QED  BY <2>3
<1> HIDE DEF T
<1>6. Nat \subseteq T
  BY Zenon, <1>4, <1>5, Induction
<1> DEFINE join == CHOOSE g : Join(len, g)
<1>7. Join(len, join)
  BY Zenon, <1>3, <1>6 DEF T
<1> HIDE DEF join
<1>8. \A k \in Nat : k \in 0..len => join[k] \in P
  <2> DEFINE E == {k \in Nat : k \in 0..len => join[k] \in P}
  <2>1. 0 \in E
    BY <1>3, <1>7
  <2>2. ASSUME NEW k \in Nat, k \in E PROVE k + 1 \in E
    <3> SUFFICES ASSUME k + 1 \in 0..len PROVE join[k + 1] \in P
      OBVIOUS
    <3>1. k \in 0..len /\ k + 1 \in 1..len /\ k + 1 # 0 /\ (k + 1) - 1 = k
      BY <1>3
    <3>2. join[k] \in P
      BY Zenon, <2>2, <3>1
    <3>3. join[k + 1] = Add(join[k], k + 1)
      BY ZenonT(60), <1>7, <3>1
    <3> QED  BY Zenon, <1>2, <3>1, <3>2, <3>3
  <2> HIDE DEF E
  <2>3. Nat \subseteq E
    BY Zenon, <2>1, <2>2, Induction
  <2> QED  BY Zenon, <2>3 DEF E
<1> QED  BY Zenon, <1>1, <1>3, <1>8 DEF join

\* A function on the numbers up to n is a sequence.
LEMMA SeqOf ==
  ASSUME NEW S, NEW n \in Nat, NEW f \in [1..n -> S]
  PROVE  f \in Seq(S) /\ Len(f) = n
OBVIOUS

\* The transactions of a set, in the order of TxSeq.
LEMMA InOrderOK ==
  ASSUME NEW S
  PROVE  InOrder(S) \in Seq(Txs)
<1> DEFINE A == [i \in DOMAIN TxSeq |-> IF TxSeq[i] \in S THEN <<TxSeq[i]>> ELSE <<>>]
<1>1. Len(TxSeq) \in Nat /\ DOMAIN TxSeq = 1..Len(TxSeq) /\ \A i \in 1..Len(TxSeq) : TxSeq[i] \in Txs
  BY PoolAssumption
<1>2. <<>> \in Seq(Txs) /\ (\A t \in Txs : <<t>> \in Seq(Txs))
      /\ \A p, q \in Seq(Txs) : p \o q \in Seq(Txs)
  OBVIOUS
<1>3. A \in [1..Len(TxSeq) -> Seq(Txs)]
  BY Zenon, <1>1, <1>2
<1>4. Len(A) = Len(TxSeq) /\ \A i \in 1..Len(A) : A[i] \in Seq(Txs)
  BY Zenon, <1>1, <1>3, SeqOf
<1> HIDE DEF A
<1>5. Concat(A) \in Seq(Txs)
  BY Zenon, <1>1, <1>2, <1>4, ConcatOK
<1> QED  BY Zenon, <1>5 DEF InOrder, A

\* Neat work, one after the other.
LEMMA SafeConcat ==
  ASSUME NEW seqs \in Seq(Safe)
  PROVE  Concat(seqs) \in Safe
<1>1. Len(seqs) \in Nat /\ \A i \in 1..Len(seqs) : seqs[i] \in Safe
  OBVIOUS
<1> QED  BY Zenon, <1>1, NeatNone, NeatConcat, ConcatOK

\* processChainUpdateMsg: a block is detached, or attached.
LEMMA DetachOK ==
  ASSUME NEW b \in Seq(Txs)
  PROVE  DetachSteps(b) \in Safe
<1> DEFINE A == [i \in DOMAIN b |-> <<On("uncache", b[i]), AcceptStep(b[i], TRUE, <<>>, <<>>)>>]
           out(i, j) == [op |-> "child", out |-> Outs(b[i])[j]]
           B == [i \in DOMAIN b |-> [j \in 1..Vout[b[i]] |-> out(i, j)]]
<1>1. DOMAIN b = 1..Len(b) /\ Len(b) \in Nat /\ \A i \in 1..Len(b) : b[i] \in Txs
  OBVIOUS
<1>2. <<>> \in Seq(Light)
  OBVIOUS
<1>3. ASSUME NEW t \in Txs PROVE <<On("uncache", t), AcceptStep(t, TRUE, <<>>, <<>>)>> \in Safe
  <2>1. On("uncache", t) \in Steps /\ On("uncache", t).op = "uncache"
    BY Zenon, OnOK DEF OnTx
  <2>2. /\ AcceptStep(t, TRUE, <<>>, <<>>) \in Steps
        /\ AcceptStep(t, TRUE, <<>>, <<>>).op = "accept"
    BY DEF AcceptStep, Steps, Entering
  <2> QED  BY Zenon, <2>1, <2>2, NeatTwo DEF Busy
<1>4. A \in Seq(Safe)
  <2>1. A \in [1..Len(b) -> Safe]
    BY Zenon, <1>1, <1>3
  <2> QED  BY Zenon, <1>1, <2>1, SeqOf
<1>5. ASSUME NEW i \in 1..Len(b) PROVE [j \in 1..Vout[b[i]] |-> out(i, j)] \in Safe
  <2> DEFINE q == [j \in 1..Vout[b[i]] |-> out(i, j)]
  <2>1. b[i] \in Txs /\ Outs(b[i]) \in Seq(OutPoint) /\ Vout[b[i]] \in Nat
    BY Zenon, <1>1, <1>5, OutsOK, PoolAssumption
  <2>2. \A j \in 1..Vout[b[i]] : Outs(b[i])[j] \in OutPoint
    <3>1. DOMAIN Outs(b[i]) = 1..Vout[b[i]]
      BY Zenon DEF Outs
    <3> QED  BY <2>1, <3>1
  <2>3. \A j \in 1..Vout[b[i]] : out(i, j) \in Steps /\ out(i, j).op \notin Busy \cup {"unspend"}
    BY <2>2 DEF Steps, Busy
  <2> HIDE DEF out
  <2>4. q \in Seq(Steps) /\ DOMAIN q = 1..Vout[b[i]]
    BY SMTT(60), <2>1, <2>3
  <2>5. \A j \in DOMAIN q : q[j].op \notin Busy \cup {"unspend"}
    BY Zenon, <2>3
  <2> HIDE DEF q
  <2>6. q \in Safe
    BY Zenon, <2>4, <2>5, NeatPlain
  <2> QED  BY Zenon, <2>6 DEF q
<1>6. B \in Seq(Safe)
  <2>1. B \in [1..Len(b) -> Safe]
    BY Zenon, <1>1, <1>5
  <2> QED  BY Zenon, <1>1, <2>1, SeqOf
<1> HIDE DEF A, B
<1>7. Concat(A) \in Safe /\ Concat(B) \in Safe
  BY Zenon, <1>4, <1>6, SafeConcat
<1>8. Concat(A) \o Concat(B) \in Safe
  BY Zenon, <1>7, NeatConcat
<1> QED  BY Zenon, <1>8 DEF DetachSteps, A, B

\* removeBlockTxs for an attached block is neat work.
LEMMA AttachOK ==
  ASSUME NEW b \in Seq(Txs)
  PROVE  AttachSteps(b) \in Safe
<1> DEFINE one(t) == <<On("cache", t)>> \o RemoveTx(t, FALSE) \o <<On("unorphan", t), On("conflicts", t)>>
           A == [i \in DOMAIN b |-> one(b[i])]
<1>1. DOMAIN b = 1..Len(b) /\ Len(b) \in Nat /\ \A i \in 1..Len(b) : b[i] \in Txs
  OBVIOUS
<1>2. ASSUME NEW t \in Txs PROVE one(t) \in Safe
  <2>1. /\ On("cache", t) \in Steps /\ On("cache", t).op = "cache"
        /\ On("unorphan", t) \in Steps /\ On("unorphan", t).op = "unorphan"
        /\ On("conflicts", t) \in Steps /\ On("conflicts", t).op = "conflicts"
    BY ZenonT(30), OnOK DEF OnTx
  <2>2. <<On("cache", t)>> \in Safe /\ <<On("unorphan", t), On("conflicts", t)>> \in Safe
    BY Zenon, <2>1, NeatOne, NeatTwo DEF Busy
  <2> QED  BY Zenon, <2>2, RemoveTxOK, NeatConcat
<1> HIDE DEF one
<1>3. A \in [1..Len(b) -> Safe]
  BY Zenon, <1>1, <1>2
<1>4. Concat(A) \in Safe
  BY Zenon, <1>1, <1>3, SeqOf, SafeConcat
<1> QED  BY Zenon, <1>4 DEF AttachSteps, A, one

\* processChainUpdateMsg.
LEMMA UpdateOK ==
  ASSUME NEW m \in [detach : Blocks, attach : Blocks]
  PROVE  Concat([i \in DOMAIN m.detach |-> DetachSteps(m.detach[i])])
           \o Concat([i \in DOMAIN m.attach |-> AttachSteps(m.attach[i])]) \in Safe
<1>1. ASSUME NEW bs \in Blocks
      PROVE  /\ Concat([i \in DOMAIN bs |-> DetachSteps(bs[i])]) \in Safe
             /\ Concat([i \in DOMAIN bs |-> AttachSteps(bs[i])]) \in Safe
  <2>1. DOMAIN bs = 1..Len(bs) /\ Len(bs) \in Nat /\ \A i \in 1..Len(bs) : bs[i] \in Seq(Txs)
    BY DEF Blocks
  <2>2. /\ [i \in DOMAIN bs |-> DetachSteps(bs[i])] \in [1..Len(bs) -> Safe]
        /\ [i \in DOMAIN bs |-> AttachSteps(bs[i])] \in [1..Len(bs) -> Safe]
    BY Zenon, <2>1, DetachOK, AttachOK
  <2> QED  BY Zenon, <2>1, <2>2, SeqOf, SafeConcat
<1>2. m.detach \in Blocks /\ m.attach \in Blocks
  OBVIOUS
<1> QED  BY Zenon, <1>1, <1>2, NeatConcat

\* cleanExpiredTxs.
LEMMA SweepOK ==
  ASSUME NEW S, NEW R
  PROVE  [i \in DOMAIN InOrder(S) |-> On("unorphan", InOrder(S)[i])]
           \o Concat([i \in DOMAIN InOrder(R) |-> RemoveTx(InOrder(R)[i], TRUE)]) \in Safe
<1> DEFINE A(q) == [i \in DOMAIN q |-> On("unorphan", q[i])]
           B(q) == [i \in DOMAIN q |-> RemoveTx(q[i], TRUE)]
<1>1. ASSUME NEW q \in Seq(Txs) PROVE A(q) \in Safe /\ Concat(B(q)) \in Safe
  <2>1. DOMAIN q = 1..Len(q) /\ Len(q) \in Nat /\ \A i \in 1..Len(q) : q[i] \in Txs
    OBVIOUS
  <2>2. A(q) \in [1..Len(q) -> Light] /\ B(q) \in [1..Len(q) -> Safe]
    BY Zenon, <2>1, LightOn, RemoveTxOK
  <2> QED  BY Zenon, <2>1, <2>2, SeqOf, NeatLight, SafeConcat
<1> QED  BY Zenon, <1>1, InOrderOK, NeatConcat
-----------------------------------------------------------------------------
(* The work of a thread that runs alone.                                   *)

\* The first step of a sequence, and what is after it.
LEMMA HeadTail ==
  ASSUME NEW q \in Seq(Steps), q # <<>>
  PROVE  /\ Head(q) = q[1] /\ q[1] \in Steps /\ 1 \in DOMAIN q
         /\ Tail(q) \in Seq(Steps) /\ <<>> \o Tail(q) = Tail(q)
         /\ \A i \in DOMAIN Tail(q) : Tail(q)[i] = q[i + 1] /\ i + 1 \in DOMAIN q /\ i \in Nat \ {0}
OBVIOUS

\* What is after a step.
LEMMA TailStack ==
  ASSUME NEW P, NEW M, NEW P2, NEW M2, P2 \subseteq P,
         NEW q \in Seq(Steps), q # <<>>, Stack(q, P, M),
         q[1].op = "delete" => q[1].tx \notin P2
  PROVE  /\ Stack(Tail(q), P2, M2)
         /\ \A i \in DOMAIN Tail(q) : Tail(q)[i].op \notin Busy
<1> DEFINE t == Tail(q)
<1>1. \A i \in DOMAIN t : t[i] = q[i + 1] /\ i + 1 \in DOMAIN q /\ i \in Nat \ {0}
  BY Zenon, HeadTail
<1> HIDE DEF t
<1>2. \A i \in DOMAIN t : t[i].op \notin Busy
  <2>1. \A i \in DOMAIN t : i + 1 # 1
    BY <1>1
  <2> QED  BY Zenon, <1>1, <2>1 DEF Stack, Busy
<1>3. ASSUME NEW i \in DOMAIN t, t[i].op = "unspend" PROVE Gone(t, i, P2)
  <2>1. i \in Nat \ {0} /\ i + 1 \in DOMAIN q /\ t[i] = q[i + 1] /\ (i + 1) - 1 = i
        /\ \A k \in 1..i : k \in DOMAIN q
    BY <1>1
  <2>2. \A k \in 1..(i - 1) : k \in DOMAIN t /\ t[k] = q[k + 1] /\ k + 1 \in 1..i
    <3>1. \A k \in 1..(i - 1) : k \in DOMAIN t
      BY <2>1 DEF t
    <3> QED  BY SMTT(60), <1>1, <2>1, <3>1
  <2>3. Gone(q, i + 1, P)
    BY Zenon, <1>3, <2>1 DEF Stack
  <2>4. CASE After(q, i + 1)
    <3>1. PICK j \in 1..i : /\ q[j].op = "delete" /\ q[j].tx = q[i + 1].tx
                            /\ \A k \in (j + 1)..i : q[k].op \in Removal
      BY Zenon, <2>1, <2>4 DEF After
    <3>2. CASE j = 1
      <4>1. \A k \in 1..(i - 1) : k + 1 \in (j + 1)..i
        BY SMTT(60), <2>1, <3>2
      <4>2. \A k \in 1..(i - 1) : t[k].op \in Removal
        BY Zenon, <2>2, <3>1, <4>1
      <4> QED  BY Zenon, <2>1, <3>1, <3>2, <4>2 DEF Gone
    <3>3. CASE j # 1
      <4>1. j - 1 \in 1..(i - 1) /\ (j - 1) + 1 = j
            /\ \A k \in ((j - 1) + 1)..(i - 1) : k \in 1..(i - 1) /\ k + 1 \in (j + 1)..i
        BY SMTT(60), <2>1, <3>3
      <4>2. t[j - 1].op = "delete" /\ t[j - 1].tx = t[i].tx
            /\ \A k \in ((j - 1) + 1)..(i - 1) : t[k].op \in Removal
        BY Zenon, <2>1, <2>2, <3>1, <4>1
      <4> QED  BY Zenon, <4>1, <4>2 DEF Gone, After
    <3> QED  BY <3>2, <3>3
  <2>5. CASE q[i + 1].tx \notin P /\ \A k \in 1..((i + 1) - 1) : q[k].op \in Removal
    <3>1. \A k \in 1..(i - 1) : t[k].op \in Removal
      BY Zenon, <2>1, <2>2, <2>5
    <3> QED  BY Zenon, <2>1, <2>5, <3>1 DEF Gone
  <2> QED  BY Zenon, <2>3, <2>4, <2>5 DEF Gone
<1>4. t # <<>> => 1 \in DOMAIN t
  BY HeadTail DEF t
<1>5. Stack(t, P2, M2)
  BY Zenon, <1>2, <1>3, <1>4 DEF Stack, Busy
<1> QED  BY Zenon, <1>2, <1>5 DEF t

\* What is after a step that is not one of removeTx is neat.
LEMMA TailSafe ==
  ASSUME NEW P, NEW M, NEW q \in Seq(Steps), q # <<>>, Stack(q, P, M), q[1].op \notin Removal
  PROVE  Tail(q) \in Safe
<1> DEFINE t == Tail(q)
<1>1. t \in Seq(Steps) /\ \A i \in DOMAIN t : t[i] = q[i + 1] /\ i + 1 \in DOMAIN q /\ i \in Nat \ {0}
  BY Zenon, HeadTail
<1>2. \A i \in DOMAIN t : t[i].op \notin Busy
  BY Zenon, TailStack DEF Removal
<1> HIDE DEF t
<1>3. ASSUME NEW i \in DOMAIN t, t[i].op = "unspend" PROVE After(t, i)
  <2>1. i \in Nat \ {0} /\ i + 1 \in DOMAIN q /\ t[i] = q[i + 1] /\ (i + 1) - 1 = i
    BY <1>1
  <2>2. \A k \in 1..(i - 1) : k \in DOMAIN t /\ t[k] = q[k + 1] /\ k + 1 \in 1..i
    <3>1. \A k \in 1..(i - 1) : k \in DOMAIN t
      BY <2>1 DEF t
    <3>2. i \in Nat /\ \A k \in 1..(i - 1) : k + 1 \in 1..i
      BY <2>1
    <3> QED  BY Zenon, <1>1, <3>1, <3>2
  <2>3. After(q, i + 1)
    <3>1. 1 \in 1..i
      BY <2>1
    <3> QED  BY Zenon, <1>3, <2>1, <3>1 DEF Stack, Gone
  <2>4. PICK j \in 1..i : /\ q[j].op = "delete" /\ q[j].tx = q[i + 1].tx
                          /\ \A k \in (j + 1)..i : q[k].op \in Removal
    BY Zenon, <2>1, <2>3 DEF After
  <2>5. j # 1
    BY Zenon, <2>4 DEF Removal
  <2>6. j - 1 \in 1..(i - 1) /\ (j - 1) + 1 = j
        /\ \A k \in ((j - 1) + 1)..(i - 1) : k \in 1..(i - 1) /\ k + 1 \in (j + 1)..i
    <3>1. i \in Nat
      BY Zenon, <2>1
    <3> QED  BY <2>5, <3>1
  <2>7. t[j - 1].op = "delete" /\ t[j - 1].tx = t[i].tx
        /\ \A k \in ((j - 1) + 1)..(i - 1) : t[k].op \in Removal
    BY Zenon, <2>1, <2>2, <2>4, <2>6
  <2> QED  BY Zenon, <2>6, <2>7 DEF After
<1> QED  BY Zenon, <1>1, <1>2, <1>3 DEF Safe, Neat, Busy, t

\* Neat work is work for a thread that runs alone.
LEMMA SafeStack ==
  ASSUME NEW P, NEW M, NEW q \in Safe
  PROVE  Stack(q, P, M) /\ q \in Seq(Steps)
<1>1. q # <<>> => 1 \in DOMAIN q
  BY HeadTail DEF Safe
<1> QED  BY Zenon, <1>1 DEF Safe, Neat, Stack, Gone

\* A step, and then others.
LEMMA Cons ==
  ASSUME NEW f \in Steps, NEW t \in Seq(Steps)
  PROVE  /\ <<f>> \o t \in Seq(Steps) /\ <<f>> \o t # <<>> /\ (<<f>> \o t)[1] = f
         /\ \A i \in DOMAIN (<<f>> \o t) :
              i # 1 => i - 1 \in DOMAIN t /\ (<<f>> \o t)[i] = t[i - 1] /\ i \in Nat \ {0, 1}
OBVIOUS

\* A step of removeTx that comes before others.
LEMMA ConsStack ==
  ASSUME NEW P, NEW M, NEW t \in Seq(Steps), Stack(t, P, M), \A i \in DOMAIN t : t[i].op \notin Busy,
         NEW f \in Steps, f.op \in {"delete", "free"},
         f.op = "free" => f.tx \notin P /\ f.out \in DOMAIN M /\ M[f.out] = f.ds
  PROVE  Stack(<<f>> \o t, P, M)
<1> DEFINE q == <<f>> \o t
<1>1. /\ q # <<>> /\ q[1] = f
      /\ \A i \in DOMAIN q : i # 1 => i - 1 \in DOMAIN t /\ q[i] = t[i - 1] /\ i \in Nat \ {0, 1}
  BY Zenon, Cons
<1>2. \A i \in DOMAIN q : \A k \in 1..(i - 1) : k \in DOMAIN q
  OBVIOUS
<1>3. 1 \in DOMAIN q /\ \A k \in 1..(1 - 1) : FALSE
  OBVIOUS
<1> HIDE DEF q
<1>4. \A i \in DOMAIN q : i # 1 => q[i].op \notin Busy
  BY Zenon, <1>1
<1>5. ASSUME NEW i \in DOMAIN q, i # 1, q[i].op = "unspend" PROVE Gone(q, i, P)
  <2>1. i - 1 \in DOMAIN t /\ q[i] = t[i - 1] /\ i \in Nat \ {0, 1}
    BY Zenon, <1>1, <1>5
  <2>2. Gone(t, i - 1, P)
    BY Zenon, <1>5, <2>1 DEF Stack
  <2>3. \A k \in 1..(i - 1) : k # 1 => k - 1 \in 1..((i - 1) - 1) /\ q[k] = t[k - 1]
    <3>1. \A k \in 1..(i - 1) : k # 1 => k - 1 \in 1..((i - 1) - 1)
      BY <2>1
    <3> QED  BY Zenon, <1>1, <1>2, <3>1
  <2>4. CASE After(t, i - 1)
    <3>1. PICK j \in 1..((i - 1) - 1) :
            /\ t[j].op = "delete" /\ t[j].tx = t[i - 1].tx
            /\ \A k \in (j + 1)..((i - 1) - 1) : t[k].op \in Removal
      BY Zenon, <2>4 DEF After
    <3>2. /\ j + 1 \in 1..(i - 1) /\ j + 1 # 1 /\ (j + 1) - 1 = j
          /\ \A k \in ((j + 1) + 1)..(i - 1) :
               k \in 1..(i - 1) /\ k # 1 /\ k - 1 \in (j + 1)..((i - 1) - 1)
      BY <2>1
    <3>3. /\ q[j + 1].op = "delete" /\ q[j + 1].tx = q[i].tx
          /\ \A k \in ((j + 1) + 1)..(i - 1) : q[k].op \in Removal
      BY Zenon, <2>1, <2>3, <3>1, <3>2
    <3> QED  BY Zenon, <3>2, <3>3 DEF Gone, After
  <2>5. CASE t[i - 1].tx \notin P /\ \A k \in 1..((i - 1) - 1) : t[k].op \in Removal
    <3>1. \A k \in 1..(i - 1) : q[k].op \in Removal
      BY Zenon, <1>1, <2>3, <2>5 DEF Removal
    <3> QED  BY Zenon, <2>1, <2>5, <3>1 DEF Gone
  <2> QED  BY Zenon, <2>2, <2>4, <2>5 DEF Gone
<1>6. q[1].op \in {"unspend", "free"} => Gone(q, 1, P)
  BY Zenon, <1>1, <1>3 DEF Gone
<1>7. Stack(q, P, M)
  BY Zenon, <1>1, <1>4, <1>5, <1>6 DEF Stack, Busy
<1> QED  BY Zenon, <1>7 DEF q

\* maybeAcceptTx goes on, before neat work.
LEMMA EntryStack ==
  ASSUME NEW P, NEW M, NEW t \in Safe,
         NEW f \in Steps, f.op \in {"admit", "send", "store", "spend"},
         f.op # "admit" => Vin[f.tx] \cap DOMAIN M = {}
  PROVE  Stack(<<f>> \o t, P, M)
<1> DEFINE q == <<f>> \o t
<1>1. t \in Seq(Steps) /\ Neat(t)
  BY Zenon DEF Safe
<1>2. /\ q # <<>> /\ q[1] = f
      /\ \A i \in DOMAIN q : i # 1 => i - 1 \in DOMAIN t /\ q[i] = t[i - 1] /\ i \in Nat \ {0, 1}
  BY Zenon, <1>1, Cons
<1>3. \A i \in DOMAIN q : \A k \in 1..(i - 1) : k \in DOMAIN q
  BY <1>1
<1> HIDE DEF q
<1>4. \A i \in DOMAIN q : i # 1 => q[i].op \notin Busy
  BY Zenon, <1>1, <1>2 DEF Neat, Busy
<1>5. ASSUME NEW i \in DOMAIN q, i # 1, q[i].op = "unspend" PROVE After(q, i)
  <2>1. i - 1 \in DOMAIN t /\ q[i] = t[i - 1] /\ i \in Nat \ {0, 1}
    BY Zenon, <1>2, <1>5
  <2>2. PICK j \in 1..((i - 1) - 1) :
          /\ t[j].op = "delete" /\ t[j].tx = t[i - 1].tx
          /\ \A k \in (j + 1)..((i - 1) - 1) : t[k].op \in Removal
    BY Zenon, <1>1, <1>5, <2>1 DEF Neat, After
  <2>3. /\ j + 1 \in 1..(i - 1) /\ j + 1 # 1 /\ (j + 1) - 1 = j
        /\ \A k \in ((j + 1) + 1)..(i - 1) :
             k \in 1..(i - 1) /\ k # 1 /\ k - 1 \in (j + 1)..((i - 1) - 1)
    BY <2>1
  <2>4. /\ q[j + 1].op = "delete" /\ q[j + 1].tx = q[i].tx
        /\ \A k \in ((j + 1) + 1)..(i - 1) : q[k].op \in Removal
    BY ZenonT(60), <1>2, <1>3, <2>1, <2>2, <2>3
  <2> QED  BY Zenon, <2>3, <2>4 DEF After
<1>6. q[1].op \notin {"unspend", "free"}
  BY Zenon, <1>2
<1>7. Stack(q, P, M)
  BY Zenon, <1>2, <1>4, <1>5, <1>6 DEF Stack, Gone, Busy
<1> QED  BY Zenon, <1>7 DEF q
-----------------------------------------------------------------------------
(* Steps preserve the invariant.                                           *)

\* What a step does to the variables that the threads do not share.
Kept == /\ UNCHANGED overlap
        /\ newTxScriptCh' \in Seq(Txs) /\ scripts' \subseteq Txs
        /\ chain' \in Blocks /\ updates' \in Seq([detach : Blocks, attach : Blocks])
        /\ DOMAIN hashToOrphanTx' \subseteq Txs /\ Orphaned'

\* A thread is left with the work new, and no other has work when operations do not
\* overlap.
LEMMA ThreadOK ==
  ASSUME IInv, Kept, NEW th \in Threads, NEW new \in Seq(Steps),
         todo' = [todo EXCEPT ![th] = new],
         DOMAIN hashToTx' \subseteq Txs,
         \A o \in DOMAIN outPointToTx' : outPointToTx'[o] \in Txs,
         ~overlap => \A u \in Threads : u # th => todo[u] = <<>>,
         ~overlap => Stack(new, DOMAIN hashToTx', outPointToTx'),
         ~overlap => \A t \in DOMAIN hashToTx' : Listed(t, outPointToTx') \/ Passing(t, new)
  PROVE  IInv'
<1>1. todo \in [Threads -> Seq(Steps)]
  BY Zenon DEF IInv, Typed
<1>2. /\ todo' \in [Threads -> Seq(Steps)] /\ todo'[th] = new
      /\ \A u \in Threads : u # th => todo'[u] = todo[u]
  BY Zenon, <1>1
<1>3. Typed'
  BY Zenon, <1>2 DEF Typed, Kept
<1>4. ASSUME ~overlap PROVE Alone'
  <2>1. \A u \in Threads : u # th => todo'[u] = <<>>
    BY Zenon, <1>2, <1>4
  <2>2. \A P, M : Stack(<<>>, P, M)
    BY DEF Stack
  <2>3. \A u \in Threads : Stack(todo'[u], DOMAIN hashToTx', outPointToTx')
    BY Zenon, <1>2, <1>4, <2>1, <2>2
  <2>4. \A u, v \in Threads : todo'[u] # <<>> /\ todo'[v] # <<>> => u = v
    BY Zenon, <2>1
  <2>5. \A t \in DOMAIN hashToTx' :
          Listed(t, outPointToTx') \/ \E u \in Threads : Passing(t, todo'[u])
    BY Zenon, <1>2, <1>4
  <2> QED  BY Zenon, <2>3, <2>4, <2>5 DEF Alone
<1> QED  BY Zenon, <1>3, <1>4 DEF IInv, Kept

\* A thread that has work.
LEMMA Running ==
  ASSUME IInv, NEW th \in Threads, todo[th] # <<>>
  PROVE  /\ todo[th] \in Seq(Steps) /\ Tail(todo[th]) \in Seq(Steps)
         /\ <<>> \o Tail(todo[th]) = Tail(todo[th])
         /\ Now(th) = todo[th][1] /\ Now(th) \in Steps
         /\ \A x : Push(th, x) => todo' = [todo EXCEPT ![th] = x \o Tail(todo[th])]
         /\ ~overlap =>
              /\ \A u \in Threads : u # th => todo[u] = <<>>
              /\ Stack(todo[th], DOMAIN hashToTx, outPointToTx)
              /\ \A t \in DOMAIN hashToTx : Listed(t, outPointToTx) \/ Passing(t, todo[th])
<1>1. todo \in [Threads -> Seq(Steps)]
  BY Zenon DEF IInv, Typed
<1>2. todo[th] \in Seq(Steps)
  BY Zenon, <1>1
<1>3. /\ Tail(todo[th]) \in Seq(Steps) /\ <<>> \o Tail(todo[th]) = Tail(todo[th])
      /\ Now(th) = todo[th][1] /\ Now(th) \in Steps
  BY Zenon, <1>2, HeadTail DEF Now
<1>4. \A x : Push(th, x) => todo' = [todo EXCEPT ![th] = x \o Tail(todo[th])]
  BY Zenon DEF Push
<1>5. ASSUME ~overlap
      PROVE  /\ \A u \in Threads : u # th => todo[u] = <<>>
             /\ Stack(todo[th], DOMAIN hashToTx, outPointToTx)
             /\ \A t \in DOMAIN hashToTx : Listed(t, outPointToTx) \/ Passing(t, todo[th])
  <2>1. Alone
    BY Zenon, <1>5 DEF IInv
  <2>2. \A u \in Threads : u # th => todo[u] = <<>>
    BY Zenon, <2>1 DEF Alone
  <2>3. \A u \in Threads : \A t : Passing(t, todo[u]) => u = th
    BY Zenon, <2>2 DEF Passing
  <2> QED  BY Zenon, <2>1, <2>2, <2>3 DEF Alone
<1> QED  BY Zenon, <1>2, <1>3, <1>4, <1>5

\* A step that leaves the pool alone.
LEMMA QuietOK ==
  ASSUME IInv, Kept, NEW th \in Threads, todo[th] # <<>>,
         Now(th).op \notin {"delete", "unspend", "free", "spend"},
         NEW x \in Safe, Push(th, x), DOMAIN hashToTx' = DOMAIN hashToTx, UNCHANGED outPointToTx
  PROVE  IInv'
<1> DEFINE new == x \o Tail(todo[th])
<1>1. x \in Seq(Steps) /\ Tail(todo[th]) \in Seq(Steps)
  BY Zenon, Running DEF Safe
<1>2. new \in Seq(Steps)
  BY <1>1
<1>3. ASSUME ~overlap
      PROVE  /\ Stack(new, DOMAIN hashToTx', outPointToTx')
             /\ \A t \in DOMAIN hashToTx' : Listed(t, outPointToTx') \/ Passing(t, new)
  <2>1. Tail(todo[th]) \in Safe
    BY Zenon, <1>3, Running, TailSafe DEF Removal
  <2>2. new \in Safe
    BY Zenon, <2>1, NeatConcat
  <2>3. \A t : ~Passing(t, todo[th])
    BY Zenon, Running DEF Passing
  <2> HIDE DEF new
  <2> QED  BY Zenon, <1>3, <2>2, <2>3, Running, SafeStack
<1>4. /\ todo' = [todo EXCEPT ![th] = new]
      /\ ~overlap => \A u \in Threads : u # th => todo[u] = <<>>
  BY Zenon, Running
<1>5. DOMAIN hashToTx' \subseteq Txs /\ \A o \in DOMAIN outPointToTx' : outPointToTx'[o] \in Txs
  BY Zenon DEF IInv, Typed
<1> HIDE DEF new
<1> QED  BY Zenon, <1>2, <1>3, <1>4, <1>5, ThreadOK

\* A thread starts.
LEMMA StartOK ==
  ASSUME IInv, Kept, NEW th, Idle(th), NEW x \in Safe, Start(th, x),
         DOMAIN hashToTx' = DOMAIN hashToTx, UNCHANGED outPointToTx
  PROVE  IInv'
<1>1. th \in Threads /\ todo' = [todo EXCEPT ![th] = x] /\ x \in Seq(Steps)
  BY Zenon DEF Idle, Start, Safe
<1>2. ASSUME ~overlap
      PROVE  /\ \A u \in Threads : todo[u] = <<>>
             /\ Stack(x, DOMAIN hashToTx', outPointToTx')
             /\ \A t \in DOMAIN hashToTx' : Listed(t, outPointToTx')
  <2>1. \A u \in Threads : todo[u] = <<>>
    BY Zenon, <1>2 DEF Idle, MayStart
  <2>2. Alone
    BY Zenon, <1>2 DEF IInv
  <2>3. \A t \in DOMAIN hashToTx : Listed(t, outPointToTx)
    BY Zenon, <2>1, <2>2 DEF Alone, Passing
  <2> QED  BY ZenonT(60), <2>1, <2>3, SafeStack
<1>3. DOMAIN hashToTx' \subseteq Txs /\ \A o \in DOMAIN outPointToTx' : outPointToTx'[o] \in Txs
  BY Zenon DEF IInv, Typed
<1> QED  BY Zenon, <1>1, <1>2, <1>3, ThreadOK

\* No thread moves.
LEMMA RestOK ==
  ASSUME IInv, Kept, UNCHANGED <<todo, outPointToTx>>, DOMAIN hashToTx' = DOMAIN hashToTx
  PROVE  IInv'
<1>1. todo' = todo /\ outPointToTx' = outPointToTx /\ overlap' = overlap
  BY Zenon DEF Kept
<1>2. Typed'
  BY Zenon, <1>1 DEF IInv, Typed, Kept
<1>3. ~overlap => Alone'
  BY Zenon, <1>1 DEF IInv, Alone
<1>4. Orphaned' /\ overlap' = overlap
  BY Zenon DEF Kept
<1> QED  BY Zenon, <1>2, <1>3, <1>4 DEF IInv

\* A step that leaves these variables alone keeps what is said of them.
LEMMA SameKept ==
  ASSUME IInv, UNCHANGED <<orphans, overlap, newTxScriptCh, scripts, chain, updates>>
  PROVE  Kept
<1>1. /\ hashToOrphanTx' = hashToOrphanTx /\ outPointToOrphan' = outPointToOrphan
      /\ overlap' = overlap /\ newTxScriptCh' = newTxScriptCh /\ scripts' = scripts
      /\ chain' = chain /\ updates' = updates
  BY Zenon DEF orphans
<1> QED  BY Zenon, <1>1 DEF Kept, IInv, Typed, Orphaned

\* addOrphan keeps the outpoints of the orphans right.
LEMMA StoreKept ==
  ASSUME IInv, NEW t \in Txs, StoreOrphan(t), UNCHANGED <<queues, env, overlap>>
  PROVE  Kept
<1>1. overlap' = overlap /\ newTxScriptCh' = newTxScriptCh /\ scripts' = scripts
      /\ chain' = chain /\ updates' = updates
  BY Zenon DEF queues, env
<1>2. DOMAIN hashToOrphanTx' = DOMAIN hashToOrphanTx \cup {t}
  BY Zenon DEF StoreOrphan, With
<1>3. ASSUME NEW o \in DOMAIN outPointToOrphan', NEW u \in outPointToOrphan'[o]
      PROVE  u \in DOMAIN hashToOrphanTx' /\ o \in Vin[u]
  <2>1. CASE o \in DOMAIN outPointToOrphan
    <3>1. outPointToOrphan'[o] = outPointToOrphan[o]
      BY Zenon, <1>3, <2>1 DEF StoreOrphan
    <3> QED  BY Zenon, <1>2, <1>3, <2>1, <3>1 DEF IInv, Orphaned
  <2>2. CASE o \notin DOMAIN outPointToOrphan
    <3>1. outPointToOrphan'[o] = {t} /\ o \in Vin[t]
      BY Zenon, <1>3, <2>2 DEF StoreOrphan
    <3> QED  BY Zenon, <1>2, <1>3, <3>1
  <2> QED  BY Zenon, <2>1, <2>2
<1>4. DOMAIN hashToOrphanTx' \subseteq Txs
  BY Zenon, <1>2 DEF IInv, Typed
<1> QED  BY Zenon, <1>1, <1>3, <1>4 DEF Kept, IInv, Typed, Orphaned

\* removeOrphan keeps the outpoints of the orphans right.
LEMMA DropKept ==
  ASSUME IInv, NEW S, DropOrphans(S), UNCHANGED <<queues, env, overlap>>
  PROVE  Kept
<1>1. overlap' = overlap /\ newTxScriptCh' = newTxScriptCh /\ scripts' = scripts
      /\ chain' = chain /\ updates' = updates
  BY Zenon DEF queues, env
<1>2. DOMAIN hashToOrphanTx' = DOMAIN hashToOrphanTx \ S
  BY Zenon DEF DropOrphans, Without
<1> DEFINE left == [o \in DOMAIN outPointToOrphan |-> outPointToOrphan[o] \ {t \in S : o \in Vin[t]}]
           gone == {o \in DOMAIN left : left[o] = {}}
<1>3. outPointToOrphan' = [o \in DOMAIN left \ gone |-> left[o]]
  BY Zenon DEF DropOrphans, Without
<1>4. ASSUME NEW o \in DOMAIN outPointToOrphan', NEW u \in outPointToOrphan'[o]
      PROVE  u \in DOMAIN hashToOrphanTx' /\ o \in Vin[u]
  <2>1. o \in DOMAIN outPointToOrphan /\ outPointToOrphan'[o] = left[o]
    <3>1. DOMAIN left = DOMAIN outPointToOrphan
      BY Zenon
    <3> HIDE DEF left
    <3> QED  BY Zenon, <1>3, <1>4, <3>1
  <2>2. u \in outPointToOrphan[o] /\ ~(u \in S /\ o \in Vin[u])
    BY Zenon, <1>4, <2>1
  <2> QED  BY Zenon, <1>2, <2>1, <2>2 DEF IInv, Orphaned
<1>5. DOMAIN hashToOrphanTx' \subseteq Txs
  BY Zenon, <1>2 DEF IInv, Typed
<1> QED  BY Zenon, <1>1, <1>4, <1>5 DEF Kept, IInv, Typed, Orphaned

\* maybeAcceptTx goes on to its next step.
LEMMA EnterOK ==
  ASSUME IInv, Kept, NEW th \in Threads, todo[th] # <<>>,
         Now(th).op \in {"accept", "admit", "send", "store"},
         NEW name \in {"admit", "send", "store", "spend"},
         Push(th, <<[Now(th) EXCEPT !.op = name]>>), UNCHANGED outPointToTx,
         \/ DOMAIN hashToTx' = DOMAIN hashToTx
         \/ name = "spend" /\ DOMAIN hashToTx' = DOMAIN hashToTx \cup {Now(th).tx},
         ~overlap /\ name # "admit" => Vin[Now(th).tx] \cap DOMAIN outPointToTx = {}
  PROVE  IInv'
<1> DEFINE s == Now(th)
           f == [s EXCEPT !.op = name]
           new == <<f>> \o Tail(todo[th])
<1>1. s \in Steps /\ s.op \in Entering
  BY Zenon, Running DEF Entering
<1>2. s \in EnterStep
  BY Zenon, <1>1, StepFields
<1>3. f \in Steps /\ f.op = name /\ f.tx = s.tx /\ s.tx \in Txs
  BY <1>2 DEF EnterStep, Steps, Entering
<1>4. todo' = [todo EXCEPT ![th] = new] /\ (~overlap => \A u \in Threads : u # th => todo[u] = <<>>)
  BY Zenon, Running
<1> HIDE DEF f
<1>5. new \in Seq(Steps) /\ new # <<>> /\ new[1] = f
  BY ZenonT(30), <1>3, Running, Cons
<1>6. ~overlap => Tail(todo[th]) \in Safe
  BY Zenon, Running, TailSafe DEF Removal
<1>7. ~overlap => Stack(new, DOMAIN hashToTx', outPointToTx')
  BY Zenon, <1>3, <1>6, EntryStack
<1> HIDE DEF new
<1>8. \A t : ~Passing(t, todo[th])
  BY Zenon, Running DEF Passing
<1>9. ~overlap => \A t \in DOMAIN hashToTx' : Listed(t, outPointToTx') \/ Passing(t, new)
  BY Zenon, <1>3, <1>5, <1>8, Running DEF Passing
<1>10. DOMAIN hashToTx' \subseteq Txs /\ \A o \in DOMAIN outPointToTx' : outPointToTx'[o] \in Txs
  BY Zenon, <1>3 DEF IInv, Typed
<1> QED  BY Zenon, <1>4, <1>5, <1>7, <1>9, <1>10, ThreadOK

\* maybeAcceptTx.
LEMMA AcceptStepOK ==
  ASSUME IInv, NEW th \in Threads, MaybeAcceptTx(th)
  PROVE  IInv'
<1> DEFINE s == Now(th)
<1>1. todo[th] # <<>> /\ s.op = "accept" /\ s \in Steps
  BY Zenon, Running DEF MaybeAcceptTx, Runs, Now
<1>2. s \in EnterStep
  BY Zenon, <1>1, StepFields DEF Entering
<1>3. s.tx \in Txs /\ s.else \in Seq(Light)
  BY <1>2 DEF EnterStep
<1>4. s.else \in Safe
  BY Zenon, <1>3, NeatLight
<1>5. outPointToTx' = outPointToTx /\ hashToTx' = hashToTx /\ UNCHANGED <<queues, env, overlap>>
  BY Zenon DEF MaybeAcceptTx, pool, bounds
<1>6. UNCHANGED <<overlap, newTxScriptCh, scripts, chain, updates>>
  BY Zenon, <1>5 DEF queues, env
<1>7. CASE Push(th, s.else) /\ UNCHANGED orphans
  <2>1. Kept
    BY Zenon, <1>6, <1>7, SameKept
  <2> QED  BY Zenon, <1>1, <1>4, <1>5, <1>7, <2>1, QuietOK
<1>8. CASE StoreOrphan(s.tx) /\ Push(th, s.else)
  <2>1. Kept
    BY Zenon, <1>3, <1>5, <1>8, StoreKept
  <2> QED  BY Zenon, <1>1, <1>4, <1>5, <1>8, <2>1, QuietOK
<1>9. CASE Push(th, <<[s EXCEPT !.op = "admit"]>>) /\ UNCHANGED orphans
  <2>1. Kept
    BY Zenon, <1>6, <1>9, SameKept
  <2> QED  BY Zenon, <1>1, <1>5, <1>9, <2>1, EnterOK
<1> QED  BY Zenon, <1>7, <1>8, <1>9 DEF MaybeAcceptTx

\* CheckGasAndNonce and checkDoubleSpend.
LEMMA AdmitOK ==
  ASSUME IInv, NEW th \in Threads, Admit(th)
  PROVE  IInv'
<1> DEFINE s == Now(th)
<1>1. todo[th] # <<>> /\ s.op = "admit" /\ s \in Steps
  BY Zenon, Running DEF Admit, Runs, Now
<1>2. s \in EnterStep
  BY Zenon, <1>1, StepFields DEF Entering
<1>3. s.else \in Seq(Light)
  BY <1>2 DEF EnterStep
<1>4. s.else \in Safe
  BY Zenon, <1>3, NeatLight
<1>5. outPointToTx' = outPointToTx /\ hashToTx' = hashToTx
      /\ UNCHANGED <<orphans, overlap, newTxScriptCh, scripts, chain, updates>>
  BY Zenon DEF Admit, pool, queues, env, bounds
<1>6. Kept
  BY Zenon, <1>5, SameKept
<1>7. CASE Push(th, s.else)
  BY Zenon, <1>1, <1>4, <1>5, <1>6, <1>7, QuietOK
<1>8. CASE ~DoubleSpends(s.tx) /\ Push(th, <<[s EXCEPT !.op = "send"]>>)
  BY Zenon, <1>1, <1>5, <1>6, <1>8, EnterOK DEF DoubleSpends
<1> QED  BY Zenon, <1>7, <1>8 DEF Admit

\* No outpoint is taken between checkDoubleSpend and addTx.
LEMMA StillFree ==
  ASSUME IInv, NEW th \in Threads, todo[th] # <<>>, Now(th).op \in {"send", "store", "spend"}, ~overlap
  PROVE  Vin[Now(th).tx] \cap DOMAIN outPointToTx = {}
BY Zenon, Running DEF Stack

\* The script is sent to be checked.
LEMMA SendOK ==
  ASSUME IInv, NEW th \in Threads, SendScript(th)
  PROVE  IInv'
<1> DEFINE s == Now(th)
<1>1. todo[th] # <<>> /\ s.op = "send" /\ s \in Steps
  BY Zenon, Running DEF SendScript, Runs, Now
<1>2. s \in EnterStep
  BY Zenon, <1>1, StepFields DEF Entering
<1>3. s.tx \in Txs
  BY <1>2 DEF EnterStep
<1>4. outPointToTx' = outPointToTx /\ hashToTx' = hashToTx
      /\ UNCHANGED <<orphans, overlap, scripts, chain, updates>>
  BY Zenon DEF SendScript, pool, env, bounds
<1>5. newTxScriptCh \in Seq(Txs) /\ newTxScriptCh' = Append(newTxScriptCh, s.tx)
  BY Zenon DEF SendScript, IInv, Typed
<1>6. newTxScriptCh' \in Seq(Txs)
  BY <1>3, <1>5
<1>7. /\ hashToOrphanTx' = hashToOrphanTx /\ outPointToOrphan' = outPointToOrphan
      /\ overlap' = overlap /\ scripts' = scripts /\ chain' = chain /\ updates' = updates
  BY Zenon, <1>4 DEF orphans
<1>8. Kept
  BY Zenon, <1>6, <1>7 DEF Kept, IInv, Typed, Orphaned
<1>9. Push(th, <<[s EXCEPT !.op = "store"]>>)
  BY Zenon DEF SendScript
<1> QED  BY Zenon, <1>1, <1>4, <1>8, <1>9, StillFree, EnterOK

\* addTx.
LEMMA StoreOK ==
  ASSUME IInv, NEW th \in Threads, StoreTx(th)
  PROVE  IInv'
<1> DEFINE s == Now(th)
<1>1. todo[th] # <<>> /\ s.op = "store"
  BY Zenon DEF StoreTx, Runs, Now
<1>2. outPointToTx' = outPointToTx
      /\ UNCHANGED <<orphans, overlap, newTxScriptCh, scripts, chain, updates>>
  BY Zenon DEF StoreTx, queues, env, bounds
<1>3. Kept
  BY Zenon, <1>2, SameKept
<1>4. DOMAIN hashToTx' = DOMAIN hashToTx \cup {s.tx} /\ Push(th, <<[s EXCEPT !.op = "spend"]>>)
  BY Zenon DEF StoreTx, With
<1> QED  BY Zenon, <1>1, <1>2, <1>3, <1>4, StillFree, EnterOK

\* addTx lists the outpoints: they were free, so no other transaction loses one.
LEMMA SpendOK ==
  ASSUME IInv, NEW th \in Threads, SpendOutPoints(th)
  PROVE  IInv'
<1> DEFINE s == Now(th)
           new == s.then \o Tail(todo[th])
<1>1. todo[th] # <<>> /\ s.op = "spend" /\ s \in Steps /\ s = todo[th][1]
  BY Zenon, Running DEF SpendOutPoints, Runs, Now
<1>2. s \in EnterStep
  BY Zenon, <1>1, StepFields DEF Entering
<1>3. s.tx \in Txs /\ s.then \in Seq(Light)
  BY <1>2 DEF EnterStep
<1>4. s.then \in Safe /\ s.then \in Seq(Steps)
  BY Zenon, <1>3, NeatLight DEF Safe
<1>5. hashToTx' = hashToTx /\ UNCHANGED <<orphans, overlap, newTxScriptCh, scripts, chain, updates>>
  BY Zenon DEF SpendOutPoints, queues, env, bounds
<1>6. Kept
  BY Zenon, <1>5, SameKept
<1>7. /\ DOMAIN outPointToTx' = DOMAIN outPointToTx \cup Vin[s.tx]
      /\ \A o \in Vin[s.tx] : outPointToTx'[o] = s.tx
      /\ \A o \in DOMAIN outPointToTx \ Vin[s.tx] : outPointToTx'[o] = outPointToTx[o]
      /\ Push(th, s.then)
  BY Zenon DEF SpendOutPoints
<1>8. new \in Seq(Steps)
  BY <1>1, <1>4, Running
<1>9. /\ todo' = [todo EXCEPT ![th] = new]
      /\ ~overlap => \A u \in Threads : u # th => todo[u] = <<>>
  BY Zenon, <1>1, <1>7, Running
<1>10. ASSUME ~overlap
       PROVE  /\ Stack(new, DOMAIN hashToTx', outPointToTx')
              /\ \A t \in DOMAIN hashToTx' : Listed(t, outPointToTx')
  <2>1. new \in Safe
    <3>1. Tail(todo[th]) \in Safe
      BY Zenon, <1>1, <1>10, Running, TailSafe DEF Removal
    <3> QED  BY Zenon, <1>4, <3>1, NeatConcat
  <2> HIDE DEF new
  <2>2. Vin[s.tx] \cap DOMAIN outPointToTx = {}
    BY Zenon, <1>1, <1>10, StillFree
  <2>3. ASSUME NEW t \in DOMAIN hashToTx PROVE Listed(t, outPointToTx')
    <3>1. CASE t = s.tx
      BY Zenon, <1>7, <3>1 DEF Listed
    <3>2. CASE Listed(t, outPointToTx)
      <4>1. \A o \in DOMAIN outPointToTx : o \in DOMAIN outPointToTx' /\ outPointToTx'[o] = outPointToTx[o]
        BY <1>7, <2>2
      <4> QED  BY Zenon, <3>2, <4>1 DEF Listed
    <3> QED  BY Zenon, <1>1, <1>10, <3>1, <3>2, Running DEF Passing
  <2> QED  BY Zenon, <1>5, <2>1, <2>3, SafeStack
<1> HIDE DEF new
<1>11. DOMAIN hashToTx' \subseteq Txs /\ \A o \in DOMAIN outPointToTx' : outPointToTx'[o] \in Txs
  BY Zenon, <1>3, <1>5, <1>7 DEF IInv, Typed
<1> QED  BY Zenon, <1>6, <1>8, <1>9, <1>10, <1>11, ThreadOK

\* processOrphans.
LEMMA ProcessOrphansOK ==
  ASSUME IInv, NEW th \in Threads, ProcessOrphans(th)
  PROVE  IInv'
<1> DEFINE s == Now(th)
           out == Head(s.outs)
           rest == Tail(s.outs)
           found == IF out \in DOMAIN outPointToOrphan THEN outPointToOrphan[out] ELSE {}
           then(o) == <<On("unorphan", o)>> \o OrphanSteps(Append(s.accepted, o), rest \o Outs(o))
<1>1. todo[th] # <<>> /\ s.op = "orphans" /\ s \in Steps
  BY Zenon, Running DEF ProcessOrphans, Runs, Now
<1>2. outPointToTx' = outPointToTx /\ hashToTx' = hashToTx
      /\ UNCHANGED <<orphans, overlap, newTxScriptCh, scripts, chain, updates>>
  BY Zenon DEF ProcessOrphans, pool, queues, env, bounds
<1>3. Kept
  BY Zenon, <1>2, SameKept
<1>4. s.accepted \in Seq(Txs) /\ s.outs \in Seq(OutPoint) \ {<<>>}
  BY Zenon, <1>1, StepFields
<1>5. rest \in Seq(OutPoint)
  BY <1>4
<1>6. OrphanSteps(s.accepted, rest) \in Seq(Light) /\ OrphanSteps(s.accepted, rest) \in Safe
  BY Zenon, <1>4, <1>5, OrphanStepsOK, NeatLight
<1>7. CASE Push(th, OrphanSteps(s.accepted, rest))
  BY Zenon, <1>1, <1>2, <1>3, <1>6, <1>7, QuietOK
<1>8. ASSUME NEW o \in found,
             Push(th, <<AcceptStep(o, FALSE, then(o), OrphanSteps(s.accepted, rest))>>)
      PROVE  IInv'
  <2>1. o \in Txs
    BY Zenon, <1>8 DEF IInv, Orphaned, Typed
  <2>2. Append(s.accepted, o) \in Seq(Txs) /\ rest \o Outs(o) \in Seq(OutPoint)
    BY <1>4, <1>5, <2>1, OutsOK
  <2> DEFINE next == OrphanSteps(Append(s.accepted, o), rest \o Outs(o))
             first == On("unorphan", o)
  <2>3. next \in Seq(Light) /\ first \in Light
    BY Zenon, <2>1, <2>2, OrphanStepsOK, LightOn
  <2> HIDE DEF next, first
  <2>4. <<first>> \o next \in Seq(Light)
    BY <2>3
  <2>5. then(o) \in Seq(Light)
    BY Zenon, <2>4 DEF next, first
  <2> HIDE DEF then
  <2>6. <<AcceptStep(o, FALSE, then(o), OrphanSteps(s.accepted, rest))>> \in Safe
    BY Zenon, <1>6, <2>1, <2>5, AcceptOK
  <2> QED  BY Zenon, <1>1, <1>2, <1>3, <1>8, <2>6, QuietOK
<1> QED  BY Zenon, <1>7, <1>8 DEF ProcessOrphans

\* removeOrphan, removeDoubleSpendOrphans and addOrphan.
LEMMA OrphanOK ==
  ASSUME IInv, NEW th \in Threads,
         RemoveOrphan(th) \/ RemoveDoubleSpendOrphans(th) \/ AddOrphan(th)
  PROVE  IInv'
<1> DEFINE s == Now(th)
<1>1. /\ todo[th] # <<>> /\ s.op \in {"unorphan", "conflicts", "orphan"} /\ Push(th, <<>>)
      /\ UNCHANGED <<pool, queues, env, bounds>>
  BY Zenon DEF RemoveOrphan, RemoveDoubleSpendOrphans, AddOrphan, Runs, Now
<1>2. s \in Steps
  BY Zenon, <1>1, Running
<1>3. s.tx \in Txs
  BY Zenon, <1>1, <1>2, StepFields DEF OnTx
<1>4. outPointToTx' = outPointToTx /\ hashToTx' = hashToTx /\ UNCHANGED <<queues, env, overlap>>
  BY Zenon, <1>1 DEF pool, bounds
<1>5. StoreOrphan(s.tx) \/ \E S : DropOrphans(S)
  BY Zenon DEF RemoveOrphan, RemoveDoubleSpendOrphans, AddOrphan
<1>6. Kept
  BY Zenon, <1>3, <1>4, <1>5, StoreKept, DropKept
<1> QED  BY Zenon, <1>1, <1>4, <1>6, NeatNone, QuietOK

\* removeTx: out of the pool.
LEMMA DeleteOK ==
  ASSUME IInv, NEW th \in Threads, DeleteTx(th)
  PROVE  IInv'
<1> DEFINE s == Now(th)
<1>1. todo[th] # <<>> /\ s.op = "delete" /\ s = todo[th][1] /\ Push(th, <<>>)
  BY Zenon, Running DEF DeleteTx, Runs, Now
<1>2. outPointToTx' = outPointToTx
      /\ UNCHANGED <<orphans, overlap, newTxScriptCh, scripts, chain, updates>>
  BY Zenon DEF DeleteTx, queues, env, bounds
<1>3. Kept
  BY Zenon, <1>2, SameKept
<1>4. DOMAIN hashToTx' = DOMAIN hashToTx \ {s.tx}
  BY Zenon DEF DeleteTx, Without
<1>5. /\ Tail(todo[th]) \in Seq(Steps)
      /\ todo' = [todo EXCEPT ![th] = Tail(todo[th])]
      /\ ~overlap => \A u \in Threads : u # th => todo[u] = <<>>
  <2>1. <<>> \o Tail(todo[th]) = Tail(todo[th]) /\ Tail(todo[th]) \in Seq(Steps)
    BY Zenon, <1>1, Running
  <2>2. todo' = [todo EXCEPT ![th] = <<>> \o Tail(todo[th])]
    BY Zenon, <1>1, Running
  <2>3. todo' = [todo EXCEPT ![th] = Tail(todo[th])]
    BY Zenon, <2>1, <2>2
  <2> QED  BY Zenon, <1>1, <2>1, <2>3, Running
<1>6. ASSUME ~overlap
      PROVE  /\ Stack(Tail(todo[th]), DOMAIN hashToTx', outPointToTx')
             /\ \A t \in DOMAIN hashToTx' : Listed(t, outPointToTx')
  <2>1. Stack(Tail(todo[th]), DOMAIN hashToTx', outPointToTx')
    <3>1. DOMAIN hashToTx' \subseteq DOMAIN hashToTx /\ s.tx \notin DOMAIN hashToTx'
      BY Zenon, <1>4
    <3> QED  BY Zenon, <1>1, <1>6, <3>1, Running, TailStack
  <2>2. \A t \in DOMAIN hashToTx' : Listed(t, outPointToTx')
    BY Zenon, <1>1, <1>2, <1>4, <1>6, Running DEF Passing
  <2> QED  BY Zenon, <2>1, <2>2
<1>7. DOMAIN hashToTx' \subseteq Txs /\ \A o \in DOMAIN outPointToTx' : outPointToTx'[o] \in Txs
  BY Zenon, <1>2, <1>4 DEF IInv, Typed
<1> QED  BY Zenon, <1>3, <1>5, <1>6, <1>7, ThreadOK

\* removeTx: an outpoint is looked up. When it is listed, the transaction is not in
\* the pool any more, and what is after the step may follow any step of removeTx.
LEMMA UnspendOK ==
  ASSUME IInv, NEW th \in Threads, Unspend(th)
  PROVE  IInv'
<1> DEFINE s == Now(th)
           f == [op |-> "free", tx |-> s.tx, out |-> s.out, ds |-> outPointToTx[s.out]]
           new == IF s.out \in DOMAIN outPointToTx THEN <<f>> \o Tail(todo[th]) ELSE Tail(todo[th])
<1>1. todo[th] # <<>> /\ s.op = "unspend" /\ s \in Steps /\ s = todo[th][1]
  BY Zenon, Running DEF Unspend, Runs, Now
<1>2. hashToTx' = hashToTx /\ outPointToTx' = outPointToTx
      /\ UNCHANGED <<orphans, overlap, newTxScriptCh, scripts, chain, updates>>
  BY Zenon DEF Unspend, pool, queues, env, bounds
<1>3. Kept
  BY Zenon, <1>2, SameKept
<1>4. s.tx \in Txs /\ s.out \in OutPoint
  BY Zenon, <1>1, StepFields
<1>5. s.out \in DOMAIN outPointToTx => outPointToTx[s.out] \in Txs
  BY Zenon DEF IInv, Typed
<1>6. /\ s.out \in DOMAIN outPointToTx => f \in Steps
      /\ f.op = "free" /\ f.tx = s.tx /\ f.out = s.out /\ f.ds = outPointToTx[s.out]
  BY <1>4, <1>5 DEF Steps
<1>7. todo' = [todo EXCEPT ![th] = new]
  <2>1. <<>> \o Tail(todo[th]) = Tail(todo[th])
    BY Zenon, <1>1, Running
  <2>2. Push(th, IF s.out \in DOMAIN outPointToTx THEN <<f>> ELSE <<>>)
    BY Zenon DEF Unspend
  <2> HIDE DEF f
  <2>3. todo' = [todo EXCEPT ![th] =
                   (IF s.out \in DOMAIN outPointToTx THEN <<f>> ELSE <<>>) \o Tail(todo[th])]
    BY Zenon, <1>1, <2>2, Running
  <2> QED  BY Zenon, <2>1, <2>3
<1> HIDE DEF f
<1>8. new \in Seq(Steps)
  BY Zenon, <1>1, <1>6, Running, Cons
<1>9. ASSUME ~overlap
      PROVE  /\ Stack(new, DOMAIN hashToTx', outPointToTx')
             /\ \A t \in DOMAIN hashToTx' : Listed(t, outPointToTx')
  <2>1. /\ Tail(todo[th]) \in Seq(Steps) /\ Stack(Tail(todo[th]), DOMAIN hashToTx, outPointToTx)
        /\ \A i \in DOMAIN Tail(todo[th]) : Tail(todo[th])[i].op \notin Busy
    BY Zenon, <1>1, <1>9, Running, TailStack
  <2>2. s.tx \notin DOMAIN hashToTx
    <3>1. 1 \in DOMAIN todo[th] /\ \A j \in 1..(1 - 1) : FALSE
      BY <1>1, Running
    <3>2. Gone(todo[th], 1, DOMAIN hashToTx)
      BY ZenonT(60), <1>1, <1>9, <3>1, Running DEF Stack
    <3> QED  BY ZenonT(60), <1>1, <3>1, <3>2 DEF Gone, After
  <2>3. Stack(new, DOMAIN hashToTx, outPointToTx)
    BY ZenonT(60), <1>6, <2>1, <2>2, ConsStack
  <2>4. \A t \in DOMAIN hashToTx : Listed(t, outPointToTx)
    BY ZenonT(60), <1>1, <1>9, Running DEF Passing
  <2> HIDE DEF new
  <2> QED  BY Zenon, <1>2, <2>3, <2>4
<1> HIDE DEF new
<1>10. DOMAIN hashToTx' \subseteq Txs /\ \A o \in DOMAIN outPointToTx' : outPointToTx'[o] \in Txs
  BY Zenon, <1>2 DEF IInv, Typed
<1>11. ~overlap => \A u \in Threads : u # th => todo[u] = <<>>
  BY Zenon, <1>1, Running
<1> QED  BY ZenonT(60), <1>3, <1>7, <1>8, <1>9, <1>10, <1>11, ThreadOK

\* removeTx: the outpoint is freed. A transaction of the pool that spends it is the
\* one that is removed next.
LEMMA FreeOK ==
  ASSUME IInv, NEW th \in Threads, FreeOutPoint(th)
  PROVE  IInv'
<1> DEFINE s == Now(th)
           f == On("delete", s.ds)
           new == IF s.ds # s.tx THEN <<f>> \o Tail(todo[th]) ELSE Tail(todo[th])
<1>1. todo[th] # <<>> /\ s.op = "free" /\ s \in Steps /\ s = todo[th][1]
  BY Zenon, Running DEF FreeOutPoint, Runs, Now
<1>2. hashToTx' = hashToTx /\ UNCHANGED <<orphans, overlap, newTxScriptCh, scripts, chain, updates>>
  BY Zenon DEF FreeOutPoint, queues, env, bounds
<1>3. Kept
  BY Zenon, <1>2, SameKept
<1>4. /\ DOMAIN outPointToTx' = DOMAIN outPointToTx \ {s.out}
      /\ \A o \in DOMAIN outPointToTx' : outPointToTx'[o] = outPointToTx[o]
  BY Zenon DEF FreeOutPoint, Without
<1>5. s.ds \in Txs
  BY Zenon, <1>1, StepFields
<1>6. f \in Steps /\ f.op = "delete" /\ f.tx = s.ds
  BY Zenon, <1>5, OnOK DEF OnTx
<1>7. todo' = [todo EXCEPT ![th] = new]
  <2>1. <<>> \o Tail(todo[th]) = Tail(todo[th])
    BY Zenon, <1>1, Running
  <2>2. Push(th, IF s.ds # s.tx THEN <<f>> ELSE <<>>)
    BY Zenon DEF FreeOutPoint
  <2> HIDE DEF f
  <2>3. todo' = [todo EXCEPT ![th] = (IF s.ds # s.tx THEN <<f>> ELSE <<>>) \o Tail(todo[th])]
    BY Zenon, <1>1, <2>2, Running
  <2> QED  BY Zenon, <2>1, <2>3
<1> HIDE DEF f
<1>8. new \in Seq(Steps) /\ (s.ds # s.tx => new # <<>> /\ new[1] = f)
  BY Zenon, <1>1, <1>6, Running, Cons
<1>9. ASSUME ~overlap
      PROVE  /\ Stack(new, DOMAIN hashToTx', outPointToTx')
             /\ \A t \in DOMAIN hashToTx' : Listed(t, outPointToTx') \/ Passing(t, new)
  <2>1. /\ Tail(todo[th]) \in Seq(Steps) /\ Stack(Tail(todo[th]), DOMAIN hashToTx, outPointToTx')
        /\ \A i \in DOMAIN Tail(todo[th]) : Tail(todo[th])[i].op \notin Busy
    BY Zenon, <1>1, <1>9, Running, TailStack
  <2>2. s.tx \notin DOMAIN hashToTx /\ outPointToTx[s.out] = s.ds
    <3>1. 1 \in DOMAIN todo[th] /\ \A j \in 1..(1 - 1) : FALSE
      BY <1>1, Running
    <3>2. Gone(todo[th], 1, DOMAIN hashToTx) /\ outPointToTx[s.out] = s.ds
      BY Zenon, <1>1, <1>9, <3>1, Running DEF Stack
    <3> QED  BY ZenonT(60), <1>1, <3>1, <3>2 DEF Gone, After
  <2>3. Stack(new, DOMAIN hashToTx, outPointToTx')
    BY Zenon, <1>6, <2>1, ConsStack
  <2> HIDE DEF new
  <2>4. ASSUME NEW t \in DOMAIN hashToTx PROVE Listed(t, outPointToTx') \/ Passing(t, new)
    <3>1. Listed(t, outPointToTx)
      BY Zenon, <1>1, <1>9, Running DEF Passing
    <3>2. CASE s.out \in Vin[t]
      <4>1. t = s.ds
        BY Zenon, <2>2, <3>1, <3>2 DEF Listed
      <4> QED  BY Zenon, <1>6, <1>8, <2>2, <4>1 DEF Passing
    <3>3. CASE s.out \notin Vin[t]
      <4>1. \A o \in Vin[t] : o \in DOMAIN outPointToTx'
        BY ZenonT(60), <1>4, <3>1, <3>3 DEF Listed
      <4>2. \A o \in Vin[t] : outPointToTx'[o] = outPointToTx[o]
        BY Zenon, <1>4, <4>1
      <4>3. \A o \in Vin[t] : outPointToTx'[o] = t
        BY Zenon, <3>1, <4>2 DEF Listed
      <4>4. Listed(t, outPointToTx')
        BY Zenon, <4>1, <4>3 DEF Listed
      <4> QED  BY Zenon, <4>4
    <3> QED  BY Zenon, <3>2, <3>3
  <2> QED  BY Zenon, <1>2, <2>3, <2>4
<1> HIDE DEF new
<1>10. DOMAIN hashToTx' \subseteq Txs /\ \A o \in DOMAIN outPointToTx' : outPointToTx'[o] \in Txs
  BY Zenon, <1>2, <1>4 DEF IInv, Typed
<1>11. ~overlap => \A u \in Threads : u # th => todo[u] = <<>>
  BY Zenon, <1>1, Running
<1> QED  BY ZenonT(60), <1>3, <1>7, <1>8, <1>9, <1>10, <1>11, ThreadOK

\* Steps that touch neither the pool nor the orphans, and what they are followed by.
LEMMA PlainOK ==
  ASSUME IInv, NEW th \in Threads, todo[th] # <<>>,
         Now(th).op \notin {"delete", "unspend", "free", "spend"},
         NEW x \in Safe, Push(th, x), UNCHANGED <<pool, orphans, queues, env, bounds>>
  PROVE  IInv'
<1>1. outPointToTx' = outPointToTx /\ hashToTx' = hashToTx
      /\ UNCHANGED <<orphans, overlap, newTxScriptCh, scripts, chain, updates>>
  BY Zenon DEF pool, queues, env, bounds
<1>2. Kept
  BY Zenon, <1>1, SameKept
<1> QED  BY Zenon, <1>1, <1>2, QuietOK

\* removeNonce and the changes of txcache.
LEMMA ListsOK ==
  ASSUME IInv, NEW th \in Threads, RemoveNonce(th) \/ Uncache(th) \/ Cache(th)
  PROVE  IInv'
<1>1. /\ todo[th] # <<>> /\ Now(th).op \in {"unnonce", "uncache", "cache"} /\ Push(th, <<>>)
      /\ UNCHANGED <<pool, orphans, queues, env, bounds>>
  BY Zenon DEF RemoveNonce, Uncache, Cache, Runs, Now
<1> QED  BY Zenon, <1>1, NeatNone, PlainOK

\* removeTx: a child of the transaction goes and becomes an orphan.
LEMMA ChildrenOK ==
  ASSUME IInv, NEW th \in Threads, RemoveChildren(th)
  PROVE  IInv'
<1> DEFINE s == Now(th)
           rest == Tail(s.outs)
           child == outPointToTx[Head(s.outs)]
           x == RemoveTx(child, FALSE) \o <<On("orphan", child)>> \o ChildSteps(rest \o Outs(child))
<1>1. todo[th] # <<>> /\ s.op = "children" /\ s \in Steps
  BY Zenon, Running DEF RemoveChildren, Runs, Now
<1>2. UNCHANGED <<pool, orphans, queues, env, bounds>>
  BY Zenon DEF RemoveChildren
<1>3. s.outs \in Seq(OutPoint) \ {<<>>}
  BY Zenon, <1>1, StepFields
<1>4. rest \in Seq(OutPoint)
  BY <1>3
<1>5. CASE Push(th, ChildSteps(rest))
  BY Zenon, <1>1, <1>2, <1>4, <1>5, ChildStepsOK, PlainOK
<1>6. CASE Head(s.outs) \in DOMAIN outPointToTx /\ Push(th, x)
  <2>1. child \in Txs
    BY Zenon, <1>6 DEF IInv, Typed
  <2>2. rest \o Outs(child) \in Seq(OutPoint)
    BY <1>4, <2>1, OutsOK
  <2>3. On("orphan", child) \in Steps /\ On("orphan", child).op = "orphan"
    BY ZenonT(60), <2>1, OnOK DEF OnTx
  <2>4. <<On("orphan", child)>> \in Safe
    BY Zenon, <2>3, NeatOne DEF Busy
  <2>5. x \in Safe
    BY Zenon, <2>1, <2>2, <2>4, RemoveTxOK, ChildStepsOK, NeatConcat
  <2> HIDE DEF x
  <2> QED  BY Zenon, <1>1, <1>2, <1>6, <2>5, PlainOK
<1> QED  BY Zenon, <1>5, <1>6 DEF RemoveChildren

\* processChainUpdateMsg: what spends an output of a detached transaction goes.
LEMMA ChildOK ==
  ASSUME IInv, NEW th \in Threads, Child(th)
  PROVE  IInv'
<1> DEFINE o == Now(th).out
<1>1. todo[th] # <<>> /\ Now(th).op = "child"
  BY Zenon DEF Child, Runs, Now
<1>2. UNCHANGED <<pool, orphans, queues, env, bounds>>
  BY Zenon DEF Child
<1>3. CASE Push(th, <<>>)
  BY Zenon, <1>1, <1>2, <1>3, NeatNone, PlainOK
<1>4. CASE o \in DOMAIN outPointToTx /\ Push(th, RemoveTx(outPointToTx[o], TRUE))
  <2>1. outPointToTx[o] \in Txs
    BY Zenon, <1>4 DEF IInv, Typed
  <2>2. RemoveTx(outPointToTx[o], TRUE) \in Safe
    BY Zenon, <2>1, RemoveTxOK
  <2> QED  BY Zenon, <1>1, <1>2, <1>4, <2>2, PlainOK
<1> QED  BY Zenon, <1>3, <1>4 DEF Child

\* A transaction arrives.
LEMMA SubmitOK ==
  ASSUME IInv, NEW th, NEW t \in Txs, Submit(th, t)
  PROVE  IInv'
<1>1. Idle(th) /\ Start(th, ProcessTx(t)) /\ UNCHANGED <<pool, orphans, queues, env, overlap>>
  BY Zenon DEF Submit
<1>2. outPointToTx' = outPointToTx /\ hashToTx' = hashToTx
      /\ UNCHANGED <<orphans, overlap, newTxScriptCh, scripts, chain, updates>>
  BY Zenon, <1>1 DEF pool, queues, env
<1>3. Kept
  BY Zenon, <1>2, SameKept
<1> QED  BY Zenon, <1>1, <1>2, <1>3, ProcessTxOK, StartOK

\* processChainUpdateMsg starts on a change of the main chain.
LEMMA UpdateStepOK ==
  ASSUME IInv, ProcessChainUpdateMsg
  PROVE  IInv'
<1> DEFINE m == Head(updates)
           x == Concat([i \in DOMAIN m.detach |-> DetachSteps(m.detach[i])])
                  \o Concat([i \in DOMAIN m.attach |-> AttachSteps(m.attach[i])])
<1>1. Idle("loop") /\ Start("loop", x) /\ updates # <<>> /\ updates' = Tail(updates)
  BY Zenon DEF ProcessChainUpdateMsg
<1>2. updates \in Seq([detach : Blocks, attach : Blocks])
  BY Zenon DEF IInv, Typed
<1>3. m \in [detach : Blocks, attach : Blocks] /\ updates' \in Seq([detach : Blocks, attach : Blocks])
  <2>1. ASSUME NEW S, NEW q \in Seq(S), q # <<>> PROVE Head(q) \in S /\ Tail(q) \in Seq(S)
    BY <2>1
  <2> QED  BY Zenon, <1>1, <1>2, <2>1
<1>4. x \in Safe
  BY Zenon, <1>3, UpdateOK
<1> HIDE DEF x
<1>5. /\ outPointToTx' = outPointToTx /\ hashToTx' = hashToTx
      /\ hashToOrphanTx' = hashToOrphanTx /\ outPointToOrphan' = outPointToOrphan
      /\ overlap' = overlap /\ newTxScriptCh' = newTxScriptCh /\ scripts' = scripts /\ chain' = chain
  BY Zenon DEF ProcessChainUpdateMsg, pool, orphans, queues, bounds
<1>6. Kept
  BY Zenon, <1>3, <1>5 DEF Kept, IInv, Typed, Orphaned
<1> QED  BY Zenon, <1>1, <1>4, <1>5, <1>6, StartOK

\* A goroutine that checks a script is started.
LEMMA StartCheckOK ==
  ASSUME IInv, StartCheck
  PROVE  IInv'
<1>1. newTxScriptCh \in Seq(Txs) /\ newTxScriptCh # <<>> /\ scripts \subseteq Txs
      /\ scripts' = scripts \cup {Head(newTxScriptCh)} /\ newTxScriptCh' = Tail(newTxScriptCh)
  BY Zenon DEF StartCheck, IInv, Typed
<1>2. Head(newTxScriptCh) \in Txs /\ newTxScriptCh' \in Seq(Txs)
  BY <1>1
<1>3. /\ outPointToTx' = outPointToTx /\ hashToTx' = hashToTx /\ todo' = todo
      /\ hashToOrphanTx' = hashToOrphanTx /\ outPointToOrphan' = outPointToOrphan
      /\ overlap' = overlap /\ updates' = updates /\ chain' = chain
  BY Zenon DEF StartCheck, pool, orphans, env, bounds
<1>4. scripts' \subseteq Txs
  BY Zenon, <1>1, <1>2
<1>5. Kept
  BY Zenon, <1>2, <1>3, <1>4 DEF Kept, IInv, Typed, Orphaned
<1> QED  BY Zenon, <1>3, <1>5, RestOK

\* checkTxScript marks the transaction as valid, or starts to remove it.
LEMMA CheckOK ==
  ASSUME IInv, NEW t \in Txs, CheckTxScript(t)
  PROVE  IInv'
<1>1. /\ Idle("check") /\ outPointToTx' = outPointToTx /\ scripts' = scripts \ {t}
      /\ hashToOrphanTx' = hashToOrphanTx /\ outPointToOrphan' = outPointToOrphan
      /\ overlap' = overlap /\ newTxScriptCh' = newTxScriptCh /\ updates' = updates /\ chain' = chain
  BY Zenon DEF CheckTxScript, orphans, env, bounds
<1>2. scripts' \subseteq Txs
  BY Zenon, <1>1 DEF IInv, Typed
<1>3. Kept
  BY Zenon, <1>1, <1>2 DEF Kept, IInv, Typed, Orphaned
<1>4. CASE Start("check", RemoveTx(t, TRUE)) /\ UNCHANGED hashToTx
  BY Zenon, <1>1, <1>3, <1>4, RemoveTxOK, StartOK
<1>5. CASE /\ hashToTx' = IF InPool(t) THEN [hashToTx EXCEPT ![t].valid = TRUE] ELSE hashToTx
           /\ UNCHANGED todo
  <2>1. DOMAIN hashToTx' = DOMAIN hashToTx
    BY Zenon, <1>5
  <2> QED  BY Zenon, <1>1, <1>3, <1>5, <2>1, RestOK
<1> QED  BY Zenon, <1>4, <1>5 DEF CheckTxScript

\* The handler of TopicInvalidTx starts to remove a transaction.
LEMMA InvalidOK ==
  ASSUME IInv, NEW t \in Txs, RemoveInvalidTx(t)
  PROVE  IInv'
<1>1. Idle("bus") /\ Start("bus", RemoveTx(t, TRUE))
  BY Zenon DEF RemoveInvalidTx
<1>2. outPointToTx' = outPointToTx /\ hashToTx' = hashToTx
      /\ UNCHANGED <<orphans, overlap, newTxScriptCh, scripts, chain, updates>>
  BY Zenon DEF RemoveInvalidTx, pool, env, bounds
<1>3. Kept
  BY Zenon, <1>2, SameKept
<1> QED  BY Zenon, <1>1, <1>2, <1>3, RemoveTxOK, StartOK

\* cleanExpiredTxs starts.
LEMMA CleanOK ==
  ASSUME IInv, CleanExpiredTxs
  PROVE  IInv'
<1> DEFINE S == {t \in DOMAIN hashToOrphanTx : hashToOrphanTx[t]}
           R == {t \in DOMAIN hashToTx : hashToTx[t].old}
           x == [i \in DOMAIN InOrder(S) |-> On("unorphan", InOrder(S)[i])]
                  \o Concat([i \in DOMAIN InOrder(R) |-> RemoveTx(InOrder(R)[i], TRUE)])
<1>1. Idle("sweep") /\ Start("sweep", x)
  BY Zenon DEF CleanExpiredTxs
<1>2. x \in Safe
  BY Zenon, SweepOK
<1> HIDE DEF x
<1>3. /\ outPointToTx' = outPointToTx /\ outPointToOrphan' = outPointToOrphan
      /\ overlap' = overlap /\ newTxScriptCh' = newTxScriptCh /\ scripts' = scripts
      /\ updates' = updates /\ chain' = chain
      /\ DOMAIN hashToTx' = DOMAIN hashToTx /\ DOMAIN hashToOrphanTx' = DOMAIN hashToOrphanTx
  BY Zenon DEF CleanExpiredTxs, queues, env, bounds
<1>4. Kept
  BY Zenon, <1>3 DEF Kept, IInv, Typed, Orphaned
<1> QED  BY Zenon, <1>1, <1>2, <1>3, <1>4, StartOK

\* PackTxs.
LEMMA PackOK ==
  ASSUME IInv, PackTxs
  PROVE  IInv'
<1>1. outPointToTx' = outPointToTx /\ hashToTx' = hashToTx /\ todo' = todo
      /\ UNCHANGED <<orphans, overlap, newTxScriptCh, scripts, chain, updates>>
  BY Zenon DEF PackTxs, pool, env, bounds
<1>2. Kept
  BY Zenon, <1>1, SameKept
<1> QED  BY Zenon, <1>1, <1>2, RestOK

\* A block is attached, or replaced by a branch.
LEMMA BlocksOK ==
  ASSUME IInv, NEW S, Attach(S) \/ Reorganize(S)
  PROVE  IInv'
<1>1. chain \in Blocks /\ updates \in Seq([detach : Blocks, attach : Blocks])
  BY Zenon DEF IInv, Typed
<1>2. PICK b : b = InOrder(S)
  BY Zenon
<1>3. b \in Seq(Txs) /\ <<>> \in Seq(Txs)
  BY <1>2, InOrderOK
<1>4. /\ <<b>> \in Blocks /\ <<b, <<>> >> \in Blocks /\ <<>> \in Blocks
      /\ Append(chain, b) \in Blocks /\ SubSeq(chain, 1, Len(chain) - 1) \o <<b, <<>> >> \in Blocks
      /\ chain # <<>> => <<chain[Len(chain)]>> \in Blocks
  BY <1>1, <1>3 DEF Blocks
<1>5. chain' \in Blocks /\ \E d, a \in Blocks : updates' = Append(updates, [detach |-> d, attach |-> a])
  BY Zenon, <1>2, <1>4 DEF Attach, Reorganize, NotifyUpdate
<1>6. PICK m \in [detach : Blocks, attach : Blocks] : updates' = Append(updates, m)
  BY <1>5
<1>7. updates' \in Seq([detach : Blocks, attach : Blocks])
  BY <1>1, <1>6
<1>8. /\ outPointToTx' = outPointToTx /\ hashToTx' = hashToTx /\ todo' = todo
      /\ hashToOrphanTx' = hashToOrphanTx /\ outPointToOrphan' = outPointToOrphan
      /\ overlap' = overlap /\ newTxScriptCh' = newTxScriptCh /\ scripts' = scripts
  BY Zenon DEF Attach, Reorganize, pool, orphans, queues, bounds
<1>9. Kept
  BY Zenon, <1>5, <1>7, <1>8 DEF Kept, IInv, Typed, Orphaned
<1> QED  BY Zenon, <1>8, <1>9, RestOK
-----------------------------------------------------------------------------
(* The theorems.                                                           *)

\* The invariant holds at the start.
LEMMA InitOK ==
  ASSUME Init
  PROVE  IInv
<1>1. /\ hashToTx = <<>> /\ outPointToTx = <<>> /\ hashToOrphanTx = <<>> /\ outPointToOrphan = <<>>
      /\ newTxScriptCh = <<>> /\ scripts = {} /\ chain = <<>> /\ updates = <<>>
      /\ todo = [th \in Threads |-> <<>>]
  BY Zenon DEF Init
<1>2. DOMAIN <<>> = {} /\ \A S : <<>> \in Seq(S)
  OBVIOUS
<1>3. todo \in [Threads -> Seq(Steps)] /\ \A th \in Threads : todo[th] = <<>>
  BY Zenon, <1>1, <1>2
<1>4. Typed
  BY Zenon, <1>1, <1>2, <1>3 DEF Typed, Blocks
<1>5. Orphaned
  BY Zenon, <1>1, <1>2 DEF Orphaned
<1>6. Alone
  <2>1. \A P, M : Stack(<<>>, P, M)
    BY DEF Stack
  <2> QED  BY Zenon, <1>1, <1>2, <1>3, <2>1 DEF Alone
<1> QED  BY Zenon, <1>4, <1>5, <1>6 DEF IInv

\* Every step preserves the invariant.
LEMMA NextOK ==
  ASSUME IInv, [Next]_vars
  PROVE  IInv'
<1>1. ASSUME NEW th \in Threads, Step(th) PROVE IInv'
  BY ZenonT(60), <1>1, AcceptStepOK, AdmitOK, SendOK, StoreOK, SpendOK, ProcessOrphansOK, OrphanOK,
     DeleteOK, UnspendOK, FreeOK, ListsOK, ChildrenOK, ChildOK DEF Step
<1>2. ASSUME NEW th \in Threads, NEW t \in Txs, Submit(th, t) PROVE IInv'
  BY Zenon, <1>2, SubmitOK
<1>3. ASSUME NEW S \in Mined, Attach(S) \/ Reorganize(S) PROVE IInv'
  BY Zenon, <1>3, BlocksOK
<1>4. CASE ProcessChainUpdateMsg \/ StartCheck \/ CleanExpiredTxs \/ PackTxs
  BY ZenonT(60), <1>4, UpdateStepOK, StartCheckOK, CleanOK, PackOK
<1>5. ASSUME NEW t \in Txs, CheckTxScript(t) \/ RemoveInvalidTx(t) PROVE IInv'
  BY Zenon, <1>5, CheckOK, InvalidOK
<1>6. CASE UNCHANGED vars
  <2>1. outPointToTx' = outPointToTx /\ hashToTx' = hashToTx /\ todo' = todo
        /\ UNCHANGED <<orphans, overlap, newTxScriptCh, scripts, chain, updates>>
    BY Zenon, <1>6 DEF vars, pool, queues, env, bounds
  <2>2. Kept
    BY Zenon, <2>1, SameKept
  <2> QED  BY Zenon, <2>1, <2>2, RestOK
<1> QED  BY Zenon, <1>1, <1>2, <1>3, <1>4, <1>5, <1>6 DEF Next

\* The maps of the pool agree with each other (addTx, removeTx, addOrphan,
\* removeOrphan), for any transactions, blocks, threads and bounds.
THEOREM PoolMapsAgree == Spec => []MapsAgree
<1>1. IInv => MapsAgree
  <2> SUFFICES ASSUME IInv PROVE MapsAgree
    OBVIOUS
  <2>1. OrphansKnown
    BY Zenon DEF IInv, Orphaned, OrphansKnown
  <2>2. ASSUME Serial, NEW t \in DOMAIN hashToTx, NEW o \in Vin[t]
        PROVE  o \in DOMAIN outPointToTx /\ outPointToTx[o] = t
    <3>1. Alone /\ \A th \in Threads : todo[th] = <<>>
      BY Zenon, <2>2 DEF IInv, Serial, Quiet
    <3> QED  BY Zenon, <3>1 DEF Alone, Passing, Listed
  <2> QED  BY Zenon, <2>1, <2>2 DEF MapsAgree
<1> QED  BY <1>1, InitOK, NextOK, PTL DEF Spec

\* As long as operations do not overlap, no two transactions of the pool spend the
\* same outpoint (checkDoubleSpend).
THEOREM SerialNoDoubleSpend == Spec => [](~overlap => NoDoubleSpend)
<1>1. MapsAgree => (~overlap => NoDoubleSpend)
  <2> SUFFICES ASSUME MapsAgree, ~overlap, Quiet, NEW t \in DOMAIN hashToTx, NEW u \in DOMAIN hashToTx,
                      NEW o \in Vin[t], o \in Vin[u]
               PROVE  t = u
    BY Zenon DEF NoDoubleSpend
  <2> QED  BY Zenon DEF MapsAgree, Serial
<1> QED  BY <1>1, PoolMapsAgree, PTL
=============================================================================
