------------------------------ MODULE Sections ------------------------------
(***************************************************************************)
(* The index of contract logs: core/chain/sectionmanager.go, the bloom     *)
(* filters it rotates (util/bloom/filter.go), and the change of the        *)
(* eternal block that feeds it (BlockChain.SetEternal), each time in a     *)
(* goroutine of its own. Len heights make a section; a full section is     *)
(* stored, one bit set for each bit of the filters, and a search reads the *)
(* stored sections and scans the blocks above them. A search is two steps: *)
(* it reads the number of sections without the lock of the manager, and    *)
(* once more later.                                                        *)
(*                                                                         *)
(* A filter is the set of its bits. A log is [address, topics]; a query is *)
(* a sequence of sets of words, the first for the address.                 *)
(***************************************************************************)
EXTENDS Integers, Sequences, SequencesExt, FiniteSets, FiniteSetsExt

CONSTANTS
  SectionLen,             \* SectionBloomBitLength
  BloomLen,               \* BloomBitLength
  Bits,                   \* word -> the bits its hashes set (murmur3)
  BlockLogs,              \* the sequences of logs a block may have
  Queries,
  MaxHeight, MaxRestarts, MaxFaults  \* bounds

VARIABLES
  chain,        \* the logs of the blocks of the main chain: chain[h + 1] at height h
  eternal,      \* height of the eternal block
  pending,      \* heights whose goroutine has not run yet
  sm,           \* [blooms, section, height]
  stored,       \* the table: section -> bit -> the bits of heights
  search,       \* the search in progress
  skipped,      \* a height came to the manager before one below it
  restarts,
  faults        \* transactions that could not be begun or committed

vars == <<chain, eternal, pending, sm, stored, search, skipped, restarts, faults>>

TailHeight == Len(chain) - 1
LoadBlockByHeight(h) == chain[h + 1]

------------------------------------------------------------------------------
(* Filters.                                                                  *)

\* the bits of a filter: bit p of the bytes, read from the left (BitIndexes)
Add(words) == UNION {Bits[w] : w \in words}
Matches(filter, w) == Bits[w] \subseteq filter
WordsOf(l) == {l.address} \cup {l.topics[i] : i \in DOMAIN l.topics}
Bloom(logs) == Add(UNION {WordsOf(logs[i]) : i \in DOMAIN logs})

\* the manager numbers the bits from the right
Mirror(p) == BloomLen - 1 - p
NoBlooms == [i \in 0..(BloomLen - 1) |-> {}]

------------------------------------------------------------------------------
(* The manager m and the table t, together; ok is FALSE when the store       *)
(* refuses the transaction of a commit, and err is the error returned.       *)

\* a mistake: the bits are taken from the left, as the filter numbers them
rotatedPlain(blooms, h, filter) ==
  [i \in DOMAIN blooms |-> IF i \in filter THEN blooms[i] \cup {h % SectionLen} ELSE blooms[i]]

\* the filters with those of height h rotated into them
rotated(blooms, h, filter) ==
  [i \in DOMAIN blooms |->
     IF Mirror(i) \in filter THEN blooms[i] \cup {h % SectionLen} ELSE blooms[i]]

\* one transaction: every bit set of the section, and its number
commit(m, t, blooms) == [x \in DOMAIN t \cup {m.section} |-> IF x = m.section THEN blooms ELSE t[x]]

\* a mistake: the filters of a stored section are kept, and its number too
addBloomNoSection(st, h, filter, ok) ==
  LET blooms == rotated(st.m.blooms, h, filter)
  IN [m |-> [st.m EXCEPT !.blooms = blooms, !.height = h],
      t |-> IF h % SectionLen = SectionLen - 1 THEN commit(st.m, st.t, blooms) ELSE st.t,
      err |-> FALSE]

\* a full section is committed and the next one begins
addBloom(st, h, filter, ok) ==
  LET blooms == rotated(st.m.blooms, h, filter)
      full == h % SectionLen = SectionLen - 1
  IN CASE ~full -> [st EXCEPT !.m.blooms = blooms, !.m.height = h]
       [] full /\ ok -> [m |-> [blooms |-> NoBlooms, section |-> st.m.section + 1, height |-> h],
                         t |-> commit(st.m, st.t, blooms), err |-> FALSE]
       [] full /\ ~ok -> [st EXCEPT !.m.blooms = blooms, !.err = TRUE]

\* heights that were skipped are all given the filter of the block below index
AddBloom(index, filter, ok) ==
  LET start == [m |-> sm, t |-> stored, err |-> FALSE]
      gap == [i \in 1..(index - sm.height) |-> sm.height + i]
      fill(st, h) == IF st.err THEN st
                     ELSE addBloom(st, h, Bloom(LoadBlockByHeight(index - 1)), ok)
  IN IF index <= sm.height /\ sm.height /= 0 THEN start
     ELSE IF index > sm.height + 1 THEN FoldLeft(fill, start, gap)
     ELSE addBloom(start, index, filter, ok)

\* a manager opens at the section after the last one stored
NewSectionManager(t) ==
  IF DOMAIN t = {} THEN [blooms |-> NoBlooms, section |-> 0, height |-> 0]
  ELSE LET section == Max(DOMAIN t) + 1
       IN [blooms |-> NoBlooms, section |-> section, height |-> (section + 1) * SectionLen]

------------------------------------------------------------------------------
(* Searching.                                                                *)

\* the heights of a section whose filters may hold the query: an empty set of words
\* stands for any word only from the third position on
indexed(section, q) ==
  LET heightsOf(w) ==
        {h \in 0..(SectionLen - 1) : \A p \in Bits[w] : h \in stored[section][Mirror(p)]}
      used == {i \in DOMAIN q : i <= 2 \/ q[i] /= {}}
      mask == {h \in 0..(SectionLen - 1) : \A i \in used : \E w \in q[i] : h \in heightsOf(w)}
  IN {section * SectionLen + h : h \in mask}

bloomFilter(filter, q) == \A i \in DOMAIN q : q[i] = {} \/ \E w \in q[i] : Matches(filter, w)
unIndexed(from, to, q) == {h \in from..to : bloomFilter(Bloom(LoadBlockByHeight(h)), q)}

filterLogs(logs, q) ==
  {n \in DOMAIN logs :
     /\ q[1] = {} \/ logs[n].address \in q[1]
     /\ Len(q) - 1 <= Len(logs[n].topics)
     /\ \A i \in 2..Len(q) : q[i] = {} \/ logs[n].topics[i - 1] \in q[i]}

InOrder(S) == SetToSortSeq(S, <)
getLogs(heights, q) ==
  LET of(h) == LET ns == InOrder(filterLogs(LoadBlockByHeight(h), q))
               IN [i \in DOMAIN ns |-> [height |-> h, n |-> ns[i]]]
  IN FoldLeft(LAMBDA acc, h : acc \o of(h), <<>>, heights)

\* a mistake: the range is not applied to the last section
indexedHeightsFirst(from, to, section, q) ==
  LET first == from \div SectionLen
      last == Min({to \div SectionLen, section - 1})
  IN InOrder(UNION {{h \in indexed(x, q) : x = first => h >= from} : x \in first..last})

\* the stored sections, the first and the last of them cut to the range
indexedHeights(from, to, section, q) ==
  LET first == from \div SectionLen
      last == Min({to \div SectionLen, section - 1})
  IN InOrder(UNION {{h \in indexed(x, q) : x \in {first, last} => h \in from..to} : x \in first..last})

\* the blocks above the stored sections; now is the number of sections read again
unIndexedHeights(from, to, section, now, q) ==
  IF to > now * SectionLen THEN InOrder(unIndexed(Max({from, section * SectionLen}), to, q)) ELSE <<>>

GetLogsResult(from, to, section, now, q) ==
  IF from \div SectionLen > Min({section, to \div SectionLen}) THEN <<>>
  ELSE getLogs(indexedHeights(from, to, section, q) \o unIndexedHeights(from, to, section, now, q), q)

------------------------------------------------------------------------------
Idle == [idle |-> TRUE]

Extend ==
  /\ TailHeight < MaxHeight
  /\ \E logs \in BlockLogs : chain' = Append(chain, logs)
  /\ UNCHANGED <<eternal, pending, sm, stored, search, skipped, restarts, faults>>

SetEternal ==
  /\ \E h \in (eternal + 1)..TailHeight : eternal' = h
  /\ pending' = pending \cup {eternal}
  /\ UNCHANGED <<chain, sm, stored, search, skipped, restarts, faults>>

\* the goroutine of a height takes the lock
RunAddBloom ==
  \E h \in pending, ok \in BOOLEAN :
    LET after == AddBloom(h, Bloom(LoadBlockByHeight(h)), ok)
    IN /\ after.err = ~ok
       /\ faults' = (IF ok THEN faults ELSE faults + 1) /\ faults' <= MaxFaults
       /\ sm' = after.m /\ stored' = after.t
       /\ pending' = pending \ {h}
       /\ skipped' = (skipped \/ h > sm.height + 1)
       /\ UNCHANGED <<chain, eternal, search, restarts>>

\* the range is cut at the tail, and the number of sections read
GetLogs ==
  \E q \in Queries, from, to \in 0..MaxHeight :
    /\ search = Idle
    /\ search' = [from |-> from, to |-> Min({to, TailHeight}), q |-> q,
                  section |-> sm.section]
    /\ UNCHANGED <<chain, eternal, pending, sm, stored, skipped, restarts, faults>>

\* what the search returns if it ends now: a sequence of [height, n], log n of a block
Found == GetLogsResult(search.from, search.to, search.section, sm.section, search.q)

EndGetLogs ==
  /\ search /= Idle
  /\ search' = Idle
  /\ UNCHANGED <<chain, eternal, pending, sm, stored, skipped, restarts, faults>>

\* the process ends and starts: only the table and the chain are left
Restart ==
  /\ restarts < MaxRestarts
  /\ restarts' = restarts + 1
  /\ pending' = {} /\ search' = Idle
  /\ sm' = NewSectionManager(stored)
  /\ UNCHANGED <<chain, eternal, stored, skipped, faults>>

Init ==
  /\ chain = <<<<>>>> /\ eternal = 0 /\ pending = {}
  /\ stored = [x \in {} |-> NoBlooms] /\ sm = NewSectionManager(stored)
  /\ search = Idle /\ skipped = FALSE /\ restarts = 0 /\ faults = 0

Next == Extend \/ SetEternal \/ RunAddBloom \/ GetLogs \/ EndGetLogs \/ Restart

Spec == Init /\ [][Next]_vars

------------------------------------------------------------------------------
(* Properties.                                                               *)

Matching(from, to, q) == getLogs([i \in 1..(to - from + 1) |-> from + i - 1], q)
Before(x, y) == x.height < y.height \/ (x.height = y.height /\ x.n < y.n)

\* A search returns logs that match, of blocks in the range, in the order of the chain
\* and none twice, whatever the index holds: gaps, restarts, failed commits and a
\* section stored meanwhile make it miss a log, never err (GetLogs, filterLogs).
SearchSound ==
  search /= Idle =>
    LET found == Found
    IN /\ Range(found) \subseteq Range(Matching(search.from, search.to, search.q))
       /\ \A i, j \in DOMAIN found : i < j => Before(found[i], found[j])

\* A search finds every log that matches when no height was skipped, the manager never
\* restarted, no section was stored while the search ran, its range ends elsewhere than
\* at the first height above the stored sections and begins no further than a section
\* above them, and it names an address and, if it has topics, a first topic
\* (AddBloom, GetLogs, indexed, unIndexed).
SearchComplete ==
  /\ search /= Idle /\ ~skipped /\ restarts = 0
  /\ search.section = sm.section /\ search.to /= sm.section * SectionLen
  /\ search.from \div SectionLen <= sm.section
  /\ \A i \in 1..Min({2, Len(search.q)}) : search.q[i] /= {}
  => Range(Matching(search.from, search.to, search.q)) \subseteq Range(Found)

\* Sections are stored in turn without a hole, over gaps, failed commits and restarts;
\* and until a restart the number of the section being filled follows from the last
\* height added (addBloom, commit, NewSectionManager).
SectionsInOrder ==
  /\ DOMAIN stored = 0..(sm.section - 1)
  /\ restarts = 0 => sm.section = (sm.height + 1) \div SectionLen

\* "Last block height added into bloom" (SectionManager.height): a height is added when
\* its block stops being the eternal one, so none is counted as added before that.
HeightAdded == sm.height <= eternal
==============================================================================
