-------------------------- MODULE EngineApiProofs --------------------------
(***************************************************************************)
(* Proofs about EngineApi, for any payloads, ancestry, transactions and    *)
(* bounds: head, chain, state and indexes are of one branch, finality and  *)
(* pool agree with it, payloads are held invalid for a reason, and a read  *)
(* of a past block answers from what that block left.  What needs the      *)
(* state itself holds until a snapshot of a replaced state manager is      *)
(* reverted to (`mixed`), and again once the state is rebuilt.             *)
(***************************************************************************)
EXTENDS EngineApi, SequenceTheorems, WellFoundedInduction, TLAPS

-----------------------------------------------------------------------------
(* The inductive invariant. *)

BodyIn(mn, b) == IF b \in DOMAIN mn THEN mn[b] ELSE Txs[b]

(* Each stored block's branch ends in it and passes through stored blocks, *)
(* whose own branches are its beginnings.                                  *)
Branches(st, mn) ==
  /\ DOMAIN st \subseteq Block
  /\ Genesis \in DOMAIN st
  /\ st[Genesis] = <<>>
  /\ DOMAIN st \cap Mined \subseteq DOMAIN mn
  /\ \A b \in DOMAIN st : st[b] \in Seq(DOMAIN st \ {Genesis})
  /\ \A b \in DOMAIN st \ {Genesis} : Len(st[b]) > 0 /\ st[b][Len(st[b])] = b
  /\ \A b \in DOMAIN st : \A i \in 1..Len(st[b]) : st[st[b][i]] = SubSeq(st[b], 1, i)

OnBranch(st, a, b) == a = Genesis \/ \E i \in 1..Len(st[b]) : st[b][i] = a

(* What a moment of the node, present or in a snapshot, is: b is its head, *)
(* and the state is that of b unless it was taken from another manager.    *)
HeadIs(r, b) ==
  /\ b \in DOMAIN r.store
  /\ r.head = Len(r.store[b])
  /\ \A n \in 1..r.head : n \in DOMAIN r.canonical /\ r.canonical[n] = r.store[b][n]
  /\ ~r.mixed => r.state = r.store[b]
  /\ r.logs = r.store[b]
  /\ \A h \in {r.safe, r.finalized} \ {None} :
       h \in DOMAIN r.store /\ OnBranch(r.store, h, b)

PoolIsClean(r, mn) ==
  ~r.mixed => \A i \in 1..Len(r.state) : r.pool \cap BodyIn(mn, r.state[i]) = {}

Sound(r, mn) ==
  /\ Branches(r.store, mn)
  /\ \E b \in DOMAIN r.store : HeadIs(r, b)
  /\ PoolIsClean(r, mn)

Now == [store |-> store, canonical |-> canonical, head |-> head, state |-> state,
        logs |-> logs, safe |-> safe, finalized |-> finalized, pool |-> pool,
        mixed |-> mixed]

(* What a revert to a snapshot brings back; the state of an id that the    *)
(* state manager does not know is anyone's guess.                          *)
Restored(id) ==
  LET entry == snapshots[id]
  IN [store |-> entry.store, canonical |-> entry.canonical, head |-> entry.head,
      state |-> saved[entry.stateId], logs |-> entry.logs, safe |-> entry.safe,
      finalized |-> entry.finalized, pool |-> entry.pool,
      mixed |-> entry.mixed \/ entry.stateId \notin DOMAIN saved]

SnapshotSound == \A id \in DOMAIN snapshots : Sound(Restored(id), mined)

(* The ids of this manager's snapshots were handed out by it.              *)
EntryFields == {"stateId", "mixed", "store", "canonical", "head", "logs",
                "safe", "finalized", "pool"}
EntrySound(entry, next) ==
  /\ DOMAIN entry = EntryFields
  /\ ~entry.mixed => entry.stateId \in Nat /\ entry.stateId < next

ManagerSound ==
  /\ DOMAIN snapshots \subseteq Nat /\ nextSnapshot \in Nat /\ nextSaved \in Nat
  /\ \A i \in DOMAIN saved : i \in Nat /\ i < nextSaved
  /\ \A id \in DOMAIN snapshots : EntrySound(snapshots[id], nextSaved)

(* What a forkchoice that replaces the manager leaves of an entry. *)
LEMMA OrphanedEntry ==
  ASSUME NEW id \in DOMAIN snapshots, DOMAIN snapshots[id] = EntryFields
  PROVE  /\ DOMAIN Orphaned[id] = EntryFields /\ Orphaned[id].mixed = TRUE
         /\ Orphaned[id].stateId = snapshots[id].stateId
         /\ Orphaned[id].store = snapshots[id].store
         /\ Orphaned[id].canonical = snapshots[id].canonical
         /\ Orphaned[id].head = snapshots[id].head
         /\ Orphaned[id].logs = snapshots[id].logs
         /\ Orphaned[id].safe = snapshots[id].safe
         /\ Orphaned[id].finalized = snapshots[id].finalized
         /\ Orphaned[id].pool = snapshots[id].pool
<1> DEFINE entry == snapshots[id]
           o == [entry EXCEPT !.mixed = TRUE]
<1>1. Orphaned[id] = o
  BY DEF Orphaned
<1>2. DOMAIN entry = EntryFields
  OBVIOUS
<1> HIDE DEF entry
<1>3. /\ DOMAIN o = EntryFields /\ o.mixed = TRUE /\ o.stateId = entry.stateId
      /\ o.store = entry.store /\ o.canonical = entry.canonical /\ o.head = entry.head
      /\ o.logs = entry.logs /\ o.safe = entry.safe
      /\ o.finalized = entry.finalized /\ o.pool = entry.pool
  BY <1>2 DEF EntryFields
<1> HIDE DEF o
<1> QED
  BY <1>1, <1>3 DEF entry

CacheSound ==
  importState # None =>
    /\ importState.hash \in DOMAIN store
    /\ importState.state = store[importState.hash]

(* The blocks to import are distinct, each the parent of the next. *)
JobSound ==
  /\ job \in [phase : {"idle", "fetch", "import"}, list : Seq(Payload)]
  /\ job.phase # "idle" => job.list # <<>>
  /\ \A i \in 1..Len(job.list) : job.list[i] \notin DOMAIN store \cup DOMAIN invalid
  /\ \A i \in 1..Len(job.list) : i > 1 => Parent[job.list[i]] = job.list[i - 1]
  /\ \A i, j \in 1..Len(job.list) : i # j => job.list[i] # job.list[j]

InvalidSound ==
  /\ DOMAIN invalid \subseteq Payload \ DOMAIN store
  /\ InvalidIsJustified

Inv ==
  /\ DOMAIN mined \subseteq Mined
  /\ Sound(Now, mined)
  /\ SnapshotSound
  /\ ManagerSound
  /\ CacheSound
  /\ JobSound
  /\ InvalidSound

-----------------------------------------------------------------------------
(* Lemmas about branches. *)

(* A function extended at a new argument. *)
LEMMA WithProperties ==
  ASSUME NEW f, NEW x, NEW y
  PROVE  /\ DOMAIN With(f, x, y) = DOMAIN f \cup {x}
         /\ With(f, x, y)[x] = y
         /\ \A z \in DOMAIN f : z # x => With(f, x, y)[z] = f[z]
BY DEF With

(* A new block on a stored one leaves the branches in order. *)
LEMMA BranchesGrow ==
  ASSUME NEW st, NEW mn, NEW mn2, Branches(st, mn),
         NEW p \in DOMAIN st, NEW b \in Block \ DOMAIN st,
         DOMAIN mn \subseteq DOMAIN mn2, b \in Mined => b \in DOMAIN mn2
  PROVE  Branches(With(st, b, Append(st[p], b)), mn2)
<1> DEFINE st2 == With(st, b, Append(st[p], b))
           S == DOMAIN st \ {Genesis}
           S2 == DOMAIN st2 \ {Genesis}
<1>1. /\ DOMAIN st2 = DOMAIN st \cup {b}
      /\ st2[b] = Append(st[p], b)
      /\ \A c \in DOMAIN st : st2[c] = st[c]
  BY DEF With
<1> HIDE DEF st2
<1>2. b # Genesis /\ S \subseteq S2 /\ b \in S2
  BY <1>1 DEF Branches
<1>3. \A c \in DOMAIN st : st[c] \in Seq(S) /\ st[c] \in Seq(S2)
  BY <1>2, SeqMonotonic DEF Branches
<1>4. /\ st2[b] \in Seq(S2)
      /\ Len(st2[b]) = Len(st[p]) + 1
      /\ \A i \in 1..Len(st[p]) : st2[b][i] = st[p][i]
      /\ st2[b][Len(st[p]) + 1] = b
  BY <1>1, <1>2, <1>3, AppendProperties
<1>5. ASSUME NEW i \in 1..Len(st2[b]) PROVE st2[st2[b][i]] = SubSeq(st2[b], 1, i)
  <2>1. CASE i = Len(st[p]) + 1
    <3>1. SubSeq(st2[b], 1, i) = st2[b]
      BY <1>4, <2>1, SubSeqFull
    <3> QED
      BY <1>4, <2>1, <3>1
  <2>2. CASE i # Len(st[p]) + 1
    <3>1. i \in 1..Len(st[p])
      BY <1>3, <1>4, <2>2, LenProperties
    <3>2. st[p][i] \in DOMAIN st
      BY <1>3, <3>1, ElementOfSeq
    <3>3. st2[st2[b][i]] = SubSeq(st[p], 1, i)
      BY <1>1, <1>4, <3>1, <3>2 DEF Branches
    <3>4. SubSeq(st2[b], 1, i) = SubSeq(st[p], 1, i)
      BY <1>1, <1>2, <1>3, <3>1
    <3> QED
      BY <3>3, <3>4
  <2> QED
    BY <2>1, <2>2
<1>6. ASSUME NEW c \in DOMAIN st, NEW i \in 1..Len(st2[c])
      PROVE  st2[st2[c][i]] = SubSeq(st2[c], 1, i)
  <2>1. st2[c] = st[c] /\ i \in 1..Len(st[c])
    BY <1>1
  <2>2. st[c][i] \in DOMAIN st
    BY <1>3, <2>1, ElementOfSeq
  <2>3. st[st[c][i]] = SubSeq(st[c], 1, i)
    BY <2>1 DEF Branches
  <2> QED
    BY <1>1, <2>1, <2>2, <2>3
<1>7. \A c \in DOMAIN st2 : \A i \in 1..Len(st2[c]) : st2[st2[c][i]] = SubSeq(st2[c], 1, i)
  BY <1>1, <1>5, <1>6
<1>8. \A c \in DOMAIN st2 : st2[c] \in Seq(S2)
  BY <1>1, <1>3, <1>4
<1>9. \A c \in S2 : Len(st2[c]) > 0 /\ st2[c][Len(st2[c])] = c
  <2>1. Len(st[p]) \in Nat
    BY <1>1, <1>3, LenProperties
  <2>2. Len(st2[b]) > 0 /\ st2[b][Len(st2[b])] = b
    BY <1>4, <2>1
  <2>3. ASSUME NEW c \in S2, c # b PROVE Len(st2[c]) > 0 /\ st2[c][Len(st2[c])] = c
    <3>1. c \in DOMAIN st \ {Genesis} /\ st2[c] = st[c]
      BY <1>1, <2>3
    <3> QED
      BY <3>1 DEF Branches
  <2> QED
    BY <2>2, <2>3
<1> QED
  BY <1>1, <1>2, <1>7, <1>8, <1>9 DEF Branches, st2

(* The branch of a block's ancestor is the beginning of its own. *)
LEMMA AncestorIsPrefix ==
  ASSUME NEW st, NEW mn, Branches(st, mn), NEW a \in DOMAIN st, NEW b \in DOMAIN st,
         OnBranch(st, a, b)
  PROVE  /\ Len(st[a]) \in 0..Len(st[b])
         /\ st[a] \o SubSeq(st[b], Len(st[a]) + 1, Len(st[b])) = st[b]
<1> DEFINE S == DOMAIN st \ {Genesis}
<1>1. st[a] \in Seq(S) /\ st[b] \in Seq(S) /\ Len(st[b]) \in Nat
  BY LenProperties DEF Branches
<1>2. CASE a = Genesis
  <2>1. st[a] = <<>> /\ Len(st[a]) = 0
    BY <1>2 DEF Branches
  <2>2. SubSeq(st[b], Len(st[a]) + 1, Len(st[b])) = st[b]
    BY <1>1, <2>1, SubSeqFull
  <2> QED
    BY <1>1, <2>1, <2>2, ConcatEmptySeq
<1>3. CASE a # Genesis
  <2>1. PICK i \in 1..Len(st[b]) : st[b][i] = a
    BY <1>3 DEF OnBranch
  <2>2. st[a] = SubSeq(st[b], 1, i)
    BY <2>1 DEF Branches
  <2>3. Len(st[a]) = i
    BY <1>1, <2>1, <2>2
  <2>4. SubSeq(st[b], 1, i) \o SubSeq(st[b], i + 1, Len(st[b])) = SubSeq(st[b], 1, Len(st[b]))
    BY <1>1, <2>1, ConcatAdjacentSubSeq
  <2>5. SubSeq(st[b], 1, Len(st[b])) = st[b]
    BY <1>1, SubSeqFull
  <2>6. st[a] \o SubSeq(st[b], Len(st[a]) + 1, Len(st[b])) = st[b]
    BY <2>2, <2>3, <2>4, <2>5, Zenon
  <2>7. Len(st[a]) \in 0..Len(st[b])
    BY <1>1, <2>1, <2>3
  <2> QED
    BY <2>6, <2>7
<1> QED
  BY <1>2, <1>3

(* The head of the present moment is the canonical block of that number. *)
LEMMA HeadIsCanonical ==
  ASSUME Branches(store, mined), NEW b \in DOMAIN store, HeadIs(Now, b)
  PROVE  HeadHash = b
<1>1. /\ head = Len(store[b])
      /\ \A n \in 1..head : n \in DOMAIN canonical /\ canonical[n] = store[b][n]
  BY DEF HeadIs, Now
<1>2. head \in Nat
  BY <1>1, LenProperties DEF Branches
<1>3. CASE b = Genesis
  BY <1>1, <1>3 DEF Branches, HeadHash, HashAt
<1>4. CASE b # Genesis
  <2>1. head > 0 /\ store[b][head] = b
    BY <1>1, <1>4 DEF Branches
  <2>2. head \in DOMAIN canonical /\ canonical[head] = b
    BY <1>1, <1>2, <2>1
  <2> QED
    BY <2>1, <2>2 DEF HeadHash, HashAt
<1> QED
  BY <1>3, <1>4

(* Blocks stored do not change, so neither do the moments they make up. *)
LEMMA HeadStays ==
  ASSUME NEW r, NEW mn, Branches(r.store, mn), NEW b, HeadIs(r, b),
         NEW r2,
         r2.head = r.head, r2.canonical = r.canonical, r2.state = r.state,
         r2.logs = r.logs, r2.safe = r.safe, r2.finalized = r.finalized,
         r2.mixed = r.mixed,
         DOMAIN r.store \subseteq DOMAIN r2.store,
         \A c \in DOMAIN r.store : r2.store[c] = r.store[c]
  PROVE  HeadIs(r2, b)
<1>1. b \in DOMAIN r2.store /\ r2.store[b] = r.store[b]
  BY DEF HeadIs
<1>2. /\ r2.head = Len(r2.store[b]) /\ r2.logs = r2.store[b]
      /\ ~r2.mixed => r2.state = r2.store[b]
      /\ \A n \in 1..r2.head : n \in DOMAIN r2.canonical /\ r2.canonical[n] = r2.store[b][n]
  BY <1>1 DEF HeadIs
<1>3. ASSUME NEW h \in {r2.safe, r2.finalized} \ {None}
      PROVE  h \in DOMAIN r2.store /\ OnBranch(r2.store, h, b)
  <2>1. h \in {r.safe, r.finalized} \ {None}
    OBVIOUS
  <2>2. h \in DOMAIN r.store /\ OnBranch(r.store, h, b)
    BY <2>1 DEF HeadIs
  <2> QED
    BY <1>1, <2>2 DEF OnBranch
<1> QED
  BY <1>1, <1>2, <1>3 DEF HeadIs

(* The bodies of the blocks of a branch stay as well. *)
LEMMA CleanStays ==
  ASSUME NEW st, NEW mn, Branches(st, mn), NEW b \in DOMAIN st, NEW mn2,
         DOMAIN mn \subseteq DOMAIN mn2, \A m \in DOMAIN mn : mn2[m] = mn[m],
         DOMAIN mn2 \subseteq Mined
  PROVE  \A i \in 1..Len(st[b]) : BodyIn(mn2, st[b][i]) = BodyIn(mn, st[b][i])
<1> SUFFICES ASSUME NEW i \in 1..Len(st[b])
             PROVE  BodyIn(mn2, st[b][i]) = BodyIn(mn, st[b][i])
  OBVIOUS
<1>1. st[b][i] \in DOMAIN st
  <2>1. st[b] \in Seq(DOMAIN st \ {Genesis})
    BY DEF Branches
  <2> QED
    BY <2>1, ElementOfSeq
<1> DEFINE c == st[b][i]
<1>2. DOMAIN st \cap Mined \subseteq DOMAIN mn
  BY DEF Branches
<1>3. c \in DOMAIN mn2 => c \in DOMAIN mn
  BY <1>1, <1>2
<1>4. c \in DOMAIN mn => c \in DOMAIN mn2 /\ mn2[c] = mn[c]
  OBVIOUS
<1> HIDE DEF c
<1>5. BodyIn(mn2, c) = BodyIn(mn, c)
  BY <1>3, <1>4 DEF BodyIn
<1> QED
  BY <1>5 DEF c

(* A moment stays sound when blocks are mined later. *)
LEMMA SoundStays ==
  ASSUME NEW r, NEW mn, Sound(r, mn), NEW mn2,
         DOMAIN mn \subseteq DOMAIN mn2, \A m \in DOMAIN mn : mn2[m] = mn[m],
         DOMAIN mn2 \subseteq Mined
  PROVE  Sound(r, mn2)
<1>1. Branches(r.store, mn2)
  BY DEF Sound, Branches
<1>2. PICK b \in DOMAIN r.store : HeadIs(r, b)
  BY DEF Sound
<1>3. ~r.mixed => \A i \in 1..Len(r.state) : BodyIn(mn2, r.state[i]) = BodyIn(mn, r.state[i])
  BY <1>2, CleanStays DEF Sound, HeadIs
<1> QED
  BY <1>1, <1>2, <1>3 DEF Sound, PoolIsClean

(* A moment follows from another if it differs in the state alone, and has *)
(* that one's state unless it is mixed.                                    *)
Follows(r, r2) ==
  /\ r2.store = r.store /\ r2.canonical = r.canonical /\ r2.head = r.head
  /\ r2.logs = r.logs /\ r2.safe = r.safe /\ r2.finalized = r.finalized
  /\ r2.pool = r.pool
  /\ ~r2.mixed => ~r.mixed /\ r2.state = r.state

LEMMA SoundFollows ==
  ASSUME NEW r, NEW r2, NEW mn, Sound(r, mn), Follows(r, r2)
  PROVE  Sound(r2, mn)
<1>1. PICK b \in DOMAIN r.store : HeadIs(r, b)
  BY DEF Sound
<1>2. HeadIs(r2, b) /\ b \in DOMAIN r2.store
  BY <1>1 DEF HeadIs, Follows
<1>3. PoolIsClean(r2, mn)
  BY DEF Sound, PoolIsClean, Follows
<1> QED
  BY <1>2, <1>3 DEF Sound, Follows

-----------------------------------------------------------------------------
(* The initial state. *)

LEMMA InvInit == Init => Inv
<1> SUFFICES ASSUME Init PROVE Inv
  OBVIOUS
<1> USE DEF Init
<1>1. Branches(store, mined)
  BY EngineAssumption DEF Branches, Block
<1>2. HeadIs(Now, Genesis)
  BY DEF HeadIs, Now
<1>3. Sound(Now, mined)
  BY <1>1, <1>2 DEF Sound, Now, PoolIsClean
<1>4. JobSound
  BY DEF JobSound, IdleJob
<1>5. SnapshotSound /\ ManagerSound
  BY DEF SnapshotSound, ManagerSound
<1> QED
  BY <1>3, <1>4, <1>5 DEF Inv, CacheSound, InvalidSound, InvalidIsJustified

-----------------------------------------------------------------------------
(* Each action keeps the present sound. *)

(* The steps of an import that add no block. *)
LEMMA QuietStep ==
  ASSUME Inv, UNCHANGED <<chainVars, safe, finalized, pool, mixed>>
  PROVE  Sound(Now, mined)'
<1>1. Now' = Now /\ mined' = mined
  BY DEF Now, chainVars
<1> QED
  BY <1>1 DEF Inv

(* The block to import, while one is. *)
LEMMA ImportingBlock ==
  ASSUME Inv, job.phase = "import"
  PROVE  /\ Importing \in Payload
         /\ Importing = job.list[1]
         /\ Importing \notin DOMAIN store \cup DOMAIN invalid
         /\ Cursor = Parent[Importing]
<1>1. job.list \in Seq(Payload) /\ job.list # <<>>
  BY DEF Inv, JobSound
<1>2. 1 \in 1..Len(job.list)
  BY <1>1, EmptySeq
<1>3. Importing = job.list[1]
  BY <1>1 DEF Importing
<1> QED
  BY <1>1, <1>2, <1>3, ElementOfSeq DEF Inv, JobSound, Cursor, Importing

LEMMA ImportValidChain ==
  ASSUME Inv, ImportValid
  PROVE  Sound(Now, mined)'
<1>1. /\ Importing \in Payload
      /\ Importing \notin DOMAIN store
      /\ Cursor \in DOMAIN store
  BY ImportingBlock DEF ImportValid
<1>2. store' = With(store, Importing, Append(store[Cursor], Importing)) /\ mined' = mined
  BY DEF ImportValid
<1>3. Branches(store, mined)
  BY DEF Inv, Sound, Now
<1>4. Branches(store', mined')
  BY <1>1, <1>2, <1>3, BranchesGrow, EngineAssumption DEF Block
<1>5. DOMAIN store \subseteq DOMAIN store' /\ \A c \in DOMAIN store : store'[c] = store[c]
  BY <1>1, <1>2 DEF With
<1>6. PICK b \in DOMAIN store : HeadIs(Now, b)
  BY DEF Inv, Sound, Now
<1>7. HeadIs(Now', b)
  <2>1. /\ Now'.head = Now.head /\ Now'.canonical = Now.canonical
        /\ Now'.state = Now.state /\ Now'.logs = Now.logs
        /\ Now'.safe = Now.safe /\ Now'.finalized = Now.finalized
        /\ Now'.mixed = Now.mixed
    BY DEF Now, ImportValid, forkVars, snapshotVars
  <2>2. Now.store = store /\ Now'.store = store'
    BY DEF Now
  <2> QED
    BY <1>3, <1>5, <1>6, <2>1, <2>2, HeadStays
<1>8. PoolIsClean(Now', mined')
  BY DEF Inv, Sound, PoolIsClean, Now, ImportValid, forkVars, snapshotVars
<1> QED
  BY <1>4, <1>5, <1>6, <1>7, <1>8 DEF Sound, Now

LEMMA MineBlockChain ==
  ASSUME Inv, NEW m \in Mined, NEW txs \in SUBSET pool, MineBlock(m, txs)
  PROVE  Sound(Now, mined)'
<1>1. Branches(store, mined)
  BY DEF Inv, Sound, Now
<1>2. PICK b \in DOMAIN store : HeadIs(Now, b)
  BY DEF Inv, Sound, Now
<1>3. HeadHash = b
  BY <1>1, <1>2, HeadIsCanonical
<1>4. /\ m \notin DOMAIN mined
      /\ mined' = With(mined, m, txs)
      /\ store' = With(store, m, Append(store[b], m))
      /\ canonical' = With(canonical, head + 1, m)
      /\ head' = head + 1
      /\ state' = Append(state, m)
      /\ logs' = Append(logs, m)
      /\ pool' = pool \ txs
      /\ UNCHANGED <<safe, finalized, mixed>>
  BY <1>3 DEF MineBlock, forkVars, snapshotVars
<1>5. m \notin DOMAIN store /\ m # Genesis
  BY <1>1, <1>4, EngineAssumption DEF Branches
<1>6. /\ DOMAIN mined' = DOMAIN mined \cup {m}
      /\ mined'[m] = txs
      /\ \A c \in DOMAIN mined : mined'[c] = mined[c]
      /\ DOMAIN mined' \subseteq Mined
  BY <1>4 DEF With, Inv
<1>7. Branches(store', mined')
  BY <1>1, <1>4, <1>5, <1>6, BranchesGrow DEF Block
<1>8. /\ DOMAIN store' = DOMAIN store \cup {m}
      /\ store'[m] = Append(store[b], m)
      /\ \A c \in DOMAIN store : store'[c] = store[c]
  BY <1>4, <1>5 DEF With
<1>9. /\ head = Len(store[b]) /\ logs = store[b]
      /\ ~mixed => state = store[b]
      /\ \A n \in 1..head : n \in DOMAIN canonical /\ canonical[n] = store[b][n]
      /\ \A h \in {safe, finalized} \ {None} : h \in DOMAIN store /\ OnBranch(store, h, b)
  BY <1>2 DEF HeadIs, Now
<1>10. /\ Len(store'[m]) = head + 1
       /\ \A i \in 1..head : store'[m][i] = store[b][i]
       /\ store'[m][head + 1] = m
       /\ head \in Nat
  <2>1. store[b] \in Seq(DOMAIN store') /\ m \in DOMAIN store'
    BY <1>1, <1>8, SeqMonotonic DEF Branches
  <2> QED
    BY <1>8, <1>9, <2>1, AppendProperties, LenProperties
<1>11. \A n \in 1..head' : n \in DOMAIN canonical' /\ canonical'[n] = store'[m][n]
  <2>1. DOMAIN canonical' = DOMAIN canonical \cup {head + 1}
    BY <1>4 DEF With
  <2>2. canonical'[head + 1] = m
    BY <1>4 DEF With
  <2>3. \A n \in 1..head : canonical'[n] = canonical[n]
    BY <1>4, <1>9, <1>10 DEF With
  <2> QED
    BY <1>4, <1>9, <1>10, <2>1, <2>2, <2>3
<1>12. \A h \in {safe', finalized'} \ {None} : h \in DOMAIN store' /\ OnBranch(store', h, m)
  BY <1>4, <1>8, <1>9, <1>10 DEF OnBranch
<1>13. HeadIs(Now', m)
  BY <1>4, <1>8, <1>9, <1>10, <1>11, <1>12 DEF HeadIs, Now
<1>14. PoolIsClean(Now', mined')
  <2>1. SUFFICES ASSUME ~mixed, NEW i \in 1..Len(state')
                 PROVE  pool' \cap BodyIn(mined', state'[i]) = {}
    BY <1>4 DEF PoolIsClean, Now
  <2>2. state' = store'[m] /\ Len(state') = head + 1
    BY <1>4, <1>8, <1>9, <1>10, <2>1
  <2>3. CASE i = head + 1
    BY <1>4, <1>6, <1>10, <2>2, <2>3 DEF BodyIn
  <2>4. CASE i \in 1..head
    <3>1. pool \cap BodyIn(mined, state[i]) = {}
      BY <1>9, <2>1, <2>4 DEF Inv, Sound, PoolIsClean, Now
    <3>2. state'[i] = store[b][i] /\ state[i] = store[b][i]
      BY <1>9, <1>10, <2>1, <2>2, <2>4
    <3>3. BodyIn(mined', store[b][i]) = BodyIn(mined, store[b][i])
      BY <1>1, <1>6, <1>9, <2>4, CleanStays
    <3> QED
      BY <1>4, <3>1, <3>2, <3>3
  <2> QED
    BY <1>10, <2>2, <2>3, <2>4
<1> QED
  BY <1>7, <1>8, <1>13, <1>14 DEF Sound, Now

LEMMA SubmitChain ==
  ASSUME Inv, NEW t \in Tx, Submit(t)
  PROVE  Sound(Now, mined)'
<1>1. UNCHANGED <<chainVars, safe, finalized, mixed>> /\ pool' = pool \cup {t}
  BY DEF Submit, forkVars, snapshotVars
<1>2. PICK b \in DOMAIN store : HeadIs(Now, b)
  BY DEF Inv, Sound, Now
<1>3. HeadIs(Now', b) /\ b \in DOMAIN store'
  BY <1>1, <1>2 DEF HeadIs, Now, chainVars
<1>4. ~mixed => \A i \in 1..Len(state) : t \notin BodyIn(mined, state[i])
  <2>1. \A i \in DOMAIN state : Body(state[i]) \in {Body(c) : c \in InPath(state)}
    BY DEF InPath
  <2>2. \A i \in DOMAIN state : t \notin Body(state[i])
    BY <2>1 DEF Submit, Executed
  <2>3. ~mixed => DOMAIN state = 1..Len(state)
    BY <1>2, LenProperties DEF Inv, Sound, Branches, HeadIs, Now
  <2> QED
    BY <2>2, <2>3 DEF Body, BodyIn
<1>5. PoolIsClean(Now', mined')
  BY <1>1, <1>4 DEF Inv, Sound, PoolIsClean, Now, chainVars
<1> QED
  BY <1>1, <1>3, <1>5 DEF Inv, Sound, Now, chainVars

LEMMA RevertChain ==
  ASSUME Inv, NEW id \in DOMAIN snapshots, Revert(id)
  PROVE  Sound(Now, mined)'
<1>1. Sound(Restored(id), mined)
  BY DEF Inv, SnapshotSound
<1>2. Follows(Restored(id), Now') /\ mined' = mined
  BY DEF Revert, Now, Restored, Follows
<1> QED
  BY <1>1, <1>2, SoundFollows

LEMMA ResetChain ==
  ASSUME Inv, Reset
  PROVE  Sound(Now, mined)'
<1>1. /\ store' = [b \in {Genesis} |-> <<>>] /\ canonical' = <<>> /\ head' = 0
      /\ state' = <<>> /\ logs' = <<>> /\ safe' = None /\ finalized' = None
      /\ pool' = {} /\ mined' = mined
  BY DEF Reset
<1>2. Branches(store', mined')
  BY <1>1, EngineAssumption DEF Branches, Block
<1>3. HeadIs(Now', Genesis)
  BY <1>1 DEF HeadIs, Now
<1> QED
  BY <1>1, <1>2, <1>3 DEF Sound, Now, PoolIsClean

LEMMA ForkchoiceFailsChain ==
  ASSUME Inv, NEW b \in Block, NEW s, NEW f, ForkchoiceFails(b, s, f)
  PROVE  Sound(Now, mined)'
<1>1. PICK h \in DOMAIN store : HeadIs(Now, h)
  BY DEF Inv, Sound, Now
<1>2. HeadHash = h
  BY <1>1, HeadIsCanonical DEF Inv, Sound, Now
<1>3. /\ UNCHANGED <<store, mined, head, state, logs, safe, finalized, pool, mixed>>
      /\ canonical' = SetCanonicalHead(SetCanonicalHead(canonical, b), h)
  BY <1>2 DEF ForkchoiceFails, forkVars, snapshotVars
<1>4. head = Len(store[h]) /\ DOMAIN store[h] = 1..Len(store[h])
  BY <1>1, LenProperties DEF HeadIs, Now, Inv, Sound, Branches
<1>5. \A n \in 1..head : n \in DOMAIN canonical' /\ canonical'[n] = store[h][n]
  BY <1>3, <1>4 DEF SetCanonicalHead
<1>6. HeadIs(Now', h)
  BY <1>1, <1>3, <1>5 DEF HeadIs, Now
<1> QED
  BY <1>1, <1>3, <1>6 DEF Inv, Sound, Now, PoolIsClean

(* A forkchoice takes the state to the new head, by extension or anew, and *)
(* the pool loses what the state has executed on the way.                  *)
LEMMA ForkchoiceChain ==
  ASSUME Inv, NEW b \in Block, NEW s, NEW f, NEW build, Forkchoice(b, s, f, build)
  PROVE  Sound(Now, mined)'
<1>1. Branches(store, mined)
  BY DEF Inv, Sound, Now
<1>2. PICK h \in DOMAIN store : HeadIs(Now, h)
  BY DEF Inv, Sound, Now
<1>3. HeadHash = h
  BY <1>1, <1>2, HeadIsCanonical
<1>4. /\ head = Len(store[h]) /\ logs = store[h]
      /\ ~mixed => state = store[h]
      /\ \A n \in 1..head : n \in DOMAIN canonical /\ canonical[n] = store[h][n]
  BY <1>2 DEF HeadIs, Now
<1>5. /\ b \in DOMAIN store
      /\ \A x \in {s, f} \ {None} : x \in DOMAIN store /\ IsAncestor(x, b)
  BY DEF Forkchoice, ForkchoiceIsSound
<1>6. \A c \in DOMAIN store :
        store[c] \in Seq(DOMAIN store) /\ DOMAIN store[c] = 1..Len(store[c]) /\ Len(store[c]) \in Nat
  BY <1>1, SeqMonotonic, LenProperties DEF Branches
<1>7. \A x : IsAncestor(x, b) <=> OnBranch(store, x, b)
  BY <1>5, <1>6 DEF IsAncestor, OnBranch, InPath
<1>8. /\ head' = Len(store[b]) /\ pool' = pool \ MinedFromOldHead(b)
      /\ safe' = s /\ finalized' = f /\ UNCHANGED <<store, mined>>
  BY DEF Forkchoice
<1>9. OnBranch(store, h, b) => head \in 0..Len(store[b]) /\ store[h] \o Extension(b) = store[b]
  BY <1>1, <1>4, <1>5, AncestorIsPrefix DEF Extension
<1>10. /\ logs' = store[b]
       /\ ~mixed' => state' = store[b]
       /\ OnBranch(store, h, b) => mixed' = mixed
  <2>1. CASE b = h
    BY <1>3, <1>4, <2>1 DEF Forkchoice, snapshotVars
  <2>2. CASE b # h /\ CanExtend(b)
    <3>1. OnBranch(store, h, b)
      BY <1>3, <1>7, <2>2 DEF CanExtend
    <3>2. state' = state \o Extension(b) /\ logs' = logs \o Extension(b) /\ mixed' = mixed
      BY <1>3, <2>2 DEF Forkchoice, snapshotVars
    <3> QED
      BY <1>4, <1>9, <3>1, <3>2
  <2>3. CASE b # h /\ ~CanExtend(b)
    <3>1. state' = store[b] /\ logs' = store[b]
      BY <1>3, <2>3 DEF Forkchoice
    <3>2. ~OnBranch(store, h, b)
      BY <1>3, <1>5, <1>6, <1>7, <1>9, <2>3 DEF CanExtend
    <3> QED
      BY <3>1, <3>2
  <2> QED
    BY <2>1, <2>2, <2>3
<1>11. \A n \in 1..head' : n \in DOMAIN canonical' /\ canonical'[n] = store[b][n]
  <2>1. CASE b = h
    <3>1. canonical' = Pruned(canonical, head)
      BY <1>3, <2>1 DEF Forkchoice
    <3> QED
      BY <1>4, <1>6, <1>8, <2>1, <3>1 DEF Pruned
  <2>2. CASE b # h
    <3>1. canonical' = Pruned(SetCanonicalHead(canonical, b), Len(store[b]))
      BY <1>3, <2>2 DEF Forkchoice
    <3> QED
      BY <1>5, <1>6, <1>8, <3>1 DEF Pruned, SetCanonicalHead
  <2> QED
    BY <2>1, <2>2
<1>12. HeadIs(Now', b)
  BY <1>5, <1>7, <1>8, <1>10, <1>11 DEF HeadIs, Now
<1>13. PoolIsClean(Now', mined')
  <2>1. SUFFICES ASSUME ~mixed', NEW i \in 1..Len(store[b])
                 PROVE  pool' \cap Body(store[b][i]) = {}
    BY <1>8, <1>10 DEF PoolIsClean, Now, BodyIn, Body
  <2>2. CASE ~OnBranch(store, h, b)
    <3>1. MinedFromOldHead(b) = Executed(store[b])
      BY <1>3, <1>7, <2>2 DEF MinedFromOldHead
    <3>2. store[b][i] \in InPath(store[b])
      BY <1>5, <1>6 DEF InPath
    <3> QED
      BY <1>8, <3>1, <3>2 DEF Executed
  <2>3. CASE OnBranch(store, h, b) /\ i > head
    <3>1. MinedFromOldHead(b) = Executed(Extension(b))
      BY <1>3, <1>7, <2>3 DEF MinedFromOldHead
    <3>2. store[b][i] \in InPath(Extension(b))
      <4>1. /\ i - head \in DOMAIN Extension(b)
            /\ Extension(b)[i - head] = store[b][i]
        BY <1>4, <1>5, <1>6, <2>3 DEF Extension
      <4> QED
        BY <4>1 DEF InPath
    <3> QED
      BY <1>8, <3>1, <3>2 DEF Executed
  <2>4. CASE OnBranch(store, h, b) /\ i \in 1..head
    <3>0. state = store[h]
      <4>1. mixed' = mixed
        BY <1>10, <2>4
      <4> QED
        BY <1>4, <2>1, <4>1, Zenon
    <3>1. store[b][i] = state[i]
      <4>1. Extension(b) \in Seq(DOMAIN store)
        BY <1>4, <1>5, <1>6 DEF Extension
      <4> QED
        BY <1>2, <1>4, <1>6, <1>9, <2>4, <3>0, <4>1, ConcatProperties
    <3>2. pool \cap BodyIn(mined, state[i]) = {}
      <4>1. ~mixed
        BY <1>10, <2>1, <2>4, Zenon
      <4>2. i \in 1..Len(state)
        BY <1>4, <2>4, <3>0
      <4>3. PoolIsClean(Now, mined) /\ Now.mixed = mixed /\ Now.state = state /\ Now.pool = pool
        BY DEF Inv, Sound, Now
      <4> QED
        BY <4>1, <4>2, <4>3 DEF PoolIsClean
    <3> QED
      BY <1>8, <3>1, <3>2 DEF Body, BodyIn
  <2> QED
    BY <1>2, <1>4, <1>5, <1>6, <2>2, <2>3, <2>4
<1> QED
  BY <1>1, <1>5, <1>8, <1>12, <1>13 DEF Sound, Now

LEMMA ChainStep == Inv /\ [Next]_vars => Sound(Now, mined)'
<1> SUFFICES ASSUME Inv, [Next]_vars PROVE Sound(Now, mined)'
  OBVIOUS
<1>1. CASE \E b \in Payload : NewPayload(b)
  BY <1>1, QuietStep DEF NewPayload, forkVars, snapshotVars
<1>2. CASE FetchDone \/ FetchAncestor \/ FetchFails
  BY <1>2, QuietStep DEF FetchDone, FetchAncestor, FetchFails, forkVars, snapshotVars
<1>3. CASE ImportInvalidChild \/ ImportBad \/ ImportError
  BY <1>3, QuietStep DEF ImportInvalidChild, ImportBad, ImportError, forkVars, snapshotVars
<1>4. CASE ImportValid
  BY <1>4, ImportValidChain
<1>5. ASSUME NEW b \in Block, NEW s \in Finality \cup {None}, NEW f \in Finality \cup {None},
             \/ \E build \in BOOLEAN : Forkchoice(b, s, f, build)
             \/ ForkchoiceFails(b, s, f)
      PROVE  Sound(Now, mined)'
  BY <1>5, ForkchoiceChain, ForkchoiceFailsChain
<1>6. CASE \E n \in 0..head : ReadAt(n)
  BY <1>6, QuietStep DEF ReadAt, forkVars, snapshotVars
<1>7. CASE \E t \in Tx : Submit(t)
  BY <1>7, SubmitChain
<1>8. CASE \E m \in Mined, txs \in SUBSET pool : MineBlock(m, txs)
  BY <1>8, MineBlockChain
<1>9. CASE TakeSnapshot \/ Reset
  BY <1>9, QuietStep, ResetChain DEF TakeSnapshot, forkVars
<1>10. CASE \E id \in DOMAIN snapshots : Revert(id)
  BY <1>10, RevertChain
<1>11. CASE UNCHANGED vars
  BY <1>11, QuietStep DEF vars, forkVars, snapshotVars
<1> QED
  BY <1>1, <1>2, <1>3, <1>4, <1>5, <1>6, <1>7, <1>8, <1>9, <1>10, <1>11 DEF Next, ImportStep

-----------------------------------------------------------------------------
(* What the live snapshots would restore. *)

(* Local blocks keep their transactions. *)
LEMMA MinedGrows ==
  ASSUME Inv, [Next]_vars
  PROVE  /\ DOMAIN mined \subseteq DOMAIN mined' /\ \A m \in DOMAIN mined : mined'[m] = mined[m]
         /\ DOMAIN mined' \subseteq Mined
<1>1. CASE mined' = mined
  BY <1>1 DEF Inv
<1>2. CASE \E m \in Mined, txs \in SUBSET pool : MineBlock(m, txs)
  BY <1>2 DEF Inv, MineBlock, With
<1>3. \/ mined' = mined
      \/ \E m \in Mined, txs \in SUBSET pool : MineBlock(m, txs)
  <2>1. ASSUME NEW b \in Payload, NewPayload(b) PROVE mined' = mined
    BY <2>1 DEF NewPayload, chainVars
  <2>2. CASE ImportStep
    BY <2>2 DEF ImportStep, FetchDone, FetchAncestor, FetchFails, ImportInvalidChild,
                ImportValid, ImportBad, ImportError, chainVars
  <2>3. ASSUME NEW b, NEW s, NEW f,
               \/ \E build \in BOOLEAN : Forkchoice(b, s, f, build)
               \/ ForkchoiceFails(b, s, f)
        PROVE  mined' = mined
    BY <2>3 DEF Forkchoice, ForkchoiceFails
  <2>4. ASSUME NEW n, ReadAt(n) PROVE mined' = mined
    BY <2>4 DEF ReadAt, chainVars
  <2>5. ASSUME NEW t, Submit(t) PROVE mined' = mined
    BY <2>5 DEF Submit, chainVars
  <2>6. CASE TakeSnapshot
    BY <2>6 DEF TakeSnapshot, chainVars
  <2>7. ASSUME NEW id, Revert(id) PROVE mined' = mined
    BY <2>7 DEF Revert
  <2>8. CASE Reset
    BY <2>8 DEF Reset
  <2>9. CASE UNCHANGED vars
    BY <2>9 DEF vars, chainVars
  <2> QED
    BY <2>1, <2>2, <2>3, <2>4, <2>5, <2>6, <2>7, <2>8, <2>9 DEF Next
<1> QED
  BY <1>1, <1>2, <1>3

(* Only four actions touch the snapshots: the rest leave them as they are. *)
LEMMA OutsideSnapshots ==
  ASSUME [Next]_vars, ~UNCHANGED snapshotVars
  PROVE  \/ TakeSnapshot
         \/ \E id \in DOMAIN snapshots : Revert(id)
         \/ NewManager /\ snapshots' = Orphaned /\ UNCHANGED nextSnapshot
         \/ Reset
<1>1. CASE \E b \in Payload : NewPayload(b)
  BY <1>1 DEF NewPayload
<1>2. CASE ImportStep
  BY <1>2 DEF ImportStep, FetchDone, FetchAncestor, FetchFails, ImportInvalidChild,
              ImportValid, ImportBad, ImportError
<1>3. ASSUME NEW b \in Block, NEW s \in Finality \cup {None}, NEW f \in Finality \cup {None},
             \/ \E build \in BOOLEAN : Forkchoice(b, s, f, build)
             \/ ForkchoiceFails(b, s, f)
      PROVE  NewManager /\ snapshots' = Orphaned /\ UNCHANGED nextSnapshot
  <2>1. CASE ForkchoiceFails(b, s, f)
    BY <2>1 DEF ForkchoiceFails
  <2>2. ASSUME NEW build, Forkchoice(b, s, f, build)
        PROVE  NewManager /\ snapshots' = Orphaned /\ UNCHANGED nextSnapshot
    BY <2>2 DEF Forkchoice
  <2> QED
    BY <1>3, <2>1, <2>2
<1>4. CASE \E n \in 0..head : ReadAt(n)
  BY <1>4 DEF ReadAt
<1>5. CASE \E t \in Tx : Submit(t)
  BY <1>5 DEF Submit
<1>6. CASE \E m \in Mined, txs \in SUBSET pool : MineBlock(m, txs)
  BY <1>6 DEF MineBlock
<1>7. CASE UNCHANGED vars
  BY <1>7 DEF vars
<1> QED
  BY <1>1, <1>2, <1>3, <1>4, <1>5, <1>6, <1>7 DEF Next

(* A live snapshot is of the present, or one of before whose state is the  *)
(* same unless the state manager is another.                               *)
LEMMA SnapshotMoments ==
  ASSUME Inv, [Next]_vars, NEW id \in DOMAIN snapshots'
  PROVE  \/ Follows(Now, Restored(id)')
         \/ id \in DOMAIN snapshots /\ Follows(Restored(id), Restored(id)')
<1>1. CASE UNCHANGED snapshotVars
  BY <1>1 DEF snapshotVars, Restored, Follows
<1>2. CASE TakeSnapshot
  <2>1. /\ saved' = With(saved, nextSaved, state) /\ mixed' = mixed
        /\ snapshots' = With(snapshots, nextSnapshot,
             [stateId |-> nextSaved, mixed |-> mixed, store |-> store,
              canonical |-> canonical, head |-> head, logs |-> logs, safe |-> safe,
              finalized |-> finalized, pool |-> pool])
    BY <1>2 DEF TakeSnapshot
  <2>2. CASE id = nextSnapshot
    <3>1. /\ snapshots'[id] = [stateId |-> nextSaved, mixed |-> mixed, store |-> store,
             canonical |-> canonical, head |-> head, logs |-> logs, safe |-> safe,
             finalized |-> finalized, pool |-> pool]
          /\ saved'[nextSaved] = state /\ nextSaved \in DOMAIN saved'
      BY <2>1, <2>2 DEF With
    <3>2. /\ Restored(id)'.store = store /\ Restored(id)'.canonical = canonical
          /\ Restored(id)'.head = head /\ Restored(id)'.state = state
          /\ Restored(id)'.logs = logs /\ Restored(id)'.safe = safe
          /\ Restored(id)'.finalized = finalized /\ Restored(id)'.pool = pool
      BY <3>1 DEF Restored
    <3>3. snapshots'[id].mixed = mixed
      BY <3>1
    <3>4. ~Restored(id)'.mixed => ~mixed
      BY <3>3 DEF Restored
    <3>5. /\ Now.store = store /\ Now.canonical = canonical /\ Now.head = head
          /\ Now.state = state /\ Now.logs = logs /\ Now.safe = safe
          /\ Now.finalized = finalized /\ Now.pool = pool /\ Now.mixed = mixed
      BY DEF Now
    <3>6. ~Restored(id)'.mixed => ~Now.mixed
      BY <3>4, <3>5, Zenon
    <3> QED
      BY <3>2, <3>5, <3>6 DEF Follows
  <2>3. CASE id # nextSnapshot
    <3>1. id \in DOMAIN snapshots /\ snapshots'[id] = snapshots[id]
      BY <2>1, <2>3 DEF With
    <3>2. ~snapshots[id].mixed => snapshots[id].stateId # nextSaved
      BY <3>1 DEF Inv, ManagerSound, EntrySound
    <3>3. /\ DOMAIN saved' = DOMAIN saved \cup {nextSaved}
          /\ \A i \in DOMAIN saved : i # nextSaved => saved'[i] = saved[i]
      BY <2>1 DEF With
    <3> QED
      BY <3>1, <3>2, <3>3 DEF Restored, Follows
  <2> QED
    BY <2>2, <2>3
<1>3. ASSUME NEW gone \in DOMAIN snapshots, Revert(gone)
      PROVE  id \in DOMAIN snapshots /\ Follows(Restored(id), Restored(id)')
  <2>1. /\ id \in DOMAIN snapshots /\ snapshots'[id] = snapshots[id]
        /\ DOMAIN saved' \subseteq DOMAIN saved /\ \A i \in DOMAIN saved' : saved'[i] = saved[i]
    BY <1>3 DEF Revert, Before
  <2> QED
    BY <2>1 DEF Restored, Follows
<1>4. CASE NewManager /\ snapshots' = Orphaned
  <2>1. /\ id \in DOMAIN snapshots
        /\ snapshots'[id] = Orphaned[id]
        /\ DOMAIN saved' = {}
    BY <1>4 DEF NewManager, Orphaned
  <2>2. DOMAIN snapshots[id] = EntryFields
    BY <2>1 DEF Inv, ManagerSound, EntrySound
  <2>3. Restored(id)'.mixed
    BY <2>1 DEF Restored
  <2>4. /\ Restored(id)'.store = snapshots'[id].store
        /\ Restored(id)'.canonical = snapshots'[id].canonical
        /\ Restored(id)'.head = snapshots'[id].head /\ Restored(id)'.logs = snapshots'[id].logs
        /\ Restored(id)'.safe = snapshots'[id].safe
        /\ Restored(id)'.finalized = snapshots'[id].finalized
        /\ Restored(id)'.pool = snapshots'[id].pool
    BY DEF Restored
  <2>5. /\ Restored(id).store = snapshots[id].store
        /\ Restored(id).canonical = snapshots[id].canonical
        /\ Restored(id).head = snapshots[id].head /\ Restored(id).logs = snapshots[id].logs
        /\ Restored(id).safe = snapshots[id].safe
        /\ Restored(id).finalized = snapshots[id].finalized
        /\ Restored(id).pool = snapshots[id].pool
    BY DEF Restored
  <2>6. /\ snapshots'[id].store = snapshots[id].store
        /\ snapshots'[id].canonical = snapshots[id].canonical
        /\ snapshots'[id].head = snapshots[id].head /\ snapshots'[id].logs = snapshots[id].logs
        /\ snapshots'[id].safe = snapshots[id].safe
        /\ snapshots'[id].finalized = snapshots[id].finalized
        /\ snapshots'[id].pool = snapshots[id].pool
    <3>1. snapshots'[id] = Orphaned[id] /\ id \in DOMAIN snapshots
      BY <2>1
    <3> QED
      BY <2>2, <3>1, OrphanedEntry
  <2>7. Follows(Restored(id), Restored(id)')
    BY <2>3, <2>4, <2>5, <2>6 DEF Follows
  <2> QED
    BY <2>1, <2>7
<1>5. CASE Reset
  BY <1>5 DEF Reset
<1> QED
  BY <1>1, <1>2, <1>3, <1>4, <1>5, OutsideSnapshots

LEMMA SnapshotStep == Inv /\ [Next]_vars => SnapshotSound'
<1> SUFFICES ASSUME Inv, [Next]_vars, NEW id \in DOMAIN snapshots'
             PROVE  Sound(Restored(id)', mined')
  BY DEF SnapshotSound
<1>1. ASSUME NEW r, Sound(r, mined), Follows(r, Restored(id)')
      PROVE  Sound(Restored(id)', mined')
  BY <1>1, SoundFollows, SoundStays, MinedGrows
<1> QED
  BY <1>1, SnapshotMoments DEF Inv, SnapshotSound

LEMMA ManagerStep == Inv /\ [Next]_vars => ManagerSound'
<1> SUFFICES ASSUME Inv, [Next]_vars PROVE ManagerSound'
  OBVIOUS
<1>1. CASE UNCHANGED snapshotVars
  BY <1>1 DEF snapshotVars, Inv, ManagerSound
<1>2. CASE TakeSnapshot
  <2> DEFINE new == [stateId |-> nextSaved, mixed |-> mixed, store |-> store,
                     canonical |-> canonical, head |-> head, logs |-> logs, safe |-> safe,
                     finalized |-> finalized, pool |-> pool]
  <2>1. /\ saved' = With(saved, nextSaved, state) /\ nextSaved' = nextSaved + 1
        /\ snapshots' = With(snapshots, nextSnapshot, new) /\ nextSnapshot' = nextSnapshot + 1
    BY <1>2 DEF TakeSnapshot
  <2>2. DOMAIN new = EntryFields /\ new.stateId = nextSaved
    BY DEF EntryFields
  <2> HIDE DEF new
  <2>3. /\ nextSnapshot \in Nat /\ nextSaved \in Nat /\ DOMAIN snapshots \subseteq Nat
        /\ \A i \in DOMAIN saved : i \in Nat /\ i < nextSaved
    BY DEF Inv, ManagerSound
  <2>4. EntrySound(new, nextSaved')
    BY <2>1, <2>2, <2>3 DEF EntrySound
  <2>5. \A id \in DOMAIN snapshots : EntrySound(snapshots[id], nextSaved')
    BY <2>1, <2>3 DEF Inv, ManagerSound, EntrySound
  <2> QED
    BY <2>1, <2>3, <2>4, <2>5 DEF With, ManagerSound
<1>3. CASE \E id \in DOMAIN snapshots : Revert(id)
  BY <1>3 DEF Revert, Before, Inv, ManagerSound
<1>4. CASE NewManager /\ snapshots' = Orphaned /\ UNCHANGED nextSnapshot
  <2>1. ASSUME NEW id \in DOMAIN snapshots'
        PROVE  EntrySound(snapshots'[id], nextSaved')
    <3>1. id \in DOMAIN snapshots /\ snapshots'[id] = Orphaned[id]
      BY <1>4 DEF Orphaned
    <3>2. DOMAIN snapshots[id] = EntryFields
      BY <3>1 DEF Inv, ManagerSound, EntrySound
    <3> QED
      BY <3>1, <3>2, OrphanedEntry DEF EntrySound
  <2>2. DOMAIN snapshots' = DOMAIN snapshots
    BY <1>4 DEF Orphaned
  <2> QED
    BY <1>4, <2>1, <2>2 DEF NewManager, Inv, ManagerSound
<1>5. CASE Reset
  BY <1>5 DEF Reset, NewManager, ManagerSound
<1> QED
  BY <1>1, <1>2, <1>3, <1>4, <1>5, OutsideSnapshots

-----------------------------------------------------------------------------
(* Each action keeps the job, the cache and the invalid payloads sound. *)

(* Only an import changes the job, the import state or adds to the invalid *)
(* payloads; elsewhere blocks may be added or everything may be forgotten. *)
LEMMA OutsideImport ==
  ASSUME Inv, [Next]_vars, ~ImportStep, ~\E b \in Payload : NewPayload(b), ~UNCHANGED vars
  PROVE  /\ Idle /\ job' = job
         /\ \/ /\ UNCHANGED <<importState, invalid, mined, store>>
            \/ /\ UNCHANGED <<importState, invalid>>
               /\ \E m \in Mined, txs \in SUBSET pool : MineBlock(m, txs)
            \/ /\ importState' = None
               /\ invalid' = [b \in {} |-> Genesis]
<1>1. ASSUME NEW b \in Block, NEW s \in Finality \cup {None}, NEW f \in Finality \cup {None},
             \/ \E build \in BOOLEAN : Forkchoice(b, s, f, build)
             \/ ForkchoiceFails(b, s, f)
      PROVE  Idle /\ job' = job /\ UNCHANGED <<importState, invalid, mined, store>>
  BY <1>1 DEF Forkchoice, ForkchoiceFails, cacheVars
<1>2. CASE \E n \in 0..head : ReadAt(n)
  BY <1>2 DEF ReadAt, chainVars
<1>3. CASE \E t \in Tx : Submit(t)
  BY <1>3 DEF Submit, chainVars, cacheVars
<1>4. CASE \E m \in Mined, txs \in SUBSET pool : MineBlock(m, txs)
  BY <1>4 DEF MineBlock, cacheVars
<1>5. CASE TakeSnapshot
  BY <1>5 DEF TakeSnapshot, chainVars, cacheVars
<1>6. CASE (\E id \in DOMAIN snapshots : Revert(id)) \/ Reset
  BY <1>6 DEF Revert, Reset
<1> QED
  BY <1>1, <1>2, <1>3, <1>4, <1>5, <1>6 DEF Next

LEMMA NextImportList ==
  ASSUME Inv, job.phase = "import"
  PROVE  /\ NextImport \in [phase : {"idle", "fetch", "import"}, list : Seq(Payload)]
         /\ NextImport.phase # "idle" => NextImport.list # <<>>
         /\ Len(NextImport.list) = Len(job.list) - 1
         /\ \A i \in 1..Len(NextImport.list) : NextImport.list[i] = job.list[i + 1]
<1>1. /\ job \in [phase : {"idle", "fetch", "import"}, list : Seq(Payload)]
      /\ job.list \in Seq(Payload) /\ job.list # <<>>
  BY DEF Inv, JobSound
<1>2. /\ Len(job.list) \in Nat \ {0}
      /\ Tail(job.list) \in Seq(Payload) /\ Len(Tail(job.list)) = Len(job.list) - 1
      /\ \A i \in 1..Len(Tail(job.list)) : Tail(job.list)[i] = job.list[i + 1]
  BY <1>1, HeadTailProperties, EmptySeq
<1>3. CASE Len(job.list) = 1
  BY <1>3 DEF NextImport, IdleJob
<1>4. CASE Len(job.list) # 1
  <2>1. NextImport = [job EXCEPT !.list = Tail(job.list)]
    BY <1>4 DEF NextImport
  <2>2. /\ NextImport.list = Tail(job.list) /\ NextImport.phase = job.phase
        /\ NextImport \in [phase : {"idle", "fetch", "import"}, list : Seq(Payload)]
    BY <1>1, <1>2, <2>1
  <2>3. Tail(job.list) # <<>>
    <3>1. Len(Tail(job.list)) # 0
      BY <1>2, <1>4
    <3> QED
      BY <3>1, EmptySeq
  <2> QED
    BY <1>2, <2>2, <2>3
<1> QED
  BY <1>3, <1>4

(* A fetched ancestor is new to the list: otherwise some of the payloads   *)
(* would descend from one another in a circle.                             *)
LEMMA AncestorIsNew ==
  ASSUME Inv, FetchAncestor, NEW j \in 1..Len(job.list)
  PROVE  job.list[j] # Cursor
<1> SUFFICES ASSUME job.list[j] = Cursor PROVE FALSE
  OBVIOUS
<1>1. job.list \in Seq(Payload) /\ job.list # <<>> /\ Len(job.list) \in Nat
  BY LenProperties DEF Inv, JobSound, FetchAncestor
<1> DEFINE S == {job.list[i] : i \in 1..j}
<1>2. S \in SUBSET Payload /\ job.list[1] \in S
  BY <1>1, ElementOfSeq
<1>3. PICK b \in S : Parent[b] \notin S
  BY <1>2, EngineAssumption
<1>4. PICK i \in 1..j : b = job.list[i]
  BY <1>3
<1>5. CASE i = 1
  <2>1. Parent[b] = Cursor
    BY <1>1, <1>4, <1>5 DEF Cursor
  <2>2. Cursor \in S
    OBVIOUS
  <2> QED
    BY <1>3, <2>1, <2>2
<1>6. CASE i > 1
  <2>1. i \in 1..Len(job.list) /\ i - 1 \in 1..j
    BY <1>1, <1>4, <1>6
  <2>2. Parent[b] = job.list[i - 1]
    BY <1>4, <1>6, <2>1 DEF Inv, JobSound
  <2> QED
    BY <1>3, <2>1, <2>2
<1> QED
  BY <1>4, <1>5, <1>6

LEMMA IdleIsSound == ASSUME job' = IdleJob PROVE JobSound'
BY DEF JobSound, IdleJob

LEMMA JobStep == Inv /\ [Next]_vars => JobSound'
<1> SUFFICES ASSUME Inv, [Next]_vars PROVE JobSound'
  OBVIOUS
<1>1. ASSUME NEW b \in Payload, NewPayload(b) PROVE JobSound'
  <2>1. /\ job' = [phase |-> "fetch", list |-> <<b>>] /\ UNCHANGED <<store, invalid>>
        /\ b \notin DOMAIN store \cup DOMAIN invalid
    BY <1>1 DEF NewPayload, chainVars, cacheVars
  <2>2. <<b>> \in Seq(Payload) /\ Len(<<b>>) = 1 /\ <<b>>[1] = b /\ <<b>> # <<>>
    OBVIOUS
  <2> QED
    BY <2>1, <2>2 DEF JobSound
<1>2. CASE FetchDone
  <2>1. /\ UNCHANGED <<store, invalid>> /\ job' = [job EXCEPT !.phase = "import"]
        /\ job.phase = "fetch"
    BY <1>2 DEF FetchDone, chainVars, cacheVars
  <2>2. job'.list = job.list /\ job'.phase = "import"
        /\ job' \in [phase : {"idle", "fetch", "import"}, list : Seq(Payload)]
    BY <2>1 DEF Inv, JobSound
  <2> QED
    BY <2>1, <2>2 DEF Inv, JobSound
<1>3. CASE FetchAncestor
  <2> DEFINE new == <<Cursor>> \o job.list
  <2>1. /\ UNCHANGED <<store, invalid>> /\ job' = [job EXCEPT !.list = new]
        /\ job.phase = "fetch" /\ Cursor \in Payload
        /\ Cursor \notin DOMAIN store \cup DOMAIN invalid
    BY <1>3 DEF FetchAncestor, chainVars, cacheVars
  <2>2. job.list \in Seq(Payload) /\ Len(job.list) \in Nat \ {0} /\ Head(job.list) = job.list[1]
    BY <2>1, EmptySeq DEF Inv, JobSound
  <2>3. /\ new \in Seq(Payload) /\ Len(new) = Len(job.list) + 1
        /\ new[1] = Cursor /\ \A i \in 2..Len(new) : new[i] = job.list[i - 1]
        /\ new # <<>>
    <3>1. <<Cursor>> \in Seq(Payload) /\ Len(<<Cursor>>) = 1 /\ <<Cursor>>[1] = Cursor
      BY <2>1
    <3>2. /\ new \in Seq(Payload) /\ Len(new) = 1 + Len(job.list)
          /\ \A i \in 1..(1 + Len(job.list)) :
               new[i] = IF i <= 1 THEN <<Cursor>>[i] ELSE job.list[i - 1]
      BY <2>2, <3>1, ConcatProperties
    <3> HIDE DEF new
    <3>3. Len(new) # 0
      BY <2>2, <3>2
    <3> QED
      BY <2>2, <3>1, <3>2, <3>3, EmptySeq
  <2> HIDE DEF new
  <2>4. job'.list = new /\ job'.phase = "fetch"
        /\ job' \in [phase : {"idle", "fetch", "import"}, list : Seq(Payload)]
    BY <2>1, <2>3 DEF Inv, JobSound
  <2>5. \A i \in 1..Len(new) : new[i] \notin DOMAIN store \cup DOMAIN invalid
    <3> SUFFICES ASSUME NEW i \in 1..Len(new)
                 PROVE  new[i] \notin DOMAIN store \cup DOMAIN invalid
      OBVIOUS
    <3>1. CASE i = 1
      BY <2>1, <2>3, <3>1
    <3>2. CASE i # 1
      <4>1. new[i] = job.list[i - 1] /\ i - 1 \in 1..Len(job.list)
        BY <2>2, <2>3, <3>2
      <4> QED
        BY <4>1 DEF Inv, JobSound
    <3> QED
      BY <3>1, <3>2
  <2>6. \A i \in 1..Len(new) : i > 1 => Parent[new[i]] = new[i - 1]
    <3> SUFFICES ASSUME NEW i \in 1..Len(new), i > 1 PROVE Parent[new[i]] = new[i - 1]
      OBVIOUS
    <3>1. new[i] = job.list[i - 1] /\ i - 1 \in 1..Len(job.list)
      BY <2>2, <2>3
    <3>2. CASE i = 2
      BY <2>2, <2>3, <3>1, <3>2 DEF Cursor
    <3>3. CASE i > 2
      <4>1. new[i - 1] = job.list[(i - 1) - 1] /\ i - 1 > 1
        BY <2>2, <2>3, <3>3
      <4> QED
        BY <3>1, <4>1 DEF Inv, JobSound
    <3> QED
      BY <3>2, <3>3
  <2>7. \A i, k \in 1..Len(new) : i # k => new[i] # new[k]
    <3>1. \A k \in 2..Len(new) : new[k] = job.list[k - 1] /\ k - 1 \in 1..Len(job.list)
      BY <2>2, <2>3
    <3>2. \A k \in 2..Len(new) : new[k] # new[1]
      BY <1>3, <2>3, <3>1, AncestorIsNew
    <3>3. \A i, k \in 2..Len(new) : i # k => new[i] # new[k]
      <4> SUFFICES ASSUME NEW i \in 2..Len(new), NEW k \in 2..Len(new), i # k
                   PROVE  new[i] # new[k]
        OBVIOUS
      <4>1. i - 1 \in 1..Len(job.list) /\ k - 1 \in 1..Len(job.list)
        BY <3>1
      <4>2. i - 1 # k - 1
        OBVIOUS
      <4>3. job.list[i - 1] # job.list[k - 1]
        BY <4>1, <4>2 DEF Inv, JobSound
      <4> QED
        BY <3>1, <4>3
    <3>4. \A i \in 1..Len(new) : i = 1 \/ i \in 2..Len(new)
      BY <2>2, <2>3
    <3> QED
      BY <3>2, <3>3, <3>4
  <2> QED
    BY <2>1, <2>3, <2>4, <2>5, <2>6, <2>7 DEF JobSound
<1>4. CASE FetchFails \/ ImportError
  BY <1>4, IdleIsSound DEF FetchFails, ImportError
<1>5. CASE ImportInvalidChild \/ ImportValid \/ ImportBad
  <2>1. /\ job.phase = "import" /\ job' = NextImport
        /\ DOMAIN store' \subseteq DOMAIN store \cup {Importing}
        /\ DOMAIN invalid' \subseteq DOMAIN invalid \cup {Importing}
    BY <1>5 DEF ImportInvalidChild, ImportValid, ImportBad, With, chainVars
  <2>2. Importing = job.list[1] /\ Len(job.list) \in Nat \ {0}
    BY <2>1, ImportingBlock, EmptySeq DEF Inv, JobSound
  <2>3. \A i \in 1..Len(job'.list) :
          job'.list[i] = job.list[i + 1] /\ i + 1 \in 1..Len(job.list) /\ i + 1 # 1
    BY <2>1, <2>2, NextImportList
  <2>4. \A i \in 1..Len(job'.list) : job'.list[i] \notin DOMAIN store' \cup DOMAIN invalid'
    <3> SUFFICES ASSUME NEW i \in 1..Len(job'.list)
                 PROVE  job'.list[i] \notin DOMAIN store' \cup DOMAIN invalid'
      OBVIOUS
    <3>1. 1 \in 1..Len(job.list)
      BY <2>2
    <3>2. job.list[i + 1] # job.list[1]
      BY <2>3, <3>1 DEF Inv, JobSound
    <3>3. job.list[i + 1] \notin DOMAIN store \cup DOMAIN invalid
      BY <2>3 DEF Inv, JobSound
    <3> QED
      BY <2>1, <2>2, <2>3, <3>2, <3>3
  <2>5. \A i \in 1..Len(job'.list) : i > 1 => Parent[job'.list[i]] = job'.list[i - 1]
    <3> SUFFICES ASSUME NEW i \in 1..Len(job'.list), i > 1
                 PROVE  Parent[job'.list[i]] = job'.list[i - 1]
      OBVIOUS
    <3>1. i - 1 \in 1..Len(job'.list) /\ (i - 1) + 1 = i /\ (i + 1) - 1 = i /\ i + 1 > 1
      BY <2>1, <2>2, NextImportList
    <3>2. Parent[job.list[i + 1]] = job.list[(i + 1) - 1]
      BY <2>3, <3>1 DEF Inv, JobSound
    <3>3. job'.list[i - 1] = job.list[(i - 1) + 1]
      BY <2>3, <3>1
    <3> QED
      BY <2>3, <3>1, <3>2, <3>3
  <2>6. \A i, k \in 1..Len(job'.list) : i # k => job'.list[i] # job'.list[k]
    <3> SUFFICES ASSUME NEW i \in 1..Len(job'.list), NEW k \in 1..Len(job'.list), i # k
                 PROVE  job'.list[i] # job'.list[k]
      OBVIOUS
    <3>1. i + 1 # k + 1
      OBVIOUS
    <3>2. /\ i + 1 \in 1..Len(job.list) /\ k + 1 \in 1..Len(job.list)
          /\ job'.list[i] = job.list[i + 1] /\ job'.list[k] = job.list[k + 1]
      BY <2>3
    <3>3. \A n, m \in 1..Len(job.list) : n # m => job.list[n] # job.list[m]
      BY DEF Inv, JobSound
    <3> QED
      BY <3>1, <3>2, <3>3
  <2>7. /\ job' \in [phase : {"idle", "fetch", "import"}, list : Seq(Payload)]
        /\ job'.phase # "idle" => job'.list # <<>>
    BY <2>1, NextImportList
  <2> QED
    BY <2>4, <2>5, <2>6, <2>7 DEF JobSound
<1>6. CASE UNCHANGED vars
  BY <1>6 DEF vars, chainVars, cacheVars, Inv, JobSound
<1>7. CASE ~ImportStep /\ (~\E b \in Payload : NewPayload(b)) /\ ~UNCHANGED vars
  BY <1>7, OutsideImport, IdleIsSound DEF Idle
<1> QED
  BY <1>1, <1>2, <1>3, <1>4, <1>5, <1>6, <1>7 DEF ImportStep

(* The import state is that of the block last imported, or untouched. *)
LEMMA CacheStep == Inv /\ [Next]_vars => CacheSound'
<1> SUFFICES ASSUME Inv, [Next]_vars PROVE CacheSound'
  OBVIOUS
<1>1. ASSUME UNCHANGED <<importState, store>> PROVE CacheSound'
  BY <1>1 DEF Inv, CacheSound
<1>2. CASE ImportValid
  <2>1. /\ Cursor \in DOMAIN store /\ Importing \notin DOMAIN store
        /\ ImportBase = store[Cursor]
    <3>1. Cursor = Parent[Importing] /\ Importing \notin DOMAIN store /\ Cursor \in DOMAIN store
      BY <1>2, ImportingBlock DEF ImportValid
    <3>2. ImportBase = store[Cursor]
      BY <1>2, <3>1 DEF ImportValid, ValidOn
    <3> QED
      BY <3>1, <3>2
  <2>2. /\ store' = With(store, Importing, Append(store[Cursor], Importing))
        /\ importState' = [hash |-> Importing, state |-> Append(store[Cursor], Importing)]
    BY <1>2, <2>1 DEF ImportValid
  <2> QED
    BY <2>2 DEF CacheSound, With
<1>3. CASE FetchDone \/ FetchAncestor \/ FetchFails \/ ImportInvalidChild \/ ImportBad \/ ImportError
  BY <1>1, <1>3 DEF FetchDone, FetchAncestor, FetchFails, ImportInvalidChild, ImportBad,
                    ImportError, chainVars, cacheVars
<1>4. CASE \E b \in Payload : NewPayload(b)
  BY <1>1, <1>4 DEF NewPayload, chainVars, cacheVars
<1>5. CASE UNCHANGED vars
  BY <1>1, <1>5 DEF vars, chainVars, cacheVars
<1>6. CASE ~ImportStep /\ (~\E b \in Payload : NewPayload(b)) /\ ~UNCHANGED vars
  <2>1. CASE UNCHANGED <<importState, invalid, mined, store>>
    BY <1>1, <2>1
  <2>2. ASSUME NEW m \in Mined, NEW txs \in SUBSET pool, MineBlock(m, txs) PROVE CacheSound'
    <3>1. m \notin DOMAIN store
      BY <2>2, EngineAssumption DEF Inv, Sound, Now, Branches, MineBlock
    <3>2. importState' = importState /\ store' = With(store, m, Append(store[HeadHash], m))
      BY <2>2 DEF MineBlock, cacheVars
    <3> QED
      BY <3>1, <3>2 DEF Inv, CacheSound, With
  <2>3. CASE importState' = None
    BY <2>3 DEF CacheSound
  <2> QED
    BY <1>6, <2>1, <2>2, <2>3, OutsideImport
<1> QED
  BY <1>2, <1>3, <1>4, <1>5, <1>6 DEF ImportStep

(* What a stored branch has executed does not change. *)
LEMMA ExecutedStays ==
  ASSUME Branches(store, mined), NEW p \in DOMAIN store, store'[p] = store[p],
         DOMAIN mined \subseteq DOMAIN mined', \A m \in DOMAIN mined : mined'[m] = mined[m],
         DOMAIN mined' \subseteq Mined
  PROVE  Executed(store[p])' = Executed(store[p])
<1>1. store[p] \in Seq(DOMAIN store)
  BY SeqMonotonic DEF Branches
<1>2. \A c \in InPath(store[p]) : c \in DOMAIN store
  BY <1>1, ElementOfSeq, LenProperties DEF InPath
<1>3. \A c \in InPath(store[p]) : Body(c)' = Body(c)
  BY <1>2 DEF Body, Branches
<1>4. InPath(store[p])' = InPath(store[p])
  BY DEF InPath
<1> QED
  BY <1>3, <1>4 DEF Executed

(* The reason a payload is invalid lasts as long as stored blocks do. *)
LEMMA InvalidStays ==
  ASSUME Inv, UNCHANGED invalid,
         DOMAIN store \subseteq DOMAIN store', \A c \in DOMAIN store : store'[c] = store[c],
         DOMAIN store' \cap DOMAIN invalid = {},
         DOMAIN mined \subseteq DOMAIN mined', \A m \in DOMAIN mined : mined'[m] = mined[m],
         DOMAIN mined' \subseteq Mined
  PROVE  InvalidSound'
<1>1. ASSUME NEW b \in DOMAIN invalid, Parent[b] \notin DOMAIN invalid
      PROVE  /\ invalid[b] = Parent[b]
             /\ Parent[b] \in DOMAIN store'
             /\ ~ValidOn(b, store[Parent[b]])'
  <2>1. /\ invalid[b] = Parent[b] /\ Parent[b] \in DOMAIN store
        /\ ~ValidOn(b, store[Parent[b]])
    BY <1>1 DEF Inv, InvalidSound, InvalidIsJustified
  <2>2. Executed(store[Parent[b]])' = Executed(store[Parent[b]])
    BY <2>1, ExecutedStays DEF Inv, Sound, Now
  <2> QED
    BY <2>1, <2>2 DEF ValidOn
<1>2. InvalidIsJustified'
  BY <1>1 DEF Inv, InvalidSound, InvalidIsJustified
<1> QED
  BY <1>2 DEF Inv, InvalidSound

LEMMA InvalidStep == Inv /\ [Next]_vars => InvalidSound'
<1> SUFFICES ASSUME Inv, [Next]_vars PROVE InvalidSound'
  OBVIOUS
<1>1. ASSUME UNCHANGED <<invalid, store, mined>> PROVE InvalidSound'
  BY <1>1, InvalidStays DEF Inv, InvalidSound
<1>2. CASE ImportValid
  <2>1. Importing \notin DOMAIN store \cup DOMAIN invalid
    BY <1>2, ImportingBlock DEF ImportValid
  <2>2. /\ store' = With(store, Importing, Append(store[Cursor], Importing))
        /\ UNCHANGED <<invalid, mined>>
    BY <1>2 DEF ImportValid
  <2>3. /\ DOMAIN store' = DOMAIN store \cup {Importing}
        /\ \A c \in DOMAIN store : store'[c] = store[c]
    BY <2>1, <2>2 DEF With
  <2> QED
    BY <2>1, <2>2, <2>3, InvalidStays DEF Inv, InvalidSound
<1>3. CASE ImportInvalidChild \/ ImportBad
  <2>1. /\ Importing \in Payload
        /\ Importing \notin DOMAIN store \cup DOMAIN invalid
        /\ Cursor = Parent[Importing]
        /\ UNCHANGED <<store, mined>>
    BY <1>3, ImportingBlock DEF ImportInvalidChild, ImportBad, chainVars
  <2>2. PICK reason : /\ invalid' = With(invalid, Importing, reason)
                      /\ \/ Cursor \in DOMAIN invalid /\ reason = invalid[Cursor]
                         \/ /\ Cursor \in DOMAIN store /\ reason = Cursor
                            /\ ~ValidOn(Importing, store[Cursor])
    <3>1. CASE ImportInvalidChild
      BY <3>1 DEF ImportInvalidChild
    <3>2. CASE ImportBad
      <4>1. ImportBase = store[Cursor]
        BY <3>2 DEF ImportBad, ImportBase, ImportIsCached, Inv, CacheSound
      <4> QED
        BY <3>2, <4>1 DEF ImportBad
    <3> QED
      BY <1>3, <3>1, <3>2
  <2>3. /\ DOMAIN invalid' = DOMAIN invalid \cup {Importing}
        /\ invalid'[Importing] = reason
        /\ \A b \in DOMAIN invalid : invalid'[b] = invalid[b]
    BY <2>1, <2>2 DEF With
  <2>4. Cursor # Importing /\ DOMAIN invalid \cap DOMAIN store = {}
    BY <2>1, <2>2 DEF Inv, InvalidSound
  <2>5. ASSUME NEW b \in DOMAIN invalid
        PROVE  /\ Parent[b] \in DOMAIN invalid' => invalid'[b] = invalid'[Parent[b]]
               /\ Parent[b] \notin DOMAIN invalid' =>
                    /\ invalid'[b] = Parent[b]
                    /\ Parent[b] \in DOMAIN store'
                    /\ ~ValidOn(b, store[Parent[b]])
    BY <2>1, <2>3 DEF Inv, InvalidSound, InvalidIsJustified
  <2>6. /\ Cursor \in DOMAIN invalid' => invalid'[Importing] = invalid'[Cursor]
        /\ Cursor \notin DOMAIN invalid' =>
             /\ invalid'[Importing] = Cursor
             /\ Cursor \in DOMAIN store'
             /\ ~ValidOn(Importing, store[Cursor])
    BY <2>1, <2>2, <2>3, <2>4
  <2>7. ASSUME NEW b \in DOMAIN invalid'
        PROVE  ValidOn(b, store[Parent[b]])' <=> ValidOn(b, store[Parent[b]])
    BY <2>1 DEF ValidOn, Executed, InPath, Body
  <2>8. InvalidIsJustified'
    BY <2>1, <2>3, <2>5, <2>6, <2>7 DEF InvalidIsJustified
  <2> QED
    BY <2>1, <2>3, <2>8 DEF Inv, InvalidSound
<1>4. CASE FetchDone \/ FetchAncestor \/ FetchFails \/ ImportError
  BY <1>1, <1>4 DEF FetchDone, FetchAncestor, FetchFails, ImportError, chainVars, cacheVars
<1>5. CASE \E b \in Payload : NewPayload(b)
  BY <1>1, <1>5 DEF NewPayload, chainVars, cacheVars
<1>6. CASE UNCHANGED vars
  BY <1>1, <1>6 DEF vars, chainVars, cacheVars
<1>7. CASE ~ImportStep /\ (~\E b \in Payload : NewPayload(b)) /\ ~UNCHANGED vars
  <2>1. CASE UNCHANGED <<importState, invalid, mined, store>>
    BY <1>1, <2>1
  <2>2. ASSUME NEW m \in Mined, NEW txs \in SUBSET pool, MineBlock(m, txs) PROVE InvalidSound'
    <3>1. m \notin DOMAIN mined /\ m \notin DOMAIN store /\ m \notin Payload
      BY <2>2, EngineAssumption DEF Inv, Sound, Now, Branches, MineBlock
    <3>2. /\ invalid' = invalid /\ mined' = With(mined, m, txs)
          /\ store' = With(store, m, Append(store[HeadHash], m))
      BY <2>2 DEF MineBlock, cacheVars
    <3>3. /\ DOMAIN store' = DOMAIN store \cup {m}
          /\ \A c \in DOMAIN store : store'[c] = store[c]
          /\ DOMAIN mined' = DOMAIN mined \cup {m}
          /\ \A c \in DOMAIN mined : mined'[c] = mined[c]
      BY <3>1, <3>2 DEF With
    <3> QED
      BY <3>1, <3>2, <3>3, InvalidStays DEF Inv, InvalidSound
  <2>3. CASE invalid' = [b \in {} |-> Genesis]
    BY <2>3 DEF InvalidSound, InvalidIsJustified
  <2> QED
    BY <1>7, <2>1, <2>2, <2>3, OutsideImport
<1> QED
  BY <1>2, <1>3, <1>4, <1>5, <1>6, <1>7 DEF ImportStep

-----------------------------------------------------------------------------
(* Reads by number: what is canonical above the head, and the cached state *)
(* of a replay.  Both are right while every stored branch replays: its     *)
(* blocks are signed, and no two of them share a transaction.              *)

SignedIn(mn, b) == BodyIn(mn, b) \cap Unsigned = {}
AllSigned(st, mn) == \A b \in DOMAIN st \ {Genesis} : SignedIn(mn, b)

BranchesDisjoint(st, mn) ==
  \A b \in DOMAIN st : \A i, j \in 1..Len(st[b]) :
    i < j => BodyIn(mn, st[b][j]) \cap BodyIn(mn, st[b][i]) = {}

Replays(st, mn) == AllSigned(st, mn) /\ BranchesDisjoint(st, mn)

(* A moment, present or in a snapshot, shows nothing above its head. *)
Tidy(r, mn) ==
  Replays(r.store, mn) /\ ~r.mixed => \A n \in DOMAIN r.canonical : n <= r.head

(* The cached replay is of the stored block it names, canonical or not. *)
ReplayExact ==
  Replays(store, mined) /\ replayCache # None =>
    /\ replayCache.hash \in DOMAIN store
    /\ replayCache.number = Len(store[replayCache.hash])
    /\ replayCache.state = store[replayCache.hash]

ReadInv ==
  /\ DOMAIN canonical \subseteq Nat
  /\ \A id \in DOMAIN snapshots : DOMAIN Restored(id).canonical \subseteq Nat
  /\ Tidy(Now, mined)
  /\ \A id \in DOMAIN snapshots : Tidy(Restored(id), mined)
  /\ ReplayExact

(* Stored blocks keep their bodies when others are mined. *)
LEMMA BodyStays ==
  ASSUME NEW st, NEW mn, Branches(st, mn), NEW mn2,
         DOMAIN mn \subseteq DOMAIN mn2, \A m \in DOMAIN mn : mn2[m] = mn[m],
         DOMAIN mn2 \subseteq Mined
  PROVE  \A c \in DOMAIN st : BodyIn(mn2, c) = BodyIn(mn, c)
BY DEF Branches, BodyIn

(* The blocks of a stored branch are stored. *)
LEMMA BranchIsStored ==
  ASSUME NEW st, NEW mn, Branches(st, mn), NEW b \in DOMAIN st
  PROVE  /\ st[b] \in Seq(DOMAIN st)
         /\ DOMAIN st[b] = 1..Len(st[b])
         /\ Len(st[b]) \in Nat
         /\ \A i \in 1..Len(st[b]) : st[b][i] \in DOMAIN st \ {Genesis}
<1>1. st[b] \in Seq(DOMAIN st \ {Genesis})
  BY DEF Branches
<1> QED
  BY <1>1, SeqMonotonic, LenProperties, ElementOfSeq

(* Branches that replay did so when there were fewer of them. *)
LEMMA ReplaysBefore ==
  ASSUME NEW st, NEW mn, Branches(st, mn), NEW st2, NEW mn2,
         DOMAIN st \subseteq DOMAIN st2, \A c \in DOMAIN st : st2[c] = st[c],
         DOMAIN mn \subseteq DOMAIN mn2, \A m \in DOMAIN mn : mn2[m] = mn[m],
         DOMAIN mn2 \subseteq Mined,
         Replays(st2, mn2)
  PROVE  Replays(st, mn)
<1>1. \A c \in DOMAIN st : BodyIn(mn2, c) = BodyIn(mn, c)
  BY BodyStays
<1>2. AllSigned(st, mn)
  BY <1>1 DEF Replays, AllSigned, SignedIn
<1>3. BranchesDisjoint(st, mn)
  <2> SUFFICES ASSUME NEW b \in DOMAIN st, NEW i \in 1..Len(st[b]), NEW j \in 1..Len(st[b]), i < j
               PROVE  BodyIn(mn, st[b][j]) \cap BodyIn(mn, st[b][i]) = {}
    BY DEF BranchesDisjoint
  <2>1. st2[b] = st[b] /\ b \in DOMAIN st2
    OBVIOUS
  <2>2. BodyIn(mn2, st[b][j]) \cap BodyIn(mn2, st[b][i]) = {}
    BY <2>1 DEF Replays, BranchesDisjoint
  <2>3. st[b][i] \in DOMAIN st /\ st[b][j] \in DOMAIN st
    BY BranchIsStored
  <2> QED
    BY <1>1, <2>2, <2>3
<1> QED
  BY <1>2, <1>3 DEF Replays

LEMMA TidyStays ==
  ASSUME NEW r, NEW mn, Branches(r.store, mn), Tidy(r, mn), NEW mn2,
         DOMAIN mn \subseteq DOMAIN mn2, \A m \in DOMAIN mn : mn2[m] = mn[m],
         DOMAIN mn2 \subseteq Mined
  PROVE  Tidy(r, mn2)
<1>1. Replays(r.store, mn2) => Replays(r.store, mn)
  BY ReplaysBefore
<1> QED
  BY <1>1 DEF Tidy

(* Any part of a stored branch replays on what comes before it. *)
LEMMA StoredRuns ==
  ASSUME Branches(store, mined), Replays(store, mined),
         NEW b \in DOMAIN store, NEW k \in 0..Len(store[b]), NEW n \in k..Len(store[b])
  PROVE  RunsAll(SubSeq(store[b], k + 1, n), SubSeq(store[b], 1, k))
<1> DEFINE s == store[b]
           base == SubSeq(s, 1, k)
           path == SubSeq(s, k + 1, n)
<1>1. /\ s \in Seq(DOMAIN store) /\ Len(s) \in Nat
      /\ \A i \in 1..Len(s) : s[i] \in DOMAIN store \ {Genesis}
  BY BranchIsStored
<1>2. k \in Nat /\ n \in Nat /\ k <= n /\ n <= Len(s)
  BY <1>1
<1>3. \A i \in 1..Len(s) : s[i] \in DOMAIN store
  BY <1>1
<1>4. /\ base \in Seq(DOMAIN store) /\ Len(base) = k
      /\ \A i \in 1..k : base[i] = s[i]
  <2>1. \A i \in 1..k : s[i] \in DOMAIN store
    BY <1>2, <1>3, <1>1
  <2> HIDE DEF s
  <2> QED
    BY <1>1, <1>2, <2>1, SubSeqProperties
<1>5. /\ path \in Seq(DOMAIN store) /\ Len(path) = n - k
      /\ \A i \in 1..(n - k) : path[i] = s[k + i]
  <2>1. \A i \in (k + 1)..n : s[i] \in DOMAIN store
    BY <1>2, <1>3, <1>1
  <2> HIDE DEF s
  <2>2. /\ path \in Seq(DOMAIN store)
        /\ Len(path) = IF k + 1 <= n THEN n - (k + 1) + 1 ELSE 0
        /\ \A i \in 1..(n - (k + 1) + 1) : path[i] = s[k + 1 + i - 1]
    BY <1>2, <2>1, SubSeqProperties
  <2> HIDE DEF path
  <2>3. n - (k + 1) + 1 = n - k
    BY <1>2
  <2>4. \A i \in Nat : k + 1 + i - 1 = k + i
    BY <1>2
  <2> QED
    BY <1>2, <2>2, <2>3, <2>4
<1> HIDE DEF s, base, path
<1>6. ASSUME NEW i \in DOMAIN path
      PROVE  Runs(path[i], base \o SubSeq(path, 1, i - 1))
  <2> DEFINE before == SubSeq(path, 1, i - 1)
             q == base \o before
  <2>1. i \in 1..(n - k) /\ i \in Nat /\ path[i] = s[k + i] /\ k + i \in 1..Len(s)
    BY <1>1, <1>2, <1>5, <1>6, LenProperties
  <2>2. /\ before \in Seq(DOMAIN store) /\ Len(before) = i - 1
        /\ \A j \in 1..(i - 1) : before[j] = path[j]
    <3>1. ASSUME NEW j \in 1..(i - 1) PROVE path[j] \in DOMAIN store
      <4>1. j \in 1..Len(path)
        BY <1>2, <1>5, <2>1
      <4> QED
        BY <1>5, <4>1, ElementOfSeq
    <3>2. /\ before \in Seq(DOMAIN store)
          /\ Len(before) = IF 1 <= i - 1 THEN (i - 1) - 1 + 1 ELSE 0
          /\ \A j \in 1..((i - 1) - 1 + 1) : before[j] = path[1 + j - 1]
      BY <2>1, <3>1, SubSeqProperties
    <3> HIDE DEF before
    <3> QED
      BY <2>1, <3>2
  <2> HIDE DEF before
  <2>3. /\ q \in Seq(DOMAIN store) /\ Len(q) = k + (i - 1)
        /\ \A j \in 1..(k + (i - 1)) : q[j] = IF j <= k THEN base[j] ELSE before[j - k]
    <3>1. /\ q \in Seq(DOMAIN store) /\ Len(q) = Len(base) + Len(before)
          /\ \A j \in 1..(Len(base) + Len(before)) :
               q[j] = IF j <= Len(base) THEN base[j] ELSE before[j - Len(base)]
      BY <1>4, <2>2, ConcatProperties
    <3> HIDE DEF q
    <3> QED
      BY <1>4, <2>2, <3>1
  <2> HIDE DEF q
  <2>4. DOMAIN q = 1..(k + i - 1)
    BY <1>2, <2>1, <2>3, LenProperties
  <2>5. ASSUME NEW j \in DOMAIN q PROVE q[j] = s[j] /\ j \in 1..Len(s) /\ j < k + i
    <3>1. j \in Nat /\ 1 <= j /\ j <= k + i - 1
      BY <1>2, <2>1, <2>4
    <3>2. CASE j <= k
      BY <1>1, <1>2, <1>4, <2>1, <2>3, <3>1, <3>2
    <3>3. CASE ~(j <= k)
      <4>1. j - k \in 1..(i - 1) /\ j - k \in 1..(n - k) /\ k + (j - k) = j
        BY <1>2, <2>1, <3>1, <3>3
      <4>2. j \in 1..(k + (i - 1))
        BY <1>2, <2>1, <3>1
      <4>3. q[j] = before[j - k]
        BY <2>3, <3>3, <4>2
      <4>4. before[j - k] = path[j - k]
        BY <2>2, <4>1
      <4>5. path[j - k] = s[j]
        BY <1>5, <4>1
      <4>6. j \in 1..Len(s) /\ j < k + i
        BY <1>1, <1>2, <2>1, <3>1
      <4> QED
        BY <4>3, <4>4, <4>5, <4>6
    <3> QED
      BY <3>2, <3>3
  <2>6. Signed(path[i])
    BY <1>1, <2>1 DEF Replays, AllSigned, SignedIn, Signed, Body, BodyIn
  <2>7. ASSUME NEW j \in DOMAIN q PROVE Body(path[i]) \cap Body(q[j]) = {}
    <3>1. PICK l \in 1..Len(s) : l < k + i /\ q[j] = s[l]
      BY <2>5
    <3>2. BodyIn(mined, s[k + i]) \cap BodyIn(mined, s[l]) = {}
      BY <2>1, <3>1 DEF Replays, BranchesDisjoint, s
    <3> QED
      BY <2>1, <3>1, <3>2 DEF Body, BodyIn
  <2>8. Body(path[i]) \cap Executed(q) = {}
    BY <2>7 DEF Executed, InPath
  <2> QED
    BY <2>6, <2>8 DEF Runs, q, before
<1> QED
  BY <1>6 DEF RunsAll, path, base, s

(* The head and its branch. *)
LEMMA HeadFacts ==
  ASSUME Inv
  PROVE  /\ Branches(store, mined)
         /\ DOMAIN mined \subseteq Mined
         /\ HeadHash \in DOMAIN store
         /\ head = Len(store[HeadHash])
         /\ ~mixed => state = store[HeadHash]
         /\ \A n \in 1..head : n \in DOMAIN canonical /\ canonical[n] = store[HeadHash][n]
<1>1. PICK h \in DOMAIN store : HeadIs(Now, h)
  BY DEF Inv, Sound, Now
<1>2. Branches(store, mined) /\ DOMAIN mined \subseteq Mined
  BY DEF Inv, Sound, Now
<1>3. HeadHash = h
  BY <1>1, <1>2, HeadIsCanonical
<1> QED
  BY <1>1, <1>2, <1>3 DEF HeadIs, Now

(* A part of a branch, cut off at both ends, and the whole of it. *)
LEMMA PartOfBranch ==
  ASSUME NEW S, NEW s \in Seq(S), NEW k \in 0..Len(s), NEW n \in k..Len(s)
  PROVE  /\ SubSeq(s, k + 1, n) = [i \in 1..(n - k) |-> s[k + i]]
         /\ SubSeq(s, 1, k) \o SubSeq(s, k + 1, n) = SubSeq(s, 1, n)
         /\ SubSeq(s, 1, 0) = <<>>
         /\ SubSeq(s, 1, Len(s)) = s
<1>1. Len(s) \in Nat /\ k \in Nat /\ n \in Nat /\ k <= n /\ n <= Len(s)
  BY LenProperties
<1>2. SubSeq(s, 1, 0) = <<>> /\ SubSeq(s, 1, Len(s)) = s
  BY SubSeqEmpty, SubSeqFull
<1>3. SubSeq(s, 1, k) \o SubSeq(s, k + 1, n) = SubSeq(s, 1, n)
  BY <1>1, ConcatAdjacentSubSeq
<1>4. SubSeq(s, k + 1, n) = [i \in 1..(n - k) |-> s[k + i]]
  BY <1>1
<1> QED
  BY <1>2, <1>3, <1>4

(* While every stored branch replays, no forkchoice fails half-way. *)
LEMMA ForkchoiceMaterializes ==
  ASSUME Inv, Replays(store, mined), ~mixed, NEW b \in DOMAIN store
  PROVE  Materializes(b)
<1> DEFINE s == store[b]
           h == HeadHash
<1>1. /\ Branches(store, mined) /\ h \in DOMAIN store
      /\ head = Len(store[h]) /\ state = store[h]
  BY HeadFacts
<1>2. /\ s \in Seq(DOMAIN store) /\ DOMAIN s = 1..Len(s) /\ Len(s) \in Nat
  BY <1>1, BranchIsStored
<1>3. CASE ~CanExtend(b)
  <2>1. 0 \in 0..Len(s) /\ Len(s) \in 0..Len(s) /\ 0 + 1 = 1
    BY <1>2
  <2>2. RunsAll(SubSeq(s, 1, Len(s)), SubSeq(s, 1, 0))
    BY <1>1, <2>1, StoredRuns
  <2>3. SubSeq(s, 1, Len(s)) = s /\ SubSeq(s, 1, 0) = <<>>
    <3> HIDE DEF s
    <3> QED
      BY <1>2, <2>1, PartOfBranch
  <2>4. RunsAll(s, <<>>)
    <3> HIDE DEF s
    <3> QED
      BY <2>2, <2>3
  <2> QED
    BY <1>3, <2>4 DEF Materializes
<1>4. CASE CanExtend(b)
  <2>1. OnBranch(store, h, b)
    BY <1>2, <1>4 DEF CanExtend, IsAncestor, InPath, OnBranch
  <2>2. head \in 0..Len(s) /\ Len(s) \in head..Len(s)
    BY <1>1, <1>2, <2>1, AncestorIsPrefix
  <2>3. state = SubSeq(s, 1, head)
    <3>1. CASE h = Genesis
      <4>1. state = <<>> /\ head = 0
        BY <1>1, <3>1 DEF Branches
      <4> QED
        BY <1>2, <4>1, SubSeqEmpty
    <3>2. CASE h # Genesis
      <4>1. PICK i \in 1..Len(s) : s[i] = h
        BY <2>1, <3>2 DEF OnBranch
      <4>2. store[h] = SubSeq(s, 1, i)
        BY <1>1, <4>1 DEF Branches
      <4>3. Len(SubSeq(s, 1, i)) = i
        <5> HIDE DEF s
        <5> QED
          BY <1>2, <4>1
      <4>4. head = i
        BY <1>1, <4>2, <4>3
      <4> QED
        BY <1>1, <4>2, <4>4
    <3> QED
      BY <3>1, <3>2
  <2>4. RunsAll(SubSeq(s, head + 1, Len(s)), SubSeq(s, 1, head))
    BY <1>1, <2>2, StoredRuns
  <2> QED
    BY <1>4, <2>3, <2>4 DEF Materializes, Extension
<1> QED
  BY <1>3, <1>4

(* What a snapshot would restore stays tidy, whatever happens. *)
LEMMA SnapshotReads ==
  ASSUME Inv, ReadInv, [Next]_vars, NEW id \in DOMAIN snapshots'
  PROVE  DOMAIN Restored(id)'.canonical \subseteq Nat /\ Tidy(Restored(id)', mined')
<1>1. ASSUME NEW r, Sound(r, mined), Tidy(r, mined), Follows(r, Restored(id)')
      PROVE  Tidy(Restored(id)', mined')
  <2>1. Tidy(r, mined')
    BY <1>1, TidyStays, MinedGrows DEF Sound
  <2> QED
    BY <1>1, <2>1 DEF Tidy, Follows
<1>2. Sound(Now, mined) /\ Tidy(Now, mined) /\ DOMAIN Now.canonical \subseteq Nat
  BY DEF Inv, ReadInv, Now
<1>3. \A old \in DOMAIN snapshots :
        /\ Sound(Restored(old), mined) /\ Tidy(Restored(old), mined)
        /\ DOMAIN Restored(old).canonical \subseteq Nat
  BY DEF Inv, SnapshotSound, ReadInv
<1>4. ASSUME NEW r, Follows(r, Restored(id)') PROVE Restored(id)'.canonical = r.canonical
  BY <1>4 DEF Follows
<1> QED
  BY <1>1, <1>2, <1>3, <1>4, SnapshotMoments

(* Steps that leave the chain alone. *)
LEMMA QuietReads ==
  ASSUME Inv, ReadInv, [Next]_vars, UNCHANGED <<store, mined, canonical, head, mixed>>,
         replayCache' \in {replayCache, None}
  PROVE  ReadInv'
<1>1. /\ Now'.store = Now.store /\ Now'.canonical = Now.canonical /\ Now'.head = Now.head
      /\ Now'.mixed = Now.mixed /\ mined' = mined
  BY DEF Now
<1>2. Tidy(Now', mined')
  BY <1>1 DEF ReadInv, Tidy
<1>3. ReplayExact'
  BY DEF ReadInv, ReplayExact, Replays, AllSigned, SignedIn, BranchesDisjoint
<1> QED
  BY <1>2, <1>3, SnapshotReads DEF ReadInv

(* A new block on a stored one, whatever becomes of the head. *)
LEMMA GrowthReads ==
  ASSUME Inv, ReadInv, [Next]_vars, NEW p \in DOMAIN store, NEW b \in Block \ DOMAIN store,
         store' = With(store, b, Append(store[p], b)),
         DOMAIN canonical' \subseteq Nat,
         (\A n \in DOMAIN canonical : n <= head) => (\A n \in DOMAIN canonical' : n <= head'),
         mixed' = mixed, replayCache' \in {replayCache, None}
  PROVE  ReadInv'
<1>1. Branches(store, mined)
  BY HeadFacts
<1>2. DOMAIN store \subseteq DOMAIN store' /\ \A c \in DOMAIN store : store'[c] = store[c]
  BY DEF With
<1>3. Replays(store', mined') => Replays(store, mined)
  BY <1>1, <1>2, MinedGrows, ReplaysBefore
<1>4. Tidy(Now', mined')
  BY <1>3 DEF ReadInv, Tidy, Now
<1>5. ReplayExact'
  BY <1>2, <1>3 DEF ReadInv, ReplayExact
<1> QED
  BY <1>4, <1>5, SnapshotReads DEF ReadInv

LEMMA ImportValidReads ==
  ASSUME Inv, ReadInv, [Next]_vars, ImportValid
  PROVE  ReadInv'
<1>1. Importing \in Payload /\ Importing \notin DOMAIN store /\ Cursor \in DOMAIN store
  BY ImportingBlock DEF ImportValid
<1>2. /\ store' = With(store, Importing, Append(store[Cursor], Importing))
      /\ UNCHANGED <<canonical, head, mixed>>
      /\ replayCache' \in {replayCache, None}
  BY DEF ImportValid, snapshotVars
<1>3. Importing \in Block \ DOMAIN store /\ DOMAIN canonical' \subseteq Nat
  BY <1>1, <1>2 DEF Block, ReadInv
<1> QED
  BY <1>1, <1>2, <1>3, GrowthReads

LEMMA MineBlockReads ==
  ASSUME Inv, ReadInv, [Next]_vars, NEW m \in Mined, NEW txs \in SUBSET pool, MineBlock(m, txs)
  PROVE  ReadInv'
<1>1. /\ HeadHash \in DOMAIN store /\ Branches(store, mined) /\ head = Len(store[HeadHash])
  BY HeadFacts
<1>2. /\ m \notin DOMAIN mined
      /\ store' = With(store, m, Append(store[HeadHash], m))
      /\ canonical' = With(canonical, head + 1, m)
      /\ head' = head + 1
      /\ UNCHANGED <<mixed, replayCache>>
  BY DEF MineBlock, cacheVars, snapshotVars
<1>3. m \in Block \ DOMAIN store
  BY <1>1, <1>2 DEF Branches, Block
<1>4. DOMAIN canonical' = DOMAIN canonical \cup {head + 1}
  BY <1>2 DEF With
<1>5. DOMAIN canonical \subseteq Nat /\ head \in Nat
  BY <1>1, BranchIsStored DEF ReadInv
<1>6. DOMAIN canonical' \subseteq Nat
  BY <1>4, <1>5
<1>7. (\A n \in DOMAIN canonical : n <= head) => (\A n \in DOMAIN canonical' : n <= head')
  BY <1>2, <1>4, <1>5
<1> QED
  BY <1>1, <1>2, <1>3, <1>6, <1>7, GrowthReads

(* A forkchoice leaves nothing above its head; one that fails half-way is  *)
(* of a branch with a block that does not replay.                          *)
LEMMA ForkchoiceReads ==
  ASSUME Inv, ReadInv, [Next]_vars, NEW b \in Block, NEW s, NEW f,
         (\E build \in BOOLEAN : Forkchoice(b, s, f, build)) \/ ForkchoiceFails(b, s, f)
  PROVE  ReadInv'
<1>1. /\ Branches(store, mined) /\ b \in DOMAIN store
      /\ UNCHANGED <<store, mined, replayCache>>
  BY HeadFacts DEF Forkchoice, ForkchoiceFails, ForkchoiceIsSound, cacheVars
<1>2. DOMAIN store[b] = 1..Len(store[b]) /\ Len(store[b]) \in Nat
  BY <1>1, BranchIsStored
<1>3. /\ HeadHash \in DOMAIN store /\ head = Len(store[HeadHash])
      /\ DOMAIN store[HeadHash] = 1..Len(store[HeadHash]) /\ Len(store[HeadHash]) \in Nat
  BY <1>1, HeadFacts, BranchIsStored
<1>4. DOMAIN canonical \subseteq Nat
  BY DEF ReadInv
<1>5. DOMAIN canonical' \subseteq Nat
      /\ (Replays(store, mined) /\ ~mixed' => \A n \in DOMAIN canonical' : n <= head')
  <2>1. ASSUME NEW build \in BOOLEAN, Forkchoice(b, s, f, build), b = HeadHash
        PROVE  DOMAIN canonical' \subseteq Nat /\ \A n \in DOMAIN canonical' : n <= head'
    <3>1. canonical' = Pruned(canonical, head) /\ head' = head
      BY <1>3, <2>1 DEF Forkchoice
    <3> QED
      BY <1>4, <3>1 DEF Pruned
  <2>2. ASSUME NEW build \in BOOLEAN, Forkchoice(b, s, f, build), b # HeadHash
        PROVE  DOMAIN canonical' \subseteq Nat /\ \A n \in DOMAIN canonical' : n <= head'
    <3>1. /\ canonical' = Pruned(SetCanonicalHead(canonical, b), Len(store[b]))
          /\ head' = Len(store[b])
      BY <2>2 DEF Forkchoice
    <3>2. DOMAIN SetCanonicalHead(canonical, b) \subseteq Nat
      BY <1>2, <1>4 DEF SetCanonicalHead
    <3> QED
      BY <3>1, <3>2 DEF Pruned
  <2>3. ASSUME ForkchoiceFails(b, s, f)
        PROVE  DOMAIN canonical' \subseteq Nat /\ ~(Replays(store, mined) /\ ~mixed')
    <3>1. canonical' = SetCanonicalHead(SetCanonicalHead(canonical, b), HeadHash)
      BY <2>3 DEF ForkchoiceFails
    <3>2. ~Materializes(b) /\ mixed' = mixed
      BY <2>3 DEF ForkchoiceFails, snapshotVars
    <3>3. ~(Replays(store, mined) /\ ~mixed')
      BY <1>1, <3>2, ForkchoiceMaterializes
    <3> QED
      BY <1>2, <1>3, <1>4, <3>1, <3>3 DEF SetCanonicalHead
  <2> QED
    BY <2>1, <2>2, <2>3
<1>6. Tidy(Now', mined')
  <2>1. /\ Now'.store = store /\ Now'.canonical = canonical' /\ Now'.head = head'
        /\ Now'.mixed = mixed' /\ mined' = mined
    BY <1>1 DEF Now
  <2> QED
    BY <1>5, <2>1 DEF Tidy
<1>7. ReplayExact'
  BY <1>1 DEF ReadInv, ReplayExact, Replays, AllSigned, SignedIn, BranchesDisjoint
<1> QED
  BY <1>5, <1>6, <1>7, SnapshotReads DEF ReadInv

(* A revert takes back a moment that is tidy; a reset starts over. *)
LEMMA RevertReads ==
  ASSUME Inv, ReadInv, [Next]_vars,
         (\E id \in DOMAIN snapshots : Revert(id)) \/ Reset
  PROVE  ReadInv'
<1>1. ASSUME NEW id \in DOMAIN snapshots, Revert(id) PROVE ReadInv'
  <2>1. /\ replayCache' = None /\ mined' = mined
        /\ canonical' = Restored(id).canonical
        /\ Follows(Restored(id), Now')
    BY <1>1 DEF Revert, Now, Restored, Follows
  <2>2. Tidy(Now', mined')
    BY <2>1 DEF ReadInv, Tidy, Follows
  <2> QED
    BY <2>1, <2>2, SnapshotReads DEF ReadInv, ReplayExact
<1>2. CASE Reset
  <2>1. /\ replayCache' = None
        /\ canonical' = <<>> /\ DOMAIN canonical' = {}
        /\ Now'.canonical = canonical'
    BY <1>2 DEF Reset, Now
  <2>2. Tidy(Now', mined')
    BY <2>1 DEF Tidy
  <2> QED
    BY <2>1, <2>2, SnapshotReads DEF ReadInv, ReplayExact
<1> QED
  BY <1>1, <1>2

(* The canonical block of a number up to the head, with its branch. *)
LEMMA CanonicalBlock ==
  ASSUME Inv, NEW n \in 0..head
  PROVE  /\ HashAt(n) \in DOMAIN store
         /\ store[HashAt(n)] = SubSeq(store[HeadHash], 1, n)
         /\ Len(store[HashAt(n)]) = n
<1> DEFINE s == store[HeadHash]
<1>1. /\ Branches(store, mined) /\ HeadHash \in DOMAIN store /\ head = Len(s)
      /\ \A i \in 1..head : i \in DOMAIN canonical /\ canonical[i] = s[i]
  BY HeadFacts
<1>2. /\ s \in Seq(DOMAIN store) /\ Len(s) \in Nat
      /\ \A i \in 1..Len(s) : s[i] \in DOMAIN store
  BY <1>1, BranchIsStored
<1>3. \A i \in 1..Len(s) : store[s[i]] = SubSeq(s, 1, i)
  BY <1>1 DEF Branches
<1> HIDE DEF s
<1>4. CASE n = 0
  <2>1. HashAt(n) = Genesis /\ store[Genesis] = <<>> /\ Genesis \in DOMAIN store
    BY <1>1, <1>4 DEF HashAt, Branches
  <2>2. SubSeq(s, 1, n) = <<>>
    BY <1>2, <1>4, SubSeqEmpty
  <2>3. store[HashAt(n)] = <<>> /\ HashAt(n) \in DOMAIN store
    BY <2>1
  <2>4. Len(<<>>) = 0
    OBVIOUS
  <2>5. Len(store[HashAt(n)]) = n
    BY <1>4, <2>3, <2>4
  <2>6. store[HashAt(n)] = SubSeq(s, 1, n)
    BY <2>2, <2>3
  <2> QED
    BY <2>3, <2>5, <2>6, Zenon DEF s
<1>5. CASE n # 0
  <2>1. n \in 1..Len(s)
    BY <1>1, <1>2, <1>5
  <2>2. HashAt(n) = s[n]
    BY <1>1, <1>5, <2>1 DEF HashAt
  <2>3. Len(SubSeq(s, 1, n)) = n
    BY <1>2, <2>1
  <2> QED
    BY <1>2, <1>3, <2>1, <2>2, <2>3 DEF s
<1> QED
  BY <1>4, <1>5

(* A replay starts from genesis or from a canonical block that is cached,  *)
(* and runs to the block that is asked for.                                *)
LEMMA ReadAtReads ==
  ASSUME Inv, ReadInv, [Next]_vars, NEW n \in 0..head, ReadAt(n)
  PROVE  ReadInv'
<1> DEFINE s == store[HeadHash]
           usable == CacheIsCanonical /\ replayCache.number <= n
           from == IF usable THEN replayCache.number ELSE 0
           path == CanonicalFrom(from, n)
           base == IF usable THEN replayCache.state ELSE <<>>
<1>1. /\ UNCHANGED <<store, mined, canonical, head, mixed>>
      /\ n < head
      /\ RunsAll(path, base) =>
           replayCache' = [number |-> n, hash |-> HashAt(n), state |-> base \o path]
  BY DEF ReadAt, chainVars, snapshotVars
<1>2. /\ Branches(store, mined) /\ HeadHash \in DOMAIN store /\ head = Len(s)
      /\ \A i \in 1..head : i \in DOMAIN canonical /\ canonical[i] = s[i]
  BY HeadFacts
<1>3. s \in Seq(DOMAIN store) /\ Len(s) \in Nat
  BY <1>2, BranchIsStored
<1>4. ASSUME Replays(store, mined)
      PROVE  ReplayExact'
  <2>1. from \in 0..n /\ base = SubSeq(s, 1, from)
    <3>1. CASE usable
      <4>1. /\ replayCache.number = Len(store[replayCache.hash])
            /\ replayCache.hash \in DOMAIN store
            /\ replayCache.state = store[replayCache.hash]
            /\ HashAt(replayCache.number) = replayCache.hash
        BY <1>4, <3>1 DEF ReadInv, ReplayExact, CacheIsCanonical
      <4>2. replayCache.number \in 0..n /\ replayCache.number \in 0..head
        <5>1. replayCache.number \in Nat
          BY <1>2, <4>1, BranchIsStored
        <5> QED
          BY <1>2, <1>3, <3>1, <5>1
      <4>3. store[HashAt(replayCache.number)] = SubSeq(s, 1, replayCache.number)
        BY <4>2, CanonicalBlock
      <4> QED
        BY <3>1, <4>1, <4>2, <4>3
    <3>2. CASE ~usable
      <4>1. SubSeq(s, 1, 0) = <<>> /\ 0 \in 0..n
        <5> HIDE DEF s
        <5> QED
          BY <1>2, <1>3, SubSeqEmpty
      <4> QED
        BY <3>2, <4>1
    <3> QED
      BY <3>1, <3>2
  <2> HIDE DEF from, base
  <2>2. from \in 0..Len(s) /\ n \in from..Len(s)
    BY <1>2, <1>3, <2>1
  <2>3. path = SubSeq(s, from + 1, n)
    <3>1. \A i \in 1..(n - from) : canonical[from + i] = s[from + i]
      <4> SUFFICES ASSUME NEW i \in 1..(n - from) PROVE canonical[from + i] = s[from + i]
        OBVIOUS
      <4>1. from + i \in 1..head
        BY <1>2, <1>3, <2>1
      <4> QED
        BY <1>2, <4>1
    <3>2. path = [i \in 1..(n - from) |-> s[from + i]]
      BY <3>1 DEF CanonicalFrom
    <3>3. SubSeq(s, from + 1, n) = [i \in 1..(n - from) |-> s[from + i]]
      <4> HIDE DEF s
      <4> QED
        BY <1>3, <2>2, PartOfBranch
    <3> QED
      BY <3>2, <3>3
  <2> HIDE DEF path
  <2>5. RunsAll(path, base)
    BY <1>2, <1>4, <2>1, <2>2, <2>3, StoredRuns
  <2>6. base \o path = SubSeq(s, 1, n)
    <3> HIDE DEF s, base, from
    <3>1. SubSeq(s, 1, from) \o SubSeq(s, from + 1, n) = SubSeq(s, 1, n)
      BY <1>3, <2>2, PartOfBranch
    <3> QED
      BY <2>1, <2>3, <3>1
  <2>7. replayCache' = [number |-> n, hash |-> HashAt(n), state |-> SubSeq(s, 1, n)]
    <3>1. RunsAll(path, base) =>
            replayCache' = [number |-> n, hash |-> HashAt(n), state |-> base \o path]
      BY <1>1 DEF path
    <3> HIDE DEF base
    <3>2. replayCache' = [number |-> n, hash |-> HashAt(n), state |-> base \o path]
      BY <2>5, <3>1
    <3> QED
      BY <2>6, <3>2
  <2>8. /\ HashAt(n) \in DOMAIN store /\ store[HashAt(n)] = SubSeq(s, 1, n)
        /\ Len(store[HashAt(n)]) = n
    BY CanonicalBlock
  <2> HIDE DEF s
  <2> QED
    BY <1>1, <2>7, <2>8 DEF ReplayExact
<1>5. ReplayExact'
  <2>1. CASE Replays(store, mined)
    BY <1>4, <2>1
  <2>2. CASE ~Replays(store, mined)
    BY <1>1, <2>2 DEF ReplayExact, Replays, AllSigned, SignedIn, BranchesDisjoint
  <2> QED
    BY <2>1, <2>2
<1>6. /\ Now'.store = Now.store /\ Now'.canonical = Now.canonical /\ Now'.head = Now.head
      /\ Now'.mixed = Now.mixed /\ canonical' = canonical /\ mined' = mined
  BY <1>1 DEF Now
<1>7. Tidy(Now', mined')
  BY <1>6 DEF ReadInv, Tidy
<1> QED
  BY <1>5, <1>6, <1>7, SnapshotReads DEF ReadInv

LEMMA ReadInit == Init => ReadInv
<1> SUFFICES ASSUME Init PROVE ReadInv
  OBVIOUS
<1>1. /\ DOMAIN canonical = {} /\ DOMAIN snapshots = {} /\ replayCache = None
      /\ Now.canonical = canonical
  BY DEF Init, Now
<1>2. Tidy(Now, mined)
  BY <1>1 DEF Tidy
<1> QED
  BY <1>1, <1>2 DEF ReadInv, ReplayExact

LEMMA ReadStep == Inv /\ ReadInv /\ [Next]_vars => ReadInv'
<1> SUFFICES ASSUME Inv, ReadInv, [Next]_vars PROVE ReadInv'
  OBVIOUS
<1>1. CASE (\E b \in Payload : NewPayload(b)) \/ (\E t \in Tx : Submit(t))
  BY <1>1, QuietReads DEF NewPayload, Submit, chainVars, cacheVars, snapshotVars
<1>2. CASE FetchDone \/ FetchAncestor \/ FetchFails \/ ImportInvalidChild \/ ImportBad
           \/ ImportError
  BY <1>2, QuietReads DEF FetchDone, FetchAncestor, FetchFails, ImportInvalidChild, ImportBad,
                          ImportError, chainVars, cacheVars, snapshotVars
<1>3. CASE ImportValid
  BY <1>3, ImportValidReads
<1>4. ASSUME NEW b \in Block, NEW s \in Finality \cup {None}, NEW f \in Finality \cup {None},
             \/ \E build \in BOOLEAN : Forkchoice(b, s, f, build)
             \/ ForkchoiceFails(b, s, f)
      PROVE  ReadInv'
  BY <1>4, ForkchoiceReads
<1>5. CASE \E n \in 0..head : ReadAt(n)
  BY <1>5, ReadAtReads
<1>6. CASE \E m \in Mined, txs \in SUBSET pool : MineBlock(m, txs)
  BY <1>6, MineBlockReads
<1>7. CASE TakeSnapshot
  BY <1>7, QuietReads DEF TakeSnapshot, chainVars, cacheVars
<1>8. CASE UNCHANGED vars
  BY <1>8, QuietReads DEF vars, chainVars, cacheVars, snapshotVars
<1>9. CASE (\E id \in DOMAIN snapshots : Revert(id)) \/ Reset
  BY <1>9, RevertReads
<1> QED
  BY <1>1, <1>2, <1>3, <1>4, <1>5, <1>6, <1>7, <1>8, <1>9 DEF Next, ImportStep

-----------------------------------------------------------------------------
(* The types, with those of the snapshots and of what the chain is kept in. *)

ChainTyped ==
  /\ \A m \in DOMAIN mined : mined[m] \subseteq Tx
  /\ \A n \in DOMAIN canonical : canonical[n] \in Block
  /\ pool \subseteq Tx
  /\ state \in Path
  /\ importState \in Cached \cup {None}
  /\ replayCache \in Replay \cup {None}
  /\ \A b \in DOMAIN invalid : invalid[b] \in Block
  /\ payloadJobs \subseteq Block

EntryTyped(entry) ==
  /\ \A n \in DOMAIN entry.canonical : entry.canonical[n] \in Block
  /\ entry.pool \subseteq Tx
  /\ entry.mixed \in BOOLEAN

SnapshotsTyped ==
  /\ \A id \in DOMAIN snapshots : EntryTyped(snapshots[id])
  /\ \A i \in DOMAIN saved : saved[i] \in Path
  /\ mixed \in BOOLEAN

TypeInv == ChainTyped /\ SnapshotsTyped

(* A non-empty set of naturals has a least element. *)
LEMMA LeastNatural ==
  ASSUME NEW T \in SUBSET Nat, T # {}
  PROVE  \E n \in T : \A m \in T : n <= m
<1> DEFINE R == OpToRel(<, Nat)
<1>1. \E n \in T : \A m \in T : ~(<<m, n>> \in R)
  BY NatLessThanWellFounded, WFMin
<1>2. PICK n \in T : \A m \in T : ~(<<m, n>> \in R)
  BY <1>1
<1>3. \A m \in T : ~(m < n)
  BY <1>2 DEF OpToRel
<1>4. \A m \in T : n <= m
  BY <1>3
<1> QED
  BY <1>4

(* A replay that stops half-way has run a beginning of the branch: there   *)
(* is a first block that does not run.                                     *)
LEMMA RunPrefixIsPart ==
  ASSUME NEW S, NEW path \in Seq(S), NEW base
  PROVE  RunPrefix(path, base) \in Seq(S)
<1> DEFINE Good(k) == RunsAll(SubSeq(path, 1, k), base)
           Cut(k) == Good(k) /\ (k < Len(path) => ~Good(k + 1))
           T == {k \in Nat : k = Len(path) \/ (k < Len(path) /\ ~Good(k + 1))}
<1>1. Len(path) \in Nat
  BY LenProperties
<1>2. Good(0)
  <2>1. SubSeq(path, 1, 0) = <<>>
    BY SubSeqEmpty
  <2> QED
    BY <2>1 DEF RunsAll
<1> HIDE DEF Good
<1>3. PICK k \in T : \A m \in T : k <= m
  <2>1. Len(path) \in T /\ T \subseteq Nat
    BY <1>1
  <2> HIDE DEF T
  <2> QED
    BY <2>1, LeastNatural
<1>4. Good(k)
  <2>1. CASE k = 0
    BY <1>2, <2>1
  <2>2. CASE k # 0
    <3>1. k \in Nat /\ k <= Len(path)
      BY <1>1, <1>3
    <3>2. k - 1 \in Nat /\ k - 1 < Len(path) /\ ~(k <= k - 1) /\ (k - 1) + 1 = k
      BY <1>1, <2>2, <3>1
    <3>3. k - 1 \notin T
      BY <1>3, <3>2
    <3>4. Good((k - 1) + 1)
      BY <3>2, <3>3
    <3> QED
      BY <3>2, <3>4
  <2> QED
    BY <2>1, <2>2
<1>5. k \in 0..Len(path) /\ Cut(k)
  BY <1>1, <1>3, <1>4
<1> DEFINE c == CHOOSE j \in 0..Len(path) : Cut(j)
<1>6. c \in 0..Len(path)
  <2> HIDE DEF Cut
  <2> QED
    BY <1>5
<1>7. RunPrefix(path, base) = SubSeq(path, 1, c)
  BY DEF RunPrefix, Good
<1> HIDE DEF c
<1>8. SubSeq(path, 1, c) \in Seq(S)
  BY <1>1, <1>6
<1> QED
  BY <1>7, <1>8

(* Branches are paths of blocks, and grow as such. *)
LEMMA BranchIsPath ==
  ASSUME Inv, NEW b \in DOMAIN store
  PROVE  /\ b \in Block /\ store[b] \in Path
         /\ DOMAIN store[b] = 1..Len(store[b])
         /\ \A n \in DOMAIN store[b] : store[b][n] \in Block \ {Genesis}
<1>1. DOMAIN store \subseteq Block /\ store[b] \in Seq(DOMAIN store \ {Genesis})
  BY DEF Inv, Sound, Branches, Now
<1>2. DOMAIN store \ {Genesis} \subseteq Block \ {Genesis}
  BY <1>1
<1>3. store[b] \in Seq(Block \ {Genesis})
  BY <1>1, <1>2, SeqMonotonic
<1> QED
  BY <1>1, <1>3, LenProperties, ElementOfSeq DEF Path

(* What canonical becomes when a stored block is made the head. *)
LEMMA HeadsAreTyped ==
  ASSUME Inv, NEW b \in DOMAIN store,
         NEW chain, \A n \in DOMAIN chain : chain[n] \in Block
  PROVE  \A n \in DOMAIN SetCanonicalHead(chain, b) : SetCanonicalHead(chain, b)[n] \in Block
BY BranchIsPath DEF SetCanonicalHead

LEMMA PrunedIsTyped ==
  ASSUME NEW chain, NEW k, \A n \in DOMAIN chain : chain[n] \in Block
  PROVE  \A n \in DOMAIN Pruned(chain, k) : Pruned(chain, k)[n] \in Block
BY DEF Pruned

LEMMA ImportTypes ==
  ASSUME Inv, TypeInv, ImportStep
  PROVE  ChainTyped'
<1>1. CASE FetchDone \/ FetchAncestor \/ FetchFails \/ ImportError
  BY <1>1 DEF FetchDone, FetchAncestor, FetchFails, ImportError, chainVars, cacheVars,
              forkVars, TypeInv, ChainTyped
<1>2. CASE ImportInvalidChild \/ ImportBad
  <2>1. PICK x \in Block : invalid' = With(invalid, Importing, x)
    <3>1. CASE ImportInvalidChild
      BY <3>1 DEF ImportInvalidChild, TypeInv, ChainTyped
    <3>2. CASE ImportBad
      BY <3>2, BranchIsPath DEF ImportBad
    <3> QED
      BY <1>2, <3>1, <3>2
  <2>2. \A b \in DOMAIN invalid' : invalid'[b] \in Block
    BY <2>1 DEF TypeInv, ChainTyped, With
  <2>3. UNCHANGED <<chainVars, importState, replayCache, forkVars, pool>>
    BY <1>2 DEF ImportInvalidChild, ImportBad
  <2> QED
    BY <2>2, <2>3 DEF TypeInv, ChainTyped, chainVars, forkVars
<1>3. CASE ImportValid
  <2>1. Importing \in Payload /\ Cursor \in DOMAIN store
    BY <1>3, ImportingBlock DEF ImportValid
  <2>2. ImportBase \in Path
    BY <2>1, BranchIsPath DEF ImportBase, ImportIsCached, TypeInv, ChainTyped, Cached
  <2>3. Importing \in Block \ {Genesis}
    BY <2>1, EngineAssumption DEF Block
  <2>4. Append(ImportBase, Importing) \in Path
    BY <2>2, <2>3, AppendProperties DEF Path
  <2>5. importState' \in Cached
    BY <1>3, <2>3, <2>4 DEF ImportValid, Cached
  <2>6. /\ UNCHANGED <<mined, canonical, state, invalid, payloadJobs, pool>>
        /\ replayCache' \in {replayCache, None}
    BY <1>3 DEF ImportValid, forkVars
  <2> QED
    BY <2>5, <2>6 DEF TypeInv, ChainTyped
<1> QED
  BY <1>1, <1>2, <1>3 DEF ImportStep

LEMMA ForkchoiceTypes ==
  ASSUME Inv, TypeInv, NEW b \in Block, NEW s, NEW f,
         \/ \E build \in BOOLEAN : Forkchoice(b, s, f, build)
         \/ ForkchoiceFails(b, s, f)
  PROVE  ChainTyped'
<1>1. b \in DOMAIN store /\ HeadHash \in DOMAIN store
  BY HeadFacts DEF Forkchoice, ForkchoiceFails, ForkchoiceIsSound
<1>2. /\ UNCHANGED <<mined, cacheVars>>
      /\ pool' \subseteq pool
      /\ payloadJobs' \subseteq payloadJobs \cup {b}
  BY DEF Forkchoice, ForkchoiceFails, forkVars
<1>3. \/ canonical' = Pruned(canonical, head)
      \/ canonical' = Pruned(SetCanonicalHead(canonical, b), Len(store[b]))
      \/ canonical' = SetCanonicalHead(SetCanonicalHead(canonical, b), HeadHash)
  BY DEF Forkchoice, ForkchoiceFails
<1>4. \A n \in DOMAIN canonical : canonical[n] \in Block
  BY DEF TypeInv, ChainTyped
<1>5. \A n \in DOMAIN canonical' : canonical'[n] \in Block
  <2>1. CASE canonical' = Pruned(canonical, head)
    BY <1>4, <2>1, PrunedIsTyped
  <2> DEFINE set == SetCanonicalHead(canonical, b)
  <2>2. \A n \in DOMAIN set : set[n] \in Block
    BY <1>1, <1>4, HeadsAreTyped
  <2> HIDE DEF set
  <2>3. CASE canonical' = Pruned(set, Len(store[b]))
    BY <2>2, <2>3, PrunedIsTyped
  <2>4. CASE canonical' = SetCanonicalHead(set, HeadHash)
    BY <1>1, <2>2, <2>4, HeadsAreTyped
  <2> QED
    BY <1>3, <2>1, <2>3, <2>4 DEF set
<1>6. state' \in Path
  <2>1. state \in Path /\ store[b] \in Path
    BY <1>1, BranchIsPath DEF TypeInv, ChainTyped
  <2>2. state \o Extension(b) \in Path
    <3>1. head \in Nat /\ Len(store[b]) \in Nat
      BY <1>1, HeadFacts, BranchIsStored
    <3>2. Extension(b) \in Path
      <4> DEFINE q == store[b]
      <4>1. q \in Seq(Block \ {Genesis}) /\ Len(q) \in Nat
        BY <2>1, <3>1 DEF Path
      <4>2. \A i \in (head + 1)..Len(q) : q[i] \in Block \ {Genesis}
        <5> HIDE DEF q
        <5> QED
          BY <3>1, <4>1, ElementOfSeq
      <4> HIDE DEF q
      <4>3. SubSeq(q, head + 1, Len(q)) \in Seq(Block \ {Genesis})
        BY <3>1, <4>1, <4>2, SubSeqProperties
      <4> QED
        BY <4>3 DEF Extension, Path, q
    <3> QED
      BY <2>1, <3>2, ConcatProperties DEF Path
  <2>3. state' \in {state, store[b], state \o Extension(b)}
    BY DEF Forkchoice, ForkchoiceFails
  <2> QED
    BY <2>1, <2>2, <2>3
<1> QED
  BY <1>2, <1>5, <1>6 DEF TypeInv, ChainTyped, cacheVars

(* A replay runs canonical blocks on what is cached or on genesis. *)
LEMMA ReadTypes ==
  ASSUME Inv, TypeInv, NEW n \in 0..head, ReadAt(n)
  PROVE  ChainTyped'
<1> DEFINE usable == CacheIsCanonical /\ replayCache.number <= n
           from == IF usable THEN replayCache.number ELSE 0
           path == CanonicalFrom(from, n)
           base == IF usable THEN replayCache.state ELSE <<>>
<1>1. /\ UNCHANGED <<chainVars, importState, invalid, forkVars, pool>>
      /\ n < head
      /\ replayCache' =
           IF RunsAll(path, base)
             THEN [number |-> n, hash |-> HashAt(n), state |-> base \o path]
             ELSE IF usable THEN [replayCache EXCEPT !.state = base \o RunPrefix(path, base)]
             ELSE None
  BY DEF ReadAt
<1>2. usable => replayCache \in Replay
  BY DEF CacheIsCanonical, TypeInv, ChainTyped
<1>3. from \in 0..n /\ base \in Path
  <2>1. <<>> \in Path
    BY DEF Path
  <2>2. usable => replayCache.number <= n
    OBVIOUS
  <2> HIDE DEF usable
  <2> QED
    BY <1>2, <2>1, <2>2 DEF Replay
<1>4. HashAt(n) \in Block /\ n \in Nat /\ head \in Nat
  <2>1. HashAt(n) \in DOMAIN store
    BY CanonicalBlock
  <2>2. head \in Nat
    BY HeadFacts, BranchIsStored
  <2> QED
    BY <2>1, <2>2, BranchIsPath
<1> HIDE DEF from, base
<1>5. path \in Path
  <2>1. ASSUME NEW i \in 1..(n - from)
        PROVE  canonical[from + i] \in Block \ {Genesis}
    <3>1. from + i \in 1..head
      BY <1>1, <1>3, <1>4
    <3>2. canonical[from + i] = store[HeadHash][from + i] /\ HeadHash \in DOMAIN store
          /\ head = Len(store[HeadHash])
      BY <3>1, HeadFacts
    <3> QED
      BY <3>1, <3>2, BranchIsPath
  <2>2. path = [i \in 1..(n - from) |-> canonical[from + i]]
    BY DEF CanonicalFrom
  <2>3. n - from \in Nat
    BY <1>3, <1>4
  <2>4. path \in [1..(n - from) -> Block \ {Genesis}]
    BY <2>1, <2>2
  <2> QED
    BY <2>3, <2>4, IsASeq DEF Path
<1> HIDE DEF path
<1>6. base \o path \in Path
  BY <1>3, <1>5, ConcatProperties DEF Path
<1>7. base \o RunPrefix(path, base) \in Path
  <2>1. RunPrefix(path, base) \in Path
    BY <1>5, RunPrefixIsPart DEF Path
  <2> QED
    BY <1>3, <2>1, ConcatProperties DEF Path
<1>8. replayCache' \in Replay \cup {None}
  <2>1. [number |-> n, hash |-> HashAt(n), state |-> base \o path] \in Replay
    BY <1>4, <1>6 DEF Replay
  <2>2. usable => [replayCache EXCEPT !.state = base \o RunPrefix(path, base)] \in Replay
    <3> HIDE DEF usable
    <3> QED
      BY <1>2, <1>7 DEF Replay
  <2> HIDE DEF usable
  <2> QED
    BY <1>1, <2>1, <2>2
<1> QED
  BY <1>1, <1>8 DEF TypeInv, ChainTyped, chainVars, forkVars

LEMMA DevTypes ==
  ASSUME Inv, TypeInv,
         \/ \E t \in Tx : Submit(t)
         \/ \E m \in Mined, txs \in SUBSET pool : MineBlock(m, txs)
         \/ TakeSnapshot
         \/ \E id \in DOMAIN snapshots : Revert(id)
         \/ Reset
  PROVE  ChainTyped'
<1>1. CASE \E t \in Tx : Submit(t)
  BY <1>1 DEF Submit, TypeInv, ChainTyped, chainVars, cacheVars, forkVars
<1>2. ASSUME NEW m \in Mined, NEW txs \in SUBSET pool, MineBlock(m, txs)
      PROVE  ChainTyped'
  <2>1. /\ mined' = With(mined, m, txs) /\ canonical' = With(canonical, head + 1, m)
        /\ pool' = pool \ txs /\ state' = Append(state, m)
        /\ UNCHANGED <<cacheVars, forkVars>>
    BY <1>2 DEF MineBlock
  <2>2. \A k \in DOMAIN mined' : mined'[k] \subseteq Tx
    BY <2>1 DEF TypeInv, ChainTyped, With
  <2>3. m \in Block \ {Genesis}
    BY EngineAssumption DEF Block
  <2>4. \A n \in DOMAIN canonical' : canonical'[n] \in Block
    BY <2>1, <2>3 DEF TypeInv, ChainTyped, With
  <2>5. state' \in Path
    BY <2>1, <2>3, AppendProperties DEF TypeInv, ChainTyped, Path
  <2> QED
    BY <2>1, <2>2, <2>4, <2>5 DEF TypeInv, ChainTyped, cacheVars, forkVars
<1>3. CASE TakeSnapshot
  BY <1>3 DEF TakeSnapshot, TypeInv, ChainTyped, chainVars, cacheVars, forkVars
<1>4. ASSUME NEW id \in DOMAIN snapshots, Revert(id)
      PROVE  ChainTyped'
  <2>1. /\ canonical' = snapshots[id].canonical /\ pool' = snapshots[id].pool
        /\ \E i \in DOMAIN saved : state' = saved[i]
        /\ importState' = None /\ replayCache' = None /\ DOMAIN invalid' = {}
        /\ UNCHANGED <<mined, payloadJobs>>
    BY <1>4 DEF Revert
  <2> QED
    BY <2>1 DEF TypeInv, ChainTyped, SnapshotsTyped, EntryTyped
<1>5. CASE Reset
  <2>1. /\ DOMAIN canonical' = {} /\ pool' = {} /\ state' = <<>>
        /\ importState' = None /\ replayCache' = None /\ DOMAIN invalid' = {}
        /\ payloadJobs' = {} /\ mined' = mined
    BY <1>5 DEF Reset
  <2>2. <<>> \in Path
    BY DEF Path
  <2> QED
    BY <2>1, <2>2 DEF TypeInv, ChainTyped
<1> QED
  BY <1>1, <1>2, <1>3, <1>4, <1>5

LEMMA SnapshotTypes ==
  ASSUME Inv, TypeInv, [Next]_vars
  PROVE  SnapshotsTyped'
<1>1. CASE UNCHANGED snapshotVars
  BY <1>1 DEF snapshotVars, TypeInv, SnapshotsTyped
<1>2. CASE TakeSnapshot
  <2> DEFINE new == [stateId |-> nextSaved, mixed |-> mixed, store |-> store,
                     canonical |-> canonical, head |-> head, logs |-> logs, safe |-> safe,
                     finalized |-> finalized, pool |-> pool]
  <2>1. /\ saved' = With(saved, nextSaved, state) /\ mixed' = mixed
        /\ snapshots' = With(snapshots, nextSnapshot, new)
    BY <1>2 DEF TakeSnapshot
  <2>2. EntryTyped(new)
    BY DEF EntryTyped, TypeInv, ChainTyped, SnapshotsTyped
  <2> HIDE DEF new
  <2> QED
    BY <2>1, <2>2 DEF With, TypeInv, ChainTyped, SnapshotsTyped
<1>3. ASSUME NEW id \in DOMAIN snapshots, Revert(id)
      PROVE  SnapshotsTyped'
  <2>1. /\ saved' = Before(saved, snapshots[id].stateId)
        /\ snapshots' = Before(snapshots, id)
        /\ mixed' = snapshots[id].mixed
    BY <1>3 DEF Revert
  <2> QED
    BY <2>1 DEF Before, TypeInv, SnapshotsTyped, EntryTyped
<1>4. CASE NewManager /\ snapshots' = Orphaned
  <2>1. ASSUME NEW id \in DOMAIN snapshots'
        PROVE  EntryTyped(snapshots'[id])
    <3>1. id \in DOMAIN snapshots /\ snapshots'[id] = Orphaned[id]
      BY <1>4 DEF Orphaned
    <3>2. DOMAIN snapshots[id] = EntryFields
      BY <3>1 DEF Inv, ManagerSound, EntrySound
    <3>3. /\ snapshots'[id].canonical = snapshots[id].canonical
          /\ snapshots'[id].pool = snapshots[id].pool /\ snapshots'[id].mixed = TRUE
      BY <3>1, <3>2, OrphanedEntry
    <3>4. EntryTyped(snapshots[id])
      BY <3>1 DEF TypeInv, SnapshotsTyped
    <3> QED
      BY <3>3, <3>4 DEF EntryTyped
  <2> QED
    BY <1>4, <2>1 DEF NewManager, SnapshotsTyped
<1>5. CASE Reset
  BY <1>5 DEF Reset, NewManager, SnapshotsTyped
<1> QED
  BY <1>1, <1>2, <1>3, <1>4, <1>5, OutsideSnapshots

LEMMA TypeStep == Inv /\ TypeInv /\ [Next]_vars => TypeInv'
<1> SUFFICES ASSUME Inv, TypeInv, [Next]_vars PROVE ChainTyped'
  BY SnapshotTypes DEF TypeInv
<1>1. CASE \E b \in Payload : NewPayload(b)
  BY <1>1 DEF NewPayload, TypeInv, ChainTyped, chainVars, cacheVars, forkVars
<1>2. CASE ImportStep
  BY <1>2, ImportTypes
<1>3. ASSUME NEW b \in Block, NEW s \in Finality \cup {None}, NEW f \in Finality \cup {None},
             \/ \E build \in BOOLEAN : Forkchoice(b, s, f, build)
             \/ ForkchoiceFails(b, s, f)
      PROVE  ChainTyped'
  BY <1>3, ForkchoiceTypes
<1>4. CASE \E n \in 0..head : ReadAt(n)
  BY <1>4, ReadTypes
<1>5. CASE UNCHANGED vars
  BY <1>5 DEF vars, TypeInv, ChainTyped, chainVars, cacheVars, forkVars
<1> QED
  BY <1>1, <1>2, <1>3, <1>4, <1>5, DevTypes DEF Next

LEMMA TypesFollow == Inv /\ ReadInv /\ TypeInv => TypeOK
<1> SUFFICES ASSUME Inv, ReadInv, TypeInv PROVE TypeOK
  OBVIOUS
<1>1. /\ DOMAIN store \subseteq Block /\ Genesis \in DOMAIN store
      /\ DOMAIN mined \subseteq Mined
  BY DEF Inv, Sound, Branches, Now
<1>2. \A b \in DOMAIN store : store[b] \in Path
  BY BranchIsPath
<1>3. head \in Nat /\ logs \in Path
  <2>1. PICK b \in DOMAIN store : HeadIs(Now, b)
    BY DEF Inv, Sound, Now
  <2>2. head = Len(store[b]) /\ logs = store[b]
    BY <2>1 DEF HeadIs, Now
  <2>3. Len(store[b]) \in Nat
    BY <1>2, LenProperties DEF Path
  <2> QED
    BY <1>2, <2>2, <2>3
<1>4. safe \in Block \cup {None} /\ finalized \in Block \cup {None}
  <2>1. PICK b \in DOMAIN store : HeadIs(Now, b)
    BY DEF Inv, Sound, Now
  <2>2. \A h \in {safe, finalized} \ {None} : h \in DOMAIN store
    BY <2>1 DEF HeadIs, Now
  <2> QED
    BY <1>1, <2>2
<1>5. DOMAIN invalid \subseteq Payload
  BY DEF Inv, InvalidSound
<1>6. /\ job.phase \in {"idle", "fetch", "import"}
      /\ job.list \in Seq(Payload)
      /\ ToImport \cap (DOMAIN store \cup DOMAIN invalid) = {}
  <2>1. /\ job \in [phase : {"idle", "fetch", "import"}, list : Seq(Payload)]
        /\ \A i \in 1..Len(job.list) : job.list[i] \notin DOMAIN store \cup DOMAIN invalid
    BY DEF Inv, JobSound
  <2>2. DOMAIN job.list = 1..Len(job.list)
    BY <2>1, LenProperties
  <2> QED
    BY <2>1, <2>2 DEF ToImport
<1>7. DOMAIN canonical \subseteq Nat
  BY DEF ReadInv
<1>8. /\ DOMAIN snapshots \subseteq Nat /\ nextSnapshot \in Nat
      /\ DOMAIN saved \subseteq Nat /\ nextSaved \in Nat
  BY DEF Inv, ManagerSound
<1> QED
  BY <1>1, <1>2, <1>3, <1>4, <1>5, <1>6, <1>7, <1>8
     DEF TypeOK, TypeInv, ChainTyped, SnapshotsTyped

-----------------------------------------------------------------------------
(* The theorems. *)

(* Branches that run on genesis are signed and share no transaction. *)
LEMMA ReplaysIfAllRun ==
  ASSUME Branches(store, mined), StoreReplays
  PROVE  Replays(store, mined)
<1>1. ASSUME NEW b \in DOMAIN store, NEW j \in 1..Len(store[b])
      PROVE  /\ Signed(store[b][j])
             /\ \A i \in 1..(j - 1) : Body(store[b][j]) \cap Body(store[b][i]) = {}
  <2> DEFINE q == store[b]
             before == SubSeq(q, 1, j - 1)
  <2>1. q \in Seq(DOMAIN store) /\ DOMAIN q = 1..Len(q) /\ Len(q) \in Nat
    BY BranchIsStored
  <2>2. Runs(q[j], <<>> \o before)
    BY <2>1 DEF StoreReplays, RunsAll
  <2> HIDE DEF q
  <2>3. /\ before \in Seq(DOMAIN store) /\ Len(before) = j - 1
        /\ \A i \in 1..(j - 1) : before[i] = q[i]
    <3>1. j \in 1..Len(q)
      BY DEF q
    <3>2. \A i \in 1..(j - 1) : q[i] \in DOMAIN store
      BY <2>1, <3>1, ElementOfSeq
    <3> QED
      BY <2>1, <3>1, <3>2, SubSeqProperties
  <2> HIDE DEF before
  <2>4. <<>> \o before = before
    BY <2>3, ConcatEmptySeq
  <2>5. DOMAIN before = 1..(j - 1)
    BY <2>3, LenProperties
  <2>6. Signed(q[j]) /\ Body(q[j]) \cap Executed(before) = {}
    BY <2>2, <2>4 DEF Runs
  <2>7. \A i \in 1..(j - 1) : Body(q[i]) \subseteq Executed(before)
    BY <2>3, <2>5 DEF Executed, InPath
  <2> QED
    BY <2>6, <2>7 DEF q
<1>2. AllSigned(store, mined)
  <2> SUFFICES ASSUME NEW b \in DOMAIN store \ {Genesis} PROVE Signed(b)
    BY DEF AllSigned, SignedIn, Signed, Body, BodyIn
  <2>1. Len(store[b]) > 0 /\ store[b][Len(store[b])] = b /\ Len(store[b]) \in Nat
    BY BranchIsStored DEF Branches
  <2>2. Signed(store[b][Len(store[b])])
    BY <1>1, <2>1
  <2> QED
    BY <2>1, <2>2
<1>3. BranchesDisjoint(store, mined)
  <2> SUFFICES ASSUME NEW b \in DOMAIN store, NEW i \in 1..Len(store[b]),
                      NEW j \in 1..Len(store[b]), i < j
               PROVE  Body(store[b][j]) \cap Body(store[b][i]) = {}
    BY DEF BranchesDisjoint, Body, BodyIn
  <2>1. i \in 1..(j - 1)
    BY BranchIsStored
  <2> QED
    BY <1>1, <2>1
<1> QED
  BY <1>2, <1>3 DEF Replays

LEMMA Invariance == Spec => []Inv
<1>1. Inv /\ [Next]_vars => Inv'
  BY ChainStep, SnapshotStep, ManagerStep, CacheStep, JobStep, InvalidStep, MinedGrows DEF Inv
<1> QED
  BY InvInit, <1>1, PTL DEF Spec

(* The variables keep their types: every hash known is of a block, every   *)
(* cached state, half-way replays included, a path of blocks, and no block *)
(* is imported that is stored or known invalid.                            *)
THEOREM TypeCorrect == Spec => []TypeOK
<1>1. Init => TypeInv
  <2>1. <<>> \in Path
    BY DEF Path
  <2> SUFFICES ASSUME Init PROVE TypeInv
    OBVIOUS
  <2>2. ChainTyped
    BY <2>1 DEF Init, ChainTyped
  <2>3. SnapshotsTyped
    BY DEF Init, SnapshotsTyped
  <2> QED
    BY <2>2, <2>3 DEF TypeInv
<1>2. Spec => [](Inv /\ ReadInv)
  BY Invariance, ReadInit, ReadStep, PTL DEF Spec
<1> QED
  BY <1>1, <1>2, TypeStep, TypesFollow, PTL DEF Spec

(* Head, canonical numbers and log index are of one branch, through        *)
(* imports, forkchoices that succeed or fail, mining, reverts and resets   *)
(* (setEngineCanonicalHead, persistMinedBlock, revertToSnapshot).  So is   *)
(* the account state, unless revertToSnapshot last took it from a state    *)
(* manager that was not yet there when the snapshot was taken.             *)
THEOREM ChainAlwaysOne == Spec => []ChainIsOne
<1>1. Inv => ChainIsOne
  <2> SUFFICES ASSUME Inv PROVE ChainIsOne
    OBVIOUS
  <2>1. PICK b \in DOMAIN store : HeadIs(Now, b)
    BY DEF Inv, Sound, Now
  <2>2. HeadHash = b
    BY <2>1, HeadIsCanonical DEF Inv, Sound, Now
  <2> QED
    BY <2>1, <2>2 DEF ChainIsOne, HeadIs, Now
<1> QED
  BY Invariance, <1>1, PTL

(* The safe and the finalized block that applyEngineForkchoice checked     *)
(* stay ancestors of the head.                                             *)
THEOREM FinalityStaysCanonical == Spec => []FinalityIsCanonical
<1>1. Inv => FinalityIsCanonical
  <2> SUFFICES ASSUME Inv PROVE FinalityIsCanonical
    OBVIOUS
  <2>1. PICK b \in DOMAIN store : HeadIs(Now, b)
    BY DEF Inv, Sound, Now
  <2>2. HeadHash = b
    BY <2>1, HeadIsCanonical DEF Inv, Sound, Now
  <2>3. DOMAIN store[b] = 1..Len(store[b])
    BY LenProperties DEF Inv, Sound, Branches, Now
  <2> QED
    BY <2>1, <2>2, <2>3 DEF FinalityIsCanonical, HeadIs, Now, OnBranch, IsAncestor, InPath
<1> QED
  BY Invariance, <1>1, PTL

(* importEnginePayloadBlock holds a payload invalid only for a reason that *)
(* lies in it or in its parent, whichever cached state it was run on.      *)
THEOREM InvalidAlwaysJustified == Spec => []InvalidIsJustified
<1>1. Inv => InvalidIsJustified
  BY DEF Inv, InvalidSound
<1> QED
  BY Invariance, <1>1, PTL

(* removeCanonicalBranchTransactionsFromPool keeps executed transactions   *)
(* out of the pool whichever branch the head moves to and back, with the   *)
(* same exception: that state has executed what its own branch did.        *)
THEOREM PoolNeverHasExecuted == Spec => []PoolHasNoExecuted
<1>1. Inv => PoolHasNoExecuted
  <2> SUFFICES ASSUME Inv, ~mixed PROVE pool \cap Executed(state) = {}
    BY DEF PoolHasNoExecuted
  <2>1. PICK b \in DOMAIN store : HeadIs(Now, b)
    BY DEF Inv, Sound, Now
  <2>2. DOMAIN state = 1..Len(state)
    BY <2>1, LenProperties DEF Inv, Sound, Branches, HeadIs, Now
  <2>3. \A i \in DOMAIN state : pool \cap Body(state[i]) = {}
    BY <2>2 DEF Inv, Sound, PoolIsClean, Now, Body, BodyIn
  <2> QED
    BY <2>3 DEF Executed, InPath
<1> QED
  BY Invariance, <1>1, PTL

(* What is read by number is right, through payloads on any branch,        *)
(* forkchoices to and fro, mining, reverts and replays: no number above    *)
(* the head is canonical, and the state a historical read starts from is   *)
(* that of the canonical block it is labelled with.                        *)
THEOREM CanonicalReadsStayExact == Spec => []CanonicalReadsAreExact
<1>1. Spec => []ReadInv
  <2>1. Inv /\ ReadInv /\ [Next]_vars => ReadInv'
    BY ReadStep
  <2> QED
    BY Invariance, ReadInit, <2>1, PTL DEF Spec
<1>2. Inv /\ ReadInv => CanonicalReadsAreExact
  <2> SUFFICES ASSUME Inv, ReadInv PROVE CanonicalReadsAreExact
    OBVIOUS
  <2>1. StoreReplays => Replays(store, mined)
    BY ReplaysIfAllRun, HeadFacts
  <2>2. NothingAboveHead
    BY <2>1 DEF ReadInv, Tidy, Now, NothingAboveHead
  <2>3. CachedReadIsExact
    BY <2>1 DEF ReadInv, ReplayExact, CachedReadIsExact
  <2> QED
    BY <2>2, <2>3 DEF CanonicalReadsAreExact
<1> QED
  BY Invariance, <1>1, <1>2, PTL
=============================================================================
