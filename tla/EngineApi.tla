----------------------------- MODULE EngineApi -----------------------------
(***************************************************************************)
(* The Engine API of the trusted runtime (src/node/runtime.zig, handlers   *)
(* in src/rpc/dispatch_wiring.zig): payload import, missing ancestors,     *)
(* forkchoice, with the caches of executed state that they and historical  *)
(* reads share, next to local mining, snapshot, revert and reset.          *)
(*                                                                         *)
(* A state, and a log index, is the sequence of blocks executed on genesis *)
(* to get it; `store` maps each stored block to the branch that ends in    *)
(* it, which the code walks from parent to parent.  A local block holding  *)
(* an unsigned transaction (of an impersonated sender) cannot be replayed: *)
(* no sender is recovered from it.                                         *)
(*                                                                         *)
(* Left out: fee heads, payload attributes, and account edits by decree,   *)
(* which no replay repeats.  Requests run under runtime_mutex: `job` is    *)
(* the payload import in progress, and the others wait for it.             *)
(***************************************************************************)
EXTENDS Naturals, Sequences, FiniteSets

CONSTANTS
  Payload,      \* blocks the consensus client or the fallback node may send
  Mined,        \* identities for the blocks mined here
  Genesis,
  Parent,       \* parent of each payload
  Txs,          \* transactions of each payload
  Bad,          \* payloads that fail validation
  Tx,           \* transactions
  Unsigned,     \* those of impersonated senders
  MaxAncestors, \* ENGINE_SYNC_FALLBACK_MAX_ANCESTORS
  Finality,     \* hashes the client names as safe or finalized
  MaxJobs,      \* bound on the payloads being built
  MaxPool,      \* bound on the transactions waiting
  MaxReplay,    \* bound on the blocks a cached state has run
  MaxSnapshotHead, \* bound on the ids handed out, and the head of each
  None          \* Zig null

Block == Payload \cup Mined \cup {Genesis}

(* The hash of a payload covers its parent's: none descends from itself.   *)
ASSUME EngineAssumption ==
  /\ Genesis \notin Payload \cup Mined
  /\ Payload \cap Mined = {}
  /\ Parent \in [Payload -> Block]
  /\ \A S \in SUBSET Payload : S # {} => \E b \in S : Parent[b] \notin S
  /\ Txs \in [Payload -> SUBSET (Tx \ Unsigned)]
  /\ Bad \subseteq Payload
  /\ MaxAncestors \in Nat
  /\ Finality \subseteq Block
  /\ MaxJobs \in Nat
  /\ MaxPool \in Nat
  /\ MaxReplay \in Nat
  /\ MaxSnapshotHead \in Seq(Nat)
  /\ None \notin Block

VARIABLES
  store,       \* block store: each block with the branch that ends in it
  mined,       \* transactions of the local blocks
  canonical,   \* canonical_chain: block by number, from 1
  head,        \* head_block_number
  state, logs, \* the state manager and the log and receipt indexes
  importState, \* engine_import_state and its hash
  replayCache, \* replay_state_cache, its number and hash
  invalid,     \* engine_invalid_payloads: latest valid hash by block
  safe, finalized, \* engine_safe_hash, engine_finalized_hash
  payloadJobs, \* parents of the payloads being built
  pool,        \* transactions waiting
  snapshots, nextSnapshot, \* the live snapshot entries, next_snapshot_id
  saved, nextSaved, \* the state manager's snapshots: states by id
  mixed,       \* history: the state was restored from another manager
  job          \* the import in progress

chainVars == <<store, mined, canonical, head, state, logs>>
cacheVars == <<importState, replayCache, invalid>>
forkVars == <<safe, finalized, payloadJobs>>
snapshotVars == <<snapshots, nextSnapshot, saved, nextSaved, mixed>>
vars == <<chainVars, cacheVars, forkVars, pool, snapshotVars, job>>

Path == Seq(Block \ {Genesis})
Cached == [hash : Block, state : Path]
Replay == [number : Nat, hash : Block, state : Path]
IdleJob == [phase |-> "idle", list |-> <<>>]
Idle == job = IdleJob

Body(b) == IF b \in DOMAIN mined THEN mined[b] ELSE Txs[b]
InPath(path) == {path[i] : i \in DOMAIN path}
Executed(path) == UNION {Body(b) : b \in InPath(path)}
With(f, x, y) == [z \in DOMAIN f \cup {x} |-> IF z = x THEN y ELSE f[z]]

(* materializeImportedBlock: the sender of every transaction is recovered, *)
(* and none of them is a replay on that state.                             *)
Signed(b) == Body(b) \cap Unsigned = {}
Runs(b, base) == Signed(b) /\ Body(b) \cap Executed(base) = {}
RunsAll(path, base) ==
  \A i \in DOMAIN path : Runs(path[i], base \o SubSeq(path, 1, i - 1))

Init ==
  /\ store = [b \in {Genesis} |-> <<>>]
  /\ mined = [b \in {} |-> {}]
  /\ canonical = <<>>
  /\ head = 0
  /\ state = <<>>
  /\ logs = <<>>
  /\ importState = None
  /\ replayCache = None
  /\ invalid = [b \in {} |-> Genesis]
  /\ safe = None
  /\ finalized = None
  /\ payloadJobs = {}
  /\ pool = {}
  /\ snapshots = [id \in {} |-> None] /\ nextSnapshot = 1
  /\ saved = [i \in {} |-> <<>>] /\ nextSaved = 0
  /\ mixed = FALSE
  /\ job = IdleJob

-----------------------------------------------------------------------------
(* engine_newPayload: importEnginePayloadBlock. *)

NewPayload(b) ==
  /\ Idle
  /\ b \notin DOMAIN store \cup DOMAIN invalid
  /\ job' = [phase |-> "fetch", list |-> <<b>>]
  /\ UNCHANGED <<chainVars, cacheVars, forkVars, pool, snapshotVars>>

(* importEngineMissingAncestors: walk to a block that is stored.           *)
Cursor == Parent[Head(job.list)]
FetchDone ==
  /\ job.phase = "fetch"
  /\ \/ Cursor \in DOMAIN store
     \/ Cursor \in DOMAIN invalid /\ Len(job.list) = 1
  /\ job' = [job EXCEPT !.phase = "import"]
  /\ UNCHANGED <<chainVars, cacheVars, forkVars, pool, snapshotVars>>

FetchAncestor ==
  /\ job.phase = "fetch"
  /\ Cursor \in Payload
  /\ Cursor \notin DOMAIN store \cup DOMAIN invalid
  /\ Len(job.list) <= MaxAncestors
  /\ job' = [job EXCEPT !.list = <<Cursor>> \o @]
  /\ UNCHANGED <<chainVars, cacheVars, forkVars, pool, snapshotVars>>

(* No fallback, a failed fetch, too many ancestors, or an invalid one at   *)
(* the end of the walk: the payload stays SYNCING.                         *)
FetchFails ==
  /\ job.phase = "fetch"
  /\ Cursor \notin DOMAIN store
  /\ Cursor \in DOMAIN invalid => Len(job.list) > 1
  /\ job' = IdleJob
  /\ UNCHANGED <<chainVars, cacheVars, forkVars, pool, snapshotVars>>

Importing == Head(job.list)
NextImport ==
  IF Len(job.list) = 1 THEN IdleJob ELSE [job EXCEPT !.list = Tail(@)]

(* A child of an invalid block is invalid for the same reason.             *)
ImportInvalidChild ==
  /\ job.phase = "import"
  /\ Cursor \in DOMAIN invalid
  /\ invalid' = With(invalid, Importing, invalid[Cursor])
  /\ job' = NextImport
  /\ UNCHANGED <<chainVars, importState, replayCache, forkVars, pool, snapshotVars>>

(* The parent's state: cached if the cache is of that parent, else         *)
(* replayed, which is an error if a block of its branch does not replay.   *)
(* (Mutant: the hash of the cache is not compared.)                        *)
AnyImportState == importState # None
ImportIsCached == importState # None /\ importState.hash = Cursor
ImportBase == IF ImportIsCached THEN importState.state ELSE store[Cursor]
BaseReplays == ImportIsCached \/ RunsAll(store[Cursor], <<>>)

(* Strict materialization ends in the comparison with the state root.      *)
ValidOn(b, base) ==
  /\ b \notin Bad
  /\ base = store[Parent[b]]
  /\ Txs[b] \cap Executed(base) = {}

ImportValid ==
  /\ job.phase = "import"
  /\ Cursor \in DOMAIN store
  /\ BaseReplays
  /\ ValidOn(Importing, ImportBase)
  /\ store' = With(store, Importing, Append(store[Cursor], Importing))
  /\ importState' = [hash |-> Importing, state |-> Append(ImportBase, Importing)]
  /\ replayCache' = IF ImportIsCached THEN replayCache ELSE None
  /\ job' = NextImport
  /\ UNCHANGED <<mined, canonical, head, state, logs, invalid, forkVars, pool, snapshotVars>>

ImportBad ==
  /\ job.phase = "import"
  /\ Cursor \in DOMAIN store
  /\ BaseReplays
  /\ ~ValidOn(Importing, ImportBase)
  /\ invalid' = With(invalid, Importing, Cursor)
  /\ job' = NextImport
  /\ UNCHANGED <<chainVars, importState, replayCache, forkVars, pool, snapshotVars>>

ImportError ==
  /\ job.phase = "import"
  /\ Cursor \in DOMAIN store
  /\ ~BaseReplays
  /\ job' = IdleJob
  /\ UNCHANGED <<chainVars, cacheVars, forkVars, pool, snapshotVars>>

ImportStep ==
  \/ FetchDone \/ FetchAncestor \/ FetchFails
  \/ ImportInvalidChild \/ ImportValid \/ ImportBad \/ ImportError

-----------------------------------------------------------------------------
(* engine_forkchoiceUpdated. *)

HashAt(n) ==
  IF n = 0 THEN Genesis ELSE IF n \in DOMAIN canonical THEN canonical[n] ELSE None
HeadHash == HashAt(head)
IsAncestor(a, b) == a = Genesis \/ a \in InPath(store[b])

(* Blockchain.setCanonicalHead writes the numbers up to its block;         *)
(* pruneCanonicalChainAbove removes those above.  (Mutant: it does not.)   *)
SetCanonicalHead(chain, b) ==
  [n \in DOMAIN chain \cup DOMAIN store[b] |->
     IF n \in DOMAIN store[b] THEN store[b][n] ELSE chain[n]]
Unpruned(chain, n) == chain
Pruned(chain, n) == [i \in {i \in DOMAIN chain : i <= n} |-> chain[i]]

(* Only a descendant extends the state.  (Mutant: any higher block does.)  *)
IsHigher(b) == Len(store[b]) >= head
CanExtend(b) == Len(store[b]) >= head /\ IsAncestor(HeadHash, b)
Extension(b) == SubSeq(store[b], head + 1, Len(store[b]))
Materializes(b) ==
  IF CanExtend(b) THEN RunsAll(Extension(b), state) ELSE RunsAll(store[b], <<>>)

(* removeCanonicalBranchTransactionsFromPool walks from the new head down  *)
(* to the old one, or to genesis when the old one is on another branch.    *)
(* (Mutant: only the new head's are removed.)                              *)
MinedInHead(b) == IF b = Genesis THEN {} ELSE Body(b)
MinedFromOldHead(b) ==
  IF IsAncestor(HeadHash, b) THEN Executed(Extension(b)) ELSE Executed(store[b])

(* applyEngineForkchoice checks the three hashes.  (Mutant: safe and       *)
(* finalized need only be stored.)                                         *)
HashesAreStored(b, s, f) == {b} \cup ({s, f} \ {None}) \subseteq DOMAIN store
ForkchoiceIsSound(b, s, f) ==
  /\ b \in DOMAIN store
  /\ \A hash \in {s, f} \ {None} : hash \in DOMAIN store /\ IsAncestor(hash, b)

(* A state rebuilt from genesis is another state manager, without          *)
(* snapshots: the runtime's entries stay, with ids of the old one.         *)
NewManager ==
  /\ saved' = [i \in {} |-> <<>>]
  /\ nextSaved' = 0
  /\ mixed' = FALSE
Orphaned == [id \in DOMAIN snapshots |-> [snapshots[id] EXCEPT !.mixed = TRUE]]

(* setEngineCanonicalHead and what follows it; a payload is built if       *)
(* attributes come along and are accepted.                                 *)
Forkchoice(b, s, f, build) ==
  /\ Idle
  /\ ForkchoiceIsSound(b, s, f)
  /\ build => Cardinality(payloadJobs) < MaxJobs
  /\ IF b = HeadHash
       THEN /\ canonical' = Pruned(canonical, head)
            /\ UNCHANGED <<state, logs, snapshotVars>>
       ELSE /\ canonical' = Pruned(SetCanonicalHead(canonical, b), Len(store[b]))
            /\ Materializes(b)
            /\ state' = IF CanExtend(b) THEN state \o Extension(b) ELSE store[b]
            /\ logs' = IF CanExtend(b) THEN logs \o Extension(b) ELSE store[b]
            /\ IF CanExtend(b)
                 THEN UNCHANGED snapshotVars
                 ELSE NewManager /\ snapshots' = Orphaned /\ UNCHANGED nextSnapshot
  /\ head' = Len(store[b])
  /\ pool' = pool \ MinedFromOldHead(b)
  /\ safe' = s
  /\ finalized' = f
  /\ payloadJobs' = IF build THEN payloadJobs \cup {b} ELSE payloadJobs
  /\ UNCHANGED <<store, mined, cacheVars, job>>

(* A block of the new branch does not replay: the old head is put back.    *)
ForkchoiceFails(b, s, f) ==
  /\ Idle
  /\ ForkchoiceIsSound(b, s, f)
  /\ b # HeadHash
  /\ ~Materializes(b)
  /\ canonical' = SetCanonicalHead(SetCanonicalHead(canonical, b), HeadHash)
  /\ UNCHANGED <<store, mined, head, state, logs, cacheVars, forkVars, pool, snapshotVars, job>>

-----------------------------------------------------------------------------
(* Historical reads: readStateAtBlock below the head. *)

(* Is the cache of a block that is still canonical?  (Mutant: any cache.)  *)
CacheExists == replayCache # None
CacheIsCanonical == replayCache # None /\ HashAt(replayCache.number) = replayCache.hash
CanonicalFrom(m, n) == [i \in 1..(n - m) |-> canonical[m + i]]

(* The blocks that run before the first that does not.                     *)
RunPrefix(path, base) ==
  SubSeq(path, 1, CHOOSE k \in 0..Len(path) :
                    /\ RunsAll(SubSeq(path, 1, k), base)
                    /\ k < Len(path) => ~RunsAll(SubSeq(path, 1, k + 1), base))

ReadAt(n) ==
  /\ Idle
  /\ n < head
  /\ n = 0 \/ n \in DOMAIN canonical
  /\ LET usable == CacheIsCanonical /\ replayCache.number <= n
         from == IF usable THEN replayCache.number ELSE 0
         path == CanonicalFrom(from, n)
         base == IF usable THEN replayCache.state ELSE <<>>
     IN /\ Len(base) + Len(path) <= MaxReplay
        /\ replayCache' =
             IF RunsAll(path, base)
               THEN [number |-> n, hash |-> HashAt(n), state |-> base \o path]
               ELSE IF usable THEN [replayCache EXCEPT !.state = base \o RunPrefix(path, base)]
               ELSE None
  /\ UNCHANGED <<chainVars, importState, invalid, forkVars, pool, snapshotVars, job>>

-----------------------------------------------------------------------------
(* The dev node: submission, mining, snapshots (see NodeRuntime). *)

(* The nonce of an executed transaction is below the account's.            *)
Submit(t) ==
  /\ Idle
  /\ t \notin Executed(state) \cup pool
  /\ Cardinality(pool) < MaxPool
  /\ pool' = pool \cup {t}
  /\ UNCHANGED <<chainVars, cacheVars, forkVars, snapshotVars, job>>

(* persistMinedBlock appends to the canonical head what the builder has    *)
(* not skipped as executed before.                                         *)
MineBlock(m, txs) ==
  /\ Idle
  /\ m \notin DOMAIN mined
  /\ txs \cap Executed(state) = {}
  /\ mined' = With(mined, m, txs)
  /\ store' = With(store, m, Append(store[HeadHash], m))
  /\ canonical' = With(canonical, head + 1, m)
  /\ head' = head + 1
  /\ state' = Append(state, m)
  /\ logs' = Append(logs, m)
  /\ pool' = pool \ txs
  /\ UNCHANGED <<cacheVars, forkVars, snapshotVars, job>>

(* The entry names the manager's snapshot, which holds the state; `mixed`  *)
(* is the history of that id: is it known to a manager since replaced?     *)
TakeSnapshot ==
  /\ Idle
  /\ nextSnapshot <= Len(MaxSnapshotHead)
  /\ head <= MaxSnapshotHead[nextSnapshot]
  /\ saved' = With(saved, nextSaved, state)
  /\ nextSaved' = nextSaved + 1
  /\ snapshots' = With(snapshots, nextSnapshot,
       [stateId |-> nextSaved, mixed |-> mixed, store |-> store,
        canonical |-> canonical, head |-> head, logs |-> logs, safe |-> safe,
        finalized |-> finalized, pool |-> pool])
  /\ nextSnapshot' = nextSnapshot + 1
  /\ UNCHANGED <<chainVars, cacheVars, forkVars, pool, mixed, job>>

(* The snapshots older than one.                                           *)
Before(f, n) == [i \in {i \in DOMAIN f : i < n} |-> f[i]]

(* revertToSnapshot: the caches go, the payload jobs stay; it is refused   *)
(* if the state manager does not know the entry's id.                      *)
Revert(id) ==
  /\ Idle
  /\ LET entry == snapshots[id] IN
     /\ entry.stateId \in DOMAIN saved
     /\ state' = saved[entry.stateId]
     /\ saved' = Before(saved, entry.stateId)
     /\ mixed' = entry.mixed
     /\ store' = entry.store
     /\ canonical' = entry.canonical
     /\ head' = entry.head
     /\ logs' = entry.logs
     /\ safe' = entry.safe
     /\ finalized' = entry.finalized
     /\ pool' = entry.pool
  /\ importState' = None
  /\ replayCache' = None
  /\ invalid' = [b \in {} |-> Genesis]
  /\ snapshots' = Before(snapshots, id)
  /\ UNCHANGED <<mined, payloadJobs, nextSnapshot, nextSaved, job>>

Reset ==
  /\ Idle
  /\ store' = [b \in {Genesis} |-> <<>>]
  /\ canonical' = <<>>
  /\ head' = 0
  /\ state' = <<>>
  /\ logs' = <<>>
  /\ importState' = None
  /\ replayCache' = None
  /\ invalid' = [b \in {} |-> Genesis]
  /\ safe' = None
  /\ finalized' = None
  /\ payloadJobs' = {}
  /\ pool' = {}
  /\ snapshots' = [id \in {} |-> None]
  /\ nextSnapshot' = 1
  /\ NewManager
  /\ UNCHANGED <<mined, job>>

-----------------------------------------------------------------------------
Next ==
  \/ \E b \in Payload : NewPayload(b)
  \/ ImportStep
  \/ \E b \in Block, s, f \in Finality \cup {None} :
       \/ \E build \in BOOLEAN : Forkchoice(b, s, f, build)
       \/ ForkchoiceFails(b, s, f)
  \/ \E n \in 0..head : ReadAt(n)
  \/ \E t \in Tx : Submit(t)
  \/ \E m \in Mined, txs \in SUBSET pool : MineBlock(m, txs)
  \/ TakeSnapshot
  \/ \E id \in DOMAIN snapshots : Revert(id)
  \/ Reset

Spec == Init /\ [][Next]_vars
-----------------------------------------------------------------------------
(* Properties. *)

(* The variables have their types; a stored block's branch ends in it, and *)
(* an import in progress is of blocks neither stored nor known invalid.    *)
ToImport == {job.list[i] : i \in DOMAIN job.list}
TypeOK ==
  /\ DOMAIN store \subseteq Block /\ Genesis \in DOMAIN store
  /\ \A b \in DOMAIN store : store[b] \in Path
  /\ DOMAIN mined \subseteq Mined
  /\ \A m \in DOMAIN mined : mined[m] \subseteq Tx
  /\ DOMAIN canonical \subseteq Nat
  /\ \A n \in DOMAIN canonical : canonical[n] \in Block
  /\ head \in Nat
  /\ state \in Path /\ logs \in Path
  /\ importState \in Cached \cup {None}
  /\ replayCache \in Replay \cup {None}
  /\ DOMAIN invalid \subseteq Payload
  /\ \A b \in DOMAIN invalid : invalid[b] \in Block
  /\ safe \in Block \cup {None} /\ finalized \in Block \cup {None}
  /\ payloadJobs \subseteq Block
  /\ pool \subseteq Tx
  /\ DOMAIN snapshots \subseteq Nat /\ nextSnapshot \in Nat
  /\ DOMAIN saved \subseteq Nat /\ nextSaved \in Nat
  /\ \A i \in DOMAIN saved : saved[i] \in Path
  /\ mixed \in BOOLEAN
  /\ job.phase \in {"idle", "fetch", "import"}
  /\ job.list \in Seq(Payload)
  /\ ToImport \cap (DOMAIN store \cup DOMAIN invalid) = {}

(* Head, canonical chain and log index speak of the same blocks: the       *)
(* branch of the stored head, whatever reorganised, failed, mined or       *)
(* reverted before.  So does the account state, unless a revert took it    *)
(* from another manager than the snapshot is of.                           *)
ChainIsOne ==
  /\ HeadHash \in DOMAIN store
  /\ head = Len(store[HeadHash])
  /\ \A n \in 1..head : canonical[n] = store[HeadHash][n]
  /\ logs = store[HeadHash]
  /\ ~mixed => state = store[HeadHash]

(* No number above the head is canonical, so that the highest one, which   *)
(* block queries take for `latest`, is the head.  (While every stored      *)
(* branch replays, and the state is the head's: a failed forkchoice leaves *)
(* the numbers it wrote.)                                                  *)
StoreReplays == \A b \in DOMAIN store : RunsAll(store[b], <<>>)
NothingAboveHead ==
  StoreReplays /\ ~mixed => \A n \in DOMAIN canonical : n <= head

(* The cache a historical read is answered from holds the state of the     *)
(* block it is labelled with, as long as that block is canonical.  (While  *)
(* every stored branch replays: a failed extension stops half-way.)        *)
CachedReadIsExact ==
  /\ StoreReplays
  /\ replayCache # None
  /\ HashAt(replayCache.number) = replayCache.hash
  =>
    /\ replayCache.hash \in DOMAIN store
    /\ replayCache.state = store[replayCache.hash]

(* What is read by number is right.                                        *)
CanonicalReadsAreExact == NothingAboveHead /\ CachedReadIsExact

(* A payload is held invalid for a reason, and the latest valid hash       *)
(* reported is the last good ancestor: its own parent if it does not       *)
(* execute on that parent's state, else what its invalid parent reports.   *)
InvalidIsJustified ==
  \A b \in DOMAIN invalid :
    IF Parent[b] \in DOMAIN invalid
      THEN invalid[b] = invalid[Parent[b]]
      ELSE /\ invalid[b] = Parent[b]
           /\ Parent[b] \in DOMAIN store
           /\ ~ValidOn(b, store[Parent[b]])

(* The safe and the finalized block stay on the canonical chain.           *)
FinalityIsCanonical ==
  \A hash \in {safe, finalized} \ {None} :
    hash \in DOMAIN store /\ IsAncestor(hash, HeadHash)

(* No transaction waits in the pool that the state has executed, back and  *)
(* forth between branches.  (A revert that takes the state from another    *)
(* manager takes the pool from its own.)                                   *)
PoolHasNoExecuted == ~mixed => pool \cap Executed(state) = {}

(* A payload under construction is executed on the live state: that is the *)
(* state of the parent it names.                                           *)
PayloadBuildsOnParent ==
  \A p \in payloadJobs : p \in DOMAIN store => state = store[p]
=============================================================================
