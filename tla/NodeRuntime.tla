---------------------------- MODULE NodeRuntime ----------------------------
(***************************************************************************)
(* The trusted runtime of src/node/runtime.zig with the submission         *)
(* handlers of src/rpc/handlers/tx_submission.zig: a pool, an account      *)
(* nonce per sender, a canonical chain, mining in the three modes, time    *)
(* controls, snapshot, revert and reset.                                   *)
(*                                                                         *)
(* Every RPC handler and every timer tick runs under runtime_mutex, so no  *)
(* other request is served while one mines: `job` is the mining call in    *)
(* progress and the other actions wait for it to be idle.  Mining itself   *)
(* is several steps because it can fail between any two of them.           *)
(*                                                                         *)
(* Abstracted: balances, gas and fees decide only whether a transaction    *)
(* with the right nonce is included or skipped, so a block may skip any;   *)
(* the wall clock plus time_offset is an arbitrary value at each read;     *)
(* the order of different senders in a block is arbitrary (TxPool models   *)
(* it); running out of memory is left out.                                 *)
(***************************************************************************)
EXTENDS PoolOps, Sequences

CONSTANTS
  Envelopes,    \* transactions callers submit, a subset of Envelope
  Times,        \* values of the clock, and overrides callers set
  Intervals,    \* interval seconds callers pass
  BlockTimes,   \* interval-mining block times callers set
  Counts,       \* block counts of one mine call
  ModeInputs,   \* mining modes the caller selects
  NonceInputs,  \* nonces set through zevm_setNonce
  DefaultMode,  \* default_mining_config
  BuildMayFail, \* whether a state read of the fork backend can fail
  MaxBlocks,    \* bound on the length of the chain
  MaxSnapshot,  \* bound on snapshot ids
  None          \* Zig null

ASSUME RuntimeAssumption ==
  /\ Envelopes \subseteq Envelope
  /\ Times \subseteq Nat
  /\ Intervals \subseteq Nat
  /\ BlockTimes \subseteq Nat
  /\ Counts \subseteq Nat \ {0}
  /\ ModeInputs \subseteq {"auto", "manual", "interval"}
  /\ NonceInputs \subseteq Nonce
  /\ DefaultMode \in {"auto", "manual"}
  /\ BuildMayFail \in BOOLEAN
  /\ MaxBlocks \in Nat
  /\ MaxSnapshot \in Nat
  /\ None \notin Nat

VARIABLES
  chain,             \* canonical blocks, genesis first; the last is the head
  stateNonce,        \* account nonces of the state manager
  pool, base,        \* the transaction pool and its sender_nonces
  config,            \* mining_config
  nextTimestamp,     \* next_block_timestamp, the one-shot override
  timestampInterval, \* block_timestamp_interval
  feeHead,           \* length of the chain base_fee was last computed for
  job,               \* the mining call in progress
  snapshots,         \* the live snapshot entries
  nextSnapshotId     \* next_snapshot_id

poolVars == <<pool, base>>
timeVars == <<nextTimestamp, timestampInterval>>
snapVars == <<snapshots, nextSnapshotId>>
vars == <<chain, stateNonce, poolVars, config, timeVars, feeHead, job, snapVars>>

Genesis == [timestamp |-> 0, txs |-> <<>>]
Block == [timestamp : Nat, txs : Seq(Envelope)]
Config == [mode : {"auto", "manual", "interval"}, blockTime : Nat]
Timestamp == Nat \cup {None}

(* phase: idle; begin: the next block of the call is to be set up; build:  *)
(* its transactions run.  left, first, interval and clock are the loop     *)
(* state of mineBlocks and its coordinator; restore is the caller's own    *)
(* override, reinstated on failure; todo and block are the ready           *)
(* transactions still to run and the ones included; saved is the state     *)
(* checkpoint of the block.                                                *)
Job == [phase : {"idle", "begin", "build"}, left : Nat, first : BOOLEAN,
        interval : Nat, clock : Nat, restore : Timestamp, todo : SUBSET Entry,
        block : Seq(Envelope), saved : [Sender -> Nonce],
        trigger : {"none", "auto", "mine", "mineInterval", "tick"}]

Snapshot == [id : Nat, chain : Seq(Block), stateNonce : [Sender -> Nonce],
             pool : SUBSET Entry, base : [Sender -> Nonce], config : Config,
             nextTimestamp : Timestamp, timestampInterval : Timestamp,
             feeHead : Nat]

ZeroNonces == [s \in Sender |-> 0]
IdleJob == [phase |-> "idle", left |-> 0, first |-> FALSE, interval |-> 0,
            clock |-> 0, restore |-> None, todo |-> {}, block |-> <<>>,
            saved |-> ZeroNonces, trigger |-> "none"]
Idle == job = IdleJob

HeadTimestamp == chain[Len(chain)].timestamp
Larger(a, b) == IF a < b THEN b ELSE a

Init ==
  /\ chain = <<Genesis>>
  /\ stateNonce = ZeroNonces
  /\ pool = {}
  /\ base = ZeroNonces
  /\ config = [mode |-> DefaultMode, blockTime |-> 0]
  /\ nextTimestamp = None
  /\ timestampInterval = None
  /\ feeHead = 1
  /\ job = IdleJob
  /\ snapshots = {}
  /\ nextSnapshotId = 1

-----------------------------------------------------------------------------
(* Starting a mining call. *)

(* nextBlockTimestamp refuses an override that is not above the head.      *)
OverrideMayTie(override) == override # None => override >= HeadTimestamp
OverrideIsUsable(override) == override # None => override > HeadTimestamp

(* mineBlocks up to its loop, with `override` standing in                  *)
(* next_block_timestamp and `own` the part of it the caller set; the       *)
(* override is consumed.                                                   *)
StartMining(count, interval, override, own, trigger) ==
  /\ OverrideIsUsable(override)
  /\ \E now \in Times :
       job' = [phase |-> "begin", left |-> count, first |-> TRUE,
               interval |-> interval,
               clock |-> IF override # None THEN override
                         ELSE Larger(HeadTimestamp + 1, now),
               restore |-> own, todo |-> {}, block |-> <<>>,
               saved |-> stateNonce, trigger |-> trigger]
  /\ nextTimestamp' = None

(* automine is mineBlocks(1, 0): the handler reports MiningFailed when the *)
(* override is not above the head, and the transaction stays in the pool.  *)
Automine ==
  IF OverrideIsUsable(nextTimestamp)
    THEN StartMining(1, 0, nextTimestamp, nextTimestamp, "auto")
    ELSE UNCHANGED <<job, nextTimestamp>>

(* A cadence places an override for the first block where the caller set   *)
(* none.                                                                   *)
StepOverride(step) == HeadTimestamp + Larger(step, 1)
FirstTimestamp(step) ==
  IF nextTimestamp # None THEN nextTimestamp ELSE StepOverride(step)

(* mineBlocksWithTimestampInterval without an explicit interval.           *)
MineWithTimestampInterval(count, trigger) ==
  IF timestampInterval = None
    THEN StartMining(count, 0, nextTimestamp, nextTimestamp, trigger)
    ELSE StartMining(count, timestampInterval, FirstTimestamp(timestampInterval),
                     nextTimestamp, trigger)

(* zevm_mine, zevm_mineDetailed. *)
Mine(count) ==
  /\ Idle
  /\ Len(chain) + count <= MaxBlocks
  /\ MineWithTimestampInterval(count, "mine")
  /\ UNCHANGED <<chain, stateNonce, poolVars, config, timestampInterval, feeHead, snapVars>>

MineInterval(count, interval) ==
  /\ Idle
  /\ Len(chain) + count <= MaxBlocks
  /\ StartMining(count, interval, nextTimestamp, nextTimestamp, "mineInterval")
  /\ UNCHANGED <<chain, stateNonce, poolVars, config, timestampInterval, feeHead, snapVars>>

(* mineIntervalTick, called by the timer thread with the mutex held. *)
Tick ==
  /\ Idle
  /\ config.mode = "interval"
  /\ Len(chain) + 1 <= MaxBlocks
  /\ IF timestampInterval # None
       THEN MineWithTimestampInterval(1, "tick")
       ELSE StartMining(1, config.blockTime, FirstTimestamp(config.blockTime),
                        nextTimestamp, "tick")
  /\ UNCHANGED <<chain, stateNonce, poolVars, config, timestampInterval, feeHead, snapVars>>

-----------------------------------------------------------------------------
(* The loop of mineBlocks. *)

(* The coordinator's clock stands one past the last block of the call.     *)
BlockClock ==
  IF ~job.first /\ job.interval > 0 THEN job.clock + job.interval - 1 ELSE job.clock

(* The transactions getReady takes from the pool.                          *)
ReadyHeads == {e \in pool : e.tx.nonce = base[e.tx.sender]}
Ready == Pending(pool, base)

(* Set up one block: advance the coordinator's clock, take the ready       *)
(* transactions, checkpoint the state.                                     *)
BeginBlock ==
  /\ job.phase = "begin"
  /\ job' = [job EXCEPT
       !.phase = "build",
       !.clock = BlockClock,
       !.todo = Ready,
       !.block = <<>>,
       !.saved = stateNonce]
  /\ UNCHANGED <<chain, stateNonce, poolVars, config, timeVars, feeHead, snapVars>>

(* The ready list is ascending per sender. *)
NextOfSender(e) ==
  /\ e \in job.todo
  /\ \A f \in job.todo : f.tx.sender = e.tx.sender => e.tx.nonce <= f.tx.nonce

(* processTransaction's checks on the nonce.                               *)
NonceNotBelow(e) == e.tx.nonce >= stateNonce[e.tx.sender]
NonceMatches(e) == e.tx.nonce = stateNonce[e.tx.sender]

(* processTransaction succeeds: the nonce is the account's, and it has a   *)
(* successor.                                                              *)
IncludeTx(e) ==
  /\ job.phase = "build"
  /\ NextOfSender(e)
  /\ NonceMatches(e)
  /\ e.tx.nonce < MaxNonce
  /\ stateNonce' = [stateNonce EXCEPT ![e.tx.sender] = e.tx.nonce + 1]
  /\ job' = [job EXCEPT !.todo = @ \ {e}, !.block = Append(@, e.tx)]
  /\ UNCHANGED <<chain, poolVars, config, timeVars, feeHead, snapVars>>

(* skip_invalid_transactions, or no gas left for it: the transaction is    *)
(* passed over and stays in the pool.                                      *)
SkipTx(e) ==
  /\ job.phase = "build"
  /\ NextOfSender(e)
  /\ job' = [job EXCEPT !.todo = @ \ {e}]
  /\ UNCHANGED <<chain, stateNonce, poolVars, config, timeVars, feeHead, snapVars>>

(* minedHashesFromResult: what removeMined is given.                       *)
ReadyHashes == {Hash(e.tx) : e \in Ready}
MinedHashes == {Hash(job.block[i]) : i \in DOMAIN job.block}

(* Only after the last block of the call is base_fee written back.         *)
FeeAfterFirst == IF job.first THEN Len(chain) + 1 ELSE feeHead
FeeAfterSeal == IF job.left > 1 THEN feeHead ELSE Len(chain) + 1

(* The block is committed and persisted, its transactions leave the pool.  *)
SealBlock ==
  /\ job.phase = "build"
  /\ job.todo = {}
  /\ chain' = Append(chain, [timestamp |-> job.clock, txs |-> job.block])
  /\ pool' = Removed(pool, MinedHashes)
  /\ base' = BaseAfterMined(pool, base, MinedHashes)
  /\ feeHead' = FeeAfterSeal
  /\ job' = IF job.left > 1
              THEN [job EXCEPT !.phase = "begin", !.left = @ - 1,
                               !.first = FALSE, !.clock = @ + 1, !.block = <<>>]
              ELSE IdleJob
  /\ UNCHANGED <<stateNonce, config, timeVars, snapVars>>

(* Mutant of BuildFails: the state of the failed block stays.              *)
BuildFailsUnreverted ==
  /\ BuildMayFail
  /\ job.phase = "build"
  /\ nextTimestamp' = job.restore
  /\ job' = IdleJob
  /\ UNCHANGED <<chain, stateNonce, poolVars, config, timestampInterval, feeHead, snapVars>>

(* A state read fails (StateError): the block's state changes are undone,  *)
(* the call returns the error, the caller's override is put back.          *)
BuildFails ==
  /\ BuildMayFail
  /\ job.phase = "build"
  /\ stateNonce' = job.saved
  /\ nextTimestamp' = job.restore
  /\ job' = IdleJob
  /\ UNCHANGED <<chain, poolVars, config, timestampInterval, feeHead, snapVars>>

MiningStep ==
  \/ BeginBlock
  \/ \E e \in job.todo : IncludeTx(e) \/ SkipTx(e)
  \/ SealBlock
  \/ BuildFails

-----------------------------------------------------------------------------
(* Submission. *)

(* handleSendRawTransaction and handleSendTransaction past their checks:   *)
(* setNonce, add, and in auto mode a mining call when the nonce is the     *)
(* account's (never for a blob transaction sent raw).  An underpriced      *)
(* replacement fails after setNonce.                                       *)
Submit(e) ==
  LET s == e.tx.sender
  IN  /\ Idle
      /\ config.mode = "auto" => Len(chain) < MaxBlocks
      /\ e.tx.nonce >= stateNonce[s]
      /\ base' = [base EXCEPT ![s] = stateNonce[s]]
      /\ IF Underpriced(pool, e)
           THEN UNCHANGED <<pool, job, nextTimestamp>>
           ELSE /\ pool' = Added(pool, e)
                /\ IF /\ config.mode = "auto"
                      /\ e.tx.blobFee = NoFee
                      /\ e.tx.nonce = stateNonce[s]
                     THEN Automine
                     ELSE UNCHANGED <<job, nextTimestamp>>
      /\ UNCHANGED <<chain, stateNonce, config, timestampInterval, feeHead, snapVars>>

(* The two handlers differ in what they accept and in the priority fee     *)
(* they store: the raw path keeps the envelope's; the other builds a       *)
(* legacy transaction, unsigned for an impersonated account, and stores 0. *)
SendRawTransaction(tx) ==
  /\ tx.signed
  /\ Submit([tx |-> tx, priority |-> tx.tip])

SendTransaction(tx) ==
  /\ tx.blobFee = NoFee
  /\ tx.tip = tx.fee
  /\ Submit([tx |-> tx, priority |-> 0])

(* zevm_dropTransaction, zevm_removePoolTransactions: removeByHash drops   *)
(* one entry with the hash.                                                *)
DropTransaction(e) ==
  /\ Idle
  /\ pool' = pool \ {e}
  /\ UNCHANGED <<chain, stateNonce, base, config, timeVars, feeHead, job, snapVars>>

(* zevm_dropAllTransactions: clear forgets the base nonces too. *)
DropAllTransactions ==
  /\ Idle
  /\ pool' = {}
  /\ base' = ZeroNonces
  /\ UNCHANGED <<chain, stateNonce, config, timeVars, feeHead, job, snapVars>>

-----------------------------------------------------------------------------
(* Controls. *)

(* zevm_setNonce, zevm_setAccount, zevm_loadState: the account, not the pool. *)
SetNonce(s, n) ==
  /\ Idle
  /\ stateNonce' = [stateNonce EXCEPT ![s] = n]
  /\ UNCHANGED <<chain, poolVars, config, timeVars, feeHead, job, snapVars>>

(* setMiningConfig: an interval of 0 means manual. *)
SetMiningConfig(mode, blockTime) ==
  /\ Idle
  /\ config' = IF mode = "interval" /\ blockTime > 0
                 THEN [mode |-> "interval", blockTime |-> blockTime]
                 ELSE [mode |-> IF mode = "interval" THEN "manual" ELSE mode,
                       blockTime |-> 0]
  /\ UNCHANGED <<chain, stateNonce, poolVars, timeVars, feeHead, job, snapVars>>

(* setNextBlockTimestamp accepts any timestamp. *)
SetNextBlockTimestamp(t) ==
  /\ Idle
  /\ nextTimestamp' = t
  /\ UNCHANGED <<chain, stateNonce, poolVars, config, timestampInterval, feeHead, job, snapVars>>

(* setBlockTimestampInterval, removeBlockTimestampInterval. *)
SetBlockTimestampInterval(i) ==
  /\ Idle
  /\ timestampInterval' = i
  /\ UNCHANGED <<chain, stateNonce, poolVars, config, nextTimestamp, feeHead, job, snapVars>>

-----------------------------------------------------------------------------
(* Snapshots. *)

SnapshotEntry ==
  [id |-> nextSnapshotId, chain |-> chain, stateNonce |-> stateNonce,
   pool |-> pool, base |-> base, config |-> config,
   nextTimestamp |-> nextTimestamp, timestampInterval |-> timestampInterval,
   feeHead |-> feeHead]

TakeSnapshot ==
  /\ Idle
  /\ nextSnapshotId <= MaxSnapshot
  /\ snapshots' = snapshots \cup {SnapshotEntry}
  /\ nextSnapshotId' = nextSnapshotId + 1
  /\ UNCHANGED <<chain, stateNonce, poolVars, config, timeVars, feeHead, job>>

(* The snapshots a revert leaves: it forgets its own and every later one.  *)
OtherSnapshots(entry) == snapshots \ {entry}
OlderSnapshots(entry) == {other \in snapshots : other.id < entry.id}

Revert(entry) ==
  /\ Idle
  /\ chain' = entry.chain
  /\ stateNonce' = entry.stateNonce
  /\ pool' = entry.pool
  /\ base' = entry.base
  /\ config' = entry.config
  /\ nextTimestamp' = entry.nextTimestamp
  /\ timestampInterval' = entry.timestampInterval
  /\ feeHead' = entry.feeHead
  /\ snapshots' = OlderSnapshots(entry)
  /\ UNCHANGED <<job, nextSnapshotId>>

Reset ==
  /\ Idle
  /\ chain' = <<Genesis>>
  /\ stateNonce' = ZeroNonces
  /\ pool' = {}
  /\ base' = ZeroNonces
  /\ config' = [mode |-> DefaultMode, blockTime |-> 0]
  /\ nextTimestamp' = None
  /\ timestampInterval' = None
  /\ feeHead' = 1
  /\ snapshots' = {}
  /\ nextSnapshotId' = 1
  /\ UNCHANGED job

-----------------------------------------------------------------------------
Request ==
  \/ \E tx \in Envelopes : SendRawTransaction(tx) \/ SendTransaction(tx)
  \/ \E e \in pool : DropTransaction(e)
  \/ DropAllTransactions
  \/ \E c \in Counts : Mine(c) \/ \E i \in Intervals : MineInterval(c, i)
  \/ \E s \in Sender, n \in NonceInputs : SetNonce(s, n)
  \/ \E m \in ModeInputs, b \in BlockTimes : SetMiningConfig(m, b)
  \/ \E t \in Times : SetNextBlockTimestamp(t)
  \/ \E i \in Intervals \cup {None} : SetBlockTimestampInterval(i)
  \/ TakeSnapshot
  \/ \E entry \in snapshots : Revert(entry)
  \/ Reset

Next == Request \/ Tick \/ MiningStep

Spec == Init /\ [][Next]_vars
-----------------------------------------------------------------------------
(* Properties. *)

(* The variables have their types; a live snapshot id was handed out.      *)
TypeOK ==
  /\ chain \in Seq(Block) /\ Len(chain) > 0
  /\ stateNonce \in [Sender -> Nonce]
  /\ pool \subseteq Entry
  /\ base \in [Sender -> Nonce]
  /\ config \in Config
  /\ nextTimestamp \in Timestamp
  /\ timestampInterval \in Timestamp
  /\ feeHead \in Nat
  /\ job \in Job
  /\ snapshots \subseteq Snapshot
  /\ nextSnapshotId \in Nat \ {0}
  /\ \A entry \in snapshots : Len(entry.chain) > 0 /\ entry.id < nextSnapshotId

(* Every block is later than its parent, on the canonical chain and on     *)
(* every chain a snapshot would restore, whatever overrides, intervals,    *)
(* clock readings, failures and reverts came before.                       *)
Increasing(c) == \A i \in 1..(Len(c) - 1) : c[i].timestamp < c[i + 1].timestamp
TimestampsIncrease ==
  /\ Increasing(chain)
  /\ \A entry \in snapshots : Increasing(entry.chain)

(* The account nonces are those the blocks produce, and during a build     *)
(* those the block so far produces: a failed or reverted block leaves no   *)
(* nonce behind, and a snapshot pairs a chain with its own state.          *)
(* (Without zevm_setNonce.)                                                *)
Ledger == INSTANCE DevChain
ExecutedBy(txs, s) == Cardinality({i \in DOMAIN txs : txs[i].sender = s})
StateMatchesLedger ==
  /\ \A s \in Sender :
       stateNonce[s] = Ledger!NonceAfter(chain, s) + ExecutedBy(job.block, s)
  /\ \A entry \in snapshots, s \in Sender :
       entry.stateNonce[s] = Ledger!NonceAfter(entry.chain, s)

(* Between requests the pool agrees with the state on every sender it      *)
(* holds transactions of: the base nonce is the account's, and no          *)
(* transaction is held that could only be a replay.                        *)
(* (Without zevm_setNonce and without unsigned envelopes.)                 *)
PoolTracksState ==
  Idle => \A e \in pool :
            /\ base[e.tx.sender] = stateNonce[e.tx.sender]
            /\ e.tx.nonce >= stateNonce[e.tx.sender]

(* Chain, state and pool have one idea of an account's nonce.              *)
NoncesAgree == StateMatchesLedger /\ PoolTracksState

(* A block considers every executable transaction: all those whose         *)
(* predecessors from the account nonce on are in the pool.                 *)
Executable ==
  {e \in pool : \A n \in stateNonce[e.tx.sender]..e.tx.nonce :
                  Slot(pool, e.tx.sender, n) # {}}
ExecutableIsReady ==
  [][BeginBlock =>
       {e \in Executable : e.tx.nonce >= stateNonce[e.tx.sender]}
         \subseteq job'.todo]_vars

(* Sealing a block takes the transactions of the block out of the pool,    *)
(* all of them and no other: the queued ones and the skipped ones stay.    *)
SealTakesOnlyMined ==
  [][SealBlock => {e.tx : e \in pool \ pool'} =
                    {job.block[i] : i \in DOMAIN job.block}]_vars

(* The live snapshots lie on the canonical chain, the older below the      *)
(* newer, so that reverting only ever cuts the chain back.                 *)
Prefix(c, d) == Len(c) <= Len(d) /\ c = SubSeq(d, 1, Len(c))
SnapshotsArePrefixes ==
  \A entry \in snapshots :
    /\ entry.id < nextSnapshotId
    /\ Prefix(entry.chain, chain)
    /\ \A later \in snapshots :
         entry.id <= later.id => Prefix(entry.chain, later.chain)

(* The timestamp a sealed block must carry.  Precedence for the first      *)
(* block of a call: the one-shot override, the caller's explicit interval  *)
(* (which speaks of later blocks only), the timestamp interval, the block  *)
(* time of the timer.  Later blocks of a call are an interval apart.       *)
TimestampIsDue(t) ==
  IF ~job.first THEN t = HeadTimestamp + Larger(job.interval, 1)
  ELSE IF job.restore # None THEN t = job.restore
  ELSE IF job.trigger = "mineInterval" THEN t > HeadTimestamp
  ELSE IF timestampInterval # None THEN t = HeadTimestamp + Larger(timestampInterval, 1)
  ELSE IF job.trigger = "tick" THEN t = HeadTimestamp + config.blockTime
  ELSE t > HeadTimestamp
TimestampFollowsPrecedence ==
  [][SealBlock => TimestampIsDue(chain'[Len(chain')].timestamp)]_vars

(* Between requests base_fee is the fee after the head, the one            *)
(* validateHeader would demand of the next block.                          *)
FeeMatchesHead ==
  /\ Idle => feeHead = Len(chain)
  /\ \A entry \in snapshots : entry.feeHead = Len(entry.chain)

(* The chain is the one DevChain promises: it grows by valid blocks and is *)
(* cut back by revert and reset only.  (Without zevm_setNonce.)            *)
ImplementsDevChain == Ledger!Spec
=============================================================================
