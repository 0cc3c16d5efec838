------------------------- MODULE NodeRuntimeProofs -------------------------
(***************************************************************************)
(* Proofs about NodeRuntime, for any senders, transactions, inputs and     *)
(* bounds: the types, the increase of timestamps along every chain, the    *)
(* nesting of the live snapshots on the canonical chain, the agreement of  *)
(* chain, state and pool on nonces, the base fee of the head, the          *)
(* timestamps that are due, and the refinement of DevChain.                *)
(***************************************************************************)
EXTENDS NodeRuntime, SequenceTheorems, FiniteSetTheorems, WellFoundedInduction, TLAPS

-----------------------------------------------------------------------------
(* Lemmas about the operators. *)

(* A non-empty set of nonces has a largest element. *)
LEMMA LargestNonce ==
  ASSUME NEW S \in SUBSET Nonce, S # {}
  PROVE  \E n \in S : \A m \in S : m <= n
<1> DEFINE R == OpToRel(<, Nat)
           T == {MaxNonce - n : n \in S}
<1>0. MaxNonce \in Nat /\ \A n \in S : n \in Nat /\ n <= MaxNonce
  BY PoolAssumption DEF Nonce
<1>1. T \subseteq Nat /\ T # {}
  <2>1. \A n \in S : MaxNonce - n \in Nat
    BY <1>0
  <2>2. T \subseteq Nat
    BY <2>1
  <2> QED
    BY <2>2
<1>2. \E x \in T : \A y \in T : ~(<<y, x>> \in R)
  BY <1>1, NatLessThanWellFounded, WFMin
<1>3. PICK x \in T : \A y \in T : ~(<<y, x>> \in R)
  BY <1>2
<1>4. \A y \in T : ~(y < x)
  BY <1>1, <1>3 DEF OpToRel
<1>5. PICK n \in S : x = MaxNonce - n
  BY <1>3
<1>6. ASSUME NEW m \in S PROVE m <= n
  <2>1. ~(MaxNonce - m < MaxNonce - n)
    BY <1>4, <1>5
  <2> QED
    BY <2>1, <1>0
<1> QED
  BY <1>6

(* removeMined leaves every sender a nonce. *)
LEMMA BaseAfterMinedType ==
  ASSUME NEW p \in SUBSET Entry, NEW b \in [Sender -> Nonce], NEW hashes
  PROVE  BaseAfterMined(p, b, hashes) \in [Sender -> Nonce]
<1> DEFINE mined(s) == {SatSucc(e.tx.nonce) :
                          e \in {f \in p : Hash(f.tx) \in hashes /\ f.tx.sender = s}}
<1>1. ASSUME NEW s \in Sender
      PROVE  (CHOOSE n \in mined(s) \cup {b[s]} :
                \A m \in mined(s) \cup {b[s]} : m <= n) \in Nonce
  <2>1. mined(s) \cup {b[s]} \in SUBSET Nonce
    BY PoolAssumption DEF SatSucc, Nonce, Entry, Envelope
  <2>2. \E n \in mined(s) \cup {b[s]} : \A m \in mined(s) \cup {b[s]} : m <= n
    <3> HIDE DEF mined
    <3> QED
      BY <2>1, LargestNonce
  <2> HIDE DEF mined
  <2> QED
    BY <2>1, <2>2
<1> QED
  BY <1>1 DEF BaseAfterMined

(* A prefix agrees position by position. *)
LEMMA PrefixPointwise ==
  ASSUME NEW c \in Seq(Block), NEW d \in Seq(Block)
  PROVE  Prefix(c, d) <=> /\ Len(c) <= Len(d)
                          /\ \A i \in 1..Len(c) : c[i] = d[i]
<1> SUFFICES ASSUME Len(c) <= Len(d)
             PROVE  c = SubSeq(d, 1, Len(c)) <=> \A i \in 1..Len(c) : c[i] = d[i]
  BY DEF Prefix
<1> DEFINE e == SubSeq(d, 1, Len(c))
<1>1. Len(c) \in Nat /\ Len(d) \in Nat
  BY LenProperties
<1>2. \A i \in 1..Len(c) : d[i] \in Block
  BY <1>1, ElementOfSeq
<1>3. /\ e \in Seq(Block)
      /\ Len(e) = Len(c)
      /\ \A i \in 1..Len(c) : e[i] = d[i]
  <2>1. /\ e \in Seq(Block)
        /\ Len(e) = IF 1 <= Len(c) THEN Len(c) - 1 + 1 ELSE 0
        /\ \A i \in 1..(Len(c) - 1 + 1) : e[i] = d[1 + i - 1]
    BY <1>1, <1>2, SubSeqProperties
  <2> HIDE DEF e
  <2> QED
    BY <1>1, <2>1
<1> HIDE DEF e
<1>4. c = e <=> \A i \in 1..Len(c) : c[i] = e[i]
  BY <1>1, <1>3, SeqEqual
<1>5. c = e <=> \A i \in 1..Len(c) : c[i] = d[i]
  BY <1>3, <1>4
<1> QED
  BY <1>5 DEF e

(* Increase survives appending a later block. *)
LEMMA AppendIncreasing ==
  ASSUME NEW c \in Seq(Block), Len(c) > 0, Increasing(c),
         NEW blk \in Block, blk.timestamp > c[Len(c)].timestamp
  PROVE  Increasing(Append(c, blk))
<1>1. /\ Len(c) \in Nat
      /\ Len(Append(c, blk)) = Len(c) + 1
      /\ \A i \in 1..Len(c) : Append(c, blk)[i] = c[i]
      /\ Append(c, blk)[Len(c) + 1] = blk
  BY AppendProperties, LenProperties
<1> QED
  BY <1>1 DEF Increasing

LEMMA AppendPrefix ==
  ASSUME NEW c \in Seq(Block), NEW d \in Seq(Block), Prefix(c, d), NEW blk \in Block
  PROVE  Prefix(c, Append(d, blk))
<1>1. /\ Append(d, blk) \in Seq(Block)
      /\ Len(c) \in Nat
      /\ Len(d) \in Nat
      /\ Len(Append(d, blk)) = Len(d) + 1
      /\ \A i \in 1..Len(d) : Append(d, blk)[i] = d[i]
  BY AppendProperties, LenProperties
<1>2. /\ Len(c) <= Len(d)
      /\ \A i \in 1..Len(c) : c[i] = d[i]
  BY PrefixPointwise
<1>3. /\ Len(c) <= Len(Append(d, blk))
      /\ \A i \in 1..Len(c) : c[i] = Append(d, blk)[i]
  BY <1>1, <1>2
<1> QED
  BY <1>1, <1>3, PrefixPointwise

LEMMA PrefixReflexive ==
  ASSUME NEW c \in Seq(Block)
  PROVE  Prefix(c, c)
  BY PrefixPointwise, LenProperties

-----------------------------------------------------------------------------
(* Types. *)

LEMMA HeadTimestampType == TypeOK => HeadTimestamp \in Nat
<1> SUFFICES ASSUME TypeOK PROVE HeadTimestamp \in Nat
  OBVIOUS
<1>1. Len(chain) \in 1..Len(chain)
  BY LenProperties DEF TypeOK
<1>2. chain[Len(chain)] \in Block
  BY <1>1, ElementOfSeq DEF TypeOK
<1> QED
  BY <1>2 DEF HeadTimestamp, Block

LEMMA IdleJobType == IdleJob \in Job
<1>1. ZeroNonces \in [Sender -> Nonce]
  BY PoolAssumption DEF ZeroNonces, Nonce
<1>2. <<>> \in Seq(Envelope)
  BY EmptySeq
<1> QED
  BY <1>1, <1>2 DEF IdleJob, Job, Timestamp

(* A mining call starts with a clock above the head. *)
LEMMA StartMiningType ==
  ASSUME TypeOK, NEW count \in Nat, NEW interval \in Nat,
         NEW override \in Timestamp, NEW own \in Timestamp,
         NEW trigger \in {"auto", "mine", "mineInterval", "tick"},
         StartMining(count, interval, override, own, trigger)
  PROVE  /\ job' \in Job
         /\ job'.clock > HeadTimestamp
         /\ nextTimestamp' \in Timestamp
<1>1. PICK now \in Times :
        job' = [phase |-> "begin", left |-> count, first |-> TRUE,
                interval |-> interval,
                clock |-> IF override # None THEN override
                          ELSE Larger(HeadTimestamp + 1, now),
                restore |-> own, todo |-> {}, block |-> <<>>,
                saved |-> stateNonce, trigger |-> trigger]
  BY DEF StartMining
<1>2. HeadTimestamp \in Nat /\ now \in Nat
  BY HeadTimestampType, RuntimeAssumption
<1>3. override # None => override \in Nat /\ override > HeadTimestamp
  BY DEF StartMining, OverrideIsUsable, Timestamp
<1> DEFINE clock == IF override # None THEN override ELSE Larger(HeadTimestamp + 1, now)
<1>4. clock \in Nat /\ clock > HeadTimestamp
  BY <1>2, <1>3 DEF Larger
<1>5. <<>> \in Seq(Envelope)
  BY EmptySeq
<1>6. stateNonce \in [Sender -> Nonce]
  BY DEF TypeOK
<1> HIDE DEF clock
<1>7. job' = [phase |-> "begin", left |-> count, first |-> TRUE,
              interval |-> interval, clock |-> clock, restore |-> own,
              todo |-> {}, block |-> <<>>, saved |-> stateNonce, trigger |-> trigger]
  BY <1>1 DEF clock
<1>8. job' \in Job
  BY <1>4, <1>5, <1>6, <1>7 DEF Job
<1>9. nextTimestamp' = None
  BY DEF StartMining
<1> QED
  BY <1>4, <1>7, <1>8, <1>9 DEF Timestamp

LEMMA MineWithTimestampIntervalType ==
  ASSUME TypeOK, NEW count \in Nat, NEW trigger \in {"mine", "tick"},
         MineWithTimestampInterval(count, trigger)
  PROVE  /\ job' \in Job
         /\ job'.clock > HeadTimestamp
         /\ nextTimestamp' \in Timestamp
<1>1. HeadTimestamp \in Nat /\ nextTimestamp \in Timestamp
  BY HeadTimestampType DEF TypeOK
<1>2. CASE timestampInterval = None
  BY <1>1, <1>2, StartMiningType DEF MineWithTimestampInterval
<1>3. CASE timestampInterval # None
  <2>1. timestampInterval \in Nat
    BY <1>3 DEF TypeOK, Timestamp
  <2> DEFINE over == FirstTimestamp(timestampInterval)
  <2>2. over \in Timestamp
    BY <1>1, <2>1 DEF FirstTimestamp, StepOverride, Timestamp, Larger
  <2>3. StartMining(count, timestampInterval, over, nextTimestamp, trigger)
    BY <1>3 DEF MineWithTimestampInterval
  <2> HIDE DEF over
  <2> QED
    BY <1>1, <2>1, <2>2, <2>3, StartMiningType
<1> QED
  BY <1>2, <1>3

(* The types are preserved by each group of actions. *)
LEMMA SubmitType ==
  ASSUME TypeOK, NEW e \in Entry, Submit(e)
  PROVE  TypeOK'
<1>1. stateNonce[e.tx.sender] \in Nonce
  BY DEF TypeOK, Entry, Envelope
<1>2. base' \in [Sender -> Nonce]
  BY <1>1 DEF TypeOK, Submit
<1>3. /\ pool' \subseteq Entry
      /\ job' \in Job
      /\ nextTimestamp' \in Timestamp
  <2>1. CASE Underpriced(pool, e)
    BY <2>1 DEF Submit, TypeOK
  <2>2. CASE ~Underpriced(pool, e)
    <3>1. pool' \subseteq Entry
      BY <2>2 DEF Submit, Added, TypeOK
    <3>2. Automine \/ UNCHANGED <<job, nextTimestamp>>
      BY <2>2 DEF Submit
    <3>3. CASE Automine
      BY <3>1, <3>3, StartMiningType DEF Automine, TypeOK
    <3> QED
      BY <3>1, <3>2, <3>3 DEF TypeOK
  <2> QED
    BY <2>1, <2>2
<1> QED
  BY <1>2, <1>3 DEF Submit, TypeOK, snapVars

LEMMA SendType ==
  ASSUME TypeOK, NEW tx \in Envelopes, SendRawTransaction(tx) \/ SendTransaction(tx)
  PROVE  TypeOK'
<1>1. tx \in Envelope
  BY RuntimeAssumption
<1>2. /\ [tx |-> tx, priority |-> tx.tip] \in Entry
      /\ [tx |-> tx, priority |-> 0] \in Entry
  BY <1>1, PoolAssumption DEF Entry, Envelope
<1> QED
  BY <1>2, SubmitType DEF SendRawTransaction, SendTransaction

LEMMA CallType ==
  ASSUME TypeOK,
         \/ \E c \in Counts : Mine(c) \/ \E i \in Intervals : MineInterval(c, i)
         \/ Tick
  PROVE  /\ TypeOK'
         /\ job'.clock > HeadTimestamp
         /\ UNCHANGED <<chain, snapVars>>
<1> USE RuntimeAssumption DEF TypeOK, poolVars, snapVars
<1>0. HeadTimestamp \in Nat
  BY HeadTimestampType
<1>1. ASSUME NEW c \in Counts, Mine(c)
      PROVE  /\ job' \in Job
             /\ job'.clock > HeadTimestamp
             /\ nextTimestamp' \in Timestamp
  BY <1>1, MineWithTimestampIntervalType DEF Mine
<1>2. ASSUME NEW c \in Counts, NEW i \in Intervals, MineInterval(c, i)
      PROVE  /\ job' \in Job
             /\ job'.clock > HeadTimestamp
             /\ nextTimestamp' \in Timestamp
  BY <1>2, StartMiningType DEF MineInterval
<1>3. ASSUME Tick
      PROVE  /\ job' \in Job
             /\ job'.clock > HeadTimestamp
             /\ nextTimestamp' \in Timestamp
  <2>1. CASE timestampInterval # None
    BY <1>3, <2>1, MineWithTimestampIntervalType DEF Tick
  <2>2. CASE timestampInterval = None
    <3> DEFINE over == FirstTimestamp(config.blockTime)
    <3>1. config.blockTime \in Nat
      BY DEF Config
    <3>2. over \in Timestamp
      BY <1>0, <3>1 DEF FirstTimestamp, StepOverride, Timestamp, Larger
    <3>3. StartMining(1, config.blockTime, over, nextTimestamp, "tick")
      BY <1>3, <2>2 DEF Tick
    <3> HIDE DEF over
    <3> QED
      BY <3>1, <3>2, <3>3, StartMiningType
  <2> QED
    BY <2>1, <2>2
<1>4. CASE \E c \in Counts : Mine(c)
  BY <1>1, <1>4 DEF Mine
<1>5. CASE \E c \in Counts, i \in Intervals : MineInterval(c, i)
  BY <1>2, <1>5 DEF MineInterval
<1>6. CASE Tick
  BY <1>3, <1>6 DEF Tick
<1> QED
  BY <1>4, <1>5, <1>6

LEMMA ControlType ==
  ASSUME TypeOK,
         \/ \E e \in pool : DropTransaction(e)
         \/ DropAllTransactions
         \/ \E s \in Sender, nn \in NonceInputs : SetNonce(s, nn)
         \/ \E m \in ModeInputs, b \in BlockTimes : SetMiningConfig(m, b)
         \/ \E t \in Times : SetNextBlockTimestamp(t)
         \/ \E i \in Intervals \cup {None} : SetBlockTimestampInterval(i)
  PROVE  TypeOK' /\ UNCHANGED <<chain, job, snapVars>>
<1> USE RuntimeAssumption DEF TypeOK, poolVars, timeVars, snapVars
<1>1. ASSUME NEW e \in pool, DropTransaction(e)
      PROVE  TypeOK' /\ UNCHANGED <<chain, job, snapVars>>
  BY <1>1 DEF DropTransaction
<1>2. ASSUME DropAllTransactions
      PROVE  TypeOK' /\ UNCHANGED <<chain, job, snapVars>>
  BY <1>2, PoolAssumption DEF DropAllTransactions, ZeroNonces, Nonce
<1>3. ASSUME NEW s \in Sender, NEW nn \in NonceInputs, SetNonce(s, nn)
      PROVE  TypeOK' /\ UNCHANGED <<chain, job, snapVars>>
  BY <1>3 DEF SetNonce
<1>4. ASSUME NEW m \in ModeInputs, NEW b \in BlockTimes, SetMiningConfig(m, b)
      PROVE  TypeOK' /\ UNCHANGED <<chain, job, snapVars>>
  BY <1>4 DEF SetMiningConfig, Config
<1>5. ASSUME NEW t \in Times, SetNextBlockTimestamp(t)
      PROVE  TypeOK' /\ UNCHANGED <<chain, job, snapVars>>
  BY <1>5 DEF SetNextBlockTimestamp, Timestamp
<1>6. ASSUME NEW i \in Intervals \cup {None}, SetBlockTimestampInterval(i)
      PROVE  TypeOK' /\ UNCHANGED <<chain, job, snapVars>>
  BY <1>6 DEF SetBlockTimestampInterval, Timestamp
<1> HIDE DEF TypeOK
<1> QED
  BY <1>1, <1>2, <1>3, <1>4, <1>5, <1>6

-----------------------------------------------------------------------------
(* The inductive invariant: timestamps increase because the clock of a     *)
(* mining call stays above the head, and a revert only cuts back because   *)
(* the live snapshots lie on the chain.                                    *)
ClockAboveHead == job.phase # "idle" => job.clock > HeadTimestamp
Inv ==
  /\ TypeOK
  /\ TimestampsIncrease
  /\ SnapshotsArePrefixes
  /\ ClockAboveHead

LEMMA InvInit == Init => Inv
<1> SUFFICES ASSUME Init PROVE Inv
  OBVIOUS
<1> USE DEF Init
<1>1. Genesis \in Block
  BY EmptySeq DEF Genesis, Block
<1>2. chain \in Seq(Block) /\ Len(chain) = 1
  BY <1>1
<1>3. stateNonce \in [Sender -> Nonce] /\ base \in [Sender -> Nonce]
  BY PoolAssumption DEF ZeroNonces, Nonce
<1>4. job \in Job
  BY IdleJobType
<1>5. TypeOK
  BY <1>2, <1>3, <1>4, RuntimeAssumption DEF TypeOK, Config, Timestamp
<1> QED
  BY <1>2, <1>5 DEF Inv, TimestampsIncrease, Increasing, SnapshotsArePrefixes,
                    ClockAboveHead, IdleJob

(* Steps that leave the chain and the snapshots alone. *)
LEMMA QuietStep ==
  ASSUME Inv, TypeOK', UNCHANGED <<chain, snapVars>>,
         job'.phase # "idle" => job'.clock > HeadTimestamp
  PROVE  Inv'
  BY DEF Inv, TimestampsIncrease, SnapshotsArePrefixes, ClockAboveHead,
         HeadTimestamp, snapVars, Increasing, Prefix

LEMMA SubmitStep ==
  ASSUME Inv, NEW tx \in Envelopes, SendRawTransaction(tx) \/ SendTransaction(tx)
  PROVE  Inv'
<1>1. TypeOK' /\ TypeOK
  BY SendType DEF Inv
<1>2. PICK e \in Entry : Submit(e)
  <2>1. tx \in Envelope
    BY RuntimeAssumption
  <2>2. /\ [tx |-> tx, priority |-> tx.tip] \in Entry
        /\ [tx |-> tx, priority |-> 0] \in Entry
    BY <2>1, PoolAssumption DEF Entry, Envelope
  <2> QED
    BY <2>2 DEF SendRawTransaction, SendTransaction
<1>3. UNCHANGED <<chain, snapVars>>
  BY <1>2 DEF Submit
<1>4. UNCHANGED job \/ Automine
  BY <1>2 DEF Submit
<1>5. job'.phase # "idle" => job'.clock > HeadTimestamp
  <2>1. CASE UNCHANGED job
    BY <2>1 DEF Inv, ClockAboveHead
  <2>2. CASE Automine
    <3>1. CASE UNCHANGED <<job, nextTimestamp>>
      BY <3>1, <2>1
    <3>2. CASE StartMining(1, 0, nextTimestamp, nextTimestamp, "auto")
      BY <3>2, <1>1, StartMiningType DEF TypeOK
    <3> QED
      BY <2>2, <3>1, <3>2 DEF Automine
  <2> QED
    BY <1>4, <2>1, <2>2
<1> QED
  BY <1>1, <1>3, <1>5, QuietStep

(* The steps of mineBlocks. *)
LEMMA BeginBlockStep == Inv /\ BeginBlock => Inv'
<1> SUFFICES ASSUME Inv, BeginBlock PROVE Inv'
  OBVIOUS
<1> USE DEF BeginBlock
<1>1. TypeOK
  BY DEF Inv
<1>2. /\ HeadTimestamp \in Nat
      /\ job.clock \in Nat
      /\ job.interval \in Nat
      /\ job.clock > HeadTimestamp
  BY <1>1, HeadTimestampType DEF Inv, ClockAboveHead, TypeOK, Job
<1>3. BlockClock \in Nat /\ BlockClock > HeadTimestamp
  BY <1>2 DEF BlockClock
<1>4. Ready \in SUBSET Entry /\ <<>> \in Seq(Envelope)
  BY <1>1, EmptySeq DEF Ready, Pending, TypeOK
<1>5. job' = [job EXCEPT !.phase = "build", !.clock = BlockClock,
                         !.todo = Ready, !.block = <<>>, !.saved = stateNonce]
  OBVIOUS
<1>6. job' \in Job /\ job'.clock = BlockClock
  BY <1>1, <1>3, <1>4, <1>5 DEF TypeOK, Job
<1>7. TypeOK'
  BY <1>1, <1>6 DEF TypeOK, poolVars, timeVars, snapVars
<1> QED
  BY <1>3, <1>6, <1>7, QuietStep

LEMMA IncludeOrSkipStep ==
  ASSUME Inv, NEW e \in job.todo, IncludeTx(e) \/ SkipTx(e)
  PROVE  Inv'
<1>1. TypeOK
  BY DEF Inv
<1>2. e \in Entry /\ e.tx \in Envelope
  BY <1>1 DEF TypeOK, Job, Entry
<1>3. CASE IncludeTx(e)
  <2> USE <1>3 DEF IncludeTx
  <2>1. Append(job.block, e.tx) \in Seq(Envelope)
    BY <1>1, <1>2, AppendProperties DEF TypeOK, Job
  <2>2. job' \in Job /\ job'.clock = job.clock /\ job'.phase = job.phase
    BY <1>1, <2>1 DEF TypeOK, Job
  <2>3. stateNonce' \in [Sender -> Nonce]
    BY <1>1, <1>2, PoolAssumption DEF NonceMatches, TypeOK, Nonce, Envelope
  <2>4. TypeOK'
    BY <1>1, <2>2, <2>3 DEF TypeOK, poolVars, timeVars, snapVars
  <2> QED
    BY <2>2, <2>4, QuietStep DEF Inv, ClockAboveHead
<1>4. CASE SkipTx(e)
  <2> USE <1>4 DEF SkipTx
  <2>1. job' \in Job /\ job'.clock = job.clock /\ job'.phase = job.phase
    BY <1>1 DEF TypeOK, Job
  <2>2. TypeOK'
    BY <1>1, <2>1 DEF TypeOK, poolVars, timeVars, snapVars
  <2> QED
    BY <2>1, <2>2, QuietStep DEF Inv, ClockAboveHead
<1> QED
  BY <1>3, <1>4

LEMMA BuildFailsStep == Inv /\ BuildFails => Inv'
<1> SUFFICES ASSUME Inv, BuildFails PROVE Inv'
  OBVIOUS
<1> USE DEF BuildFails
<1>1. TypeOK
  BY DEF Inv
<1>2. TypeOK'
  BY <1>1, IdleJobType DEF TypeOK, Job, poolVars, snapVars
<1> QED
  BY <1>2, QuietStep DEF IdleJob

LEMMA SealBlockStep == Inv /\ SealBlock => Inv'
<1> SUFFICES ASSUME Inv, SealBlock PROVE Inv'
  OBVIOUS
<1> USE DEF SealBlock
<1>1. TypeOK
  BY DEF Inv
<1> DEFINE blk == [timestamp |-> job.clock, txs |-> job.block]
<1>2. /\ blk \in Block
      /\ blk.timestamp > chain[Len(chain)].timestamp
      /\ job.clock \in Nat
  BY <1>1 DEF Inv, ClockAboveHead, HeadTimestamp, TypeOK, Job, Block
<1> HIDE DEF blk
<1>3. chain' = Append(chain, blk)
  BY DEF blk
<1>4. /\ chain' \in Seq(Block)
      /\ Len(chain) \in Nat
      /\ Len(chain') = Len(chain) + 1
      /\ chain'[Len(chain) + 1] = blk
  BY <1>1, <1>2, <1>3, AppendProperties, LenProperties DEF TypeOK
<1>5. pool' \subseteq Entry
  BY <1>1 DEF TypeOK, Removed
<1>6. base' \in [Sender -> Nonce]
  BY <1>1, BaseAfterMinedType DEF TypeOK
<1>7. /\ job' \in Job
      /\ job'.phase # "idle" => job'.clock = job.clock + 1
      /\ feeHead' \in Nat
  <2>1. CASE job.left > 1
    <3>1. job.left \in Nat /\ job.left - 1 \in Nat /\ job.clock + 1 \in Nat
      BY <1>1, <1>2, <2>1 DEF TypeOK, Job
    <3>2. <<>> \in Seq(Envelope)
      BY EmptySeq
    <3>3. job' = [job EXCEPT !.phase = "begin", !.left = @ - 1, !.first = FALSE,
                             !.clock = @ + 1, !.block = <<>>]
      BY <2>1
    <3> QED
      BY <1>1, <2>1, <3>1, <3>2, <3>3 DEF FeeAfterSeal, TypeOK, Job
  <2>2. CASE ~(job.left > 1)
    <3>1. job' = IdleJob /\ feeHead' = Len(chain) + 1
      BY <2>2 DEF FeeAfterSeal
    <3>2. Len(chain) + 1 \in Nat
      BY <1>4
    <3>3. IdleJob.phase = "idle"
      BY DEF IdleJob
    <3> HIDE DEF SealBlock
    <3> QED
      BY <3>1, <3>2, <3>3, IdleJobType
  <2> QED
    BY <2>1, <2>2
<1>8. TypeOK'
  BY <1>1, <1>4, <1>5, <1>6, <1>7 DEF TypeOK, timeVars, snapVars
<1>9. UNCHANGED snapVars
  OBVIOUS
<1>10. Increasing(chain')
  BY <1>1, <1>2, <1>3, AppendIncreasing DEF Inv, TypeOK, TimestampsIncrease
<1>11. TimestampsIncrease'
  BY <1>9, <1>10 DEF Inv, TimestampsIncrease, snapVars, Increasing
<1>12. ASSUME NEW entry \in snapshots PROVE Prefix(entry.chain, chain')
  BY <1>1, <1>2, <1>3, AppendPrefix DEF Inv, TypeOK, Snapshot, SnapshotsArePrefixes
<1>13. SnapshotsArePrefixes'
  BY <1>9, <1>12 DEF Inv, SnapshotsArePrefixes, snapVars, Prefix
<1>14. ClockAboveHead'
  BY <1>2, <1>4, <1>7 DEF ClockAboveHead, HeadTimestamp, blk
<1> QED
  BY <1>8, <1>11, <1>13, <1>14 DEF Inv

LEMMA TakeSnapshotStep == Inv /\ TakeSnapshot => Inv'
<1> SUFFICES ASSUME Inv, TakeSnapshot PROVE Inv'
  OBVIOUS
<1> USE DEF TakeSnapshot
<1>1. TypeOK /\ Idle
  BY DEF Inv
<1> DEFINE new == SnapshotEntry
<1>2. new \in Snapshot /\ new.id = nextSnapshotId /\ new.chain = chain
  BY <1>1 DEF TypeOK, Snapshot, SnapshotEntry
<1>3. snapshots' = snapshots \cup {new}
  OBVIOUS
<1> HIDE DEF new
<1>4. nextSnapshotId' = nextSnapshotId + 1 /\ nextSnapshotId \in Nat
  BY <1>1 DEF TypeOK
<1>5. \A entry \in snapshots : entry.id \in Nat /\ entry.id < nextSnapshotId
  BY <1>1 DEF TypeOK, Snapshot
<1>6. TypeOK'
  BY <1>1, <1>2, <1>3, <1>4, <1>5 DEF TypeOK, poolVars, timeVars
<1>7. TimestampsIncrease'
  BY <1>2, <1>3 DEF Inv, TimestampsIncrease, Increasing
<1>8. Prefix(chain, chain)
  BY <1>1, PrefixReflexive DEF TypeOK
<1>9. \A entry \in snapshots' : entry.id < nextSnapshotId' /\ Prefix(entry.chain, chain)
  BY <1>2, <1>3, <1>4, <1>5, <1>8 DEF Inv, SnapshotsArePrefixes
<1>10. ASSUME NEW entry \in snapshots', NEW later \in snapshots', entry.id <= later.id
       PROVE  Prefix(entry.chain, later.chain)
  <2>1. CASE later = new
    BY <1>2, <1>9, <2>1
  <2>2. CASE later \in snapshots /\ entry \in snapshots
    BY <1>10, <2>2 DEF Inv, SnapshotsArePrefixes
  <2>3. CASE later \in snapshots /\ entry = new
    BY <1>2, <1>4, <1>5, <1>10, <2>3
  <2> QED
    BY <1>3, <2>1, <2>2, <2>3
<1>11. SnapshotsArePrefixes'
  <2>1. chain' = chain
    OBVIOUS
  <2> QED
    BY <1>9, <1>10, <2>1 DEF SnapshotsArePrefixes
<1>12. ClockAboveHead'
  BY <1>1 DEF ClockAboveHead, Idle, IdleJob
<1> QED
  BY <1>6, <1>7, <1>11, <1>12 DEF Inv

LEMMA RevertStep ==
  ASSUME Inv, NEW entry \in snapshots, Revert(entry)
  PROVE  Inv'
<1> USE DEF Revert
<1>1. TypeOK /\ entry \in Snapshot /\ Len(entry.chain) > 0
  BY DEF Inv, TypeOK
<1>2. snapshots' \subseteq snapshots /\ \A other \in snapshots' : other.id < entry.id
  BY DEF OlderSnapshots
<1>3. TypeOK'
  BY <1>1, <1>2 DEF TypeOK, Snapshot
<1>4. TimestampsIncrease'
  BY <1>2 DEF Inv, TimestampsIncrease, Increasing
<1>5. \A other \in snapshots' : Prefix(other.chain, entry.chain)
  <2>1. \A other \in snapshots' : other.id \in Nat /\ entry.id \in Nat
    BY <1>1, <1>2 DEF TypeOK, Snapshot
  <2> QED
    BY <1>2, <2>1 DEF Inv, SnapshotsArePrefixes
<1>6. SnapshotsArePrefixes'
  BY <1>2, <1>5 DEF Inv, SnapshotsArePrefixes
<1>7. ClockAboveHead'
  BY DEF ClockAboveHead, Idle, IdleJob
<1> QED
  BY <1>3, <1>4, <1>6, <1>7 DEF Inv

LEMMA ResetStep == Inv /\ Reset => Inv'
<1> SUFFICES ASSUME Inv, Reset PROVE Inv'
  OBVIOUS
<1> USE DEF Reset
<1>1. Genesis \in Block
  BY EmptySeq DEF Genesis, Block
<1>2. chain' \in Seq(Block) /\ Len(chain') = 1
  BY <1>1
<1>3. ZeroNonces \in [Sender -> Nonce]
  BY PoolAssumption DEF ZeroNonces, Nonce
<1>4. TypeOK'
  BY <1>2, <1>3, RuntimeAssumption DEF Inv, TypeOK, Config, Timestamp
<1> QED
  BY <1>2, <1>4 DEF Inv, TimestampsIncrease, Increasing, SnapshotsArePrefixes,
                    ClockAboveHead, Idle, IdleJob

LEMMA InvStep == Inv /\ [Next]_vars => Inv'
<1> SUFFICES ASSUME Inv, [Next]_vars PROVE Inv'
  OBVIOUS
<1>0. TypeOK
  BY DEF Inv
<1>1. CASE \E tx \in Envelopes : SendRawTransaction(tx) \/ SendTransaction(tx)
  BY <1>1, SubmitStep
<1>2. CASE \/ \E c \in Counts : Mine(c) \/ \E i \in Intervals : MineInterval(c, i)
           \/ Tick
  BY <1>0, <1>2, CallType, QuietStep
<1>3. CASE \/ \E e \in pool : DropTransaction(e)
           \/ DropAllTransactions
           \/ \E s \in Sender, nn \in NonceInputs : SetNonce(s, nn)
           \/ \E m \in ModeInputs, b \in BlockTimes : SetMiningConfig(m, b)
           \/ \E t \in Times : SetNextBlockTimestamp(t)
           \/ \E i \in Intervals \cup {None} : SetBlockTimestampInterval(i)
  <2>1. TypeOK' /\ UNCHANGED <<chain, job, snapVars>>
    BY <1>0, <1>3, ControlType
  <2>2. job'.phase # "idle" => job'.clock > HeadTimestamp
    BY <2>1 DEF Inv, ClockAboveHead
  <2> QED
    BY <2>1, <2>2, QuietStep
<1>4. CASE MiningStep
  BY <1>4, BeginBlockStep, IncludeOrSkipStep, SealBlockStep, BuildFailsStep DEF MiningStep
<1>5. CASE TakeSnapshot
  BY <1>5, TakeSnapshotStep
<1>6. CASE \E entry \in snapshots : Revert(entry)
  BY <1>6, RevertStep
<1>7. CASE Reset
  BY <1>7, ResetStep
<1>8. CASE UNCHANGED vars
  <2>1. TypeOK'
    BY <1>0, <1>8 DEF vars, poolVars, timeVars, snapVars, TypeOK
  <2> QED
    BY <1>8, <2>1, QuietStep DEF vars, snapVars, Inv, ClockAboveHead
<1> QED
  BY <1>1, <1>2, <1>3, <1>4, <1>5, <1>6, <1>7, <1>8 DEF Next, Request

-----------------------------------------------------------------------------
(* The invariant holds throughout. *)
THEOREM Invariance == Spec => []Inv
  BY InvInit, InvStep, PTL DEF Spec

(* The runtime's state keeps its types. *)
THEOREM TypeCorrect == Spec => []TypeOK
  BY Invariance, PTL DEF Inv

(* Every block is later than its parent, on the chain and on every chain a *)
(* snapshot would restore: whatever overrides, intervals and clock         *)
(* readings mineBlocks meets, and wherever it fails.                       *)
THEOREM TimestampsAlwaysIncrease == Spec => []TimestampsIncrease
  BY Invariance, PTL DEF Inv

(* Every live snapshot lies on the canonical chain, below the later ones:  *)
(* revertToSnapshot only ever cuts the chain back.                         *)
THEOREM SnapshotsAreNested == Spec => []SnapshotsArePrefixes
  BY Invariance, PTL DEF Inv
-----------------------------------------------------------------------------
(* The ledger: account nonces are what the blocks say.                     *)

(* The state a block starts from: that of the sealed chain.                *)
Committed == IF job.phase = "build" THEN job.saved ELSE stateNonce

(* The block in the making executes each sender's nonces in a row, from    *)
(* the chain's on; outside a build there is none.                          *)
BlockFollowsChain ==
  /\ job.phase # "build" => job.block = <<>>
  /\ \A s \in Sender : Committed[s] = Ledger!NonceAfter(chain, s)
  /\ Ledger!ExecutesAfter(chain, job.block)

LedgerInv ==
  /\ StateMatchesLedger
  /\ BlockFollowsChain
  /\ chain[1] = Genesis

(* The pool holds one entry per slot, from the accepted envelopes, none    *)
(* below the base nonce, which is the account's.                           *)
PoolFollows(p, b, nonces) ==
  /\ OnePerSlot(p)
  /\ \A e \in p : b[e.tx.sender] = nonces[e.tx.sender] /\ e.tx.nonce >= nonces[e.tx.sender]

(* A block is built from the pool: it holds exactly the nonces between the *)
(* checkpoint and the state.                                               *)
BlockFromPool ==
  job.phase = "build" =>
    /\ job.todo \subseteq pool
    /\ \A i \in DOMAIN job.block : \E e \in pool : e.tx = job.block[i]
BlockCovers ==
  job.phase = "build" =>
    \A s \in Sender :
      /\ job.saved[s] <= stateNonce[s]
      /\ \A n \in Nonce :
           n \in job.saved[s]..(stateNonce[s] - 1)
             <=> \E i \in DOMAIN job.block : job.block[i].sender = s /\ job.block[i].nonce = n

PoolInv ==
  /\ PoolFollows(pool, base, Committed)
  /\ \A entry \in snapshots : PoolFollows(entry.pool, entry.base, entry.stateNonce)
  /\ BlockCovers

AllSigned ==
  /\ \A e \in pool : e.tx.signed
  /\ \A entry \in snapshots : \A e \in entry.pool : e.tx.signed
SealInv == AllSigned /\ BlockFromPool

-----------------------------------------------------------------------------
(* Lemmas about counting transactions. *)

(* One more transaction counts for its sender only.                        *)
LEMMA ExecutedByAppend ==
  ASSUME NEW txs \in Seq(Envelope), NEW tx \in Envelope, NEW s \in Sender
  PROVE  /\ ExecutedBy(txs, s) \in Nat
         /\ ExecutedBy(Append(txs, tx), s) =
              ExecutedBy(txs, s) + (IF tx.sender = s THEN 1 ELSE 0)
<1> DEFINE A == {i \in DOMAIN txs : txs[i].sender = s}
           B == {i \in DOMAIN Append(txs, tx) : Append(txs, tx)[i].sender = s}
<1>1. /\ Len(txs) \in Nat
      /\ DOMAIN txs = 1..Len(txs)
      /\ DOMAIN Append(txs, tx) = 1..(Len(txs) + 1)
      /\ \A i \in 1..Len(txs) : Append(txs, tx)[i] = txs[i]
      /\ Append(txs, tx)[Len(txs) + 1] = tx
  BY AppendProperties, LenProperties
<1>2. IsFiniteSet(A) /\ Cardinality(A) \in Nat
  <2>1. IsFiniteSet(1..Len(txs)) /\ A \in SUBSET (1..Len(txs))
    BY <1>1, FS_Interval
  <2> QED
    BY <2>1, FS_Subset, FS_CardinalityType
<1>3. B = IF tx.sender = s THEN A \cup {Len(txs) + 1} ELSE A
  BY <1>1
<1>4. Len(txs) + 1 \notin A
  BY <1>1
<1>5. Cardinality(B) = Cardinality(A) + (IF tx.sender = s THEN 1 ELSE 0)
  <2> HIDE DEF A, B
  <2>1. CASE tx.sender = s
    BY <1>2, <1>3, <1>4, <2>1, FS_AddElement
  <2>2. CASE tx.sender # s
    BY <1>2, <1>3, <2>2
  <2> QED
    BY <2>1, <2>2
<1> QED
  BY <1>2, <1>5 DEF ExecutedBy

LEMMA ExecutedByNone == \A s : ExecutedBy(<<>>, s) = 0
<1> SUFFICES ASSUME NEW s PROVE ExecutedBy(<<>>, s) = 0
  OBVIOUS
<1>1. {i \in DOMAIN <<>> : <<>>[i].sender = s} = {}
  OBVIOUS
<1> QED
  BY <1>1, FS_EmptySet DEF ExecutedBy

(* The executions of a sender in a chain, as pairs of block and position.  *)
Executions(c, s) ==
  {p \in UNION {{b} \X DOMAIN c[b].txs : b \in DOMAIN c} : c[p[1]].txs[p[2]].sender = s}

LEMMA NonceAfterCounts ==
  ASSUME NEW c, NEW s
  PROVE  Ledger!NonceAfter(c, s) = Cardinality(Executions(c, s))
  BY DEF Executions, Ledger!NonceAfter, Ledger!Cardinality, Cardinality

LEMMA ExecutionsFinite ==
  ASSUME NEW c \in Seq(Block), NEW s
  PROVE  IsFiniteSet(Executions(c, s)) /\ Cardinality(Executions(c, s)) \in Nat
<1> DEFINE place(b) == {b} \X DOMAIN c[b].txs
           T == {place(b) : b \in DOMAIN c}
           f == [b \in DOMAIN c |-> place(b)]
<1>1. /\ Len(c) \in Nat /\ DOMAIN c = 1..Len(c)
      /\ IsFiniteSet(DOMAIN c)
  BY LenProperties, FS_Interval
<1>2. f \in Surjection(DOMAIN c, T)
  BY DEF Surjection
<1>3. IsFiniteSet(T)
  <2> HIDE DEF f, T
  <2> QED
    BY <1>1, <1>2, FS_Surjection
<1>4. ASSUME NEW b \in DOMAIN c PROVE IsFiniteSet(place(b))
  <2>1. c[b] \in Block
    BY <1>1, ElementOfSeq
  <2>2. IsFiniteSet(DOMAIN c[b].txs)
    <3>1. c[b].txs \in Seq(Envelope)
      BY <2>1 DEF Block
    <3>2. DOMAIN c[b].txs = 1..Len(c[b].txs) /\ Len(c[b].txs) \in Int
      BY <3>1, LenProperties
    <3> QED
      BY <3>2, FS_Interval
  <2>3. IsFiniteSet({b})
    BY FS_Singleton
  <2> QED
    BY <2>2, <2>3, FS_Product
<1>5. IsFiniteSet(UNION T)
  <2>1. \A t \in T : IsFiniteSet(t)
    BY <1>4
  <2> HIDE DEF T
  <2> QED
    BY <1>3, <2>1, FS_UNION
<1>6. Executions(c, s) \in SUBSET UNION T
  BY DEF Executions
<1> HIDE DEF T
<1> QED
  BY <1>5, <1>6, FS_Subset, FS_CardinalityType

(* A new block adds its own executions.                                    *)
LEMMA NonceAfterAppend ==
  ASSUME NEW c \in Seq(Block), NEW blk \in Block, NEW s \in Sender
  PROVE  /\ Ledger!NonceAfter(c, s) \in Nat
         /\ Ledger!NonceAfter(Append(c, blk), s) =
              Ledger!NonceAfter(c, s) + ExecutedBy(blk.txs, s)
<1> DEFINE d == Append(c, blk)
           n == Len(c) + 1
           new == {i \in DOMAIN blk.txs : blk.txs[i].sender = s}
           placed == {<<n, i>> : i \in new}
<1>1. /\ Len(c) \in Nat /\ DOMAIN c = 1..Len(c)
      /\ DOMAIN d = 1..n
      /\ \A i \in 1..Len(c) : d[i] = c[i]
      /\ d[n] = blk
      /\ d \in Seq(Block)
  BY AppendProperties, LenProperties
<1>2. IsFiniteSet(new) /\ Cardinality(new) \in Nat
  <2>1. blk.txs \in Seq(Envelope)
    BY DEF Block
  <2>2. IsFiniteSet(DOMAIN blk.txs) /\ new \in SUBSET DOMAIN blk.txs
    BY <2>1, LenProperties, FS_Interval
  <2> QED
    BY <2>2, FS_Subset, FS_CardinalityType
<1>3. IsFiniteSet(placed) /\ Cardinality(placed) = Cardinality(new)
  <2> DEFINE g == [i \in new |-> <<n, i>>]
  <2>1. g \in Injection(new, placed)
    BY DEF Injection, IsInjective
  <2>1a. g \in Surjection(new, placed)
    BY DEF Surjection
  <2>2. ExistsBijection(new, placed)
    BY <2>1, <2>1a DEF ExistsBijection, Bijection
  <2> HIDE DEF new, placed
  <2> QED
    BY <1>2, <2>2, FS_Bijection
<1>4. Executions(d, s) = Executions(c, s) \cup placed
  <2> HIDE DEF d
  <2>1. ASSUME NEW p \in Executions(d, s) PROVE p \in Executions(c, s) \cup placed
    <3>1. PICK b \in DOMAIN d : \E i \in DOMAIN d[b].txs : p = <<b, i>>
      BY DEF Executions
    <3>2. PICK i \in DOMAIN d[b].txs : p = <<b, i>>
      BY <3>1
    <3>3. d[b].txs[i].sender = s
      BY <3>2 DEF Executions
    <3>4. CASE b = n
      BY <1>1, <3>2, <3>3, <3>4
    <3>5. CASE b # n
      <4>1. b \in DOMAIN c /\ d[b] = c[b]
        BY <1>1, <3>5
      <4> QED
        BY <3>2, <3>3, <4>1 DEF Executions
    <3> QED
      BY <3>4, <3>5
  <2>2. ASSUME NEW p \in Executions(c, s) PROVE p \in Executions(d, s)
    <3>1. PICK b \in DOMAIN c : \E i \in DOMAIN c[b].txs : p = <<b, i>>
      BY DEF Executions
    <3>2. PICK i \in DOMAIN c[b].txs : p = <<b, i>>
      BY <3>1
    <3>3. c[b].txs[i].sender = s
      BY <3>2 DEF Executions
    <3>4. b \in DOMAIN d /\ d[b] = c[b]
      BY <1>1
    <3> QED
      BY <3>2, <3>3, <3>4 DEF Executions
  <2>3. ASSUME NEW p \in placed PROVE p \in Executions(d, s)
    BY <1>1, <2>3 DEF Executions
  <2> QED
    BY <2>1, <2>2, <2>3
<1>5. Executions(c, s) \cap placed = {}
  <2>1. \A p \in Executions(c, s) : p[1] \in DOMAIN c
    BY DEF Executions
  <2> QED
    BY <1>1, <2>1
<1>6. Cardinality(Executions(d, s)) = Cardinality(Executions(c, s)) + Cardinality(placed)
  <2>1. IsFiniteSet(Executions(c, s)) /\ Cardinality(Executions(c, s)) \in Nat
    BY ExecutionsFinite
  <2> HIDE DEF d, placed
  <2>2. Cardinality(Executions(c, s) \cup placed) =
          Cardinality(Executions(c, s)) + Cardinality(placed) - Cardinality({})
    BY <1>3, <1>5, <2>1, FS_Union
  <2>3. Cardinality(placed) \in Nat /\ Cardinality({}) = 0
    BY <1>2, <1>3, FS_EmptySet
  <2> QED
    BY <1>4, <2>1, <2>2, <2>3
<1> QED
  BY <1>3, <1>6, ExecutionsFinite, NonceAfterCounts DEF ExecutedBy

LEMMA NonceAfterGenesis == \A s \in Sender : Ledger!NonceAfter(<<Genesis>>, s) = 0
<1> SUFFICES ASSUME NEW s \in Sender PROVE Ledger!NonceAfter(<<Genesis>>, s) = 0
  OBVIOUS
<1>1. Executions(<<Genesis>>, s) = {}
  BY DEF Executions, Genesis
<1> QED
  BY <1>1, FS_EmptySet, NonceAfterCounts

-----------------------------------------------------------------------------
(* What the groups of actions do to the variables the invariants relate.   *)

(* A mining call that starts has no block yet.                             *)
CallMayStart ==
  \/ UNCHANGED job
  \/ Idle /\ job'.phase = "begin" /\ job'.block = <<>> /\ job'.todo = {}

LEMMA StartMiningEffect ==
  ASSUME NEW count, NEW interval, NEW override, NEW own, NEW trigger,
         StartMining(count, interval, override, own, trigger), Idle
  PROVE  CallMayStart
  BY DEF StartMining, CallMayStart

LEMMA SubmitEffect ==
  ASSUME NEW tx \in Envelopes, SendRawTransaction(tx) \/ SendTransaction(tx)
  PROVE  /\ Idle /\ CallMayStart
         /\ UNCHANGED <<chain, stateNonce, snapVars>>
         /\ base' = [base EXCEPT ![tx.sender] = stateNonce[tx.sender]]
         /\ tx.nonce >= stateNonce[tx.sender]
         /\ \E e \in Entry : e.tx = tx /\ (pool' = pool \/ pool' = Added(pool, e))
<1>1. tx \in Envelope
  BY RuntimeAssumption
<1>2. PICK e \in Entry : e.tx = tx /\ Submit(e)
  <2>1. /\ [tx |-> tx, priority |-> tx.tip] \in Entry
        /\ [tx |-> tx, priority |-> 0] \in Entry
    BY <1>1, PoolAssumption DEF Entry, Envelope
  <2> QED
    BY <2>1 DEF SendRawTransaction, SendTransaction
<1>3. Idle /\ (UNCHANGED job \/ Automine)
  BY <1>2 DEF Submit
<1>4. CallMayStart
  BY <1>3, StartMiningEffect DEF Automine, CallMayStart
<1> QED
  BY <1>2, <1>3, <1>4 DEF Submit

LEMMA CallEffect ==
  ASSUME \/ \E c \in Counts : Mine(c) \/ \E i \in Intervals : MineInterval(c, i)
         \/ Tick
  PROVE  Idle /\ CallMayStart /\ UNCHANGED <<chain, stateNonce, poolVars, feeHead, snapVars>>
<1>1. ASSUME NEW c, NEW trigger, Idle, MineWithTimestampInterval(c, trigger)
      PROVE  CallMayStart
  BY <1>1, StartMiningEffect DEF MineWithTimestampInterval
<1>2. ASSUME NEW c \in Counts, Mine(c)
      PROVE  Idle /\ CallMayStart /\ UNCHANGED <<chain, stateNonce, poolVars, feeHead, snapVars>>
  BY <1>1, <1>2 DEF Mine
<1>3. ASSUME NEW c \in Counts, NEW i \in Intervals, MineInterval(c, i)
      PROVE  Idle /\ CallMayStart /\ UNCHANGED <<chain, stateNonce, poolVars, feeHead, snapVars>>
  BY <1>3, StartMiningEffect DEF MineInterval
<1>4. ASSUME Tick
      PROVE  Idle /\ CallMayStart /\ UNCHANGED <<chain, stateNonce, poolVars, feeHead, snapVars>>
  BY <1>1, <1>4, StartMiningEffect DEF Tick
<1> QED
  BY <1>2, <1>3, <1>4

(* The controls, but for the one that sets account nonces.                 *)
Control ==
  \/ \E e \in pool : DropTransaction(e)
  \/ DropAllTransactions
  \/ \E m \in ModeInputs, b \in BlockTimes : SetMiningConfig(m, b)
  \/ \E t \in Times : SetNextBlockTimestamp(t)
  \/ \E i \in Intervals \cup {None} : SetBlockTimestampInterval(i)

LEMMA ControlEffect ==
  ASSUME Control
  PROVE  /\ Idle /\ UNCHANGED <<chain, stateNonce, job, feeHead, snapVars>>
         /\ pool' \subseteq pool
         /\ UNCHANGED base \/ pool' = {}
<1> USE DEF poolVars, timeVars, snapVars
<1>1. ASSUME NEW e \in pool, DropTransaction(e)
      PROVE  /\ Idle /\ UNCHANGED <<chain, stateNonce, job, feeHead, snapVars>>
             /\ pool' \subseteq pool /\ UNCHANGED base
  BY <1>1 DEF DropTransaction
<1>2. ASSUME DropAllTransactions
      PROVE  /\ Idle /\ UNCHANGED <<chain, stateNonce, job, feeHead, snapVars>>
             /\ pool' = {}
  BY <1>2 DEF DropAllTransactions
<1>3. ASSUME NEW m \in ModeInputs, NEW b \in BlockTimes, SetMiningConfig(m, b)
      PROVE  Idle /\ UNCHANGED <<chain, stateNonce, job, feeHead, snapVars, poolVars>>
  BY <1>3 DEF SetMiningConfig
<1>4. ASSUME NEW t \in Times, SetNextBlockTimestamp(t)
      PROVE  Idle /\ UNCHANGED <<chain, stateNonce, job, feeHead, snapVars, poolVars>>
  BY <1>4 DEF SetNextBlockTimestamp
<1>5. ASSUME NEW i \in Intervals \cup {None}, SetBlockTimestampInterval(i)
      PROVE  Idle /\ UNCHANGED <<chain, stateNonce, job, feeHead, snapVars, poolVars>>
  BY <1>5 DEF SetBlockTimestampInterval
<1> QED
  BY <1>1, <1>2, <1>3, <1>4, <1>5 DEF Control

(* Next, sorted by what a step does.                                       *)
LEMMA NextSorted ==
  ASSUME [Next]_vars
  PROVE  \/ \E tx \in Envelopes : SendRawTransaction(tx) \/ SendTransaction(tx)
         \/ \/ \E c \in Counts : Mine(c) \/ \E i \in Intervals : MineInterval(c, i)
            \/ Tick
         \/ Control
         \/ \E s \in Sender, n \in NonceInputs : SetNonce(s, n)
         \/ MiningStep
         \/ TakeSnapshot
         \/ \E entry \in snapshots : Revert(entry)
         \/ Reset
         \/ UNCHANGED vars
  BY DEF Next, Request, Control

-----------------------------------------------------------------------------
(* The ledger invariant, step by step.                                     *)

LEMMA LedgerInit == Init => LedgerInv
<1> SUFFICES ASSUME Init PROVE LedgerInv
  OBVIOUS
<1> USE DEF Init
<1>1. job.block = <<>> /\ job.phase = "idle"
  BY DEF IdleJob
<1>2. \A s \in Sender : stateNonce[s] = 0 /\ ExecutedBy(job.block, s) = 0
                        /\ Ledger!NonceAfter(chain, s) = 0
  BY <1>1, NonceAfterGenesis, ExecutedByNone DEF ZeroNonces
<1>3. StateMatchesLedger
  BY <1>2 DEF StateMatchesLedger
<1>4. BlockFollowsChain
  BY <1>1, <1>2 DEF BlockFollowsChain, Committed, Ledger!ExecutesAfter
<1> QED
  BY <1>3, <1>4 DEF LedgerInv

(* Steps that touch neither chain, state nor snapshots.                    *)
LEMMA LedgerCalm ==
  ASSUME LedgerInv, CallMayStart, UNCHANGED <<chain, stateNonce, snapshots>>
  PROVE  LedgerInv'
<1>1. CASE UNCHANGED job
  BY <1>1 DEF LedgerInv, StateMatchesLedger, BlockFollowsChain, Committed, ExecutedBy,
              Ledger!ExecutesAfter
<1>2. CASE Idle /\ job'.phase = "begin" /\ job'.block = <<>>
  <2>1. job.phase = "idle" /\ job.block = <<>>
    BY <1>2 DEF Idle, IdleJob
  <2>2. StateMatchesLedger'
    BY <1>2, <2>1 DEF LedgerInv, StateMatchesLedger
  <2>3. BlockFollowsChain'
    BY <1>2, <2>1 DEF LedgerInv, BlockFollowsChain, Committed
  <2> QED
    BY <2>2, <2>3 DEF LedgerInv
<1> QED
  BY <1>1, <1>2 DEF CallMayStart

LEMMA LedgerBegin == TypeOK /\ LedgerInv /\ BeginBlock => LedgerInv'
<1> SUFFICES ASSUME TypeOK, LedgerInv, BeginBlock PROVE LedgerInv'
  OBVIOUS
<1>1. /\ job.phase = "begin" /\ job.block = <<>>
      /\ job'.phase = "build" /\ job'.block = <<>> /\ job'.saved = stateNonce
      /\ UNCHANGED <<chain, stateNonce, snapshots>>
  BY DEF BeginBlock, LedgerInv, BlockFollowsChain, TypeOK, Job, snapVars
<1>2. StateMatchesLedger'
  BY <1>1 DEF LedgerInv, StateMatchesLedger
<1>3. BlockFollowsChain'
  BY <1>1 DEF LedgerInv, BlockFollowsChain, Committed
<1> QED
  BY <1>1, <1>2, <1>3 DEF LedgerInv

LEMMA LedgerInclude ==
  ASSUME TypeOK, LedgerInv, NEW e \in job.todo, IncludeTx(e)
  PROVE  LedgerInv'
<1> DEFINE tx == e.tx
           n == Len(job.block) + 1
<1>1. /\ tx \in Envelope /\ tx.sender \in Sender
      /\ job.block \in Seq(Envelope) /\ stateNonce \in [Sender -> Nonce]
  BY DEF TypeOK, Job, Entry, Envelope
<1>2. /\ job.phase = "build" /\ job'.phase = "build"
      /\ job'.saved = job.saved /\ job'.block = Append(job.block, tx)
      /\ tx.nonce = stateNonce[tx.sender]
      /\ stateNonce' = [stateNonce EXCEPT ![tx.sender] = tx.nonce + 1]
      /\ UNCHANGED <<chain, snapshots>>
  BY DEF IncludeTx, NonceMatches, TypeOK, Job, snapVars
<1> HIDE DEF tx
<1>3. \A s \in Sender :
        /\ ExecutedBy(job.block, s) \in Nat
        /\ ExecutedBy(job'.block, s) =
             ExecutedBy(job.block, s) + (IF tx.sender = s THEN 1 ELSE 0)
  BY <1>1, <1>2, ExecutedByAppend
<1>4. \A s \in Sender : Ledger!NonceAfter(chain, s) \in Nat
  BY NonceAfterCounts, ExecutionsFinite DEF TypeOK
<1>5. StateMatchesLedger'
  <2>1. ASSUME NEW s \in Sender
        PROVE  stateNonce'[s] = Ledger!NonceAfter(chain, s) + ExecutedBy(job'.block, s)
    <3>1. stateNonce[s] = Ledger!NonceAfter(chain, s) + ExecutedBy(job.block, s)
      BY DEF LedgerInv, StateMatchesLedger
    <3>2. stateNonce'[s] = IF s = tx.sender THEN stateNonce[s] + 1 ELSE stateNonce[s]
      BY <1>1, <1>2
    <3> QED
      BY <1>3, <1>4, <3>1, <3>2
  <2> QED
    BY <1>2, <2>1 DEF LedgerInv, StateMatchesLedger
<1>6. /\ Len(job.block) \in Nat
      /\ DOMAIN job.block = 1..Len(job.block)
      /\ DOMAIN job'.block = 1..n
      /\ \A i \in 1..Len(job.block) : job'.block[i] = job.block[i]
      /\ job'.block[n] = tx
  BY <1>1, <1>2, AppendProperties, LenProperties
<1>7. Ledger!ExecutesAfter(chain, job'.block)
  <2> DEFINE earlier(b, i, s) == {j \in 1..(i - 1) : b[j].sender = s}
  <2>1. ASSUME NEW i \in 1..n
        PROVE  job'.block[i].nonce =
                 Ledger!NonceAfter(chain, job'.block[i].sender)
                   + Ledger!Cardinality(earlier(job'.block, i, job'.block[i].sender))
    <3>1. earlier(job'.block, i, job'.block[i].sender)
            = earlier(job.block, i, job'.block[i].sender)
      BY <1>6
    <3>2. CASE i \in 1..Len(job.block)
      <4>1. job.block[i].nonce =
              Ledger!NonceAfter(chain, job.block[i].sender)
                + Ledger!Cardinality(earlier(job.block, i, job.block[i].sender))
        BY <1>6, <3>2 DEF LedgerInv, BlockFollowsChain, Ledger!ExecutesAfter
      <4> QED
        BY <1>6, <3>1, <3>2, <4>1
    <3>3. CASE i = n
      <4>1. earlier(job.block, n, tx.sender) = {j \in DOMAIN job.block : job.block[j].sender = tx.sender}
        BY <1>6
      <4>2. Cardinality(earlier(job.block, n, tx.sender)) = ExecutedBy(job.block, tx.sender)
        BY <4>1 DEF ExecutedBy
      <4>3. \A S : Cardinality(S) = Ledger!Cardinality(S)
        BY DEF Cardinality, Ledger!Cardinality
      <4>4. tx.nonce = Ledger!NonceAfter(chain, tx.sender) + ExecutedBy(job.block, tx.sender)
        BY <1>1, <1>2 DEF LedgerInv, StateMatchesLedger
      <4> QED
        BY <1>6, <3>1, <3>3, <4>2, <4>3, <4>4
    <3> QED
      BY <1>6, <3>2, <3>3
  <2> QED
    BY <1>6, <2>1 DEF Ledger!ExecutesAfter
<1>8. BlockFollowsChain'
  BY <1>2, <1>7 DEF LedgerInv, BlockFollowsChain, Committed
<1> QED
  BY <1>2, <1>5, <1>8 DEF LedgerInv

LEMMA LedgerSkip ==
  ASSUME TypeOK, LedgerInv, NEW e \in job.todo, SkipTx(e)
  PROVE  LedgerInv'
<1>1. /\ job'.phase = job.phase /\ job'.saved = job.saved /\ job'.block = job.block
      /\ UNCHANGED <<chain, stateNonce, snapshots>>
  BY DEF SkipTx, TypeOK, Job, snapVars
<1> QED
  BY <1>1 DEF LedgerInv, StateMatchesLedger, BlockFollowsChain, Committed, ExecutedBy,
              Ledger!ExecutesAfter

LEMMA LedgerSeal == TypeOK /\ LedgerInv /\ SealBlock => LedgerInv'
<1> SUFFICES ASSUME TypeOK, LedgerInv, SealBlock PROVE LedgerInv'
  OBVIOUS
<1> DEFINE blk == [timestamp |-> job.clock, txs |-> job.block]
<1>1. blk \in Block /\ blk.txs = job.block /\ chain' = Append(chain, blk)
  BY DEF TypeOK, Job, Block, SealBlock
<1> HIDE DEF blk
<1>2. /\ job'.phase \in {"begin", "idle"} /\ job'.block = <<>>
      /\ UNCHANGED <<stateNonce, snapshots>>
  <2>1. CASE job.left > 1
    BY <2>1 DEF SealBlock, TypeOK, Job, snapVars
  <2>2. CASE ~(job.left > 1)
    BY <2>2 DEF SealBlock, IdleJob, snapVars
  <2> QED
    BY <2>1, <2>2
<1>3. ASSUME NEW s \in Sender
      PROVE  stateNonce[s] = Ledger!NonceAfter(chain', s) /\ stateNonce[s] \in Int
  BY <1>1, NonceAfterAppend DEF LedgerInv, StateMatchesLedger, TypeOK, Nonce
<1>4. StateMatchesLedger'
  BY <1>2, <1>3, ExecutedByNone DEF LedgerInv, StateMatchesLedger
<1>5. BlockFollowsChain'
  BY <1>2, <1>3 DEF LedgerInv, BlockFollowsChain, Committed, Ledger!ExecutesAfter
<1>6. chain'[1] = Genesis
  BY <1>1, AppendProperties, LenProperties DEF LedgerInv, TypeOK
<1> QED
  BY <1>4, <1>5, <1>6 DEF LedgerInv

LEMMA LedgerFails == TypeOK /\ LedgerInv /\ BuildFails => LedgerInv'
<1> SUFFICES ASSUME TypeOK, LedgerInv, BuildFails PROVE LedgerInv'
  OBVIOUS
<1>1. /\ job.phase = "build" /\ stateNonce' = job.saved
      /\ job'.phase = "idle" /\ job'.block = <<>>
      /\ UNCHANGED <<chain, snapshots>>
  BY DEF BuildFails, IdleJob, snapVars
<1>2. \A s \in Sender : job.saved[s] = Ledger!NonceAfter(chain, s) /\ job.saved[s] \in Int
  BY <1>1 DEF LedgerInv, BlockFollowsChain, Committed, TypeOK, Job, Nonce
<1>3. StateMatchesLedger'
  BY <1>1, <1>2, ExecutedByNone DEF LedgerInv, StateMatchesLedger
<1>4. BlockFollowsChain'
  BY <1>1, <1>2 DEF LedgerInv, BlockFollowsChain, Committed, Ledger!ExecutesAfter
<1> QED
  BY <1>1, <1>3, <1>4 DEF LedgerInv

LEMMA LedgerSnapshot == TypeOK /\ LedgerInv /\ TakeSnapshot => LedgerInv'
<1> SUFFICES ASSUME TypeOK, LedgerInv, TakeSnapshot PROVE LedgerInv'
  OBVIOUS
<1>1. /\ job.block = <<>>
      /\ snapshots' = snapshots \cup {SnapshotEntry}
      /\ UNCHANGED <<chain, stateNonce, job>>
  BY DEF TakeSnapshot, Idle, IdleJob
<1>2. \A s \in Sender : stateNonce[s] = Ledger!NonceAfter(chain, s)
  BY <1>1, NonceAfterCounts, ExecutionsFinite, ExecutedByNone
     DEF LedgerInv, StateMatchesLedger, TypeOK
<1>3. StateMatchesLedger'
  <2>1. ASSUME NEW s \in Sender
        PROVE  stateNonce'[s] = Ledger!NonceAfter(chain', s) + ExecutedBy(job'.block, s)
    BY <1>1 DEF LedgerInv, StateMatchesLedger
  <2>2. ASSUME NEW entry \in snapshots', NEW s \in Sender
        PROVE  entry.stateNonce[s] = Ledger!NonceAfter(entry.chain, s)
    <3>1. CASE entry \in snapshots
      BY <3>1 DEF LedgerInv, StateMatchesLedger
    <3>2. CASE entry = SnapshotEntry
      BY <1>2, <3>2 DEF SnapshotEntry
    <3> QED
      BY <1>1, <3>1, <3>2
  <2> QED
    BY <2>1, <2>2 DEF StateMatchesLedger
<1>4. BlockFollowsChain'
  BY <1>1 DEF LedgerInv, BlockFollowsChain, Committed, Ledger!ExecutesAfter
<1> QED
  BY <1>1, <1>3, <1>4 DEF LedgerInv

LEMMA LedgerRevert ==
  ASSUME Inv, LedgerInv, NEW entry \in snapshots, Revert(entry)
  PROVE  LedgerInv'
<1>1. /\ job.block = <<>> /\ job.phase = "idle"
      /\ chain' = entry.chain /\ stateNonce' = entry.stateNonce
      /\ snapshots' \subseteq snapshots /\ UNCHANGED job
  BY DEF Revert, Idle, IdleJob, OlderSnapshots
<1>2. /\ entry \in Snapshot /\ entry.chain \in Seq(Block) /\ Len(entry.chain) > 0
      /\ entry.stateNonce \in [Sender -> Nonce] /\ chain \in Seq(Block)
  BY DEF Inv, TypeOK, Snapshot
<1>3. \A s \in Sender : entry.stateNonce[s] = Ledger!NonceAfter(entry.chain, s)
                        /\ entry.stateNonce[s] \in Int
  BY <1>2 DEF LedgerInv, StateMatchesLedger, Nonce
<1>4. StateMatchesLedger'
  BY <1>1, <1>3, ExecutedByNone DEF LedgerInv, StateMatchesLedger
<1>5. BlockFollowsChain'
  BY <1>1, <1>3 DEF BlockFollowsChain, Committed, Ledger!ExecutesAfter
<1>6. entry.chain[1] = Genesis
  <2>1. 1 \in 1..Len(entry.chain)
    BY <1>2, LenProperties
  <2>2. entry.chain[1] = chain[1]
    BY <1>2, <2>1, PrefixPointwise DEF Inv, SnapshotsArePrefixes
  <2> QED
    BY <2>2 DEF LedgerInv
<1> QED
  BY <1>1, <1>4, <1>5, <1>6 DEF LedgerInv

LEMMA LedgerReset == LedgerInv /\ Reset => LedgerInv'
<1> SUFFICES ASSUME LedgerInv, Reset PROVE LedgerInv'
  OBVIOUS
<1>1. /\ job.block = <<>> /\ job.phase = "idle" /\ UNCHANGED job
      /\ chain' = <<Genesis>> /\ stateNonce' = ZeroNonces /\ snapshots' = {}
  BY DEF Reset, Idle, IdleJob
<1>2. \A s \in Sender : ZeroNonces[s] = 0
  BY DEF ZeroNonces
<1>3. StateMatchesLedger'
  BY <1>1, <1>2, NonceAfterGenesis, ExecutedByNone DEF StateMatchesLedger
<1>4. BlockFollowsChain'
  BY <1>1, <1>2, NonceAfterGenesis DEF BlockFollowsChain, Committed, Ledger!ExecutesAfter
<1> QED
  BY <1>1, <1>3, <1>4 DEF LedgerInv

LEMMA LedgerStep ==
  ASSUME NonceInputs = {}, Inv, LedgerInv, [Next]_vars
  PROVE  LedgerInv'
<1>0. TypeOK
  BY DEF Inv
<1>1. CASE \E tx \in Envelopes : SendRawTransaction(tx) \/ SendTransaction(tx)
  BY <1>1, SubmitEffect, LedgerCalm DEF snapVars
<1>2. CASE \/ \E c \in Counts : Mine(c) \/ \E i \in Intervals : MineInterval(c, i)
           \/ Tick
  BY <1>2, CallEffect, LedgerCalm DEF snapVars
<1>3. CASE Control
  BY <1>3, ControlEffect, LedgerCalm DEF snapVars, CallMayStart
<1>4. CASE MiningStep
  BY <1>0, <1>4, LedgerBegin, LedgerInclude, LedgerSkip, LedgerSeal, LedgerFails DEF MiningStep
<1>5. CASE TakeSnapshot
  BY <1>0, <1>5, LedgerSnapshot
<1>6. CASE \E entry \in snapshots : Revert(entry)
  BY <1>6, LedgerRevert
<1>7. CASE Reset
  BY <1>7, LedgerReset
<1>8. CASE UNCHANGED vars
  BY <1>8, LedgerCalm DEF vars, snapVars, CallMayStart
<1> QED
  BY <1>1, <1>2, <1>3, <1>4, <1>5, <1>6, <1>7, <1>8, NextSorted

(* Every sender's account nonce is the one its executed transactions make: *)
(* neither a failed block nor a revert leaves a nonce behind.              *)
LEMMA LedgerInvariance == ASSUME NonceInputs = {} PROVE Spec => [](Inv /\ LedgerInv)
<1>1. Inv /\ LedgerInv /\ [Next]_vars => (Inv /\ LedgerInv)'
  BY LedgerStep, InvStep
<1>2. Init => Inv /\ LedgerInv
  BY InvInit, LedgerInit
<1> QED
  BY <1>1, <1>2, PTL DEF Spec

(* The refinement of DevChain, step by step.                               *)
LEMMA ChainInit == Init => Ledger!Init
<1> SUFFICES ASSUME Init PROVE Ledger!Init
  OBVIOUS
<1> QED
  BY DEF Init, Genesis, Ledger!Init

LEMMA ChainSeal == Inv /\ LedgerInv /\ SealBlock => Ledger!Extend
<1> SUFFICES ASSUME Inv, LedgerInv, SealBlock PROVE Ledger!Extend
  OBVIOUS
<1> DEFINE blk == [timestamp |-> job.clock, txs |-> job.block]
<1>1. blk \in Block /\ blk.txs = job.block /\ chain' = Append(chain, blk)
  BY DEF Inv, TypeOK, Job, Block, SealBlock
<1>2. blk.timestamp > chain[Len(chain)].timestamp
  BY DEF Inv, ClockAboveHead, HeadTimestamp, SealBlock
<1> HIDE DEF blk
<1>3. /\ chain \in Seq(Block) /\ chain' \in Seq(Block) /\ Len(chain) \in Nat
      /\ Len(chain') = Len(chain) + 1 /\ chain'[Len(chain) + 1] = blk
  BY <1>1, AppendProperties, LenProperties DEF Inv, TypeOK
<1>4. SubSeq(chain', 1, Len(chain)) = chain
  <2>1. Prefix(chain, chain)
    BY <1>3, PrefixReflexive
  <2>2. Prefix(chain, chain')
    BY <1>1, <1>3, <2>1, AppendPrefix
  <2> QED
    BY <2>2 DEF Prefix
<1> QED
  BY <1>1, <1>2, <1>3, <1>4 DEF Ledger!Extend, LedgerInv, BlockFollowsChain

LEMMA ChainRevert ==
  ASSUME Inv, NEW entry \in snapshots, Revert(entry)
  PROVE  Ledger!CutBack
<1>1. chain' = entry.chain /\ Prefix(entry.chain, chain)
  BY DEF Revert, Inv, SnapshotsArePrefixes
<1>2. Len(entry.chain) \in Nat /\ Len(entry.chain) > 0 /\ Len(chain) \in Nat
  BY LenProperties DEF Inv, TypeOK, Snapshot
<1> QED
  BY <1>1, <1>2 DEF Ledger!CutBack, Prefix

LEMMA ChainReset == Inv /\ LedgerInv /\ Reset => Ledger!CutBack
<1> SUFFICES ASSUME Inv, LedgerInv, Reset PROVE Ledger!CutBack
  OBVIOUS
<1>1. chain' = <<Genesis>> /\ chain[1] = Genesis
  BY DEF Reset, LedgerInv
<1>2. chain \in Seq(Block) /\ Len(chain) \in Nat /\ Len(chain) > 0 /\ Genesis \in Block
  BY LenProperties, EmptySeq DEF Inv, TypeOK, Genesis, Block
<1>3. chain' \in Seq(Block) /\ Len(chain') = 1
  BY <1>1, <1>2
<1>4. Prefix(chain', chain)
  <2>1. \A i \in 1..Len(chain') : chain'[i] = chain[i]
    BY <1>1, <1>3
  <2> QED
    BY <1>2, <1>3, <2>1, PrefixPointwise
<1> QED
  BY <1>2, <1>3, <1>4 DEF Ledger!CutBack, Prefix

LEMMA ChainStep ==
  ASSUME Inv, LedgerInv, [Next]_vars
  PROVE  [Ledger!Extend \/ Ledger!CutBack]_chain
<1>1. CASE \E tx \in Envelopes : SendRawTransaction(tx) \/ SendTransaction(tx)
  BY <1>1, SubmitEffect
<1>2. CASE \/ \E c \in Counts : Mine(c) \/ \E i \in Intervals : MineInterval(c, i)
           \/ Tick
  BY <1>2, CallEffect
<1>3. CASE Control
  BY <1>3, ControlEffect
<1>4. CASE \E s \in Sender, n \in NonceInputs : SetNonce(s, n)
  BY <1>4 DEF SetNonce
<1>5. CASE MiningStep
  BY <1>5, ChainSeal DEF MiningStep, BeginBlock, IncludeTx, SkipTx, BuildFails
<1>6. CASE TakeSnapshot
  BY <1>6 DEF TakeSnapshot
<1>7. CASE \E entry \in snapshots : Revert(entry)
  BY <1>7, ChainRevert
<1>8. CASE Reset
  BY <1>8, ChainReset
<1>9. CASE UNCHANGED vars
  BY <1>9 DEF vars
<1> QED
  BY <1>1, <1>2, <1>3, <1>4, <1>5, <1>6, <1>7, <1>8, <1>9, NextSorted

(* The canonical chain is the one DevChain promises.  Without              *)
(* zevm_setNonce, which lets an account skip or repeat nonces.             *)
THEOREM RuntimeImplementsDevChain ==
  ASSUME NonceInputs = {} PROVE Spec => ImplementsDevChain
<1>1. Inv /\ LedgerInv /\ [Next]_vars => [Ledger!Extend \/ Ledger!CutBack]_chain
  BY ChainStep
<1>2. Init => Ledger!Init
  BY ChainInit
<1> QED
  BY <1>1, <1>2, LedgerInvariance, PTL DEF Spec, ImplementsDevChain, Ledger!Spec

-----------------------------------------------------------------------------
(* The pool invariants, step by step.                                      *)

(* The hash of a signed envelope tells the whole envelope.                 *)
LEMMA SignedHash ==
  ASSUME NEW tx \in Envelope, NEW other \in Envelope, tx.signed, other.signed
  PROVE  Hash(tx) = Hash(other) <=> tx = other
<1>1. Hash(tx) = tx /\ Hash(other) = other
  BY DEF Hash, Envelope
<1> QED
  BY <1>1

(* add keeps one entry per slot.                                           *)
LEMMA AddedOnePerSlot ==
  ASSUME NEW p, NEW e, OnePerSlot(p)
  PROVE  OnePerSlot(Added(p, e))
  BY DEF OnePerSlot, Added, Slot

LEMMA PoolInit == Init => PoolInv
  BY DEF Init, PoolInv, PoolFollows, OnePerSlot, BlockCovers, IdleJob

(* Steps outside a build that leave state and snapshots alone: the pool    *)
(* may lose entries, or gain one that is not below the account's nonce.    *)
LEMMA PoolSubmit ==
  ASSUME TypeOK, PoolInv, NEW tx \in Envelopes, SendRawTransaction(tx) \/ SendTransaction(tx)
  PROVE  PoolInv'
<1>1. /\ Idle /\ CallMayStart /\ UNCHANGED <<stateNonce, snapshots>>
      /\ base' = [base EXCEPT ![tx.sender] = stateNonce[tx.sender]]
      /\ tx.nonce >= stateNonce[tx.sender]
  BY SubmitEffect DEF snapVars
<1>2. PICK e \in Entry : e.tx = tx /\ (pool' = pool \/ pool' = Added(pool, e))
  BY SubmitEffect
<1>3. job.phase = "idle" /\ job'.phase \in {"idle", "begin"}
  BY <1>1 DEF CallMayStart, Idle, IdleJob
<1>4. OnePerSlot(pool')
  BY <1>2, AddedOnePerSlot DEF PoolInv, PoolFollows
<1>5. \A f \in pool' : f \in pool \/ f = e
  BY <1>2 DEF Added
<1>6. ASSUME NEW f \in pool'
      PROVE  base'[f.tx.sender] = stateNonce[f.tx.sender] /\ f.tx.nonce >= stateNonce[f.tx.sender]
  <2>1. f.tx.sender \in Sender
    BY <1>5 DEF TypeOK, Entry, Envelope
  <2>2. CASE f = e
    BY <1>1, <1>2, <2>1, <2>2 DEF TypeOK
  <2>3. CASE f \in pool
    <3>1. base[f.tx.sender] = stateNonce[f.tx.sender] /\ f.tx.nonce >= stateNonce[f.tx.sender]
      BY <1>3, <2>3 DEF PoolInv, PoolFollows, Committed
    <3> QED
      BY <1>1, <2>1, <3>1 DEF TypeOK
  <2> QED
    BY <1>5, <2>2, <2>3
<1>7. PoolFollows(pool, base, Committed)'
  BY <1>1, <1>3, <1>4, <1>6 DEF PoolFollows, Committed
<1> QED
  BY <1>1, <1>3, <1>7 DEF PoolInv, BlockCovers

LEMMA PoolCalm ==
  ASSUME PoolInv, Idle, CallMayStart, UNCHANGED <<stateNonce, snapshots>>,
         pool' \subseteq pool, UNCHANGED base \/ pool' = {}
  PROVE  PoolInv'
<1>1. job.phase = "idle" /\ job'.phase \in {"idle", "begin"}
  BY DEF CallMayStart, Idle, IdleJob
<1>2. PoolFollows(pool, base, Committed)'
  BY <1>1 DEF PoolInv, PoolFollows, Committed, OnePerSlot
<1> QED
  BY <1>1, <1>2 DEF PoolInv, BlockCovers

LEMMA PoolBegin == TypeOK /\ LedgerInv /\ PoolInv /\ BeginBlock => PoolInv'
<1> SUFFICES ASSUME TypeOK, LedgerInv, PoolInv, BeginBlock PROVE PoolInv'
  OBVIOUS
<1>1. /\ job.phase = "begin" /\ job'.phase = "build"
      /\ job'.block = <<>> /\ job'.saved = stateNonce
      /\ UNCHANGED <<stateNonce, pool, base, snapshots>>
  BY DEF BeginBlock, TypeOK, Job, poolVars, snapVars
<1>2. PoolFollows(pool, base, Committed)'
  BY <1>1 DEF PoolInv, PoolFollows, Committed
<1>3. BlockCovers'
  <2>1. \A s \in Sender : stateNonce[s] \in Int
    BY DEF TypeOK, Nonce
  <2> QED
    BY <1>1, <2>1 DEF BlockCovers
<1> QED
  BY <1>1, <1>2, <1>3 DEF PoolInv

LEMMA PoolInclude ==
  ASSUME TypeOK, PoolInv, NEW e \in job.todo, IncludeTx(e)
  PROVE  PoolInv'
<1> DEFINE tx == e.tx
<1>1. /\ tx \in Envelope /\ tx.sender \in Sender /\ tx.nonce \in Nonce
      /\ job.block \in Seq(Envelope) /\ stateNonce \in [Sender -> Nonce]
      /\ job.saved \in [Sender -> Nonce]
  BY DEF TypeOK, Job, Entry, Envelope
<1>2. /\ job.phase = "build" /\ job'.phase = "build"
      /\ job'.saved = job.saved /\ job'.block = Append(job.block, tx)
      /\ tx.nonce = stateNonce[tx.sender]
      /\ stateNonce' = [stateNonce EXCEPT ![tx.sender] = tx.nonce + 1]
      /\ UNCHANGED <<pool, base, snapshots>>
  BY DEF IncludeTx, NonceMatches, TypeOK, Job, poolVars, snapVars
<1> HIDE DEF tx
<1>3. PoolFollows(pool, base, Committed)'
  BY <1>2 DEF PoolInv, PoolFollows, Committed
<1>4. /\ Len(job.block) \in Nat
      /\ DOMAIN job.block = 1..Len(job.block)
      /\ DOMAIN job'.block = 1..(Len(job.block) + 1)
      /\ \A i \in 1..Len(job.block) : job'.block[i] = job.block[i]
      /\ job'.block[Len(job.block) + 1] = tx
  BY <1>1, <1>2, AppendProperties, LenProperties
<1>5. ASSUME NEW s \in Sender
      PROVE  /\ job.saved[s] <= stateNonce'[s]
             /\ \A n \in Nonce :
                  n \in job.saved[s]..(stateNonce'[s] - 1)
                    <=> \E i \in DOMAIN job'.block :
                          job'.block[i].sender = s /\ job'.block[i].nonce = n
  <2>1. /\ job.saved[s] <= stateNonce[s]
        /\ \A n \in Nonce :
             n \in job.saved[s]..(stateNonce[s] - 1)
               <=> \E i \in DOMAIN job.block :
                     job.block[i].sender = s /\ job.block[i].nonce = n
    BY <1>2 DEF PoolInv, BlockCovers
  <2>2. /\ stateNonce'[s] = IF s = tx.sender THEN stateNonce[s] + 1 ELSE stateNonce[s]
        /\ job.saved[s] \in Int /\ stateNonce[s] \in Int
    BY <1>1, <1>2 DEF Nonce
  <2>3. ASSUME NEW n \in Nonce
        PROVE  (\E i \in DOMAIN job'.block :
                  job'.block[i].sender = s /\ job'.block[i].nonce = n)
               <=> \/ \E i \in DOMAIN job.block :
                        job.block[i].sender = s /\ job.block[i].nonce = n
                   \/ tx.sender = s /\ tx.nonce = n
    <3>1. ASSUME NEW i \in DOMAIN job'.block,
                 job'.block[i].sender = s, job'.block[i].nonce = n
          PROVE  \/ \E j \in DOMAIN job.block :
                      job.block[j].sender = s /\ job.block[j].nonce = n
                 \/ tx.sender = s /\ tx.nonce = n
      <4>1. i \in DOMAIN job.block \/ i = Len(job.block) + 1
        BY <1>4
      <4> QED
        BY <1>4, <3>1, <4>1
    <3>2. ASSUME NEW i \in DOMAIN job.block,
                 job.block[i].sender = s, job.block[i].nonce = n
          PROVE  \E j \in DOMAIN job'.block :
                   job'.block[j].sender = s /\ job'.block[j].nonce = n
      <4>1. i \in DOMAIN job'.block /\ job'.block[i] = job.block[i]
        BY <1>4
      <4> QED
        BY <3>2, <4>1
    <3>3. ASSUME tx.sender = s, tx.nonce = n
          PROVE  \E j \in DOMAIN job'.block :
                   job'.block[j].sender = s /\ job'.block[j].nonce = n
      <4>1. /\ Len(job.block) + 1 \in DOMAIN job'.block
            /\ job'.block[Len(job.block) + 1] = tx
        BY <1>4
      <4> QED
        BY <3>3, <4>1
    <3> QED
      BY <3>1, <3>2, <3>3
  <2>4. ASSUME NEW n \in Nonce
        PROVE  n \in job.saved[s]..(stateNonce'[s] - 1)
               <=> \/ n \in job.saved[s]..(stateNonce[s] - 1)
                   \/ tx.sender = s /\ tx.nonce = n
    <3>1. n \in Int
      BY DEF Nonce
    <3> QED
      BY <1>2, <2>1, <2>2, <3>1
  <2>5. job.saved[s] <= stateNonce'[s]
    BY <2>1, <2>2
  <2> QED
    BY <2>1, <2>3, <2>4, <2>5
<1>6. BlockCovers'
  BY <1>2, <1>5 DEF BlockCovers
<1> QED
  BY <1>2, <1>3, <1>6 DEF PoolInv

LEMMA PoolSkip ==
  ASSUME TypeOK, PoolInv, NEW e \in job.todo, SkipTx(e)
  PROVE  PoolInv'
<1>1. /\ job'.phase = job.phase /\ job'.saved = job.saved /\ job'.block = job.block
      /\ UNCHANGED <<stateNonce, pool, base, snapshots>>
  BY DEF SkipTx, TypeOK, Job, poolVars, snapVars
<1> QED
  BY <1>1 DEF PoolInv, PoolFollows, Committed, BlockCovers

(* The stored entries a block mines are those whose transaction is in it,  *)
(* when every stored envelope is signed.                                   *)
LEMMA MinedEntries ==
  ASSUME TypeOK, AllSigned, BlockFromPool, job.phase = "build", NEW e \in pool
  PROVE  Hash(e.tx) \in MinedHashes <=> \E i \in DOMAIN job.block : e.tx = job.block[i]
<1>1. ASSUME NEW i \in DOMAIN job.block
      PROVE  Hash(e.tx) = Hash(job.block[i]) <=> e.tx = job.block[i]
  <2>1. PICK g \in pool : g.tx = job.block[i]
    BY DEF BlockFromPool
  <2>2. e.tx \in Envelope /\ e.tx.signed /\ g.tx \in Envelope /\ g.tx.signed
    BY DEF TypeOK, Entry, AllSigned
  <2> QED
    BY <2>1, <2>2, SignedHash
<1> QED
  BY <1>1 DEF MinedHashes

(* A set of numbers with a top has it as the value removeMined takes.      *)
LEMMA TopIsChosen ==
  ASSUME NEW S \in SUBSET Int, NEW top \in S, \A m \in S : m <= top
  PROVE  (CHOOSE n \in S : \A m \in S : m <= n) = top
<1> DEFINE c == CHOOSE n \in S : \A m \in S : m <= n
<1>1. c \in S /\ \A m \in S : m <= c
  OBVIOUS
<1>2. c <= top /\ top <= c /\ c \in Int /\ top \in Int
  BY <1>1
<1> HIDE DEF c
<1>3. c = top
  BY <1>2
<1> QED
  BY <1>3 DEF c

LEMMA PoolSeal ==
  ASSUME TypeOK, AllSigned, BlockFromPool, PoolInv, SealBlock
  PROVE  PoolInv'
<1>1. /\ job.phase = "build" /\ job'.phase \in {"begin", "idle"}
      /\ pool' = Removed(pool, MinedHashes)
      /\ base' = BaseAfterMined(pool, base, MinedHashes)
      /\ UNCHANGED <<stateNonce, snapshots>>
  <2>1. CASE job.left > 1
    BY <2>1 DEF SealBlock, TypeOK, Job, snapVars
  <2>2. CASE ~(job.left > 1)
    BY <2>2 DEF SealBlock, IdleJob, snapVars
  <2> QED
    BY <2>1, <2>2
<1>2. ASSUME NEW e \in pool
      PROVE  /\ e.tx.sender \in Sender /\ e.tx.nonce \in Nonce /\ e.tx.nonce \in Int
             /\ base[e.tx.sender] = job.saved[e.tx.sender]
             /\ e.tx.nonce >= job.saved[e.tx.sender]
             /\ job.saved[e.tx.sender] \in Int
             /\ stateNonce[e.tx.sender] \in Nonce /\ stateNonce[e.tx.sender] \in Int
             /\ job.saved[e.tx.sender] <= stateNonce[e.tx.sender]
  <2>1. e.tx.sender \in Sender /\ e.tx.nonce \in Nonce
    BY DEF TypeOK, Entry, Envelope
  <2>2. job.saved[e.tx.sender] \in Nonce /\ stateNonce[e.tx.sender] \in Nonce
    BY <2>1 DEF TypeOK, Job
  <2>3. Nonce \subseteq Int
    BY DEF Nonce
  <2> QED
    BY <1>1, <2>1, <2>2, <2>3 DEF PoolInv, PoolFollows, Committed, BlockCovers
<1>3. ASSUME NEW e \in pool
      PROVE  Hash(e.tx) \in MinedHashes <=> e.tx.nonce < stateNonce[e.tx.sender]
  <2> DEFINE s == e.tx.sender
  <2>1. e.tx.nonce \in job.saved[s]..(stateNonce[s] - 1)
          <=> \E i \in DOMAIN job.block :
                job.block[i].sender = s /\ job.block[i].nonce = e.tx.nonce
    BY <1>1, <1>2 DEF PoolInv, BlockCovers
  <2>2. ASSUME NEW i \in DOMAIN job.block,
               job.block[i].sender = s, job.block[i].nonce = e.tx.nonce
        PROVE  job.block[i] = e.tx
    <3>1. PICK g \in pool : g.tx = job.block[i]
      BY <1>1 DEF BlockFromPool
    <3> QED
      BY <2>2, <3>1 DEF PoolInv, PoolFollows, OnePerSlot
  <2>3. Hash(e.tx) \in MinedHashes <=> \E i \in DOMAIN job.block : e.tx = job.block[i]
    BY <1>1, MinedEntries
  <2> QED
    BY <1>2, <2>1, <2>2, <2>3
<1>4. ASSUME NEW f \in pool'
      PROVE  f \in pool /\ f.tx.nonce >= stateNonce[f.tx.sender]
  BY <1>1, <1>2, <1>3 DEF Removed
<1>5. ASSUME NEW f \in pool'
      PROVE  base'[f.tx.sender] = stateNonce[f.tx.sender]
  <2> DEFINE s == f.tx.sender
             mined == {SatSucc(e.tx.nonce) :
                         e \in {g \in pool : Hash(g.tx) \in MinedHashes /\ g.tx.sender = s}}
             S == mined \cup {base[s]}
  <2>1. /\ f \in pool /\ s \in Sender /\ base[s] = job.saved[s]
        /\ job.saved[s] <= stateNonce[s] /\ job.saved[s] \in Int
        /\ stateNonce[s] \in Nonce /\ stateNonce[s] \in Int
    BY <1>2, <1>4
  <2>2. ASSUME NEW e \in pool, Hash(e.tx) \in MinedHashes, e.tx.sender = s
        PROVE  SatSucc(e.tx.nonce) \in Int /\ SatSucc(e.tx.nonce) <= stateNonce[s]
    <3>1. e.tx.nonce \in Int /\ e.tx.nonce < stateNonce[s]
      BY <1>2, <1>3, <2>2
    <3> QED
      BY <2>1, <3>1 DEF SatSucc
  <2>3. S \in SUBSET Int /\ \A m \in S : m <= stateNonce[s]
    BY <2>1, <2>2
  <2>4. stateNonce[s] \in S
    <3>1. CASE stateNonce[s] = job.saved[s]
      BY <2>1, <3>1
    <3>2. CASE stateNonce[s] # job.saved[s]
      <4> DEFINE n == stateNonce[s] - 1
      <4>1. n \in Nonce /\ n \in job.saved[s]..(stateNonce[s] - 1) /\ SatSucc(n) = stateNonce[s]
        <5>1. job.saved[s] \in Nonce
          BY <2>1 DEF TypeOK, Job
        <5> QED
          BY <2>1, <3>2, <5>1, PoolAssumption DEF Nonce, SatSucc
      <4> HIDE DEF n
      <4>2. PICK i \in DOMAIN job.block : job.block[i].sender = s /\ job.block[i].nonce = n
        BY <1>1, <2>1, <4>1 DEF PoolInv, BlockCovers, n
      <4>3. PICK g \in pool : g.tx = job.block[i]
        BY <1>1 DEF BlockFromPool
      <4>4. Hash(g.tx) \in MinedHashes /\ g.tx.sender = s /\ g.tx.nonce = n
        BY <1>1, <4>2, <4>3, MinedEntries
      <4> QED
        BY <4>1, <4>4
    <3> QED
      BY <3>1, <3>2
  <2>5. base'[s] = CHOOSE n \in S : \A m \in S : m <= n
    BY <1>1, <2>1 DEF BaseAfterMined, TypeOK
  <2> HIDE DEF S, mined
  <2>6. base'[s] = stateNonce[s]
    BY <2>3, <2>4, <2>5, TopIsChosen
  <2> QED
    BY <2>6
<1>6. OnePerSlot(pool')
  BY <1>4 DEF PoolInv, PoolFollows, OnePerSlot
<1>7. PoolFollows(pool, base, Committed)'
  BY <1>1, <1>4, <1>5, <1>6 DEF PoolFollows, Committed
<1> QED
  BY <1>1, <1>7 DEF PoolInv, BlockCovers

LEMMA PoolFails == TypeOK /\ PoolInv /\ BuildFails => PoolInv'
<1> SUFFICES ASSUME TypeOK, PoolInv, BuildFails PROVE PoolInv'
  OBVIOUS
<1>1. /\ job.phase = "build" /\ job'.phase = "idle" /\ stateNonce' = job.saved
      /\ UNCHANGED <<pool, base, snapshots>>
  BY DEF BuildFails, IdleJob, poolVars, snapVars
<1>2. PoolFollows(pool, base, Committed)'
  BY <1>1 DEF PoolInv, PoolFollows, Committed
<1> QED
  BY <1>1, <1>2 DEF PoolInv, BlockCovers

LEMMA PoolSnapshot == PoolInv /\ TakeSnapshot => PoolInv'
<1> SUFFICES ASSUME PoolInv, TakeSnapshot PROVE PoolInv'
  OBVIOUS
<1>1. /\ job.phase = "idle" /\ snapshots' = snapshots \cup {SnapshotEntry}
      /\ UNCHANGED <<stateNonce, pool, base, job>>
  BY DEF TakeSnapshot, Idle, IdleJob, poolVars
<1>2. PoolFollows(pool, base, stateNonce)
  BY <1>1 DEF PoolInv, Committed
<1>3. PoolFollows(pool, base, Committed)'
  BY <1>1, <1>2 DEF PoolFollows, Committed
<1>4. ASSUME NEW entry \in snapshots'
      PROVE  PoolFollows(entry.pool, entry.base, entry.stateNonce)
  BY <1>1, <1>2 DEF PoolInv, SnapshotEntry
<1> QED
  BY <1>1, <1>3, <1>4 DEF PoolInv, BlockCovers

LEMMA PoolRevert ==
  ASSUME PoolInv, NEW entry \in snapshots, Revert(entry)
  PROVE  PoolInv'
<1>1. /\ job'.phase = "idle" /\ snapshots' \subseteq snapshots
      /\ pool' = entry.pool /\ base' = entry.base /\ stateNonce' = entry.stateNonce
  BY DEF Revert, Idle, IdleJob, OlderSnapshots
<1>2. PoolFollows(entry.pool, entry.base, entry.stateNonce)
  BY DEF PoolInv
<1>3. PoolFollows(pool, base, Committed)'
  BY <1>1, <1>2 DEF PoolFollows, Committed
<1> QED
  BY <1>1, <1>3 DEF PoolInv, BlockCovers

LEMMA PoolReset == Reset => PoolInv'
  BY DEF Reset, PoolInv, PoolFollows, OnePerSlot, BlockCovers, Idle, IdleJob

(* What the pool holds was accepted from the callers, and so is signed     *)
(* when they all are; a block is made of what the pool holds.              *)
LEMMA SealInvStep ==
  ASSUME \A tx \in Envelopes : tx.signed, TypeOK, SealInv, [Next]_vars
  PROVE  SealInv'
<1>1. CASE \E tx \in Envelopes : SendRawTransaction(tx) \/ SendTransaction(tx)
  <2>1. PICK tx \in Envelopes : SendRawTransaction(tx) \/ SendTransaction(tx)
    BY <1>1
  <2>2. Idle /\ CallMayStart /\ UNCHANGED snapshots
    BY <2>1, SubmitEffect DEF snapVars
  <2>3. \A f \in pool' : f \in pool \/ f.tx = tx
    BY <2>1, SubmitEffect DEF Added
  <2>4. job'.phase # "build"
    BY <2>2 DEF CallMayStart, Idle, IdleJob
  <2> QED
    BY <2>2, <2>3, <2>4 DEF SealInv, AllSigned, BlockFromPool
<1>2. CASE \/ \E c \in Counts : Mine(c) \/ \E i \in Intervals : MineInterval(c, i)
           \/ Tick
  <2>1. job'.phase # "build" /\ UNCHANGED <<pool, snapshots>>
    BY <1>2, CallEffect DEF CallMayStart, Idle, IdleJob, poolVars, snapVars
  <2> QED
    BY <2>1 DEF SealInv, AllSigned, BlockFromPool
<1>3. CASE Control
  <2>1. job'.phase # "build" /\ pool' \subseteq pool /\ UNCHANGED snapshots
    BY <1>3, ControlEffect DEF Idle, IdleJob, snapVars
  <2> QED
    BY <2>1 DEF SealInv, AllSigned, BlockFromPool
<1>4. CASE \E s \in Sender, n \in NonceInputs : SetNonce(s, n)
  BY <1>4 DEF SetNonce, SealInv, AllSigned, BlockFromPool, poolVars, snapVars
<1>5. CASE BeginBlock
  <2>1. job'.block = <<>> /\ job'.todo \subseteq pool /\ UNCHANGED <<pool, snapshots>>
    BY <1>5 DEF BeginBlock, Ready, Pending, TypeOK, Job, poolVars, snapVars
  <2> QED
    BY <2>1 DEF SealInv, AllSigned, BlockFromPool
<1>6. ASSUME NEW e \in job.todo, IncludeTx(e) PROVE SealInv'
  <2>1. /\ job.phase = "build" /\ job'.phase = "build"
        /\ job'.block = Append(job.block, e.tx) /\ job'.todo \subseteq job.todo
        /\ UNCHANGED <<pool, snapshots>>
    BY <1>6 DEF IncludeTx, TypeOK, Job, poolVars, snapVars
  <2>2. e.tx \in Envelope /\ job.block \in Seq(Envelope)
    BY DEF TypeOK, Job, Entry
  <2>3. \A i \in DOMAIN job'.block :
          \/ i \in DOMAIN job.block /\ job'.block[i] = job.block[i]
          \/ job'.block[i] = e.tx
    BY <2>1, <2>2, AppendProperties, LenProperties
  <2> QED
    BY <2>1, <2>3 DEF SealInv, AllSigned, BlockFromPool
<1>7. ASSUME NEW e \in job.todo, SkipTx(e) PROVE SealInv'
  <2>1. /\ job'.phase = job.phase /\ job'.block = job.block /\ job'.todo \subseteq job.todo
        /\ UNCHANGED <<pool, snapshots>>
    BY <1>7 DEF SkipTx, TypeOK, Job, poolVars, snapVars
  <2> QED
    BY <2>1 DEF SealInv, AllSigned, BlockFromPool
<1>8. CASE SealBlock
  <2>1. job'.phase # "build" /\ pool' \subseteq pool /\ UNCHANGED snapshots
    <3>1. CASE job.left > 1
      BY <1>8, <3>1 DEF SealBlock, Removed, TypeOK, Job, snapVars
    <3>2. CASE ~(job.left > 1)
      BY <1>8, <3>2 DEF SealBlock, Removed, IdleJob, snapVars
    <3> QED
      BY <3>1, <3>2
  <2> QED
    BY <2>1 DEF SealInv, AllSigned, BlockFromPool
<1>9. CASE BuildFails
  BY <1>9 DEF BuildFails, IdleJob, SealInv, AllSigned, BlockFromPool, poolVars, snapVars
<1>10. CASE TakeSnapshot
  <2>1. /\ job'.phase = "idle" /\ UNCHANGED pool
        /\ snapshots' = snapshots \cup {SnapshotEntry} /\ SnapshotEntry.pool = pool
    BY <1>10 DEF TakeSnapshot, SnapshotEntry, Idle, IdleJob, poolVars
  <2> QED
    BY <2>1 DEF SealInv, AllSigned, BlockFromPool
<1>11. ASSUME NEW entry \in snapshots, Revert(entry) PROVE SealInv'
  BY <1>11 DEF Revert, OlderSnapshots, Idle, IdleJob, SealInv, AllSigned, BlockFromPool
<1>12. CASE Reset
  BY <1>12 DEF Reset, Idle, IdleJob, SealInv, AllSigned, BlockFromPool
<1>13. CASE UNCHANGED vars
  BY <1>13 DEF vars, poolVars, snapVars, SealInv, AllSigned, BlockFromPool
<1> QED
  BY <1>1, <1>2, <1>3, <1>4, <1>5, <1>6, <1>7, <1>8, <1>9, <1>10, <1>11, <1>12, <1>13,
     NextSorted DEF MiningStep

LEMMA PoolStep ==
  ASSUME NonceInputs = {}, Inv, LedgerInv, SealInv, PoolInv, [Next]_vars
  PROVE  PoolInv'
<1>0. TypeOK
  BY DEF Inv
<1>1. CASE \E tx \in Envelopes : SendRawTransaction(tx) \/ SendTransaction(tx)
  BY <1>0, <1>1, PoolSubmit
<1>2. CASE \/ \E c \in Counts : Mine(c) \/ \E i \in Intervals : MineInterval(c, i)
           \/ Tick
  BY <1>2, CallEffect, PoolCalm DEF poolVars, snapVars
<1>3. CASE Control
  BY <1>3, ControlEffect, PoolCalm DEF snapVars, CallMayStart
<1>4. CASE MiningStep
  BY <1>0, <1>4, PoolBegin, PoolInclude, PoolSkip, PoolSeal, PoolFails DEF MiningStep, SealInv
<1>5. CASE TakeSnapshot
  BY <1>5, PoolSnapshot
<1>6. CASE \E entry \in snapshots : Revert(entry)
  BY <1>6, PoolRevert
<1>7. CASE Reset
  BY <1>7, PoolReset
<1>8. CASE UNCHANGED vars
  BY <1>8 DEF vars, poolVars, snapVars, PoolInv, PoolFollows, Committed, OnePerSlot, BlockCovers
<1> QED
  BY <1>1, <1>2, <1>3, <1>4, <1>5, <1>6, <1>7, <1>8, NextSorted

LEMMA SealInvInit == Init => SealInv
  BY DEF Init, IdleJob, SealInv, AllSigned, BlockFromPool

LEMMA PoolInvariance ==
  ASSUME NonceInputs = {}, \A tx \in Envelopes : tx.signed
  PROVE  Spec => [](Inv /\ LedgerInv /\ SealInv /\ PoolInv)
<1>1. Inv /\ LedgerInv /\ SealInv /\ PoolInv /\ [Next]_vars
        => (Inv /\ LedgerInv /\ SealInv /\ PoolInv)'
  <2>1. Inv => TypeOK
    BY DEF Inv
  <2> QED
    BY <2>1, InvStep, LedgerStep, SealInvStep, PoolStep
<1>2. Init => Inv /\ LedgerInv /\ SealInv /\ PoolInv
  BY InvInit, LedgerInit, SealInvInit, PoolInit
<1> QED
  BY <1>1, <1>2, PTL DEF Spec

(* The account nonces are those of the sealed blocks (and the block in the *)
(* making), on the chain and in every snapshot: BuildFails and revert      *)
(* leave no nonce behind.  Without zevm_setNonce.                          *)
THEOREM StateFollowsLedger ==
  ASSUME NonceInputs = {} PROVE Spec => []StateMatchesLedger
<1>1. LedgerInv => StateMatchesLedger
  BY DEF LedgerInv
<1> QED
  BY <1>1, LedgerInvariance, PTL

(* Chain, state and pool have one idea of an account's nonce, whatever is  *)
(* submitted, replaced, dropped, mined, skipped, failed or reverted.       *)
(* Without zevm_setNonce, and without impersonated (unsigned) envelopes.   *)
THEOREM NoncesAlwaysAgree ==
  ASSUME NonceInputs = {}, \A tx \in Envelopes : tx.signed
  PROVE  Spec => []NoncesAgree
<1>1. LedgerInv /\ PoolInv => NoncesAgree
  <2> SUFFICES ASSUME LedgerInv, PoolInv PROVE NoncesAgree
    OBVIOUS
  <2>1. Idle => Committed = stateNonce
    BY DEF Idle, IdleJob, Committed
  <2> QED
    BY <2>1 DEF LedgerInv, PoolInv, PoolFollows, NoncesAgree, PoolTracksState
<1> QED
  BY <1>1, PoolInvariance, PTL

(* Sealing a block takes its transactions out of the pool and no other,    *)
(* as long as every envelope is signed: the hash removeMined looks for     *)
(* tells the sender then.                                                  *)
THEOREM SealingTakesOnlyMined ==
  ASSUME \A tx \in Envelopes : tx.signed PROVE Spec => SealTakesOnlyMined
<1>1. TypeOK /\ SealInv /\ SealBlock =>
        {e.tx : e \in pool \ pool'} = {job.block[i] : i \in DOMAIN job.block}
  <2> SUFFICES ASSUME TypeOK, SealInv, SealBlock
               PROVE  {e.tx : e \in pool \ pool'} = {job.block[i] : i \in DOMAIN job.block}
    OBVIOUS
  <2>1. job.phase = "build" /\ pool' = Removed(pool, MinedHashes)
    BY DEF SealBlock
  <2>2. \A e \in pool : e \notin pool' <=> \E i \in DOMAIN job.block : e.tx = job.block[i]
    BY <2>1, MinedEntries DEF SealInv, Removed
  <2>3. \A i \in DOMAIN job.block : \E e \in pool : e.tx = job.block[i]
    BY <2>1 DEF SealInv, BlockFromPool
  <2> QED
    BY <2>2, <2>3
<1>2. TypeOK /\ SealInv /\ [Next]_vars =>
        [SealBlock => {e.tx : e \in pool \ pool'} =
                        {job.block[i] : i \in DOMAIN job.block}]_vars
  BY <1>1
<1>3. Inv => TypeOK
  BY DEF Inv
<1>4. Inv /\ SealInv /\ [Next]_vars => (Inv /\ SealInv)'
  BY <1>3, InvStep, SealInvStep
<1>5. Init => Inv /\ SealInv
  BY InvInit, SealInvInit
<1> QED
  BY <1>2, <1>3, <1>4, <1>5, PTL DEF Spec, SealTakesOnlyMined

(* A block is offered every executable transaction of the pool: getReady   *)
(* starts from the base nonces, and these are the accounts'.               *)
THEOREM ExecutablesAreReady ==
  ASSUME NonceInputs = {}, \A tx \in Envelopes : tx.signed
  PROVE  Spec => ExecutableIsReady
<1>1. TypeOK /\ PoolInv /\ BeginBlock =>
        {e \in Executable : e.tx.nonce >= stateNonce[e.tx.sender]} \subseteq job'.todo
  <2> SUFFICES ASSUME TypeOK, PoolInv, BeginBlock,
                      NEW e \in Executable, e.tx.nonce >= stateNonce[e.tx.sender]
               PROVE  e \in job'.todo
    OBVIOUS
  <2>1. job.phase = "begin" /\ job'.todo = Pending(pool, base)
    BY DEF BeginBlock, Ready, TypeOK, Job
  <2>2. e \in pool /\ base[e.tx.sender] = stateNonce[e.tx.sender]
    BY <2>1 DEF Executable, PoolInv, PoolFollows, Committed
  <2>3. base[e.tx.sender] <= e.tx.nonce
    <3>1. base[e.tx.sender] \in Int /\ e.tx.nonce \in Int
      BY <2>2 DEF TypeOK, Entry, Envelope, Nonce
    <3> QED
      BY <2>2, <3>1
  <2> QED
    BY <2>1, <2>2, <2>3 DEF Executable, Pending, IsPending
<1>2. Inv /\ PoolInv /\ [Next]_vars =>
        [BeginBlock => {e \in Executable : e.tx.nonce >= stateNonce[e.tx.sender]}
                         \subseteq job'.todo]_vars
  BY <1>1 DEF Inv
<1> QED
  BY <1>2, PoolInvariance, PTL DEF Spec, ExecutableIsReady

-----------------------------------------------------------------------------
(* The base fee. *)

LEMMA FeeStep ==
  ASSUME BuildMayFail = FALSE, TypeOK, FeeMatchesHead, [Next]_vars
  PROVE  FeeMatchesHead'
<1>1. CASE \E tx \in Envelopes : SendRawTransaction(tx) \/ SendTransaction(tx)
  <2>1. PICK tx \in Envelopes : SendRawTransaction(tx) \/ SendTransaction(tx)
    BY <1>1
  <2>2. Idle /\ UNCHANGED <<chain, feeHead, snapVars>>
    BY <2>1 DEF SendRawTransaction, SendTransaction, Submit
  <2> QED
    BY <2>2 DEF FeeMatchesHead, snapVars
<1>2. CASE \/ \E c \in Counts : Mine(c) \/ \E i \in Intervals : MineInterval(c, i)
           \/ Tick
  BY <1>2, CallEffect DEF FeeMatchesHead, snapVars
<1>3. CASE Control
  BY <1>3, ControlEffect DEF FeeMatchesHead, snapVars
<1>4. CASE \E s \in Sender, n \in NonceInputs : SetNonce(s, n)
  BY <1>4 DEF SetNonce, FeeMatchesHead, snapVars, Idle
<1>5. CASE BeginBlock \/ \E e \in job.todo : IncludeTx(e) \/ SkipTx(e)
  <2>1. job'.phase = "build" /\ UNCHANGED snapshots
    BY <1>5 DEF BeginBlock, IncludeTx, SkipTx, TypeOK, Job, snapVars
  <2> QED
    BY <2>1 DEF FeeMatchesHead, Idle, IdleJob
<1>6. CASE SealBlock
  <2>1. UNCHANGED snapshots
    BY <1>6 DEF SealBlock, snapVars
  <2>2. CASE job.left > 1
    <3>1. job'.phase = "begin"
      BY <1>6, <2>2 DEF SealBlock, TypeOK, Job
    <3> QED
      BY <2>1, <3>1 DEF FeeMatchesHead, Idle, IdleJob
  <2>3. CASE ~(job.left > 1)
    <3>1. feeHead' = Len(chain) + 1
      BY <1>6, <2>3 DEF SealBlock, FeeAfterSeal
    <3>2. Len(chain') = Len(chain) + 1
      <4>1. [timestamp |-> job.clock, txs |-> job.block] \in Block
        BY DEF TypeOK, Job, Block
      <4> QED
        BY <1>6, <4>1, AppendProperties DEF SealBlock, TypeOK
    <3> QED
      BY <2>1, <3>1, <3>2 DEF FeeMatchesHead
  <2> QED
    BY <2>2, <2>3
<1>7. CASE TakeSnapshot
  <2>1. /\ Idle /\ UNCHANGED <<chain, feeHead, job>>
        /\ snapshots' = snapshots \cup {SnapshotEntry}
        /\ SnapshotEntry.feeHead = feeHead /\ SnapshotEntry.chain = chain
    BY <1>7 DEF TakeSnapshot, SnapshotEntry
  <2> QED
    BY <2>1 DEF FeeMatchesHead, Idle
<1>8. CASE \E entry \in snapshots : Revert(entry)
  BY <1>8 DEF Revert, OlderSnapshots, FeeMatchesHead
<1>9. CASE Reset
  <2>1. Len(<<Genesis>>) = 1
    OBVIOUS
  <2> QED
    BY <1>9, <2>1 DEF Reset, FeeMatchesHead
<1>10. CASE UNCHANGED vars
  BY <1>10 DEF vars, snapVars, FeeMatchesHead, Idle
<1> QED
  BY <1>1, <1>2, <1>3, <1>4, <1>5, <1>6, <1>7, <1>8, <1>9, <1>10, NextSorted
     DEF MiningStep, BuildFails

(* Between requests the base fee belongs to the block after the head, on   *)
(* the chain and in every snapshot, as long as no mining call fails half   *)
(* way: mineBlocks writes it back with its last block only.                *)
THEOREM FeeFollowsHead ==
  ASSUME BuildMayFail = FALSE PROVE Spec => []FeeMatchesHead
<1>1. Init => FeeMatchesHead
  <2>1. Len(<<Genesis>>) = 1
    OBVIOUS
  <2> QED
    BY <2>1 DEF Init, FeeMatchesHead
<1>2. TypeOK /\ FeeMatchesHead /\ [Next]_vars => FeeMatchesHead'
  BY FeeStep
<1> QED
  BY <1>1, <1>2, TypeCorrect, PTL DEF Spec

-----------------------------------------------------------------------------
(* The timestamps of sealed blocks. *)

(* The timestamp of the block in the making is the one that is due, from   *)
(* the moment the call starts; an interval mode has a block time.          *)
DueClock == IF job.phase = "begin" THEN BlockClock ELSE job.clock
ModeIsTimed(c) == c.mode # "auto" /\ (c.mode = "interval" => c.blockTime > 0)
DueInv ==
  /\ ModeIsTimed(config)
  /\ \A entry \in snapshots : ModeIsTimed(entry.config)
  /\ job.phase # "idle" => TimestampIsDue(DueClock)

LEMMA DueStart ==
  ASSUME TypeOK, NEW count, NEW interval, NEW override,
         NEW trigger \in {"mine", "mineInterval", "tick"},
         StartMining(count, interval, override, nextTimestamp, trigger),
         UNCHANGED <<chain, config, timestampInterval>>,
         nextTimestamp # None => override = nextTimestamp,
         nextTimestamp = None =>
           override = CASE trigger = "mineInterval" -> None
                        [] trigger # "mineInterval" /\ timestampInterval # None
                             -> StepOverride(timestampInterval)
                        [] trigger = "tick" /\ timestampInterval = None
                             -> StepOverride(config.blockTime)
                        [] OTHER -> None,
         trigger = "tick" => config.blockTime > 0
  PROVE  (TimestampIsDue(DueClock))'
<1>1. PICK now \in Times :
        job' = [phase |-> "begin", left |-> count, first |-> TRUE,
                interval |-> interval,
                clock |-> IF override # None THEN override
                          ELSE Larger(HeadTimestamp + 1, now),
                restore |-> nextTimestamp, todo |-> {}, block |-> <<>>,
                saved |-> stateNonce, trigger |-> trigger]
  BY DEF StartMining
<1>2. /\ HeadTimestamp \in Nat /\ now \in Nat /\ config.blockTime \in Nat
      /\ timestampInterval # None => timestampInterval \in Nat
      /\ None \notin Nat
      /\ HeadTimestamp' = HeadTimestamp
  BY HeadTimestampType, RuntimeAssumption DEF TypeOK, Config, Timestamp, HeadTimestamp
<1>3. /\ DueClock' = IF override # None THEN override ELSE Larger(HeadTimestamp + 1, now)
      /\ job'.first /\ job'.restore = nextTimestamp /\ job'.trigger = trigger
  BY <1>1 DEF DueClock, BlockClock
<1>4. CASE nextTimestamp # None
  BY <1>3, <1>4 DEF TimestampIsDue
<1>5. CASE nextTimestamp = None
  <2>1. CASE override = None
    <3>1. DueClock' > HeadTimestamp
      BY <1>2, <1>3, <2>1 DEF Larger
    <3>2. trigger # "mineInterval" => timestampInterval = None /\ trigger # "tick"
      BY <1>2, <1>5, <2>1 DEF StepOverride, Larger
    <3> QED
      BY <1>2, <1>3, <1>5, <3>1, <3>2 DEF TimestampIsDue
  <2>2. CASE override # None
    <3>1. DueClock' = override /\ trigger # "mineInterval"
      BY <1>3, <1>5, <2>2
    <3>2. CASE timestampInterval # None
      BY <1>2, <1>3, <1>5, <3>1, <3>2 DEF TimestampIsDue, StepOverride
    <3>3. CASE timestampInterval = None
      <4>1. trigger = "tick" /\ override = HeadTimestamp + config.blockTime
        BY <1>2, <1>5, <2>2, <3>1, <3>3 DEF StepOverride, Larger
      <4> QED
        BY <1>2, <1>3, <1>5, <3>1, <3>3, <4>1 DEF TimestampIsDue
    <3> QED
      BY <3>2, <3>3
  <2> QED
    BY <2>1, <2>2
<1> QED
  BY <1>4, <1>5

(* Every call but automining starts with the timestamp that is due.        *)
LEMMA DueCall ==
  ASSUME TypeOK, DueInv,
         \/ \E c \in Counts : Mine(c) \/ \E i \in Intervals : MineInterval(c, i)
         \/ Tick
  PROVE  DueInv'
<1>1. ASSUME NEW c, NEW trigger \in {"mine", "tick"},
             UNCHANGED <<chain, config, timestampInterval>>,
             trigger = "tick" => config.blockTime > 0,
             MineWithTimestampInterval(c, trigger),
             trigger = "tick" => timestampInterval # None
      PROVE  (TimestampIsDue(DueClock))'
  <2>1. CASE timestampInterval = None
    BY <1>1, <2>1, DueStart DEF MineWithTimestampInterval
  <2>2. CASE timestampInterval # None
    <3> DEFINE over == FirstTimestamp(timestampInterval)
    <3>1. /\ StartMining(c, timestampInterval, over, nextTimestamp, trigger)
          /\ nextTimestamp # None => over = nextTimestamp
          /\ nextTimestamp = None => over = StepOverride(timestampInterval)
      BY <1>1, <2>2 DEF MineWithTimestampInterval, FirstTimestamp
    <3> HIDE DEF over
    <3> QED
      BY <1>1, <2>2, <3>1, DueStart
  <2> QED
    BY <2>1, <2>2
<1>2. ASSUME NEW c \in Counts, Mine(c) PROVE (TimestampIsDue(DueClock))'
  BY <1>1, <1>2 DEF Mine
<1>3. ASSUME NEW c \in Counts, NEW i \in Intervals, MineInterval(c, i)
      PROVE  (TimestampIsDue(DueClock))'
  BY <1>3, DueStart DEF MineInterval
<1>4. ASSUME Tick PROVE (TimestampIsDue(DueClock))'
  <2>1. config.blockTime > 0 /\ UNCHANGED <<chain, config, timestampInterval>>
    BY <1>4 DEF Tick, DueInv, ModeIsTimed
  <2>2. CASE timestampInterval # None
    BY <1>1, <1>4, <2>1, <2>2 DEF Tick
  <2>3. CASE timestampInterval = None
    <3> DEFINE over == FirstTimestamp(config.blockTime)
    <3>1. /\ StartMining(1, config.blockTime, over, nextTimestamp, "tick")
          /\ nextTimestamp # None => over = nextTimestamp
          /\ nextTimestamp = None => over = StepOverride(config.blockTime)
      BY <1>4, <2>3 DEF Tick, FirstTimestamp
    <3> HIDE DEF over
    <3> QED
      BY <2>1, <2>3, <3>1, DueStart
  <2> QED
    BY <2>2, <2>3
<1>5. UNCHANGED <<config, snapshots>>
  BY DEF Mine, MineInterval, Tick, snapVars
<1> QED
  BY <1>2, <1>3, <1>4, <1>5 DEF DueInv

LEMMA DueSeal == TypeOK /\ DueInv /\ SealBlock => DueInv'
<1> SUFFICES ASSUME TypeOK, DueInv, SealBlock PROVE DueInv'
  OBVIOUS
<1>1. UNCHANGED <<config, snapshots>>
  BY DEF SealBlock, snapVars
<1>2. CASE job.left > 1
  <2>1. /\ job' = [job EXCEPT !.phase = "begin", !.left = @ - 1, !.first = FALSE,
                              !.clock = @ + 1, !.block = <<>>]
        /\ job.clock \in Nat /\ job.interval \in Nat
    BY <1>2 DEF SealBlock, TypeOK, Job
  <2>2. /\ job'.phase = "begin" /\ ~job'.first /\ job'.clock = job.clock + 1
        /\ job'.interval = job.interval
    BY <2>1 DEF TypeOK, Job
  <2>3. HeadTimestamp' = job.clock
    <3> DEFINE blk == [timestamp |-> job.clock, txs |-> job.block]
    <3>1. blk \in Block /\ blk.timestamp = job.clock /\ chain' = Append(chain, blk)
      BY DEF TypeOK, Job, Block, SealBlock
    <3> HIDE DEF blk
    <3>2. Len(chain') = Len(chain) + 1 /\ chain'[Len(chain) + 1] = blk
      BY <3>1, AppendProperties DEF TypeOK
    <3> QED
      BY <3>1, <3>2 DEF HeadTimestamp
  <2>4. DueClock' = job.clock + Larger(job.interval, 1)
    BY <2>1, <2>2 DEF DueClock, BlockClock, Larger
  <2>5. (TimestampIsDue(DueClock))'
    BY <2>2, <2>3, <2>4 DEF TimestampIsDue
  <2> QED
    BY <1>1, <2>5 DEF DueInv
<1>3. CASE ~(job.left > 1)
  BY <1>1, <1>3 DEF SealBlock, IdleJob, DueInv
<1> QED
  BY <1>2, <1>3

(* The steps of a build keep its clock and the head.                       *)
LEMMA DueBuild ==
  ASSUME TypeOK, DueInv, BeginBlock \/ \E e \in job.todo : IncludeTx(e) \/ SkipTx(e)
  PROVE  DueInv'
<1>1. /\ job.phase # "idle" /\ job'.phase = "build" /\ DueClock' = DueClock
      /\ job'.first = job.first /\ job'.interval = job.interval
      /\ job'.restore = job.restore /\ job'.trigger = job.trigger
      /\ UNCHANGED <<chain, config, timestampInterval, snapshots>>
  BY DEF BeginBlock, IncludeTx, SkipTx, DueClock, TypeOK, Job, snapVars, timeVars
<1> QED
  BY <1>1 DEF DueInv, TimestampIsDue, HeadTimestamp

LEMMA DueStep ==
  ASSUME "auto" \notin ModeInputs, DefaultMode # "auto", TypeOK, DueInv, [Next]_vars
  PROVE  DueInv'
<1>0. IdleJob.phase = "idle"
  BY DEF IdleJob
<1>1. CASE \E tx \in Envelopes : SendRawTransaction(tx) \/ SendTransaction(tx)
  <2>1. PICK e : Submit(e)
    BY <1>1 DEF SendRawTransaction, SendTransaction
  <2>2. UNCHANGED <<job, config, snapshots>> /\ Idle
    BY <2>1 DEF Submit, DueInv, ModeIsTimed, snapVars
  <2> QED
    BY <1>0, <2>2 DEF DueInv, Idle
<1>2. CASE \/ \E c \in Counts : Mine(c) \/ \E i \in Intervals : MineInterval(c, i)
           \/ Tick
  BY <1>2, DueCall
<1>3. CASE Control
  <2>1. Idle /\ UNCHANGED <<job, snapshots>>
    BY <1>3, ControlEffect DEF snapVars
  <2>2. ModeIsTimed(config')
    <3>1. CASE UNCHANGED config
      BY <3>1 DEF DueInv
    <3>2. ASSUME NEW m \in ModeInputs, NEW b \in BlockTimes, SetMiningConfig(m, b)
          PROVE  ModeIsTimed(config')
      BY <3>2, RuntimeAssumption DEF SetMiningConfig, ModeIsTimed
    <3> QED
      BY <1>3, <3>1, <3>2 DEF Control, DropTransaction, DropAllTransactions,
                              SetNextBlockTimestamp, SetBlockTimestampInterval
  <2> QED
    BY <1>0, <2>1, <2>2 DEF DueInv, Idle
<1>4. CASE \E s \in Sender, n \in NonceInputs : SetNonce(s, n)
  BY <1>0, <1>4 DEF SetNonce, DueInv, snapVars, Idle
<1>5. CASE BeginBlock \/ \E e \in job.todo : IncludeTx(e) \/ SkipTx(e)
  BY <1>5, DueBuild
<1>6. CASE SealBlock
  BY <1>6, DueSeal
<1>7. CASE BuildFails
  BY <1>0, <1>7 DEF BuildFails, DueInv, snapVars
<1>8. CASE TakeSnapshot
  <2>1. /\ Idle /\ UNCHANGED <<job, config>>
        /\ snapshots' = snapshots \cup {SnapshotEntry} /\ SnapshotEntry.config = config
    BY <1>8 DEF TakeSnapshot, SnapshotEntry
  <2> QED
    BY <1>0, <2>1 DEF DueInv, Idle
<1>9. CASE \E entry \in snapshots : Revert(entry)
  BY <1>0, <1>9 DEF Revert, OlderSnapshots, DueInv, Idle
<1>10. CASE Reset
  BY <1>0, <1>10, RuntimeAssumption DEF Reset, DueInv, ModeIsTimed, Idle
<1>11. CASE UNCHANGED vars
  BY <1>11 DEF vars, timeVars, snapVars, DueInv, DueClock, BlockClock, TimestampIsDue, HeadTimestamp
<1> QED
  BY <1>1, <1>2, <1>3, <1>4, <1>5, <1>6, <1>7, <1>8, <1>9, <1>10, <1>11, NextSorted
     DEF MiningStep

(* A sealed block carries the timestamp that is due: the override, the     *)
(* explicit interval, the timestamp interval, the block time of the timer, *)
(* in this order.  Where automining, which ignores the interval, is off.   *)
THEOREM PrecedenceIsFollowed ==
  ASSUME "auto" \notin ModeInputs, DefaultMode # "auto"
  PROVE  Spec => TimestampFollowsPrecedence
<1>1. Init => DueInv
  BY RuntimeAssumption DEF Init, DueInv, ModeIsTimed, IdleJob
<1>2. TypeOK /\ DueInv /\ [Next]_vars => DueInv'
  BY DueStep
<1>3. TypeOK /\ DueInv /\ [Next]_vars =>
        [SealBlock => TimestampIsDue(chain'[Len(chain')].timestamp)]_vars
  <2> SUFFICES ASSUME TypeOK, DueInv, SealBlock
               PROVE  TimestampIsDue(chain'[Len(chain')].timestamp)
    OBVIOUS
  <2> DEFINE blk == [timestamp |-> job.clock, txs |-> job.block]
  <2>1. /\ blk \in Block /\ blk.timestamp = job.clock /\ chain' = Append(chain, blk)
        /\ job.phase = "build"
    BY DEF TypeOK, Job, Block, SealBlock
  <2> HIDE DEF blk
  <2>2. Len(chain') = Len(chain) + 1 /\ chain'[Len(chain) + 1] = blk
    BY <2>1, AppendProperties DEF TypeOK
  <2> QED
    BY <2>1, <2>2 DEF DueInv, DueClock
<1> QED
  BY <1>1, <1>2, <1>3, TypeCorrect, PTL DEF Spec, TimestampFollowsPrecedence
=============================================================================
