----------------------------- MODULE LightSync -----------------------------
(***************************************************************************)
(* Light mode (src/consensus_sync.zig, src/node/runtime.zig): a startup    *)
(* thread syncs a copy of the store without the mutex and commits it,      *)
(* requests advance the store under the mutex once it is ready, and deinit *)
(* stops and joins the thread.                                             *)
(*                                                                         *)
(* Every call to the beacon endpoint is a step of its own: it may fail, be *)
(* answered by an endpoint that is behind, or never be answered.  The      *)
(* beacon chain is fixed from the start and seen as far as the clock is.   *)
(* An execution block has the number of its slot.  Optimistic heads are    *)
(* not orphaned here.                                                      *)
(***************************************************************************)
EXTENDS LightStore

CONSTANTS
  Chains,  \* beacon chains: [fin, quiet], see BeaconAssumption
  Starts,  \* slots at which the node may be started
  Checkpoints, \* slots of the checkpoints it may be started from
  Strict,  \* strictCheckpointAge
  MaxAge,  \* maxCheckpointAge, in slots
  Window,  \* LIGHT_RETAINED_HISTORY_BACKTRACK
  MaxLag,  \* slots finality lags behind, at most
  Behind,  \* how many slots the endpoint may be behind
  MaxIdle, \* slots without a request that a healthy node gets over
  MaxSlot  \* bound: the last slot

Slot == 0..MaxSlot

(* fin[a] is finalized in the state of block a; few sign blocks in quiet.  *)
ASSUME BeaconAssumption ==
  /\ MaxSlot \in Nat /\ MaxAge \in Nat /\ Window \in Nat /\ MaxLag \in Nat
  /\ MaxIdle \in Nat
  /\ Behind \subseteq Nat /\ 0 \in Behind
  /\ Strict \in BOOLEAN
  /\ Starts \subseteq Slot \ {0} /\ Checkpoints \subseteq Slot
  /\ \A c \in Chains :
       /\ c.fin \in [Slot -> Slot] /\ c.quiet \subseteq Slot
       /\ \A a \in Slot : c.fin[a] <= a /\ a - c.fin[a] <= MaxLag
       /\ \A a \in Slot, b \in Slot : a <= b => c.fin[a] <= c.fin[b]

VARIABLES
  chain,    \* the beacon chain
  now,      \* the current slot
  checkpoint,
  silent,   \* the endpoint holds a call open and never answers it
  status,   \* engine.status: "syncing", "synced", "err"
  store,    \* engine.store
  safe,     \* safe_slot, and safe_head
  head,     \* head_block_number
  retained, \* retained_heads
  startup,  \* next step of the startup thread
  copy,     \* the store it works on
  pending,  \* the updates it has still to verify
  job,      \* next step of a request that advances the store, or "none"
  stop,     \* deinit: "no", "asked", "joined"
  heard,    \* when a sync last came to its end; not in the code
  excused   \* whether it has had a reason to fail; not in the code

env == <<chain, checkpoint, silent>>
light == <<status, store, safe, head, retained>>
vars == <<chain, now, checkpoint, silent, status, store, safe, head, retained, startup,
          copy, pending, job, stop, heard, excused>>

Init ==
  /\ chain \in Chains
  /\ now \in Starts
  /\ checkpoint \in {c \in Checkpoints : c <= chain.fin[now - 1]}
  /\ silent = FALSE
  /\ status = "syncing"
  /\ store = ZeroStore
  /\ safe = 0 /\ head = 0 /\ retained = {}
  /\ startup = "begin"
  /\ copy = ZeroStore /\ pending = {}
  /\ job = "none"
  /\ stop = "no"
  /\ heard = now
  /\ excused = FALSE

-----------------------------------------------------------------------------
(* The beacon endpoint, as it is at slot t: the block of the slot before   *)
(* has been attested.                                                      *)

Signers(a) == IF a \in chain.quiet THEN 1 ELSE CommitteeSize

Update(a, fin, next) ==
  [att |-> a, sig |-> a + 1, fin |-> fin, next |-> next, by |-> Period(a + 1),
   signers |-> Signers(a)]

FinalityUpdate(t) == Update(t - 1, chain.fin[t - 1], None)
OptimisticUpdate(t) == Update(t - 1, None, None)

(* is_better_update of the consensus specification, which decides what the *)
(* endpoint has for a period.                                              *)
Settled(u) == Period(u.fin) = Period(u.att)

Better(u, v) ==
  \/ Majority(u.signers) /\ ~Majority(v.signers)
  \/ /\ Majority(u.signers) <=> Majority(v.signers)
     /\ \/ Settled(u) /\ ~Settled(v)
        \/ (Settled(u) <=> Settled(v)) /\ u.att < v.att

(* Of each period, the best update signed in the period it attests to.     *)
CommitteeUpdates(p, t) ==
  LET offered == {Update(a, chain.fin[a], p + 1) :
                    a \in {a \in Slot : a < t /\ Period(a) = p /\ Period(a + 1) = p}}
  IN {u \in offered : \A v \in offered \ {u} : Better(u, v)}

(* Answers may come from an endpoint that is behind.                       *)
Views == {now - d : d \in {d \in Behind : d < now}}

(* The reasons to fail: a call that failed, an answer from an endpoint     *)
(* that is behind, a checkpoint refused for its age, a stop, or so long    *)
(* since the last sync that came to its end that a period may have been    *)
(* missed.  Once there is one the time does not matter any more.           *)
Excuse == excused' = TRUE /\ heard' = 0
Blameless == UNCHANGED <<heard, excused>>

Late(t) == excused \/ t < now \/ now - heard > MaxIdle
Called(t) == IF Late(t) THEN Excuse ELSE Blameless
Completed(t) == IF Late(t) THEN Excuse ELSE excused' = FALSE /\ heard' = now

-----------------------------------------------------------------------------
(* The startup thread. *)

Begin ==
  /\ startup = "begin"
  /\ startup' = IF stop # "no" THEN "failed" ELSE "snapshot"
  /\ IF stop # "no" THEN Excuse ELSE Blameless
  /\ UNCHANGED <<env, light, now, copy, pending, job, stop>>

TakeSnapshot ==
  /\ startup = "snapshot"
  /\ job = "none"
  /\ copy' = ZeroStore
  /\ startup' = "bootstrap"
  /\ Blameless
  /\ UNCHANGED <<env, light, now, pending, job, stop>>

(* bootstrap: the age of the checkpoint comes first.                       *)
TooOld == now - checkpoint > MaxAge

Bootstrap ==
  /\ startup = "bootstrap"
  /\ ~silent
  /\ IF Strict /\ TooOld
     THEN startup' = "failed" /\ Excuse /\ UNCHANGED copy
     ELSE startup' = "updates" /\ copy' = ApplyBootstrap(checkpoint) /\ Blameless
  /\ UNCHANGED <<env, light, now, pending, job, stop>>

(* getUpdates: those of every period from the checkpoint's on.             *)
Fetched(s, t) == UNION {CommitteeUpdates(p, t) : p \in Period(s.fin)..Period(t)}

FetchUpdates ==
  /\ startup = "updates"
  /\ ~silent
  /\ \E t \in Views :
       /\ pending' = Fetched(copy, t)
       /\ IF excused \/ t < now THEN Excuse ELSE excused' = FALSE /\ heard' = now
  /\ startup' = "verify"
  /\ UNCHANGED <<env, light, now, copy, job, stop>>

(* An update that does not verify ends the sync.                           *)
Continue(u, next) ==
  /\ IF Verify(u, copy, now) THEN startup' = next /\ copy' = Apply(u, copy)
                             ELSE startup' = "failed" /\ UNCHANGED copy
  /\ UNCHANGED <<env, light, now, job, stop>>

(* They are verified in the order of their slots.                          *)
SyncUpdate ==
  /\ startup = "verify"
  /\ \E u \in pending :
       /\ \A v \in pending : u.att <= v.att
       /\ Continue(u, "verify")
       /\ pending' = pending \ {u}
  /\ Blameless

SyncUpdatesDone ==
  /\ startup = "verify"
  /\ pending = {}
  /\ startup' = "finality"
  /\ Blameless
  /\ UNCHANGED <<env, light, now, copy, pending, job, stop>>

SyncFinality ==
  /\ startup = "finality"
  /\ ~silent
  /\ \E t \in Views : Continue(FinalityUpdate(t), "optimistic") /\ Called(t)
  /\ UNCHANGED pending

SyncOptimistic ==
  /\ startup = "optimistic"
  /\ ~silent
  /\ \E t \in Views : Continue(OptimisticUpdate(t), "check") /\ Called(t)
  /\ UNCHANGED pending

SyncCallFails ==
  /\ startup \in {"bootstrap", "updates", "finality", "optimistic"}
  /\ ~silent
  /\ startup' = "failed"
  /\ Excuse
  /\ UNCHANGED <<env, light, now, copy, pending, job, stop>>

CheckStop ==
  /\ startup = "check"
  /\ startup' = IF stop # "no" THEN "failed" ELSE "commit"
  /\ IF stop # "no" THEN Excuse ELSE Blameless
  /\ UNCHANGED <<env, light, now, copy, pending, job, stop>>

(* recordCurrentHeads, with the pruning after each of the three.           *)
Low(h) == IF h > Window THEN h - Window ELSE 1

RecordHeads(s) ==
  {n \in retained \cup {s.fin, s.opt} : n = 0 \/ (Low(s.opt) <= n /\ n <= s.opt)}

(* Mutant: a commit or an advance leaves head_block_number behind.         *)
InstallWithoutHead(s) ==
  /\ status' = "synced"
  /\ store' = s
  /\ safe' = s.fin
  /\ head' = IF head = 0 THEN s.opt ELSE head
  /\ retained' = RecordHeads(s)

(* engine, safe_slot (safeSlot is the finalized slot), head_block_number   *)
(* and the retained heads.                                                 *)
Install(s) ==
  /\ status' = "synced"
  /\ store' = s
  /\ safe' = s.fin
  /\ head' = s.opt
  /\ retained' = RecordHeads(s)

Commit ==
  /\ startup = "commit"
  /\ job = "none"
  /\ Install(copy)
  /\ startup' = "done" /\ copy' = ZeroStore /\ pending' = {}
  /\ Blameless
  /\ UNCHANGED <<env, now, job, stop>>

(* Mutant: a canceled sync leaves the status alone.                        *)
StartupFailsSilently ==
  /\ startup = "failed"
  /\ job = "none"
  /\ status' = IF stop = "no" THEN "err" ELSE status
  /\ startup' = "done" /\ copy' = ZeroStore /\ pending' = {}
  /\ Blameless
  /\ UNCHANGED <<env, now, store, safe, head, retained, job, stop>>

StartupFails ==
  /\ startup = "failed"
  /\ job = "none"
  /\ status' = "err"
  /\ startup' = "done" /\ copy' = ZeroStore /\ pending' = {}
  /\ Blameless
  /\ UNCHANGED <<env, now, store, safe, head, retained, job, stop>>

-----------------------------------------------------------------------------
(* Requests. *)

SlotCoherent == store.fin <= safe /\ safe <= store.opt
EffectiveStatus == IF status = "synced" /\ ~SlotCoherent THEN "err" ELSE status
Ready == EffectiveStatus = "synced"

(* refreshLightSyncForRequest and ...ForStatus: nothing unless ready.      *)
Refresh ==
  /\ job = "none"
  /\ stop = "no"
  /\ Ready
  /\ job' = "finality"
  /\ Blameless
  /\ UNCHANGED <<env, light, now, startup, copy, pending, stop>>

Failed == status' = "err" /\ job' = "none" /\ UNCHANGED <<store, safe, head, retained>>

Finish(s) == Install(s) /\ job' = "none"

AdvanceFinality ==
  /\ job = "finality"
  /\ ~silent
  /\ \E t \in Views :
       LET u == FinalityUpdate(t) IN
       /\ IF Verify(u, store, now)
          THEN /\ job' = "optimistic" /\ store' = Apply(u, store)
               /\ UNCHANGED <<status, safe, head, retained>>
          ELSE Failed
       /\ Called(t)
  /\ UNCHANGED <<env, now, startup, copy, pending, stop>>

(* Mutant: the next committee is never asked for.                          *)
AdvanceOptimisticOnly ==
  /\ job = "optimistic"
  /\ ~silent
  /\ \E t \in Views :
       LET u == OptimisticUpdate(t) IN
       /\ IF Verify(u, store, now) THEN Finish(Apply(u, store)) ELSE Failed
       /\ Completed(t)
  /\ UNCHANGED <<env, now, startup, copy, pending, stop>>

(* The next committee is asked for when it is not known.                   *)
AdvanceOptimistic ==
  /\ job = "optimistic"
  /\ ~silent
  /\ \E t \in Views :
       LET u == OptimisticUpdate(t)
           s == Apply(u, store)
       IN \/ ~Verify(u, store, now) /\ Failed /\ Called(t)
          \/ Verify(u, store, now) /\ s.next # None /\ Finish(s) /\ Completed(t)
          \/ /\ Verify(u, store, now) /\ s.next = None
             /\ job' = "committee" /\ store' = s
             /\ UNCHANGED <<status, safe, head, retained>>
             /\ Called(t)
  /\ UNCHANGED <<env, now, startup, copy, pending, stop>>

(* An update that does not verify is dropped: there is always a next time. *)
AdvanceCommittee ==
  /\ job = "committee"
  /\ ~silent
  /\ \E t \in Views :
       LET us == CommitteeUpdates(Period(store.fin), t) IN
       /\ \/ us = {} /\ Finish(store)
          \/ \E u \in us : Finish(IF Verify(u, store, now) THEN Apply(u, store) ELSE store)
       /\ Completed(t)
  /\ UNCHANGED <<env, now, startup, copy, pending, stop>>

AdvanceCallFails ==
  /\ job \in {"finality", "optimistic", "committee"}
  /\ ~silent
  /\ Failed
  /\ Excuse
  /\ UNCHANGED <<env, now, startup, copy, pending, stop>>

-----------------------------------------------------------------------------
(* deinit, once the listener is closed. *)

AskStop ==
  /\ stop = "no"
  /\ job = "none"
  /\ stop' = "asked"
  /\ Blameless
  /\ UNCHANGED <<env, light, now, startup, copy, pending, job>>

Join ==
  /\ stop = "asked"
  /\ startup = "done"
  /\ stop' = "joined"
  /\ Blameless
  /\ UNCHANGED <<env, light, now, startup, copy, pending, job>>

(* httpGet has no timeout: a call may stay unanswered for good, the        *)
(* startup thread's or that of a request, which holds the mutex.           *)
Calling == startup \in {"bootstrap", "updates", "finality", "optimistic"} \/ job # "none"

FallSilent ==
  /\ Calling
  /\ ~silent
  /\ silent' = TRUE
  /\ Blameless
  /\ UNCHANGED <<chain, checkpoint, light, now, startup, copy, pending, job, stop>>

Tick ==
  /\ now < MaxSlot
  /\ now' = now + 1
  /\ Blameless
  /\ UNCHANGED <<env, light, startup, copy, pending, job, stop>>

Startup ==
  \/ Begin \/ TakeSnapshot \/ SyncCallFails \/ Bootstrap
  \/ FetchUpdates \/ SyncUpdate \/ SyncUpdatesDone \/ SyncFinality \/ SyncOptimistic
  \/ CheckStop \/ Commit \/ StartupFails

Advance == AdvanceCallFails \/ AdvanceFinality \/ AdvanceOptimistic \/ AdvanceCommittee

Next == Startup \/ Refresh \/ Advance \/ AskStop \/ Join \/ FallSilent \/ Tick

(* A thread that does not wait for an answer goes on; that a call ends is  *)
(* not assumed, silent stops the thread that made it.                      *)
Spec == Init /\ [][Next]_vars /\ WF_vars(Startup) /\ WF_vars(Advance) /\ WF_vars(Join)

-----------------------------------------------------------------------------
(* Properties. *)

Committee == Nat
Updates == [att : Nat, sig : Nat, fin : Nat \cup {None}, next : Committee \cup {None},
            by : Committee, signers : Nat]
Store == [fin : Nat, opt : Nat, current : Committee \cup {None},
          next : Committee \cup {None}, most : Nat, mostBefore : Nat]

(* The types of the variables.                                             *)
TypeOK ==
  /\ chain \in Chains /\ now \in Slot /\ checkpoint \in Checkpoints
  /\ silent \in BOOLEAN /\ status \in {"syncing", "synced", "err"}
  /\ store \in Store /\ copy \in Store /\ pending \subseteq Updates
  /\ safe \in Nat /\ head \in Nat /\ retained \subseteq Nat
  /\ startup \in {"begin", "snapshot", "bootstrap", "updates", "verify", "finality",
                  "optimistic", "check", "commit", "failed", "done"}
  /\ job \in {"none", "finality", "optimistic", "committee"}
  /\ stop \in {"no", "asked", "joined"}
  /\ heard \in Slot
  /\ excused \in BOOLEAN

(* The committee that will verify the next updates is that of the period   *)
(* of the finalized header, and the next one, if known, the one after it,  *)
(* in the store and in the copy being synced, across every rotation.       *)
CommitteesMatch ==
  \A s \in {store, copy} : s.current # None =>
    s.current = Period(s.fin) /\ s.next \in {None, Period(s.fin) + 1}

(* A request finds heads of one moment: the slots are in order, so the     *)
(* guard in effectiveStatus is never what ends readiness, eth_blockNumber  *)
(* is the optimistic head, and every head that may be asked for by number  *)
(* is on record unless it has left the window.                             *)
ReadsAgree ==
  status = "synced" /\ job = "none" =>
    /\ SlotCoherent
    /\ head = store.opt
    /\ \A n \in {store.fin, safe, store.opt} : n >= Low(head) => n \in retained
    /\ \A n \in retained : n = 0 \/ (Low(head) <= n /\ n <= head)

(* While light mode is ready nothing it has shown goes back, with an       *)
(* endpoint that is behind or a startup thread that commits late; and what *)
(* is on record stays so until it leaves the window.                       *)
NeverBackwards ==
  [][/\ status # "syncing" => status' # "syncing"
     /\ status = "synced" /\ status' = "synced" =>
          /\ store'.fin >= store.fin /\ store'.opt >= store.opt /\ head' >= head
          /\ \A n \in retained : n >= Low(head') => n \in retained']_vars

(* What an endpoint that follows the chain is never refused under.  A      *)
(* request falls, in each period, between its first slots, in which what   *)
(* is finalized is still of the period before, and its last; a header is   *)
(* finalized after its slot, and most sign the blocks of these slots; and  *)
(* the checkpoint is not the head the node is started at.                  *)
First(p) == PeriodLength * p

AskedInTime == 2 * MaxIdle + MaxLag + 2 <= PeriodLength

ChainsAreWell ==
  \A c \in Chains :
    /\ \A a \in Slot \ {0} : c.fin[a] < a
    /\ \A a \in Slot : a - First(Period(a)) \in MaxLag..(PeriodLength - 2) => a \notin c.quiet

Favourable == AskedInTime /\ ChainsAreWell /\ 1 \notin Starts

(* Light mode only fails for a reason: a call that failed, an endpoint     *)
(* that is behind, a checkpoint refused for its age, a stop, or so long    *)
(* without a request that a committee period was missed.  An endpoint that *)
(* follows the chain, asked often enough, is never refused: the committee  *)
(* that signs is always known in time.                                     *)
ErrorHasCause == job = "none" /\ EffectiveStatus = "err" => excused

(* The startup sync comes to an end that shows in the status, and deinit   *)
(* is not kept waiting for its thread, whatever step the stop finds it at  *)
(* and whatever the endpoint answers: only one that never answers a call   *)
(* keeps them waiting.                                                     *)
SyncSettles ==
  /\ <>(status # "syncing" \/ silent)
  /\ stop = "asked" ~> (stop = "joined" \/ silent)
=============================================================================
