-------------------------- MODULE LightSyncProofs --------------------------
(* Proofs about LightSync: whatever the beacon chain, the endpoint's delay *)
(* and the time between two requests.                                      *)
EXTENDS LightSync, TLAPS, WellFoundedInduction

-----------------------------------------------------------------------------
(* Periods. *)

LEMMA PeriodBounds ==
  ASSUME NEW n \in Nat
  PROVE  /\ Period(n) \in Nat
         /\ PeriodLength * Period(n) <= n
         /\ n < PeriodLength * Period(n) + PeriodLength
BY StoreAssumption DEF Period

LEMMA PeriodMonotone ==
  ASSUME NEW m \in Nat, NEW n \in Nat, m <= n
  PROVE  Period(m) <= Period(n)
<1> DEFINE p == Period(m)
           q == Period(n)
<1>1. /\ p \in Nat /\ q \in Nat
      /\ PeriodLength * p <= m /\ n < PeriodLength * q + PeriodLength
  BY PeriodBounds
<1>2. SUFFICES ASSUME q < p PROVE FALSE
  BY <1>1
<1> HIDE DEF p, q
<1>3. PeriodLength * (q + 1) <= PeriodLength * p
  BY <1>1, <1>2, StoreAssumption
<1>4. PeriodLength * (q + 1) = PeriodLength * q + PeriodLength
  BY <1>1, StoreAssumption
<1>5. PeriodLength * q \in Nat /\ PeriodLength * p \in Nat /\ PeriodLength \in Nat
  BY <1>1, StoreAssumption
<1> QED
  BY <1>1, <1>3, <1>4, <1>5

-----------------------------------------------------------------------------
(* Updates. *)

(* What the endpoint offers: whatever it finalizes, a next committee is    *)
(* that of the period after the attested one.                              *)
Offered(u) == u \in Updates /\ u.next \in {None, Period(u.att) + 1}

Matches(s) ==
  s.current \in {None, Period(s.fin)} /\ s.next \in {None, Period(s.fin) + 1}

Sound(s) == s \in Store /\ Matches(s) /\ s.fin <= s.opt

LEMMA ZeroSound == Sound(ZeroStore)
<1>1. 0 \in Nat /\ Period(0) \in Nat
  BY PeriodBounds
<1> QED
  BY <1>1 DEF Sound, Matches, ZeroStore, Store, Committee

LEMMA BootstrapSound ==
  ASSUME NEW c \in Nat
  PROVE  Sound(ApplyBootstrap(c))
<1>1. Period(c) \in Nat
  BY PeriodBounds
<1>2. ZeroStore \in Store
  BY <1>1 DEF ZeroStore, Store, Committee
<1>3. /\ ApplyBootstrap(c) \in Store
      /\ ApplyBootstrap(c).fin = c /\ ApplyBootstrap(c).opt = c
      /\ ApplyBootstrap(c).current = Period(c) /\ ApplyBootstrap(c).next = None
  <2> DEFINE z == ZeroStore
  <2>1. z \in Store /\ z.next = None
    BY <1>2 DEF ZeroStore
  <2>2. ApplyBootstrap(c) = [z EXCEPT !.fin = c, !.opt = c, !.current = Period(c)]
    BY DEF ApplyBootstrap
  <2> HIDE DEF z
  <2> QED
    BY <1>1, <2>1, <2>2 DEF Store, Committee
<1> QED
  BY <1>3 DEF Sound, Matches

(* The optimistic header only advances, and nothing else is at stake.      *)
LEMMA SeenSound ==
  ASSUME NEW u, NEW s, Offered(u), Sound(s)
  PROVE  /\ Sound(Seen(u, s))
         /\ Seen(u, s).fin = s.fin /\ Seen(u, s).next = s.next
         /\ Seen(u, s).current = s.current
         /\ Seen(u, s).opt >= s.opt
<1> DEFINE counted == [s EXCEPT !.most = IF u.signers > @ THEN u.signers ELSE @]
<1>1. s \in Store /\ u \in Updates /\ u.signers \in Nat /\ u.att \in Nat
      /\ s.most \in Nat /\ s.fin \in Nat /\ s.opt \in Nat
  BY DEF Sound, Offered, Updates, Store
<1>2. /\ counted \in Store
      /\ counted.fin = s.fin /\ counted.next = s.next /\ counted.current = s.current
      /\ counted.opt = s.opt
  BY <1>1 DEF Store
<1> HIDE DEF counted
<1>3. CASE u.signers > SafetyThreshold(counted) /\ u.att > s.opt
  <2>1. Seen(u, s) = [counted EXCEPT !.opt = u.att]
    BY <1>3 DEF Seen, counted
  <2>2. /\ Seen(u, s) \in Store
        /\ Seen(u, s).fin = s.fin /\ Seen(u, s).next = s.next
        /\ Seen(u, s).current = s.current /\ Seen(u, s).opt = u.att
    BY <1>1, <1>2, <2>1 DEF Store
  <2> QED
    BY <1>1, <1>3, <2>2 DEF Sound, Matches
<1>4. CASE ~(u.signers > SafetyThreshold(counted) /\ u.att > s.opt)
  <2>1. Seen(u, s) = counted
    BY <1>4 DEF Seen, counted
  <2> QED
    BY <1>1, <1>2, <2>1 DEF Sound, Matches
<1> QED
  BY <1>3, <1>4

(* What is finalized and what is attested are not past the period of the   *)
(* signature, which the store restricts.                                   *)
LEMMA UpdatePeriods ==
  ASSUME NEW u, NEW s, NEW t, Offered(u), Sound(s), Verify(u, s, t)
  PROVE  /\ FinalizedSlot(u) \in Nat
         /\ Period(s.fin) \in Nat /\ Period(FinalizedSlot(u)) \in Nat
         /\ Period(u.att) \in Nat
         /\ s.fin <= FinalizedSlot(u) => Period(s.fin) <= Period(FinalizedSlot(u))
         /\ FinalizedSlot(u) <= s.fin => Period(FinalizedSlot(u)) <= Period(s.fin)
         /\ Period(FinalizedSlot(u)) <= Period(u.att)
         /\ Period(u.att) <= Period(s.fin) + 1
         /\ s.next = None => Period(u.att) <= Period(s.fin)
<1>1. /\ u.att \in Nat /\ u.sig \in Nat /\ s.fin \in Nat
      /\ u.fin \in Nat \cup {None}
  BY DEF Offered, Sound, Updates, Store
<1>2. FinalizedSlot(u) \in Nat
  BY <1>1 DEF FinalizedSlot
<1>3. u.att <= u.sig /\ FinalizedSlot(u) <= u.att
  BY <1>1, <1>2 DEF Verify, ValidTime
<1>4. /\ Period(s.fin) \in Nat /\ Period(FinalizedSlot(u)) \in Nat
      /\ Period(u.att) \in Nat /\ Period(u.sig) \in Nat
  BY <1>1, <1>2, PeriodBounds
<1>5. /\ s.fin <= FinalizedSlot(u) => Period(s.fin) <= Period(FinalizedSlot(u))
      /\ FinalizedSlot(u) <= s.fin => Period(FinalizedSlot(u)) <= Period(s.fin)
      /\ Period(FinalizedSlot(u)) <= Period(u.att)
      /\ Period(u.att) <= Period(u.sig)
  BY <1>1, <1>2, <1>3, PeriodMonotone
<1>6. \/ Period(u.sig) = Period(s.fin)
      \/ s.next # None /\ Period(u.sig) = Period(s.fin) + 1
  BY DEF Verify, ValidPeriod
<1> QED
  BY <1>2, <1>4, <1>5, <1>6

(* The two steps of applyUpdateNoQuorumCheck: the committees first ...     *)
LEMMA CommitteesSound ==
  ASSUME NEW u, NEW s, NEW t, Offered(u), Sound(s), Verify(u, s, t)
  PROVE  /\ Committees(u, s) \in Store
         /\ Committees(u, s).fin = s.fin /\ Committees(u, s).opt = s.opt
         /\ ~Rotates(u, s) => Matches(Committees(u, s))
         /\ Rotates(u, s) =>
              /\ Committees(u, s).current = Period(FinalizedSlot(u))
              /\ Committees(u, s).next \in {None, Period(FinalizedSlot(u)) + 1}
<1> DEFINE c == Committees(u, s)
<1>1. /\ s \in Store /\ Matches(s) /\ u.next \in {None, Period(u.att) + 1}
      /\ u.next \in Nat \cup {None}
  BY DEF Sound, Offered, Updates, Committee
<1>2. CASE Learns(u, s)
  <2>1. c = [s EXCEPT !.next = u.next]
    BY <1>2 DEF Committees
  <2>2. Period(u.att) = Period(s.fin)
    BY <1>2, UpdatePeriods DEF Learns
  <2>3. ~Rotates(u, s)
    BY <1>2 DEF Learns, Rotates
  <2>4. c \in Store /\ c.fin = s.fin /\ c.opt = s.opt /\ c.current = s.current
        /\ c.next = u.next
    BY <1>1, <2>1 DEF Store, Committee
  <2> QED
    BY <1>1, <2>2, <2>3, <2>4 DEF Matches
<1>3. CASE ~Learns(u, s) /\ Rotates(u, s)
  <2>1. c = [s EXCEPT !.current = s.next, !.next = u.next, !.mostBefore = s.most, !.most = 0]
    BY <1>3 DEF Committees
  <2>2. /\ s.next # None
        /\ Period(FinalizedSlot(u)) = Period(s.fin) + 1
        /\ Period(u.att) = Period(FinalizedSlot(u))
    BY <1>3, UpdatePeriods DEF Rotates
  <2>3. s.next = Period(s.fin) + 1 /\ s.next \in Nat
    BY <1>1, <2>2, UpdatePeriods DEF Matches
  <2>4. c \in Store
    <3>1. s.fin \in Nat /\ s.opt \in Nat /\ s.most \in Nat
      BY <1>1 DEF Store
    <3>2. c = [fin |-> s.fin, opt |-> s.opt, current |-> s.next, next |-> u.next,
               most |-> 0, mostBefore |-> s.most]
      BY <1>1, <2>1 DEF Store
    <3> QED
      BY <1>1, <2>3, <3>1, <3>2 DEF Store, Committee
  <2>5. c.fin = s.fin /\ c.opt = s.opt /\ c.current = s.next /\ c.next = u.next
    BY <1>1, <2>1 DEF Store
  <2> QED
    BY <1>1, <1>3, <2>2, <2>3, <2>4, <2>5
<1>4. CASE ~Learns(u, s) /\ ~Rotates(u, s)
  BY <1>1, <1>4 DEF Committees
<1> QED
  BY <1>2, <1>3, <1>4

(* ... then the finalized header, into whose period they have rotated.     *)
LEMMA FinalizeSound ==
  ASSUME NEW u, NEW s, NEW t, Offered(u), Sound(s), Verify(u, s, t),
         s.next # None \/ Learns(u, s)
  PROVE  /\ Sound(Finalize(u, Committees(u, s)))
         /\ Finalize(u, Committees(u, s)).fin >= s.fin
         /\ Finalize(u, Committees(u, s)).opt >= s.opt
<1> DEFINE c == Committees(u, s)
           f == Finalize(u, c)
           n == FinalizedSlot(u)
<1>1. /\ c \in Store /\ c.fin = s.fin /\ c.opt = s.opt
      /\ ~Rotates(u, s) => Matches(c)
      /\ Rotates(u, s) => c.current = Period(n) /\ c.next \in {None, Period(n) + 1}
  BY CommitteesSound
<1>2. s.fin \in Nat /\ s.opt \in Nat /\ s.fin <= s.opt /\ n \in Nat
  BY UpdatePeriods DEF Sound, Store
<1>3. CASE n > s.fin
  <2>1. n = u.fin
    BY <1>2, <1>3 DEF FinalizedSlot
  <2>2. f = [c EXCEPT !.fin = u.fin, !.opt = IF u.fin > @ THEN u.fin ELSE @]
    BY <1>1, <1>3 DEF Finalize
  <2>3. /\ f \in Store /\ f.fin = n /\ f.opt = IF n > s.opt THEN n ELSE s.opt
        /\ f.current = c.current /\ f.next = c.next
    <3> HIDE DEF c, n, f
    <3>1. f = [fin |-> n, opt |-> IF n > s.opt THEN n ELSE s.opt, current |-> c.current,
               next |-> c.next, most |-> c.most, mostBefore |-> c.mostBefore]
      BY <1>1, <2>1, <2>2 DEF Store
    <3> QED
      BY <1>1, <1>2, <3>1 DEF Store
  <2>4. ~Rotates(u, s) => Period(n) = Period(s.fin)
    BY <1>2, <1>3, UpdatePeriods DEF Rotates, Learns
  <2>5. Matches(f)
    BY <1>1, <2>3, <2>4 DEF Matches
  <2> QED
    BY <1>2, <1>3, <2>3, <2>5 DEF Sound
<1>4. CASE ~(n > s.fin)
  <2>1. f = c
    BY <1>1, <1>4 DEF Finalize
  <2>2. ~Rotates(u, s)
    BY <1>2, <1>4, UpdatePeriods DEF Rotates
  <2> QED
    BY <1>1, <1>2, <2>1, <2>2 DEF Sound
<1> QED
  BY <1>3, <1>4

(* A verified update leaves a sound store sound, and takes it forward.     *)
LEMMA ApplySound ==
  ASSUME NEW u, NEW s, NEW t, Offered(u), Sound(s), Verify(u, s, t)
  PROVE  Sound(Apply(u, s)) /\ Apply(u, s).fin >= s.fin /\ Apply(u, s).opt >= s.opt
<1> DEFINE seen == Seen(u, s)
<1>1. /\ Sound(seen) /\ seen.fin = s.fin /\ seen.next = s.next
      /\ seen.current = s.current /\ seen.opt >= s.opt
  BY SeenSound
<1>2. Verify(u, seen, t)
  BY <1>1 DEF Verify, ValidPeriod, Relevant, AgreesOnNext, SigningCommittee
<1>3. s.fin \in Nat /\ s.opt \in Nat /\ seen.opt \in Nat
  BY <1>1 DEF Sound, Store
<1>4. CASE ShouldApply(u, seen) /\ (seen.next # None \/ Learns(u, seen))
  <2>1. Apply(u, s) = Finalize(u, Committees(u, seen))
    BY <1>4 DEF Apply, ApplyNoQuorumCheck
  <2>2. /\ Sound(Finalize(u, Committees(u, seen)))
        /\ Finalize(u, Committees(u, seen)).fin >= seen.fin
        /\ Finalize(u, Committees(u, seen)).opt >= seen.opt
    BY <1>1, <1>2, <1>4, FinalizeSound
  <2>3. Finalize(u, Committees(u, seen)).opt \in Nat
    BY <2>2 DEF Sound, Store
  <2> QED
    BY <1>1, <1>3, <2>1, <2>2, <2>3
<1>5. CASE ~(ShouldApply(u, seen) /\ (seen.next # None \/ Learns(u, seen)))
  <2>1. Apply(u, s) = seen
    BY <1>5 DEF Apply, ApplyNoQuorumCheck
  <2> QED
    BY <1>1, <1>3, <2>1
<1> QED
  BY <1>4, <1>5

-----------------------------------------------------------------------------
(* The invariant. *)

LightInv ==
  /\ TypeOK
  /\ Sound(store) /\ Sound(copy)
  /\ \A u \in pending : Offered(u)
  /\ startup # "done" => status = "syncing"
  /\ job # "none" => status = "synced"
  /\ status = "synced" => head <= store.opt /\ \A n \in retained : n <= head
  /\ ReadsAgree

Ghosts == Excuse \/ Blameless \/ (excused' = FALSE /\ heard' = now)

StartupSteps ==
  {"begin", "snapshot", "bootstrap", "updates", "verify", "finality", "optimistic",
   "check", "commit", "failed"}

(* The endpoint offers nothing else than updates of its chain.             *)
LEMMA Endpoint ==
  ASSUME TypeOK, NEW t \in Views
  PROVE  /\ Offered(FinalityUpdate(t)) /\ Offered(OptimisticUpdate(t))
         /\ \A p \in Nat : \A u \in CommitteeUpdates(p, t) : Offered(u)
<1>1. /\ chain \in Chains /\ now \in Nat /\ now <= MaxSlot /\ MaxSlot \in Nat
      /\ chain.fin \in [Slot -> Slot] /\ CommitteeSize \in Nat
  BY BeaconAssumption, StoreAssumption DEF TypeOK, Slot
<1>2. t \in Nat /\ t - 1 \in Slot
  <2>1. PICK d \in Behind : d < now /\ t = now - d
    BY DEF Views
  <2>2. d \in Nat /\ now \in Nat /\ now <= MaxSlot /\ MaxSlot \in Nat
    BY <1>1, BeaconAssumption DEF Slot
  <2> QED
    BY <2>1, <2>2 DEF Slot
<1>3. ASSUME NEW a \in Slot, NEW f \in Nat \cup {None}, NEW n \in {None, Period(a) + 1}
      PROVE  Offered(Update(a, f, n))
  <2>1. a \in Nat /\ a + 1 \in Nat
    BY <1>1 DEF Slot
  <2>2. Period(a) \in Nat /\ Period(a + 1) \in Nat
    BY <2>1, PeriodBounds
  <2>3. Signers(a) \in Nat
    BY <1>1 DEF Signers
  <2> QED
    BY <2>1, <2>2, <2>3 DEF Update, Offered, Updates, Committee
<1>4. chain.fin[t - 1] \in Nat
  BY <1>1, <1>2 DEF Slot
<1>5. Offered(FinalityUpdate(t)) /\ Offered(OptimisticUpdate(t))
  BY <1>2, <1>3, <1>4 DEF FinalityUpdate, OptimisticUpdate
<1>6. ASSUME NEW p \in Nat, NEW u \in CommitteeUpdates(p, t)
      PROVE  Offered(u)
  <2>1. PICK a \in Slot : Period(a) = p /\ u = Update(a, chain.fin[a], p + 1)
    BY <1>6 DEF CommitteeUpdates
  <2>2. chain.fin[a] \in Nat
    BY <1>1, <2>1 DEF Slot
  <2> QED
    BY <1>3, <2>1, <2>2
<1> QED
  BY <1>5, <1>6

LEMMA GhostTypes ==
  ASSUME TypeOK, Ghosts
  PROVE  heard' \in Slot /\ excused' \in BOOLEAN
<1>1. heard \in Slot /\ excused \in BOOLEAN /\ now \in Slot /\ 0 \in Slot
  BY BeaconAssumption DEF TypeOK, Slot
<1>2. CASE Excuse
  BY <1>1, <1>2 DEF Excuse
<1>3. CASE Blameless
  BY <1>1, <1>3 DEF Blameless
<1>4. CASE excused' = FALSE /\ heard' = now
  BY <1>1, <1>4
<1> QED
  BY <1>2, <1>3, <1>4 DEF Ghosts

(* A step of the startup thread on its copy.                               *)
LEMMA CopyStep ==
  ASSUME LightInv, UNCHANGED <<env, light, now, job, stop>>, Ghosts,
         startup # "done", startup' \in StartupSteps,
         Sound(copy'), pending' \subseteq Updates, \A u \in pending' : Offered(u)
  PROVE  LightInv'
<1>1. TypeOK'
  <2>1. heard' \in Slot /\ excused' \in BOOLEAN
    BY GhostTypes DEF LightInv
  <2>2. copy' \in Store
    BY DEF Sound
  <2> QED
    BY <2>1, <2>2 DEF LightInv, TypeOK, env, light, StartupSteps
<1>2. Sound(store') /\ ReadsAgree'
  BY DEF LightInv, light, ReadsAgree, SlotCoherent
<1>3. /\ startup' # "done" => status' = "syncing"
      /\ job' # "none" => status' = "synced"
      /\ status' = "synced" => head' <= store'.opt /\ \A n \in retained' : n <= head'
  BY DEF LightInv, light
<1> QED
  BY <1>1, <1>2, <1>3 DEF LightInv

(* A commit, or an advance that comes to its end.                          *)
LEMMA InstallStep ==
  ASSUME LightInv, UNCHANGED <<env, now, stop>>, Ghosts,
         NEW s, Sound(s), Install(s), job' = "none", startup' = "done",
         Sound(copy'), pending' \subseteq Updates, \A u \in pending' : Offered(u)
  PROVE  LightInv'
<1>1. /\ s \in Store /\ s.fin \in Nat /\ s.opt \in Nat /\ s.fin <= s.opt
      /\ Window \in Nat /\ retained \subseteq Nat
  BY BeaconAssumption DEF Sound, Store, LightInv, TypeOK
<1>2. /\ status' = "synced" /\ store' = s /\ safe' = s.fin /\ head' = s.opt
      /\ retained' = RecordHeads(s)
  BY DEF Install
<1>3. /\ RecordHeads(s) \subseteq Nat
      /\ \A n \in RecordHeads(s) : n = 0 \/ (Low(s.opt) <= n /\ n <= s.opt)
      /\ \A n \in {s.fin, s.opt} : n >= Low(s.opt) => n \in RecordHeads(s)
  <2>1. Low(s.opt) \in Nat
    BY <1>1 DEF Low
  <2>2. \A n : n \in RecordHeads(s) <=>
               /\ n \in retained \/ n = s.fin \/ n = s.opt
               /\ n = 0 \/ (Low(s.opt) <= n /\ n <= s.opt)
    BY DEF RecordHeads
  <2>3. s.opt <= s.opt
    BY <1>1
  <2> QED
    BY <1>1, <2>1, <2>2, <2>3
<1>4. TypeOK'
  <2>1. heard' \in Slot /\ excused' \in BOOLEAN
    BY GhostTypes DEF LightInv
  <2>2. copy' \in Store
    BY DEF Sound
  <2> QED
    BY <1>1, <1>2, <1>3, <2>1, <2>2 DEF LightInv, TypeOK, env
<1>5. ReadsAgree'
  BY <1>1, <1>2, <1>3 DEF ReadsAgree, SlotCoherent
<1>6. head' <= store'.opt /\ \A n \in retained' : n <= head'
  BY <1>1, <1>2, <1>3
<1> QED
  BY <1>2, <1>4, <1>5, <1>6 DEF LightInv

(* An advance that goes on.                                                *)
LEMMA StoreStep ==
  ASSUME LightInv, UNCHANGED <<env, now, startup, copy, pending, stop>>, Ghosts,
         UNCHANGED <<status, safe, head, retained>>,
         job # "none", job' \in {"optimistic", "committee"},
         Sound(store'), store'.opt >= store.opt
  PROVE  LightInv'
<1>1. /\ store.opt \in Nat /\ store'.opt \in Nat /\ head \in Nat
      /\ store' \in Store
  BY DEF LightInv, TypeOK, Sound, Store
<1>2. TypeOK'
  <2>1. heard' \in Slot /\ excused' \in BOOLEAN
    BY GhostTypes DEF LightInv
  <2> QED
    BY <1>1, <2>1 DEF LightInv, TypeOK, env
<1>3. Sound(copy') /\ \A u \in pending' : Offered(u)
  BY DEF LightInv
<1>4. /\ status' = "synced" /\ startup' = "done"
      /\ head' <= store'.opt /\ \A n \in retained' : n <= head'
  BY <1>1 DEF LightInv
<1>5. ReadsAgree'
  BY DEF ReadsAgree
<1> QED
  BY <1>2, <1>3, <1>4, <1>5 DEF LightInv

(* An advance that fails.                                                  *)
LEMMA FailedStep ==
  ASSUME LightInv, UNCHANGED <<env, now, startup, copy, pending, stop>>, Ghosts,
         job # "none", Failed
  PROVE  LightInv'
<1>1. TypeOK'
  <2>1. heard' \in Slot /\ excused' \in BOOLEAN
    BY GhostTypes DEF LightInv
  <2> QED
    BY <2>1 DEF LightInv, TypeOK, env, Failed
<1>2. Sound(store') /\ Sound(copy') /\ \A u \in pending' : Offered(u)
  BY DEF LightInv, Failed
<1>3. status' = "err" /\ job' = "none" /\ startup' = "done"
  BY DEF LightInv, Failed
<1>4. ReadsAgree'
  BY <1>3 DEF ReadsAgree
<1> QED
  BY <1>1, <1>2, <1>3, <1>4 DEF LightInv

(* A step that leaves what is read and what is synced alone.               *)
LEMMA QuietStep ==
  ASSUME LightInv, UNCHANGED <<chain, checkpoint, light, startup, copy, pending>>, Ghosts,
         silent' \in BOOLEAN, now' \in Slot, stop' \in {"no", "asked", "joined"},
         job' = job \/ (job' = "finality" /\ status = "synced")
  PROVE  LightInv'
<1>1. TypeOK'
  <2>1. heard' \in Slot /\ excused' \in BOOLEAN
    BY GhostTypes DEF LightInv
  <2> QED
    BY <2>1 DEF LightInv, TypeOK, light
<1>2. Sound(store') /\ Sound(copy') /\ \A u \in pending' : Offered(u)
  BY DEF LightInv, light
<1>3. /\ startup' # "done" => status' = "syncing"
      /\ job' # "none" => status' = "synced"
      /\ status' = "synced" => head' <= store'.opt /\ \A n \in retained' : n <= head'
  BY DEF LightInv, light
<1>4. ReadsAgree'
  BY DEF LightInv, light, ReadsAgree, SlotCoherent
<1> QED
  BY <1>1, <1>2, <1>3, <1>4 DEF LightInv

(* The startup thread continues with an update, or fails.                  *)
LEMMA ContinueStep ==
  ASSUME LightInv, NEW u, Offered(u), NEW next \in StartupSteps, Continue(u, next),
         Ghosts, startup # "done", pending' \subseteq pending
  PROVE  LightInv'
<1>1. /\ UNCHANGED <<env, light, now, job, stop>>
      /\ pending' \subseteq Updates
      /\ \A v \in pending' : Offered(v)
  BY DEF Continue, LightInv, TypeOK
<1>2. startup' \in StartupSteps
  BY DEF Continue, StartupSteps
<1>3. Sound(copy')
  <2>1. CASE Verify(u, copy, now)
    BY <2>1, ApplySound DEF Continue, LightInv
  <2>2. CASE ~Verify(u, copy, now)
    BY <2>2 DEF Continue, LightInv
  <2> QED
    BY <2>1, <2>2
<1> QED
  BY <1>1, <1>2, <1>3, CopyStep

LEMMA InitInv == Init => LightInv
<1> SUFFICES ASSUME Init PROVE LightInv
  OBVIOUS
<1>1. Sound(ZeroStore) /\ ZeroStore \in Store
  BY ZeroSound DEF Sound
<1>2. TypeOK
  BY <1>1, BeaconAssumption DEF Init, TypeOK
<1>3. ReadsAgree
  BY DEF Init, ReadsAgree
<1> QED
  BY <1>1, <1>2, <1>3 DEF Init, LightInv

LEMMA StartupInv == LightInv /\ Startup => LightInv'
<1> SUFFICES ASSUME LightInv, Startup PROVE LightInv'
  OBVIOUS
<1> USE DEF StartupSteps
<1>0. /\ Sound(copy) /\ pending \subseteq Updates /\ \A u \in pending : Offered(u)
      /\ TypeOK
  BY DEF LightInv, TypeOK
<1>1. CASE Begin
  BY <1>0, <1>1, CopyStep DEF Begin, Ghosts
<1>2. CASE TakeSnapshot
  BY <1>0, <1>2, ZeroSound, CopyStep DEF TakeSnapshot, Ghosts
<1>3. CASE SyncCallFails
  BY <1>0, <1>3, CopyStep DEF SyncCallFails, Ghosts
<1>4. CASE Bootstrap
  <2>1. checkpoint \in Nat
    BY <1>0, BeaconAssumption DEF TypeOK, Slot
  <2>2. Sound(copy')
    BY <1>0, <1>4, <2>1, BootstrapSound DEF Bootstrap
  <2> QED
    BY <1>0, <1>4, <2>2, CopyStep DEF Bootstrap, Ghosts
<1>5. CASE FetchUpdates
  <2>1. PICK t \in Views : pending' = Fetched(copy, t)
    BY <1>5 DEF FetchUpdates
  <2>2. Period(copy.fin) \in Nat
    BY <1>0, PeriodBounds DEF Sound, Store
  <2>3. \A u \in pending' : Offered(u)
    BY <1>0, <2>1, <2>2, Endpoint DEF Fetched
  <2>4. pending' \subseteq Updates
    BY <2>3 DEF Offered
  <2>5. Ghosts
    BY <1>5 DEF FetchUpdates, Ghosts
  <2> QED
    BY <1>0, <1>5, <2>3, <2>4, <2>5, CopyStep DEF FetchUpdates
<1>6. CASE SyncUpdate
  BY <1>0, <1>6, ContinueStep DEF SyncUpdate, Ghosts
<1>7. CASE SyncUpdatesDone
  BY <1>0, <1>7, CopyStep DEF SyncUpdatesDone, Ghosts
<1>8. CASE SyncFinality
  BY <1>0, <1>8, Endpoint, ContinueStep DEF SyncFinality, Called, Ghosts
<1>9. CASE SyncOptimistic
  BY <1>0, <1>9, Endpoint, ContinueStep DEF SyncOptimistic, Called, Ghosts
<1>10. CASE CheckStop
  BY <1>0, <1>10, CopyStep DEF CheckStop, Ghosts
<1>11. CASE Commit
  BY <1>0, <1>11, ZeroSound, InstallStep DEF Commit, Ghosts
<1>12. CASE StartupFails
  <2>1. TypeOK'
    <3>1. heard' \in Slot /\ excused' \in BOOLEAN
      BY <1>0, <1>12, GhostTypes DEF StartupFails, Ghosts
    <3> QED
      BY <1>0, <1>12, <3>1, ZeroSound DEF StartupFails, TypeOK, env, Sound
  <2>2. Sound(store') /\ Sound(copy') /\ pending' = {}
    BY <1>12, ZeroSound DEF StartupFails, LightInv
  <2>3. status' = "err" /\ job' = "none" /\ startup' = "done"
    BY <1>12 DEF StartupFails
  <2>4. ReadsAgree'
    BY <2>3 DEF ReadsAgree
  <2> QED
    BY <2>1, <2>2, <2>3, <2>4 DEF LightInv
<1> QED
  BY <1>1, <1>2, <1>3, <1>4, <1>5, <1>6, <1>7, <1>8, <1>9, <1>10, <1>11, <1>12
     DEF Startup

LEMMA AdvanceInv == LightInv /\ Advance => LightInv'
<1> SUFFICES ASSUME LightInv, Advance PROVE LightInv'
  OBVIOUS
<1>0. /\ Sound(store) /\ TypeOK /\ Sound(copy) /\ pending \subseteq Updates
      /\ \A u \in pending : Offered(u)
      /\ \A t \in Views : (Called(t) \/ Completed(t)) => Ghosts
  BY DEF LightInv, TypeOK, Called, Completed, Ghosts
<1>1. CASE AdvanceCallFails
  BY <1>0, <1>1, FailedStep DEF AdvanceCallFails, Ghosts
<1>2. CASE AdvanceFinality
  <2>1. PICK t \in Views :
          /\ IF Verify(FinalityUpdate(t), store, now)
             THEN /\ job' = "optimistic" /\ store' = Apply(FinalityUpdate(t), store)
                  /\ UNCHANGED <<status, safe, head, retained>>
             ELSE Failed
          /\ Called(t)
    BY <1>2 DEF AdvanceFinality
  <2>2. Offered(FinalityUpdate(t)) /\ Ghosts
    BY <1>0, <2>1, Endpoint
  <2>3. UNCHANGED <<env, now, startup, copy, pending, stop>> /\ job # "none"
    BY <1>2 DEF AdvanceFinality
  <2>4. CASE Verify(FinalityUpdate(t), store, now)
    BY <1>0, <2>1, <2>2, <2>3, <2>4, ApplySound, StoreStep
  <2>5. CASE ~Verify(FinalityUpdate(t), store, now)
    BY <2>1, <2>2, <2>3, <2>5, FailedStep
  <2> QED
    BY <2>4, <2>5
<1>3. CASE AdvanceOptimistic
  <2> DEFINE s(t) == Apply(OptimisticUpdate(t), store)
  <2>1. PICK t \in Views :
          \/ Failed /\ Called(t)
          \/ Verify(OptimisticUpdate(t), store, now) /\ Finish(s(t)) /\ Completed(t)
          \/ /\ Verify(OptimisticUpdate(t), store, now)
             /\ job' = "committee" /\ store' = s(t)
             /\ UNCHANGED <<status, safe, head, retained>>
             /\ Called(t)
    BY <1>3 DEF AdvanceOptimistic
  <2>2. Offered(OptimisticUpdate(t)) /\ Ghosts
    BY <1>0, <2>1, Endpoint
  <2>3. /\ UNCHANGED <<env, now, startup, copy, pending, stop>>
        /\ job # "none" /\ startup = "done"
    BY <1>3 DEF AdvanceOptimistic, LightInv
  <2>4. Verify(OptimisticUpdate(t), store, now) => Sound(s(t)) /\ s(t).opt >= store.opt
    BY <1>0, <2>2, ApplySound
  <2> HIDE DEF s
  <2>5. CASE Failed
    BY <2>2, <2>3, <2>5, FailedStep
  <2>6. CASE Sound(s(t)) /\ Finish(s(t))
    BY <1>0, <2>2, <2>3, <2>6, InstallStep DEF Finish
  <2>7. CASE /\ Sound(s(t)) /\ s(t).opt >= store.opt
             /\ job' = "committee" /\ store' = s(t)
             /\ UNCHANGED <<status, safe, head, retained>>
    BY <2>2, <2>3, <2>7, StoreStep
  <2> QED
    BY <2>1, <2>4, <2>5, <2>6, <2>7
<1>4. CASE AdvanceCommittee
  <2>1. PICK t \in Views :
          /\ \/ Finish(store)
             \/ \E u \in CommitteeUpdates(Period(store.fin), t) :
                  Finish(IF Verify(u, store, now) THEN Apply(u, store) ELSE store)
          /\ Completed(t)
    BY <1>4 DEF AdvanceCommittee
  <2>2. Period(store.fin) \in Nat
    BY <1>0, PeriodBounds DEF Sound, Store
  <2>3. PICK s : Sound(s) /\ Finish(s)
    BY <1>0, <2>1, <2>2, Endpoint, ApplySound
  <2>4. UNCHANGED <<env, now, startup, copy, pending, stop>> /\ startup = "done"
    BY <1>4 DEF AdvanceCommittee, LightInv
  <2> QED
    BY <1>0, <2>1, <2>3, <2>4, InstallStep DEF Finish
<1> QED
  BY <1>1, <1>2, <1>3, <1>4 DEF Advance

LEMMA NextInv == LightInv /\ [Next]_vars => LightInv'
<1> SUFFICES ASSUME LightInv, [Next]_vars PROVE LightInv'
  OBVIOUS
<1>0. now \in Slot /\ stop \in {"no", "asked", "joined"} /\ silent \in BOOLEAN
  BY DEF LightInv, TypeOK
<1>1. CASE Startup
  BY <1>1, StartupInv
<1>2. CASE Advance
  BY <1>2, AdvanceInv
<1>3. CASE Refresh
  <2>1. status = "synced"
    BY <1>3 DEF Refresh, Ready, EffectiveStatus
  <2> QED
    BY <1>0, <1>3, <2>1, QuietStep DEF Refresh, Ghosts, env
<1>4. CASE AskStop
  BY <1>0, <1>4, QuietStep DEF AskStop, Ghosts, env
<1>5. CASE Join
  BY <1>0, <1>5, QuietStep DEF Join, Ghosts, env
<1>6. CASE Tick
  <2>1. now' \in Slot
    BY <1>0, <1>6, BeaconAssumption DEF Tick, Slot
  <2> QED
    BY <1>0, <1>6, <2>1, QuietStep DEF Tick, Ghosts, env
<1>7. CASE FallSilent
  BY <1>0, <1>7, QuietStep DEF FallSilent, Ghosts
<1>8. CASE UNCHANGED vars
  BY <1>0, <1>8, QuietStep DEF vars, light, Ghosts, Blameless
<1> QED
  BY <1>1, <1>2, <1>3, <1>4, <1>5, <1>6, <1>7, <1>8 DEF Next

(* The invariant holds of every behaviour of light mode.                   *)
THEOREM LightInvariant == Spec => []LightInv
BY InitInv, NextInv, PTL DEF Spec

(* The variables keep their types, with any beacon chain and endpoint.     *)
THEOREM TypeCorrect == Spec => []TypeOK
<1>1. LightInv => TypeOK
  BY DEF LightInv
<1> QED
  BY <1>1, LightInvariant, PTL

(* The store and the copy being synced always hold the committees of the   *)
(* period of their finalized header and of the next one: applyUpdate       *)
(* rotates them exactly when it finalizes into the next period.            *)
THEOREM CommitteesHold == Spec => []CommitteesMatch
<1>1. LightInv => CommitteesMatch
  BY DEF LightInv, CommitteesMatch, Sound, Matches
<1> QED
  BY <1>1, LightInvariant, PTL

(* A request finds safe, finalized and optimistic head, eth_blockNumber    *)
(* and the retained heads of one and the same sync.                        *)
THEOREM ReadsHold == Spec => []ReadsAgree
<1>1. LightInv => ReadsAgree
  BY DEF LightInv
<1> QED
  BY <1>1, LightInvariant, PTL

-----------------------------------------------------------------------------
(* Nothing shown goes back. *)

Forward ==
  /\ status # "syncing" => status' # "syncing"
  /\ status = "synced" /\ status' = "synced" =>
       /\ store'.fin >= store.fin /\ store'.opt >= store.opt /\ head' >= head
       /\ \A n \in retained : n >= Low(head') => n \in retained'

LEMMA InstallForward ==
  ASSUME LightInv, status = "synced", NEW s, Sound(s), s.fin >= store.fin,
         s.opt >= store.opt, Install(s)
  PROVE  Forward
<1>1. /\ s.opt \in Nat /\ store.opt \in Nat /\ head \in Nat /\ retained \subseteq Nat
      /\ head <= store.opt /\ \A n \in retained : n <= head
  BY DEF LightInv, TypeOK, Sound, Store
<1>2. /\ status' = "synced" /\ store' = s /\ head' = s.opt /\ retained' = RecordHeads(s)
  BY DEF Install
<1>3. \A n \in retained : n <= s.opt
  BY <1>1
<1>4. \A n \in retained : n >= Low(s.opt) => n \in RecordHeads(s)
  <2>1. Low(s.opt) \in Int
    BY <1>1, BeaconAssumption DEF Low
  <2> QED
    BY <1>1, <1>3, <2>1 DEF RecordHeads
<1>5. s.opt >= head
  BY <1>1
<1> QED
  BY <1>2, <1>4, <1>5 DEF Forward

LEMMA AdvanceForward == LightInv /\ Advance => Forward
<1> SUFFICES ASSUME LightInv, Advance PROVE Forward
  OBVIOUS
<1>0. /\ Sound(store) /\ TypeOK /\ status = "synced"
      /\ store.fin \in Nat /\ store.opt \in Nat /\ head \in Nat
  <2>1. job # "none"
    BY DEF Advance, AdvanceCallFails, AdvanceFinality, AdvanceOptimistic, AdvanceCommittee
  <2> QED
    BY <2>1 DEF LightInv, TypeOK, Sound, Store
<1>1. \A t \in Views : \A u :
        (u = FinalityUpdate(t) \/ u = OptimisticUpdate(t)
          \/ u \in CommitteeUpdates(Period(store.fin), t)) /\ Verify(u, store, now)
        => /\ Sound(Apply(u, store)) /\ Apply(u, store).fin >= store.fin
           /\ Apply(u, store).opt >= store.opt
  <2>1. Period(store.fin) \in Nat
    BY <1>0, PeriodBounds
  <2> QED
    BY <1>0, <2>1, Endpoint, ApplySound
<1>2. ASSUME Failed PROVE Forward
  BY <1>2 DEF Failed, Forward
<1>3. ASSUME NEW s, Sound(s), s.fin >= store.fin, s.opt >= store.opt, Install(s)
      PROVE  Forward
  BY <1>0, <1>3, InstallForward
<1>4. ASSUME store'.fin >= store.fin, store'.opt >= store.opt,
             UNCHANGED <<status, safe, head, retained>>
      PROVE  Forward
  BY <1>0, <1>4 DEF Forward
<1>5. CASE AdvanceCallFails
  BY <1>2, <1>5 DEF AdvanceCallFails
<1>6. CASE AdvanceFinality
  BY <1>1, <1>2, <1>4, <1>6 DEF AdvanceFinality
<1>7. CASE AdvanceOptimistic
  BY <1>1, <1>2, <1>3, <1>4, <1>7 DEF AdvanceOptimistic, Finish
<1>8. CASE AdvanceCommittee
  <2>1. PICK t \in Views :
          \/ Finish(store)
          \/ \E u \in CommitteeUpdates(Period(store.fin), t) :
               Finish(IF Verify(u, store, now) THEN Apply(u, store) ELSE store)
    BY <1>8 DEF AdvanceCommittee
  <2>2. store.fin >= store.fin /\ store.opt >= store.opt
    BY <1>0
  <2>3. PICK s : Sound(s) /\ s.fin >= store.fin /\ s.opt >= store.opt /\ Install(s)
    BY <1>0, <1>1, <2>1, <2>2 DEF Finish
  <2> QED
    BY <1>3, <2>3
<1> QED
  BY <1>5, <1>6, <1>7, <1>8 DEF Advance

(* A ready node never shows an older head than it has shown, and forgets   *)
(* none before it leaves the window.                                       *)
THEOREM NothingGoesBack == Spec => NeverBackwards
<1>1. LightInv /\ [Next]_vars => [Forward]_vars
  <2> SUFFICES ASSUME LightInv, Next PROVE Forward
    BY DEF Forward
  <2>1. CASE Startup
    <3>1. status = "syncing"
      BY <2>1 DEF LightInv, Startup, Begin, TakeSnapshot, SyncCallFails, Bootstrap,
         FetchUpdates, SyncUpdate, SyncUpdatesDone, SyncFinality, SyncOptimistic,
         CheckStop, Commit, StartupFails
    <3> QED
      BY <3>1 DEF Forward
  <2>2. CASE Advance
    BY <2>2, AdvanceForward
  <2>3. CASE Refresh \/ AskStop \/ Join \/ FallSilent \/ Tick
    <3>1. UNCHANGED light
      BY <2>3 DEF Refresh, AskStop, Join, FallSilent, Tick
    <3>2. store.fin \in Nat /\ store.opt \in Nat /\ head \in Nat
      BY DEF LightInv, TypeOK, Store
    <3> QED
      BY <3>1, <3>2 DEF Forward, light
  <2> QED
    BY <2>1, <2>2, <2>3 DEF Next
<1>2. NeverBackwards <=> [][Forward]_vars
  BY PTL DEF NeverBackwards, Forward
<1> QED
  BY <1>1, <1>2, LightInvariant, PTL DEF Spec

-----------------------------------------------------------------------------
(* Errors have causes.  First where the periods begin.                    *)

LEMMA FirstSlots ==
  ASSUME NEW p \in Nat
  PROVE  /\ First(p) \in Nat /\ First(p + 1) \in Nat
         /\ First(p + 1) = First(p) + PeriodLength
         /\ First(p + 2) = First(p) + PeriodLength + PeriodLength
BY StoreAssumption DEF First

LEMMA FirstGrows ==
  ASSUME NEW p \in Nat, NEW q \in Nat, p <= q
  PROVE  First(p) <= First(q)
<1>1. PICK d \in Nat : q = p + d
  <2>1. q - p \in Nat /\ q = p + (q - p)
    OBVIOUS
  <2> QED
    BY <2>1
<1>2. PeriodLength * q = PeriodLength * p + PeriodLength * d
  BY <1>1, StoreAssumption
<1>3. PeriodLength * d \in Nat /\ PeriodLength * p \in Nat
  BY StoreAssumption
<1> QED
  BY <1>2, <1>3 DEF First

LEMMA FirstBounds ==
  ASSUME NEW n \in Nat
  PROVE  /\ Period(n) \in Nat /\ First(Period(n)) \in Nat
         /\ First(Period(n)) <= n /\ n < First(Period(n) + 1)
         /\ First(Period(n) + 1) = First(Period(n)) + PeriodLength
<1>1. /\ Period(n) \in Nat
      /\ First(Period(n)) <= n
      /\ n < First(Period(n)) + PeriodLength
  BY PeriodBounds DEF First
<1> QED
  BY <1>1, FirstSlots

LEMMA InPeriod ==
  ASSUME NEW n \in Nat, NEW p \in Nat, First(p) <= n, n < First(p + 1)
  PROVE  Period(n) = p
<1> DEFINE q == Period(n)
<1>1. /\ q \in Nat /\ First(q) \in Nat /\ First(q + 1) \in Nat
      /\ First(q) <= n /\ n < First(q + 1)
      /\ First(p) \in Nat /\ First(p + 1) \in Nat
  BY FirstBounds, FirstSlots
<1> HIDE DEF q
<1>2. ~(q < p)
  <2> SUFFICES ASSUME q < p PROVE FALSE
    OBVIOUS
  <2>1. q + 1 \in Nat /\ q + 1 <= p
    BY <1>1
  <2>2. First(q + 1) <= First(p)
    BY <2>1, FirstGrows
  <2> QED
    BY <1>1, <2>2
<1>3. ~(p < q)
  <2> SUFFICES ASSUME p < q PROVE FALSE
    OBVIOUS
  <2>1. p + 1 \in Nat /\ p + 1 <= q
    BY <1>1
  <2>2. First(p + 1) <= First(q)
    BY <1>1, <2>1, FirstGrows
  <2> QED
    BY <1>1, <2>2
<1> QED
  BY <1>1, <1>2, <1>3 DEF q

-----------------------------------------------------------------------------
(* What an update of the endpoint does to a store it is verified against.  *)

(* A store that knows its committee and was last synced at h.  A next      *)
(* committee is missing only early in its period, and the period after the *)
(* next one is still some time away.                                       *)
Knows(s, h, t, without, with) ==
  /\ s.current # None
  /\ s.fin < t - 1
  /\ s.next = None => h <= First(Period(s.fin)) + MaxLag + without
  /\ s.next # None => h <= First(Period(s.fin) + 1) + MaxLag + with

(* A call within MaxIdle of h is in a period whose committee is known.     *)
LEMMA InTime ==
  ASSUME Favourable, NEW s, Sound(s), NEW h \in Nat, NEW t \in Nat, h <= t, t - h <= MaxIdle,
         Knows(s, h, t, MaxIdle, MaxIdle)
  PROVE  /\ Period(t) \in Nat /\ Period(s.fin) \in Nat
         /\ s.next = None => Period(t) = Period(s.fin)
         /\ s.next # None => Period(t) \in {Period(s.fin), Period(s.fin) + 1}
         /\ s.next = None => t + 2 <= First(Period(s.fin) + 1)
         /\ s.next # None => t + 2 <= First(Period(s.fin) + 2)
<1> DEFINE p == Period(s.fin)
<1>1. /\ s.fin \in Nat /\ s.fin < t
      /\ MaxIdle \in Nat /\ MaxLag \in Nat /\ PeriodLength \in Nat
      /\ 2 * MaxIdle + MaxLag + 2 <= PeriodLength
  BY BeaconAssumption, StoreAssumption DEF Sound, Store, Knows, Favourable, AskedInTime
<1>2. /\ p \in Nat /\ First(p) \in Nat /\ First(p) <= s.fin /\ p + 1 \in Nat
      /\ First(p + 1) = First(p) + PeriodLength
      /\ First(p + 2) = First(p) + PeriodLength + PeriodLength
      /\ (p + 1) + 1 = p + 2
  <2>1. p \in Nat /\ First(p) \in Nat /\ First(p) <= s.fin
    BY <1>1, FirstBounds
  <2> HIDE DEF p
  <2>2. p + 1 \in Nat /\ (p + 1) + 1 = p + 2
    BY <2>1
  <2> QED
    BY <2>1, <2>2, FirstSlots
<1>3. /\ s.next = None => h <= First(p) + MaxLag + MaxIdle
      /\ s.next # None => h <= First(p + 1) + MaxLag + MaxIdle
  BY DEF Knows
<1> HIDE DEF p
<1>4. /\ s.next = None => t + 2 <= First(p + 1)
      /\ s.next # None => t + 2 <= First(p + 2)
  BY <1>1, <1>2, <1>3
<1>5. First(p) <= t
  BY <1>1, <1>2
<1>6. t < First(p + 1) => Period(t) = p
  BY <1>2, <1>5, InPeriod
<1>7. First(p + 1) <= t /\ t < First(p + 2) => Period(t) = p + 1
  BY <1>2, InPeriod
<1>8. Period(t) \in Nat
  BY FirstBounds
<1> QED
  BY <1>1, <1>2, <1>4, <1>6, <1>7, <1>8 DEF p

(* The endpoint's newest header is accepted in such a period.              *)
LEMMA NewestVerifies ==
  ASSUME NEW s, Sound(s), s.current # None, NEW t \in Nat, s.fin < t - 1,
         NEW f \in Nat \cup {None}, f # None => f <= t - 1,
         \/ Period(t) = Period(s.fin)
         \/ s.next # None /\ Period(t) = Period(s.fin) + 1
  PROVE  Verify(Update(t - 1, f, None), s, t)
<1> DEFINE u == Update(t - 1, f, None)
<1>1. /\ u.att = t - 1 /\ u.sig = t /\ u.fin = f /\ u.next = None
      /\ u.by = Period(t) /\ u.signers \in Nat /\ u.signers > 0
  BY StoreAssumption DEF Update, Signers
<1>2. /\ s.fin \in Nat /\ s.current = Period(s.fin) /\ s.next \in {None, Period(s.fin) + 1}
      /\ Period(s.fin) \in Nat /\ Period(t) \in Nat
  BY PeriodBounds DEF Sound, Matches, Store
<1> HIDE DEF u
<1>3. ValidTime(u, t)
  BY <1>1, <1>2 DEF ValidTime, FinalizedSlot
<1>4. ValidPeriod(u, s) /\ Relevant(u, s) /\ AgreesOnNext(u, s)
  BY <1>1, <1>2 DEF ValidPeriod, Relevant, AgreesOnNext
<1>5. SigningCommittee(u, s) = u.by
  BY <1>1, <1>2 DEF SigningCommittee
<1> QED
  BY <1>1, <1>3, <1>4, <1>5 DEF Verify, u

(* A newest header changes the committees only by taking them into the     *)
(* next period; the optimistic header is left out here.                    *)
LEMMA FinalityApplied ==
  ASSUME NEW u, NEW s, NEW t, Offered(u), Sound(s), Verify(u, s, t), s.current # None,
         u.next = None, u.fin # None
  PROVE  LET r == Apply(u, s) IN
         /\ r.current # None
         /\ \/ /\ r.fin = s.fin /\ r.next = s.next
               /\ ~(Majority(u.signers) /\ u.fin > s.fin)
            \/ /\ r.fin = u.fin /\ r.next = s.next
               /\ Period(u.fin) = Period(s.fin)
            \/ /\ r.fin = u.fin /\ s.next # None /\ r.next = None
               /\ Period(u.fin) = Period(s.fin) + 1
<1> DEFINE seen == Seen(u, s)
<1>1. /\ Sound(seen) /\ seen.fin = s.fin /\ seen.next = s.next
      /\ seen.current = s.current /\ seen \in Store
  BY SeenSound DEF Sound
<1>2. Verify(u, seen, t)
  BY <1>1 DEF Verify, ValidPeriod, Relevant, AgreesOnNext, SigningCommittee
<1>3. /\ FinalizedSlot(u) = u.fin /\ u.fin \in Nat /\ s.fin \in Nat
  BY DEF FinalizedSlot, Offered, Updates, Sound, Store
<1>4. ShouldApply(u, seen) <=> Majority(u.signers) /\ u.fin > s.fin
  BY <1>1, <1>3 DEF ShouldApply
<1>5. CASE ~ShouldApply(u, seen)
  <2>1. Apply(u, s) = seen
    BY <1>5 DEF Apply
  <2> QED
    BY <1>1, <1>4, <1>5, <2>1
<1>6. CASE ShouldApply(u, seen)
  <2>1. u.fin > s.fin
    BY <1>4, <1>6
  <2>2. /\ Period(s.fin) \in Nat /\ Period(u.fin) \in Nat
        /\ Period(s.fin) <= Period(u.fin) /\ Period(u.fin) <= Period(s.fin) + 1
        /\ s.next = None => Period(u.fin) <= Period(s.fin)
    BY <1>3, <2>1, UpdatePeriods
  <2>3. seen.next = None => Learns(u, seen)
    BY <1>1, <1>3, <2>2 DEF Learns
  <2>4. Apply(u, s) = Finalize(u, Committees(u, seen))
    BY <1>6, <2>3 DEF Apply, ApplyNoQuorumCheck
  <2> DEFINE c == Committees(u, seen)
  <2>5. c \in Store /\ c.fin = s.fin
    BY <1>1, <1>2, CommitteesSound
  <2> HIDE DEF c
  <2>6. /\ Finalize(u, c).fin = u.fin /\ Finalize(u, c).next = c.next
        /\ Finalize(u, c).current = c.current
    BY <1>3, <2>1, <2>5 DEF Finalize, Store
  <2>7. CASE s.next = None
    <3>1. c = [seen EXCEPT !.next = None]
      BY <1>1, <2>3, <2>7 DEF c, Committees
    <3>2. c.next = s.next /\ c.current = s.current
      BY <1>1, <2>7, <3>1 DEF Store
    <3>3. Period(u.fin) = Period(s.fin)
      BY <2>2, <2>7
    <3> QED
      BY <2>4, <2>6, <3>2, <3>3 DEF c
  <2>8. CASE s.next # None /\ Period(u.fin) = Period(s.fin)
    <3>1. c = seen
      BY <1>1, <1>3, <2>2, <2>8 DEF c, Committees, Learns, Rotates
    <3> QED
      BY <1>1, <2>4, <2>6, <2>8, <3>1 DEF c
  <2>9. CASE s.next # None /\ Period(u.fin) = Period(s.fin) + 1
    <3>1. c = [seen EXCEPT !.current = seen.next, !.next = None, !.mostBefore = seen.most,
                           !.most = 0]
      BY <1>1, <1>3, <2>9 DEF c, Committees, Learns, Rotates
    <3>2. c.next = None /\ c.current = s.next
      BY <1>1, <3>1 DEF Store
    <3> QED
      BY <2>4, <2>6, <2>9, <3>2 DEF c
  <2> QED
    BY <2>2, <2>7, <2>8, <2>9
<1> QED
  BY <1>5, <1>6

LEMMA OptimisticApplied ==
  ASSUME NEW u, NEW s, Offered(u), Sound(s), u.next = None, u.fin = None
  PROVE  /\ Apply(u, s).fin = s.fin /\ Apply(u, s).next = s.next
         /\ Apply(u, s).current = s.current
<1> DEFINE seen == Seen(u, s)
<1>1. seen.fin = s.fin /\ seen.next = s.next /\ seen.current = s.current
  BY SeenSound
<1>2. FinalizedSlot(u) = 0 /\ s.fin \in Nat
  BY DEF FinalizedSlot, Sound, Store
<1>3. ~ShouldApply(u, seen)
  BY <1>1, <1>2 DEF ShouldApply
<1>4. Apply(u, s) = seen
  BY <1>3 DEF Apply
<1> QED
  BY <1>1, <1>4

(* An update for a period teaches the next committee when it is settled    *)
(* and signed by most; else it leaves the store in its period.             *)
LEMMA CommitteeApplied ==
  ASSUME NEW u, NEW s, NEW t, Offered(u), Sound(s), Verify(u, s, t), s.current # None,
         u.next # None, u.fin # None,
         \/ s.next = None /\ Period(u.att) = Period(s.fin)
         \/ s.next # None /\ Period(u.att) = Period(s.fin) + 1
  PROVE  LET r == Apply(u, s) IN
         /\ r.current # None
         /\ r.fin = s.fin \/ r.fin = u.fin
         /\ \/ Period(r.fin) = Period(s.fin) /\ r.next = s.next
            \/ Period(r.fin) = Period(u.att) /\ r.next # None
         /\ Majority(u.signers) /\ Period(u.fin) = Period(u.att) =>
              Period(r.fin) = Period(u.att) /\ r.next # None
<1> DEFINE seen == Seen(u, s)
           p == Period(s.fin)
           q == Period(u.att)
           f == Period(u.fin)
           c == Committees(u, seen)
<1>1. /\ Sound(seen) /\ seen.fin = s.fin /\ seen.next = s.next
      /\ seen.current = s.current /\ seen \in Store
  BY SeenSound DEF Sound
<1>2. Verify(u, seen, t)
  BY <1>1 DEF Verify, ValidPeriod, Relevant, AgreesOnNext, SigningCommittee
<1>3. /\ FinalizedSlot(u) = u.fin /\ u.fin \in Nat /\ s.fin \in Nat
  BY DEF FinalizedSlot, Offered, Updates, Sound, Store
<1>4. /\ p \in Nat /\ q \in Nat /\ f \in Nat /\ f <= q
      /\ s.fin <= u.fin => p <= f
      /\ u.fin <= s.fin => f <= p
  BY <1>3, UpdatePeriods
<1>5. ShouldApply(u, seen) <=>
        /\ Majority(u.signers)
        /\ u.fin > s.fin \/ (s.next = None /\ f = q)
  BY <1>1, <1>3 DEF ShouldApply
<1>6. \/ s.next = None /\ q = p
      \/ s.next # None /\ q = p + 1
  OBVIOUS
<1>7. /\ Learns(u, seen) <=> s.next = None /\ f = p
      /\ Rotates(u, seen) <=> s.next # None /\ f = p + 1
  BY <1>1, <1>3 DEF Learns, Rotates
<1>8. u.fin > s.fin \/ u.fin <= s.fin
  BY <1>3
<1>9. CASE ~ShouldApply(u, seen)
  <2>1. Apply(u, s) = seen
    BY <1>9 DEF Apply
  <2>2. ~(Majority(u.signers) /\ f = q)
    <3> HIDE DEF p, q, f
    <3> QED
      BY <1>4, <1>5, <1>6, <1>8, <1>9
  <2> QED
    BY <1>1, <2>1, <2>2
<1>10. CASE ShouldApply(u, seen)
  <2>1. Majority(u.signers) /\ (u.fin > s.fin \/ (s.next = None /\ f = q))
    BY <1>5, <1>10
  <2>2. seen.next = None => Learns(u, seen)
    <3> HIDE DEF p, q, f
    <3> QED
      BY <1>1, <1>3, <1>4, <1>6, <1>7, <2>1
  <2>3. Apply(u, s) = Finalize(u, c)
    BY <1>10, <2>2 DEF Apply, ApplyNoQuorumCheck
  <2>4. c \in Store /\ c.fin = s.fin
    BY <1>1, <1>2, CommitteesSound
  <2> HIDE DEF c
  <2>5. /\ Finalize(u, c).next = c.next /\ Finalize(u, c).current = c.current
        /\ Finalize(u, c).fin = IF u.fin > s.fin THEN u.fin ELSE s.fin
    <3>1. CASE u.fin > s.fin
      BY <1>3, <2>4, <3>1 DEF Finalize, Store
    <3>2. CASE ~(u.fin > s.fin)
      <4>1. Finalize(u, c) = c
        BY <1>3, <2>4, <3>2 DEF Finalize
      <4> QED
        BY <2>4, <3>2, <4>1
    <3> QED
      BY <3>1, <3>2
  <2>6. CASE s.next = None
    <3>1. Learns(u, seen) /\ f = p /\ q = p
      BY <1>1, <1>6, <1>7, <2>2, <2>6
    <3>2. c = [seen EXCEPT !.next = u.next]
      BY <3>1 DEF c, Committees
    <3>3. c.next # None /\ c.current = s.current
      BY <1>1, <3>2 DEF Store
    <3> QED
      BY <2>3, <2>5, <3>1, <3>3
  <2>7. CASE s.next # None /\ f = q
    <3>1. ~Learns(u, seen) /\ Rotates(u, seen) /\ q = p + 1
      BY <1>6, <1>7, <2>7
    <3>2. c = [seen EXCEPT !.current = seen.next, !.next = u.next, !.mostBefore = seen.most,
                           !.most = 0]
      BY <3>1 DEF c, Committees
    <3>3. c.next # None /\ c.current # None
      BY <1>1, <2>7, <3>2 DEF Store
    <3>4. u.fin > s.fin
      BY <2>1, <2>7
    <3> QED
      BY <2>3, <2>5, <2>7, <3>3, <3>4
  <2>8. CASE s.next # None /\ f # q
    <3>1. u.fin > s.fin
      BY <2>1, <2>8
    <3>2. f = p
      <4> HIDE DEF p, q, f
      <4> QED
        BY <1>3, <1>4, <1>6, <2>8, <3>1
    <3>3. c = seen
      BY <1>4, <1>7, <2>8, <3>2 DEF c, Committees
    <3> QED
      BY <1>1, <2>3, <2>5, <2>8, <3>1, <3>2, <3>3
  <2> QED
    BY <2>6, <2>7, <2>8
<1> QED
  BY <1>9, <1>10

-----------------------------------------------------------------------------
(* What the endpoint has for a period. *)

(* The slots whose headers it can choose from at t, and the updates.       *)
Choice(p, t) == {a \in Slot : a < t /\ Period(a) = p /\ Period(a + 1) = p}
Of(a, p) == Update(a, chain.fin[a], p + 1)

LEMMA UpdatesOf ==
  ASSUME TypeOK, NEW p \in Nat, NEW t
  PROVE  /\ \A u \in CommitteeUpdates(p, t) : \E a \in Choice(p, t) : u = Of(a, p)
         /\ \A u \in CommitteeUpdates(p, t) : \A a \in Choice(p, t) :
              u # Of(a, p) => Better(u, Of(a, p))
         /\ \A a \in Choice(p, t) :
              (\A b \in Choice(p, t) : Of(b, p) # Of(a, p) => Better(Of(a, p), Of(b, p)))
                => Of(a, p) \in CommitteeUpdates(p, t)
BY DEF CommitteeUpdates, Choice, Of

LEMMA FieldsOf ==
  ASSUME TypeOK, Favourable, NEW p \in Nat, NEW a \in Slot, Period(a) = p
  PROVE  /\ a \in Nat /\ Of(a, p).att = a /\ Of(a, p).sig = a + 1
         /\ Of(a, p).fin = chain.fin[a] /\ Of(a, p).next = p + 1
         /\ Of(a, p).by = Period(a + 1) /\ Of(a, p).signers = Signers(a)
         /\ chain.fin[a] \in Nat /\ chain.fin[a] <= a /\ a - chain.fin[a] <= MaxLag
         /\ a # 0 => chain.fin[a] < a
         /\ Signers(a) \in Nat /\ Signers(a) > 0
         /\ Offered(Of(a, p))
<1>1. /\ chain \in Chains /\ chain.fin \in [Slot -> Slot] /\ a \in Nat
      /\ chain.fin[a] \in Nat /\ chain.fin[a] <= a /\ a - chain.fin[a] <= MaxLag
      /\ a # 0 => chain.fin[a] < a
  <2>1. chain \in Chains /\ a \in Nat /\ (a # 0 => a \in Slot \ {0})
    BY BeaconAssumption DEF TypeOK, Slot
  <2>2. chain.fin \in [Slot -> Slot] /\ chain.fin[a] <= a /\ a - chain.fin[a] <= MaxLag
    BY <2>1, BeaconAssumption
  <2>3. chain.fin[a] \in Nat
    BY <2>2, BeaconAssumption DEF Slot
  <2>4. a # 0 => chain.fin[a] < a
    BY <2>1 DEF Favourable, ChainsAreWell
  <2> QED
    BY <2>1, <2>2, <2>3, <2>4
<1>2. Signers(a) \in Nat /\ Signers(a) > 0
  BY StoreAssumption DEF Signers
<1>3. Period(a + 1) \in Nat
  BY <1>1, PeriodBounds
<1>4. /\ Of(a, p).att = a /\ Of(a, p).sig = a + 1
      /\ Of(a, p).fin = chain.fin[a] /\ Of(a, p).next = p + 1
      /\ Of(a, p).by = Period(a + 1) /\ Of(a, p).signers = Signers(a)
  BY DEF Of, Update
<1>5. Of(a, p) \in Updates
  BY <1>1, <1>2, <1>3 DEF Of, Update, Updates, Committee
<1> QED
  BY <1>1, <1>2, <1>4, <1>5 DEF Offered

(* A slot between the first and the last of its period gives an update     *)
(* that most have signed, and that is settled.                             *)
LEMMA GoodSlot ==
  ASSUME TypeOK, Favourable, NEW p \in Nat, NEW a \in Slot,
         First(p) + MaxLag <= a, a + 2 <= First(p + 1)
  PROVE  /\ Period(a) = p /\ Period(a + 1) = p /\ Period(chain.fin[a]) = p
         /\ Majority(Signers(a))
<1>1. /\ a \in Nat /\ a + 1 \in Nat /\ MaxLag \in Nat /\ PeriodLength \in Nat
      /\ First(p) \in Nat /\ First(p + 1) = First(p) + PeriodLength
      /\ chain \in Chains
  <2>1. MaxLag \in Nat /\ PeriodLength \in Nat /\ a \in Nat /\ chain \in Chains
    BY BeaconAssumption, StoreAssumption DEF Slot, TypeOK
  <2> QED
    BY <2>1, FirstSlots
<1>2. /\ First(p) <= a /\ a < First(p + 1)
      /\ First(p) <= a + 1 /\ a + 1 < First(p + 1)
  BY <1>1
<1>3. Period(a) = p /\ Period(a + 1) = p
  BY <1>1, <1>2, InPeriod
<1>4. /\ chain.fin[a] \in Nat /\ chain.fin[a] <= a /\ a - chain.fin[a] <= MaxLag
  BY <1>3, FieldsOf
<1>5. First(p) <= chain.fin[a] /\ chain.fin[a] < First(p + 1)
  BY <1>1, <1>4
<1>6. Period(chain.fin[a]) = p
  BY <1>4, <1>5, InPeriod
<1>7. a - First(p) \in MaxLag..(PeriodLength - 2)
  BY <1>1
<1>8. a \notin chain.quiet
  BY <1>1, <1>3, <1>7 DEF Favourable, ChainsAreWell
<1>9. Majority(Signers(a))
  BY <1>8, StoreAssumption DEF Signers, Majority
<1> QED
  BY <1>3, <1>6, <1>9

LEMMA FirstGood ==
  ASSUME Favourable, NEW p \in Nat, NEW t \in Nat, t <= MaxSlot, First(p) + MaxLag < t
  PROVE  /\ First(p) + MaxLag \in Slot /\ First(p) + MaxLag <= First(p) + MaxLag
         /\ First(p) + MaxLag + 2 <= First(p + 1)
<1>1. /\ MaxLag \in Nat /\ MaxIdle \in Nat /\ MaxSlot \in Nat /\ PeriodLength \in Nat
      /\ 2 * MaxIdle + MaxLag + 2 <= PeriodLength
  BY BeaconAssumption, StoreAssumption DEF Favourable, AskedInTime
<1>2. First(p) \in Nat /\ First(p + 1) = First(p) + PeriodLength
  BY FirstSlots
<1> QED
  BY <1>1, <1>2 DEF Slot

(* From the first such slot on, what is offered is settled and signed by   *)
(* most ...                                                                *)
LEMMA BestIsSettled ==
  ASSUME TypeOK, Favourable, NEW p \in Nat, NEW t \in Nat, t <= MaxSlot,
         First(p) + MaxLag < t, NEW u \in CommitteeUpdates(p, t)
  PROVE  Majority(u.signers) /\ Settled(u)
<1> DEFINE g == First(p) + MaxLag
<1>1. /\ g \in Slot /\ g < t /\ First(p) + MaxLag <= g /\ g + 2 <= First(p + 1)
  BY FirstGood
<1> HIDE DEF g
<1>2. /\ Period(g) = p /\ Period(g + 1) = p /\ Period(chain.fin[g]) = p
      /\ Majority(Signers(g))
  BY <1>1, GoodSlot
<1>3. g \in Choice(p, t)
  BY <1>1, <1>2 DEF Choice
<1>4. Majority(Of(g, p).signers) /\ Settled(Of(g, p))
  BY <1>1, <1>2, FieldsOf DEF Settled
<1>5. u = Of(g, p) \/ Better(u, Of(g, p))
  BY <1>3, UpdatesOf
<1> QED
  BY <1>4, <1>5 DEF Better

(* ... and there is something on offer, the first of these.                *)
LEMMA LeastSlot ==
  ASSUME NEW T \in SUBSET Nat, T # {}
  PROVE  \E n \in T : \A m \in T : n <= m
<1> DEFINE R == OpToRel(<, Nat)
<1>1. \E n \in T : \A m \in T : ~(<<m, n>> \in R)
  BY NatLessThanWellFounded, WFMin
<1>2. PICK n \in T : \A m \in T : ~(<<m, n>> \in R)
  BY <1>1
<1>3. \A m \in T : ~(m < n)
  BY <1>2 DEF OpToRel
<1>4. \A m \in T : n <= m
  BY <1>3
<1> QED
  BY <1>4

LEMMA BestExists ==
  ASSUME TypeOK, Favourable, NEW p \in Nat, NEW t \in Nat, t <= MaxSlot,
         First(p) + MaxLag < t
  PROVE  CommitteeUpdates(p, t) # {}
<1> DEFINE g == First(p) + MaxLag
           T == {a \in Choice(p, t) : Majority(Of(a, p).signers) /\ Settled(Of(a, p))}
<1>1. /\ g \in Slot /\ g < t /\ First(p) + MaxLag <= g /\ g + 2 <= First(p + 1)
  BY FirstGood
<1> HIDE DEF g
<1>2. /\ Period(g) = p /\ Period(g + 1) = p /\ Period(chain.fin[g]) = p
      /\ Majority(Signers(g))
  BY <1>1, GoodSlot
<1>3. g \in Choice(p, t)
  BY <1>1, <1>2 DEF Choice
<1>4. Majority(Of(g, p).signers) /\ Settled(Of(g, p))
  BY <1>1, <1>2, FieldsOf DEF Settled
<1>5. T \in SUBSET Nat /\ g \in T
  BY <1>3, <1>4 DEF Choice, Slot
<1>6. PICK a \in T : \A b \in T : a <= b
  <2> HIDE DEF T
  <2> QED
    BY <1>5, LeastSlot
<1>7. a \in Choice(p, t) /\ Majority(Of(a, p).signers) /\ Settled(Of(a, p))
  BY <1>6
<1>8. ASSUME NEW b \in Choice(p, t), Of(b, p) # Of(a, p)
      PROVE  Better(Of(a, p), Of(b, p))
  <2>1. /\ a \in Nat /\ b \in Nat /\ a # b
        /\ Of(a, p).att = a /\ Of(b, p).att = b
    BY <1>7, <1>8, FieldsOf DEF Choice
  <2>2. CASE b \in T
    <3>1. a < b
      BY <1>6, <2>1, <2>2
    <3> QED
      BY <1>7, <2>1, <2>2, <3>1 DEF Better
  <2>3. CASE b \notin T
    BY <1>7, <1>8, <2>3 DEF Better
  <2> QED
    BY <2>2, <2>3
<1> QED
  BY <1>7, <1>8, UpdatesOf

(* There is one update for a period, as two would each be better.          *)
LEMMA BestIsOne ==
  ASSUME TypeOK, Favourable, NEW p \in Nat, NEW t,
         NEW u \in CommitteeUpdates(p, t), NEW v \in CommitteeUpdates(p, t)
  PROVE  u = v
<1> SUFFICES ASSUME u # v PROVE FALSE
  OBVIOUS
<1>1. PICK a \in Choice(p, t) : u = Of(a, p)
  BY UpdatesOf
<1>2. PICK b \in Choice(p, t) : v = Of(b, p)
  BY UpdatesOf
<1>3. u.att \in Nat /\ v.att \in Nat
  BY <1>1, <1>2, FieldsOf DEF Choice
<1>4. Better(u, v) /\ Better(v, u)
  BY <1>1, <1>2, UpdatesOf
<1> QED
  BY <1>3, <1>4 DEF Better

-----------------------------------------------------------------------------
(* An endpoint that is not behind is never refused. *)

(* The update of a period verifies when its committee is the one that is   *)
(* due.                                                                    *)
LEMMA CommitteeVerifies ==
  ASSUME TypeOK, Favourable, NEW s, Sound(s), s.current # None, NEW q \in Nat,
         \/ s.next = None /\ q = Period(s.fin)
         \/ s.next # None /\ q = Period(s.fin) + 1,
         NEW h \in Nat, NEW t \in Nat, h <= t, NEW u \in CommitteeUpdates(q, h)
  PROVE  /\ Verify(u, s, t) /\ Offered(u) /\ u.next # None
         /\ Period(u.att) = q /\ u.att \in Nat
         /\ u.fin \in Nat /\ u.fin # None /\ (u.fin = 0 \/ u.fin < h - 1)
<1>1. PICK a \in Choice(q, h) : u = Of(a, q)
  BY UpdatesOf
<1>2. a \in Slot /\ a < h /\ Period(a) = q /\ Period(a + 1) = q
  BY <1>1 DEF Choice
<1>3. /\ a \in Nat /\ u.att = a /\ u.sig = a + 1 /\ u.next = q + 1 /\ u.by = q
      /\ u.fin \in Nat /\ u.fin <= a /\ (a # 0 => u.fin < a)
      /\ u.signers > 0 /\ Offered(u) /\ u.fin # None
  BY <1>1, <1>2, FieldsOf, StoreAssumption
<1>4. /\ s.fin \in Nat /\ Period(s.fin) \in Nat
      /\ s.current = Period(s.fin) /\ s.next \in {None, Period(s.fin) + 1}
  BY PeriodBounds DEF Sound, Matches, Store
<1>5. u.next # None
  BY <1>3, StoreAssumption
<1>6. s.next # None => u.att > s.fin
  <2> SUFFICES ASSUME s.next # None, a <= s.fin PROVE FALSE
    BY <1>3, <1>4
  <2>1. Period(a) <= Period(s.fin)
    BY <1>3, <1>4, PeriodMonotone
  <2> QED
    BY <1>2, <1>4, <2>1
<1>7. ValidTime(u, t)
  BY <1>2, <1>3 DEF ValidTime, FinalizedSlot
<1>8. ValidPeriod(u, s) /\ Relevant(u, s) /\ AgreesOnNext(u, s)
  BY <1>2, <1>3, <1>4, <1>5, <1>6 DEF ValidPeriod, Relevant, AgreesOnNext
<1>9. SigningCommittee(u, s) = u.by
  BY <1>2, <1>3, <1>4 DEF SigningCommittee
<1>10. u.fin = 0 \/ u.fin < h - 1
  BY <1>2, <1>3
<1> QED
  BY <1>2, <1>3, <1>5, <1>7, <1>8, <1>9, <1>10 DEF Verify

(* The newest headers of the endpoint.                                     *)
LEMMA NewestFields ==
  ASSUME TypeOK, Favourable, now > 1
  PROVE  /\ now \in Nat /\ now \in Views
         /\ chain.fin[now - 1] \in Nat /\ chain.fin[now - 1] < now - 1
         /\ now - 1 - chain.fin[now - 1] <= MaxLag
         /\ Offered(FinalityUpdate(now)) /\ Offered(OptimisticUpdate(now))
         /\ FinalityUpdate(now) = Update(now - 1, chain.fin[now - 1], None)
         /\ FinalityUpdate(now).fin = chain.fin[now - 1] /\ FinalityUpdate(now).next = None
         /\ FinalityUpdate(now).signers = Signers(now - 1)
         /\ OptimisticUpdate(now) = Update(now - 1, None, None)
         /\ OptimisticUpdate(now).fin = None /\ OptimisticUpdate(now).next = None
<1>1. now \in Nat /\ now - 1 \in Slot /\ now - 1 # 0
  BY BeaconAssumption DEF TypeOK, Slot
<1>2. now \in Views
  <2>1. 0 \in Behind /\ 0 < now /\ now - 0 = now
    BY <1>1, BeaconAssumption
  <2> QED
    BY <2>1 DEF Views
<1>3. Period(now - 1) \in Nat
  BY <1>1, PeriodBounds
<1>4. /\ chain.fin[now - 1] \in Nat /\ chain.fin[now - 1] < now - 1
      /\ now - 1 - chain.fin[now - 1] <= MaxLag
  BY <1>1, <1>3, FieldsOf
<1>5. /\ FinalityUpdate(now) = Update(now - 1, chain.fin[now - 1], None)
      /\ FinalityUpdate(now).fin = chain.fin[now - 1] /\ FinalityUpdate(now).next = None
      /\ FinalityUpdate(now).signers = Signers(now - 1)
      /\ OptimisticUpdate(now) = Update(now - 1, None, None)
      /\ OptimisticUpdate(now).fin = None /\ OptimisticUpdate(now).next = None
  BY DEF FinalityUpdate, OptimisticUpdate, Update
<1>6. Offered(FinalityUpdate(now)) /\ Offered(OptimisticUpdate(now))
  BY <1>2, Endpoint
<1> QED
  BY <1>1, <1>2, <1>4, <1>5, <1>6

(* What a store knows of committees, taken loosely.                        *)
LEMMA KnowsLoosely ==
  ASSUME NEW s, Sound(s), NEW h \in Nat, NEW t \in Nat,
         NEW x \in {0, MaxIdle}, NEW y \in {0, MaxIdle}, Knows(s, h, t, x, y)
  PROVE  Knows(s, h, t, MaxIdle, MaxIdle)
<1>1. /\ MaxLag \in Nat /\ MaxIdle \in Nat /\ x <= MaxIdle /\ y <= MaxIdle
      /\ x \in Nat /\ y \in Nat
  BY BeaconAssumption
<1>2. Period(s.fin) \in Nat
  BY PeriodBounds DEF Sound, Store
<1>3. First(Period(s.fin)) \in Nat /\ First(Period(s.fin) + 1) \in Nat
  BY <1>2, FirstSlots
<1>4. /\ s.current # None
      /\ s.fin < t - 1
      /\ s.next = None => h <= First(Period(s.fin)) + MaxLag + x
      /\ s.next # None => h <= First(Period(s.fin) + 1) + MaxLag + y
  BY DEF Knows
<1>5. /\ s.next = None => h <= First(Period(s.fin)) + MaxLag + MaxIdle
      /\ s.next # None => h <= First(Period(s.fin) + 1) + MaxLag + MaxIdle
  BY <1>1, <1>3, <1>4
<1> QED
  BY <1>4, <1>5 DEF Knows

(* The finality call, in time: a store that knew enough knows enough.      *)
LEMMA FinalityKept ==
  ASSUME TypeOK, Favourable, NEW s, Sound(s), heard <= now, now - heard <= MaxIdle,
         NEW y \in {0, MaxIdle}, Knows(s, heard, now, 0, y)
  PROVE  /\ Verify(FinalityUpdate(now), s, now)
         /\ Knows(Apply(FinalityUpdate(now), s), heard, now, y, 0)
<1> DEFINE u == FinalityUpdate(now)
           r == Apply(u, s)
           f == chain.fin[now - 1]
           p == Period(s.fin)
<1>1. /\ heard \in Nat /\ now \in Nat /\ s.fin \in Nat /\ s.fin < now - 1 /\ now > 1
      /\ s.current # None /\ MaxLag \in Nat /\ MaxIdle \in Nat /\ y \in Nat
      /\ y <= MaxIdle /\ PeriodLength \in Nat
      /\ 2 * MaxIdle + MaxLag + 2 <= PeriodLength
  <2>1. heard \in Nat /\ now \in Nat /\ s.fin \in Nat
    BY BeaconAssumption DEF TypeOK, Slot, Sound, Store
  <2>2. s.fin < now - 1 /\ s.current # None
    BY DEF Knows
  <2> QED
    BY <2>1, <2>2, BeaconAssumption, StoreAssumption DEF Favourable, AskedInTime
<1>2. /\ f \in Nat /\ f < now - 1 /\ now - 1 - f <= MaxLag
      /\ Offered(u) /\ u = Update(now - 1, f, None)
      /\ u.fin = f /\ u.next = None /\ u.signers = Signers(now - 1)
  BY <1>1, NewestFields
<1>3. Knows(s, heard, now, MaxIdle, MaxIdle)
  <2>1. 0 \in {0, MaxIdle}
    OBVIOUS
  <2> QED
    BY <1>1, <2>1, KnowsLoosely
<1>4. /\ p \in Nat /\ Period(now) \in Nat
      /\ s.next = None => Period(now) = p
      /\ s.next # None => Period(now) \in {p, p + 1}
      /\ s.next = None => now + 2 <= First(p + 1)
      /\ s.next # None => now + 2 <= First(p + 2)
  BY <1>1, <1>3, InTime
<1>5. Verify(u, s, now)
  <2>1. f \in Nat \cup {None} /\ (f # None => f <= now - 1)
    BY <1>1, <1>2
  <2>2. \/ Period(now) = p
        \/ s.next # None /\ Period(now) = p + 1
    BY <1>4
  <2> HIDE DEF u, f
  <2> QED
    BY <1>1, <1>2, <2>1, <2>2, NewestVerifies
<1>6. u.fin # None
  BY <1>2, StoreAssumption
<1> HIDE DEF u, r, f
<1>7. /\ r.current # None
      /\ \/ r.fin = s.fin /\ r.next = s.next /\ ~(Majority(Signers(now - 1)) /\ f > s.fin)
         \/ r.fin = f /\ r.next = s.next /\ Period(f) = p
         \/ r.fin = f /\ s.next # None /\ r.next = None /\ Period(f) = p + 1
  BY <1>1, <1>2, <1>5, <1>6, FinalityApplied DEF r
<1>8. r.fin < now - 1
  BY <1>1, <1>2, <1>7
<1>9. /\ First(p) \in Nat /\ First(p + 1) = First(p) + PeriodLength
      /\ First(p + 2) = First(p) + PeriodLength + PeriodLength
  BY <1>4, FirstSlots
<1>10. /\ s.next = None => heard <= First(p) + MaxLag + 0
       /\ s.next # None => heard <= First(p + 1) + MaxLag + y
  BY DEF Knows
<1> HIDE DEF p
<1>11. r.next = None => heard <= First(Period(r.fin)) + MaxLag + y
  <2> SUFFICES ASSUME r.next = None PROVE heard <= First(Period(r.fin)) + MaxLag + y
    OBVIOUS
  <2>1. CASE s.next = None
    <3>1. Period(r.fin) = p
      BY <1>7, <2>1 DEF p
    <3> QED
      BY <1>1, <1>9, <1>10, <2>1, <3>1
  <2>2. CASE s.next # None
    <3>1. Period(r.fin) = p + 1
      BY <1>7, <2>2
    <3> QED
      BY <1>10, <2>2, <3>1
  <2> QED
    BY <2>1, <2>2
<1>12. r.next # None => heard <= First(Period(r.fin) + 1) + MaxLag + 0
  <2> SUFFICES ASSUME r.next # None PROVE heard <= First(Period(r.fin) + 1) + MaxLag + 0
    OBVIOUS
  <2>1. s.next # None /\ Period(r.fin) = p
    BY <1>7 DEF p
  <2>2. CASE now <= First(p + 1) + MaxLag
    BY <1>1, <1>9, <2>1, <2>2
  <2>3. CASE now > First(p + 1) + MaxLag
    <3>1. /\ now - 1 \in Slot /\ p + 1 \in Nat /\ (p + 1) + 1 = p + 2
          /\ First(p + 1) + MaxLag <= now - 1 /\ (now - 1) + 2 <= First(p + 2)
      <4>1. now - 1 \in Slot
        BY <1>1, BeaconAssumption DEF TypeOK, Slot
      <4>2. now + 2 <= First(p + 2)
        BY <1>4, <2>1
      <4>3. p + 1 \in Nat /\ (p + 1) + 1 = p + 2
        BY <1>4
      <4>4. First(p + 1) \in Nat /\ First(p + 2) \in Nat
        BY <1>1, <1>9
      <4> QED
        BY <1>1, <2>3, <4>1, <4>2, <4>3, <4>4
    <3>2. Period(f) = p + 1 /\ Majority(Signers(now - 1))
      BY <3>1, GoodSlot DEF f
    <3>3. f > s.fin
      <4> SUFFICES ASSUME f <= s.fin PROVE FALSE
        BY <1>1, <1>2
      <4>1. Period(f) <= p
        BY <1>1, <1>2, PeriodMonotone DEF p
      <4> QED
        BY <1>4, <3>2, <4>1
    <3>4. p + 1 # p
      BY <1>4
    <3> QED
      BY <1>7, <2>1, <3>2, <3>3, <3>4
  <2> QED
    BY <1>1, <1>9, <2>2, <2>3
<1> QED
  BY <1>5, <1>7, <1>8, <1>11, <1>12 DEF Knows, r, u

(* The optimistic call, in time: only the optimistic header changes.       *)
LEMMA OptimisticKept ==
  ASSUME TypeOK, Favourable, NEW s, Sound(s), heard <= now, now - heard <= MaxIdle,
         NEW x \in {0, MaxIdle}, NEW y \in {0, MaxIdle}, Knows(s, heard, now, x, y)
  PROVE  /\ Verify(OptimisticUpdate(now), s, now)
         /\ Apply(OptimisticUpdate(now), s).fin = s.fin
         /\ Apply(OptimisticUpdate(now), s).next = s.next
         /\ Apply(OptimisticUpdate(now), s).current = s.current
<1> DEFINE u == OptimisticUpdate(now)
           p == Period(s.fin)
<1>1. /\ heard \in Nat /\ now \in Nat /\ s.fin \in Nat /\ s.fin < now - 1 /\ now > 1
      /\ s.current # None
  <2>1. heard \in Nat /\ now \in Nat /\ s.fin \in Nat
    BY BeaconAssumption DEF TypeOK, Slot, Sound, Store
  <2>2. s.fin < now - 1 /\ s.current # None
    BY DEF Knows
  <2> QED
    BY <2>1, <2>2
<1>2. /\ Offered(u) /\ u = Update(now - 1, None, None) /\ u.fin = None /\ u.next = None
  BY <1>1, NewestFields
<1>3. Knows(s, heard, now, MaxIdle, MaxIdle)
  BY <1>1, KnowsLoosely
<1>4. \/ Period(now) = p
      \/ s.next # None /\ Period(now) = p + 1
  BY <1>1, <1>3, InTime
<1>5. Verify(u, s, now)
  <2>1. None \in Nat \cup {None}
    OBVIOUS
  <2> HIDE DEF u
  <2> QED
    BY <1>1, <1>2, <1>4, <2>1, NewestVerifies
<1> HIDE DEF u
<1>6. Apply(u, s).fin = s.fin /\ Apply(u, s).next = s.next /\ Apply(u, s).current = s.current
  BY <1>2, OptimisticApplied
<1> QED
  BY <1>5, <1>6 DEF u

(* A sync that ends knowing the next committee.                            *)
LEMMA KnowsLater ==
  ASSUME TypeOK, NEW s, Sound(s), s.next # None, heard <= now, now - heard <= MaxIdle,
         NEW x, Knows(s, heard, now, x, 0)
  PROVE  Knows(s, now, now, 0, MaxIdle)
<1>1. /\ heard \in Nat /\ now \in Nat /\ MaxIdle \in Nat /\ MaxLag \in Nat
      /\ Period(s.fin) \in Nat
  <2>1. heard \in Nat /\ now \in Nat /\ MaxIdle \in Nat /\ MaxLag \in Nat
    BY BeaconAssumption DEF TypeOK, Slot
  <2>2. s.fin \in Nat
    BY DEF Sound, Store
  <2> QED
    BY <2>1, <2>2, PeriodBounds
<1>2. First(Period(s.fin) + 1) \in Nat
  BY <1>1, FirstSlots
<1>3. /\ s.current # None
      /\ s.fin < now - 1
      /\ heard <= First(Period(s.fin) + 1) + MaxLag + 0
  BY DEF Knows
<1>4. now <= First(Period(s.fin) + 1) + MaxLag + MaxIdle
  BY <1>1, <1>2, <1>3
<1> QED
  BY <1>3, <1>4 DEF Knows

(* The call for the next committee: it learns it, or it is early.          *)
LEMMA CommitteeKept ==
  ASSUME TypeOK, Favourable, NEW s, Sound(s), s.next = None, heard <= now,
         now - heard <= MaxIdle, Knows(s, heard, now, MaxIdle, 0)
  PROVE  /\ CommitteeUpdates(Period(s.fin), now) = {} => Knows(s, now, now, 0, MaxIdle)
         /\ \A u \in CommitteeUpdates(Period(s.fin), now) :
              Verify(u, s, now) /\ Knows(Apply(u, s), now, now, 0, MaxIdle)
<1> DEFINE p == Period(s.fin)
<1>1. /\ heard \in Nat /\ now \in Nat /\ now <= MaxSlot /\ s.fin \in Nat /\ s.fin < now - 1
      /\ s.current # None /\ MaxIdle \in Nat /\ MaxLag \in Nat
  <2>1. heard \in Nat /\ now \in Nat /\ now <= MaxSlot /\ s.fin \in Nat
    BY BeaconAssumption DEF TypeOK, Slot, Sound, Store
  <2>2. s.fin < now - 1 /\ s.current # None
    BY DEF Knows
  <2> QED
    BY <2>1, <2>2, BeaconAssumption
<1>2. Knows(s, heard, now, MaxIdle, MaxIdle)
  <2>1. 0 \in {0, MaxIdle} /\ MaxIdle \in {0, MaxIdle}
    OBVIOUS
  <2> QED
    BY <1>1, <2>1, KnowsLoosely
<1>3. p \in Nat /\ now + 2 <= First(p + 1)
  BY <1>1, <1>2, InTime
<1>4. First(p) \in Nat /\ First(p + 1) \in Nat
  BY <1>3, FirstSlots
<1>5. ASSUME NEW r, r.current # None, r.fin < now - 1, Period(r.fin) = p,
             r.next = None => now <= First(p) + MaxLag
      PROVE  Knows(r, now, now, 0, MaxIdle)
  <2>1. r.next = None => now <= First(Period(r.fin)) + MaxLag + 0
    BY <1>1, <1>4, <1>5
  <2>2. now <= First(p + 1) + MaxLag + MaxIdle
    BY <1>1, <1>3, <1>4
  <2> HIDE DEF p
  <2> QED
    BY <1>5, <2>1, <2>2 DEF Knows
<1>6. ASSUME CommitteeUpdates(p, now) = {}
      PROVE  Knows(s, now, now, 0, MaxIdle)
  <2>1. now <= First(p) + MaxLag
    BY <1>1, <1>3, <1>4, <1>6, BestExists
  <2> QED
    BY <1>1, <1>5, <2>1
<1>7. ASSUME NEW u \in CommitteeUpdates(p, now)
      PROVE  Verify(u, s, now) /\ Knows(Apply(u, s), now, now, 0, MaxIdle)
  <2> DEFINE r == Apply(u, s)
  <2>1. now <= now
    BY <1>1
  <2>2. /\ Verify(u, s, now) /\ Offered(u) /\ u.next # None
        /\ Period(u.att) = p /\ u.fin \in Nat /\ u.fin # None
        /\ u.fin = 0 \/ u.fin < now - 1
    BY <1>1, <1>3, <1>7, <2>1, CommitteeVerifies
  <2>3. /\ r.current # None
        /\ r.fin = s.fin \/ r.fin = u.fin
        /\ \/ Period(r.fin) = p /\ r.next = s.next
           \/ Period(r.fin) = Period(u.att) /\ r.next # None
        /\ Majority(u.signers) /\ Period(u.fin) = Period(u.att) => r.next # None
    BY <1>1, <2>2, CommitteeApplied
  <2> HIDE DEF r
  <2>4. r.fin < now - 1 /\ Period(r.fin) = p
    BY <1>1, <2>2, <2>3
  <2>5. r.next = None => now <= First(p) + MaxLag
    <3> SUFFICES ASSUME r.next = None, First(p) + MaxLag < now PROVE FALSE
      BY <1>1, <1>4
    <3>1. Majority(u.signers) /\ Settled(u)
      BY <1>1, <1>3, <1>7, BestIsSettled
    <3> QED
      BY <2>3, <3>1 DEF Settled
  <2>6. Knows(r, now, now, 0, MaxIdle)
    BY <1>5, <2>3, <2>4, <2>5
  <2> QED
    BY <2>2, <2>6 DEF r
<1> QED
  BY <1>6, <1>7

-----------------------------------------------------------------------------
(* The invariant of health. *)

(* The updates of the periods from q on, as of the sync at h.              *)
Remaining(q, h) == UNION {CommitteeUpdates(r, h) : r \in q..Period(h)}

(* The startup thread has verified the updates of all periods before q.    *)
Verified(q) ==
  /\ pending = Remaining(q, heard)
  /\ copy.current # None /\ copy.fin < heard - 1
  /\ q <= Period(heard) + 1
  /\ \/ q = Period(copy.fin) /\ copy.next = None
     \/ q = Period(copy.fin) + 1 /\ copy.next # None
     \/ q = Period(heard) + 1 /\ Knows(copy, heard, now, 0, 0)

CopyHealth ==
  /\ startup # "failed"
  /\ startup = "updates" => copy = ApplyBootstrap(checkpoint)
  /\ startup = "verify" => \E q \in Nat : Verified(q)
  /\ startup \in {"finality", "optimistic", "check", "commit"} => Knows(copy, heard, now, 0, 0)

StoreHealth ==
  status = "synced" =>
    /\ job \in {"none", "finality"} => Knows(store, heard, now, 0, MaxIdle)
    /\ job \in {"optimistic", "committee"} => Knows(store, heard, now, MaxIdle, 0)
    /\ job = "committee" => store.next = None

HealthInv ==
  /\ heard <= now
  /\ checkpoint < now - 1
  /\ status = "err" => excused
  /\ ~excused => CopyHealth /\ StoreHealth

LEMMA SameUpdates ==
  ASSUME UNCHANGED chain, NEW h, heard' = h, NEW q, NEW p
  PROVE  CommitteeUpdates(p, heard)' = CommitteeUpdates(p, h)
<1>1. \A a : Signers(a)' = Signers(a)
  BY DEF Signers
<1>2. \A a, f, n : Update(a, f, n)' = Update(a, f, n)
  BY <1>1 DEF Update
<1> QED
  BY <1>2 DEF CommitteeUpdates

LEMMA SameRemaining ==
  ASSUME UNCHANGED chain, NEW h, heard' = h, NEW q
  PROVE  Remaining(q, heard)' = Remaining(q, h)
<1>1. \A p : CommitteeUpdates(p, heard)' = CommitteeUpdates(p, h)
  BY SameUpdates
<1>2. Period(heard)' = Period(h)
  BY DEF Period
<1> QED
  BY <1>1, <1>2 DEF Remaining

(* A step of the startup thread, and one of a request.                     *)
LEMMA CopyHealthStep ==
  ASSUME LightInv, HealthInv, Ghosts, UNCHANGED <<env, light, now, job>>,
         startup # "done", ~excused' => CopyHealth'
  PROVE  HealthInv'
<1>1. /\ heard \in Nat /\ now \in Nat /\ status = "syncing"
  BY BeaconAssumption DEF LightInv, TypeOK, Slot
<1>2. heard' <= now'
  BY <1>1 DEF HealthInv, Ghosts, Excuse, Blameless
<1>3. status' # "err" /\ StoreHealth'
  BY <1>1 DEF light, StoreHealth
<1> QED
  BY <1>2, <1>3 DEF HealthInv, env

LEMMA StoreHealthStep ==
  ASSUME LightInv, HealthInv, Ghosts, UNCHANGED <<env, now, startup>>,
         startup = "done", ~excused' => status' # "err" /\ StoreHealth'
  PROVE  HealthInv'
<1>1. heard \in Nat /\ now \in Nat
  BY BeaconAssumption DEF LightInv, TypeOK, Slot
<1>2. heard' <= now'
  BY <1>1 DEF HealthInv, Ghosts, Excuse, Blameless
<1>3. CopyHealth'
  BY DEF CopyHealth
<1> QED
  BY <1>2, <1>3 DEF HealthInv, env

LEMMA InitHealth ==
  ASSUME Favourable, Init
  PROVE  HealthInv
<1>1. now \in Slot \ {0} /\ now # 1 /\ now \in Nat /\ chain \in Chains
  BY BeaconAssumption DEF Init, Favourable, Slot
<1>2. now - 1 \in Slot \ {0}
  BY <1>1, BeaconAssumption DEF Slot
<1>3. chain.fin[now - 1] < now - 1 /\ chain.fin[now - 1] \in Nat
  BY <1>1, <1>2, BeaconAssumption DEF Favourable, ChainsAreWell, Slot
<1>4. checkpoint \in Nat /\ checkpoint <= chain.fin[now - 1]
  BY BeaconAssumption DEF Init, Slot
<1>5. heard <= now /\ checkpoint < now - 1
  BY <1>1, <1>3, <1>4 DEF Init
<1>6. CopyHealth /\ StoreHealth
  BY DEF Init, CopyHealth, StoreHealth
<1> QED
  BY <1>5, <1>6 DEF Init, HealthInv

(* The endpoint is not behind and the time is not up.                      *)
LEMMA Timely ==
  ASSUME LightInv, HealthInv, ~excused, NEW t \in Views
  PROVE  /\ heard \in Nat /\ now \in Nat /\ heard <= now /\ now <= MaxSlot
         /\ TypeOK /\ Sound(copy) /\ Sound(store)
         /\ Called(t) => Ghosts /\ (~excused' => t = now /\ now - heard <= MaxIdle /\ heard' = heard)
         /\ Completed(t) => Ghosts /\ (~excused' => t = now /\ now - heard <= MaxIdle /\ heard' = now)
<1>1. /\ heard \in Nat /\ now \in Nat /\ heard <= now /\ now <= MaxSlot /\ MaxIdle \in Nat
      /\ TypeOK /\ Sound(copy) /\ Sound(store)
  BY BeaconAssumption DEF LightInv, TypeOK, Slot, HealthInv
<1>2. t \in Nat /\ t <= now
  BY <1>1, BeaconAssumption DEF Views
<1>3. ~Late(t) => t = now /\ now - heard <= MaxIdle
  BY <1>1, <1>2 DEF Late
<1> QED
  BY <1>1, <1>3 DEF Called, Completed, Excuse, Blameless, Ghosts

LEMMA FetchHealthy ==
  ASSUME Favourable, LightInv, HealthInv, FetchUpdates, ~excused'
  PROVE  CopyHealth'
<1>1. PICK t \in Views :
        /\ pending' = Fetched(copy, t)
        /\ IF excused \/ t < now THEN Excuse ELSE excused' = FALSE /\ heard' = now
  BY DEF FetchUpdates
<1>2. /\ ~excused /\ ~(t < now) /\ heard' = now
  BY <1>1 DEF Excuse
<1>3. now \in Nat /\ t \in Nat /\ t <= now /\ checkpoint \in Nat /\ checkpoint < now - 1
  BY <1>1, BeaconAssumption DEF LightInv, TypeOK, Slot, Views, HealthInv
<1>4. t = now
  BY <1>2, <1>3
<1>5. copy = ApplyBootstrap(checkpoint)
  BY <1>2 DEF HealthInv, CopyHealth, FetchUpdates
<1>6. copy.fin = checkpoint /\ copy.current = Period(checkpoint) /\ copy.next = None
  BY <1>5 DEF ApplyBootstrap, ZeroStore
<1>7. PICK q \in Nat : q = Period(checkpoint)
  BY <1>3, PeriodBounds
<1>8. pending' = Remaining(q, now)
  BY <1>1, <1>4, <1>6, <1>7 DEF Fetched, Remaining
<1>9. Remaining(q, heard)' = Remaining(q, now)
  <2>1. UNCHANGED chain
    BY DEF FetchUpdates, env
  <2> QED
    BY <1>2, <2>1, SameRemaining
<1>10. /\ copy' = copy /\ startup' = "verify"
  BY DEF FetchUpdates
<1>11. copy.current # None /\ copy.fin < now - 1
  BY <1>3, <1>6, PeriodBounds, StoreAssumption
<1>12. q <= Period(heard') + 1
  <2>1. Period(checkpoint) <= Period(now) /\ Period(now) \in Nat
    BY <1>3, PeriodBounds, PeriodMonotone
  <2> QED
    BY <1>2, <1>7, <2>1
<1>13. q = Period(copy.fin) /\ copy.next = None
  BY <1>6, <1>7
<1>14. Verified(q)'
  BY <1>2, <1>8, <1>9, <1>10, <1>11, <1>12, <1>13 DEF Verified
<1> QED
  BY <1>7, <1>10, <1>14 DEF CopyHealth

LEMMA FullPeriod ==
  ASSUME Favourable, NEW q \in Nat, NEW h \in Nat, q < Period(h)
  PROVE  First(q) + MaxLag < h
<1>1. Period(h) \in Nat /\ First(Period(h)) \in Nat /\ First(Period(h)) <= h
  BY FirstBounds
<1>2. q + 1 \in Nat /\ q + 1 <= Period(h)
  BY <1>1
<1>3. First(q + 1) <= First(Period(h))
  BY <1>1, <1>2, FirstGrows
<1>4. First(q) \in Nat /\ First(q + 1) = First(q) + PeriodLength
  BY FirstSlots
<1>5. /\ MaxIdle \in Nat /\ MaxLag \in Nat /\ PeriodLength \in Nat
      /\ 2 * MaxIdle + MaxLag + 2 <= PeriodLength
  BY BeaconAssumption, StoreAssumption DEF Favourable, AskedInTime
<1> QED
  BY <1>1, <1>3, <1>4, <1>5

LEMMA CopyFields ==
  ASSUME LightInv
  PROVE  /\ TypeOK /\ Sound(copy) /\ heard \in Nat /\ heard <= MaxSlot /\ now \in Nat
         /\ copy.fin \in Nat /\ Period(heard) \in Nat /\ Period(copy.fin) \in Nat
         /\ MaxLag \in Nat
<1>1. TypeOK /\ Sound(copy)
  BY DEF LightInv
<1>2. heard \in Nat /\ heard <= MaxSlot /\ now \in Nat /\ MaxLag \in Nat
  BY <1>1, BeaconAssumption DEF TypeOK, Slot
<1>3. copy.fin \in Nat
  BY <1>1 DEF Sound, Store
<1> QED
  BY <1>1, <1>2, <1>3, PeriodBounds

(* The update that is next in the order of slots is that of period q, and  *)
(* there is no other of that period.                                       *)
LEMMA NextToVerify ==
  ASSUME Favourable, LightInv, heard <= now, NEW q \in Nat, Verified(q),
         NEW u \in pending, \A v \in pending : u.att <= v.att
  PROVE  /\ q <= Period(heard) /\ u \in CommitteeUpdates(q, heard)
         /\ Verify(u, copy, now) /\ Offered(u) /\ u.next # None
         /\ Period(u.att) = q
         /\ u.fin \in Nat /\ u.fin # None /\ (u.fin = 0 \/ u.fin < heard - 1)
         /\ pending \ {u} = Remaining(q + 1, heard)
<1>1. /\ TypeOK /\ Sound(copy) /\ heard \in Nat /\ heard <= MaxSlot /\ now \in Nat
      /\ Period(heard) \in Nat /\ copy.fin \in Nat
  BY CopyFields
<1>2. ASSUME NEW r \in q..Period(heard), NEW v \in CommitteeUpdates(r, heard)
      PROVE  v \in pending /\ v.att \in Nat /\ Period(v.att) = r
  <2>1. r \in Nat
    OBVIOUS
  <2>2. PICK a \in Choice(r, heard) : v = Of(a, r)
    BY <1>1, <2>1, UpdatesOf
  <2>3. a \in Slot /\ Period(a) = r
    BY <2>2 DEF Choice
  <2>4. v.att = a /\ a \in Nat
    BY <1>1, <2>1, <2>2, <2>3, FieldsOf
  <2>5. v \in pending
    BY DEF Verified, Remaining
  <2> QED
    BY <2>3, <2>4, <2>5
<1>3. PICK r \in q..Period(heard) : u \in CommitteeUpdates(r, heard)
  BY DEF Verified, Remaining
<1>4. r \in Nat /\ q <= r /\ r <= Period(heard)
  BY <1>1, <1>3
<1>5. r = q
  <2> SUFFICES ASSUME q < r PROVE FALSE
    BY <1>4
  <2>1. First(q) + MaxLag < heard
    BY <1>1, <1>4, FullPeriod
  <2>2. PICK v : v \in CommitteeUpdates(q, heard)
    BY <1>1, <2>1, BestExists
  <2>3. q \in q..Period(heard)
    BY <1>1, <1>4
  <2>4. v \in pending /\ v.att \in Nat /\ Period(v.att) = q
    BY <1>2, <2>2, <2>3
  <2>5. u.att \in Nat /\ Period(u.att) = r /\ u.att <= v.att
    BY <1>2, <1>3, <2>4
  <2>6. r <= q
    BY <2>4, <2>5, PeriodMonotone
  <2> QED
    BY <1>4, <2>6
<1>6. q <= Period(heard) /\ u \in CommitteeUpdates(q, heard) /\ q \in q..Period(heard)
  BY <1>1, <1>3, <1>4, <1>5
<1>7. copy.current # None /\ (\/ copy.next = None /\ q = Period(copy.fin)
                              \/ copy.next # None /\ q = Period(copy.fin) + 1)
  BY <1>1, <1>6 DEF Verified
<1>8. /\ Verify(u, copy, now) /\ Offered(u) /\ u.next # None
      /\ Period(u.att) = q
      /\ u.fin \in Nat /\ u.fin # None /\ (u.fin = 0 \/ u.fin < heard - 1)
  BY <1>1, <1>6, <1>7, CommitteeVerifies
<1>9. ASSUME NEW v
      PROVE  v \in pending \ {u} <=> v \in Remaining(q + 1, heard)
  <2>1. ASSUME v \in pending, v # u
        PROVE  v \in Remaining(q + 1, heard)
    <3>1. PICK k \in q..Period(heard) : v \in CommitteeUpdates(k, heard)
      BY <2>1 DEF Verified, Remaining
    <3>2. k # q
      BY <1>1, <1>6, <2>1, <3>1, BestIsOne
    <3>3. k \in (q + 1)..Period(heard)
      BY <1>1, <3>1, <3>2
    <3> QED
      BY <3>1, <3>3 DEF Remaining
  <2>2. ASSUME v \in Remaining(q + 1, heard)
        PROVE  v \in pending /\ v # u
    <3>1. PICK k \in (q + 1)..Period(heard) : v \in CommitteeUpdates(k, heard)
      BY <2>2 DEF Remaining
    <3>2. k \in q..Period(heard) /\ k # q
      BY <1>1, <3>1
    <3>3. v \in pending /\ Period(v.att) = k
      BY <1>2, <3>1, <3>2
    <3> QED
      BY <1>8, <3>2, <3>3
  <2> QED
    BY <2>1, <2>2
<1> QED
  BY <1>6, <1>8, <1>9

(* It verifies, and takes the copy to the next period or is the last.      *)
LEMMA VerifyHealthy ==
  ASSUME Favourable, LightInv, heard <= now, NEW q \in Nat, Verified(q),
         NEW u \in pending, \A v \in pending : u.att <= v.att
  PROVE  LET r == Apply(u, copy) IN
         /\ r.current # None /\ r.fin < heard - 1 /\ q + 1 <= Period(heard) + 1
         /\ \/ q + 1 = Period(r.fin) + 1 /\ r.next # None
            \/ q + 1 = Period(heard) + 1 /\ Knows(r, heard, now, 0, 0)
<1> DEFINE r == Apply(u, copy)
           p == Period(copy.fin)
<1>1. /\ TypeOK /\ Sound(copy) /\ heard \in Nat /\ heard <= MaxSlot /\ now \in Nat
      /\ Period(heard) \in Nat /\ copy.fin \in Nat /\ p \in Nat
      /\ MaxLag \in Nat /\ First(q) \in Nat
  BY CopyFields, FirstSlots
<1>2. /\ q <= Period(heard) /\ u \in CommitteeUpdates(q, heard)
      /\ Verify(u, copy, now) /\ Offered(u) /\ u.next # None
      /\ Period(u.att) = q
      /\ u.fin \in Nat /\ u.fin # None /\ (u.fin = 0 \/ u.fin < heard - 1)
  BY NextToVerify
<1>3. /\ copy.current # None /\ copy.fin < heard - 1
      /\ \/ copy.next = None /\ q = p
         \/ copy.next # None /\ q = p + 1
  BY <1>1, <1>2 DEF Verified
<1>4. /\ r.current # None
      /\ r.fin = copy.fin \/ r.fin = u.fin
      /\ \/ Period(r.fin) = p /\ r.next = copy.next
         \/ Period(r.fin) = q /\ r.next # None
      /\ Majority(u.signers) /\ Period(u.fin) = q => Period(r.fin) = q /\ r.next # None
  BY <1>1, <1>2, <1>3, CommitteeApplied
<1> HIDE DEF r, p
<1>5. r.fin \in Nat /\ r.fin < heard - 1
  BY <1>1, <1>2, <1>3, <1>4
<1>6. CASE Period(r.fin) = q /\ r.next # None
  BY <1>1, <1>2, <1>4, <1>5, <1>6 DEF r
<1>7. CASE ~(Period(r.fin) = q /\ r.next # None)
  <2>1. heard <= First(q) + MaxLag
    <3> SUFFICES ASSUME First(q) + MaxLag < heard PROVE FALSE
      BY <1>1
    <3>1. Majority(u.signers) /\ Settled(u)
      BY <1>1, <1>2, BestIsSettled
    <3> QED
      BY <1>2, <1>4, <1>7, <3>1 DEF Settled
  <2>2. q = Period(heard)
    <3> SUFFICES ASSUME q < Period(heard) PROVE FALSE
      BY <1>1, <1>2
    <3>1. First(q) + MaxLag < heard
      BY <1>1, FullPeriod
    <3> QED
      BY <1>1, <2>1, <3>1
  <2>3. Period(r.fin) = p /\ r.next = copy.next
    BY <1>4, <1>7
  <2>4. r.fin < now - 1
    BY <1>1, <1>5
  <2>5. /\ r.next = None => heard <= First(Period(r.fin)) + MaxLag + 0
        /\ r.next # None => heard <= First(Period(r.fin) + 1) + MaxLag + 0
    <3>1. heard <= First(q) + MaxLag + 0
      BY <1>1, <2>1
    <3> QED
      BY <1>3, <2>3, <3>1
  <2>6. Knows(r, heard, now, 0, 0)
    BY <1>4, <2>4, <2>5 DEF Knows
  <2> QED
    BY <1>1, <1>4, <1>5, <2>2, <2>6 DEF r
<1> QED
  BY <1>6, <1>7

LEMMA SyncUpdateHealthy ==
  ASSUME Favourable, LightInv, HealthInv, SyncUpdate, ~excused'
  PROVE  CopyHealth'
<1>1. /\ startup = "verify" /\ ~excused /\ excused' = excused /\ heard' = heard
      /\ UNCHANGED <<env, now>>
  BY DEF SyncUpdate, Blameless, Continue
<1>2. heard <= now /\ now \in Nat /\ heard \in Nat
  BY BeaconAssumption DEF HealthInv, LightInv, TypeOK, Slot
<1>3. PICK q \in Nat : Verified(q)
  BY <1>1 DEF HealthInv, CopyHealth
<1>4. PICK u \in pending :
        /\ \A v \in pending : u.att <= v.att
        /\ Continue(u, "verify")
        /\ pending' = pending \ {u}
  BY DEF SyncUpdate
<1> DEFINE r == Apply(u, copy)
<1>5. /\ Verify(u, copy, now)
      /\ pending \ {u} = Remaining(q + 1, heard)
  BY <1>2, <1>3, <1>4, NextToVerify
<1>6. /\ r.current # None /\ r.fin < heard - 1 /\ q + 1 <= Period(heard) + 1
      /\ \/ q + 1 = Period(r.fin) + 1 /\ r.next # None
         \/ q + 1 = Period(heard) + 1 /\ Knows(r, heard, now, 0, 0)
  BY <1>2, <1>3, <1>4, VerifyHealthy
<1>7. startup' = "verify" /\ copy' = r
  BY <1>4, <1>5 DEF Continue
<1> HIDE DEF r
<1>8. PICK k \in Nat : k = q + 1
  OBVIOUS
<1>9. Remaining(k, heard)' = Remaining(k, heard)
  <2>1. UNCHANGED chain
    BY <1>1 DEF env
  <2> QED
    BY <1>1, <2>1, SameRemaining
<1>10. Knows(r, heard, now, 0, 0) => Knows(copy, heard, now, 0, 0)'
  BY <1>1, <1>7 DEF Knows, First, Period
<1>11. Verified(k)'
  BY <1>1, <1>4, <1>5, <1>6, <1>7, <1>8, <1>9, <1>10 DEF Verified
<1> QED
  BY <1>7, <1>8, <1>11 DEF CopyHealth

LEMMA SyncUpdatesDoneHealthy ==
  ASSUME Favourable, LightInv, HealthInv, SyncUpdatesDone, ~excused'
  PROVE  CopyHealth'
<1> DEFINE p == Period(copy.fin)
<1>1. /\ startup = "verify" /\ ~excused /\ pending = {}
  BY DEF SyncUpdatesDone, Blameless
<1>2. /\ heard <= now /\ now \in Nat /\ heard \in Nat /\ heard <= MaxSlot /\ TypeOK
      /\ copy.fin \in Nat /\ p \in Nat /\ MaxLag \in Nat
  BY CopyFields DEF HealthInv
<1>3. PICK q \in Nat : Verified(q)
  BY <1>1 DEF HealthInv, CopyHealth
<1>4. copy.current # None /\ copy.fin < heard - 1 /\ q <= Period(heard) + 1
  BY <1>3 DEF Verified
<1>5. /\ Period(heard) \in Nat /\ heard < First(Period(heard) + 1) /\ First(q) \in Nat
      /\ First(Period(heard) + 1) \in Nat
  BY <1>2, FirstBounds, FirstSlots
<1>6. Knows(copy, heard, now, 0, 0)
  <2> SUFFICES ASSUME \/ q = p /\ copy.next = None
                      \/ q = p + 1 /\ copy.next # None
               PROVE  Knows(copy, heard, now, 0, 0)
    BY <1>3 DEF Verified
  <2>1. heard <= First(q) + MaxLag
    <3>1. CASE q <= Period(heard)
      <4>1. CommitteeUpdates(q, heard) = {}
        <5>1. q \in q..Period(heard)
          BY <1>5, <3>1
        <5> QED
          BY <1>1, <1>3, <5>1 DEF Verified, Remaining
      <4> QED
        BY <1>2, <1>5, <4>1, BestExists
    <3>2. CASE q = Period(heard) + 1
      BY <1>2, <1>5, <3>2
    <3> QED
      BY <1>4, <1>5, <3>1, <3>2
  <2>2. heard <= First(q) + MaxLag + 0 /\ copy.fin < now - 1
    BY <1>2, <1>4, <1>5, <2>1
  <2> QED
    BY <1>4, <2>2 DEF Knows
<1>7. Knows(copy, heard, now, 0, 0)'
  BY <1>6 DEF SyncUpdatesDone, Blameless, Knows, First, Period
<1> QED
  BY <1>7 DEF SyncUpdatesDone, CopyHealth

LEMMA StartupHealth ==
  ASSUME Favourable, LightInv, HealthInv, Startup
  PROVE  HealthInv'
<1>0. /\ heard \in Nat /\ now \in Nat /\ heard <= now
      /\ TypeOK /\ Sound(copy) /\ Sound(store)
  BY CopyFields DEF HealthInv, LightInv
<1>1. CASE Begin
  <2>1. ~excused' => CopyHealth'
    BY <1>1 DEF Begin, Excuse, CopyHealth
  <2> QED
    BY <1>1, <2>1, CopyHealthStep DEF Begin, Ghosts
<1>2. CASE TakeSnapshot
  <2>1. ~excused' => CopyHealth'
    BY <1>2 DEF TakeSnapshot, CopyHealth
  <2> QED
    BY <1>2, <2>1, CopyHealthStep DEF TakeSnapshot, Ghosts
<1>3. CASE SyncCallFails
  <2>1. excused'
    BY <1>3 DEF SyncCallFails, Excuse
  <2> QED
    BY <1>3, <2>1, CopyHealthStep DEF SyncCallFails, Ghosts
<1>4. CASE Bootstrap
  <2>1. ~excused' => CopyHealth'
    <3>1. UNCHANGED checkpoint
      BY <1>4 DEF Bootstrap, env
    <3>2. ~excused' => startup' = "updates" /\ copy' = ApplyBootstrap(checkpoint)
      BY <1>4 DEF Bootstrap, Excuse
    <3>3. ApplyBootstrap(checkpoint)' = ApplyBootstrap(checkpoint)
      BY <3>1 DEF ApplyBootstrap, Period
    <3> QED
      BY <3>2, <3>3 DEF CopyHealth
  <2> QED
    BY <1>4, <2>1, CopyHealthStep DEF Bootstrap, Ghosts
<1>5. CASE FetchUpdates
  BY <1>5, FetchHealthy, CopyHealthStep DEF FetchUpdates, Ghosts
<1>6. CASE SyncUpdate
  <2>1. Ghosts /\ UNCHANGED <<env, light, now, job>> /\ startup # "done"
    BY <1>6 DEF SyncUpdate, Continue, Ghosts
  <2> QED
    BY <1>6, <2>1, SyncUpdateHealthy, CopyHealthStep
<1>7. CASE SyncUpdatesDone
  BY <1>7, SyncUpdatesDoneHealthy, CopyHealthStep DEF SyncUpdatesDone, Ghosts
<1>8. CASE SyncFinality
  <2>1. PICK t \in Views : Continue(FinalityUpdate(t), "optimistic") /\ Called(t)
    BY <1>8 DEF SyncFinality
  <2>2. Ghosts /\ UNCHANGED <<env, light, now, job>> /\ startup = "finality"
    BY <1>8, <2>1 DEF SyncFinality, Continue, Called, Ghosts
  <2>3. ASSUME ~excused' PROVE CopyHealth'
    <3>1. t = now /\ now - heard <= MaxIdle /\ heard' = heard /\ ~excused
      BY <2>1, <2>3, Timely DEF Called, Excuse, Late
    <3>2. Knows(copy, heard, now, 0, 0)
      BY <2>2, <3>1 DEF HealthInv, CopyHealth
    <3> DEFINE r == Apply(FinalityUpdate(now), copy)
    <3>3. Verify(FinalityUpdate(now), copy, now) /\ Knows(r, heard, now, 0, 0)
      <4>1. 0 \in {0, MaxIdle}
        OBVIOUS
      <4> QED
        BY <1>0, <3>1, <3>2, <4>1, FinalityKept
    <3>4. startup' = "optimistic" /\ copy' = r
      BY <2>1, <3>1, <3>3 DEF Continue
    <3> HIDE DEF r
    <3>5. Knows(copy, heard, now, 0, 0)'
      BY <2>2, <3>1, <3>3, <3>4 DEF Knows, First, Period
    <3> QED
      BY <3>4, <3>5 DEF CopyHealth
  <2> QED
    BY <2>2, <2>3, CopyHealthStep
<1>9. CASE SyncOptimistic
  <2>1. PICK t \in Views : Continue(OptimisticUpdate(t), "check") /\ Called(t)
    BY <1>9 DEF SyncOptimistic
  <2>2. Ghosts /\ UNCHANGED <<env, light, now, job>> /\ startup = "optimistic"
    BY <1>9, <2>1 DEF SyncOptimistic, Continue, Called, Ghosts
  <2>3. ASSUME ~excused' PROVE CopyHealth'
    <3>1. t = now /\ now - heard <= MaxIdle /\ heard' = heard /\ ~excused
      BY <2>1, <2>3, Timely DEF Called, Excuse, Late
    <3>2. Knows(copy, heard, now, 0, 0)
      BY <2>2, <3>1 DEF HealthInv, CopyHealth
    <3> DEFINE r == Apply(OptimisticUpdate(now), copy)
    <3>3. /\ Verify(OptimisticUpdate(now), copy, now)
          /\ r.fin = copy.fin /\ r.next = copy.next /\ r.current = copy.current
      <4>1. 0 \in {0, MaxIdle}
        OBVIOUS
      <4> QED
        BY <1>0, <3>1, <3>2, <4>1, OptimisticKept
    <3>4. startup' = "check" /\ copy' = r
      BY <2>1, <3>1, <3>3 DEF Continue
    <3> HIDE DEF r
    <3>5. Knows(copy, heard, now, 0, 0)'
      BY <2>2, <3>1, <3>2, <3>3, <3>4 DEF Knows, First, Period
    <3> QED
      BY <3>4, <3>5 DEF CopyHealth
  <2> QED
    BY <2>2, <2>3, CopyHealthStep
<1>10. CASE CheckStop
  <2>1. ~excused' => CopyHealth'
    BY <1>10 DEF CheckStop, Excuse, Blameless, CopyHealth, HealthInv, Knows, First, Period
  <2> QED
    BY <1>10, <2>1, CopyHealthStep DEF CheckStop, Ghosts
<1>11. CASE Commit
  <2>1. /\ status' = "synced" /\ store' = copy /\ startup' = "done" /\ job' = "none"
        /\ UNCHANGED <<env, now, heard, excused>>
    BY <1>11 DEF Commit, Install, Blameless
  <2>2. ~excused => StoreHealth'
    <3> SUFFICES ASSUME ~excused PROVE StoreHealth'
      OBVIOUS
    <3>1. Knows(copy, heard, now, 0, 0)
      BY <1>11 DEF Commit, HealthInv, CopyHealth
    <3>2. Knows(copy, heard, now, 0, MaxIdle)
      <4>1. Period(copy.fin) \in Nat /\ MaxLag \in Nat /\ MaxIdle \in Nat
        BY CopyFields, BeaconAssumption
      <4>2. First(Period(copy.fin) + 1) \in Nat
        BY <4>1, FirstSlots
      <4> QED
        BY <1>0, <3>1, <4>1, <4>2 DEF Knows
    <3>3. Knows(store, heard, now, 0, MaxIdle)'
      BY <2>1, <3>2 DEF Knows, First, Period
    <3> QED
      BY <2>1, <3>3 DEF StoreHealth
  <2>3. CopyHealth'
    BY <2>1 DEF CopyHealth
  <2> QED
    BY <1>0, <2>1, <2>2, <2>3 DEF HealthInv, env
<1>12. CASE StartupFails
  <2>1. excused /\ UNCHANGED <<env, now, heard, excused>>
    BY <1>12 DEF StartupFails, HealthInv, CopyHealth, Blameless
  <2> QED
    BY <1>0, <2>1 DEF HealthInv, env
<1> QED
  BY <1>1, <1>2, <1>3, <1>4, <1>5, <1>6, <1>7, <1>8, <1>9, <1>10, <1>11, <1>12
     DEF Startup

LEMMA AdvanceHealth ==
  ASSUME Favourable, LightInv, HealthInv, Advance
  PROVE  HealthInv'
<1>0. /\ heard \in Nat /\ now \in Nat /\ heard <= now
      /\ TypeOK /\ Sound(store)
      /\ 0 \in {0, MaxIdle} /\ MaxIdle \in {0, MaxIdle}
  BY CopyFields DEF HealthInv, LightInv
<1>1. /\ UNCHANGED <<env, now, startup>> /\ job # "none"
      /\ status = "synced" /\ startup = "done"
  <2>1. UNCHANGED <<env, now, startup>> /\ job # "none"
    BY DEF Advance, AdvanceCallFails, AdvanceFinality, AdvanceOptimistic, AdvanceCommittee
  <2> QED
    BY <2>1 DEF LightInv
<1>2. ~excused => StoreHealth
  BY DEF HealthInv
<1>3. CASE AdvanceCallFails
  <2>1. excused' /\ Ghosts
    BY <1>3 DEF AdvanceCallFails, Excuse, Ghosts
  <2> QED
    BY <1>1, <2>1, StoreHealthStep
<1>4. CASE AdvanceFinality
  <2> DEFINE u(t) == FinalityUpdate(t)
  <2>1. PICK t \in Views :
          /\ IF Verify(u(t), store, now)
             THEN /\ job' = "optimistic" /\ store' = Apply(u(t), store)
                  /\ UNCHANGED <<status, safe, head, retained>>
             ELSE Failed
          /\ Called(t)
    BY <1>4 DEF AdvanceFinality
  <2>2. Ghosts /\ job = "finality"
    BY <1>4, <2>1 DEF AdvanceFinality, Called, Ghosts
  <2>3. ASSUME ~excused' PROVE status' # "err" /\ StoreHealth'
    <3>1. t = now /\ now - heard <= MaxIdle /\ heard' = heard /\ ~excused
      BY <2>1, <2>3, Timely DEF Called, Excuse, Late
    <3>2. Knows(store, heard, now, 0, MaxIdle)
      BY <1>1, <1>2, <2>2, <3>1 DEF StoreHealth
    <3> DEFINE r == Apply(u(now), store)
    <3>3. Verify(u(now), store, now) /\ Knows(r, heard, now, MaxIdle, 0)
      BY <1>0, <3>1, <3>2, FinalityKept
    <3>4. job' = "optimistic" /\ store' = r /\ status' = status
      BY <2>1, <3>1, <3>3
    <3> HIDE DEF r
    <3>5. Knows(store, heard, now, MaxIdle, 0)'
      BY <1>1, <3>1, <3>3, <3>4 DEF Knows, First, Period
    <3> QED
      BY <1>1, <3>4, <3>5 DEF StoreHealth
  <2> QED
    BY <1>1, <2>2, <2>3, StoreHealthStep
<1>5. CASE AdvanceOptimistic
  <2> DEFINE u(t) == OptimisticUpdate(t)
             s(t) == Apply(u(t), store)
  <2>1. PICK t \in Views :
          \/ ~Verify(u(t), store, now) /\ Failed /\ Called(t)
          \/ Verify(u(t), store, now) /\ s(t).next # None /\ Finish(s(t)) /\ Completed(t)
          \/ /\ Verify(u(t), store, now) /\ s(t).next = None
             /\ job' = "committee" /\ store' = s(t)
             /\ UNCHANGED <<status, safe, head, retained>>
             /\ Called(t)
    BY <1>5 DEF AdvanceOptimistic
  <2>2. Ghosts /\ job = "optimistic"
    BY <1>5, <2>1 DEF AdvanceOptimistic, Called, Completed, Ghosts
  <2>3. ASSUME ~excused' PROVE status' # "err" /\ StoreHealth'
    <3>1. t = now /\ now - heard <= MaxIdle /\ ~excused
      BY <2>1, <2>3, Timely DEF Called, Completed, Excuse, Late
    <3>2. Knows(store, heard, now, MaxIdle, 0)
      BY <1>1, <1>2, <2>2, <3>1 DEF StoreHealth
    <3>3. /\ Verify(u(now), store, now)
          /\ s(now).fin = store.fin /\ s(now).next = store.next
          /\ s(now).current = store.current
      BY <1>0, <3>1, <3>2, OptimisticKept
    <3> HIDE DEF s
    <3>4. CASE s(now).next # None /\ Finish(s(now)) /\ Completed(now)
      <4>1. /\ heard' = now /\ status' = "synced" /\ job' = "none"
            /\ store' = s(now)
        BY <2>3, <3>4 DEF Completed, Excuse, Finish, Install
      <4>2. Knows(store, now, now, 0, MaxIdle)
        BY <1>0, <3>1, <3>2, <3>3, <3>4, KnowsLater
      <4>3. Knows(store, heard, now, 0, MaxIdle)'
        BY <1>1, <3>3, <4>1, <4>2 DEF Knows, First, Period
      <4> QED
        BY <1>1, <4>1, <4>3 DEF StoreHealth
    <3>5. CASE /\ s(now).next = None /\ job' = "committee" /\ store' = s(now)
               /\ UNCHANGED <<status, safe, head, retained>>
               /\ Called(now)
      <4>1. heard' = heard /\ status' = "synced"
        BY <1>1, <2>3, <3>5 DEF Called, Excuse, Blameless
      <4>2. Knows(store, heard, now, MaxIdle, 0)'
        BY <1>1, <3>2, <3>3, <3>5, <4>1 DEF Knows, First, Period
      <4> QED
        BY <1>1, <3>5, <4>1, <4>2 DEF StoreHealth
    <3> QED
      BY <2>1, <3>1, <3>3, <3>4, <3>5
  <2> QED
    BY <1>1, <2>2, <2>3, StoreHealthStep
<1>6. CASE AdvanceCommittee
  <2> DEFINE us(t) == CommitteeUpdates(Period(store.fin), t)
             s(u) == IF Verify(u, store, now) THEN Apply(u, store) ELSE store
  <2>1. PICK t \in Views :
          /\ \/ us(t) = {} /\ Finish(store)
             \/ \E u \in us(t) : Finish(s(u))
          /\ Completed(t)
    BY <1>6 DEF AdvanceCommittee
  <2>2. Ghosts /\ job = "committee"
    BY <1>6, <2>1 DEF AdvanceCommittee, Completed, Ghosts
  <2>3. ASSUME ~excused' PROVE status' # "err" /\ StoreHealth'
    <3>1. t = now /\ now - heard <= MaxIdle /\ heard' = now /\ ~excused
      BY <2>1, <2>3, Timely DEF Completed, Excuse, Late
    <3>2. Knows(store, heard, now, MaxIdle, 0) /\ store.next = None
      BY <1>1, <1>2, <2>2, <3>1 DEF StoreHealth
    <3>3. /\ us(now) = {} => Knows(store, now, now, 0, MaxIdle)
          /\ \A u \in us(now) : Verify(u, store, now)
                                /\ Knows(Apply(u, store), now, now, 0, MaxIdle)
      BY <1>0, <3>1, <3>2, CommitteeKept
    <3> HIDE DEF us
    <3>4. PICK r : Finish(r) /\ Knows(r, now, now, 0, MaxIdle)
      BY <2>1, <3>1, <3>3
    <3>5. status' = "synced" /\ job' = "none" /\ store' = r
      BY <3>4 DEF Finish, Install
    <3>6. Knows(store, heard, now, 0, MaxIdle)'
      BY <1>1, <3>1, <3>4, <3>5 DEF Knows, First, Period
    <3> QED
      BY <3>5, <3>6 DEF StoreHealth
  <2> QED
    BY <1>1, <2>2, <2>3, StoreHealthStep
<1> QED
  BY <1>3, <1>4, <1>5, <1>6 DEF Advance

(* Time passes, and what is known holds on.                                *)
LEMMA QuietHealth ==
  ASSUME LightInv, HealthInv, Blameless,
         UNCHANGED <<chain, checkpoint, status, store, startup, copy, pending>>,
         now' \in {now, now + 1}, job' = job \/ (job = "none" /\ job' = "finality")
  PROVE  HealthInv'
<1>1. /\ heard \in Nat /\ now \in Nat /\ checkpoint \in Nat /\ copy.fin \in Nat /\ store.fin \in Nat
      /\ heard' = heard /\ excused' = excused /\ now' \in Nat /\ now <= now'
  BY CopyFields, BeaconAssumption
     DEF HealthInv, LightInv, TypeOK, Slot, Sound, Store, Blameless
<1>2. heard' <= now' /\ checkpoint' < now' - 1 /\ (status' = "err" => excused')
  <2>1. heard <= now /\ checkpoint < now - 1 /\ checkpoint' = checkpoint
    BY DEF HealthInv
  <2>2. heard \in Nat /\ now \in Nat /\ checkpoint \in Nat /\ now' \in Nat /\ now <= now'
    BY <1>1
  <2>3. heard' = heard
    BY <1>1
  <2>4. PICK c \in Nat, m \in Nat, n \in Nat : c = checkpoint /\ m = now /\ n = now'
    BY <2>2
  <2>5. c < m - 1 /\ m <= n
    BY <2>1, <2>2, <2>4
  <2>6. c < n - 1 /\ checkpoint' = c
    <3>1. c < n - 1
      BY <2>5
    <3> QED
      BY <2>1, <2>4, <3>1
  <2>7. checkpoint' < now' - 1
    BY <2>4, <2>6
  <2>8. heard' <= now'
    BY <2>1, <2>2, <2>3
  <2>9. status' = "err" => excused'
    BY <1>1 DEF HealthInv
  <2> QED
    BY <2>7, <2>8, <2>9
<1>3. \A x \in {0, MaxIdle}, y \in {0, MaxIdle} :
        /\ Knows(copy, heard, now, x, y) => Knows(copy, heard, now, x, y)'
        /\ Knows(store, heard, now, x, y) => Knows(store, heard, now, x, y)'
  <2>1. copy.fin < now - 1 => copy.fin < now' - 1
    BY <1>1
  <2>2. store.fin < now - 1 => store.fin < now' - 1
    BY <1>1
  <2> QED
    BY <1>1, <2>1, <2>2 DEF Knows, First, Period
<1>4. ASSUME ~excused PROVE CopyHealth'
  <2>1. CopyHealth
    BY <1>4 DEF HealthInv
  <2>2. ASSUME NEW q \in Nat, Verified(q) PROVE Verified(q)'
    <3>1. Remaining(q, heard)' = Remaining(q, heard)
      BY <1>1, SameRemaining
    <3>2. 0 \in {0, MaxIdle}
      OBVIOUS
    <3> QED
      BY <1>1, <1>3, <2>2, <3>1, <3>2 DEF Verified, Period
  <2>3. startup = "updates" => copy' = ApplyBootstrap(checkpoint)'
    BY <2>1 DEF CopyHealth, ApplyBootstrap, Period
  <2>4. 0 \in {0, MaxIdle}
    OBVIOUS
  <2> QED
    BY <1>3, <2>1, <2>2, <2>3, <2>4 DEF CopyHealth
<1>5. ASSUME ~excused PROVE StoreHealth'
  <2>1. StoreHealth
    BY <1>5 DEF HealthInv
  <2>2. 0 \in {0, MaxIdle} /\ MaxIdle \in {0, MaxIdle}
    OBVIOUS
  <2> QED
    BY <1>3, <2>1, <2>2 DEF StoreHealth
<1> QED
  BY <1>1, <1>2, <1>4, <1>5 DEF HealthInv

LEMMA NextHealth == Favourable /\ LightInv /\ HealthInv /\ [Next]_vars => HealthInv'
<1> SUFFICES ASSUME Favourable, LightInv, HealthInv, [Next]_vars PROVE HealthInv'
  OBVIOUS
<1>1. CASE Startup
  BY <1>1, StartupHealth
<1>2. CASE Advance
  BY <1>2, AdvanceHealth
<1>3. CASE Refresh
  BY <1>3, QuietHealth DEF Refresh, env, light
<1>4. CASE AskStop
  BY <1>4, QuietHealth DEF AskStop, env, light
<1>5. CASE Join
  BY <1>5, QuietHealth DEF Join, env, light
<1>6. CASE Tick
  BY <1>6, QuietHealth DEF Tick, env, light
<1>7. CASE FallSilent
  BY <1>7, QuietHealth DEF FallSilent, light
<1>8. CASE UNCHANGED vars
  BY <1>8, QuietHealth DEF vars, light, Blameless
<1> QED
  BY <1>1, <1>2, <1>3, <1>4, <1>5, <1>6, <1>7, <1>8 DEF Next

(* Light mode only fails for a reason, when requests are frequent enough   *)
(* for the length of a period, most of the committee sign but around its   *)
(* ends, and the node is not started at the first slot.                    *)
THEOREM ErrorsHaveCauses ==
  ASSUME Favourable
  PROVE  Spec => []ErrorHasCause
<1>1. Init => HealthInv
  BY InitHealth
<1>2. LightInv /\ HealthInv /\ [Next]_vars => HealthInv'
  BY NextHealth
<1>3. LightInv /\ HealthInv => ErrorHasCause
  BY DEF LightInv, HealthInv, ErrorHasCause, ReadsAgree, EffectiveStatus
<1> QED
  BY <1>1, <1>2, <1>3, LightInvariant, PTL DEF Spec
=============================================================================
