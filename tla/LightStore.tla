----------------------------- MODULE LightStore -----------------------------
(***************************************************************************)
(* The light client store of light mode and the two functions that change  *)
(* it (src/consensus_verifier.zig): an update is verified against the      *)
(* store, then applied to it.                                              *)
(*                                                                         *)
(* A header is its slot, a sync committee the period it signs in.  Proofs  *)
(* and signatures are cryptography: an update carries the committee that   *)
(* signed it, and how many of it did.  best_valid_update is left out; only *)
(* processLightClientStoreForceUpdate reads it, which nothing calls.       *)
(***************************************************************************)
EXTENDS Integers

CONSTANTS
  PeriodLength,  \* SLOTS_PER_SYNC_COMMITTEE_PERIOD
  CommitteeSize, \* SYNC_COMMITTEE_SIZE
  None           \* Zig null

ASSUME StoreAssumption ==
  /\ PeriodLength \in Nat \ {0}
  /\ CommitteeSize \in Nat \ {0}
  /\ None \notin Int

Period(slot) == slot \div PeriodLength

(* An update: [att, sig, fin, next, by, signers], the attested and the     *)
(* signature slot, the finalized slot or None, the next committee or None, *)
(* the committee that signed, and the number of its members who did.       *)
FinalizedSlot(u) == IF u.fin = None THEN 0 ELSE u.fin

Majority(n) == n * 3 >= CommitteeSize * 2

(* What the store is before the first bootstrap.                           *)
ZeroStore ==
  [fin |-> 0, opt |-> 0, current |-> None, next |-> None, most |-> 0, mostBefore |-> 0]

ApplyBootstrap(slot) ==
  [ZeroStore EXCEPT !.fin = slot, !.opt = slot, !.current = Period(slot)]

(* verifyUpdate *)
ValidTime(u, now) == now >= u.sig /\ u.sig > u.att /\ u.att >= FinalizedSlot(u)

ValidPeriod(u, s) ==
  \/ Period(u.sig) = Period(s.fin)
  \/ s.next # None /\ Period(u.sig) = Period(s.fin) + 1

Relevant(u, s) ==
  \/ u.att > s.fin
  \/ s.next = None /\ u.next # None /\ Period(u.att) = Period(s.fin)

AgreesOnNext(u, s) ==
  u.next # None /\ Period(u.att) = Period(s.fin) /\ s.next # None => u.next = s.next

SigningCommittee(u, s) == IF Period(u.sig) = Period(s.fin) THEN s.current ELSE s.next

Verify(u, s, now) ==
  /\ u.signers > 0
  /\ ValidTime(u, now)
  /\ ValidPeriod(u, s)
  /\ Relevant(u, s)
  /\ AgreesOnNext(u, s)
  /\ SigningCommittee(u, s) = u.by

SafetyThreshold(s) == (IF s.most > s.mostBefore THEN s.most ELSE s.mostBefore) \div 2

(* Mutant: an older header of the endpoint replaces a newer one.           *)
SeenLast(u, s) ==
  LET counted == [s EXCEPT !.most = IF u.signers > @ THEN u.signers ELSE @]
  IN IF u.signers > SafetyThreshold(counted)
     THEN [counted EXCEPT !.opt = u.att] ELSE counted

(* applyUpdate: the optimistic header, if more than half as many signed it *)
(* as have lately signed any.                                              *)
Seen(u, s) ==
  LET counted == [s EXCEPT !.most = IF u.signers > @ THEN u.signers ELSE @]
  IN IF u.signers > SafetyThreshold(counted) /\ u.att > s.opt
     THEN [counted EXCEPT !.opt = u.att] ELSE counted

ShouldApply(u, s) ==
  /\ Majority(u.signers)
  /\ \/ FinalizedSlot(u) > s.fin
     \/ s.next = None /\ u.next # None /\ u.fin # None /\ Period(u.fin) = Period(u.att)

(* applyUpdateNoQuorumCheck: the committees ... *)
Learns(u, s) == s.next = None /\ Period(FinalizedSlot(u)) = Period(s.fin)
Rotates(u, s) == s.next # None /\ Period(FinalizedSlot(u)) = Period(s.fin) + 1

(* Mutant: after a rotation the committee that signs now is kept as next.  *)
CommitteesKept(u, s) ==
  IF Learns(u, s) THEN [s EXCEPT !.next = u.next]
  ELSE IF Rotates(u, s)
  THEN [s EXCEPT !.current = s.next, !.mostBefore = s.most, !.most = 0]
  ELSE s

Committees(u, s) ==
  IF Learns(u, s) THEN [s EXCEPT !.next = u.next]
  ELSE IF Rotates(u, s)
  THEN [s EXCEPT !.current = s.next, !.next = u.next, !.mostBefore = s.most, !.most = 0]
  ELSE s

(* ... and the finalized header, which the optimistic one may not lag.     *)
Finalize(u, s) ==
  IF FinalizedSlot(u) > s.fin
  THEN [s EXCEPT !.fin = u.fin, !.opt = IF u.fin > @ THEN u.fin ELSE @]
  ELSE s

ApplyNoQuorumCheck(u, s) ==
  IF s.next = None /\ ~Learns(u, s) THEN s ELSE Finalize(u, Committees(u, s))

Apply(u, s) ==
  LET seen == Seen(u, s)
  IN IF ShouldApply(u, seen) THEN ApplyNoQuorumCheck(u, seen) ELSE seen
=============================================================================
