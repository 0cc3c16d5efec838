-------------------------- MODULE HiveSmokeProofs --------------------------
(***************************************************************************)
(* Proofs about HiveSmoke, for any number of runs of the script that share *)
(* one Hive checkout: what others put there is kept, and nothing generated *)
(* stays behind unless a run was killed.                                   *)
(***************************************************************************)
EXTENDS HiveSmoke, TLAPS

(* A run that has not claimed the directory, or has let it go.             *)
Idle == {"start", "look", "lookInside", "cleanup", "exited", "killed"}

(* A run that will remove a marked directory before it exits.              *)
Caring == {"docker", "go", "hive", "judge", "cleanup", "remove"}

(* The variables' types, as far as the directory is concerned.             *)
PlaceOK ==
  /\ dir \in [by : Run \cup {User}, files : SUBSET DOMAIN FileStep] \cup {None}
  /\ DOMAIN pc = Run

(* A directory of somebody else has no marker and no run at work in it.    *)
Kept ==
  dir # None /\ dir.by = User =>
    /\ Marker \notin dir.files
    /\ \A r \in Run : pc[r] \in Idle

(* A generated directory is still being written, or it is marked and there *)
(* is a run that will look for the mark before it exits.                   *)
Owned ==
  dir # None /\ dir.by # User /\ (\A r \in Run : pc[r] # "killed") =>
    \/ \E r \in Run : pc[r] \in DOMAIN FileStep
    \/ Marked /\ \E r \in Run : pc[r] \in Caring

PInv == PlaceOK /\ Kept /\ Owned

LEMMA FileSteps ==
  /\ DOMAIN FileStep = {"Dockerfile", "hive.yaml", ".zevm-generated"}
  /\ FileStep["Dockerfile"] = "hive.yaml"
  /\ FileStep["hive.yaml"] = ".zevm-generated"
  /\ FileStep[".zevm-generated"] = "docker"
BY DEF FileStep, Marker

LEMMA PlaceInit == ASSUME Init PROVE PInv
BY DEF Init, PInv, PlaceOK, Kept, Owned, Idle

(* A step of a run that leaves the directory alone.  If the run was caring *)
(* for the directory it goes on to, and it claims none of somebody else's. *)
LEMMA Bystander ==
  ASSUME PInv, NEW r \in Run, NEW next, Goto(r, next), UNCHANGED dir,
         pc[r] \notin DOMAIN FileStep, pc[r] # "killed",
         next \in Idle \/ dir = None \/ dir.by # User,
         pc[r] \in Caring /\ Marked => next \in Caring \cup {"killed"}
  PROVE  PInv'
<1> USE DEF PInv
<1>1. PlaceOK'
  BY DEF PlaceOK, Goto
<1>2. Kept'
  BY DEF PlaceOK, Kept, Goto
<1>3. Owned'
  <2> SUFFICES ASSUME dir # None, dir.by # User, \A q \in Run : pc'[q] # "killed"
               PROVE  \/ \E q \in Run : pc'[q] \in DOMAIN FileStep
                      \/ Marked /\ \E q \in Run : pc'[q] \in Caring
    BY DEF Owned, Marked
  <2>1. \A q \in Run : pc'[q] = IF q = r THEN next ELSE pc[q]
    BY DEF PlaceOK, Goto
  <2>2. \A q \in Run : pc[q] # "killed"
    BY <2>1
  <2>3. CASE \E q \in Run : pc[q] \in DOMAIN FileStep
    BY <2>1, <2>3
  <2>4. CASE Marked /\ \E q \in Run : pc[q] \in Caring
    BY <2>1, <2>4
  <2> QED BY <2>2, <2>3, <2>4 DEF Owned
<1> QED BY <1>1, <1>2, <1>3

(* A run that is past looking at the directory works on none of others.    *)
LEMMA NoForeigner ==
  ASSUME PInv, NEW r \in Run, pc[r] \notin Idle
  PROVE  dir = None \/ dir.by # User
BY DEF PInv, Kept

LEMMA SynchronousStep ==
  ASSUME PInv, NEW r \in Run,
         Require(r) \/ Look(r) \/ LookInside(r) \/ Clear(r) \/ Mkdir(r) \/ PutFile(r)
  PROVE  PInv'
<1>1. CASE Require(r)
  BY <1>1, Bystander, FileSteps DEF Require, Idle, Caring
<1>2. CASE Look(r)
  <2>1. CASE dir = None
    BY <1>2, <2>1, Bystander, FileSteps DEF Look, Idle, Caring
  <2>2. CASE dir # None
    BY <1>2, <2>2, Bystander, FileSteps DEF Look, Idle, Caring
  <2> QED BY <2>1, <2>2
<1>3. CASE LookInside(r)
  <2>1. CASE Marked
    <3>1. dir # None /\ dir.by # User
      BY <2>1 DEF PInv, Kept, Marked
    <3> QED BY <1>3, <2>1, <3>1, Bystander, FileSteps DEF LookInside, Caring
  <2>2. CASE ~Marked
    BY <1>3, <2>2, Bystander, FileSteps DEF LookInside, Throw, Exit, Idle, Caring
  <2> QED BY <2>1, <2>2
<1>4. CASE Clear(r)
  BY <1>4 DEF Clear, Goto, PInv, PlaceOK, Kept, Owned
<1>5. CASE Mkdir(r)
  <2>1. dir = None \/ dir.by # User
    BY <1>5, NoForeigner DEF Mkdir, Idle
  <2>2. User # r
    BY HiveAssumption
  <2>3. PlaceOK'
    BY <1>5 DEF Mkdir, Goto, PInv, PlaceOK
  <2>4. dir'.by # User
    BY <1>5, <2>1, <2>2 DEF Mkdir
  <2>5. pc'[r] \in DOMAIN FileStep
    BY <1>5, FileSteps DEF Mkdir, Goto, PInv, PlaceOK
  <2> QED BY <2>3, <2>4, <2>5 DEF PInv, Kept, Owned
<1>6. CASE PutFile(r)
  <2>1. pc[r] \notin Idle
    BY <1>6, FileSteps DEF PutFile, Idle
  <2>2. dir = None \/ dir.by # User
    BY <2>1, NoForeigner
  <2>3. CASE dir = None
    BY <1>6, <2>3 DEF PutFile, Throw, Exit, Goto, PInv, PlaceOK, Kept, Owned
  <2>4. CASE dir # None
    <3>1. /\ dir' = [dir EXCEPT !.files = @ \cup {pc[r]}]
          /\ Goto(r, FileStep[pc[r]])
      BY <1>6, <2>4 DEF PutFile
    <3>2. PlaceOK' /\ dir'.by # User
      BY <1>6, <2>2, <2>4, <3>1 DEF PutFile, Goto, PInv, PlaceOK
    <3>3. pc'[r] = FileStep[pc[r]]
      BY <3>1 DEF Goto, PInv, PlaceOK
    <3>4. CASE pc[r] = Marker
      <4>1. pc'[r] \in Caring
        BY <3>3, <3>4, FileSteps DEF Marker, Caring
      <4>2. Marker \in dir'.files
        BY <2>4, <3>1, <3>4 DEF PInv, PlaceOK
      <4> QED BY <3>2, <4>1, <4>2 DEF PInv, Kept, Owned, Marked
    <3>5. CASE pc[r] # Marker
      <4>1. pc'[r] \in DOMAIN FileStep
        BY <1>6, <3>3, <3>5, FileSteps DEF PutFile, Marker
      <4> QED BY <3>2, <4>1 DEF PInv, Kept, Owned
    <3> QED BY <3>4, <3>5
  <2> QED BY <2>3, <2>4
<1> QED BY <1>1, <1>2, <1>3, <1>4, <1>5, <1>6

LEMMA ChildStep ==
  ASSUME PInv, NEW r \in Run,
         \/ DockerBuilt(r) \/ GoBuilt(r) \/ HiveExits(r) \/ Judge(r)
         \/ Signal(r) \/ Kill(r)
  PROVE  PInv'
<1> USE Bystander, FileSteps DEF Throw, Exit, Idle, Caring
<1>1. CASE DockerBuilt(r)
  BY <1>1, NoForeigner DEF DockerBuilt
<1>2. CASE GoBuilt(r)
  BY <1>2, NoForeigner DEF GoBuilt
<1>3. CASE HiveExits(r)
  BY <1>3, NoForeigner DEF HiveExits
<1>4. CASE Judge(r)
  BY <1>4, NoForeigner DEF Judge
<1>5. CASE Signal(r)
  BY <1>5, NoForeigner DEF Signal
<1>6. CASE Kill(r)
  <2>1. CASE pc[r] \notin DOMAIN FileStep
    BY <1>6, <2>1 DEF Kill, Over
  <2>2. CASE pc[r] \in DOMAIN FileStep
    <3>1. pc'[r] = "killed" /\ PlaceOK'
      BY <1>6 DEF Kill, Goto, PInv, PlaceOK
    <3> QED BY <1>6, <2>2, <3>1, NoForeigner DEF Kill, PInv, Kept, Owned
  <2> QED BY <2>1, <2>2
<1> QED BY <1>1, <1>2, <1>3, <1>4, <1>5, <1>6

LEMMA LastStep ==
  ASSUME PInv, NEW r \in Run, Cleanup(r) \/ Remove(r)
  PROVE  PInv'
<1>1. CASE Cleanup(r)
  <2>1. CASE Marked
    <3>1. dir # None /\ dir.by # User
      BY <2>1 DEF PInv, Kept, Marked
    <3> QED BY <1>1, <2>1, <3>1, Bystander, FileSteps DEF Cleanup, Caring
  <2>2. CASE ~Marked
    BY <1>1, <2>2, Bystander, FileSteps DEF Cleanup, CleanedUp, Idle
  <2> QED BY <2>1, <2>2
<1>2. CASE Remove(r)
  BY <1>2 DEF Remove, CleanedUp, Goto, PInv, PlaceOK, Kept, Owned
<1> QED BY <1>1, <1>2

LEMMA UserStep == ASSUME PInv, UserMakesClient PROVE PInv'
<1>1. PlaceOK'
  BY FileSteps DEF UserMakesClient, PInv, PlaceOK
<1>2. Kept'
  BY DEF UserMakesClient, Kept, Over, Idle, Marker
<1>3. Owned'
  BY DEF UserMakesClient, Owned
<1> QED BY <1>1, <1>2, <1>3 DEF PInv

LEMMA PlaceStep == ASSUME PInv, [Next]_vars PROVE PInv'
<1>1. ASSUME NEW r \in Run, Step(r) PROVE PInv'
  <2>1. CASE UNCHANGED <<dir, pc>>
    BY <2>1 DEF PInv, PlaceOK, Kept, Owned, Marked
  <2> QED BY <1>1, <2>1, SynchronousStep, ChildStep, LastStep DEF Step, HiveWrites, Read
<1>2. CASE UNCHANGED vars
  BY <1>2 DEF vars, PInv, PlaceOK, Kept, Owned, Marked
<1> QED BY <1>1, <1>2, UserStep, ChildStep DEF Next

LEMMA AlwaysInPlace == Spec => []PInv
BY PlaceInit, PlaceStep, PTL DEF Spec

(* A client directory the script did not generate is never touched.        *)
THEOREM AlwaysKept == Spec => ForeignKept
<1>1. ASSUME PInv, Next, dir # None, dir.by = User PROVE dir' = dir
  <2>1. \A r \in Run : pc[r] \in Idle
    BY <1>1 DEF PInv, Kept
  <2>2. ASSUME NEW r \in Run, Step(r) \/ Signal(r) \/ Kill(r) PROVE dir' = dir
    BY <2>1, <2>2, FileSteps
       DEF Idle, Step, Signal, Kill, Require, Look, LookInside, Clear, Mkdir, PutFile,
           DockerBuilt, GoBuilt, HiveWrites, Read, HiveExits, Judge, Cleanup, Remove
  <2> QED BY <1>1, <2>2 DEF Next, UserMakesClient
<1>2. PInv /\ [Next]_vars => [dir # None /\ dir.by = User => dir' = dir]_vars
  BY <1>1
<1> QED BY <1>2, AlwaysInPlace, PTL DEF Spec, ForeignKept

(* When all runs are over and none was killed, no generated client is left.*)
THEOREM AlwaysClean == Spec => []EndsClean
<1>1. PInv => EndsClean
  BY FileSteps DEF PInv, Owned, EndsClean, Caring
<1> QED BY <1>1, AlwaysInPlace, PTL

-----------------------------------------------------------------------------
(* Exit code 0.  A simulation that failed or gave no counts writes noise   *)
(* alone, so the log shows none; what is judged has been read to its end.  *)

Text == {"noise", "counts", "end"}

Chunk == [to : Stream, text : Text]

Process == [said : Seq(Chunk), pipe : [Stream -> Seq(Text)], report : Report \cup {"error"}]

Ended == {"cleanup", "remove", "exited", "killed"}

HiveTypeOK ==
  /\ DOMAIN pc = Run /\ DOMAIN code = Run /\ DOMAIN log = Run
  /\ hive \in [Run -> Process]

Noisy(said) == \A i \in 1..Len(said) : said[i].text = "noise"
NoisyPipe(pipe) == \A i \in 1..Len(pipe) : pipe[i] = "noise"

(* Neither in the log nor on its way there is a line with counts.          *)
Silent(h, l) ==
  /\ l = "nothing"
  /\ Noisy(h.said)
  /\ \A s \in Stream : NoisyPipe(h.pipe[s])

Drained(h) == h.said = <<>> /\ \A s \in Stream : h.pipe[s] = <<>>

(* What holds of a run at p, with code c, Hive process h and log l.        *)
Sound(p, c, h, l) ==
  /\ p \notin {"hive", "judge"} \cup Ended => l = "nothing" /\ h = NoHive
  /\ h.report \in {"error", "no counts"} => Silent(h, l)
  /\ p = "judge" => Drained(h)
  /\ c = 0 => p \in Ended /\ h.report = "all passed" /\ Drained(h)

RunSound(r) == Sound(pc[r], code[r], hive[r], log[r])

VInv == HiveTypeOK /\ \A r \in Run : RunSound(r)

LEMMA NoHiveIsSilent ==
  NoHive \in Process /\ NoHive.report = "error" /\ Silent(NoHive, "nothing")
BY DEF NoHive, Process, Silent, Noisy, NoisyPipe

LEMMA VerdictInit == ASSUME Init PROVE VInv
<1>1. HiveTypeOK
  BY NoHiveIsSilent DEF Init, HiveTypeOK
<1>2. ASSUME NEW r \in Run PROVE RunSound(r)
  <2>1. hive[r] = NoHive /\ log[r] = "nothing" /\ pc[r] = "start" /\ code[r] = None
    BY DEF Init
  <2>2. None # 0
    BY HiveAssumption
  <2> QED BY <2>1, <2>2, NoHiveIsSilent DEF RunSound, Sound, Ended
<1> QED BY <1>1, <1>2 DEF VInv

(* A step of one run changes nothing another run's soundness speaks of.    *)
LEMMA OnlyItsOwn ==
  ASSUME VInv, NEW r \in Run, HiveTypeOK', RunSound(r)',
         \A q \in Run \ {r} : /\ pc'[q] = pc[q] /\ code'[q] = code[q]
                              /\ hive'[q] = hive[q] /\ log'[q] = log[q]
  PROVE  VInv'
<1>1. ASSUME NEW q \in Run PROVE RunSound(q)'
  <2>1. CASE q = r
    BY <2>1
  <2>2. CASE q # r
    BY <2>2 DEF VInv, RunSound
  <2> QED BY <2>1, <2>2
<1> QED BY <1>1 DEF VInv

(* A failure forgets what was read.                                        *)
LEMMA FailedExit ==
  ASSUME VInv, NEW r \in Run, NEW c \in {1, 130, 143}, NEW n \in {1, 2}, Exit(r, c, n)
  PROVE  VInv'
<1>1. /\ pc'[r] = "cleanup" /\ code'[r] = c /\ hive'[r] = NoHive /\ log'[r] = "nothing"
      /\ HiveTypeOK'
  BY NoHiveIsSilent DEF Exit, Goto, VInv, HiveTypeOK
<1>2. RunSound(r)'
  BY <1>1, NoHiveIsSilent DEF RunSound, Sound, Ended
<1>3. \A q \in Run \ {r} : /\ pc'[q] = pc[q] /\ code'[q] = code[q]
                           /\ hive'[q] = hive[q] /\ log'[q] = log[q]
  BY DEF Exit, Goto, VInv, HiveTypeOK
<1> QED BY <1>1, <1>2, <1>3, OnlyItsOwn

(* A step that only takes a run on, neither into Hive nor to judging.      *)
LEMMA GoingOn ==
  ASSUME VInv, NEW r \in Run, NEW next, Goto(r, next), UNCHANGED <<code, hive, log>>,
         next # "judge", pc[r] \in Ended \cup {"hive", "judge"} => next \in Ended
  PROVE  VInv'
<1>1. HiveTypeOK' /\ pc'[r] = next
  BY DEF Goto, VInv, HiveTypeOK
<1>2. Sound(pc[r], code[r], hive[r], log[r])
  BY DEF VInv, RunSound
<1>3. Sound(next, code[r], hive[r], log[r])
  BY <1>2 DEF Sound
<1>4. RunSound(r)'
  BY <1>1, <1>3 DEF RunSound
<1>5. \A q \in Run \ {r} : pc'[q] = pc[q]
  BY DEF Goto, VInv, HiveTypeOK
<1> QED BY <1>1, <1>4, <1>5, OnlyItsOwn

(* A run may give up at any point.                                         *)
LEMMA RefusedIsSound ==
  ASSUME NEW p, NEW c, NEW h, NEW l, Sound(p, c, h, l)
  PROVE  Sound("exited", 1, h, l)
<1>1. "exited" \in Ended /\ "exited" # "judge" /\ 1 # 0
  BY DEF Ended
<1>2. h.report \in {"error", "no counts"} => Silent(h, l)
  BY DEF Sound
<1> QED BY <1>1, <1>2 DEF Sound

LEMMA BeforeHive ==
  ASSUME VInv, NEW r \in Run,
         \/ Require(r) \/ Look(r) \/ LookInside(r) \/ Clear(r) \/ Mkdir(r) \/ PutFile(r)
         \/ DockerBuilt(r) \/ Cleanup(r) \/ Remove(r) \/ Kill(r)
  PROVE  VInv'
<1> USE GoingOn, FailedExit, FileSteps DEF Throw, Ended
<1>1. CASE Require(r)
  <2>1. CASE Goto(r, "look") /\ UNCHANGED <<code, hive, log>>
    BY <1>1, <2>1 DEF Require
  <2>2. CASE Goto(r, "exited") /\ code' = [code EXCEPT ![r] = 1] /\ UNCHANGED <<hive, log>>
    <3>1. HiveTypeOK' /\ pc'[r] = "exited" /\ code'[r] = 1
      BY <2>2 DEF Goto, VInv, HiveTypeOK
    <3>2. Sound("exited", 1, hive[r], log[r])
      BY RefusedIsSound DEF VInv, RunSound
    <3>3. RunSound(r)'
      BY <2>2, <3>1, <3>2 DEF RunSound
    <3>4. \A q \in Run \ {r} : pc'[q] = pc[q] /\ code'[q] = code[q]
      BY <2>2 DEF Goto, VInv, HiveTypeOK
    <3> QED BY <2>2, <3>1, <3>3, <3>4, OnlyItsOwn
  <2> QED BY <1>1, <2>1, <2>2 DEF Require
<1>2. CASE Look(r)
  BY <1>2 DEF Look
<1>3. CASE LookInside(r)
  BY <1>3 DEF LookInside
<1>4. CASE Clear(r)
  BY <1>4 DEF Clear
<1>5. CASE Mkdir(r)
  BY <1>5 DEF Mkdir
<1>6. CASE PutFile(r)
  <2>1. FileStep[pc[r]] \in {"hive.yaml", ".zevm-generated", "docker"}
    BY <1>6 DEF PutFile
  <2>2. pc[r] \notin {"hive", "judge"} \cup Ended
    BY <1>6 DEF PutFile
  <2>3. CASE dir = None
    BY <1>6, <2>3 DEF PutFile
  <2>4. CASE dir # None
    BY <1>6, <2>1, <2>2, <2>4 DEF PutFile
  <2> QED BY <2>3, <2>4
<1>7. CASE DockerBuilt(r)
  BY <1>7 DEF DockerBuilt
<1>8. CASE Cleanup(r)
  BY <1>8 DEF Cleanup, CleanedUp
<1>9. CASE Remove(r)
  BY <1>9 DEF Remove, CleanedUp
<1>10. CASE Kill(r)
  BY <1>10 DEF Kill
<1> QED BY <1>1, <1>2, <1>3, <1>4, <1>5, <1>6, <1>7, <1>8, <1>9, <1>10

(* What Hive may say: chunks, and none but noise when it gives no counts.  *)
LEMMA NoiseIsNoisy ==
  ASSUME NEW n \in Nat PROVE Noise(n) \in Seq(Chunk) /\ Noisy(Noise(n))
BY DEF Noise, Noisy, Chunk, Stream, Text

LEMMA OutputIsChunks ==
  ASSUME NEW report, NEW said \in Output(report)
  PROVE  /\ said \in Seq(Chunk)
         /\ report \in {"error", "no counts"} => Noisy(said)
<1>1. PipeSize \in Nat
  BY HiveAssumption
<1>2. Counts \in Seq(Chunk)
  BY DEF Counts, Chunk, Stream, Text
<1>3. CASE report \in {"error", "no counts"}
  <2>1. said = Noise(PipeSize + 1)
    BY <1>3 DEF Output
  <2>2. Noise(PipeSize + 1) \in Seq(Chunk) /\ Noisy(Noise(PipeSize + 1))
    BY <1>1, NoiseIsNoisy
  <2> QED BY <2>1, <2>2
<1>4. CASE report \notin {"error", "no counts"}
  <2>1. said \in {Noise(n) \o Counts \o Noise(PipeSize + 1 - n) : n \in 0..PipeSize + 1}
    BY <1>4 DEF Output
  <2>2. PICK n \in 0..PipeSize + 1 : said = Noise(n) \o Counts \o Noise(PipeSize + 1 - n)
    BY <2>1
  <2>3. n \in Nat /\ PipeSize + 1 - n \in Nat
    BY <1>1
  <2>4. Noise(n) \in Seq(Chunk) /\ Noise(PipeSize + 1 - n) \in Seq(Chunk)
    BY <2>3, NoiseIsNoisy
  <2>5. Noise(n) \o Counts \in Seq(Chunk)
    BY <1>2, <2>4
  <2>6. said \in Seq(Chunk)
    BY <2>2, <2>4, <2>5
  <2> QED BY <1>4, <2>6
<1> QED BY <1>3, <1>4

LEMMA HiveStarts == ASSUME VInv, NEW r \in Run, GoBuilt(r) PROVE VInv'
<1>1. CASE Throw(r)
  BY <1>1, FailedExit DEF Throw
<1>2. CASE ~Throw(r)
  <2>1. /\ pc[r] = "go" /\ Goto(r, "hive") /\ UNCHANGED <<code, log>>
        /\ \E report \in Report : \E said \in Output(report) :
             hive' = [hive EXCEPT ![r] =
                        [said |-> said, pipe |-> @.pipe, report |-> report]]
    BY <1>2 DEF GoBuilt
  <2>2. PICK report \in Report : \E said \in Output(report) :
          hive' = [hive EXCEPT ![r] = [said |-> said, pipe |-> @.pipe, report |-> report]]
    BY <2>1
  <2>3. PICK said \in Output(report) :
          hive' = [hive EXCEPT ![r] = [said |-> said, pipe |-> @.pipe, report |-> report]]
    BY <2>2
  <2> DEFINE h == [said |-> said, pipe |-> NoHive.pipe, report |-> report]
  <2>4. hive[r] = NoHive /\ log[r] = "nothing" /\ code[r] # 0
    BY <2>1 DEF VInv, RunSound, Sound, Ended
  <2>5. h \in Process
    BY OutputIsChunks, NoHiveIsSilent DEF Process
  <2>6. HiveTypeOK' /\ pc'[r] = "hive" /\ hive'[r] = h
    BY <2>1, <2>3, <2>4, <2>5 DEF Goto, VInv, HiveTypeOK
  <2>7. report \in {"error", "no counts"} => Silent(h, "nothing")
    BY OutputIsChunks, NoHiveIsSilent DEF Silent
  <2>8. Sound("hive", code[r], h, "nothing")
    BY <2>4, <2>7 DEF Sound, Ended
  <2>9. RunSound(r)'
    BY <2>1, <2>4, <2>6, <2>8 DEF RunSound
  <2>10. \A q \in Run \ {r} : pc'[q] = pc[q] /\ hive'[q] = hive[q]
    BY <2>1, <2>3 DEF Goto, VInv, HiveTypeOK
  <2> QED BY <2>1, <2>6, <2>9, <2>10, OnlyItsOwn
<1> QED BY <1>1, <1>2

LEMMA HiveTalks == ASSUME VInv, NEW r \in Run, HiveWrites(r) PROVE VInv'
<1> DEFINE old == hive[r]
           chunk == Head(old.said)
           h == [said |-> Tail(old.said), report |-> old.report,
                 pipe |-> [old.pipe EXCEPT ![chunk.to] = Append(@, chunk.text)]]
<1>1. /\ old \in Process /\ old.said # <<>> /\ pc[r] = "hive"
      /\ hive' = [hive EXCEPT ![r] = h] /\ UNCHANGED <<pc, code, log>>
  BY DEF HiveWrites, VInv, HiveTypeOK
<1> HIDE DEF old
<1>2. /\ old.said \in Seq(Chunk) /\ old.pipe \in [Stream -> Seq(Text)]
      /\ old.report \in Report \cup {"error"}
  BY <1>1 DEF Process
<1>3. chunk \in Chunk /\ Tail(old.said) \in Seq(Chunk)
  BY <1>1, <1>2
<1>4. chunk.to \in Stream /\ chunk.text \in Text
  BY <1>3 DEF Chunk
<1>5. h \in Process
  BY <1>2, <1>3, <1>4 DEF Process
<1>6. ASSUME Silent(old, log[r]) PROVE Silent(h, log[r])
  <2>1. Noisy(Tail(old.said)) /\ chunk.text = "noise"
    BY <1>1, <1>2, <1>6 DEF Silent, Noisy
  <2>2. ASSUME NEW s \in Stream PROVE NoisyPipe(h.pipe[s])
    <3>1. old.pipe[s] \in Seq(Text) /\ NoisyPipe(old.pipe[s])
      BY <1>2, <1>6 DEF Silent
    <3>2. NoisyPipe(Append(old.pipe[s], "noise"))
      BY <3>1 DEF NoisyPipe, Text
    <3>3. h.pipe[s] \in {old.pipe[s], Append(old.pipe[s], "noise")}
      BY <1>2, <2>1
    <3> QED BY <3>1, <3>2, <3>3
  <2> QED BY <1>6, <2>1, <2>2 DEF Silent
<1>7. Sound("hive", code[r], old, log[r])
  BY <1>1 DEF VInv, RunSound, old
<1>8. Sound("hive", code[r], h, log[r])
  BY <1>6, <1>7 DEF Sound, Ended
<1> HIDE DEF h
<1>9. HiveTypeOK' /\ hive'[r] = h
  BY <1>1, <1>5 DEF VInv, HiveTypeOK
<1>10. RunSound(r)'
  BY <1>1, <1>8, <1>9 DEF RunSound
<1>11. \A q \in Run \ {r} : hive'[q] = hive[q]
  BY <1>1 DEF VInv, HiveTypeOK
<1> QED BY <1>1, <1>9, <1>10, <1>11, OnlyItsOwn

LEMMA HiveIsHeard ==
  ASSUME VInv, NEW r \in Run, NEW s \in Stream, Read(r, s)
  PROVE  VInv'
<1> DEFINE old == hive[r]
           first == Head(old.pipe[s])
           h == [said |-> old.said, report |-> old.report,
                 pipe |-> [old.pipe EXCEPT ![s] = Tail(@)]]
<1>1. /\ old \in Process /\ old.pipe[s] # <<>> /\ pc[r] = "hive"
      /\ hive' = [hive EXCEPT ![r] = h] /\ UNCHANGED <<pc, code>>
      /\ log' = [log EXCEPT ![r] = Shown(@, first)]
  BY DEF Read, MayRead, VInv, HiveTypeOK
<1> HIDE DEF old
<1>2. /\ old.said \in Seq(Chunk) /\ old.pipe \in [Stream -> Seq(Text)]
      /\ old.report \in Report \cup {"error"}
  BY <1>1 DEF Process
<1>3. Tail(old.pipe[s]) \in Seq(Text)
  BY <1>1, <1>2
<1>4. h \in Process
  BY <1>2, <1>3 DEF Process
<1>5. ASSUME Silent(old, log[r]) PROVE Silent(h, Shown(log[r], first))
  <2>1. old.pipe[s] \in Seq(Text) /\ NoisyPipe(old.pipe[s])
    BY <1>2, <1>5 DEF Silent
  <2>2. NoisyPipe(Tail(old.pipe[s])) /\ first = "noise"
    BY <1>1, <2>1 DEF NoisyPipe
  <2>3. Shown(log[r], first) = "nothing"
    BY <1>5, <2>2 DEF Silent, Shown
  <2>4. \A q \in Stream : h.pipe[q] \in {old.pipe[q], Tail(old.pipe[s])}
    BY <1>2
  <2>5. \A q \in Stream : NoisyPipe(h.pipe[q])
    <3> HIDE DEF h
    <3> QED BY <1>5, <2>2, <2>4 DEF Silent
  <2> QED BY <1>5, <2>3, <2>5 DEF Silent
<1>6. Sound("hive", code[r], old, log[r])
  BY <1>1 DEF VInv, RunSound, old
<1>7. Sound("hive", code[r], h, Shown(log[r], first))
  BY <1>5, <1>6 DEF Sound, Ended
<1> HIDE DEF h
<1>8. HiveTypeOK' /\ hive'[r] = h /\ log'[r] = Shown(log[r], first)
  BY <1>1, <1>4 DEF VInv, HiveTypeOK
<1>9. RunSound(r)'
  BY <1>1, <1>7, <1>8 DEF RunSound
<1>10. \A q \in Run \ {r} : hive'[q] = hive[q] /\ log'[q] = log[q]
  BY <1>1 DEF VInv, HiveTypeOK
<1> QED BY <1>1, <1>8, <1>9, <1>10, OnlyItsOwn

LEMMA HiveIsOver == ASSUME VInv, NEW r \in Run, HiveExits(r) PROVE VInv'
<1>1. CASE Throw(r)
  BY <1>1, FailedExit DEF Throw
<1>2. CASE Goto(r, "judge") /\ UNCHANGED <<code, cleanups, hive, log>>
  <2>1. HiveTypeOK' /\ pc'[r] = "judge" /\ pc[r] = "hive" /\ Drained(hive[r])
    BY <1>2 DEF HiveExits, HiveEnded, Drained, Goto, VInv, HiveTypeOK
  <2>2. Sound("hive", code[r], hive[r], log[r])
    BY <2>1 DEF VInv, RunSound
  <2>3. Sound("judge", code[r], hive[r], log[r])
    BY <2>1, <2>2 DEF Sound, Ended
  <2>4. RunSound(r)'
    BY <1>2, <2>1, <2>3 DEF RunSound
  <2>5. \A q \in Run \ {r} : pc'[q] = pc[q]
    BY <1>2 DEF Goto, VInv, HiveTypeOK
  <2> QED BY <1>2, <2>1, <2>4, <2>5, OnlyItsOwn
<1> QED BY <1>1, <1>2 DEF HiveExits

LEMMA HiveIsJudged == ASSUME VInv, NEW r \in Run, Judge(r) PROVE VInv'
<1>1. CASE ~Succeeds(r)
  BY <1>1, FailedExit DEF Judge
<1>2. CASE Succeeds(r)
  <2>1. Exit(r, 0, 1) /\ pc[r] = "judge"
    BY <1>2 DEF Judge
  <2>2. /\ HiveTypeOK' /\ pc'[r] = "cleanup" /\ code'[r] = 0 /\ UNCHANGED <<hive, log>>
        /\ \A q \in Run \ {r} : pc'[q] = pc[q] /\ code'[q] = code[q]
    BY <2>1 DEF Exit, Goto, VInv, HiveTypeOK
  <2>3. Sound("judge", code[r], hive[r], log[r])
    BY <2>1 DEF VInv, RunSound
  <2>4. hive[r].report \notin {"error", "no counts"} /\ Drained(hive[r])
    BY <1>2, <2>3 DEF Sound, Silent, Succeeds
  <2>5. hive[r].report \in Report \cup {"error"}
    BY DEF VInv, HiveTypeOK, Process
  <2>6. hive[r].report = "all passed"
    BY <1>2, <2>4, <2>5, HiveAssumption DEF Succeeds
  <2>7. Sound("cleanup", 0, hive[r], log[r])
    BY <2>4, <2>6 DEF Sound, Ended
  <2>8. RunSound(r)'
    BY <2>2, <2>7 DEF RunSound
  <2> QED BY <2>2, <2>8, OnlyItsOwn
<1> QED BY <1>1, <1>2

LEMMA VerdictStep == ASSUME VInv, [Next]_vars PROVE VInv'
<1>1. ASSUME NEW r \in Run, Signal(r) PROVE VInv'
  BY <1>1, FailedExit DEF Signal
<1>2. ASSUME NEW r \in Run, Step(r) PROVE VInv'
  BY <1>2, BeforeHive, HiveStarts, HiveTalks, HiveIsHeard, HiveIsOver, HiveIsJudged DEF Step
<1>3. CASE UNCHANGED <<pc, code, hive, log>>
  BY <1>3 DEF VInv, HiveTypeOK, RunSound
<1> QED BY <1>1, <1>2, <1>3, BeforeHive DEF Next, UserMakesClient, vars

(* Exit code 0 is only given for a simulation that was read to its end,    *)
(* ended well, ran tests and failed none.                                  *)
THEOREM AlwaysEarned == Spec => []PassIsEarned
<1>1. VInv => PassIsEarned
  BY DEF VInv, RunSound, Sound, Drained, PassIsEarned, HiveEnded
<1> QED BY <1>1, VerdictInit, VerdictStep, PTL DEF Spec

-----------------------------------------------------------------------------
(* Types.  The count of cleanups never falls below 0, because a run only   *)
(* cleans up while it still has a cleanup to do.                           *)
CleanupsAhead ==
  \A r \in Run : pc[r] \in {"cleanup", "remove"} => cleanups[r] \in {1, 2}

TInv == TypeOK /\ CleanupsAhead

LEMMA TypeInit == Init => TInv
BY FileSteps DEF Init, TInv, TypeOK, CleanupsAhead, Revision

Steps == {"start", "look", "lookInside", "clear", "mkdir", "docker", "go",
          "hive", "judge", "cleanup", "remove"} \cup DOMAIN FileStep \cup Over

RunsOK ==
  /\ pc \in [Run -> Steps]
  /\ code \in [Run -> {None, 0, 1, 130, 143}]
  /\ cleanups \in [Run -> 0..2]
  /\ CleanupsAhead

DirOK == dir \in [by : Run \cup {User}, files : SUBSET DOMAIN FileStep] \cup {None}

LEMMA TInvHas == ASSUME TInv PROVE RunsOK /\ DirOK
BY DEF TInv, TypeOK, RunsOK, DirOK, Steps

(* A run goes on to a step that is not the end, and nothing else changes.  *)
LEMMA StepOn ==
  ASSUME TInv, NEW r \in Run, NEW next \in Steps, next \notin {"cleanup", "remove"},
         Goto(r, next), UNCHANGED <<code, cleanups>>
  PROVE  RunsOK'
<1>1. RunsOK
  BY TInvHas
<1>2. pc' \in [Run -> Steps] /\ \A q \in Run : pc'[q] = IF q = r THEN next ELSE pc[q]
  BY <1>1 DEF RunsOK, Goto
<1>3. CleanupsAhead'
  BY <1>1, <1>2 DEF RunsOK, CleanupsAhead
<1> QED
  BY <1>1, <1>2, <1>3 DEF RunsOK

(* A run asks for its end.                                                 *)
LEMMA Exiting ==
  ASSUME TInv, NEW r \in Run, NEW c \in {0, 1, 130, 143}, NEW n \in {1, 2}, Exit(r, c, n)
  PROVE  RunsOK'
<1>1. RunsOK /\ "cleanup" \in Steps
  BY TInvHas DEF Steps
<1> QED
  BY <1>1 DEF RunsOK, CleanupsAhead, Exit, Goto

LEMMA CleaningUp ==
  ASSUME TInv, NEW r \in Run, pc[r] \in {"cleanup", "remove"}, CleanedUp(r), UNCHANGED code
  PROVE  RunsOK'
<1>1. RunsOK /\ "cleanup" \in Steps /\ "exited" \in Steps
  BY TInvHas DEF Steps, Over
<1>2. cleanups[r] \in {1, 2}
  BY DEF TInv, CleanupsAhead
<1> QED
  BY <1>1, <1>2 DEF RunsOK, CleanupsAhead, CleanedUp, Goto

LEMMA TypeStep == ASSUME TInv, [Next]_vars PROVE TInv'
<1>0. RunsOK /\ DirOK
  BY TInvHas
<1>1. checkout' = checkout
  BY DEF Next, vars, UserMakesClient, Step, Signal, Kill, Require, Look, LookInside, Clear,
         Mkdir, PutFile, DockerBuilt, GoBuilt, HiveWrites, Read, HiveExits, Judge, Cleanup,
         Remove
<1>2. ASSUME RunsOK', DirOK', branch' \in [Run -> Revision \cup {None}] PROVE TInv'
  BY <1>1, <1>2 DEF TInv, TypeOK, RunsOK, DirOK, Steps, Revision
<1>3. ASSUME UNCHANGED <<pc, code, cleanups>> PROVE RunsOK'
  BY <1>0, <1>3 DEF RunsOK, CleanupsAhead
<1>4. ASSUME UNCHANGED dir PROVE DirOK'
  BY <1>0, <1>4 DEF DirOK
<1>5. ASSUME UNCHANGED branch PROVE branch' \in [Run -> Revision \cup {None}]
  BY <1>5 DEF TInv, TypeOK
<1>6. CASE UNCHANGED vars
  BY <1>2, <1>3, <1>4, <1>5, <1>6 DEF vars
<1>7. CASE UserMakesClient
  <2>1. DirOK'
    BY <1>7, FileSteps DEF UserMakesClient, DirOK
  <2> QED
    BY <1>2, <1>3, <1>5, <1>7, <2>1 DEF UserMakesClient
<1>8. ASSUME NEW r \in Run, Step(r) \/ Signal(r) \/ Kill(r) PROVE TInv'
  <2>0. /\ \A s \in {"start", "look", "lookInside", "clear", "mkdir", "docker", "go", "hive",
                     "judge", "Dockerfile", "hive.yaml", ".zevm-generated", "exited",
                     "killed"} : s \in Steps
        /\ pc[r] \in Steps
    BY FileSteps DEF Steps, Over, TInv, TypeOK
  <2>1. CASE Require(r)
    <3>1. RunsOK'
      <4>1. CASE Goto(r, "look") /\ UNCHANGED code
        BY <2>0, <2>1, <4>1, StepOn DEF Require
      <4>2. CASE Goto(r, "exited") /\ code' = [code EXCEPT ![r] = 1]
        BY <1>0, <2>0, <2>1, <4>2 DEF Require, Goto, RunsOK, CleanupsAhead
      <4> QED
        BY <2>1, <4>1, <4>2 DEF Require
    <3>2. ApisRef \in Revision \cup {None}
      BY DEF ApisRef, ResolvedHead, Revision, TInv, TypeOK
    <3>3. branch' \in [Run -> Revision \cup {None}]
      BY <2>1, <3>2 DEF Require, TInv, TypeOK
    <3> QED
      BY <1>2, <1>4, <2>1, <3>1, <3>3 DEF Require
  <2>2. CASE Look(r)
    <3>1. RunsOK'
      <4>1. CASE dir = None
        BY <2>0, <2>2, <4>1, StepOn DEF Look
      <4>2. CASE dir # None
        BY <2>0, <2>2, <4>2, StepOn DEF Look
      <4> QED
        BY <4>1, <4>2
    <3> QED
      BY <1>2, <1>4, <1>5, <2>2, <3>1 DEF Look
  <2>3. CASE LookInside(r)
    <3>1. RunsOK'
      BY <2>0, <2>3, StepOn, Exiting DEF LookInside, Throw
    <3> QED
      BY <1>2, <1>4, <1>5, <2>3, <3>1 DEF LookInside
  <2>4. CASE Clear(r)
    <3>1. RunsOK' /\ DirOK'
      BY <2>0, <2>4, StepOn DEF Clear, DirOK
    <3> QED
      BY <1>2, <1>5, <2>4, <3>1 DEF Clear
  <2>5. CASE Mkdir(r)
    <3>1. DirOK'
      BY <1>0, <2>5 DEF Mkdir, DirOK
    <3>2. RunsOK'
      BY <2>0, <2>5, StepOn DEF Mkdir
    <3> QED
      BY <1>2, <1>5, <2>5, <3>1, <3>2 DEF Mkdir
  <2>6. CASE PutFile(r)
    <3>1. DirOK'
      BY <1>0, <2>6 DEF PutFile, DirOK
    <3>2. RunsOK'
      <4>1. FileStep[pc[r]] \in Steps \ {"cleanup", "remove"}
        BY <2>0, <2>6, FileSteps DEF PutFile
      <4> QED
        BY <2>6, <4>1, StepOn, Exiting DEF PutFile, Throw
    <3> QED
      BY <1>2, <1>5, <2>6, <3>1, <3>2 DEF PutFile
  <2>7. CASE DockerBuilt(r)
    <3>1. RunsOK'
      BY <2>0, <2>7, StepOn, Exiting DEF DockerBuilt, Throw
    <3> QED
      BY <1>2, <1>4, <1>5, <2>7, <3>1 DEF DockerBuilt
  <2>8. CASE GoBuilt(r)
    <3>1. RunsOK'
      BY <2>0, <2>8, StepOn, Exiting DEF GoBuilt, Throw
    <3> QED
      BY <1>2, <1>4, <1>5, <2>8, <3>1 DEF GoBuilt
  <2>9. CASE HiveWrites(r) \/ \E s \in Stream : Read(r, s)
    BY <1>2, <1>3, <1>4, <1>5, <2>9 DEF HiveWrites, Read
  <2>10. CASE HiveExits(r)
    <3>1. RunsOK'
      BY <2>0, <2>10, StepOn, Exiting DEF HiveExits, Throw
    <3> QED
      BY <1>2, <1>4, <1>5, <2>10, <3>1 DEF HiveExits
  <2>11. CASE Judge(r)
    <3>1. RunsOK'
      BY <2>11, Exiting DEF Judge
    <3> QED
      BY <1>2, <1>4, <1>5, <2>11, <3>1 DEF Judge
  <2>12. CASE Signal(r)
    <3>1. RunsOK'
      BY <2>12, Exiting DEF Signal
    <3> QED
      BY <1>2, <1>4, <1>5, <2>12, <3>1 DEF Signal
  <2>13. CASE Cleanup(r)
    <3>1. RunsOK'
      <4>1. CASE Marked
        BY <1>0, <2>13, <4>1 DEF Cleanup, Goto, RunsOK, CleanupsAhead, Steps
      <4>2. CASE ~Marked
        BY <2>13, <4>2, CleaningUp DEF Cleanup
      <4> QED
        BY <4>1, <4>2
    <3> QED
      BY <1>2, <1>4, <1>5, <2>13, <3>1 DEF Cleanup
  <2>14. CASE Remove(r)
    <3>1. RunsOK'
      BY <2>14, CleaningUp DEF Remove
    <3> QED
      BY <1>2, <1>5, <2>14, <3>1 DEF Remove, DirOK
  <2>15. CASE Kill(r)
    <3>1. RunsOK'
      BY <2>0, <2>15, StepOn DEF Kill
    <3> QED
      BY <1>2, <1>4, <1>5, <2>15, <3>1 DEF Kill
  <2> QED
    BY <1>8, <2>1, <2>2, <2>3, <2>4, <2>5, <2>6, <2>7, <2>8, <2>9, <2>10, <2>11, <2>12,
       <2>13, <2>14, <2>15 DEF Step
<1> QED
  BY <1>6, <1>7, <1>8 DEF Next

(* Every reachable state has its types; in particular cleanupClientDir is  *)
(* called once on an exit and twice on a signal, never more.               *)
THEOREM TypeCorrect == Spec => []TypeOK
<1>1. TInv => TypeOK
  BY DEF TInv
<1> QED
  BY <1>1, TypeInit, TypeStep, PTL DEF Spec
=============================================================================
