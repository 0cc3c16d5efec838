----------------------------- MODULE HiveSmoke -----------------------------
(***************************************************************************)
(* tools/hive_rpc_compat_smoke.js: it puts a client directory into the     *)
(* Hive checkout, builds an image and Hive, runs the simulator and judges  *)
(* its log.                                                                *)
(*                                                                         *)
(* The directory is at one fixed path, so runs of one checkout share it: a *)
(* run that was killed leaves it to the next, and two runs at a time have  *)
(* it at once.  Everything up to the first child is synchronous, so a      *)
(* handled signal is only seen while a child is awaited; a kill (or a      *)
(* hangup, which has no handler) falls between any two file operations.    *)
(***************************************************************************)
EXTENDS Naturals, Sequences

CONSTANTS
  Run,      \* invocations of the script
  User,     \* whoever else makes directories in the Hive checkout
  None,     \* no directory, no revision, no exit code
  Checkout, \* states of lib/execution-apis and of the environment
  Report,   \* what a simulation may end with; "error": exit code other than 0
  PipeSize  \* chunks an unread pipe holds

ASSUME HiveAssumption ==
  /\ User \notin Run
  /\ None \notin Run \cup {User, 0}
  /\ PipeSize \in Nat \ {0}
  /\ Report \subseteq {"error", "no counts", "none ran", "some failed", "all passed"}

VARIABLES
  checkout, \* what the run finds of lib/execution-apis; it does not change
  dir,      \* lib/hive/clients/zevm: who made it, and its files
  pc,       \* each run: its next step
  code,     \* each run: its exit code
  cleanups, \* each run: calls of cleanupClientDir still to come
  branch,   \* each run: executionApisRef
  hive,     \* each run: its Hive process
  log       \* each run: what its variable output shows of the line with the counts

vars == <<checkout, dir, pc, code, cleanups, branch, hive, log>>

Stream == {"stdout", "stderr"}
Marker == ".zevm-generated"

(* The files are written in this order, the marker last.                   *)
FileStep == [s \in {"Dockerfile", "hive.yaml", Marker} |->
               CASE s = "Dockerfile" -> "hive.yaml"
                 [] s = "hive.yaml" -> Marker
                 [] s = Marker -> "docker"]

Over == {"exited", "killed"}
Marked == dir # None /\ Marker \in dir.files

(* Hive writes chunk after chunk: more to stderr than a pipe holds, and    *)
(* somewhere between the line with the counts, which may reach the reader  *)
(* in two chunks.                                                          *)
Noise(n) == [i \in 1..n |-> [to |-> "stderr", text |-> "noise"]]
Counts == <<[to |-> "stdout", text |-> "counts"], [to |-> "stdout", text |-> "end"]>>

Output(report) ==
  IF report \in {"error", "no counts"}
  THEN {Noise(PipeSize + 1)}
  ELSE {Noise(n) \o Counts \o Noise(PipeSize + 1 - n) : n \in 0..PipeSize + 1}

NoHive == [said |-> <<>>, pipe |-> [s \in Stream |-> <<>>], report |-> "error"]

Init ==
  /\ checkout \in Checkout
  /\ dir = None
  /\ pc = [r \in Run |-> "start"]
  /\ code = [r \in Run |-> None]
  /\ cleanups = [r \in Run |-> 0]
  /\ branch = [r \in Run |-> None]
  /\ hive = [r \in Run |-> NoHive]
  /\ log = [r \in Run |-> "nothing"]

Goto(r, step) == pc' = [pc EXCEPT ![r] = step]

(* Mutant: a run stopped by a signal exits without cleaning up.            *)
ExitUncleaned(r, c, n) ==
  /\ Goto(r, IF n = 2 THEN "exited" ELSE "cleanup")
  /\ code' = [code EXCEPT ![r] = c]
  /\ cleanups' = [cleanups EXCEPT ![r] = n]
  /\ hive' = IF c = 0 THEN hive ELSE [hive EXCEPT ![r] = NoHive]
  /\ log' = IF c = 0 THEN log ELSE [log EXCEPT ![r] = "nothing"]

(* process.exit with n calls of cleanupClientDir ahead of the end; only a  *)
(* run that passes still needs to show what it read.                       *)
Exit(r, c, n) ==
  /\ Goto(r, "cleanup")
  /\ code' = [code EXCEPT ![r] = c]
  /\ cleanups' = [cleanups EXCEPT ![r] = n]
  /\ hive' = IF c = 0 THEN hive ELSE [hive EXCEPT ![r] = NoHive]
  /\ log' = IF c = 0 THEN log ELSE [log EXCEPT ![r] = "nothing"]

Throw(r) == Exit(r, 1, 1)

-----------------------------------------------------------------------------
(* Before the directory. *)

(* A loose ref wins over packed-refs.  Reading .git as a file throws when  *)
(* it is a directory.                                                      *)
ResolvedHead(repo) ==
  CASE ~repo.linked -> None
    [] repo.linked /\ repo.head # "ref" -> repo.head
    [] repo.linked /\ repo.head = "ref" /\ repo.loose # None -> repo.loose
    [] OTHER -> repo.packed

ApisRef == IF checkout.env # None THEN checkout.env ELSE ResolvedHead(checkout)

(* Until here nothing is registered, so a failure exits at once.           *)
Require(r) ==
  /\ pc[r] = "start"
  /\ \/ /\ ApisRef # None
        /\ branch' = [branch EXCEPT ![r] = ApisRef]
        /\ Goto(r, "look")
        /\ UNCHANGED code
     \/ /\ Goto(r, "exited")
        /\ code' = [code EXCEPT ![r] = 1]
        /\ UNCHANGED branch
  /\ UNCHANGED <<checkout, dir, cleanups, hive, log>>

-----------------------------------------------------------------------------
(* The client directory. *)

Look(r) ==
  /\ pc[r] = "look"
  /\ Goto(r, IF dir = None THEN "clear" ELSE "lookInside")
  /\ UNCHANGED <<checkout, dir, code, cleanups, branch, hive, log>>

(* Mutant: the directory is taken whoever made it.                         *)
LookInsideOnly(r) ==
  /\ pc[r] = "lookInside"
  /\ Goto(r, "clear")
  /\ UNCHANGED <<checkout, dir, code, cleanups, branch, hive, log>>

LookInside(r) ==
  /\ pc[r] = "lookInside"
  /\ IF Marked THEN Goto(r, "clear") /\ UNCHANGED <<code, cleanups, hive, log>>
               ELSE Throw(r)
  /\ UNCHANGED <<checkout, dir, branch>>

Clear(r) ==
  /\ pc[r] = "clear"
  /\ dir' = None
  /\ Goto(r, "mkdir")
  /\ UNCHANGED <<checkout, code, cleanups, branch, hive, log>>

Mkdir(r) ==
  /\ pc[r] = "mkdir"
  /\ dir' = IF dir = None THEN [by |-> r, files |-> {}] ELSE dir
  /\ Goto(r, "Dockerfile")
  /\ UNCHANGED <<checkout, code, cleanups, branch, hive, log>>

(* A file cannot be written into a directory another run took away.        *)
PutFile(r) ==
  /\ pc[r] \in DOMAIN FileStep
  /\ IF dir = None
     THEN Throw(r) /\ UNCHANGED dir
     ELSE /\ dir' = [dir EXCEPT !.files = @ \cup {pc[r]}]
          /\ Goto(r, FileStep[pc[r]])
          /\ UNCHANGED <<code, cleanups, hive, log>>
  /\ UNCHANGED <<checkout, branch>>

-----------------------------------------------------------------------------
(* The children. *)

DockerBuilt(r) ==
  /\ pc[r] = "docker"
  /\ \/ Goto(r, "go") /\ UNCHANGED <<code, cleanups, hive, log>>
     \/ Throw(r)
  /\ UNCHANGED <<checkout, dir, branch>>

(* Hive needs the client's files when it starts.                           *)
ClientIsThere == dir # None /\ {"Dockerfile", "hive.yaml"} \subseteq dir.files

GoBuilt(r) ==
  /\ pc[r] = "go"
  /\ \/ /\ Goto(r, "hive")
        /\ \E report \in Report : \E said \in Output(report) :
             /\ ClientIsThere \/ report = "error"
             /\ hive' = [hive EXCEPT ![r] =
                          [said |-> said, pipe |-> @.pipe, report |-> report]]
        /\ UNCHANGED <<code, cleanups, log>>
     \/ Throw(r)
  /\ UNCHANGED <<checkout, dir, branch>>

HiveWrites(r) ==
  /\ pc[r] = "hive"
  /\ hive[r].said # <<>>
  /\ LET h == hive[r]
         chunk == Head(h.said)
     IN  /\ Len(h.pipe[chunk.to]) < PipeSize
         /\ hive' = [hive EXCEPT ![r] =
              [said |-> Tail(h.said), report |-> h.report,
               pipe |-> [h.pipe EXCEPT ![chunk.to] = Append(@, chunk.text)]]]
  /\ UNCHANGED <<checkout, dir, pc, code, cleanups, branch, log>>

(* Each stream has a reader of its own; both append to one log, where a    *)
(* chunk of the other stream may part the line with the counts.            *)
Shown(shown, chunk) ==
  CASE chunk = "counts" -> "half"
    [] chunk = "end" /\ shown = "half" -> "whole"
    [] chunk = "noise" /\ shown = "half" -> "parted"
    [] OTHER -> shown

(* Mutant: stderr is read once stdout has ended, as function output does.  *)
MayReadInTurn(r, s) == pc[r] = "hive" /\ (s = "stderr" => hive[r].said = <<>>)

MayRead(r, s) == pc[r] = "hive"

Read(r, s) ==
  /\ MayRead(r, s)
  /\ hive[r].pipe[s] # <<>>
  /\ log' = [log EXCEPT ![r] = Shown(@, Head(hive[r].pipe[s]))]
  /\ LET h == hive[r]
     IN  hive' = [hive EXCEPT ![r] = [said |-> h.said, report |-> h.report,
                                      pipe |-> [h.pipe EXCEPT ![s] = Tail(@)]]]
  /\ UNCHANGED <<checkout, dir, pc, code, cleanups, branch>>

HiveEnded(r) == hive[r].said = <<>> /\ \A s \in Stream : hive[r].pipe[s] = <<>>

HiveExits(r) ==
  /\ pc[r] = "hive"
  /\ HiveEnded(r)
  /\ IF hive[r].report = "error"
     THEN Throw(r)
     ELSE Goto(r, "judge") /\ UNCHANGED <<code, cleanups, hive, log>>
  /\ UNCHANGED <<checkout, dir, branch>>

(* Mutant: a simulation without tests passes.                              *)
SucceedsVacuously(r) == log[r] = "whole" /\ hive[r].report # "some failed"

Succeeds(r) == log[r] = "whole" /\ hive[r].report \notin {"none ran", "some failed"}

Judge(r) ==
  /\ pc[r] = "judge"
  /\ Exit(r, IF Succeeds(r) THEN 0 ELSE 1, 1)
  /\ UNCHANGED <<checkout, dir, branch>>

-----------------------------------------------------------------------------
(* The end. *)

(* The handler cleans up, and so does the exit it asks for.                *)
Signal(r) ==
  /\ pc[r] \in {"docker", "go", "hive"}
  /\ \E c \in {130, 143} : Exit(r, c, 2)
  /\ UNCHANGED <<checkout, dir, branch>>

CleanedUp(r) ==
  /\ cleanups' = [cleanups EXCEPT ![r] = @ - 1]
  /\ Goto(r, IF cleanups[r] = 1 THEN "exited" ELSE "cleanup")

Cleanup(r) ==
  /\ pc[r] = "cleanup"
  /\ IF Marked THEN Goto(r, "remove") /\ UNCHANGED cleanups ELSE CleanedUp(r)
  /\ UNCHANGED <<checkout, dir, code, branch, hive, log>>

Remove(r) ==
  /\ pc[r] = "remove"
  /\ dir' = None
  /\ CleanedUp(r)
  /\ UNCHANGED <<checkout, code, branch, hive, log>>

(* SIGKILL, SIGHUP, a machine that goes down: no handler, no exit event.   *)
Kill(r) ==
  /\ pc[r] \notin Over \cup {"start"}
  /\ Goto(r, "killed")
  /\ UNCHANGED <<checkout, dir, code, cleanups, branch, hive, log>>

(* Somebody keeps a client of that name, made while no run is under way.   *)
UserMakesClient ==
  /\ dir = None
  /\ \A r \in Run : pc[r] \in Over \cup {"start"}
  /\ dir' = [by |-> User, files |-> {"Dockerfile", "hive.yaml"}]
  /\ UNCHANGED <<checkout, pc, code, cleanups, branch, hive, log>>

Step(r) ==
  \/ Require(r) \/ Look(r) \/ LookInside(r) \/ Clear(r) \/ Mkdir(r) \/ PutFile(r)
  \/ DockerBuilt(r) \/ GoBuilt(r)
  \/ HiveWrites(r) \/ (\E s \in Stream : Read(r, s))
  \/ HiveExits(r) \/ Judge(r) \/ Cleanup(r) \/ Remove(r)

Next == UserMakesClient \/ \E r \in Run : Step(r) \/ Signal(r) \/ Kill(r)

(* A process goes on, and the children it waits for end.                   *)
Spec == Init /\ [][Next]_vars /\ \A r \in Run : WF_vars(Step(r))
-----------------------------------------------------------------------------
(* Properties. *)

Revision == {c.head : c \in Checkout} \cup {c.loose : c \in Checkout}
              \cup {c.packed : c \in Checkout} \cup {c.env : c \in Checkout}

(* The types of the variables.                                             *)
TypeOK ==
  /\ checkout \in Checkout
  /\ dir \in [by : Run \cup {User}, files : SUBSET DOMAIN FileStep] \cup {None}
  /\ pc \in [Run -> {"start", "look", "lookInside", "clear", "mkdir", "docker", "go",
                     "hive", "judge", "cleanup", "remove"} \cup DOMAIN FileStep \cup Over]
  /\ code \in [Run -> {None, 0, 1, 130, 143}]
  /\ cleanups \in [Run -> 0..2]
  /\ branch \in [Run -> Revision \cup {None}]

(* A client directory the script did not generate is never changed or      *)
(* removed, by whichever runs, refused, interrupted or killed at any step  *)
(* (the check before rmSync, and cleanupClientDir).                        *)
ForeignKept == [][dir # None /\ dir.by = User => dir' = dir]_vars

(* Once no run is under way and none was killed, no generated client is    *)
(* left in the Hive checkout, also when two runs took the directory from   *)
(* each other (cleanupClientDir on exit, on a signal, and on both).        *)
EndsClean ==
  (\A r \in Run : pc[r] \in {"start", "exited"}) => dir = None \/ dir.by = User

(* Exit code 0 is only given for a simulation that ended well, ran tests   *)
(* and failed none; a log in which the counts cannot be read is no pass.   *)
PassIsEarned ==
  \A r \in Run : code[r] = 0 =>
    hive[r].report = "all passed" /\ HiveEnded(r)

(* A run that has looked for its commands ends, however much Hive writes   *)
(* to a stream nobody looks at first (the two readers in run).             *)
RunEnds == \A r \in Run : pc[r] # "start" ~> pc[r] \in Over

=============================================================================
