-------------------------- MODULE LaunchPreflight --------------------------
(***************************************************************************)
(* tools/macos_launch_policy_preflight.js: compiles a probe, runs it with  *)
(* a timer, and tells by its exit code whether a freshly built executable  *)
(* reaches main on this host.                                              *)
(*                                                                         *)
(* The probe's end, the timer and signals are events of one loop: the      *)
(* script sees them in any order, and sees them only while it awaits.      *)
(***************************************************************************)
CONSTANT NoCode \* the exit code of a script that has not exited, or died

ASSUME PreflightAssumption == NoCode \notin {0, 1, 2, 130, 143}

VARIABLES
  darwin,   \* whether the host is a Mac
  hangs,    \* whether its launch policy keeps the probe from reaching main
  task,     \* the script's next step
  tmp,      \* whether tmpDir is there
  probe,    \* the probe: not started, running, or how it ended
  timer,    \* armed
  timedOut,
  status    \* exit code

thisHost == <<darwin, hangs>>
pvars == <<darwin, hangs, task, tmp, probe, timer, timedOut, status>>

Ended == {"greeted", "mute", "failed", "killed"}

PreflightInit ==
  /\ darwin \in BOOLEAN
  /\ hangs \in BOOLEAN
  /\ task = "off"
  /\ tmp = FALSE
  /\ probe = "none"
  /\ timer = FALSE
  /\ timedOut = FALSE
  /\ status = NoCode

(* process.exit; the exit event and the explicit calls alike clean up.     *)
ExitWith(c) ==
  /\ task' = "exited"
  /\ status' = c
  /\ tmp' = FALSE

(* mkdtempSync may fail; nothing is registered then.                       *)
MakeTmp ==
  /\ task = "start"
  /\ \/ darwin /\ task' = "made" /\ tmp' = TRUE /\ UNCHANGED status
     \/ darwin /\ ExitWith(1)
     \/ ~darwin /\ ExitWith(0)
  /\ UNCHANGED <<thisHost, probe, timer, timedOut>>

Register ==
  /\ task = "made"
  /\ task' = "compile"
  /\ UNCHANGED <<thisHost, tmp, probe, timer, timedOut, status>>

(* Mutant: the timer is only started once the probe has ended.             *)
CompileAndStartUntimed ==
  /\ task = "compile"
  /\ \/ /\ task' = "await"
        /\ probe' = "running"
        /\ UNCHANGED <<tmp, status, timer>>
     \/ ExitWith(1) /\ UNCHANGED <<probe, timer>>
  /\ UNCHANGED <<thisHost, timedOut>>

(* Writes the source, compiles it, starts the probe and the timer; writing *)
(* and compiling may fail.                                                 *)
CompileAndStart ==
  /\ task = "compile"
  /\ \/ /\ task' = "await"
        /\ probe' = "running"
        /\ timer' = TRUE
        /\ UNCHANGED <<tmp, status>>
     \/ ExitWith(1) /\ UNCHANGED <<probe, timer>>
  /\ UNCHANGED <<thisHost, timedOut>>

ProbeEnds ==
  /\ probe = "running"
  /\ ~hangs
  /\ probe' \in {"greeted", "mute", "failed"}
  /\ UNCHANGED <<thisHost, task, tmp, timer, timedOut, status>>

(* The timer may come first although the probe has ended.                  *)
TimerFires ==
  /\ timer
  /\ task = "await"
  /\ timer' = FALSE
  /\ timedOut' = TRUE
  /\ probe' = IF probe = "running" THEN "killed" ELSE probe
  /\ UNCHANGED <<thisHost, task, tmp, status>>

SeeExit ==
  /\ task = "await"
  /\ probe \in Ended
  /\ timer' = FALSE
  /\ task' = "collect"
  /\ UNCHANGED <<thisHost, tmp, probe, timedOut, status>>

(* Mutant: the exit code decides, the output is not looked at.             *)
LaunchedQuietly == ~timedOut /\ probe # "failed"

Launched == ~timedOut /\ probe = "greeted"

(* Both streams have been read to their end.                               *)
JudgeProbe ==
  /\ task = "collect"
  /\ ExitWith(IF Launched THEN 0 ELSE 1)
  /\ UNCHANGED <<thisHost, probe, timer, timedOut>>

(* The handlers exit and leave the probe to itself.                        *)
HandleSignal ==
  /\ task \in {"await", "collect"}
  /\ \E c \in {130, 143} : ExitWith(c)
  /\ UNCHANGED <<thisHost, probe, timer, timedOut>>

(* No handler yet, or a signal that has none.                              *)
Die ==
  /\ task \notin {"off", "exited", "dead"}
  /\ task' = "dead"
  /\ UNCHANGED <<thisHost, tmp, probe, timer, timedOut, status>>

PreflightStep ==
  \/ MakeTmp \/ Register \/ CompileAndStart \/ TimerFires \/ SeeExit \/ JudgeProbe

PreflightNext == PreflightStep \/ ProbeEnds \/ HandleSignal \/ Die
=============================================================================
