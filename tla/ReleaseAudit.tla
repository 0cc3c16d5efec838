---------------------------- MODULE ReleaseAudit ----------------------------
(***************************************************************************)
(* tools/release_blocker_audit.js, and the launch preflight it may run as  *)
(* a child.                                                                *)
(*                                                                         *)
(* What the audit looks at is a set of facts about the checkout, each of   *)
(* which blocks a release.  A check adds the blockers it finds to          *)
(* failures and the audit goes on; a file that is not there throws and     *)
(* ends it with no verdict.                                                *)
(***************************************************************************)
EXTENDS LaunchPreflight

CONSTANTS
  Arg,      \* sets of arguments
  Facts,    \* sets of facts about a checkout
  Absent    \* sets of commands and files that are not there

VARIABLES
  args,     \* of the command line
  facts,    \* of the checkout
  absent,   \* commands and files that are not there
  step,     \* the next check
  failures, \* blockers found so far
  exit      \* exit code

audit == <<args, facts, absent, step, failures, exit>>
auditVars == <<pvars, audit>>

Options == {"--allow-dirty", "--allow-open-qualification",
            "--allow-partial-external", "--include-launch-preflight", "--help"}

GitFacts == {"no worktree", "no full revision", "tracked changes", "untracked files"}
MapFacts == {"bad map", "open rows"}
ManifestFacts == {"legacy path", "no pin"}
EvidenceFacts == {"no scope", "no evidence"}
MarkerFacts == {"markers"}
Fact == GitFacts \cup MapFacts \cup ManifestFacts \cup EvidenceFacts \cup MarkerFacts

ASSUME AuditAssumption == \A F \in Facts : F \subseteq Fact

AuditInit ==
  /\ PreflightInit
  /\ args \in Arg
  /\ facts \in Facts
  /\ absent \in Absent
  /\ step = "arguments"
  /\ failures = {}
  /\ exit = NoCode

Finish(c) == step' = "done" /\ exit' = c

Arguments ==
  /\ step = "arguments"
  /\ \/ ~(args \subseteq Options) /\ Finish(2)
     \/ args \subseteq Options /\ "--help" \in args /\ Finish(0)
     \/ args \subseteq Options /\ "--help" \notin args /\ step' = "git" /\ UNCHANGED exit
  /\ UNCHANGED <<pvars, args, facts, absent, failures>>

(* One check: what it finds, and the check after it.                       *)
Check(here, found, next) ==
  /\ step = here
  /\ failures' = failures \cup found
  /\ step' = next
  /\ UNCHANGED <<pvars, args, facts, absent, exit>>

(* A check whose file is not there.                                        *)
Throw(here, file) ==
  /\ step = here
  /\ file \in absent
  /\ Finish(1)
  /\ UNCHANGED <<pvars, args, facts, absent, failures>>

(* Mutant: --allow-dirty lets every question about the worktree go.        *)
GitFoundOrAllowed ==
  IF "no worktree" \in facts
  THEN {"no worktree"}
  ELSE IF "--allow-dirty" \in args THEN {} ELSE facts \cap GitFacts

(* Outside a worktree nothing else is asked.                               *)
GitFound ==
  IF "no worktree" \in facts
  THEN {"no worktree"}
  ELSE (facts \cap {"no full revision"}) \cup
       (IF "--allow-dirty" \in args
        THEN {} ELSE facts \cap {"tracked changes", "untracked files"})

CheckCleanGit ==
  Check("git", IF "git" \in absent THEN {"no git"} ELSE GitFound, "map")

(* A map without records, as a map that is all covered, has no open rows.  *)
CheckQualificationMap ==
  Check("map",
        IF "bad map" \in facts
        THEN {"bad map"}
        ELSE IF "--allow-open-qualification" \in args THEN {} ELSE facts \cap {"open rows"},
        "manifest")

CheckDependencyManifest ==
  \/ /\ "build.zig.zon" \notin absent
     /\ Check("manifest", facts \cap ManifestFacts, "evidence")
  \/ Throw("manifest", "build.zig.zon")

CheckExternalSuiteEvidence ==
  \/ /\ "hive_rpc_compat_smoke.ts" \notin absent
     /\ Check("evidence", facts \cap EvidenceFacts, "markers")
  \/ Throw("evidence", "hive_rpc_compat_smoke.ts")

CheckMarkers ==
  Check("markers", IF "rg" \in absent THEN {} ELSE facts \cap MarkerFacts, "preflight")

SkipLaunchPreflight ==
  "--include-launch-preflight" \notin args /\ Check("preflight", {}, "verdict")

(* spawnSync: the audit waits for the child, and for nothing else.         *)
StartLaunchPreflight ==
  /\ step = "preflight"
  /\ "--include-launch-preflight" \in args
  /\ step' = "child"
  /\ task' = "start"
  /\ UNCHANGED <<thisHost, tmp, probe, timer, timedOut, status, args, facts, absent,
                 failures, exit>>

(* Mutant: only a child that says 1 is a failed one.                       *)
CheckLaunchPreflightCode ==
  /\ task \in {"exited", "dead"}
  /\ Check("child", IF status = 1 THEN {"no launch"} ELSE {}, "verdict")

(* A child that died of a signal has no exit code, which is not 0 either.  *)
CheckLaunchPreflight ==
  /\ task \in {"exited", "dead"}
  /\ Check("child", IF status = 0 THEN {} ELSE {"no launch"}, "verdict")

Verdict ==
  /\ step = "verdict"
  /\ Finish(IF failures # {} THEN 1 ELSE 0)
  /\ UNCHANGED <<pvars, args, facts, absent, failures>>

(* The audit handles no signal; the child goes on without it.              *)
Interrupt ==
  /\ step \notin {"done", "interrupted"}
  /\ step' = "interrupted"
  /\ UNCHANGED <<pvars, args, facts, absent, failures, exit>>

AuditStep ==
  \/ Arguments \/ CheckCleanGit \/ CheckQualificationMap \/ CheckDependencyManifest
  \/ CheckExternalSuiteEvidence \/ CheckMarkers \/ SkipLaunchPreflight
  \/ StartLaunchPreflight \/ CheckLaunchPreflight \/ Verdict

AuditNext == AuditStep \/ Interrupt \/ (PreflightNext /\ UNCHANGED audit)

(* Both processes go on; a probe that does not hang need not end soon.     *)
AuditSpec ==
  /\ AuditInit /\ [][AuditNext]_auditVars
  /\ WF_auditVars(AuditStep) /\ WF_auditVars(PreflightStep /\ UNCHANGED audit)

-----------------------------------------------------------------------------
(* Properties. *)

AuditTypeOK ==
  /\ darwin \in BOOLEAN /\ hangs \in BOOLEAN /\ tmp \in BOOLEAN
  /\ timer \in BOOLEAN /\ timedOut \in BOOLEAN
  /\ task \in {"off", "start", "made", "compile", "await", "collect", "exited", "dead"}
  /\ probe \in {"none", "running"} \cup Ended
  /\ status \in {NoCode, 0, 1, 130, 143}
  /\ args \in Arg /\ facts \in Facts /\ absent \in Absent
  /\ step \in {"arguments", "git", "map", "manifest", "evidence", "markers",
               "preflight", "child", "verdict", "done", "interrupted"}
  /\ failures \subseteq Fact \cup {"no git", "no launch"}
  /\ exit \in {NoCode, 0, 1, 2}

Judged == step = "done" /\ "--help" \notin args

(* What the options, or a command that is not there, keep from the audit.  *)
Excused(f) ==
  \/ f \in {"tracked changes", "untracked files"} /\ "--allow-dirty" \in args
  \/ f = "open rows" /\ "--allow-open-qualification" \in args
  \/ f = "open rows" /\ "bad map" \in facts
  \/ f \in GitFacts \ {"no worktree"} /\ "no worktree" \in facts
  \/ f \in GitFacts /\ "git" \in absent
  \/ f \in MarkerFacts /\ "rg" \in absent

(* "no static release blockers found" means that: nothing on the checkout  *)
(* blocks a release but what was excused, git was there to ask, and if the *)
(* preflight was asked for on a Mac, a fresh executable reached main in    *)
(* time.                                                                   *)
PassMeansClear ==
  Judged /\ exit = 0 =>
    /\ \A f \in facts : Excused(f)
    /\ "git" \notin absent
    /\ "--include-launch-preflight" \in args /\ darwin => probe = "greeted"

(* The other way round, a verdict of failure is never made up, and names   *)
(* every blocker at once: no check hides another's findings.               *)
FailureNamesAll ==
  Judged /\ exit = 1 /\ absent \cap {"build.zig.zon", "hive_rpc_compat_smoke.ts"} = {} =>
    /\ failures # {}
    /\ {f \in facts : ~Excused(f)} = failures \ {"no git", "no launch"}
    /\ "no git" \in failures <=> "git" \in absent

(* A verdict, either way, is the right one.                                *)
VerdictIsRight == PassMeansClear /\ FailureNamesAll

(* The audit ends although the probe never does: the preflight's timer     *)
(* reaches through both processes.  The directory the preflight made goes, *)
(* also when the audit was interrupted over it, unless it was itself       *)
(* killed.                                                                 *)
AuditEnds ==
  /\ <>(step \in {"done", "interrupted"})
  /\ tmp ~> ~tmp \/ task = "dead"
=============================================================================
