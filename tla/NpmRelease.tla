----------------------------- MODULE NpmRelease -----------------------------
(***************************************************************************)
(* npm/zevm/scripts/stage-artifacts.cjs and publish-all.cjs: built addons  *)
(* are copied into the platform packages, and the packages are published,  *)
(* the main one last.                                                      *)
(*                                                                         *)
(* Three places keep addons across runs of the scripts: the build output,  *)
(* the package directories and the registry.  A run may stop between any   *)
(* two steps; npm may fail with or without having published; a version     *)
(* once published is refused ever after.                                   *)
(***************************************************************************)
EXTENDS PlatformPackages, Naturals

CONSTANTS
  Builder,    \* the platform releases are made on
  MaxVersion, \* bound: versions of the packages
  MaxJobs     \* bound: runs of the scripts

ASSUME ReleaseAssumption ==
  /\ Builder \in Platform /\ <<"@evmts/zevm">> \notin Platform
  /\ MaxVersion \in Nat
  /\ MaxJobs \in Nat
  /\ None \notin Nat

Main == <<"@evmts/zevm">>

VARIABLES
  version,  \* the one all package.json files of the checkout have
  built,    \* zig-out/npm/prebuilds: version of each addon, or None
  staged,   \* npm/platforms/*/zevm.node: version of each addon, or None
  local,    \* npm/zevm/native/zevm.node: version of the builder's addon, or None
  registry, \* packages published
  job,      \* number of the run of a script
  script,   \* "stage", "publish", "dry run", or "none"
  at,       \* its next step
  todo      \* platforms the present loop has still to do

rvars == <<version, built, staged, local, registry, job, script, at, todo>>

Name == Platform \cup {Main}
Addon == 0..MaxVersion \cup {None}

ReleaseInit ==
  /\ version = 0
  /\ built = [p \in Platform |-> None]
  /\ staged = [p \in Platform |-> None]
  /\ local = None
  /\ registry = {}
  /\ job = 0
  /\ script = "none"
  /\ at = "none"
  /\ todo = {}

Published(n, v) == \E r \in registry : r.name = n /\ r.version = v

-----------------------------------------------------------------------------
(* What the maintainer does between runs. *)

Bump ==
  /\ script = "none"
  /\ version < MaxVersion
  /\ version' = version + 1
  /\ UNCHANGED <<built, staged, local, registry, job, script, at, todo>>

Build(p) ==
  /\ script = "none"
  /\ built' = [built EXCEPT ![p] = version]
  /\ UNCHANGED <<version, staged, local, registry, job, script, at, todo>>

RemoveBuildOutput ==
  /\ script = "none"
  /\ built' = [p \in Platform |-> None]
  /\ UNCHANGED <<version, staged, local, registry, job, script, at, todo>>

(* The builder's own addon, of whatever version was built last, goes into  *)
(* the main package: stage-artifacts.cjs --include-local-native, or cp.    *)
CopyLocalAddon ==
  /\ script = "none"
  /\ local' \in 0..version
  /\ UNCHANGED <<version, built, staged, registry, job, script, at, todo>>

-----------------------------------------------------------------------------
(* The scripts. *)

Begin(s) ==
  /\ script = "none"
  /\ job < MaxJobs
  /\ job' = job + 1
  /\ script' = s
  /\ at' = "local"
  /\ todo' = Platform
  /\ UNCHANGED <<version, built, staged, local, registry>>

(* An error thrown, a child that failed, or an interruption.               *)
Stop ==
  /\ script' = "none"
  /\ at' = "none"
  /\ todo' = {}

(* Mutant: the local addon is left where it is.                            *)
KeepLocalAddon ==
  /\ at = "local"
  /\ at' = "copy"
  /\ UNCHANGED <<version, built, staged, local, registry, job, script, todo>>

RemoveLocalAddon ==
  /\ at = "local"
  /\ local' = None
  /\ at' = "copy"
  /\ UNCHANGED <<version, built, staged, registry, job, script, todo>>

(* A platform that was not built is skipped with a warning.                *)
Copy(p) ==
  /\ at = "copy"
  /\ p \in todo
  /\ staged' = [staged EXCEPT ![p] = IF built[p] # None THEN built[p] ELSE @]
  /\ todo' = todo \ {p}
  /\ UNCHANGED <<version, built, local, registry, job, script, at>>

Staged ==
  /\ at = "copy"
  /\ todo = {}
  /\ IF script = "stage"
     THEN Stop
     ELSE at' = "collect" /\ UNCHANGED <<script, todo>>
  /\ UNCHANGED <<version, built, staged, local, registry, job>>

(* Mutant: a platform without an addon is left out, not an error.          *)
AnyStaged == \E p \in Platform : staged[p] # None

AllStaged == \A p \in Platform : staged[p] # None

(* Every platform package must have an addon before the first upload.      *)
Collect ==
  /\ at = "collect"
  /\ IF AllStaged
     THEN at' = "upload" /\ todo' = {p \in Platform : staged[p] # None} /\ UNCHANGED script
     ELSE Stop
  /\ UNCHANGED <<version, built, staged, local, registry, job>>

Content(n) == IF n = Main THEN local ELSE staged[n]

(* Mutant: the main package goes with the others, in no particular order.  *)
NextUploadOfAny == todo \cup (IF Published(Main, version) THEN {} ELSE {Main})

NextUpload == IF todo = {} THEN {Main} ELSE todo

(* Mutant: a retry goes on with the packages that are left.                *)
UploadedOrSkipped(n) ==
  IF script # "dry run" /\ Published(n, version)
  THEN /\ IF n = Main THEN Stop ELSE todo' = todo \ {n} /\ UNCHANGED <<script, at>>
       /\ UNCHANGED registry
  ELSE /\ IF n = Main THEN Stop ELSE todo' = todo \ {n} /\ UNCHANGED <<script, at>>
       /\ registry' = IF script = "dry run" THEN registry
                      ELSE registry \cup {[name |-> n, version |-> version,
                                           addon |-> Content(n), job |-> job]}

(* npm publish that succeeds; a dry run uploads nothing.                   *)
Uploaded(n) ==
  /\ script = "dry run" \/ ~Published(n, version)
  /\ IF n = Main THEN Stop ELSE todo' = todo \ {n} /\ UNCHANGED <<script, at>>
  /\ registry' = IF script = "dry run" THEN registry
                 ELSE registry \cup {[name |-> n, version |-> version,
                                      addon |-> Content(n), job |-> job]}

(* npm failed although the registry took the package.                      *)
UploadedUnnoticed(n) ==
  /\ script = "publish"
  /\ ~Published(n, version)
  /\ registry' = registry \cup {[name |-> n, version |-> version,
                                 addon |-> Content(n), job |-> job]}
  /\ Stop

Upload ==
  /\ at = "upload"
  /\ \E n \in NextUpload : Uploaded(n) \/ UploadedUnnoticed(n)
  /\ UNCHANGED <<version, built, staged, local, job>>

(* A copy or an upload fails, the version is refused, or the run is        *)
(* interrupted.                                                            *)
Break ==
  /\ script # "none"
  /\ Stop
  /\ UNCHANGED <<version, built, staged, local, registry, job>>

ReleaseNext ==
  \/ Bump \/ RemoveBuildOutput \/ CopyLocalAddon \/ \E p \in Platform : Build(p)
  \/ \E s \in {"stage", "publish", "dry run"} : Begin(s)
  \/ RemoveLocalAddon \/ (\E p \in Platform : Copy(p)) \/ Staged \/ Collect
  \/ Upload \/ Break

-----------------------------------------------------------------------------
(* Properties. *)

ReleaseTypeOK ==
  /\ version \in 0..MaxVersion
  /\ built \in [Platform -> Addon] /\ staged \in [Platform -> Addon]
  /\ local \in Addon
  /\ registry \subseteq [name : Name, version : 0..MaxVersion, addon : Addon,
                         job : 0..MaxJobs]
  /\ job \in 0..MaxJobs
  /\ script \in {"none", "stage", "publish", "dry run"}
  /\ at \in {"none", "local", "copy", "collect", "upload"}
  /\ todo \subseteq Platform

(* A main package is only published with, and after, every platform        *)
(* package of its version, all by the same run: what failed half-way is    *)
(* never completed by a retry that staged something else in between.       *)
ReleasedByOneRun ==
  \A m \in registry : m.name = Main =>
    \A p \in Platform :
      \E r \in registry : r.name = p /\ r.version = m.version /\ r.job = m.job
=============================================================================
