----------------------------- MODULE NpmPackage -----------------------------
(***************************************************************************)
(* A release and a user of it: npm installs what the registry has at that  *)
(* moment, also in the middle of a run of publish-all.cjs, and index.js    *)
(* loads the addon.  The release stands still once the user's process is   *)
(* running, which sees nothing of it any more.                             *)
(***************************************************************************)
EXTENDS NpmRelease, NativeAddon

CONSTANTS Override  \* addons ZEVM_NATIVE_PATH may name

ASSUME OverrideAssumption == Override \subseteq [for : Platform, version : Nat]

vars == <<rvars, avars>>

Init == ReleaseInit /\ AddonInit

Release ==
  /\ loaded = "no"
  /\ ReleaseNext
  /\ UNCHANGED avars

(* npm install @evmts/zevm@v, then node: the platform packages npm takes   *)
(* are those published for the machine, in the version the main package    *)
(* asks for; one that is not there is skipped.                             *)
InstallAndLoad(h, override, v) ==
  \E m \in registry :
    /\ m.name = Main
    /\ m.version = v
    /\ LoadNative(h, override,
         IF m.addon = None THEN None ELSE [for |-> Builder, version |-> m.addon],
         {[for |-> r.name, version |-> r.addon] :
            r \in {r \in registry : r.name = RunsOn(h) /\ r.version = v}})
    /\ UNCHANGED rvars

Next ==
  \/ Release
  \/ \E h \in Host, v \in 0..MaxVersion, override \in Override \cup {None} :
       InstallAndLoad(h, override, v)
  \/ ObjectNext /\ UNCHANGED rvars

Spec == Init /\ [][Next]_vars

-----------------------------------------------------------------------------
(* Properties. *)

TypeOK == ReleaseTypeOK /\ AddonTypeOK

(* Whenever a user installs a version, on any machine with a package and a *)
(* report of its libc, index.js finds an addon, and one built for that     *)
(* machine: the main package never comes before a platform package or with *)
(* the addon of the machine it was released on (publish-all.cjs,           *)
(* stage-artifacts.cjs, index.js).                                         *)
InstalledLoads ==
  loaded \in {"missing", "foreign"} =>
    \/ RunsOn(host) \notin Platform
    \/ NativePackageKey(host) # RunsOn(host)
    \/ addon \in Override
=============================================================================
