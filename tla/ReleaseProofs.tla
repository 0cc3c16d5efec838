---------------------------- MODULE ReleaseProofs ----------------------------
(***************************************************************************)
(* Proofs about a release: NpmPackage, for any platforms, machines and     *)
(* bounds, ReleaseAudit, for any checkout and options, and DocsRouter, for *)
(* any build of the docs and any paths.                                    *)
(***************************************************************************)
EXTENDS NpmPackage, ReleaseAudit, DocsRouter, SequenceTheorems, TLAPS

-----------------------------------------------------------------------------
(* The npm packages. *)

(* The packages the present run has uploaded are those it is done with.    *)
UploadedSoFar ==
  at = "upload" /\ script = "publish" =>
    \A p \in Platform \ todo :
      \E r \in registry : r.name = p /\ r.version = version /\ r.job = job

(* Publishing starts by removing the local addon, and nobody copies one    *)
(* while it goes on.                                                       *)
NoLocalAddon ==
  /\ at \in {"copy", "collect", "upload"} => local = None
  /\ \A m \in registry : m.name = Main => m.addon = None

(* Which script is at which step.                                         *)
ScriptAtStep ==
  /\ script \in {"none", "stage", "publish", "dry run"}
  /\ at # "none" => script # "none"
  /\ at \in {"collect", "upload"} => script # "stage"
  /\ todo \subseteq Platform

IInv == ScriptAtStep /\ UploadedSoFar /\ NoLocalAddon /\ ReleasedByOneRun

LEMMA InitEstablishes == ASSUME Init PROVE IInv
BY DEF Init, ReleaseInit, IInv, ScriptAtStep, UploadedSoFar, NoLocalAddon, ReleasedByOneRun

(* An upload of the present run.                                           *)
Entry(n) == [name |-> n, version |-> version, addon |-> Content(n), job |-> job]

(* Whatever is uploaded, what the registry had stays.                      *)
LEMMA UploadKeeps ==
  ASSUME IInv, at = "upload", UNCHANGED <<version, built, staged, local, job>>,
         NEW n \in NextUpload, script = "publish",
         registry' = registry \cup {Entry(n)},
         \/ n # Main /\ todo' = todo \ {n} /\ UNCHANGED <<script, at>>
         \/ Stop
  PROVE  IInv'
<1> USE ReleaseAssumption DEF Main, Entry
<1>1. Main \notin Platform
  OBVIOUS
<1>2. n = Main => todo = {}
  BY <1>1 DEF NextUpload, IInv, ScriptAtStep
<1>3. ReleasedByOneRun'
  <2> SUFFICES ASSUME NEW m \in registry', m.name = Main, NEW p \in Platform
               PROVE  \E r \in registry' : r.name = p /\ r.version = m.version /\ r.job = m.job
    BY DEF ReleasedByOneRun
  <2>1. CASE m \in registry
    BY <2>1 DEF IInv, ReleasedByOneRun
  <2>2. CASE m = Entry(n)
    <3>1. n = Main /\ m.version = version /\ m.job = job
      BY <2>2
    <3>2. PICK r \in registry : r.name = p /\ r.version = version /\ r.job = job
      BY <1>2, <3>1 DEF IInv, UploadedSoFar
    <3> QED BY <3>1, <3>2
  <2> QED BY <2>1, <2>2
<1>4. NoLocalAddon'
  <2>1. local' = None /\ Content(Main) = None
    BY DEF IInv, NoLocalAddon, Content
  <2> QED BY <2>1 DEF IInv, NoLocalAddon, Stop
<1>5. UploadedSoFar'
  <2> SUFFICES ASSUME at' = "upload", script' = "publish", NEW p \in Platform \ todo'
               PROVE  \E r \in registry' : r.name = p /\ r.version = version' /\ r.job = job'
    BY DEF UploadedSoFar
  <2>1. todo' = todo \ {n}
    BY DEF Stop
  <2>2. CASE p = n
    <3>1. Entry(n) \in registry' /\ Entry(n).name = n
      OBVIOUS
    <3> QED BY <2>2, <3>1
  <2>3. CASE p # n
    BY <2>1, <2>3 DEF IInv, UploadedSoFar
  <2> QED BY <2>2, <2>3
<1>6. ScriptAtStep'
  BY DEF IInv, ScriptAtStep, Stop
<1> QED BY <1>3, <1>4, <1>5, <1>6 DEF IInv

LEMMA ReleaseStep == ASSUME IInv, ReleaseNext PROVE IInv'
<1> USE DEF IInv, ScriptAtStep, UploadedSoFar, NoLocalAddon, ReleasedByOneRun
<1>1. ASSUME Bump PROVE IInv'
  BY <1>1 DEF Bump
<1>2. ASSUME RemoveBuildOutput PROVE IInv'
  BY <1>2 DEF RemoveBuildOutput
<1>3. ASSUME CopyLocalAddon PROVE IInv'
  BY <1>3 DEF CopyLocalAddon
<1>4. ASSUME NEW p \in Platform, Build(p) PROVE IInv'
  BY <1>4 DEF Build
<1>5. ASSUME NEW s \in {"stage", "publish", "dry run"}, Begin(s) PROVE IInv'
  BY <1>5 DEF Begin
<1>6. ASSUME RemoveLocalAddon PROVE IInv'
  BY <1>6 DEF RemoveLocalAddon
<1>7. ASSUME NEW p \in Platform, Copy(p) PROVE IInv'
  BY <1>7 DEF Copy
<1>8. ASSUME Staged PROVE IInv'
  BY <1>8 DEF Staged, Stop
<1>9. ASSUME Collect PROVE IInv'
  <2>1. CASE AllStaged
    <3>1. todo' = Platform
      BY <1>9, <2>1 DEF Collect, AllStaged
    <3> QED BY <1>9, <2>1, <3>1 DEF Collect
  <2>2. CASE ~AllStaged
    BY <1>9, <2>2 DEF Collect, Stop
  <2> QED BY <2>1, <2>2
<1>10. ASSUME Upload PROVE IInv'
  <2>1. PICK n \in NextUpload : Uploaded(n) \/ UploadedUnnoticed(n)
    BY <1>10 DEF Upload
  <2>2. CASE script = "publish"
    BY <1>10, <2>1, <2>2, UploadKeeps DEF Upload, Uploaded, UploadedUnnoticed, Entry
  <2>3. CASE script # "publish"
    <3>1. CASE Uploaded(n)
      BY <1>10, <2>3, <3>1 DEF Upload, Uploaded, Stop
    <3>2. CASE UploadedUnnoticed(n)
      BY <1>10, <2>3, <3>2 DEF Upload, UploadedUnnoticed, Stop
    <3> QED BY <2>1, <3>1, <3>2
  <2> QED BY <2>2, <2>3
<1>11. ASSUME Break PROVE IInv'
  BY <1>11 DEF Break, Stop
<1> QED BY <1>1, <1>2, <1>3, <1>4, <1>5, <1>6, <1>7, <1>8, <1>9, <1>10, <1>11 DEF ReleaseNext

LEMMA Induction == ASSUME IInv, [Next]_vars PROVE IInv'
<1>1. CASE ReleaseNext
  BY <1>1, ReleaseStep
<1>2. CASE UNCHANGED rvars
  <2>1. ScriptAtStep' /\ NoLocalAddon'
    BY <1>2 DEF rvars, IInv, ScriptAtStep, NoLocalAddon
  <2>2. UploadedSoFar'
    BY <1>2 DEF rvars, IInv, UploadedSoFar
  <2>3. ReleasedByOneRun'
    BY <1>2 DEF rvars, IInv, ReleasedByOneRun
  <2> QED BY <2>1, <2>2, <2>3 DEF IInv
<1> QED BY <1>1, <1>2 DEF Next, vars, Release, InstallAndLoad

(* A main package is only published after every platform package of its    *)
(* version, all by one run of publish-all.cjs, however many runs failed    *)
(* before.                                                                 *)
THEOREM AlwaysReleasedByOneRun == Spec => []ReleasedByOneRun
<1>1. Spec => []IInv
  BY InitEstablishes, Induction, PTL DEF Spec
<1> QED BY <1>1, PTL DEF IInv

(* What an installation finds when the main package has no addon of its    *)
(* own and every platform package of its version is there.                 *)
LEMMA LoadFinds ==
  ASSUME IInv, loaded = "no",
         NEW h \in Host, NEW v \in 0..MaxVersion, NEW override \in Override \cup {None},
         InstallAndLoad(h, override, v)
  PROVE  InstalledLoads'
<1> SUFFICES ASSUME loaded' \in {"missing", "foreign"}, RunsOn(h) \in Platform,
                    NativePackageKey(h) = RunsOn(h), addon' \notin Override
             PROVE  FALSE
  <2>1. host' = h
    BY DEF InstallAndLoad, LoadNative
  <2> QED BY <2>1 DEF InstalledLoads, RunsOn, NativePackageKey, KeyOf
<1> DEFINE offered == {[for |-> r.name, version |-> r.addon] :
                         r \in {r \in registry : r.name = RunsOn(h) /\ r.version = v}}
           found == Candidate(h, override, None, offered)
<1>1. PICK m \in registry :
        /\ m.name = Main
        /\ m.version = v
        /\ LoadNative(h, override,
             IF m.addon = None THEN None ELSE [for |-> Builder, version |-> m.addon], offered)
  BY DEF InstallAndLoad
<1>2. LoadNative(h, override, None, offered)
  BY <1>1 DEF IInv, NoLocalAddon
<1>3. CASE override # None
  <2>1. found = {override}
    BY <1>3 DEF Candidate
  <2>2. addon' = override
    BY <1>2, <2>1 DEF LoadNative
  <2> QED BY <1>3, <2>2
<1>4. CASE override = None
  <2>1. found = {a \in offered : a.for = RunsOn(h)}
    BY <1>4 DEF Candidate
  <2>2. PICK r \in registry : r.name = RunsOn(h) /\ r.version = v
    BY <1>1 DEF IInv, ReleasedByOneRun
  <2>3. [for |-> r.name, version |-> r.addon] \in offered
    BY <2>2
  <2>4. [for |-> r.name, version |-> r.addon].for = RunsOn(h)
    BY <2>2
  <2> HIDE DEF offered, found
  <2>5. found # {}
    BY <2>1, <2>3, <2>4
  <2>6. PICK a \in found : loaded' = IF a.for # RunsOn(h) THEN "foreign"
                                     ELSE IF HasABI(a) THEN "yes" ELSE "old"
    BY <1>2, <2>5 DEF LoadNative, found
  <2>7. loaded' \in {"yes", "old"}
    BY <2>1, <2>6
  <2> QED BY <2>7
<1> QED BY <1>3, <1>4

(* Whenever and wherever a user installs a published version, index.js     *)
(* finds an addon built for that machine, unless there is no package for   *)
(* it, its report hides its libc, or ZEVM_NATIVE_PATH names another.       *)
THEOREM AlwaysLoads == Spec => []InstalledLoads
<1> DEFINE Inv == IInv /\ InstalledLoads
<1>1. Init => Inv
  <2> SUFFICES ASSUME Init PROVE Inv
    OBVIOUS
  <2> QED BY InitEstablishes DEF Init, AddonInit, InstalledLoads
<1>2. Inv /\ [Next]_vars => Inv'
  <2> SUFFICES ASSUME Inv, [Next]_vars PROVE InstalledLoads'
    BY Induction
  <2>1. ASSUME NEW h \in Host, NEW v \in 0..MaxVersion,
               NEW override \in Override \cup {None}, InstallAndLoad(h, override, v)
        PROVE  InstalledLoads'
    <3>1. loaded = "no"
      BY <2>1 DEF InstallAndLoad, LoadNative
    <3> QED BY <2>1, <3>1, LoadFinds
  <2>2. CASE UNCHANGED <<host, loaded, addon>>
    BY <2>2 DEF InstalledLoads, RunsOn, NativePackageKey, KeyOf
  <2>3. CASE ObjectNext
    BY <2>2, <2>3 DEF ObjectNext, New, LightMethod, Rpc, RequiredHandle, CloseLight,
                      CloseNode, Shut, Drop, Finalize
  <2> QED BY <2>1, <2>2, <2>3 DEF Next, Release, vars, avars
<1> QED BY <1>1, <1>2, PTL DEF Spec

-----------------------------------------------------------------------------
(* The memory behind the objects.  A wrapper that is not freed points to   *)
(* nothing that is, and an object that was never made has said nothing.    *)
MemoryTypes ==
  /\ handle \in [Object -> {"undefined", "external"}]
  /\ wrapper \in [Object -> {"none", "live", "freed"}]
  /\ pointer \in [Object -> {"null", "set"}]
  /\ native \in [Object -> {"none", "live", "freed"}]
  /\ DOMAIN said = Object /\ DOMAIN kind = Object

ObjectSound(o) ==
  /\ kind[o] = None => handle[o] = "undefined" /\ said[o] = "nothing" /\ wrapper[o] # "live"
  /\ wrapper[o] = "live" /\ pointer[o] = "set" => native[o] = "live"
  /\ said[o] # "invalid handle"
  /\ kind[o] # None /\ o \notin dropped /\ handle[o] = "external" =>
       wrapper[o] = "live" /\ pointer[o] = "set" /\ native[o] = "live"
  /\ handle[o] = "undefined" => native[o] # "live" /\ said[o] # "answer"

OInv == MemoryTypes /\ ~faulty /\ \A o \in Object : ObjectSound(o)

LEMMA MemoryInit == ASSUME Init PROVE OInv
BY DEF Init, AddonInit, OInv, MemoryTypes, ObjectSound

(* A step is of one object, and leaves the others as they are. *)
OthersStay(o) ==
  \A p \in Object \ {o} :
    /\ kind'[p] = kind[p] /\ handle'[p] = handle[p] /\ said'[p] = said[p]
    /\ wrapper'[p] = wrapper[p] /\ pointer'[p] = pointer[p] /\ native'[p] = native[p]
    /\ p \in dropped' <=> p \in dropped

LEMMA OneObject ==
  ASSUME OInv, NEW o \in Object, OthersStay(o),
         MemoryTypes', ~faulty', ObjectSound(o)'
  PROVE  OInv'
<1>1. ASSUME NEW p \in Object \ {o} PROVE ObjectSound(p)'
  <2>1. ObjectSound(p)
    BY DEF OInv
  <2> QED BY <2>1 DEF OthersStay, ObjectSound
<1> QED BY <1>1 DEF OInv

(* A constructor makes everything or leaves nothing. *)
LEMMA NewStep ==
  ASSUME OInv, NEW o \in Object, NEW k \in {"light", "node"}, New(o, k)
  PROVE  OInv'
<1>1. /\ k # None /\ kind[o] = None /\ kind' = [kind EXCEPT ![o] = k] /\ UNCHANGED faulty
  BY AddonAssumption DEF New
<1>2. MemoryTypes /\ ObjectSound(o) /\ ~faulty
  BY DEF OInv
<1>3. handle[o] = "undefined" /\ native[o] # "live" /\ wrapper[o] # "live"
  BY <1>1, <1>2 DEF ObjectSound
<1>4. CASE Create(o) /\ handle' = [handle EXCEPT ![o] = "external"] /\ UNCHANGED <<dropped, said>>
  <2>1. MemoryTypes'
    BY <1>1, <1>2, <1>4 DEF Create, MemoryTypes
  <2>2. ObjectSound(o)'
    BY <1>1, <1>2, <1>4 DEF Create, MemoryTypes, ObjectSound
  <2>3. OthersStay(o)
    BY <1>1, <1>2, <1>4 DEF Create, MemoryTypes, OthersStay
  <2> QED BY <1>1, <1>2, <2>1, <2>2, <2>3, OneObject
<1>5. CASE /\ CreateFails(o) /\ Say(o, "native error")
           /\ dropped' = dropped \cup {o} /\ UNCHANGED handle
  <2>1. \/ UNCHANGED <<native, wrapper, pointer>>
        \/ native' = [native EXCEPT ![o] = "freed"] /\ UNCHANGED <<wrapper, pointer>>
        \/ /\ native' = [native EXCEPT ![o] = "freed"]
           /\ wrapper' = [wrapper EXCEPT ![o] = "freed"]
           /\ pointer' = [pointer EXCEPT ![o] = "set"]
    BY <1>5 DEF CreateFails
  <2>2. said' = [said EXCEPT ![o] = "native error"] /\ UNCHANGED handle /\ o \in dropped'
    BY <1>5 DEF Say
  <2>3. /\ wrapper' \in [Object -> {"none", "live", "freed"}]
        /\ pointer' \in [Object -> {"null", "set"}]
        /\ native' \in [Object -> {"none", "live", "freed"}]
    BY <1>2, <2>1 DEF MemoryTypes
  <2>4. MemoryTypes'
    BY <1>1, <1>2, <2>2, <2>3 DEF MemoryTypes
  <2>5. wrapper'[o] # "live" /\ native'[o] # "live"
    BY <1>2, <1>3, <2>1 DEF MemoryTypes
  <2>6. kind'[o] # None /\ said'[o] = "native error"
    BY <1>1, <1>2, <2>2 DEF MemoryTypes
  <2>7. ObjectSound(o)'
    BY <2>2, <2>5, <2>6 DEF ObjectSound
  <2>8. ASSUME NEW p \in Object \ {o}
        PROVE  wrapper'[p] = wrapper[p] /\ pointer'[p] = pointer[p] /\ native'[p] = native[p]
    BY <1>2, <2>1 DEF MemoryTypes
  <2>9. OthersStay(o)
    BY <1>1, <1>2, <1>5, <2>2, <2>8 DEF MemoryTypes, OthersStay
  <2> QED BY <1>1, <1>2, <2>4, <2>7, <2>9, OneObject
<1> QED BY <1>4, <1>5 DEF New

LEMMA MethodStep ==
  ASSUME OInv, NEW o \in Object, RequiredHandle(o)
  PROVE  OInv'
<1>1. MemoryTypes /\ ObjectSound(o) /\ ~faulty
  BY DEF OInv
<1>2. kind[o] # None /\ o \notin dropped
  BY DEF RequiredHandle, Held
<1>3. PICK word \in {"closed", "answer", "native error"} :
        /\ said' = [said EXCEPT ![o] = word]
        /\ word # "closed" => handle[o] = "external"
        /\ ~faulty'
  <2>1. CASE handle[o] = "undefined"
    BY <1>1, <2>1 DEF RequiredHandle, Say
  <2>2. CASE handle[o] # "undefined"
    <3>1. /\ handle[o] = "external"
          /\ wrapper[o] = "live" /\ pointer[o] = "set" /\ native[o] = "live"
      BY <1>1, <1>2, <2>2 DEF MemoryTypes, ObjectSound
    <3>2. Answer(o) = {"answer", "native error"} /\ ~UsesFreed(o)
      BY <3>1 DEF Answer, HandleRefused, UsesFreed
    <3>3. ~faulty'
      BY <1>1, <2>2, <3>2 DEF RequiredHandle
    <3> QED BY <2>2, <3>1, <3>2, <3>3 DEF RequiredHandle, Say
  <2> QED BY <2>1, <2>2
<1>4. UNCHANGED <<kind, handle, dropped, wrapper, pointer, native>>
  BY DEF RequiredHandle
<1>5. MemoryTypes'
  BY <1>1, <1>3, <1>4 DEF MemoryTypes
<1>6. said'[o] = word
  BY <1>1, <1>3 DEF MemoryTypes
<1>7. ObjectSound(o)'
  BY <1>1, <1>2, <1>3, <1>4, <1>6 DEF ObjectSound
<1>8. OthersStay(o)
  BY <1>1, <1>3, <1>4 DEF MemoryTypes, OthersStay
<1> QED BY <1>3, <1>5, <1>7, <1>8, OneObject

LEMMA ShutStep ==
  ASSUME OInv, NEW o \in Object, Shut(o)
  PROVE  OInv'
<1>1. MemoryTypes /\ ObjectSound(o) /\ ~faulty
  BY DEF OInv
<1>2. kind[o] # None /\ o \notin dropped
  BY DEF Shut, Held
<1>3. /\ said' = [said EXCEPT ![o] = "nothing"] /\ ~faulty'
      /\ native' = IF handle[o] = "undefined" THEN native ELSE [native EXCEPT ![o] = "freed"]
      /\ pointer' = IF handle[o] = "undefined" THEN pointer ELSE [pointer EXCEPT ![o] = "null"]
  <2>1. CASE handle[o] = "undefined"
    BY <1>1, <2>1 DEF Shut, Say
  <2>2. CASE handle[o] # "undefined"
    <3>1. wrapper[o] = "live" /\ pointer[o] = "set" /\ native[o] = "live"
      BY <1>1, <1>2, <2>2 DEF MemoryTypes, ObjectSound
    <3>2. ~HandleRefused(o) /\ ~UsesFreed(o)
      BY <3>1 DEF HandleRefused, UsesFreed
    <3>3. Destroy(o) /\ said' = [said EXCEPT ![o] = "nothing"]
      BY <2>2, <3>2 DEF Shut, Say
    <3>4. ~faulty'
      BY <1>1, <3>2, <3>3 DEF Destroy
    <3> QED BY <2>2, <3>1, <3>2, <3>3, <3>4 DEF Destroy, FreeNative
  <2> QED BY <2>1, <2>2
<1>4. /\ handle' = [handle EXCEPT ![o] = "undefined"]
      /\ UNCHANGED <<kind, dropped, wrapper>>
  BY DEF Shut
<1>5. MemoryTypes'
  BY <1>1, <1>3, <1>4 DEF MemoryTypes
<1>6. handle'[o] = "undefined" /\ said'[o] = "nothing"
  BY <1>1, <1>3, <1>4 DEF MemoryTypes
<1>7. native'[o] # "live" /\ (wrapper[o] = "live" => pointer'[o] # "set")
  BY <1>1, <1>3 DEF MemoryTypes, ObjectSound
<1>8. ObjectSound(o)'
  BY <1>2, <1>4, <1>6, <1>7 DEF ObjectSound
<1>9. OthersStay(o)
  BY <1>1, <1>3, <1>4 DEF MemoryTypes, OthersStay
<1> QED BY <1>3, <1>5, <1>8, <1>9, OneObject

LEMMA DropStep ==
  ASSUME OInv, NEW o \in Object, Drop(o)
  PROVE  OInv'
<1>1. MemoryTypes /\ ObjectSound(o) /\ ~faulty
  BY DEF OInv
<1>2. /\ dropped' = dropped \cup {o}
      /\ UNCHANGED <<kind, handle, said, wrapper, pointer, native, faulty>>
  BY DEF Drop, mvars
<1>3. MemoryTypes' /\ OthersStay(o)
  BY <1>1, <1>2 DEF MemoryTypes, OthersStay
<1>4. ObjectSound(o)'
  BY <1>1, <1>2 DEF ObjectSound
<1>5. ~faulty'
  BY <1>1, <1>2
<1> QED BY <1>3, <1>4, <1>5, OneObject

LEMMA FinalizeStep ==
  ASSUME OInv, NEW o \in Object, Finalize(o)
  PROVE  OInv'
<1>1. MemoryTypes /\ ObjectSound(o) /\ ~faulty
  BY DEF OInv
<1>2. wrapper[o] = "live" /\ (handle[o] = "undefined" \/ o \in dropped)
  BY DEF Finalize
<1>3. ~UsesFreed(o)
  BY <1>1, <1>2 DEF ObjectSound, UsesFreed
<1>4. ~faulty'
  BY <1>1, <1>3 DEF Finalize
<1>5. /\ native' = [native EXCEPT ![o] = IF pointer[o] = "set" THEN "freed" ELSE native[o]]
      /\ wrapper' = [wrapper EXCEPT ![o] = "freed"]
      /\ UNCHANGED <<kind, handle, dropped, said, pointer>>
  BY DEF Finalize, FreeNative
<1>6. MemoryTypes'
  BY <1>1, <1>5 DEF MemoryTypes
<1>7. wrapper'[o] = "freed" /\ (native[o] # "live" => native'[o] # "live")
  BY <1>1, <1>5 DEF MemoryTypes
<1>8. ObjectSound(o)'
  BY <1>1, <1>2, <1>5, <1>7 DEF ObjectSound
<1>9. OthersStay(o)
  BY <1>1, <1>5 DEF MemoryTypes, OthersStay
<1> QED BY <1>4, <1>6, <1>8, <1>9, OneObject

LEMMA ObjectStep == ASSUME OInv, ObjectNext PROVE OInv'
<1> PICK o \in Object :
      \/ \E k \in {"light", "node"} : New(o, k)
      \/ LightMethod(o) \/ Rpc(o) \/ CloseLight(o) \/ CloseNode(o)
      \/ Drop(o) \/ Finalize(o)
  BY DEF ObjectNext
<1> QED BY NewStep, MethodStep, ShutStep, DropStep, FinalizeStep
           DEF LightMethod, Rpc, CloseLight, CloseNode

(* Memory of the addon is freed once, by light_shutdown, node_destroy, a   *)
(* finalizer or a failed constructor, and never used afterwards; what is   *)
(* closed is freed and answers for itself, whatever the order of calls,    *)
(* closes and the garbage collector.                                       *)
THEOREM AlwaysClosed == Spec => []ClosedStaysClosed
<1>1. OInv /\ [Next]_vars => OInv'
  <2>1. ASSUME OInv, UNCHANGED ovars PROVE OInv'
    BY <2>1 DEF ovars, mvars, OInv, MemoryTypes, ObjectSound
  <2> QED BY <2>1, ObjectStep DEF Next, Release, InstallAndLoad, LoadNative, vars, avars, ovars
<1>2. Spec => []OInv
  BY <1>1, MemoryInit, PTL DEF Spec
<1>3. OInv => ClosedStaysClosed
  BY DEF OInv, ObjectSound, ClosedStaysClosed, Held
<1> QED BY <1>2, <1>3, PTL

-----------------------------------------------------------------------------
(* The types of the npm packages.  That what an installation loads has a   *)
(* version at all needs that no platform package is published without an   *)
(* addon: publish-all.cjs looks for all of them before its first upload,   *)
(* and nothing takes one away.                                             *)
PackagesHaveAddons ==
  /\ at = "upload" => AllStaged
  /\ \A r \in registry : r.name \in Platform => r.addon \in 0..MaxVersion

NpmInv == ReleaseTypeOK /\ AddonTypeOK /\ PackagesHaveAddons

LEMMA NpmInit == ASSUME Init PROVE NpmInv
<1>1. ReleaseTypeOK
  BY ReleaseAssumption DEF Init, ReleaseInit, ReleaseTypeOK, Addon
<1>2. AddonTypeOK
  BY DEF Init, AddonInit, AddonTypeOK
<1>3. PackagesHaveAddons
  BY DEF Init, ReleaseInit, PackagesHaveAddons
<1> QED
  BY <1>1, <1>2, <1>3 DEF NpmInv

(* A package that is uploaded has its types.                               *)
LEMMA UploadsAreTyped ==
  ASSUME ReleaseTypeOK, PackagesHaveAddons, at = "upload", NEW n \in NextUpload
  PROVE  /\ Entry(n) \in [name : Name, version : 0..MaxVersion, addon : Addon,
                          job : 0..MaxJobs]
         /\ n \in Platform => Entry(n).addon \in 0..MaxVersion
<1>1. n \in Name /\ (n \in Platform <=> n # Main)
  BY ReleaseAssumption DEF NextUpload, Name, ReleaseTypeOK, Main
<1>2. n \in Platform => staged[n] # None /\ staged[n] \in Addon
  BY DEF PackagesHaveAddons, AllStaged, ReleaseTypeOK
<1>3. Content(n) \in Addon /\ (n \in Platform => Content(n) \in 0..MaxVersion)
  BY <1>1, <1>2 DEF Content, ReleaseTypeOK, Addon, Name
<1> QED
  BY <1>1, <1>3 DEF Entry, ReleaseTypeOK

LEMMA UploadKeepsTypes ==
  ASSUME ReleaseTypeOK, PackagesHaveAddons, Upload
  PROVE  ReleaseTypeOK' /\ PackagesHaveAddons'
<1>1. PICK n \in NextUpload : Uploaded(n) \/ UploadedUnnoticed(n)
  BY DEF Upload
<1>2. UNCHANGED <<version, built, staged, local, job>> /\ at = "upload"
  BY DEF Upload
<1>3. registry' \in {registry, registry \cup {Entry(n)}}
  BY <1>1 DEF Uploaded, UploadedUnnoticed, Entry
<1>4. /\ script' \in {script, "none"} /\ at' \in {at, "none"}
      /\ todo' \subseteq todo
  BY <1>1 DEF Uploaded, UploadedUnnoticed, Stop
<1>5. /\ registry' \subseteq [name : Name, version : 0..MaxVersion, addon : Addon,
                              job : 0..MaxJobs]
      /\ \A r \in registry' : r.name \in Platform => r.addon \in 0..MaxVersion
  <2>1. /\ Entry(n) \in [name : Name, version : 0..MaxVersion, addon : Addon, job : 0..MaxJobs]
        /\ n \in Platform => Entry(n).addon \in 0..MaxVersion
    BY <1>2, UploadsAreTyped
  <2>2. Entry(n).name = n
    BY DEF Entry
  <2>3. /\ registry \subseteq [name : Name, version : 0..MaxVersion, addon : Addon,
                               job : 0..MaxJobs]
        /\ \A r \in registry : r.name \in Platform => r.addon \in 0..MaxVersion
    BY DEF ReleaseTypeOK, PackagesHaveAddons
  <2> QED
    BY <1>3, <2>1, <2>2, <2>3
<1>6. ReleaseTypeOK'
  BY <1>2, <1>4, <1>5 DEF ReleaseTypeOK, Addon, Name
<1>7. PackagesHaveAddons'
  BY <1>2, <1>4, <1>5 DEF PackagesHaveAddons, AllStaged
<1> QED
  BY <1>6, <1>7

(* A number below its bound grows within it. *)
LEMMA NumbersGrow ==
  ASSUME NEW m \in Nat, NEW j \in 0..m, j < m
  PROVE  j + 1 \in 0..m
  OBVIOUS

LEMMA ReleaseKeepsTypes ==
  ASSUME ReleaseTypeOK, PackagesHaveAddons, ReleaseNext
  PROVE  ReleaseTypeOK' /\ PackagesHaveAddons'
<1> USE ReleaseAssumption DEF ReleaseTypeOK, Addon, Name
<1> DEFINE P == ReleaseTypeOK' /\ PackagesHaveAddons'
<1>1. ASSUME Bump PROVE P
  <2>1. version + 1 \in 0..MaxVersion
    BY <1>1 DEF Bump
  <2> QED
    BY <1>1, <2>1 DEF Bump, PackagesHaveAddons, AllStaged
<1>2. ASSUME RemoveBuildOutput PROVE P
  BY <1>2 DEF RemoveBuildOutput, PackagesHaveAddons, AllStaged
<1>3. ASSUME CopyLocalAddon PROVE P
  BY <1>3 DEF CopyLocalAddon, PackagesHaveAddons, AllStaged
<1>4. ASSUME NEW p \in Platform, Build(p) PROVE P
  BY <1>4 DEF Build, PackagesHaveAddons, AllStaged
<1>5. ASSUME NEW s \in {"stage", "publish", "dry run"}, Begin(s) PROVE P
  <2>1. job + 1 \in 0..MaxJobs
    <3>1. job \in 0..MaxJobs /\ job < MaxJobs /\ MaxJobs \in Nat
      BY <1>5, Zenon DEF Begin
    <3> QED
      BY <3>1, NumbersGrow
  <2>2. PackagesHaveAddons'
    BY <1>5 DEF Begin, PackagesHaveAddons, AllStaged
  <2>3. /\ UNCHANGED <<version, built, staged, local, registry>>
        /\ job' \in 0..MaxJobs /\ script' = s /\ at' = "local" /\ todo' = Platform
    BY <1>5, <2>1 DEF Begin
  <2>4. ReleaseTypeOK'
    BY <2>3
  <2> QED
    BY <2>2, <2>4
<1>6. ASSUME RemoveLocalAddon PROVE P
  BY <1>6 DEF RemoveLocalAddon, PackagesHaveAddons, AllStaged
<1>7. ASSUME NEW p \in Platform, Copy(p) PROVE P
  BY <1>7 DEF Copy, PackagesHaveAddons
<1>8. ASSUME Staged PROVE P
  BY <1>8 DEF Staged, Stop, PackagesHaveAddons
<1>9. ASSUME Collect PROVE P
  BY <1>9 DEF Collect, Stop, PackagesHaveAddons, AllStaged
<1>10. ASSUME Upload PROVE P
  BY <1>10, UploadKeepsTypes
<1>11. ASSUME Break PROVE P
  BY <1>11 DEF Break, Stop, PackagesHaveAddons
<1> QED
  BY <1>1, <1>2, <1>3, <1>4, <1>5, <1>6, <1>7, <1>8, <1>9, <1>10, <1>11 DEF ReleaseNext

(* What index.js loads is an addon of a platform and a version.            *)
LEMMA InstallKeepsTypes ==
  ASSUME NpmInv, NEW h \in Host, NEW v \in 0..MaxVersion, NEW o \in Override \cup {None},
         InstallAndLoad(h, o, v)
  PROVE  AddonTypeOK'
<1>1. PICK m \in registry :
        /\ m.name = Main /\ m.version = v
        /\ LoadNative(h, o,
             IF m.addon = None THEN None ELSE [for |-> Builder, version |-> m.addon],
             {[for |-> r.name, version |-> r.addon] :
                r \in {r \in registry : r.name = RunsOn(h) /\ r.version = v}})
  BY DEF InstallAndLoad
<1> DEFINE inside == IF m.addon = None THEN None ELSE [for |-> Builder, version |-> m.addon]
           others == {[for |-> r.name, version |-> r.addon] :
                        r \in {r \in registry : r.name = RunsOn(h) /\ r.version = v}}
           found == Candidate(h, o, inside, others)
           Typed == [for : Platform, version : Nat]
<1>2. inside = None \/ inside \in Typed
  <2>1. m.addon \in 0..MaxVersion \cup {None}
    BY DEF NpmInv, ReleaseTypeOK, Addon
  <2> QED
    BY <2>1, ReleaseAssumption
<1>3. ASSUME NEW a \in others, a.for \in Platform PROVE a \in Typed
  <2>1. PICK r \in registry : a = [for |-> r.name, version |-> r.addon]
    BY <1>3
  <2>2. r.name \in Platform /\ r.addon \in 0..MaxVersion
    BY <1>3, <2>1 DEF NpmInv, PackagesHaveAddons
  <2> QED
    BY <2>1, <2>2, ReleaseAssumption
<1>4. found \subseteq Typed
  BY <1>2, <1>3, OverrideAssumption DEF Candidate
<1>5. /\ host' = h /\ UNCHANGED ovars
      /\ \/ loaded' = "missing" /\ addon' = None
         \/ addon' \in found /\ loaded' \in {"foreign", "yes", "old"}
  <2>1. LoadNative(h, o, inside, others)
    BY <1>1
  <2> QED
    BY <2>1 DEF LoadNative
<1> QED
  BY <1>4, <1>5 DEF NpmInv, AddonTypeOK, ovars, mvars

LEMMA ObjectsKeepTypes == ASSUME AddonTypeOK, ObjectNext PROVE AddonTypeOK'
<1> PICK o \in Object :
      \/ \E k \in {"light", "node"} : New(o, k)
      \/ LightMethod(o) \/ Rpc(o) \/ CloseLight(o) \/ CloseNode(o)
      \/ Drop(o) \/ Finalize(o)
  BY DEF ObjectNext
<1> DEFINE Said == {"nothing", "answer", "native error", "closed", "invalid handle"}
<1>0. ASSUME NEW s \in Said, Say(o, s) PROVE said' \in [Object -> Said]
  BY <1>0 DEF Say, AddonTypeOK
<1>1. ASSUME NEW k \in {"light", "node"}, New(o, k) PROVE AddonTypeOK'
  <2>1. said' \in [Object -> Said]
    BY <1>0, <1>1 DEF New, AddonTypeOK
  <2>2. handle' \in [Object -> {"undefined", "external"}]
    BY <1>1 DEF New, AddonTypeOK
  <2>3. /\ wrapper' \in [Object -> {"none", "live", "freed"}]
        /\ pointer' \in [Object -> {"null", "set"}]
        /\ native' \in [Object -> {"none", "live", "freed"}]
    <3>1. \/ Create(o) \/ CreateFails(o)
      BY <1>1 DEF New
    <3>2. CASE Create(o)
      BY <3>2 DEF Create, AddonTypeOK
    <3>3. CASE CreateFails(o)
      BY <3>3 DEF CreateFails, AddonTypeOK
    <3> QED
      BY <3>1, <3>2, <3>3
  <2>4. /\ kind' \in [Object -> {"light", "node", None}] /\ dropped' \subseteq Object
        /\ UNCHANGED <<host, loaded, addon, faulty>>
    BY <1>1 DEF New, AddonTypeOK
  <2> QED
    BY <2>1, <2>2, <2>3, <2>4 DEF AddonTypeOK
<1>2. ASSUME RequiredHandle(o) PROVE AddonTypeOK'
  <2>1. \A a \in Answer(o) : a \in Said
    BY DEF Answer, HandleRefused
  <2>2. said' \in [Object -> Said]
    BY <1>0, <1>2, <2>1 DEF RequiredHandle
  <2> QED
    BY <1>2, <2>2 DEF RequiredHandle, AddonTypeOK
<1>3. ASSUME Shut(o) PROVE AddonTypeOK'
  <2>1. said' \in [Object -> Said]
    BY <1>0, <1>3 DEF Shut
  <2>2. /\ pointer' \in [Object -> {"null", "set"}]
        /\ native' \in [Object -> {"none", "live", "freed"}] /\ faulty' \in BOOLEAN
    BY <1>3 DEF Shut, Destroy, FreeNative, AddonTypeOK
  <2> QED
    BY <1>3, <2>1, <2>2 DEF Shut, AddonTypeOK
<1>4. ASSUME Drop(o) PROVE AddonTypeOK'
  BY <1>4 DEF Drop, mvars, AddonTypeOK
<1>5. ASSUME Finalize(o) PROVE AddonTypeOK'
  <2>1. native' \in [Object -> {"none", "live", "freed"}]
    BY <1>5 DEF Finalize, FreeNative, AddonTypeOK
  <2> QED
    BY <1>5, <2>1 DEF Finalize, AddonTypeOK
<1> QED
  BY <1>1, <1>2, <1>3, <1>4, <1>5 DEF LightMethod, Rpc, CloseLight, CloseNode

LEMMA NpmStep == ASSUME NpmInv, [Next]_vars PROVE NpmInv'
<1>1. CASE Release
  <2>1. AddonTypeOK'
    BY <1>1 DEF Release, NpmInv, AddonTypeOK, avars, mvars
  <2> QED
    BY <1>1, <2>1, ReleaseKeepsTypes DEF Release, NpmInv
<1>2. ASSUME UNCHANGED rvars PROVE ReleaseTypeOK' /\ PackagesHaveAddons'
  BY <1>2 DEF rvars, NpmInv, ReleaseTypeOK, PackagesHaveAddons, AllStaged, Addon, Name
<1>3. CASE \E h \in Host, v \in 0..MaxVersion, o \in Override \cup {None} : InstallAndLoad(h, o, v)
  <2>1. PICK h \in Host, v \in 0..MaxVersion, o \in Override \cup {None} : InstallAndLoad(h, o, v)
    BY <1>3
  <2>2. UNCHANGED rvars
    BY <2>1 DEF InstallAndLoad
  <2> QED
    BY <1>2, <2>1, <2>2, InstallKeepsTypes DEF NpmInv
<1>4. CASE ObjectNext /\ UNCHANGED rvars
  BY <1>2, <1>4, ObjectsKeepTypes DEF NpmInv
<1>5. CASE UNCHANGED vars
  <2>1. AddonTypeOK'
    BY <1>5 DEF vars, NpmInv, AddonTypeOK, avars, mvars
  <2> QED
    BY <1>2, <1>5, <2>1 DEF vars, NpmInv
<1> QED
  BY <1>1, <1>3, <1>4, <1>5 DEF Next

(* Every reachable state of a release and of a process that uses it has    *)
(* its types, and no platform package is published without an addon.       *)
THEOREM NpmTypesHold == Spec => [](TypeOK /\ PackagesHaveAddons)
<1>1. NpmInv => TypeOK /\ PackagesHaveAddons
  BY DEF NpmInv, TypeOK
<1> QED
  BY <1>1, NpmInit, NpmStep, PTL DEF Spec

-----------------------------------------------------------------------------
(* The audit of a release. *)

(* What each check reports of this checkout, under these options. *)
GitResult == IF "git" \in absent THEN {"no git"} ELSE GitFound
MapResult ==
  IF "bad map" \in facts
  THEN {"bad map"}
  ELSE IF "--allow-open-qualification" \in args THEN {} ELSE facts \cap {"open rows"}
MarkerResult == IF "rg" \in absent THEN {} ELSE facts \cap MarkerFacts

(* What the checks before a step have reported. *)
ReportedBy ==
  [s \in {"git", "map", "manifest", "evidence", "markers", "preflight", "child", "verdict"} |->
     (IF s = "git" THEN {} ELSE GitResult) \cup
     (IF s \in {"git", "map"} THEN {} ELSE MapResult) \cup
     (IF s \in {"git", "map", "manifest"} THEN {} ELSE facts \cap ManifestFacts) \cup
     (IF s \in {"git", "map", "manifest", "evidence"} THEN {} ELSE facts \cap EvidenceFacts) \cup
     (IF s \in {"git", "map", "manifest", "evidence", "markers"} THEN {} ELSE MarkerResult)]

(* A preflight that exited with 0 has seen a fresh executable reach main.  *)
PreflightTells ==
  status = 0 => task = "exited" /\ (darwin => probe = "greeted")

(* It has not been started before its turn. *)
PreflightWaits ==
  step \notin {"child", "verdict", "done", "interrupted"} => task = "off"

(* No blocker is lost or made up between a check and the verdict. *)
NothingLost ==
  /\ step = "arguments" => failures = {}
  /\ step \in DOMAIN ReportedBy => failures \ {"no launch"} = ReportedBy[step]
  /\ step \in DOMAIN ReportedBy \ {"verdict"} => "no launch" \notin failures

(* The audit goes by the preflight it was asked for. *)
PreflightCounts == "--include-launch-preflight" \in args => status = 0 \/ "no launch" \in failures

VerdictGiven ==
  /\ step = "verdict" => PreflightCounts
  /\ Judged /\ exit = 0 =>
       failures = {} /\ PreflightCounts /\ ReportedBy["verdict"] = {}
  /\ Judged /\ exit = 1 /\ absent \cap {"build.zig.zon", "hive_rpc_compat_smoke.ts"} = {} =>
       failures # {} /\ failures \ {"no launch"} = ReportedBy["verdict"]

AuditInv ==
  facts \in Facts /\ PreflightTells /\ PreflightWaits /\ NothingLost /\ VerdictGiven

(* What the checks report is what blocks the release and is not excused.   *)
LEMMA ReportsAreRight ==
  ASSUME facts \in Facts
  PROVE  /\ {f \in facts : ~Excused(f)} = ReportedBy["verdict"] \ {"no git", "no launch"}
         /\ "no git" \in ReportedBy["verdict"] <=> "git" \in absent
         /\ "no launch" \notin ReportedBy["verdict"]
<1> DEFINE reported == ReportedBy["verdict"]
<1>1. facts \subseteq Fact
  BY AuditAssumption
<1>2. reported = GitResult \cup MapResult \cup (facts \cap ManifestFacts)
                   \cup (facts \cap EvidenceFacts) \cup MarkerResult
  BY DEF ReportedBy
<1>3. \A f \in facts \cap GitFacts :
        ~Excused(f) <=> f \in GitResult
  BY DEF GitFacts, MapFacts, MarkerFacts, Excused, GitResult, GitFound
<1>4. \A f \in facts \cap MapFacts :
        ~Excused(f) <=> f \in MapResult
  BY DEF GitFacts, MapFacts, MarkerFacts, Excused, MapResult
<1>5. \A f \in facts \cap MarkerFacts :
        ~Excused(f) <=> f \in MarkerResult
  BY DEF GitFacts, MapFacts, MarkerFacts, Excused, MarkerResult
<1>6. \A f \in facts \cap (ManifestFacts \cup EvidenceFacts) : ~Excused(f)
  BY DEF GitFacts, MapFacts, ManifestFacts, EvidenceFacts, MarkerFacts, Excused
<1>7. /\ GitResult \subseteq (facts \cap GitFacts) \cup {"no git"}
      /\ MapResult \subseteq facts \cap MapFacts
      /\ MarkerResult \subseteq facts \cap MarkerFacts
      /\ "no git" \in GitResult <=> "git" \in absent
  BY <1>1 DEF GitResult, GitFound, MapResult, MarkerResult, GitFacts, MapFacts,
       ManifestFacts, EvidenceFacts, MarkerFacts, Fact
<1>8. /\ GitFacts \cap (MapFacts \cup ManifestFacts \cup EvidenceFacts \cup MarkerFacts) = {}
      /\ MapFacts \cap (ManifestFacts \cup EvidenceFacts \cup MarkerFacts) = {}
      /\ MarkerFacts \cap (ManifestFacts \cup EvidenceFacts) = {}
      /\ Fact \cap {"no git", "no launch"} = {}
  BY DEF GitFacts, MapFacts, ManifestFacts, EvidenceFacts, MarkerFacts, Fact
<1> HIDE DEF reported
<1>9. \A f \in facts : ~Excused(f) <=> f \in reported
  BY <1>1, <1>2, <1>3, <1>4, <1>5, <1>6, <1>7, <1>8 DEF Fact
<1>10. reported \ {"no git"} \subseteq facts
  BY <1>2, <1>7
<1>11. "no git" \in reported <=> "git" \in absent
  BY <1>1, <1>2, <1>7, <1>8
<1>12. "no launch" \notin reported
  BY <1>1, <1>8, <1>10
<1> QED
  BY <1>1, <1>8, <1>9, <1>10, <1>11, <1>12 DEF reported

LEMMA AuditInvVerdict == AuditInv => VerdictIsRight
<1> SUFFICES ASSUME AuditInv PROVE VerdictIsRight
  OBVIOUS
<1>1. PassMeansClear
  <2> SUFFICES ASSUME Judged, exit = 0
               PROVE  /\ \A f \in facts : Excused(f)
                      /\ "git" \notin absent
                      /\ "--include-launch-preflight" \in args /\ darwin => probe = "greeted"
    BY DEF PassMeansClear
  <2>1. failures = {} /\ PreflightCounts /\ ReportedBy["verdict"] = {}
    BY DEF AuditInv, VerdictGiven
  <2>2. (\A f \in facts : Excused(f)) /\ "git" \notin absent
    BY <2>1, ReportsAreRight DEF AuditInv
  <2>3. "--include-launch-preflight" \in args /\ darwin => probe = "greeted"
    BY <2>1 DEF AuditInv, PreflightCounts, PreflightTells
  <2> QED
    BY <2>2, <2>3
<1>2. FailureNamesAll
  <2> SUFFICES ASSUME Judged, exit = 1,
                      absent \cap {"build.zig.zon", "hive_rpc_compat_smoke.ts"} = {}
               PROVE  /\ failures # {}
                      /\ {f \in facts : ~Excused(f)} = failures \ {"no git", "no launch"}
                      /\ "no git" \in failures <=> "git" \in absent
    BY DEF FailureNamesAll
  <2>1. failures # {} /\ failures \ {"no launch"} = ReportedBy["verdict"]
    BY DEF AuditInv, VerdictGiven
  <2>2. /\ {f \in facts : ~Excused(f)} = ReportedBy["verdict"] \ {"no git", "no launch"}
        /\ "no git" \in ReportedBy["verdict"] <=> "git" \in absent
    BY ReportsAreRight DEF AuditInv
  <2>3. failures \ {"no git", "no launch"} = ReportedBy["verdict"] \ {"no git", "no launch"}
    BY <2>1
  <2>4. "no git" \in failures <=> "no git" \in ReportedBy["verdict"]
    BY <2>1
  <2> QED
    BY <2>1, <2>2, <2>3, <2>4
<1> QED
  BY <1>1, <1>2 DEF VerdictIsRight

(* The reports depend on the checkout and the options alone. *)
LEMMA SameReports ==
  ASSUME UNCHANGED <<args, facts, absent>>
  PROVE  ReportedBy' = ReportedBy
<1>1. GitResult' = GitResult /\ MapResult' = MapResult /\ MarkerResult' = MarkerResult
  BY DEF GitResult, GitFound, MapResult, MarkerResult
<1> QED
  BY <1>1 DEF ReportedBy

(* One check reports what is its own and passes on what was reported.      *)
LEMMA CheckReports ==
  ASSUME AuditInv, NEW here, NEW found, NEW next, Check(here, found, next),
         here \in DOMAIN ReportedBy, here \notin {"child", "verdict"},
         next \in DOMAIN ReportedBy \ {"child", "verdict"}, "no launch" \notin found,
         ReportedBy[next] = ReportedBy[here] \cup found
  PROVE  AuditInv'
<1>1. /\ step = here /\ step' = next /\ failures' = failures \cup found
      /\ UNCHANGED <<pvars, args, facts, absent, exit>>
  BY DEF Check
<1>2. ReportedBy' = ReportedBy
  BY <1>1, SameReports
<1>3. DOMAIN ReportedBy = {"git", "map", "manifest", "evidence", "markers",
                           "preflight", "child", "verdict"}
  BY DEF ReportedBy
<1>4. NothingLost'
  BY <1>1, <1>2, <1>3 DEF AuditInv, NothingLost
<1>5. PreflightTells' /\ PreflightWaits'
  BY <1>1, <1>3 DEF AuditInv, PreflightTells, PreflightWaits, pvars
<1>6. VerdictGiven'
  BY <1>1, <1>3 DEF VerdictGiven, Judged
<1> QED
  BY <1>1, <1>4, <1>5, <1>6 DEF AuditInv

LEMMA AuditInitEstablishes == AuditInit => AuditInv
  BY PreflightAssumption
     DEF AuditInit, PreflightInit, AuditInv, PreflightTells, PreflightWaits, NothingLost,
         VerdictGiven, Judged, ReportedBy

(* A step of the preflight, on its own or with the audit gone.             *)
LEMMA PreflightKeeps ==
  ASSUME AuditInv, PreflightNext, UNCHANGED audit
  PROVE  AuditInv'
<1>1. UNCHANGED <<args, facts, absent, step, failures, exit>>
  BY DEF audit
<1>2. PreflightTells' /\ PreflightWaits' /\ (status = 0 => status' = 0)
  BY <1>1
     DEF AuditInv, PreflightTells, PreflightWaits, PreflightNext, PreflightStep, MakeTmp, Register,
         CompileAndStart, TimerFires, SeeExit, JudgeProbe, ProbeEnds, HandleSignal, Die,
         ExitWith, Launched, thisHost
<1>3. ReportedBy' = ReportedBy
  BY <1>1, SameReports
<1>4. NothingLost'
  BY <1>1, <1>3 DEF AuditInv, NothingLost
<1>5. PreflightCounts => PreflightCounts'
  BY <1>1, <1>2 DEF PreflightCounts
<1>6. VerdictGiven'
  BY <1>1, <1>3, <1>5 DEF AuditInv, VerdictGiven, Judged
<1> QED
  BY <1>1, <1>2, <1>4, <1>6 DEF AuditInv

LEMMA AuditStepKeeps ==
  ASSUME AuditInv, AuditStep
  PROVE  AuditInv'
<1>0. DOMAIN ReportedBy = {"git", "map", "manifest", "evidence", "markers",
                           "preflight", "child", "verdict"}
  BY DEF ReportedBy
<1>1. CASE Arguments
  <2>1. /\ step = "arguments" /\ UNCHANGED <<pvars, args, facts, absent, failures>>
        /\ \/ step' = "done" /\ exit' = 2
           \/ step' = "done" /\ exit' = 0 /\ "--help" \in args
           \/ step' = "git"
    BY <1>1 DEF Arguments, Finish
  <2>2. failures' = {} /\ ReportedBy' = ReportedBy /\ ReportedBy["git"] = {}
    BY <2>1, SameReports DEF AuditInv, NothingLost, ReportedBy
  <2>3. NothingLost'
    BY <1>0, <2>1, <2>2 DEF NothingLost
  <2>4. PreflightTells' /\ PreflightWaits'
    BY <2>1 DEF AuditInv, PreflightTells, PreflightWaits, pvars
  <2>5. VerdictGiven'
    <3>1. step' # "verdict"
      BY <2>1
    <3>2. Judged' => exit' # 0 /\ exit' # 1
      BY <2>1 DEF Judged
    <3> QED
      BY <3>1, <3>2 DEF VerdictGiven
  <2> QED
    BY <2>1, <2>3, <2>4, <2>5 DEF AuditInv
<1>2. CASE CheckCleanGit
  <2>1. ReportedBy["map"] = ReportedBy["git"] \cup GitResult
    BY DEF ReportedBy
  <2>2. "no launch" \notin GitResult
    BY DEF GitResult, GitFound
  <2> QED
    BY <1>0, <1>2, <2>1, <2>2, CheckReports DEF CheckCleanGit, GitResult
<1>3. CASE CheckQualificationMap
  <2>1. ReportedBy["manifest"] = ReportedBy["map"] \cup MapResult
    BY DEF ReportedBy
  <2>2. "no launch" \notin MapResult
    BY DEF MapResult
  <2> QED
    BY <1>0, <1>3, <2>1, <2>2, CheckReports DEF CheckQualificationMap, MapResult
<1>4. CASE Check("manifest", facts \cap ManifestFacts, "evidence")
  <2>1. ReportedBy["evidence"] = ReportedBy["manifest"] \cup (facts \cap ManifestFacts)
    BY DEF ReportedBy
  <2>2. "no launch" \notin facts \cap ManifestFacts
    BY DEF ManifestFacts
  <2> QED
    BY <1>0, <1>4, <2>1, <2>2, CheckReports
<1>5. CASE Check("evidence", facts \cap EvidenceFacts, "markers")
  <2>1. ReportedBy["markers"] = ReportedBy["evidence"] \cup (facts \cap EvidenceFacts)
    BY DEF ReportedBy
  <2>2. "no launch" \notin facts \cap EvidenceFacts
    BY DEF EvidenceFacts
  <2> QED
    BY <1>0, <1>5, <2>1, <2>2, CheckReports
<1>6. CASE CheckMarkers
  <2>1. ReportedBy["preflight"] = ReportedBy["markers"] \cup MarkerResult
    BY DEF ReportedBy
  <2>2. "no launch" \notin MarkerResult
    BY DEF MarkerResult, MarkerFacts
  <2> QED
    BY <1>0, <1>6, <2>1, <2>2, CheckReports DEF CheckMarkers, MarkerResult
<1>7. CASE Throw("manifest", "build.zig.zon") \/ Throw("evidence", "hive_rpc_compat_smoke.ts")
  <2>1. /\ step' = "done" /\ exit' = 1
        /\ absent \cap {"build.zig.zon", "hive_rpc_compat_smoke.ts"} # {}
        /\ UNCHANGED <<pvars, args, facts, absent, failures>>
    BY <1>7 DEF Throw, Finish
  <2>2. NothingLost'
    BY <1>0, <2>1, SameReports DEF NothingLost
  <2>3. PreflightTells' /\ PreflightWaits'
    BY <2>1 DEF AuditInv, PreflightTells, PreflightWaits, pvars
  <2>4. VerdictGiven'
    <3>1. step' # "verdict" /\ exit' # 0
      BY <2>1
    <3>2. absent' \cap {"build.zig.zon", "hive_rpc_compat_smoke.ts"} # {}
      BY <2>1
    <3> QED
      BY <3>1, <3>2 DEF VerdictGiven
  <2> QED
    BY <2>1, <2>2, <2>3, <2>4 DEF AuditInv
<1>8. CASE SkipLaunchPreflight
  <2>1. /\ step = "preflight" /\ step' = "verdict" /\ failures' = failures
        /\ "--include-launch-preflight" \notin args
        /\ UNCHANGED <<pvars, args, facts, absent, exit>>
    BY <1>8 DEF SkipLaunchPreflight, Check
  <2>2. ReportedBy' = ReportedBy /\ ReportedBy["verdict"] = ReportedBy["preflight"]
    BY <2>1, SameReports DEF ReportedBy
  <2>3. NothingLost'
    BY <1>0, <2>1, <2>2 DEF AuditInv, NothingLost
  <2>4. PreflightTells' /\ PreflightWaits'
    BY <2>1 DEF AuditInv, PreflightTells, PreflightWaits, pvars
  <2>5. VerdictGiven'
    BY <2>1 DEF VerdictGiven, Judged, PreflightCounts
  <2> QED
    BY <2>1, <2>3, <2>4, <2>5 DEF AuditInv
<1>9. CASE StartLaunchPreflight
  <2>1. /\ step = "preflight" /\ step' = "child" /\ task' = "start"
        /\ UNCHANGED <<darwin, probe, status, args, facts, absent, failures, exit>>
    BY <1>9 DEF StartLaunchPreflight, thisHost
  <2>2. ReportedBy' = ReportedBy /\ ReportedBy["child"] = ReportedBy["preflight"]
    BY <2>1, SameReports DEF ReportedBy
  <2>3. NothingLost'
    BY <1>0, <2>1, <2>2 DEF AuditInv, NothingLost
  <2>4. PreflightTells' /\ PreflightWaits'
    BY <2>1 DEF AuditInv, PreflightTells, PreflightWaits
  <2>5. VerdictGiven'
    BY <2>1 DEF VerdictGiven, Judged, PreflightCounts
  <2> QED
    BY <2>1, <2>3, <2>4, <2>5 DEF AuditInv
<1>10. CASE CheckLaunchPreflight
  <2>1. /\ step = "child" /\ step' = "verdict"
        /\ failures' = failures \cup (IF status = 0 THEN {} ELSE {"no launch"})
        /\ UNCHANGED <<pvars, args, facts, absent, exit>>
    BY <1>10 DEF CheckLaunchPreflight, Check
  <2>2. ReportedBy' = ReportedBy /\ ReportedBy["verdict"] = ReportedBy["child"]
    BY <2>1, SameReports DEF ReportedBy
  <2>3. NothingLost'
    BY <1>0, <2>1, <2>2 DEF AuditInv, NothingLost
  <2>4. PreflightTells' /\ PreflightWaits'
    BY <2>1 DEF AuditInv, PreflightTells, PreflightWaits, pvars
  <2>5. VerdictGiven'
    BY <2>1 DEF VerdictGiven, Judged, PreflightCounts, pvars
  <2> QED
    BY <2>1, <2>3, <2>4, <2>5 DEF AuditInv
<1>11. CASE Verdict
  <2>1. /\ step = "verdict" /\ step' = "done"
        /\ failures # {} => exit' = 1
        /\ failures = {} => exit' = 0
        /\ UNCHANGED <<pvars, args, facts, absent, failures>>
    BY <1>11 DEF Verdict, Finish
  <2>2. /\ PreflightCounts /\ failures \ {"no launch"} = ReportedBy["verdict"]
        /\ ReportedBy' = ReportedBy /\ (PreflightCounts' <=> PreflightCounts)
    BY <1>0, <2>1, SameReports DEF AuditInv, NothingLost, VerdictGiven, PreflightCounts, pvars
  <2>3. NothingLost'
    BY <1>0, <2>1, <2>2 DEF NothingLost
  <2>4. PreflightTells' /\ PreflightWaits'
    BY <2>1 DEF AuditInv, PreflightTells, PreflightWaits, pvars
  <2>5. VerdictGiven'
    <3>1. step' # "verdict"
      BY <2>1
    <3>2. /\ failures' = failures /\ ReportedBy' = ReportedBy /\ PreflightCounts'
          /\ failures \ {"no launch"} = ReportedBy["verdict"]
      BY <2>1, <2>2
    <3>3. exit' = 0 => failures' = {} /\ PreflightCounts' /\ ReportedBy'["verdict"] = {}
      <4>1. exit' = 0 => failures = {}
        BY <2>1
      <4> QED
        BY <3>2, <4>1
    <3>4. exit' = 1 => failures' # {} /\ failures' \ {"no launch"} = ReportedBy'["verdict"]
      <4>1. exit' = 1 => failures # {}
        BY <2>1
      <4> QED
        BY <3>2, <4>1
    <3> QED
      BY <3>1, <3>3, <3>4 DEF VerdictGiven
  <2> QED
    BY <2>1, <2>3, <2>4, <2>5 DEF AuditInv
<1> QED
  BY <1>1, <1>2, <1>3, <1>4, <1>5, <1>6, <1>7, <1>8, <1>9, <1>10, <1>11
     DEF AuditStep, CheckDependencyManifest, CheckExternalSuiteEvidence

LEMMA InterruptKeeps ==
  ASSUME AuditInv, Interrupt
  PROVE  AuditInv'
<1>1. step' = "interrupted" /\ UNCHANGED <<pvars, args, facts, absent, failures, exit>>
  BY DEF Interrupt
<1> QED
  BY <1>1, SameReports
     DEF AuditInv, PreflightTells, PreflightWaits, NothingLost, VerdictGiven, Judged,
         ReportedBy, pvars

LEMMA AuditStutters ==
  ASSUME AuditInv, UNCHANGED auditVars
  PROVE  AuditInv'
<1>1. UNCHANGED <<pvars, args, facts, absent, step, failures, exit>> /\ ReportedBy' = ReportedBy
  BY SameReports DEF auditVars, audit
<1> QED
  BY <1>1
     DEF AuditInv, PreflightTells, PreflightWaits, NothingLost, VerdictGiven, PreflightCounts,
         Judged, pvars

(* The audit's verdict is the right one for every set of facts about the   *)
(* checkout, every set of options and whatever is not there: a pass means  *)
(* that nothing blocks the release but what was excused, and that the      *)
(* preflight it asked for succeeded; a failure names every blocker.        *)
THEOREM VerdictStaysRight == AuditSpec => []VerdictIsRight
<1>1. AuditInv /\ [AuditNext]_auditVars => AuditInv'
  BY AuditStepKeeps, InterruptKeeps, PreflightKeeps, AuditStutters DEF AuditNext
<1> QED
  BY <1>1, AuditInitEstablishes, AuditInvVerdict, PTL DEF AuditSpec

(* The types of the preflight and of the audit: the flags and the rest.    *)
Flags ==
  /\ darwin \in BOOLEAN /\ hangs \in BOOLEAN /\ tmp \in BOOLEAN
  /\ timer \in BOOLEAN /\ timedOut \in BOOLEAN

Words ==
  /\ task \in {"off", "start", "made", "compile", "await", "collect", "exited", "dead"}
  /\ probe \in {"none", "running"} \cup Ended
  /\ status \in {NoCode, 0, 1, 130, 143}

Findings ==
  /\ args \in Arg /\ facts \in Facts /\ absent \in Absent
  /\ step \in {"arguments", "git", "map", "manifest", "evidence", "markers",
               "preflight", "child", "verdict", "done", "interrupted"}
  /\ failures \subseteq Fact \cup {"no git", "no launch"}
  /\ exit \in {NoCode, 0, 1, 2}

LEMMA AuditTypes == AuditTypeOK <=> Flags /\ Words /\ Findings
  BY Zenon DEF AuditTypeOK, Flags, Words, Findings

LEMMA AuditTypesAfter == AuditTypeOK' <=> Flags' /\ Words' /\ Findings'
  BY Zenon DEF AuditTypeOK, Flags, Words, Findings

LEMMA AuditTypesInit == AuditInit => AuditTypeOK
<1> SUFFICES ASSUME AuditInit PROVE AuditTypeOK
  OBVIOUS
<1>1. Flags
  BY Zenon DEF AuditInit, PreflightInit, Flags
<1>2. Words
  BY DEF AuditInit, PreflightInit, Words
<1>3. Findings
  BY DEF AuditInit, Findings
<1> QED
  BY <1>1, <1>2, <1>3, AuditTypes

LEMMA PreflightKeepsFlags == ASSUME Flags, PreflightNext PROVE Flags'
<1> USE DEF Flags, thisHost
<1>1. CASE MakeTmp
  BY <1>1, Zenon DEF MakeTmp, ExitWith
<1>2. CASE Register
  BY <1>2, Zenon DEF Register
<1>3. CASE CompileAndStart
  BY <1>3, Zenon DEF CompileAndStart, ExitWith
<1>4. CASE TimerFires
  BY <1>4, Zenon DEF TimerFires
<1>5. CASE SeeExit
  BY <1>5, Zenon DEF SeeExit
<1>6. CASE JudgeProbe
  BY <1>6, Zenon DEF JudgeProbe, ExitWith
<1>7. CASE ProbeEnds
  BY <1>7, Zenon DEF ProbeEnds
<1>8. CASE HandleSignal
  BY <1>8, Zenon DEF HandleSignal, ExitWith
<1>9. CASE Die
  BY <1>9, Zenon DEF Die
<1> QED
  BY <1>1, <1>2, <1>3, <1>4, <1>5, <1>6, <1>7, <1>8, <1>9 DEF PreflightNext, PreflightStep

LEMMA PreflightKeepsWords == ASSUME Words, PreflightNext PROVE Words'
<1> USE DEF Words, Ended
<1>1. CASE MakeTmp
  BY <1>1 DEF MakeTmp, ExitWith
<1>2. CASE Register
  BY <1>2 DEF Register
<1>3. CASE CompileAndStart
  BY <1>3 DEF CompileAndStart, ExitWith
<1>4. CASE TimerFires
  BY <1>4 DEF TimerFires
<1>5. CASE SeeExit
  BY <1>5 DEF SeeExit
<1>6. CASE JudgeProbe
  BY <1>6 DEF JudgeProbe, ExitWith
<1>7. CASE ProbeEnds
  BY <1>7 DEF ProbeEnds
<1>8. CASE HandleSignal
  BY <1>8 DEF HandleSignal, ExitWith
<1>9. CASE Die
  BY <1>9 DEF Die
<1> QED
  BY <1>1, <1>2, <1>3, <1>4, <1>5, <1>6, <1>7, <1>8, <1>9 DEF PreflightNext, PreflightStep

LEMMA PreflightRests ==
  ASSUME Flags, Words, UNCHANGED pvars
  PROVE  Flags' /\ Words'
<1>1. Flags'
  BY Zenon DEF Flags, pvars
<1>2. Words'
  BY DEF Words, pvars, Ended
<1> QED
  BY <1>1, <1>2

(* What a check reports is a fact or a missing command.                    *)
LEMMA CheckKeepsTypes ==
  ASSUME Findings, NEW here, NEW found, NEW next, Check(here, found, next),
         found \subseteq Fact \cup {"no git", "no launch"},
         next \in {"map", "manifest", "evidence", "markers", "preflight", "child", "verdict"}
  PROVE  Findings' /\ UNCHANGED pvars
BY DEF Findings, Check

LEMMA ThrowKeepsTypes ==
  ASSUME Findings, NEW here, NEW file, Throw(here, file)
  PROVE  Findings' /\ UNCHANGED pvars
BY DEF Findings, Throw, Finish

LEMMA AuditKeepsTypes ==
  ASSUME Flags, Words, Findings, AuditStep
  PROVE  Flags' /\ Words' /\ Findings'
<1>0. /\ facts \subseteq Fact
      /\ UNCHANGED pvars => Flags' /\ Words'
  BY AuditAssumption, PreflightRests DEF Findings
<1>1. CASE Arguments
  BY <1>0, <1>1 DEF Arguments, Finish, Findings
<1>2. CASE CheckCleanGit
  <2>1. (IF "git" \in absent THEN {"no git"} ELSE GitFound) \subseteq Fact \cup {"no git", "no launch"}
    BY <1>0 DEF GitFound, Fact, GitFacts
  <2> QED
    BY <1>0, <1>2, <2>1, CheckKeepsTypes DEF CheckCleanGit
<1>3. CASE CheckQualificationMap
  <2>1. (IF "bad map" \in facts THEN {"bad map"}
         ELSE IF "--allow-open-qualification" \in args THEN {} ELSE facts \cap {"open rows"})
          \subseteq Fact \cup {"no git", "no launch"}
    BY <1>0
  <2> QED
    BY <1>0, <1>3, <2>1, CheckKeepsTypes DEF CheckQualificationMap
<1>4. CASE CheckDependencyManifest
  BY <1>0, <1>4, CheckKeepsTypes, ThrowKeepsTypes DEF CheckDependencyManifest
<1>5. CASE CheckExternalSuiteEvidence
  BY <1>0, <1>5, CheckKeepsTypes, ThrowKeepsTypes DEF CheckExternalSuiteEvidence
<1>6. CASE CheckMarkers
  BY <1>0, <1>6, CheckKeepsTypes DEF CheckMarkers
<1>7. CASE SkipLaunchPreflight
  BY <1>0, <1>7, CheckKeepsTypes DEF SkipLaunchPreflight
<1>8. CASE StartLaunchPreflight
  <2>1. Flags'
    BY <1>8, Zenon DEF StartLaunchPreflight, Flags, thisHost
  <2>2. Words'
    BY <1>8 DEF StartLaunchPreflight, Words, Ended
  <2>3. Findings'
    BY <1>8 DEF StartLaunchPreflight, Findings
  <2> QED
    BY <2>1, <2>2, <2>3
<1>9. CASE CheckLaunchPreflight
  BY <1>0, <1>9, CheckKeepsTypes DEF CheckLaunchPreflight
<1>10. CASE Verdict
  BY <1>0, <1>10 DEF Verdict, Finish, Findings
<1> QED
  BY <1>1, <1>2, <1>3, <1>4, <1>5, <1>6, <1>7, <1>8, <1>9, <1>10 DEF AuditStep

(* The variables of both processes keep their types: only the codes and    *)
(* blockers the scripts know come out.                                     *)
THEOREM AuditTypeCorrect == AuditSpec => []AuditTypeOK
<1>1. AuditTypeOK /\ [AuditNext]_auditVars => AuditTypeOK'
  <2> SUFFICES ASSUME Flags, Words, Findings, [AuditNext]_auditVars
               PROVE  Flags' /\ Words' /\ Findings'
    BY AuditTypes, AuditTypesAfter
  <2>1. CASE AuditStep
    BY <2>1, AuditKeepsTypes
  <2>2. CASE Interrupt
    <3>1. Flags' /\ Words'
      BY <2>2, PreflightRests DEF Interrupt
    <3>2. Findings'
      BY <2>2 DEF Interrupt, Findings
    <3> QED
      BY <3>1, <3>2
  <2>3. CASE PreflightNext /\ UNCHANGED audit
    <3>1. Findings'
      BY <2>3 DEF audit, Findings
    <3> QED
      BY <2>3, <3>1, PreflightKeepsFlags, PreflightKeepsWords
  <2>4. CASE UNCHANGED auditVars
    <3>1. Flags' /\ Words'
      BY <2>4, PreflightRests DEF auditVars
    <3>2. Findings'
      BY <2>4 DEF auditVars, audit, Findings
    <3> QED
      BY <3>1, <3>2
  <2> QED
    BY <2>1, <2>2, <2>3, <2>4 DEF AuditNext
<1> QED
  BY <1>1, AuditTypesInit, PTL DEF AuditSpec

-----------------------------------------------------------------------------
(* The docs worker. *)

Seg == Word \X Word

(* A path that is not empty is a path and a last segment.                  *)
LEMMA SplitLast ==
  ASSUME NEW s \in Seq(Seg), s # <<>>
  PROVE  /\ Front(s) \in Seq(Seg) /\ Last(s) \in Seg
         /\ Last(s) = Segment(Last(s)[1], Last(s)[2])
         /\ s = Front(s) \o <<Last(s)>>
<1>1. Len(s) \in Nat \ {0} /\ \A i \in 1..Len(s) - 1 : s[i] \in Seg
  BY LenProperties, EmptySeq, ElementOfSeq
<1>2. /\ Front(s) \in Seq(Seg) /\ Len(Front(s)) = Len(s) - 1
      /\ \A i \in 1..Len(s) - 1 : Front(s)[i] = s[i]
  <2>1. Len(s) - 1 \in Int
    BY <1>1
  <2>2. /\ SubSeq(s, 1, Len(s) - 1) \in Seq(Seg)
        /\ Len(SubSeq(s, 1, Len(s) - 1)) = IF 1 <= Len(s) - 1 THEN Len(s) - 1 - 1 + 1 ELSE 0
        /\ \A i \in 1..Len(s) - 1 - 1 + 1 : SubSeq(s, 1, Len(s) - 1)[i] = s[1 + i - 1]
    BY <1>1, <2>1, SubSeqProperties
  <2>3. Len(s) - 1 - 1 + 1 = Len(s) - 1 /\ \A i \in 1..Len(s) - 1 : 1 + i - 1 = i
    BY <1>1
  <2> QED
    BY <1>1, <2>2, <2>3 DEF Front
<1>3. Last(s) \in Seg
  BY <1>1, ElementOfSeq DEF Last
<1>4. Last(s) = Segment(Last(s)[1], Last(s)[2])
  BY <1>3 DEF Segment, Seg
<1>5. s = Front(s) \o <<Last(s)>>
  <2>1. <<Last(s)>> \in Seq(Seg) /\ Len(<<Last(s)>>) = 1 /\ <<Last(s)>>[1] = s[Len(s)]
    BY <1>3 DEF Last
  <2>2. /\ Front(s) \o <<Last(s)>> \in Seq(Seg)
        /\ Len(Front(s) \o <<Last(s)>>) = Len(s)
        /\ \A i \in 1..Len(s) : (Front(s) \o <<Last(s)>>)[i] = s[i]
    BY <1>1, <1>2, <2>1, ConcatProperties
  <2> QED
    BY <2>2, SeqEqual
<1> QED
  BY <1>2, <1>3, <1>4, <1>5

(* And the other way round.                                                *)
LEMMA JoinLast ==
  ASSUME NEW d \in Seq(Seg), NEW x \in Seg
  PROVE  /\ d \o <<x>> \in Seq(Seg) /\ d \o <<x>> # <<>>
         /\ Front(d \o <<x>>) = d /\ Last(d \o <<x>>) = x
         /\ Len(d \o <<x>>) = Len(d) + 1
         /\ \A i \in 1..Len(d) : (d \o <<x>>)[i] = d[i]
         /\ d # <<>> => Head(d \o <<x>>) = Head(d)
         /\ d = <<>> => d \o <<x>> = <<x>>
<1> DEFINE s == d \o <<x>>
<1>1. <<x>> \in Seq(Seg) /\ Len(<<x>>) = 1 /\ <<x>>[1] = x /\ Len(d) \in Nat
  BY LenProperties
<1>2. /\ s \in Seq(Seg) /\ Len(s) = Len(d) + 1
      /\ \A i \in 1..Len(d) : s[i] = d[i]
      /\ s[Len(d) + 1] = x
  BY <1>1, ConcatProperties
<1>3. s # <<>> /\ Last(s) = x
  BY <1>1, <1>2, EmptySeq DEF Last
<1>4. Front(s) = d
  <2>1. /\ Front(s) \in Seq(Seg) /\ s = Front(s) \o <<Last(s)>>
    BY <1>2, <1>3, SplitLast
  <2>2. <<x>> \in Seq(Seg)
    BY <1>1
  <2> QED
    BY <2>1, <2>2, <1>3, ConcatSimplifications
<1>5. d # <<>> => Head(s) = Head(d)
  <2> SUFFICES ASSUME d # <<>> PROVE Head(s) = Head(d)
    OBVIOUS
  <2>1. 1 \in 1..Len(d)
    BY <1>1, EmptySeq
  <2> QED
    BY <2>1, <1>2, <1>3
<1>6. d = <<>> => s = <<x>>
  BY <1>1, ConcatEmptySeq
<1> QED
  BY <1>2, <1>3, <1>4, <1>5, <1>6

LEMMA SplitHead ==
  ASSUME NEW s \in Seq(Seg), s # <<>>
  PROVE  /\ Tail(s) \in Seq(Seg) /\ s = <<Head(s)>> \o Tail(s)
         /\ Len(s) > 1 <=> Tail(s) # <<>>
         /\ Tail(s) # <<>> => Last(Tail(s)) = Last(s)
         /\ Tail(s) = <<>> <=> s = <<Head(s)>>
<1>1. /\ Head(s) \in Seg /\ Tail(s) \in Seq(Seg) /\ Len(Tail(s)) = Len(s) - 1
      /\ \A i \in 1..Len(Tail(s)) : Tail(s)[i] = s[i + 1]
      /\ Len(s) \in Nat \ {0}
  BY HeadTailProperties, LenProperties, EmptySeq
<1>2. <<Head(s)>> \in Seq(Seg) /\ Len(<<Head(s)>>) = 1 /\ <<Head(s)>>[1] = s[1]
  BY <1>1
<1>3. s = <<Head(s)>> \o Tail(s)
  <2>1. /\ <<Head(s)>> \o Tail(s) \in Seq(Seg)
        /\ Len(<<Head(s)>> \o Tail(s)) = Len(s)
        /\ \A i \in 1..Len(s) : (<<Head(s)>> \o Tail(s))[i] = s[i]
    BY <1>1, <1>2, ConcatProperties
  <2> QED
    BY <2>1, SeqEqual
<1>4. Tail(s) = <<>> <=> Len(Tail(s)) = 0
  BY <1>1, EmptySeq
<1>5. Tail(s) # <<>> => Last(Tail(s)) = Last(s)
  BY <1>1, <1>4 DEF Last
<1>6. Tail(s) = <<>> <=> s = <<Head(s)>>
  <2>1. Tail(s) = <<>> => s = <<Head(s)>>
    BY <1>2, <1>3, ConcatEmptySeq
  <2>2. s = <<Head(s)>> => Len(s) = 1
    BY <1>2
  <2>3. Len(s) = 1 => Tail(s) = <<>>
    BY <1>1, <1>4
  <2> QED
    BY <2>1, <2>2, <2>3
<1> QED
  BY <1>1, <1>3, <1>4, <1>5, <1>6

LEMMA Prefixed ==
  ASSUME NEW s \in Seq(Seg), NEW x \in Seg
  PROVE  /\ <<x>> \o s \in Seq(Seg) /\ <<x>> \o s # <<>>
         /\ Head(<<x>> \o s) = x /\ Tail(<<x>> \o s) = s
<1> DEFINE t == <<x>> \o s
<1>1. <<x>> \in Seq(Seg) /\ Len(<<x>>) = 1 /\ <<x>>[1] = x /\ Len(s) \in Nat
  BY LenProperties
<1>2. t \in Seq(Seg) /\ Len(t) = 1 + Len(s) /\ t[1] = x
  BY <1>1, ConcatProperties
<1>3. t # <<>> /\ Head(t) = x
  BY <1>1, <1>2, EmptySeq
<1>4. Tail(t) = s
  <2>1. Tail(t) \in Seq(Seg) /\ t = <<x>> \o Tail(t)
    BY <1>2, <1>3, SplitHead
  <2> QED
    BY <2>1, <1>1, ConcatSimplifications
<1> QED
  BY <1>2, <1>3, <1>4

LEMMA SegmentHas ==
  ASSUME NEW n \in Word, NEW e \in Word
  PROVE  Segment(n, e) \in Seg /\ Segment(n, e)[1] = n /\ Segment(n, e)[2] = e
BY DEF Segment, Seg

(* The segments the worker and the assets speak of.                        *)
LEMMA Segments ==
  /\ Docs \in Seg /\ Docs[1] = "docs" /\ Docs[2] = ""
  /\ NotFoundPage \in Seg /\ NotFoundPage[1] = "404" /\ NotFoundPage[2] = ""
  /\ Segment("index", ".html") \in Seg
  /\ Segment("index", ".html")[1] = "index" /\ Segment("index", ".html")[2] = ".html"
  /\ Segment("404", ".html") \in Seg
  /\ Segment("404", ".html")[1] = "404" /\ Segment("404", ".html")[2] = ".html"
  /\ ExportDir \subseteq Seg /\ Docs \notin ExportDir /\ NotFoundPage \notin ExportDir
<1>1. /\ "docs" \in Word /\ "" \in Word /\ "404" \in Word /\ "index" \in Word
      /\ ".html" \in Word /\ "_astro" \in Word /\ "pagefind" \in Word
  BY RouterAssumption
<1>2. Docs \in Seg /\ Docs[1] = "docs" /\ Docs[2] = ""
  BY <1>1, SegmentHas DEF Docs
<1>3. NotFoundPage \in Seg /\ NotFoundPage[1] = "404" /\ NotFoundPage[2] = ""
  BY <1>1, SegmentHas DEF NotFoundPage
<1>4. /\ Segment("index", ".html") \in Seg
      /\ Segment("index", ".html")[1] = "index" /\ Segment("index", ".html")[2] = ".html"
  BY <1>1, SegmentHas
<1>5. /\ Segment("404", ".html") \in Seg
      /\ Segment("404", ".html")[1] = "404" /\ Segment("404", ".html")[2] = ".html"
  BY <1>1, SegmentHas
<1>6. /\ Segment("_astro", "") \in Seg /\ Segment("_astro", "")[1] = "_astro"
      /\ Segment("pagefind", "") \in Seg /\ Segment("pagefind", "")[1] = "pagefind"
  BY <1>1, SegmentHas
<1>7. ExportDir \subseteq Seg
  BY <1>6 DEF ExportDir
<1>8. Docs \notin ExportDir /\ NotFoundPage \notin ExportDir
  BY <1>2, <1>3, <1>6 DEF ExportDir
<1> QED
  BY <1>2, <1>3, <1>4, <1>5, <1>7, <1>8

LEMMA IndexIs ==
  ASSUME NEW d \in Seq(Seg)
  PROVE  /\ IndexIn(d) \in Seq(Seg) /\ IndexIn(d) # <<>>
         /\ Front(IndexIn(d)) = d /\ Last(IndexIn(d)) = Segment("index", ".html")
         /\ Len(IndexIn(d)) = Len(d) + 1
         /\ \A i \in 1..Len(d) : IndexIn(d)[i] = d[i]
         /\ d # <<>> => Head(IndexIn(d)) = Head(d)
         /\ IndexIn(d) # <<Segment("404", ".html")>>
<1>1. Segment("index", ".html") \in Seg
  BY Segments
<1>2. IndexIn(d) # <<Segment("404", ".html")>>
  <2>1. Last(<<Segment("404", ".html")>>) = Segment("404", ".html")
    BY DEF Last
  <2>2. Segment("404", ".html") # Segment("index", ".html")
    BY Segments
  <2> QED
    BY <1>1, <2>1, <2>2, JoinLast DEF IndexIn
<1> QED
  BY <1>1, <1>2, JoinLast DEF IndexIn

(* Where the build has a page.                                             *)
LEMMA PageIs ==
  ASSUME NEW d \in Seq(Seg), IndexIn(d) \in Files
  PROVE  /\ \A i \in 1..Len(d) : d[i] # Segment("index", "") /\ d[i][2] # ".html"
         /\ d # <<NotFoundPage>>
         /\ d # <<>> => Head(d) # Docs /\ Head(d) \notin ExportDir
         /\ d # <<>> => Last(d) # Segment("index", "") /\ Last(d)[2] # ".html"
<1>1. Last(IndexIn(d))[2] = ".html"
  BY IndexIs, Segments
<1>2. /\ \A i \in 1..Len(IndexIn(d)) - 1 :
           IndexIn(d)[i] # Segment("index", "") /\ IndexIn(d)[i][2] # ".html"
      /\ Front(IndexIn(d)) # <<NotFoundPage>>
      /\ Head(IndexIn(d)) \notin ExportDir /\ Head(IndexIn(d)) # Docs
  BY <1>1, IndexIs, RouterAssumption
<1>3. Len(d) \in Nat /\ Len(IndexIn(d)) - 1 = Len(d)
  BY IndexIs, LenProperties
<1>4. \A i \in 1..Len(d) : d[i] # Segment("index", "") /\ d[i][2] # ".html"
  BY <1>2, <1>3, IndexIs
<1>5. d # <<>> => Len(d) \in 1..Len(d)
  BY <1>3, EmptySeq
<1> QED
  BY <1>2, <1>4, <1>5, IndexIs DEF Last

LEMMA HtmlIs ==
  ASSUME NEW d \in Seq(Seg), NEW n \in Word, d \o <<Segment(n, ".html")>> \in Files
  PROVE  n = "index" \/ (d = <<>> /\ n = "404")
<1> DEFINE f == d \o <<Segment(n, ".html")>>
<1>1. Segment(n, ".html") \in Seg /\ Segment(n, ".html")[1] = n /\ Segment(n, ".html")[2] = ".html"
  <2>1. ".html" \in Word
    BY RouterAssumption
  <2> QED
    BY <2>1, SegmentHas
<1>2. Front(f) = d /\ Last(f) = Segment(n, ".html")
  BY <1>1, JoinLast
<1>3. CASE f = <<Segment("404", ".html")>>
  <2>1. <<>> \in Seq(Seg)
    BY EmptySeq
  <2>2. <<>> \o <<Segment("404", ".html")>> = <<Segment("404", ".html")>>
    BY <2>1, Segments, JoinLast
  <2>3. /\ Last(<<>> \o <<Segment("404", ".html")>>) = Segment("404", ".html")
        /\ Front(<<>> \o <<Segment("404", ".html")>>) = <<>>
    BY <2>1, Segments, JoinLast
  <2>4. Last(f) = Segment("404", ".html") /\ Front(f) = <<>>
    BY <1>3, <2>2, <2>3
  <2> QED
    BY <1>1, <1>2, <2>4, Segments
<1>4. CASE f # <<Segment("404", ".html")>>
  BY <1>1, <1>2, <1>4, RouterAssumption
<1> QED
  BY <1>3, <1>4

-----------------------------------------------------------------------------
(* What the assets answer for a path of the build. *)

(* A path with a slash names the page there and nothing else.              *)
LEMMA NamedAtSlash ==
  ASSUME NEW seg \in Seq(Seg)
  PROVE  Named(seg, TRUE) = Files \cap {IndexIn(seg)}
BY IndexIs DEF Named

(* One without names a page or a file, if it does not name a page by its   *)
(* .html.                                                                  *)
LEMMA NamedPlain ==
  ASSUME NEW seg \in Seq(Seg), seg = <<>> \/ Last(seg)[2] # ".html"
  PROVE  Named(seg, FALSE) = Files \cap {IndexIn(seg), seg}
<1>1. seg # <<Segment("404", ".html")>>
  <2>1. Last(<<Segment("404", ".html")>>) = Segment("404", ".html")
    BY DEF Last
  <2>2. <<>> # <<Segment("404", ".html")>>
    BY Segments, EmptySeq
  <2> QED
    BY <2>1, <2>2, Segments
<1> QED
  BY <1>1, IndexIs DEF Named

LEMMA NamedIndex ==
  ASSUME NEW d \in Seq(Seg)
  PROVE  Named(IndexIn(d), FALSE) = Files \cap {IndexIn(d)}
<1>1. /\ IndexIn(d) # <<>> /\ Front(IndexIn(d)) = d
      /\ Last(IndexIn(d))[1] = "index" /\ Last(IndexIn(d))[2] = ".html"
      /\ IndexIn(d) # <<Segment("404", ".html")>>
  BY IndexIs, Segments
<1> QED
  BY <1>1 DEF Named

LEMMA NamedHtml ==
  ASSUME NEW d \in Seq(Seg), NEW n \in Word, n # "index"
  PROVE  Named(d \o <<Segment(n, ".html")>>, FALSE) =
           (Files \cap {IndexIn(d \o <<Segment(n, "")>>), d \o <<Segment(n, ".html")>>})
           \ {<<Segment("404", ".html")>>}
<1> DEFINE s == d \o <<Segment(n, ".html")>>
<1>1. ".html" \in Word
  BY RouterAssumption
<1>2. Segment(n, ".html") \in Seg /\ Segment(n, ".html")[1] = n /\ Segment(n, ".html")[2] = ".html"
  BY <1>1, SegmentHas
<1>3. s # <<>> /\ Front(s) = d /\ Last(s)[1] = n /\ Last(s)[2] = ".html"
  BY <1>2, JoinLast
<1> QED
  BY <1>3 DEF Named

(* A redirect that leaves the prefix out stays about the same files.       *)
LEMMA BelowAPage ==
  ASSUME NEW d \in Seq(Seg), IndexIn(d) \in Files, NEW slash \in BOOLEAN
  PROVE  Below(Path(d, slash)) = d
BY PageIs DEF Below, Path

(* The answers that are right where some files are meant: one of them, a   *)
(* redirect to where the same files are meant, or none if there are none.  *)
Right(r, meant) ==
  \/ \E f \in meant : r = Show(f)
  \/ meant = {} /\ r = NotFound
  \/ \E path \in URL : Meant(path) = meant /\ r = Redirect(path)

LEMMA RedirectIsRight ==
  ASSUME NEW seg \in Seq(Seg), NEW slash \in BOOLEAN, seg = <<>> => slash,
         NEW meant, Meant(Path(seg, slash)) = meant
  PROVE  Right(Redirect(Path(seg, slash)), meant)
<1>1. Path(seg, slash) \in URL
  BY DEF Path, URL, Seg
<1> QED
  BY <1>1 DEF Right

LEMMA PathHas ==
  ASSUME NEW seg, NEW slash
  PROVE  Path(seg, slash).seg = seg /\ Path(seg, slash).slash = slash
BY DEF Path

LEMMA OneSegment ==
  ASSUME NEW x \in Seg
  PROVE  /\ <<x>> \in Seq(Seg) /\ <<x>> # <<>> /\ Len(<<x>>) = 1
         /\ Head(<<x>>) = x /\ Last(<<x>>) = x
         /\ Tail(<<x>>) = <<>> /\ Front(<<x>>) = <<>>
         /\ <<>> \o <<x>> = <<x>>
<1>1. <<x>> \in Seq(Seg) /\ Len(<<x>>) = 1 /\ <<x>>[1] = x
  OBVIOUS
<1>2. <<x>> # <<>> /\ Head(<<x>>) = x
  BY <1>1, EmptySeq
<1>3. <<>> \in Seq(Seg) /\ <<>> \o <<x>> = <<x>>
  BY EmptySeq, JoinLast
<1>4. Front(<<x>>) = <<>> /\ Last(<<x>>) = x
  <2>1. Front(<<>> \o <<x>>) = <<>> /\ Last(<<>> \o <<x>>) = x
    BY <1>3, JoinLast
  <2> QED
    BY <1>3, <2>1
<1>5. Tail(<<x>>) = <<>>
  BY <1>1, <1>2, SplitHead
<1> QED
  BY <1>1, <1>2, <1>3, <1>4, <1>5

LEMMA HeadOfOne == ASSUME NEW x PROVE Head(<<x>>) = x
OBVIOUS

LEMMA MeantPage ==
  ASSUME NEW d \in Seq(Seg), IndexIn(d) \in Files
  PROVE  Meant(Path(d, TRUE)) = Files \cap {IndexIn(d)}
<1>1. Below(Path(d, TRUE)) = d /\ Path(d, TRUE).slash = TRUE
  BY BelowAPage, PathHas
<1> QED
  BY <1>1, NamedAtSlash DEF Meant

LEMMA MeantElsewhere ==
  ASSUME NEW seg, NEW slash, Head(seg) # Docs
  PROVE  Meant(Path(seg, slash)) = Named(seg, slash)
BY PathHas DEF Meant, Below

LEMMA AtSlashIsRight ==
  ASSUME NEW seg \in Seq(Seg), seg # <<NotFoundPage>>
  PROVE  Right(AtSlash(seg), Named(seg, TRUE))
<1> DEFINE n == Last(seg)[1]
           html == Front(seg) \o <<Segment(n, ".html")>>
<1>1. CASE IndexIn(seg) \in Files
  <2>1. AtSlash(seg) = Show(IndexIn(seg)) /\ IndexIn(seg) \in Named(seg, TRUE)
    BY <1>1, NamedAtSlash DEF AtSlash
  <2> QED
    BY <2>1 DEF Right
<1>2. CASE IndexIn(seg) \notin Files /\ seg # <<>> /\ Last(seg)[2] = "" /\ html \in Files
  <2>1. /\ Front(seg) \in Seq(Seg) /\ Last(seg) \in Seg /\ n \in Word
        /\ Last(seg) = Segment(n, "")
        /\ seg = Front(seg) \o <<Last(seg)>>
    BY <1>2, SplitLast DEF Seg
  <2>2. n = "index"
    <3>1. n = "index" \/ (Front(seg) = <<>> /\ n = "404")
      BY <1>2, <2>1, HtmlIs
    <3>2. ASSUME Front(seg) = <<>>, n = "404" PROVE FALSE
      <4>1. seg = <<NotFoundPage>>
        BY <2>1, <3>2, JoinLast DEF NotFoundPage
      <4> QED
        BY <4>1
    <3> QED
      BY <3>1, <3>2
  <2>3. IndexIn(Front(seg)) \in Files
    BY <1>2, <2>2 DEF IndexIn
  <2>4. Head(seg) # Docs
    <3>1. CASE Front(seg) = <<>>
      <4>1. seg = <<Last(seg)>> /\ Last(seg)[1] = "index"
        BY <2>1, <2>2, <3>1, JoinLast
      <4> QED
        BY <4>1, Segments, HeadOfOne
    <3>2. CASE Front(seg) # <<>>
      <4>1. Head(Front(seg)) # Docs
        BY <2>1, <2>3, <3>2, PageIs
      <4>2. Head(Front(seg) \o <<Last(seg)>>) = Head(Front(seg))
        BY <2>1, <3>2, JoinLast
      <4> QED
        BY <2>1, <4>1, <4>2
    <3> QED
      BY <3>1, <3>2
  <2>5. seg \notin Files /\ Last(seg)[2] # ".html"
    BY <1>2, RouterAssumption
  <2>6. Named(seg, TRUE) = {} /\ Named(seg, FALSE) = {}
    BY <1>2, <2>5, NamedAtSlash, NamedPlain
  <2>7. Meant(Path(seg, FALSE)) = Named(seg, TRUE)
    BY <2>4, <2>6, MeantElsewhere
  <2>8. AtSlash(seg) = Redirect(Path(seg, FALSE))
    BY <1>2 DEF AtSlash
  <2> QED
    BY <1>2, <2>7, <2>8, RedirectIsRight
<1>3. CASE IndexIn(seg) \notin Files /\ ~(seg # <<>> /\ Last(seg)[2] = "" /\ html \in Files)
  <2>1. AtSlash(seg) = NotFound
    BY <1>3 DEF AtSlash
  <2>2. Named(seg, TRUE) = {}
    BY <1>3, NamedAtSlash
  <2> QED
    BY <2>1, <2>2 DEF Right
<1> QED
  BY <1>1, <1>2, <1>3

(* A path without a slash: below /docs it has an extension, elsewhere it is *)
(* among the exported assets.                                              *)
LEMMA AtNameIsRight ==
  ASSUME NEW seg \in Seq(Seg), seg # <<>>,
         Last(seg)[2] # "" \/ (Head(seg) \in ExportDir /\ Front(seg) # <<>>)
  PROVE  Right(AtName(seg), Named(seg, FALSE))
<1> DEFINE dir  == Front(seg)
           n    == Last(seg)[1]
           ext  == Last(seg)[2]
           page == dir \o <<Segment(n, "")>>
           html == dir \o <<Segment(n, ".html")>>
           A1 == n = "index" /\ ext \in {"", ".html"} /\ html \in Files
           A2 == ext = ".html" /\ html \in Files
           A3 == ext = ".html" /\ IndexIn(page) \in Files
           A4 == seg \in Files
           A5 == ext = "" /\ html \in Files
           A6 == IndexIn(seg) \in Files
<1>1. /\ dir \in Seq(Seg) /\ Last(seg) \in Seg /\ n \in Word
      /\ Last(seg) = Segment(n, ext) /\ seg = dir \o <<Last(seg)>>
  BY SplitLast DEF Seg
<1>2. /\ page \in Seq(Seg) /\ page # <<>> /\ Last(page) = Segment(n, "")
      /\ Segment(n, "")[1] = n /\ Segment(n, "")[2] = ""
  <2>1. "" \in Word
    BY RouterAssumption
  <2>2. Segment(n, "") \in Seg /\ Segment(n, "")[1] = n /\ Segment(n, "")[2] = ""
    BY <1>1, <2>1, SegmentHas
  <2> QED
    BY <1>1, <2>2, JoinLast
<1>3. ext = ".html" => seg = html
  BY <1>1
<1>4. dir # <<>> => Head(seg) = Head(dir)
  <2>1. dir # <<>> => Head(dir \o <<Last(seg)>>) = Head(dir)
    BY <1>1, JoinLast
  <2> QED
    BY <1>1, <2>1
<1>5. CASE A1
  <2>1. html = IndexIn(dir)
    BY <1>5 DEF IndexIn
  <2>2. ext = ".html"
    <3>1. ASSUME ext = "" PROVE FALSE
      <4>1. dir # <<>> /\ Head(dir) \in ExportDir
        BY <1>4, <3>1
      <4> QED
        BY <1>1, <1>5, <2>1, <4>1, PageIs
    <3> QED
      BY <1>5, <3>1
  <2>3. Named(seg, FALSE) = Files \cap {IndexIn(dir)}
    BY <1>1, <1>3, <2>1, <2>2, NamedIndex
  <2>4. Meant(Path(dir, TRUE)) = Named(seg, FALSE)
    BY <1>1, <1>5, <2>1, <2>3, MeantPage
  <2>5. AtName(seg) = Redirect(Path(dir, TRUE))
    BY <1>5 DEF AtName
  <2> QED
    BY <1>1, <2>4, <2>5, RedirectIsRight
<1>6. CASE ~A1 /\ A2
  <2>1. dir = <<>> /\ n = "404"
    BY <1>1, <1>6, HtmlIs
  <2>2. page = <<NotFoundPage>>
    <3>1. page = <<>> \o <<NotFoundPage>>
      BY <2>1 DEF NotFoundPage
    <3>2. <<>> \o <<NotFoundPage>> = <<NotFoundPage>>
      BY Segments, OneSegment
    <3> QED
      BY <3>1, <3>2
  <2>3. html = <<Segment("404", ".html")>>
    <3>1. html = <<>> \o <<Segment("404", ".html")>>
      BY <2>1
    <3>2. <<>> \o <<Segment("404", ".html")>> = <<Segment("404", ".html")>>
      BY Segments, OneSegment
    <3> QED
      BY <3>1, <3>2
  <2>4. IndexIn(page) \notin Files
    BY <1>2, <2>2, PageIs
  <2>5. page \notin Files
    BY <1>2, RouterAssumption
  <2>6. Named(seg, FALSE) = {}
    <3>1. n # "index"
      BY <2>1
    <3>2. Named(html, FALSE) = (Files \cap {IndexIn(page), html}) \ {<<Segment("404", ".html")>>}
      BY <1>1, <3>1, NamedHtml
    <3> QED
      BY <1>3, <1>6, <2>3, <2>4, <3>2
  <2>7. Head(page) # Docs
    BY <2>2, Segments, HeadOfOne
  <2>8. Meant(Path(page, FALSE)) = Named(seg, FALSE)
    <3>1. Named(page, FALSE) = Files \cap {IndexIn(page), page}
      BY <1>2, NamedPlain
    <3> QED
      BY <3>1, <2>4, <2>5, <2>6, <2>7, MeantElsewhere
  <2>9. AtName(seg) = Redirect(Path(page, FALSE))
    BY <1>6 DEF AtName
  <2> QED
    BY <1>2, <2>8, <2>9, RedirectIsRight
<1>7. CASE ~A1 /\ ~A2 /\ A3
  <2>1. n # "index"
    BY <1>2, <1>7, PageIs
  <2>2. Named(html, FALSE) = (Files \cap {IndexIn(page), html}) \ {<<Segment("404", ".html")>>}
    BY <1>1, <2>1, NamedHtml
  <2>3. Named(seg, FALSE) = Files \cap {IndexIn(page)}
    BY <1>2, <1>3, <1>7, <2>2, IndexIs
  <2>4. Meant(Path(page, TRUE)) = Named(seg, FALSE)
    BY <1>2, <1>7, <2>3, MeantPage
  <2>5. AtName(seg) = Redirect(Path(page, TRUE))
    BY <1>7 DEF AtName
  <2> QED
    BY <1>2, <2>4, <2>5, RedirectIsRight
<1>8. CASE ~A1 /\ ~A2 /\ ~A3 /\ A4
  <2>1. ext # ".html"
    BY <1>3, <1>8
  <2>2. seg \in Named(seg, FALSE)
    BY <1>8, <2>1, NamedPlain
  <2>3. AtName(seg) = Show(seg)
    BY <1>8 DEF AtName
  <2> QED
    BY <2>2, <2>3 DEF Right
<1>9. CASE ~A1 /\ ~A2 /\ ~A3 /\ ~A4 /\ A5
  <2>1. dir = <<>>
    BY <1>1, <1>9, HtmlIs
  <2> QED
    BY <1>9, <2>1
<1>10. CASE ~A1 /\ ~A2 /\ ~A3 /\ ~A4 /\ ~A5 /\ A6
  <2>1. ext # ".html"
    BY <1>10, PageIs
  <2>2. Named(seg, FALSE) = Files \cap {IndexIn(seg)}
    <3>1. Named(seg, FALSE) = Files \cap {IndexIn(seg), seg}
      BY <2>1, NamedPlain
    <3> QED
      BY <1>10, <3>1
  <2>3. Meant(Path(seg, TRUE)) = Named(seg, FALSE)
    BY <1>10, <2>2, MeantPage
  <2>4. AtName(seg) = Redirect(Path(seg, TRUE))
    BY <1>10 DEF AtName
  <2> QED
    BY <2>3, <2>4, RedirectIsRight
<1>11. CASE ~A1 /\ ~A2 /\ ~A3 /\ ~A4 /\ ~A5 /\ ~A6
  <2>1. AtName(seg) = NotFound
    BY <1>11 DEF AtName
  <2>2. Named(seg, FALSE) = {}
    <3>1. CASE ext # ".html"
      <4>1. Named(seg, FALSE) = Files \cap {IndexIn(seg), seg}
        BY <3>1, NamedPlain
      <4> QED
        BY <1>11, <4>1
    <3>2. CASE ext = ".html" /\ n = "index"
      <4>1. seg = IndexIn(dir)
        BY <1>3, <3>2 DEF IndexIn
      <4> QED
        BY <1>1, <1>11, <4>1, NamedIndex
    <3>3. CASE ext = ".html" /\ n # "index"
      <4>1. Named(html, FALSE) = (Files \cap {IndexIn(page), html}) \ {<<Segment("404", ".html")>>}
        BY <1>1, <3>3, NamedHtml
      <4> QED
        BY <1>3, <1>11, <3>3, <4>1
    <3> QED
      BY <3>1, <3>2, <3>3
  <2> QED
    BY <2>1, <2>2 DEF Right
<1> QED
  BY <1>5, <1>6, <1>7, <1>8, <1>9, <1>10, <1>11

(* Nothing is meant where the worker answers for the 404 page itself.      *)
LEMMA NothingMeantAt404 ==
  ASSUME NEW slash \in BOOLEAN
  PROVE  Named(<<NotFoundPage>>, slash) = {}
<1> DEFINE t == <<NotFoundPage>>
<1>1. t \in Seq(Seg) /\ t # <<>> /\ Last(t) = NotFoundPage
  BY Segments, OneSegment
<1>2. t \notin Files
  BY <1>1, Segments, RouterAssumption
<1>3. IndexIn(t) \notin Files
  BY <1>1, PageIs
<1>4. Named(t, TRUE) = {} /\ Named(t, FALSE) = {}
  <2>1. Last(t)[2] # ".html"
    BY <1>1, Segments
  <2>2. Named(t, TRUE) = Files \cap {IndexIn(t)}
    BY <1>1, NamedAtSlash
  <2>3. Named(t, FALSE) = Files \cap {IndexIn(t), t}
    BY <1>1, <2>1, NamedPlain
  <2> QED
    BY <1>2, <1>3, <2>2, <2>3
<1> QED
  BY <1>4

(* Only a method the assets refuse gets an answer that is not right.       *)
RightForGet(r, meant) ==
  Right(r, meant) \/ (method # "GET" /\ r \in {Show(Refused), NotFound})

LEMMA AssetsAreRight ==
  ASSUME NEW path \in URL,
         path.slash => path.seg # <<NotFoundPage>>,
         ~path.slash =>
           Last(path.seg)[2] # "" \/ (Head(path.seg) \in ExportDir /\ Front(path.seg) # <<>>)
  PROVE  RightForGet(Assets(path), Named(path.seg, path.slash))
<1>1. path.seg \in Seq(Seg) /\ path.slash \in BOOLEAN /\ (path.seg = <<>> => path.slash)
  BY DEF URL, Seg
<1>2. CASE method # "GET"
  BY <1>2 DEF Assets, RightForGet
<1>3. CASE method = "GET" /\ path.slash
  <2>1. Assets(path) = AtSlash(path.seg) /\ path.slash = TRUE
    BY <1>1, <1>3 DEF Assets
  <2> QED
    BY <1>1, <1>3, <2>1, AtSlashIsRight DEF RightForGet
<1>4. CASE method = "GET" /\ ~path.slash
  <2>1. Assets(path) = AtName(path.seg) /\ path.slash = FALSE /\ path.seg # <<>>
    BY <1>1, <1>4 DEF Assets
  <2>2. Right(AtName(path.seg), Named(path.seg, FALSE))
    BY <1>1, <1>4, <2>1, AtNameIsRight
  <2> QED
    BY <2>1, <2>2 DEF RightForGet
<1> QED
  BY <1>1, <1>2, <1>3, <1>4

LEMMA BelowDocsIsRight ==
  ASSUME NEW path \in URL, path.seg # <<>>, Head(path.seg) = Docs,
         path # Path(<<Docs>>, FALSE)
  PROVE  RightForGet(BelowDocs(path), Meant(path))
<1> DEFINE t == Tail(path.seg)
<1>1. /\ path.seg \in Seq(Seg) /\ path.slash \in BOOLEAN
      /\ path = Path(path.seg, path.slash)
  BY DEF URL, Seg, Path
<1>2. /\ t \in Seq(Seg) /\ path.seg = <<Docs>> \o t
      /\ t # <<>> => Last(t) = Last(path.seg)
      /\ t = <<>> <=> path.seg = <<Docs>>
  BY <1>1, SplitHead
<1>3. Meant(path) = Named(t, path.slash)
  BY DEF Meant, Below
<1>4. ~path.slash => t # <<>>
  BY <1>1, <1>2
<1>5. t = <<NotFoundPage>> <=> path.seg = <<Docs, NotFoundPage>>
  <2>1. <<Docs, NotFoundPage>> = <<Docs>> \o <<NotFoundPage>>
    <3>1. /\ <<Docs>> \in Seq(Seg) /\ Len(<<Docs>>) = 1 /\ <<Docs>>[1] = Docs
          /\ <<NotFoundPage>> \in Seq(Seg) /\ Len(<<NotFoundPage>>) = 1
          /\ <<NotFoundPage>>[1] = NotFoundPage
      BY Segments, OneSegment
    <3>2. /\ <<Docs>> \o <<NotFoundPage>> \in Seq(Seg)
          /\ Len(<<Docs>> \o <<NotFoundPage>>) = 2
          /\ (<<Docs>> \o <<NotFoundPage>>)[1] = Docs
          /\ (<<Docs>> \o <<NotFoundPage>>)[2] = NotFoundPage
      BY <3>1, ConcatProperties
    <3>3. /\ <<Docs, NotFoundPage>> \in Seq(Seg)
          /\ Len(<<Docs, NotFoundPage>>) = 2
          /\ <<Docs, NotFoundPage>>[1] = Docs
          /\ <<Docs, NotFoundPage>>[2] = NotFoundPage
      <4>1. Docs \in Seg /\ NotFoundPage \in Seg
        BY Segments
      <4> QED
        BY <4>1
    <3>4. \A i \in 1..2 : (<<Docs>> \o <<NotFoundPage>>)[i] = <<Docs, NotFoundPage>>[i]
      BY <3>2, <3>3
    <3> QED
      BY <3>2, <3>3, <3>4, SeqEqual
  <2>2. <<NotFoundPage>> \in Seq(Seg)
    BY Segments, OneSegment
  <2>3. Tail(<<Docs>> \o <<NotFoundPage>>) = <<NotFoundPage>>
    BY <2>2, Segments, Prefixed
  <2> QED
    BY <1>2, <2>1, <2>3
<1>6. CASE t = <<NotFoundPage>>
  <2>1. BelowDocs(path) = NotFound
    BY <1>5, <1>6 DEF BelowDocs
  <2>2. Meant(path) = {}
    BY <1>1, <1>3, <1>6, NothingMeantAt404
  <2> QED
    BY <2>1, <2>2 DEF Right, RightForGet
<1>7. CASE t # <<NotFoundPage>> /\ ~HasFileExtension(path) /\ ~path.slash
  <2>1. BelowDocs(path) = Redirect(Path(path.seg, TRUE))
    BY <1>5, <1>7 DEF BelowDocs
  <2>2. t # <<>> /\ Last(t)[2] = ""
    BY <1>2, <1>4, <1>7 DEF HasFileExtension
  <2>3. t \notin Files
    BY <2>2, RouterAssumption
  <2>4. Named(t, FALSE) = Named(t, TRUE)
    <3>1. Named(t, FALSE) = Files \cap {IndexIn(t), t}
      BY <1>2, <2>2, NamedPlain
    <3> QED
      BY <1>2, <2>3, <3>1, NamedAtSlash
  <2>5. Meant(Path(path.seg, TRUE)) = Named(t, TRUE)
    BY PathHas DEF Meant, Below
  <2>6. path.slash = FALSE
    BY <1>1, <1>7
  <2>7. Right(Redirect(Path(path.seg, TRUE)), Meant(path))
    BY <1>1, <1>3, <2>4, <2>5, <2>6, RedirectIsRight
  <2> QED
    BY <2>1, <2>7 DEF RightForGet
<1>8. CASE t # <<NotFoundPage>> /\ (HasFileExtension(path) \/ path.slash)
  <2>1. BelowDocs(path) = Assets(Path(t, path.slash))
    BY <1>5, <1>8 DEF BelowDocs
  <2>2. Path(t, path.slash) \in URL
    BY <1>1, <1>2, <1>4 DEF Path, URL, Seg
  <2>3. ~path.slash => Last(t)[2] # ""
    BY <1>2, <1>4, <1>8 DEF HasFileExtension
  <2>4. RightForGet(Assets(Path(t, path.slash)), Named(t, path.slash))
    <3>1. Path(t, path.slash).seg = t /\ Path(t, path.slash).slash = path.slash
      BY PathHas
    <3> QED
      BY <1>8, <2>2, <2>3, <3>1, AssetsAreRight
  <2> QED
    BY <1>3, <2>1, <2>4
<1> QED
  BY <1>6, <1>7, <1>8

LEMMA FetchIsRight ==
  ASSUME NEW path \in URL
  PROVE  RightForGet(Fetch(path), Meant(path))
<1> DEFINE docs == Path(<<Docs>>, FALSE)
<1>1. /\ path.seg \in Seq(Seg) /\ path.slash \in BOOLEAN
      /\ path = Path(path.seg, path.slash) /\ (path.seg = <<>> => path.slash)
  BY DEF URL, Seg, Path
<1>2. /\ <<>> \in Seq(Seg) /\ <<Docs>> \in Seq(Seg) /\ <<Docs>> # <<>>
      /\ Head(<<Docs>>) = Docs /\ Tail(<<Docs>>) = <<>>
  BY Segments, EmptySeq, OneSegment
<1>3. Meant(docs) = Named(<<>>, FALSE) /\ Meant(Root) = Named(<<>>, TRUE)
  BY <1>2, PathHas DEF Meant, Below, Root
<1>4. Named(<<>>, FALSE) = Named(<<>>, TRUE)
  <2>1. <<>> \notin Files
    BY RouterAssumption
  <2>2. Named(<<>>, FALSE) = Files \cap {IndexIn(<<>>), <<>>}
    BY <1>2, NamedPlain
  <2>3. Named(<<>>, TRUE) = Files \cap {IndexIn(<<>>)}
    BY <1>2, NamedAtSlash
  <2> QED
    BY <2>1, <2>2, <2>3
<1>5. CASE path = Root
  <2>1. Fetch(path) = Redirect(docs)
    BY <1>5 DEF Fetch
  <2>2. Right(Redirect(docs), Meant(path))
    BY <1>2, <1>3, <1>4, <1>5, RedirectIsRight
  <2> QED
    BY <2>1, <2>2 DEF RightForGet
<1>6. path # Root => path.seg # <<>>
  BY <1>1 DEF Root
<1>7. CASE path # Root /\ path = docs
  <2>1. Fetch(path) = Assets(Root)
    BY <1>7 DEF Fetch
  <2>2. Root \in URL /\ Root.seg = <<>> /\ Root.slash = TRUE /\ <<>> # <<NotFoundPage>>
    BY <1>2, Segments, EmptySeq DEF Root, Path, URL, Seg
  <2>3. RightForGet(Assets(Root), Named(<<>>, TRUE))
    BY <2>2, AssetsAreRight
  <2> QED
    BY <1>3, <1>4, <1>7, <2>1, <2>3
<1>8. CASE path # Root /\ path # docs /\ Head(path.seg) = Docs
  <2>1. Fetch(path) = BelowDocs(path)
    BY <1>8 DEF Fetch
  <2> QED
    BY <1>6, <1>8, <2>1, BelowDocsIsRight
<1>9. CASE path # Root /\ path # docs /\ Head(path.seg) # Docs /\ IsExportAssetPath(path)
  <2>1. Fetch(path) = Assets(path) /\ Meant(path) = Named(path.seg, path.slash)
    BY <1>9 DEF Fetch, Meant, Below
  <2>2. path.slash => path.seg # <<NotFoundPage>>
    <3>1. ASSUME path.slash, path.seg = <<NotFoundPage>> PROVE FALSE
      <4>1. Head(path.seg) = NotFoundPage
        BY <3>1, HeadOfOne
      <4>2. Head(path.seg) \notin ExportDir
        BY <4>1, Segments
      <4> QED
        <5>1. \A x : path # Path(x, FALSE)
          BY <3>1 DEF Path
        <5> QED
          BY <1>9, <4>2, <5>1 DEF IsExportAssetPath
    <3> QED
      BY <3>1
  <2>3. ~path.slash =>
          Last(path.seg)[2] # "" \/ (Head(path.seg) \in ExportDir /\ Front(path.seg) # <<>>)
    <3> SUFFICES ASSUME ~path.slash
                 PROVE  Last(path.seg)[2] # "" \/
                        (Head(path.seg) \in ExportDir /\ Front(path.seg) # <<>>)
      OBVIOUS
    <3>1. CASE Head(path.seg) \in ExportDir /\ Len(path.seg) > 1
      <4>1. path.seg = Front(path.seg) \o <<Last(path.seg)>> /\ Last(path.seg) \in Seg
        BY <1>1, <1>6, <1>9, SplitLast
      <4>2. Front(path.seg) = <<>> => path.seg = <<Last(path.seg)>>
        BY <1>2, <4>1, JoinLast
      <4>3. Len(<<Last(path.seg)>>) = 1
        BY <4>1, OneSegment
      <4>4. Front(path.seg) = <<>> => Len(path.seg) = 1
        <5> SUFFICES ASSUME Front(path.seg) = <<>> PROVE Len(path.seg) = 1
          OBVIOUS
        <5>1. path.seg = <<Last(path.seg)>>
          BY <4>2
        <5> QED
          BY <4>3, <5>1, Zenon
      <4>5. ~(1 > 1)
        OBVIOUS
      <4> QED
        BY <3>1, <4>4, <4>5
    <3>2. CASE path.seg = <<Segment("favicon", ".svg")>>
      BY <3>2 DEF Last, Segment
    <3>3. CASE path.seg = <<Segment("sitemap-index", ".xml")>>
      BY <3>3 DEF Last, Segment
    <3>4. CASE path.seg = <<Segment("sitemap-0", ".xml")>>
      BY <3>4 DEF Last, Segment
    <3>5. \/ Head(path.seg) \in ExportDir /\ Len(path.seg) > 1
          \/ \E x \in {Segment("favicon", ".svg"), Segment("sitemap-index", ".xml"),
                       Segment("sitemap-0", ".xml")} : path = Path(<<x>>, FALSE)
      BY <1>9 DEF IsExportAssetPath
    <3>6. \A x : path = Path(<<x>>, FALSE) => path.seg = <<x>>
      BY DEF Path
    <3> QED
      BY <3>1, <3>2, <3>3, <3>4, <3>5, <3>6
  <2> QED
    BY <2>1, <2>2, <2>3, AssetsAreRight
<1>10. CASE /\ path # Root /\ path # docs /\ Head(path.seg) # Docs
            /\ ~IsExportAssetPath(path) /\ method = "GET"
  <2>1. Fetch(path) = Redirect(Path(<<Docs>> \o path.seg, path.slash))
    BY <1>10 DEF Fetch
  <2>2. /\ <<Docs>> \o path.seg \in Seq(Seg) /\ <<Docs>> \o path.seg # <<>>
        /\ Head(<<Docs>> \o path.seg) = Docs /\ Tail(<<Docs>> \o path.seg) = path.seg
    BY <1>1, Segments, Prefixed
  <2>3. Meant(Path(<<Docs>> \o path.seg, path.slash)) = Meant(path)
    <3>1. Path(<<Docs>> \o path.seg, path.slash).seg = <<Docs>> \o path.seg
      BY PathHas
    <3>2. Below(Path(<<Docs>> \o path.seg, path.slash)) = path.seg
      BY <2>2, <3>1 DEF Below
    <3>3. Below(path) = path.seg
      BY <1>10 DEF Below
    <3>4. Path(<<Docs>> \o path.seg, path.slash).slash = path.slash
      BY PathHas
    <3> QED
      BY <3>2, <3>3, <3>4 DEF Meant
  <2>4. Right(Redirect(Path(<<Docs>> \o path.seg, path.slash)), Meant(path))
    BY <1>1, <2>2, <2>3, RedirectIsRight
  <2> QED
    BY <2>1, <2>4 DEF RightForGet
<1>11. CASE /\ path # Root /\ path # docs /\ Head(path.seg) # Docs
            /\ ~IsExportAssetPath(path) /\ method # "GET"
  <2>1. Fetch(path) = NotFound
    BY <1>11 DEF Fetch
  <2> QED
    BY <1>11, <2>1 DEF RightForGet
<1> QED
  BY <1>5, <1>7, <1>8, <1>9, <1>10, <1>11

-----------------------------------------------------------------------------
(* A browser that follows redirects stays about the files first meant.     *)

RouterInv ==
  /\ RouterTypeOK
  /\ answer = NoAnswer => Meant(url) = Meant(first)
  /\ PagesAreFound

LEMMA NoFile ==
  /\ Missing \notin Files /\ Refused \notin Files /\ NoAnswer \notin Files /\ NoAnswer \notin URL
  /\ Missing # Refused /\ Missing # NoAnswer /\ Refused # NoAnswer
BY RouterAssumption

LEMMA RouterInitially == RouterInit => RouterInv
BY NoFile, RouterAssumption DEF RouterInit, RouterInv, RouterTypeOK, PagesAreFound

LEMMA RouterKeeps == RouterInv /\ [Browse]_routerVars => RouterInv'
<1> SUFFICES ASSUME RouterInv, [Browse]_routerVars PROVE RouterInv'
  OBVIOUS
<1>1. CASE UNCHANGED routerVars
  BY <1>1 DEF routerVars, RouterInv, RouterTypeOK, PagesAreFound
<1>2. CASE Browse
  <2> DEFINE r == Fetch(url)
  <2>1. /\ url \in URL /\ answer = NoAnswer /\ Meant(url) = Meant(first)
        /\ first' = first /\ first \in Visits
        /\ method \in {"GET", "POST"} /\ method' \in {method, "GET"}
    BY <1>2 DEF RouterInv, RouterTypeOK, Browse
  <2>2. RightForGet(r, Meant(first))
    BY <2>1, FetchIsRight
  <2>3. Meant(first) \subseteq Files
    BY DEF Meant, Named
  <2>4. CASE \E f \in Meant(first) : r = Show(f)
    <3>1. PICK f \in Meant(first) : r = Show(f)
      BY <2>4
    <3>2. answer' = f /\ url' = url
      BY <1>2, <3>1 DEF Browse, Show
    <3> QED
      BY <2>1, <2>3, <3>1, <3>2, NoFile DEF RouterInv, RouterTypeOK, PagesAreFound
  <2>5. CASE r = NotFound /\ (Meant(first) = {} \/ method # "GET")
    <3>1. answer' = Missing /\ url' = url /\ method' = method
      BY <1>2, <2>5 DEF Browse, Show, NotFound
    <3> QED
      BY <2>1, <2>5, <3>1, NoFile DEF RouterInv, RouterTypeOK, PagesAreFound
  <2>6. CASE r = Show(Refused)
    <3>1. answer' = Refused /\ url' = url
      BY <1>2, <2>6 DEF Browse, Show
    <3> QED
      BY <2>1, <3>1, NoFile DEF RouterInv, RouterTypeOK, PagesAreFound
  <2>7. CASE \E path \in URL : Meant(path) = Meant(first) /\ r = Redirect(path)
    <3>1. PICK path \in URL : Meant(path) = Meant(first) /\ r = Redirect(path)
      BY <2>7
    <3>2. url' = path /\ answer' = NoAnswer
      BY <1>2, <2>1, <3>1, NoFile DEF Browse, Redirect
    <3> QED
      BY <2>1, <3>1, <3>2, NoFile DEF RouterInv, RouterTypeOK, PagesAreFound
  <2> QED
    BY <2>2, <2>4, <2>5, <2>6, <2>7 DEF RightForGet, Right
<1> QED
  BY <1>1, <1>2

(* The variables keep their types: what a browser is sent to is a URL, and *)
(* what it ends with a file of the build or a refusal.                     *)
THEOREM RouterTypeCorrect == RouterSpec => []RouterTypeOK
<1>1. RouterInv => RouterTypeOK
  BY DEF RouterInv
<1> QED
  BY <1>1, RouterInitially, RouterKeeps, PTL DEF RouterSpec

(* Whatever path a visitor asks for, and whatever the build has in it, an  *)
(* answer is a file that was meant, and "Not found" is only said of what   *)
(* is not there: worker and assets, each with its redirects, agree.        *)
THEOREM PagesAreAlwaysFound == RouterSpec => []PagesAreFound
<1>1. RouterInv => PagesAreFound
  BY DEF RouterInv
<1> QED
  BY <1>1, RouterInitially, RouterKeeps, PTL DEF RouterSpec
==============================================================================
