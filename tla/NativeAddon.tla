---------------------------- MODULE NativeAddon ----------------------------
(***************************************************************************)
(* npm/zevm/src/index.js: which native addon a process loads, and the two  *)
(* classes whose objects own memory of the addon; native/zevm_napi.c: the  *)
(* functions of the addon they call, and what those free.                  *)
(*                                                                         *)
(* JavaScript runs on one thread, so a method is one step.  The garbage    *)
(* collector is external: a handle the program has let go of is finalized  *)
(* at any later time, at the latest when the process exits.                *)
(***************************************************************************)
EXTENDS PlatformPackages, Naturals

CONSTANTS
  Host,       \* machines: [os, arch, libc, report]; report: getReport() says libc
  Object,     \* LightClient and NativeNode objects of the process
  FirstABI    \* first version of the addon that has nodeCreate and nodeRpc

(* No class is None: None is no value of the program.                      *)
ASSUME AddonAssumption == None \notin {"light", "node"}

VARIABLES
  host,    \* the machine, or None while nothing is installed
  loaded,  \* "no", "yes", "missing", "foreign" (dlopen fails), "old" (no ABI)
  addon,   \* the addon loaded: [for, version], or None
  kind,    \* class of each object: "light", "node", or None
  handle,  \* #handle: "undefined" or "external"
  dropped, \* objects the program holds no more
  wrapper, \* memory of the ZevmNativeHandle or ZevmExecutionHandle
  pointer, \* its field handle or node: "null" or "set"
  native,  \* memory of the client or node: "none", "live", "freed", as wrapper
  faulty,  \* memory was freed twice or used after it was freed
  said     \* what the last method called on each object said

mvars == <<wrapper, pointer, native, faulty>>
avars == <<host, loaded, addon, kind, handle, dropped, mvars, said>>
ovars == <<kind, handle, dropped, mvars, said>>

AddonInit ==
  /\ host = None
  /\ loaded = "no"
  /\ addon = None
  /\ kind = [o \in Object |-> None]
  /\ handle = [o \in Object |-> "undefined"]
  /\ dropped = {}
  /\ wrapper = [o \in Object |-> "none"]
  /\ pointer = [o \in Object |-> "null"]
  /\ native = [o \in Object |-> "none"]
  /\ faulty = FALSE
  /\ said = [o \in Object |-> "nothing"]

-----------------------------------------------------------------------------
(* Loading. *)

KeyOf(h, libc) ==
  <<h.os, h.arch, IF h.os = "win32" THEN "msvc" ELSE IF h.os # "linux" THEN "" ELSE libc>>

(* Without a report that names a glibc, a Linux is taken for musl.         *)
NativePackageKey(h) == KeyOf(h, IF h.libc = "gnu" /\ h.report THEN "gnu" ELSE "musl")

(* The key of the addons the machine can really load.                      *)
RunsOn(h) == KeyOf(h, h.libc)

(* localAddon: the addon inside the main package, or None.  platform: the  *)
(* platform packages npm installed, as a set of [for, version].            *)
Candidate(h, override, localAddon, platform) ==
  IF override # None THEN {override}
  ELSE IF localAddon # None THEN {localAddon}
  ELSE {a \in platform : a.for = NativePackageKey(h) /\ a.for \in Platform}

HasABI(a) == a.version >= FirstABI

LoadNative(h, override, localAddon, platform) ==
  LET found == Candidate(h, override, localAddon, platform) IN
  /\ loaded = "no"
  /\ host' = h
  /\ \/ found = {} /\ loaded' = "missing" /\ addon' = None
     \/ \E a \in found :
          /\ addon' = a
          /\ loaded' = IF a.for # RunsOn(h) THEN "foreign"
                       ELSE IF HasABI(a) THEN "yes" ELSE "old"
  /\ UNCHANGED ovars

-----------------------------------------------------------------------------
(* The addon: native/zevm_napi.c. *)

(* Reading the wrapper, or what it points to, faults once it is freed.     *)
UsesFreed(o) == wrapper[o] # "live" \/ (pointer[o] = "set" /\ native[o] # "live")

(* zevm_light_shutdown and zevm_node_destroy do nothing for NULL.          *)
FreeNative(o) ==
  native' = [native EXCEPT ![o] = IF pointer[o] = "set" THEN "freed" ELSE @]

(* light_init, node_create: the client or node, then the wrapper, then the *)
(* external; what was made before a failure is freed, and the error thrown.*)
Create(o) ==
  /\ native' = [native EXCEPT ![o] = "live"]
  /\ wrapper' = [wrapper EXCEPT ![o] = "live"]
  /\ pointer' = [pointer EXCEPT ![o] = "set"]

CreateFails(o) ==
  /\ \/ UNCHANGED <<native, wrapper, pointer>>
     \/ /\ native' = [native EXCEPT ![o] = "freed"]
        /\ UNCHANGED <<wrapper, pointer>>
     \/ /\ native' = [native EXCEPT ![o] = "freed"]
        /\ wrapper' = [wrapper EXCEPT ![o] = "freed"]
        /\ pointer' = [pointer EXCEPT ![o] = "set"]

(* get_handle refuses a wrapper whose client was shut down, but not        *)
(* execution_handle: node_destroy may meet a NULL, as finalize_node may.   *)
HandleRefused(o) == kind[o] = "light" /\ pointer[o] = "null"

(* light_shutdown, node_destroy.  (Mutant: the pointer stays.)             *)
DestroyKeepsPointer(o) ==
  /\ IF HandleRefused(o) THEN UNCHANGED native ELSE FreeNative(o)
  /\ faulty' = (faulty \/ UsesFreed(o))
  /\ UNCHANGED pointer
Destroy(o) ==
  /\ IF HandleRefused(o)
     THEN UNCHANGED <<native, pointer>>
     ELSE FreeNative(o) /\ pointer' = [pointer EXCEPT ![o] = "null"]
  /\ faulty' = (faulty \/ UsesFreed(o))

(* finalize_handle, finalize_node, once nothing in JavaScript refers to    *)
(* the handle: what the wrapper still points to, then the wrapper.         *)
Finalize(o) ==
  /\ wrapper[o] = "live"
  /\ handle[o] = "undefined" \/ o \in dropped
  /\ FreeNative(o)
  /\ wrapper' = [wrapper EXCEPT ![o] = "freed"]
  /\ faulty' = (faulty \/ UsesFreed(o))
  /\ UNCHANGED <<host, loaded, addon, kind, handle, dropped, pointer, said>>

(* light_* and node_rpc use what the wrapper points to, if anything.       *)
Answer(o) ==
  IF HandleRefused(o) THEN {"invalid handle"}
  ELSE IF pointer[o] = "null" THEN {"closed"}
  ELSE {"answer", "native error"}

-----------------------------------------------------------------------------
(* The classes. *)

Say(o, words) == said' = [said EXCEPT ![o] = words]

Held(o) == kind[o] # None /\ o \notin dropped

(* new LightClient(...), new NativeNode(...): native errors are thrown.    *)
New(o, k) ==
  /\ loaded = "yes"
  /\ kind[o] = None
  /\ kind' = [kind EXCEPT ![o] = k]
  /\ \/ /\ Create(o)
        /\ handle' = [handle EXCEPT ![o] = "external"]
        /\ UNCHANGED <<dropped, said>>
     \/ /\ CreateFails(o)
        /\ Say(o, "native error")
        /\ dropped' = dropped \cup {o}
        /\ UNCHANGED handle
  /\ UNCHANGED <<host, loaded, addon, faulty>>

(* A method with a handle asks the addon, one without says it is closed.   *)
RequiredHandle(o) ==
  /\ Held(o)
  /\ IF handle[o] = "undefined"
     THEN Say(o, "closed") /\ UNCHANGED faulty
     ELSE /\ \E a \in Answer(o) : Say(o, a)
          /\ faulty' = (faulty \/ UsesFreed(o))
  /\ UNCHANGED <<host, loaded, addon, kind, handle, dropped, wrapper, pointer, native>>

LightMethod(o) == kind[o] = "light" /\ RequiredHandle(o)
Rpc(o) == kind[o] = "node" /\ RequiredHandle(o)

(* The addon frees what is there to free; a second close does nothing.     *)
Shut(o) ==
  /\ Held(o)
  /\ handle' = [handle EXCEPT ![o] = "undefined"]
  /\ IF handle[o] = "undefined"
     THEN Say(o, "nothing") /\ UNCHANGED <<native, pointer, faulty>>
     ELSE Destroy(o) /\ Say(o, IF HandleRefused(o) THEN "invalid handle" ELSE "nothing")
  /\ UNCHANGED <<host, loaded, addon, kind, dropped, wrapper>>

CloseLight(o) == kind[o] = "light" /\ Shut(o)
CloseNode(o) == kind[o] = "node" /\ Shut(o)

(* The program lets go of the object.                                      *)
Drop(o) ==
  /\ Held(o)
  /\ dropped' = dropped \cup {o}
  /\ UNCHANGED <<host, loaded, addon, kind, handle, mvars, said>>

ObjectNext ==
  \E o \in Object :
    \/ \E k \in {"light", "node"} : New(o, k)
    \/ LightMethod(o) \/ Rpc(o) \/ CloseLight(o) \/ CloseNode(o)
    \/ Drop(o) \/ Finalize(o)

-----------------------------------------------------------------------------
(* Properties. *)

AddonTypeOK ==
  /\ host \in Host \cup {None}
  /\ loaded \in {"no", "yes", "missing", "foreign", "old"}
  /\ addon \in [for : Platform, version : Nat] \cup {None}
  /\ kind \in [Object -> {"light", "node", None}]
  /\ handle \in [Object -> {"undefined", "external"}]
  /\ dropped \subseteq Object
  /\ wrapper \in [Object -> {"none", "live", "freed"}]
  /\ pointer \in [Object -> {"null", "set"}]
  /\ native \in [Object -> {"none", "live", "freed"}]
  /\ faulty \in BOOLEAN
  /\ said \in [Object -> {"nothing", "answer", "native error", "closed", "invalid handle"}]

(* The memory behind an object is freed once, by close or by the garbage   *)
(* collector (light_shutdown, node_destroy, finalize_handle, finalize_node)*)
(* and by a constructor that fails half-way; never while the program holds *)
(* the object open, and always once it is closed.  No method reaches it    *)
(* afterwards: those of a closed object say so or do nothing, and the      *)
(* addon never gets a handle it refuses.                                   *)
ClosedStaysClosed ==
  /\ ~faulty
  /\ \A o \in Object :
       /\ said[o] # "invalid handle"
       /\ Held(o) /\ handle[o] = "external" =>
            wrapper[o] = "live" /\ pointer[o] = "set" /\ native[o] = "live"
       /\ handle[o] = "undefined" => native[o] # "live" /\ said[o] # "answer"
=============================================================================
