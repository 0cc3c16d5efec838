-------------------------- MODULE PlatformPackages --------------------------
(* platformPackages, the table stage-artifacts.cjs and index.js share.     *)

CONSTANTS
  Platform, \* its keys: <<os, arch, libc or "msvc" or "">>
  None
=============================================================================
