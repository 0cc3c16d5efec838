---------------------------- MODULE MCNpmPackage ----------------------------
(* Two of the eleven platforms, one of them the builder's; machines with   *)
(* and without a package, and a Linux whose report does not name its glibc.*)
EXTENDS NpmPackage

Mac == <<"darwin", "arm64", "">>
Gnu == <<"linux", "x64", "gnu">>

MCPlatform == {Mac, Gnu}

Machine(os, arch, libc, report) ==
  [os |-> os, arch |-> arch, libc |-> libc, report |-> report]

MCHost ==
  {Machine("darwin", "arm64", "", TRUE), Machine("linux", "x64", "gnu", TRUE),
   Machine("linux", "x64", "gnu", FALSE), Machine("linux", "x64", "musl", TRUE)}

MCOverride == {[for |-> Mac, version |-> 0]}
=============================================================================
