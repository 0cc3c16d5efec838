-------------------------- MODULE MCReleaseAudit --------------------------
(* Up to two facts that block a release, every set of options.             *)
EXTENDS ReleaseAudit, Naturals, FiniteSets

MCArg == {{"--unknown"}, {"--help"}} \cup
         SUBSET {"--allow-dirty", "--allow-open-qualification",
                 "--include-launch-preflight"}
MCFacts == {F \in SUBSET Fact : Cardinality(F) <= 2}
MCAbsent == {{}, {"git"}, {"rg"}, {"build.zig.zon"}, {"hive_rpc_compat_smoke.ts"}}
=============================================================================
