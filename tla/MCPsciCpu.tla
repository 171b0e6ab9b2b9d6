----------------------------- MODULE MCPsciCpu -----------------------------
(* Three cores (the boot core and two secondaries, so that two cpu_on     *)
(* calls can interleave on the shared reset register and ISRAM record),   *)
(* two entry addresses, and MPIDRs carrying the RK322x cluster id 0xf.    *)
EXTENDS PsciCpu

CONSTANTS e1, e2

MCEntries == {e1, e2}
MCClusterIds == {15}
=============================================================================
