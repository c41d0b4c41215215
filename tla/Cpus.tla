-------------------------------- MODULE Cpus --------------------------------
(***************************************************************************)
(* The processors: cpus[0 .. ncpu-1] of kern/cpu.h.                        *)
(***************************************************************************)
CONSTANTS CPUS,  \* the processors
          NoCpu  \* the null struct CpuInfo pointer

ASSUME NoCpuAssumption == NoCpu \notin CPUS
=============================================================================
