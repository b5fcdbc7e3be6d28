--------------------------- MODULE MCKernelModules ---------------------------
(***************************************************************************)
(* The kernel modules for TLC: the red-black tree tests of one reader, and *)
(* the loading and unloading of the drivers, and the modules with a /proc  *)
(* entry.  The initial states choose one of the three, and which module.   *)
(*                                                                         *)
(* Six nodes are the fewest with which a red-black tree has a node of the  *)
(* fourth level behind a place without a parent.                           *)
(***************************************************************************)
EXTENDS RbExerciser

CONSTANTS Users, MaxThreads, MaxBuffers   \* ProcModules

\* The bounds are numbers, whatever they are.
ASSUME KernelAssumption == {MaxThreads, MaxBuffers} \subseteq Nat

VARIABLES
    program,
    name, phase, step, todo, held, bound, ret, failed,
    module, procPhase, entry, file, call, opened, threads, buffers, astray

Drivers == INSTANCE DriverLifecycle
Proc    == INSTANCE ProcModules WITH phase <- procPhase

rbVars     == vars
driverVars == <<name, phase, step, todo, held, bound, ret, failed>>
procVars   == <<module, procPhase, entry, file, call, opened, threads, buffers, astray>>

KernelInit ==
    /\ program \in {"rb", "drivers", "proc"}
    /\ Init
    /\ Drivers!Init
    /\ program # "drivers" => name = "rbtree"
    /\ Proc!Init
    /\ program # "proc" => module = "simple_proc"

KernelNext ==
    /\ UNCHANGED program
    /\ \/ program = "rb" /\ Next /\ UNCHANGED <<driverVars, procVars>>
       \/ program = "drivers" /\ Drivers!Next /\ UNCHANGED <<rbVars, procVars>>
       \/ program = "proc" /\ Proc!Next /\ UNCHANGED <<rbVars, driverVars>>

KernelSpec == KernelInit /\ [][KernelNext]_<<program, rbVars, driverVars, procVars>>

-------------------------------------------------------------------------------
(* The properties of the modules, with their types, under names for the    *)
(* configuration.                                                          *)

\* A module holds after a load what was reported, whichever call failed, with
\* the exceptions that are named.
HeldAsReported ==
    /\ Drivers!TypeOK
    /\ Drivers!HeldAsReported

\* No goto label, exit or remove releases what is not held.
ReleasesOnlyHeld == Drivers!ReleasesOnlyHeld

\* Nothing outlives what it lives in, at any point of a cleanup.
NothingOutlivesParent == Drivers!NothingOutlivesParent

\* A removed /proc module leaves threads and buffers behind, and nothing else.
LeavesOnlyThreadsAndBuffers ==
    /\ Proc!TypeOK
    /\ Proc!LeavesOnlyThreadsAndBuffers
===============================================================================
