--------------------------- MODULE DriverLifecycle ---------------------------
(***************************************************************************)
(* A kernel module from insmod to rmmod, again and again, with a failure   *)
(* possible at every call that can fail.  insmod of a platform module      *)
(* registers the driver and the device, and registering the device probes  *)
(* it: a failed probe leaves the module loaded and the device unbound.     *)
(*                                                                         *)
(* A module that left something behind other than its cdev is not loaded   *)
(* again (a bound).  The next load forgets the cdev of the last one, as    *)
(* the code does, which has one pointer to it.                             *)
(***************************************************************************)
EXTENDS KernelDrivers, Naturals

VARIABLES
    name,    \* which driver
    phase,   \* "out", "register_driver", "register_device", "acquire",
             \* "cleanup" (of a failed init or probe), "in" or "unload"
    step,    \* the next call of the init or probe
    todo,    \* the releases still to come
    held,    \* history: what was acquired and not released
    bound,   \* init or probe returned 0
    ret,     \* what it is going to return: "zero" or "error"
    failed   \* history: the call that failed in the last load, or "none"

vars == <<name, phase, step, todo, held, bound, ret, failed>>

Init ==
    /\ name \in DOMAIN Driver
    /\ phase = "out"
    /\ step = 1
    /\ todo = <<>>
    /\ held = {}
    /\ bound = FALSE
    /\ ret = "zero"
    /\ failed = "none"

Steps == Driver[name].steps

Load ==
    /\ phase = "out"
    /\ held \subseteq {"cdev"}
    /\ held' = {}
    /\ phase' = IF Driver[name].platform THEN "register_driver" ELSE "acquire"
    /\ step' = 1
    /\ ret' = "zero"
    /\ failed' = "none"
    /\ UNCHANGED <<name, todo, bound>>

\* A failed registration ends the insmod as it stands.
Register(phaseNow, gets, phaseThen) ==
    /\ phase = phaseNow
    /\ \/ /\ held' = held \cup {gets}
          /\ phase' = phaseThen
          /\ UNCHANGED failed
       \/ /\ phase' = "out"
          /\ failed' = gets
          /\ UNCHANGED held
    /\ UNCHANGED <<name, step, todo, bound, ret>>

RegisterDriver == Register("register_driver", "driver", "register_device")
RegisterDevice == Register("register_device", "pdev", "acquire")

Acquire ==
    /\ phase = "acquire"
    /\ step <= Len(Steps)
    /\ LET r == Steps[step].gets
       IN  /\ r \in DOMAIN Parent => Parent[r] \in held
           /\ held' = held \cup {r}
    /\ step' = step + 1
    /\ UNCHANGED <<name, phase, todo, bound, ret, failed>>

Fail ==
    /\ phase = "acquire"
    /\ step <= Len(Steps)
    /\ Steps[step].fails /\ Steps[step].checked
    /\ phase' = "cleanup"
    /\ todo' = Steps[step].cleanup
    /\ ret' = IF Steps[step].honest THEN "error" ELSE "zero"
    /\ failed' = Steps[step].gets
    /\ UNCHANGED <<name, step, held, bound>>

FailUnseen ==
    /\ phase = "acquire"
    /\ step <= Len(Steps)
    /\ Steps[step].fails /\ ~Steps[step].checked
    /\ step' = step + 1
    /\ UNCHANGED <<name, phase, todo, held, bound, ret, failed>>

Acquired ==
    /\ phase = "acquire"
    /\ step > Len(Steps)
    /\ phase' = "in"
    /\ bound' = TRUE
    /\ UNCHANGED <<name, step, todo, held, ret, failed>>

Release ==
    /\ todo # <<>>
    /\ held' = held \ Frees(Head(todo))
    /\ todo' = Tail(todo)
    /\ UNCHANGED <<name, phase, step, bound, ret, failed>>

\* The init or probe returns ret after its releases.  Only the init decides
\* whether the module stays.
CleanedUp ==
    /\ phase = "cleanup"
    /\ todo = <<>>
    /\ bound' = (ret = "zero")
    /\ phase' = IF Driver[name].platform \/ ret = "zero" THEN "in" ELSE "out"
    /\ UNCHANGED <<name, step, todo, held, ret, failed>>

\* rmmod: platform_driver_unregister removes a bound device first.
Unload ==
    /\ phase = "in"
    /\ phase' = "unload"
    /\ todo' = (IF bound THEN Driver[name].exit ELSE <<>>)
               \o (IF Driver[name].platform
                   THEN <<"platform_driver_unregister", "platform_device_unregister">>
                   ELSE <<>>)
    /\ UNCHANGED <<name, step, held, bound, ret, failed>>

Unloaded ==
    /\ phase = "unload"
    /\ todo = <<>>
    /\ phase' = "out"
    /\ bound' = FALSE
    /\ UNCHANGED <<name, step, todo, held, ret, failed>>

Next ==
    \/ Load
    \/ RegisterDriver
    \/ RegisterDevice
    \/ Acquire
    \/ Fail
    \/ FailUnseen
    \/ Acquired
    \/ Release
    \/ CleanedUp
    \/ Unload
    \/ Unloaded

Spec == Init /\ [][Next]_vars

-------------------------------------------------------------------------------
(* Properties.                                                             *)

\* The types, and that releases only run when a load failed or at rmmod.
TypeOK ==
    /\ name \in DOMAIN Driver
    /\ phase \in {"out", "register_driver", "register_device", "acquire", "cleanup",
                  "in", "unload"}
    /\ step \in 1 .. Len(Steps) + 1
    /\ held \subseteq Resource
    /\ bound \in BOOLEAN
    /\ bound => phase \in {"in", "unload"}
    /\ ret \in {"zero", "error"}
    /\ failed \in Resource \cup {"none"}
    /\ todo # <<>> => phase \in {"cleanup", "unload"}

\* What a failed load is known to leave behind, by the call that failed: a
\* platform probe keeps the region when cdev_add fails and all three when
\* kmalloc fails, and a platform module that cannot register its device leaves
\* its driver registered.
LeftBehind ==
    IF ~Driver[name].platform THEN {}
    ELSE CASE failed = "added" -> {"region"}
           [] failed = "priv"  -> {"kobj", "region", "added"}
           [] failed = "pdev"  -> {"driver"}
           [] OTHER -> {}

\* The memory of the cdev is lost by every load that got it.
Lost == IF step > 1 THEN {"cdev"} ELSE {}

\* Between insmod and rmmod a module holds everything if its init or probe
\* returned 0, and nothing of its own otherwise; after rmmod it holds nothing.
\* This is so whichever call fails, with the exceptions of the cdev, whose memory
\* no load ever gives back, of LeftBehind, and of alloc_netdev, whose failure is
\* returned as 0.
HeldAsReported ==
    /\ phase = "out" => held = LeftBehind \cup Lost
    /\ phase = "in" /\ ~bound => held = {"driver", "pdev"} \cup LeftBehind \cup Lost
    /\ phase = "in" /\ bound =>
        \/ /\ failed = "none"
           /\ held = {Steps[i].gets : i \in DOMAIN Steps}
                     \cup (IF Driver[name].platform THEN {"driver", "pdev"} ELSE {})
        \/ failed = "ndev" /\ held = {"driver", "pdev"} \cup Lost

\* Nothing is released twice or before it was acquired: every goto label, exit
\* and remove releases what is held there.  class_destroy does nothing with an
\* ERR_PTR.  The exception is the remove after a failed alloc_netdev, which
\* releases everything once more.
ReleasesOnlyHeld ==
    todo # <<>> =>
        \/ Subject[Head(todo)] \in held
        \/ Head(todo) = "class_destroy" /\ failed = "device"
        \/ phase = "unload" /\ failed = "ndev"

\* A device never outlives its class, nor a sysfs file its device, nor a
\* registered network interface its memory, at any point of any cleanup.
NothingOutlivesParent ==
    \A r \in held \cap DOMAIN Parent : Parent[r] \in held
===============================================================================
