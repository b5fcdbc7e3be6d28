---------------------------- MODULE KernelDrivers ----------------------------
(***************************************************************************)
(* The drivers of fast_ko/kernel_code as tables: the calls that acquire    *)
(* something, in order, each with what the code does when the call fails,  *)
(* and the calls with which the module gives everything back.              *)
(*                                                                         *)
(* The three plain modules do all of it in module_init and module_exit;    *)
(* the platform drivers do it in probe and remove.                         *)
(***************************************************************************)
EXTENDS Sequences

\* A call that acquires gets, or fails.  If the code checks for the failure it
\* runs the releases of cleanup and returns an error, or, with honest FALSE,
\* a ret that still is zero.
Call(gets, cleanup) ==
    [gets |-> gets, fails |-> TRUE, checked |-> TRUE, honest |-> TRUE, cleanup |-> cleanup]

\* cdev_init returns nothing.
VoidCall(gets) ==
    [gets |-> gets, fails |-> FALSE, checked |-> FALSE, honest |-> TRUE, cleanup |-> <<>>]

\* class_create answers with an ERR_PTR, and the code tests for NULL.
UncheckedCall(gets) ==
    [gets |-> gets, fails |-> TRUE, checked |-> FALSE, honest |-> TRUE, cleanup |-> <<>>]

\* The goto on a failed alloc_netdev leaves ret as it was.
ZeroRetCall(gets, cleanup) ==
    [gets |-> gets, fails |-> TRUE, checked |-> TRUE, honest |-> FALSE, cleanup |-> cleanup]

\* What a resource lives in: the kernel refuses to create it without, and it
\* must be gone before.  The cdev is memory and, from cdev_init on, the reference
\* to the kobject in it.
Parent ==
    [kobj |-> "cdev", added |-> "kobj", device |-> "class", file0 |-> "device", file1 |-> "device",
     netif |-> "ndev"]

\* What a release is about, and all that goes with it: a device takes its
\* sysfs files along, and cdev_del undoes cdev_add and drops the reference.
\* It does not undo cdev_alloc: cdev_init has put another type into the kobject,
\* one whose release leaves the memory to its owner, and no driver frees it.
Subject ==
    [cdev_del |-> "kobj", unregister_chrdev_region |-> "region", kfree |-> "priv",
     class_destroy |-> "class", device_destroy |-> "device",
     remove_file0 |-> "file0", remove_file1 |-> "file1",
     unregister_netdev |-> "netif", free_netdev |-> "ndev",
     platform_driver_unregister |-> "driver", platform_device_unregister |-> "pdev"]

Frees(release) ==
    LET r == Subject[release]
    IN  {r} \cup {child \in DOMAIN Parent : Parent[child] = r /\ r \in {"device", "kobj"}}

-------------------------------------------------------------------------------
(* The plain character device module: rocklee_init and rocklee_exit.       *)

CharErr  == <<"cdev_del">>
CharErr1 == <<"unregister_chrdev_region">> \o CharErr
CharErr2 == <<"class_destroy">> \o CharErr1
CharErr3 == <<"device_destroy">> \o CharErr2

CharSteps ==
    << Call("cdev", <<>>), VoidCall("kobj"), Call("region", CharErr),
       Call("added", CharErr1), Call("class", CharErr1), Call("device", CharErr2),
       Call("file0", CharErr3), Call("file1", CharErr3) >>

\* Mutant: the class goes before its device.
ExitClassFirst ==
    << "remove_file0", "remove_file1", "class_destroy", "device_destroy",
       "unregister_chrdev_region", "cdev_del" >>

Exit ==
    << "remove_file0", "remove_file1", "device_destroy", "class_destroy",
       "unregister_chrdev_region", "cdev_del" >>

CharDriver == [platform |-> FALSE, steps |-> CharSteps, exit |-> Exit]

RockleeKernel == CharDriver
Rockpi4b      == CharDriver
RbtreeModule  == CharDriver

-------------------------------------------------------------------------------
(* The platform drivers: probe and remove.  A failed cdev_add goes to the  *)
(* label after the release of the region, and a failed kmalloc returns     *)
(* without any release.                                                    *)

\* Mutant: the private data is forgotten.
PlatformErr1NoFree == <<"unregister_chrdev_region", "cdev_del">>

PlatformErr  == <<"cdev_del">>
PlatformErr1 == <<"unregister_chrdev_region", "kfree">> \o PlatformErr
PlatformErr2 == <<"class_destroy">> \o PlatformErr1
PlatformErr3 == <<"device_destroy">> \o PlatformErr2

PlatformSteps ==
    << Call("cdev", <<>>), VoidCall("kobj"), Call("region", PlatformErr),
       Call("added", PlatformErr), Call("priv", <<>>), UncheckedCall("class"),
       Call("device", PlatformErr2), Call("file0", PlatformErr3),
       Call("file1", PlatformErr3) >>

PlatformRemove == Exit \o <<"kfree">>

PlatformDriver == [platform |-> TRUE, steps |-> PlatformSteps, exit |-> PlatformRemove]

\* Mutant: the goto after a failed register_netdev unregisters the device.
NetErr5Unregister == <<"unregister_netdev", "free_netdev">>

NetErr4 == <<"remove_file0", "remove_file1">> \o PlatformErr3
NetErr5 == <<"free_netdev">> \o NetErr4

NetSteps ==
    PlatformSteps \o << ZeroRetCall("ndev", NetErr4), Call("netif", NetErr5) >>

NetRemove == Exit \o <<"unregister_netdev", "free_netdev", "kfree">>

NetDriver == [platform |-> TRUE, steps |-> NetSteps, exit |-> NetRemove]

NetDevice == NetDriver
Multicard == NetDriver

-------------------------------------------------------------------------------
Driver ==
    [rocklee_kernel |-> RockleeKernel, rockpi4b |-> Rockpi4b, rbtree |-> RbtreeModule,
     platformdrv |-> PlatformDriver, netdevice |-> NetDevice, multicard |-> Multicard]

Resource == {Subject[r] : r \in DOMAIN Subject} \cup DOMAIN Parent \cup {"cdev"}
===============================================================================
