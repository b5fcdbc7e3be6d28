------------------------------ MODULE ProcModules ------------------------------
(***************************************************************************)
(* The four small kernel modules with an entry in /proc: opening it        *)
(* allocates (single_open), reading it runs the show function, which in    *)
(* multi_thread_with_spinlock.c starts a thread, and writing it in         *)
(* gic_tst.c and mem_test.c allocates memory.  Nothing keeps the module    *)
(* from being removed while its entry is open.                             *)
(*                                                                         *)
(* remove_proc_entry is the kernel's: it lets no new call in, waits for    *)
(* the calls in progress, and releases the files that are still open.      *)
(***************************************************************************)
EXTENDS Integers, FiniteSets

CONSTANTS
    Users,       \* the processes that use the entry
    MaxThreads,  \* bound: threads started
    MaxBuffers   \* bound: allocations by writes

VARIABLES
    module,    \* which of the modules it is
    phase,     \* "out", "in" or "removing"
    entry,     \* the entry is in /proc
    file,      \* what each user has of it
    call,      \* the call into the module each user is in
    opened,    \* users whose single_open has not been released
    threads,   \* threads started, which are never stopped
    buffers,   \* memory from kmalloc that nothing points to any more
    astray     \* code of the module has run after it was removed

procVars == <<module, phase, entry, file, call, opened, threads, buffers, astray>>

Modules  == {"multi_thread", "simple_proc", "gic_test", "mem_test"}
Writable == {"gic_test", "mem_test"}

Init ==
    /\ module \in Modules
    /\ phase = "out"
    /\ entry = FALSE
    /\ file = [u \in Users |-> "none"]
    /\ call = [u \in Users |-> "none"]
    /\ opened = {}
    /\ threads = 0
    /\ buffers = 0
    /\ astray = FALSE

\* insmod: the entry is made, or the module is not loaded.
Insmod ==
    /\ phase = "out"
    /\ ~astray
    /\ \/ phase' = "in" /\ entry' = TRUE
       \/ UNCHANGED <<phase, entry>>
    /\ UNCHANGED <<module, file, call, opened, threads, buffers, astray>>

\* A user enters a function of the module: only through the entry.
Enter(u, function) ==
    /\ entry
    /\ call[u] = "none"
    /\ call' = [call EXCEPT ![u] = function]
    /\ UNCHANGED <<module, phase, entry, file, opened, threads, buffers, astray>>

EnterOpen(u)  == file[u] = "none" /\ Enter(u, "open")
EnterShow(u)  == file[u] = "open" /\ Enter(u, "show")
EnterWrite(u) == module \in Writable /\ file[u] = "open" /\ Enter(u, "write")

\* The code of a call has run, of a module that is there or is not.
Return(u, function) ==
    /\ call[u] = function
    /\ call' = [call EXCEPT ![u] = "none"]
    /\ astray' = (astray \/ phase = "out")
    /\ UNCHANGED <<module, phase, entry>>

\* proc_open: single_open allocates, or fails.
ReturnOpen(u) ==
    /\ Return(u, "open")
    /\ \/ /\ file' = [file EXCEPT ![u] = "open"]
          /\ opened' = opened \cup {u}
       \/ UNCHANGED <<file, opened>>
    /\ UNCHANGED <<threads, buffers>>

\* show: a thread is created and woken, or is not.
ReturnShow(u) ==
    /\ Return(u, "show")
    /\ \/ /\ module = "multi_thread"
          /\ threads < MaxThreads
          /\ threads' = threads + 1
       \/ UNCHANGED threads
    /\ UNCHANGED <<file, opened, buffers>>

\* proc_write: kmalloc gives memory, or does not; it is not kept.
ReturnWrite(u) ==
    /\ Return(u, "write")
    /\ \/ buffers < MaxBuffers /\ buffers' = buffers + 1
       \/ UNCHANGED buffers
    /\ UNCHANGED <<file, opened, threads>>

\* close: single_release, unless the removal has released the file.
Close(u) ==
    /\ file[u] = "open"
    /\ call[u] = "none"
    /\ file' = [file EXCEPT ![u] = "none"]
    /\ opened' = opened \ {u}
    /\ UNCHANGED <<module, phase, entry, call, threads, buffers, astray>>

\* Mutant: the exit function leaves the entry there.
RmmodKeepsEntry ==
    /\ phase = "in"
    /\ phase' = "out"
    /\ UNCHANGED <<module, entry, file, call, opened, threads, buffers, astray>>

\* rmmod calls the exit function, which removes the entry.
Rmmod ==
    /\ phase = "in"
    /\ phase' = "removing"
    /\ entry' = FALSE
    /\ UNCHANGED <<module, file, call, opened, threads, buffers, astray>>

\* remove_proc_entry returns, and the module is gone.  No thread was told to
\* stop, and no buffer is freed.
Removed ==
    /\ phase = "removing"
    /\ \A u \in Users : call[u] = "none"
    /\ phase' = "out"
    /\ opened' = {}
    /\ file' = [u \in Users |-> IF file[u] = "open" THEN "stale" ELSE file[u]]
    /\ UNCHANGED <<module, entry, call, threads, buffers, astray>>

\* A file whose entry is gone: calls fail in the kernel, and it is closed.
CloseStale(u) ==
    /\ file[u] = "stale"
    /\ file' = [file EXCEPT ![u] = "none"]
    /\ UNCHANGED <<module, phase, entry, call, opened, threads, buffers, astray>>

\* thread_func wakes up after its five seconds, asks whether it should stop,
\* which nobody ever tells it, and sleeps again.
ThreadWakes ==
    /\ threads > 0
    /\ astray' = (astray \/ phase = "out")
    /\ UNCHANGED <<module, phase, entry, file, call, opened, threads, buffers>>

User(u) ==
    \/ EnterOpen(u) \/ EnterShow(u) \/ EnterWrite(u)
    \/ ReturnOpen(u) \/ ReturnShow(u) \/ ReturnWrite(u)
    \/ Close(u) \/ CloseStale(u)

Next ==
    \/ Insmod \/ Rmmod \/ Removed
    \/ \E u \in Users : User(u)
    \/ ThreadWakes

Spec == Init /\ [][Next]_procVars

-------------------------------------------------------------------------------
(* Properties.                                                             *)

\* The types.
TypeOK ==
    /\ module \in Modules
    /\ phase \in {"out", "in", "removing"}
    /\ entry \in BOOLEAN
    /\ file \in [Users -> {"none", "open", "stale"}]
    /\ call \in [Users -> {"none", "open", "show", "write"}]
    /\ opened \subseteq Users
    /\ threads \in 0 .. MaxThreads
    /\ buffers \in 0 .. MaxBuffers
    /\ astray \in BOOLEAN

\* What a module leaves behind when it is removed, at whatever moment of its
\* users: threads of multi_thread_with_spinlock.c and memory of the two with a
\* write function, and nothing else.  Its entry is gone, no user is inside, no
\* file is still to be released, and its code only ever runs again in one of
\* those threads.
LeavesOnlyThreadsAndBuffers ==
    /\ phase = "out" =>
         /\ ~entry
         /\ opened = {}
         /\ \A u \in Users : call[u] = "none" /\ file[u] # "open"
    /\ threads > 0 => module = "multi_thread"
    /\ buffers > 0 => module \in Writable
    /\ astray => threads > 0

\* The inductive invariant behind it: users get in by the entry alone, which is
\* there exactly between insmod and the exit function.
IInv ==
    /\ threads \in Nat /\ buffers \in Nat /\ astray \in BOOLEAN
    /\ file \in [Users -> {"none", "open", "stale"}]
    /\ call \in [Users -> {"none", "open", "show", "write"}]
    /\ entry = (phase = "in")
    /\ \A u \in Users :
         /\ call[u] \in {"show", "write"} => file[u] = "open"
         /\ call[u] = "write" => module \in Writable
    /\ LeavesOnlyThreadsAndBuffers
===============================================================================
