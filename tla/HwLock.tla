------------------------------- MODULE HwLock -------------------------------
(***************************************************************************)
(* What the hardware lock promises the processes that draw (the X server   *)
(* and the direct rendering clients): one holder at a time, and a memory   *)
(* of the last one.  A process that finds itself the last holder gets the  *)
(* lock without a system call and may take it that nobody else drew, or    *)
(* moved a window, in between.                                             *)
(***************************************************************************)
CONSTANTS
    Procs,   \* the processes, each with the hardware context it created
    None     \* nobody: DRM_KERNEL_CONTEXT as a context, 0 as a process id

ASSUME NoneAssumption == None \notin Procs

VARIABLES
    holder,   \* the process that holds the lock, or None
    last      \* the context left in the lock word

lockVars == <<holder, last>>

\* The compare and swap of DRM_LIGHT_LOCK succeeds.
TakeLight(p) == holder = None /\ last = p /\ holder' = p /\ last' = p

\* The lock is taken through the kernel, whoever had it last.
TakeHeavy(p) == holder = None /\ holder' = p /\ last' = p

\* DRM_UNLOCK: a lock somebody waits for goes back through the kernel, which
\* leaves no context in the word.
GiveUp(p) == holder = p /\ holder' = None /\ last' \in {p, None}

LockInit == holder = None /\ last = None

LockNext == \E p \in Procs : TakeLight(p) \/ TakeHeavy(p) \/ GiveUp(p)

LockSpec == LockInit /\ [][LockNext]_lockVars
=============================================================================
