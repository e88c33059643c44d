------------------------------ MODULE DrmLock -------------------------------
(***************************************************************************)
(* The hardware lock of direct rendering: a word in memory shared by the X *)
(* server and the direct rendering clients, changed by compare and swap in *)
(* user space (xf86drm.h) as long as nobody contends for it, and by the    *)
(* LOCK and UNLOCK ioctls of the kernel module (lock.c, tdfx_drv.c) when   *)
(* somebody does; drm_release (fops.c) frees it when its holder dies.      *)
(*                                                                         *)
(* Every access to the word is atomic.  Code of the module runs under the  *)
(* big kernel lock, which Linux takes around ioctl and release and gives   *)
(* up inside schedule(): that part is external, and is the variable bkl.   *)
(* User space code and other processes interleave with the module's steps. *)
(***************************************************************************)
EXTENDS Naturals

CONSTANTS
    Procs,    \* the processes, each with the hardware context it created
    Server,   \* the X server, whose death ends the session
    None      \* DRM_KERNEL_CONTEXT as a context, 0 as a process id

ASSUME ProcsAssumption == Server \in Procs /\ None \notin Procs

VARIABLES
    lock,   \* the lock word: _DRM_LOCK_HELD, _DRM_LOCK_CONT, the context
    pid,    \* dev->lock.pid
    bkl,    \* the process that runs in the kernel under the big kernel lock
    pc      \* where each process stands

vars == <<lock, pid, bkl, pc>>

-----------------------------------------------------------------------------
Word == {w \in [held : BOOLEAN, cont : BOOLEAN, ctx : Procs \cup {None}] :
            w.cont => w.held}
HeldBy(c) == [held |-> TRUE, cont |-> FALSE, ctx |-> c]
LeftBy(c) == [held |-> FALSE, cont |-> FALSE, ctx |-> c]

Places == {"out",        \* in user space, without the lock
           "locking",    \* in drmGetLock, the ioctl not entered
           "took",       \* drm_lock_take returned 1
           "failed",     \* drm_lock_take returned 0
           "asleep",     \* in schedule(), TASK_INTERRUPTIBLE
           "woken",      \* runnable again, still inside schedule()
           "held",       \* in user space, with the lock
           "unlocking",  \* in drmUnlock, the ioctl not entered
           "freeing",    \* between drm_lock_transfer and drm_lock_free
           "exiting",    \* dead, its descriptor not closed yet
           "dead"}
UserSpace == {"out", "locking", "held", "unlocking"}

Goto(p, place) == pc' = [pc EXCEPT ![p] = place]

Init == /\ lock = LeftBy(None) /\ pid = None /\ bkl = None
        /\ pc = [p \in Procs |-> "out"]

-----------------------------------------------------------------------------
\* DRM_LIGHT_LOCK, when the word is as this context left it.
LightLock(p) ==
    /\ pc[p] = "out" /\ lock = LeftBy(p)
    /\ lock' = HeldBy(p) /\ Goto(p, "held")
    /\ UNCHANGED <<pid, bkl>>

\* DRM_LIGHT_LOCK when its compare and swap fails, or DRM_LOCK with flags, as
\* only the server calls it.
drmGetLock(p) ==
    /\ pc[p] = "out"
    /\ lock # LeftBy(p) \/ p = Server
    /\ Goto(p, "locking")
    /\ UNCHANGED <<lock, pid, bkl>>

\* drm_lock_take; its mutants do not set the contention bit, and do not look
\* at the word.
drm_lock_take_NoMark(p) ==
    IF lock.held THEN UNCHANGED lock /\ Goto(p, "failed")
                 ELSE lock' = HeldBy(p) /\ Goto(p, "took")
drm_lock_take_Blind(p) == lock' = HeldBy(p) /\ Goto(p, "took")

drm_lock_take(p) ==
    IF lock.held THEN lock' = [lock EXCEPT !.cont = TRUE] /\ Goto(p, "failed")
                 ELSE lock' = HeldBy(p) /\ Goto(p, "took")

\* The loop of tdfx_lock, up to the test: entered from drmGetLock, or again
\* when schedule() returns.
Try(p) ==
    /\ pc[p] \in {"locking", "woken"} /\ bkl = None
    /\ drm_lock_take(p)
    /\ bkl' = p /\ UNCHANGED pid

\* tdfx_lock after a test that succeeded: it notes who holds the lock.
\* The mutant forgets to.
Got_NoPid(p) == /\ pc[p] = "took" /\ bkl' = None /\ Goto(p, "held")
                /\ UNCHANGED <<lock, pid>>
Got(p) ==
    /\ pc[p] = "took"
    /\ pid' = p /\ bkl' = None /\ Goto(p, "held")
    /\ UNCHANGED lock

\* tdfx_lock after a test that failed: the state of the process is set only
\* now, then schedule() gives up the processor and the big kernel lock.
Sleep(p) ==
    /\ pc[p] = "failed"
    /\ bkl' = None /\ Goto(p, "asleep")
    /\ UNCHANGED <<lock, pid>>

\* A signal ends the wait: the ioctl returns, and drmGetLock enters it again.
Interrupt(p) ==
    /\ pc[p] \in {"asleep", "woken"} /\ bkl = None
    /\ Goto(p, "locking")
    /\ UNCHANGED <<lock, pid, bkl>>

-----------------------------------------------------------------------------
\* DRM_UNLOCK, when nobody set the contention bit.
LightUnlock(p) ==
    /\ pc[p] = "held" /\ lock = HeldBy(p)
    /\ lock' = LeftBy(p) /\ Goto(p, "out")
    /\ UNCHANGED <<pid, bkl>>

\* DRM_UNLOCK when its compare and swap fails.
drmUnlock(p) ==
    /\ pc[p] = "held" /\ lock # HeldBy(p) /\ Goto(p, "unlocking")
    /\ UNCHANGED <<lock, pid, bkl>>

\* tdfx_unlock gives the lock to the kernel's own context first.
drm_lock_transfer(p) ==
    /\ pc[p] = "unlocking" /\ bkl = None
    /\ lock' = HeldBy(None) /\ pid' = None
    /\ bkl' = p /\ Goto(p, "freeing")

\* drm_lock_free(context): the word is cleared whoever holds it, and the
\* sleepers are woken unless another context held it; p goes on to place.
\* Mutant: no wake-up.
drm_lock_free_NoWake(p, context, place) ==
    /\ lock' = LeftBy(None) /\ pid' = None /\ Goto(p, place)
drm_lock_free(p, context, place) ==
    LET wakes == ~lock.held \/ lock.ctx = context
    IN /\ lock' = LeftBy(None) /\ pid' = None
       /\ pc' = [q \in Procs |-> IF q = p THEN place
                                 ELSE IF wakes /\ pc[q] = "asleep" THEN "woken"
                                 ELSE pc[q]]

\* The rest of tdfx_unlock.
Free(p) ==
    /\ pc[p] = "freeing"
    /\ drm_lock_free(p, None, "out")
    /\ bkl' = None

\* A process dies: in user space, or on its way there after a signal.
Die(p) ==
    /\ p # Server /\ pc[p] \in UserSpace
    /\ Goto(p, "exiting")
    /\ UNCHANGED <<lock, pid, bkl>>

\* drm_release, when the descriptor of the dead process is closed.
drm_release_AnyPid(p) ==
    /\ pc[p] = "exiting" /\ bkl = None
    /\ IF lock.held THEN drm_lock_free(p, lock.ctx, "dead")
       ELSE Goto(p, "dead") /\ UNCHANGED <<lock, pid>>
    /\ UNCHANGED bkl
drm_release(p) ==
    /\ pc[p] = "exiting" /\ bkl = None
    /\ IF lock.held /\ pid = p
       THEN drm_lock_free(p, lock.ctx, "dead")
       ELSE Goto(p, "dead") /\ UNCHANGED <<lock, pid>>
    /\ UNCHANGED bkl

-----------------------------------------------------------------------------
Next == \E p \in Procs :
    \/ LightLock(p) \/ drmGetLock(p) \/ Try(p) \/ Got(p) \/ Sleep(p)
    \/ Interrupt(p) \/ LightUnlock(p) \/ drmUnlock(p)
    \/ drm_lock_transfer(p) \/ Free(p) \/ Die(p) \/ drm_release(p)

Spec == Init /\ [][Next]_vars

(***************************************************************************)
(* A process in the kernel runs on; a holder ends its drawing; one that    *)
(* waits for the big kernel lock gets it although others take it in turn.  *)
(* Nobody has to ask for the lock, to die or to be hit by a signal.        *)
(***************************************************************************)
Fairness == \A p \in Procs :
    /\ WF_vars(Got(p) \/ Sleep(p) \/ Free(p))
    /\ WF_vars(LightUnlock(p) \/ drmUnlock(p))
    /\ SF_vars(Try(p) \/ drm_lock_transfer(p) \/ drm_release(p))

FairSpec == Spec /\ Fairness

-----------------------------------------------------------------------------
TypeOK ==
    /\ lock \in Word
    /\ pid \in Procs \cup {None}
    /\ bkl \in Procs \cup {None}
    /\ pc \in [Procs -> Places]

\* Who may rely on the lock: it holds the word, and knows it or will.
Holding == {"took", "held", "unlocking"}

(***************************************************************************)
(* The word names the one process that may draw, and somebody stands       *)
(* behind a word that is held: at worst a process that died with the lock, *)
(* whose descriptor is about to be closed.                                 *)
(***************************************************************************)
HeldOnce ==
    /\ \A p \in Procs : pc[p] \in Holding => lock.held /\ lock.ctx = p
    /\ lock.held => \E p \in Procs :
          \/ lock.ctx = p /\ pc[p] \in Holding \cup {"exiting"}
          \/ lock.ctx = None /\ pc[p] = "freeing"

(***************************************************************************)
(* Whenever drm_release may look, pid names the holder, although the       *)
(* kernel is told only of the locks taken by ioctl: who takes the lock in  *)
(* user space was the last to take it by ioctl.  On the strength of this   *)
(* the lock of a dead process is freed, and never that of a living one.    *)
(***************************************************************************)
OwnerIsKnown == lock.held /\ bkl = None => pid = lock.ctx

(***************************************************************************)
(* Nobody sleeps unless the lock is held and the next unlock will go       *)
(* through the kernel, which wakes the sleepers.                           *)
(***************************************************************************)
NoLostWakeup ==
    \A p \in Procs : pc[p] \in {"failed", "asleep"} =>
        lock.held /\ (lock.cont \/ lock.ctx = None)

\* A process that sleeps for the lock is woken, even if the holder dies.
SleeperWakes == \A p \in Procs : pc[p] = "asleep" ~> pc[p] # "asleep"

\* The abstract lock: its holder and its memory are read off the word.
Abstract == INSTANCE HwLock WITH
    holder <- IF lock.held THEN lock.ctx ELSE None, last <- lock.ctx

\* The word behaves as the lock that server and clients rely on.
ImplementsHwLock == Abstract!LockSpec
=============================================================================
