--------------------------- MODULE DrmLockProofs ----------------------------
(***************************************************************************)
(* Theorems about DrmLock, for any set of processes.                       *)
(***************************************************************************)
EXTENDS DrmLock, TLAPS

\* Who runs in the kernel, between two of its steps, has the big kernel lock.
InKernel ==
    \A p \in Procs : pc[p] \in {"took", "failed", "freeing"} <=> bkl = p

\* While the kernel holds the lock for itself, no other step touches the word.
KernelHolds == \A p \in Procs : pc[p] = "freeing" => lock = HeldBy(None)

\* The context in the word, held or not, belongs to the process in pid: this
\* is why the user space path may leave pid alone.
Recorded ==
    lock.ctx # None => pid = lock.ctx \/ pc[lock.ctx] = "took"

IInv == /\ TypeOK /\ InKernel /\ KernelHolds /\ Recorded
        /\ HeldOnce /\ NoLostWakeup

LEMMA InitIInv == Init => IInv
BY ProcsAssumption DEF Init, IInv, TypeOK, InKernel, KernelHolds, Recorded,
   HeldOnce, NoLostWakeup, LeftBy, Word, Places, Holding

\* drm_lock_free by the only process in the kernel, on a word of its context.
LEMMA FreeIInv ==
    ASSUME IInv, NEW p \in Procs, NEW place \in {"out", "dead"},
           NEW context \in Procs \cup {None}, context = lock.ctx, lock.held,
           \/ pc[p] = "freeing" /\ bkl' = None
           \/ pc[p] = "exiting" /\ lock.ctx = p /\ bkl = None /\ bkl' = None,
           drm_lock_free(p, context, place)
    PROVE  IInv'
<1>1. /\ lock' = LeftBy(None) /\ pid' = None /\ bkl' = None
      /\ pc' = [q \in Procs |-> IF q = p THEN place
                                ELSE IF pc[q] = "asleep" THEN "woken"
                                ELSE pc[q]]
  BY DEF drm_lock_free
<1>2. TypeOK'
  BY <1>1, ProcsAssumption DEF IInv, TypeOK, LeftBy, Word, Places
<1>3. \A q \in Procs : q # p => pc[q] \notin Holding \cup {"failed", "freeing"}
  BY ProcsAssumption
  DEF IInv, TypeOK, InKernel, KernelHolds, HeldOnce, Holding, HeldBy
<1>4. \A q \in Procs : pc'[q] \notin Holding \cup {"failed", "freeing", "asleep"}
  BY <1>1, <1>3 DEF IInv, TypeOK, Holding, Places
<1>5. InKernel' /\ KernelHolds' /\ NoLostWakeup' /\ Recorded'
  BY <1>1, <1>4, ProcsAssumption
  DEF InKernel, KernelHolds, NoLostWakeup, Recorded, LeftBy, Holding
<1>6. HeldOnce'
  BY <1>1, <1>4 DEF HeldOnce, LeftBy
<1> QED
  BY <1>2, <1>5, <1>6 DEF IInv

\* Every step preserves the invariant.
LEMMA NextIInv == IInv /\ [Next]_vars => IInv'
<1> SUFFICES ASSUME IInv, [Next]_vars PROVE IInv'
  OBVIOUS
<1> USE ProcsAssumption
<1>1. CASE UNCHANGED vars
  BY <1>1 DEF vars, IInv, TypeOK, InKernel, KernelHolds, Recorded, HeldOnce,
       NoLostWakeup
<1>2. ASSUME NEW p \in Procs, LightLock(p) PROVE IInv'
  BY <1>2 DEF LightLock, Goto, IInv, TypeOK, InKernel, KernelHolds, Recorded,
       HeldOnce, NoLostWakeup, HeldBy, LeftBy, Word, Places, Holding
<1>3. ASSUME NEW p \in Procs, drmGetLock(p) PROVE IInv'
  BY <1>3 DEF drmGetLock, Goto, IInv, TypeOK, InKernel, KernelHolds, Recorded,
       HeldOnce, NoLostWakeup, HeldBy, LeftBy, Word, Places, Holding
<1>4. ASSUME NEW p \in Procs, Try(p) PROVE IInv'
  <2>1. /\ pc[p] \in {"locking", "woken"} /\ bkl = None
        /\ bkl' = p /\ pid' = pid
        /\ \A q \in Procs : pc[q] \notin {"took", "failed", "freeing"}
    BY <1>4 DEF Try, IInv, InKernel
  <2>2. CASE lock.held
    <3>1. /\ lock' = [lock EXCEPT !.cont = TRUE]
          /\ pc' = [pc EXCEPT ![p] = "failed"]
      BY <1>4, <2>2 DEF Try, drm_lock_take, Goto
    <3>2. TypeOK' /\ lock'.held /\ lock'.ctx = lock.ctx /\ lock'.cont
      BY <2>1, <2>2, <3>1 DEF IInv, TypeOK, Word, Places
    <3>3. InKernel' /\ KernelHolds' /\ Recorded' /\ NoLostWakeup'
      BY <2>1, <2>2, <3>1, <3>2 DEF IInv, TypeOK, InKernel, KernelHolds,
           Recorded, NoLostWakeup, Word
    <3>4. HeldOnce'
      BY <2>1, <2>2, <3>1, <3>2 DEF IInv, TypeOK, HeldOnce, Holding
    <3> QED
      BY <3>2, <3>3, <3>4 DEF IInv
  <2>3. CASE ~lock.held
    <3>1. lock' = HeldBy(p) /\ pc' = [pc EXCEPT ![p] = "took"]
      BY <1>4, <2>3 DEF Try, drm_lock_take, Goto
    <3>2. TypeOK' /\ lock'.held /\ lock'.ctx = p
      BY <2>1, <3>1 DEF IInv, TypeOK, Word, Places, HeldBy
    <3>3. InKernel' /\ KernelHolds' /\ Recorded' /\ NoLostWakeup'
      BY <2>1, <2>3, <3>1, <3>2 DEF IInv, TypeOK, InKernel, KernelHolds,
           Recorded, NoLostWakeup
    <3>4. HeldOnce'
      BY <2>1, <2>3, <3>1, <3>2 DEF IInv, TypeOK, HeldOnce, Holding
    <3> QED
      BY <3>2, <3>3, <3>4 DEF IInv
  <2> QED
    BY <2>2, <2>3
<1>5. ASSUME NEW p \in Procs, Got(p) PROVE IInv'
  BY <1>5 DEF Got, Goto, IInv, TypeOK, InKernel, KernelHolds, Recorded,
       HeldOnce, NoLostWakeup, HeldBy, Word, Places, Holding
<1>6. ASSUME NEW p \in Procs, Sleep(p) PROVE IInv'
  BY <1>6 DEF Sleep, Goto, IInv, TypeOK, InKernel, KernelHolds, Recorded,
       HeldOnce, NoLostWakeup, HeldBy, Word, Places, Holding
<1>7. ASSUME NEW p \in Procs, Interrupt(p) PROVE IInv'
  BY <1>7 DEF Interrupt, Goto, IInv, TypeOK, InKernel, KernelHolds, Recorded,
       HeldOnce, NoLostWakeup, HeldBy, Word, Places, Holding
<1>8. ASSUME NEW p \in Procs, LightUnlock(p) PROVE IInv'
  BY <1>8 DEF LightUnlock, Goto, IInv, TypeOK, InKernel, KernelHolds, Recorded,
       HeldOnce, NoLostWakeup, HeldBy, LeftBy, Word, Places, Holding
<1>9. ASSUME NEW p \in Procs, drmUnlock(p) PROVE IInv'
  BY <1>9 DEF drmUnlock, Goto, IInv, TypeOK, InKernel, KernelHolds, Recorded,
       HeldOnce, NoLostWakeup, HeldBy, Word, Places, Holding
<1>10. ASSUME NEW p \in Procs, drm_lock_transfer(p) PROVE IInv'
  BY <1>10 DEF drm_lock_transfer, Goto, IInv, TypeOK, InKernel, KernelHolds,
       Recorded, HeldOnce, NoLostWakeup, HeldBy, Word, Places, Holding
<1>11. ASSUME NEW p \in Procs, Free(p) PROVE IInv'
  <2>1. lock.held /\ lock.ctx = None
    BY <1>11 DEF Free, IInv, KernelHolds, HeldBy
  <2> QED
    BY <1>11, <2>1, FreeIInv DEF Free
<1>12. ASSUME NEW p \in Procs, Die(p) PROVE IInv'
  BY <1>12 DEF Die, UserSpace, Goto, IInv, TypeOK, InKernel, KernelHolds,
       Recorded, HeldOnce, NoLostWakeup, HeldBy, Word, Places, Holding
<1>13. ASSUME NEW p \in Procs, drm_release(p) PROVE IInv'
  <2>1. CASE lock.held /\ pid = p
    <3>1. lock.ctx = p
      BY <1>13, <2>1 DEF drm_release, IInv, TypeOK, InKernel, KernelHolds,
           Recorded, HeldOnce, Word, Holding
    <3> QED
      BY <1>13, <2>1, <3>1, FreeIInv DEF drm_release
  <2>2. CASE ~(lock.held /\ pid = p)
    <3>1. lock.held => lock.ctx # p
      BY <1>13, <2>2 DEF drm_release, IInv, TypeOK, Recorded
    <3> QED
      BY <1>13, <2>2, <3>1 DEF drm_release, Goto, IInv, TypeOK, InKernel,
           KernelHolds, Recorded, HeldOnce, NoLostWakeup, HeldBy, Word, Places,
           Holding
  <2> QED
    BY <2>1, <2>2
<1> QED
  BY <1>1, <1>2, <1>3, <1>4, <1>5, <1>6, <1>7, <1>8, <1>9, <1>10, <1>11,
     <1>12, <1>13 DEF Next

\* The invariant holds in every reachable state.
THEOREM Invariance == Spec => []IInv
BY InitIInv, NextIInv, PTL DEF Spec

\* The word, the process id and the places keep their types; the contention
\* bit is only ever set on a lock that is held.
THEOREM TypeCorrect == Spec => []TypeOK
<1>1. IInv => TypeOK
  BY DEF IInv
<1> QED
  BY <1>1, Invariance, PTL

\* One process at a time relies on the lock, and it is the one in the word.
THEOREM MutualExclusion == Spec => []HeldOnce
<1>1. IInv => HeldOnce
  BY DEF IInv
<1> QED
  BY <1>1, Invariance, PTL

\* drm_release never takes the lock of a living process, and never leaves
\* that of a dead one.
THEOREM OwnerKnown == Spec => []OwnerIsKnown
<1>1. IInv => OwnerIsKnown
  BY ProcsAssumption DEF IInv, OwnerIsKnown, TypeOK, InKernel, Recorded,
     HeldOnce, Word, Holding
<1> QED
  BY <1>1, Invariance, PTL

\* The wake-up of a sleeper is not lost between its test and schedule().
THEOREM SleepersNoticed == Spec => []NoLostWakeup
<1>1. IInv => NoLostWakeup
  BY DEF IInv
<1> QED
  BY <1>1, Invariance, PTL

-----------------------------------------------------------------------------
\* Every step of the word is a step of the abstract lock, or none.
LEMMA StepImplements ==
    IInv /\ [Next]_vars => [Abstract!LockNext]_(Abstract!lockVars)
<1> SUFFICES ASSUME IInv, [Next]_vars
             PROVE  [Abstract!LockNext]_(Abstract!lockVars)
  OBVIOUS
<1> USE ProcsAssumption
        DEF Abstract!LockNext, Abstract!lockVars, Abstract!TakeLight,
            Abstract!TakeHeavy, Abstract!GiveUp
<1>1. CASE UNCHANGED vars
  BY <1>1 DEF vars
<1>2. ASSUME NEW p \in Procs, LightLock(p)
      PROVE  [Abstract!LockNext]_(Abstract!lockVars)
  BY <1>2 DEF LightLock, LeftBy, HeldBy
<1>3. ASSUME NEW p \in Procs, Try(p)
      PROVE  [Abstract!LockNext]_(Abstract!lockVars)
  BY <1>3 DEF Try, drm_lock_take, HeldBy, IInv, TypeOK, Word
<1>4. ASSUME NEW p \in Procs, LightUnlock(p)
      PROVE  [Abstract!LockNext]_(Abstract!lockVars)
  BY <1>4 DEF LightUnlock, LeftBy, HeldBy
<1>5. ASSUME NEW p \in Procs, drm_lock_transfer(p)
      PROVE  [Abstract!LockNext]_(Abstract!lockVars)
  BY <1>5 DEF drm_lock_transfer, HeldBy, IInv, HeldOnce, Holding
<1>6. ASSUME NEW p \in Procs, Free(p)
      PROVE  [Abstract!LockNext]_(Abstract!lockVars)
  BY <1>6 DEF Free, drm_lock_free, LeftBy, HeldBy, IInv, KernelHolds
<1>7. ASSUME NEW p \in Procs, drm_release(p)
      PROVE  [Abstract!LockNext]_(Abstract!lockVars)
  <2>1. CASE lock.held /\ pid = p
    <3>1. lock.ctx = p
      BY <1>7, <2>1 DEF drm_release, IInv, TypeOK, InKernel, KernelHolds,
           Recorded, HeldOnce, Word, Holding
    <3> QED
      BY <1>7, <2>1, <3>1 DEF drm_release, drm_lock_free, LeftBy
  <2>2. CASE ~(lock.held /\ pid = p)
    BY <1>7, <2>2 DEF drm_release
  <2> QED
    BY <2>1, <2>2
<1> QED
  BY <1>1, <1>2, <1>3, <1>4, <1>5, <1>6, <1>7
  DEF Next, drmGetLock, Got, Sleep, Interrupt, drmUnlock, Die

\* The word and the code around it implement the lock that server and clients
\* rely on: one holder, and a last holder that no other process has followed.
THEOREM Implementation == Spec => ImplementsHwLock
<1>1. Init => Abstract!LockInit
  BY DEF Init, Abstract!LockInit, LeftBy
<1> QED
  BY <1>1, StepImplements, Invariance, PTL
  DEF Spec, ImplementsHwLock, Abstract!LockSpec
=============================================================================
