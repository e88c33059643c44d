--------------------------- MODULE DirectRendering --------------------------
(***************************************************************************)
(* Direct rendering: clients that draw into their windows without the X    *)
(* server, and the server that moves the windows (GL/dri/dri.c of the      *)
(* server, lib/GL/mesa/dri/dri_mesa.c and the tdfx driver of the client).  *)
(* They share the SAREA: the hardware lock (HwLock, which DrmLock          *)
(* implements), the spin lock drawable_lock, and a table with a stamp for  *)
(* each window.  A client draws with its own copy of the clip rectangles;  *)
(* the stamp tells it that the copy has to be fetched again.               *)
(*                                                                         *)
(* A geometry is the number of the change that made it.  A test and the    *)
(* compare and swap that follows it are two steps where anybody else can   *)
(* come between; a lock is tried and waited for in one step, since a       *)
(* process that waits does nothing else.                                   *)
(***************************************************************************)
EXTENDS HwLock, Integers, FiniteSets

CONSTANTS
    Server,      \* the X server's process and context
    Windows,     \* windows with a DRI drawable
    Entries,     \* maxDrawableTableEntry
    MaxChanges,  \* bound: calls of ValidateTree in one behaviour
    Rebinds,     \* may a client make another window current?
    Patient      \* is a spin lock given up on only when its owner is dead?

Clients == Procs \ {Server}

ASSUME RenderingAssumption ==
    /\ Server \in Procs
    /\ Entries \in Nat \ {0} /\ MaxChanges \in Nat
    /\ None \notin Windows
    /\ Rebinds \in BOOLEAN /\ Patient \in BOOLEAN

VARIABLES
    spin,          \* drawable_lock: is it 1?
    spinner,       \* history: the process that set it to 1 last, or None
    lockRefCount,  \* how often the server has locked the hardware
    vtSema,        \* does the server have the console?
    spc,           \* where the server stands
    geometry,      \* the server's geometry of each window
    index,         \* drawableIndex, -1 without an entry
    table,         \* DRIDrawables
    stamp,         \* drawableTable[].stamp; -1 stands for the bytes before it
    nextStamp,     \* DRIDrawableValidationStamp
    changes,       \* bound: calls of ValidateTree so far
    pc,            \* where each client stands
    bound,         \* the window current in each client, or None
    pStamp,        \* the entry that pStamp of the client's drawable points to
    lastStamp,     \* lastStamp of the client's drawable
    seen,          \* the geometry of the client's copy
    binding        \* was driMesaUpdateDrawableInfo called to make it current?

sareaVars == <<spin, spinner, stamp>>
serverVars == <<lockRefCount, vtSema, spc, geometry, index, table, nextStamp,
                changes>>
clientVars == <<pc, bound, pStamp, lastStamp, seen, binding>>
vars == <<lockVars, sareaVars, serverVars, clientVars>>

-----------------------------------------------------------------------------
Slots == 0 .. Entries - 1
NoEntry == -1
NoInfo == -2          \* pStamp is NULL

ServerPlaces == {"running", "select", "spinning", "relocking", "validating",
                 "posting", "spinunlock"}
\* A client waits for the hardware lock at "ready" and "relock", for the spin
\* lock at "spinlock" and "spinback"; at "letting" and "leaving" it is between
\* the test and the compare and swap of DRM_SPINUNLOCK.
ClientPlaces == {"unbound", "ready", "check", "drawing", "spinlock", "recheck",
                 "letgo", "letting", "asking", "spinback", "leave", "leaving",
                 "relock", "dead"}

Init ==
    /\ LockInit
    /\ spin = FALSE /\ spinner = None
    /\ lockRefCount = -1 /\ vtSema = TRUE /\ spc = "running"
    /\ geometry = [w \in Windows |-> 0]
    /\ index = [w \in Windows |-> NoEntry]
    /\ table = [i \in Slots |-> None]
    /\ stamp = [i \in Slots \cup {NoEntry} |-> 0]
    /\ nextStamp = 0 /\ changes = 0
    /\ pc = [c \in Clients |-> "unbound"]
    /\ bound = [c \in Clients |-> None]
    /\ pStamp = [c \in Clients |-> [w \in Windows |-> NoInfo]]
    /\ lastStamp = [c \in Clients |-> [w \in Windows |-> 0]]
    /\ seen = [c \in Clients |-> [w \in Windows |-> 0]]
    /\ binding = [c \in Clients |-> FALSE]

-----------------------------------------------------------------------------
(***************************************************************************)
(* The locks.                                                              *)
(***************************************************************************)

\* DRM_LOCK: the compare and swap succeeds exactly if p was the last holder.
Lock(p) == TakeLight(p) \/ (last # p /\ TakeHeavy(p))

DRILock ==
    /\ IF lockRefCount = 0 THEN Lock(Server) ELSE UNCHANGED lockVars
    /\ lockRefCount' = lockRefCount + 1

DRIUnlock_NoCount == lockRefCount' = 0 /\ IF holder = Server THEN GiveUp(Server)
                                          ELSE UNCHANGED lockVars
DRIUnlock ==
    CASE lockRefCount > 1 -> /\ lockRefCount' = lockRefCount - 1
                             /\ UNCHANGED lockVars
      [] lockRefCount = 1 -> lockRefCount' = 0 /\ GiveUp(Server)
      [] OTHER            -> lockRefCount' = 0 /\ UNCHANGED lockVars

SpinLock(p) == ~spin /\ spin' = TRUE /\ spinner' = p

\* The compare and swap of DRM_SPINUNLOCK, repeated until it succeeds.
SpinFree == spin /\ spin' = FALSE /\ spinner' = None

-----------------------------------------------------------------------------
(***************************************************************************)
(* The server.  It serves requests with the hardware locked, from the      *)
(* wakeup handler to the next block handler.                               *)
(***************************************************************************)
DRIDoBlockHandler ==
    /\ spc = "running" /\ spc' = "select" /\ DRIUnlock
    /\ UNCHANGED <<sareaVars, vtSema, geometry, index, table, nextStamp,
                   changes, clientVars>>

DRIDoWakeupHandler ==
    /\ spc = "select" /\ spc' = "running" /\ DRILock
    /\ UNCHANGED <<sareaVars, vtSema, geometry, index, table, nextStamp,
                   changes, clientVars>>

\* xf86VTSwitch, called by a wakeup handler that runs after the DRI's.
LeaveVT_NoLock ==
    /\ spc = "running" /\ vtSema /\ vtSema' = FALSE
    /\ UNCHANGED <<lockVars, lockRefCount, sareaVars, spc, geometry, index,
                   table, nextStamp, changes, clientVars>>
LeaveVT ==
    /\ spc = "running" /\ lockRefCount > 0 /\ vtSema /\ vtSema' = FALSE
    /\ DRILock
    /\ UNCHANGED <<sareaVars, spc, geometry, index, table, nextStamp, changes,
                   clientVars>>

EnterVT ==
    /\ spc = "running" /\ lockRefCount > 0 /\ ~vtSema /\ vtSema' = TRUE
    /\ DRIUnlock
    /\ UNCHANGED <<sareaVars, spc, geometry, index, table, nextStamp, changes,
                   clientVars>>

(***************************************************************************)
(* DRIValidateTree lets go of the hardware to get the spin lock, gets the  *)
(* hardware again, and has the lower layers compute the new clip lists,    *)
(* which calls DRIClipNotify for each window; DRIPostValidateTree frees    *)
(* the spin lock.                                                          *)
(***************************************************************************)
DRIValidateTree ==
    /\ spc = "running" /\ changes < MaxChanges /\ changes' = changes + 1
    /\ spc' = "spinning" /\ DRIUnlock
    /\ UNCHANGED <<sareaVars, vtSema, geometry, index, table, nextStamp,
                   clientVars>>

\* DRISpinLockTimeout: the lock is free, or the time is over and it is taken.
DRISpinLockTimeout ==
    /\ spc = "spinning" /\ spc' = "relocking"
    /\ \/ SpinLock(Server)
       \/ /\ spin /\ spin' = TRUE /\ spinner' = Server
          /\ Patient => spinner \in Clients /\ pc[spinner] = "dead"
    /\ UNCHANGED <<lockVars, stamp, lockRefCount, vtSema, geometry, index,
                   table, nextStamp, changes, clientVars>>

Relock ==
    /\ spc = "relocking" /\ spc' = "validating" /\ DRILock
    /\ UNCHANGED <<sareaVars, vtSema, geometry, index, table, nextStamp,
                   changes, clientVars>>

\* DRIClipNotify: the entry of the window gets the next stamp.
DRIClipNotify_NoStamp(w) == UNCHANGED <<stamp, nextStamp>>
DRIClipNotify(w) == /\ stamp' = [stamp EXCEPT ![index[w]] = nextStamp]
                    /\ nextStamp' = nextStamp + 1

ValidateTree(w) ==
    /\ spc = "validating" /\ spc' = "posting"
    /\ geometry' = [geometry EXCEPT ![w] = changes]
    /\ DRIClipNotify(w)
    /\ UNCHANGED <<lockVars, spin, spinner, lockRefCount, vtSema, index, table,
                   changes, clientVars>>

\* DRIPostValidateTree: the test of DRM_SPINUNLOCK, then the compare and swap.
DRIPostValidateTree ==
    /\ spc = "posting" /\ spc' = IF spin THEN "spinunlock" ELSE "running"
    /\ UNCHANGED <<lockVars, sareaVars, lockRefCount, vtSema, geometry, index,
                   table, nextStamp, changes, clientVars>>
SpinUnlock ==
    /\ spc = "spinunlock" /\ spc' = "running" /\ SpinFree
    /\ UNCHANGED <<lockVars, stamp, lockRefCount, vtSema, geometry, index,
                   table, nextStamp, changes, clientVars>>

-----------------------------------------------------------------------------
(***************************************************************************)
(* DRIGetDrawableInfo, on behalf of client c.  A window without an entry   *)
(* gets a free one, or the one with the oldest stamp.  In that last case   *)
(* the search leaves i at -1, and it is entry -1 that is claimed and       *)
(* stamped.                                                                *)
(***************************************************************************)
FreeEntries == {i \in Slots : table[i] = None}
FirstFree == CHOOSE i \in FreeEntries : \A j \in FreeEntries : i <= j
OldestEntry == CHOOSE i \in Slots : \A j \in Slots : stamp[i] <= stamp[j]

LoadEntry(w) ==
    /\ index[w] = NoEntry /\ FreeEntries # {}
    /\ index' = [index EXCEPT ![w] = FirstFree]
    /\ table' = [table EXCEPT ![FirstFree] = w]
    /\ stamp' = [stamp EXCEPT ![FirstFree] = nextStamp]
    /\ nextStamp' = nextStamp + 1

EvictEntry(w) ==
    /\ index[w] = NoEntry /\ FreeEntries = {}
    /\ index' = [index EXCEPT ![w] = OldestEntry,
                              ![table[OldestEntry]] = NoEntry]
    /\ stamp' = [stamp EXCEPT ![NoEntry] = nextStamp]
    /\ nextStamp' = nextStamp + 1
    /\ UNCHANGED table

\* The client keeps the stamp, the rectangles and the address of the entry.
DRIGetDrawableInfo(c) ==
    LET w == bound[c]
    IN /\ spc = "running" /\ pc[c] = "asking"
       /\ \/ LoadEntry(w) \/ EvictEntry(w)
          \/ index[w] # NoEntry /\ UNCHANGED <<index, table, stamp, nextStamp>>
       /\ lastStamp' = [lastStamp EXCEPT ![c][w] = stamp'[index'[w]]]
       /\ seen' = [seen EXCEPT ![c][w] = geometry[w]]
       /\ pStamp' = [pStamp EXCEPT ![c][w] = index'[w]]
       /\ pc' = [pc EXCEPT ![c] = "spinback"]
       /\ UNCHANGED <<lockVars, spin, spinner, lockRefCount, vtSema, spc,
                      geometry, changes, bound, binding>>

-----------------------------------------------------------------------------
(***************************************************************************)
(* The client.                                                             *)
(***************************************************************************)
Goto(c, place) == pc' = [pc EXCEPT ![c] = place]
Info == <<bound, pStamp, lastStamp, seen, binding>>
Stale(c) == stamp[pStamp[c][bound[c]]] # lastStamp[c][bound[c]]

\* driMesaBindContext: the window's information is fetched if there is none.
driMesaBindContext(c, w) ==
    /\ \/ pc[c] = "unbound"
       \/ Rebinds /\ pc[c] = "ready"
    /\ bound' = [bound EXCEPT ![c] = w]
    /\ binding' = [binding EXCEPT ![c] = pStamp[c][w] = NoInfo]
    /\ Goto(c, IF pStamp[c][w] = NoInfo THEN "spinlock" ELSE "ready")
    /\ UNCHANGED <<lockVars, sareaVars, serverVars, pStamp, lastStamp, seen>>

\* LOCK_HARDWARE: only a lock taken through the kernel is followed by
\* XMESA_VALIDATE_DRAWABLE_INFO.
LockHardware(c) ==
    /\ pc[c] = "ready"
    /\ \/ TakeLight(c) /\ Goto(c, "drawing")
       \/ last # c /\ TakeHeavy(c) /\ Goto(c, "check")
    /\ UNCHANGED <<sareaVars, serverVars, Info>>

\* The loop test of XMESA_VALIDATE_DRAWABLE_INFO, with the hardware locked.
ValidateDrawableInfo(c) ==
    /\ pc[c] = "check"
    /\ IF Stale(c) THEN GiveUp(c) /\ Goto(c, "spinlock")
                   ELSE Goto(c, "drawing") /\ UNCHANGED lockVars
    /\ UNCHANGED <<sareaVars, serverVars, Info>>

TakeSpin(c) ==
    /\ pc[c] = "spinlock" /\ SpinLock(c) /\ Goto(c, "recheck")
    /\ UNCHANGED <<lockVars, stamp, serverVars, Info>>

\* DRI_MESA_VALIDATE_DRAWABLE_INFO
Recheck(c) ==
    /\ pc[c] = "recheck"
    /\ Goto(c, IF pStamp[c][bound[c]] = NoInfo \/ Stale(c)
               THEN "letgo" ELSE "leave")
    /\ UNCHANGED <<lockVars, sareaVars, serverVars, Info>>

(***************************************************************************)
(* driMesaUpdateDrawableInfo lets go of the spin lock while it asks the    *)
(* server, which may be waiting for it in DRIValidateTree.                 *)
(***************************************************************************)
LetGo_KeepsSpin(c) ==
    /\ pc[c] = "letgo" /\ Goto(c, "asking")
    /\ UNCHANGED <<lockVars, sareaVars, serverVars, Info>>
LetGo(c) ==
    /\ pc[c] = "letgo" /\ Goto(c, IF spin THEN "letting" ELSE "asking")
    /\ UNCHANGED <<lockVars, sareaVars, serverVars, Info>>
LetGoFree(c) ==
    /\ pc[c] = "letting" /\ SpinFree /\ Goto(c, "asking")
    /\ UNCHANGED <<lockVars, stamp, serverVars, Info>>

TakeSpinBack(c) ==
    /\ pc[c] = "spinback" /\ SpinLock(c) /\ Goto(c, "leave")
    /\ UNCHANGED <<lockVars, stamp, serverVars, Info>>

\* DRM_SPINUNLOCK, then DRM_LIGHT_LOCK and the loop test again, or back to the
\* program if it was driMesaBindContext that asked.
AfterSpin(c) ==
    /\ Goto(c, IF binding[c] THEN "ready" ELSE "relock")
    /\ binding' = [binding EXCEPT ![c] = FALSE]
Leave(c) ==
    /\ pc[c] = "leave"
    /\ IF spin THEN Goto(c, "leaving") /\ UNCHANGED binding ELSE AfterSpin(c)
    /\ UNCHANGED <<lockVars, sareaVars, serverVars, bound, pStamp, lastStamp,
                   seen>>
LeaveFree(c) ==
    /\ pc[c] = "leaving" /\ SpinFree /\ AfterSpin(c)
    /\ UNCHANGED <<lockVars, stamp, serverVars, bound, pStamp, lastStamp, seen>>
Relight(c) ==
    /\ pc[c] = "relock" /\ Lock(c) /\ Goto(c, "check")
    /\ UNCHANGED <<sareaVars, serverVars, Info>>

\* UNLOCK_HARDWARE
UnlockHardware(c) ==
    /\ pc[c] = "drawing" /\ GiveUp(c) /\ Goto(c, "ready")
    /\ UNCHANGED <<sareaVars, serverVars, Info>>

\* A client dies (before it has a drawable that is as if it never came).  The
\* kernel frees its hardware lock (drm_release); nobody frees its spin lock.
Die(c) ==
    /\ pc[c] \notin {"unbound", "dead"} /\ Goto(c, "dead")
    /\ IF holder = c THEN holder' = None /\ last' = None
                     ELSE UNCHANGED lockVars
    /\ UNCHANGED <<sareaVars, serverVars, Info>>

-----------------------------------------------------------------------------
ServerNext ==
    \/ DRIDoBlockHandler \/ DRIDoWakeupHandler \/ LeaveVT \/ EnterVT
    \/ DRIValidateTree \/ DRISpinLockTimeout \/ Relock
    \/ (\E w \in Windows : ValidateTree(w))
    \/ DRIPostValidateTree \/ SpinUnlock

ClientNext(c) ==
    \/ (\E w \in Windows : driMesaBindContext(c, w))
    \/ LockHardware(c) \/ ValidateDrawableInfo(c)
    \/ TakeSpin(c) \/ Recheck(c) \/ LetGo(c) \/ LetGoFree(c)
    \/ TakeSpinBack(c) \/ Leave(c) \/ LeaveFree(c) \/ Relight(c)
    \/ UnlockHardware(c) \/ Die(c)

Next == ServerNext \/ (\E c \in Clients : ClientNext(c) \/ DRIGetDrawableInfo(c))

Spec == Init /\ [][Next]_vars

(***************************************************************************)
(* A process that has work runs.  For the hardware lock the server is sure *)
(* of its turn: the kernel module gives every other process a quarter of   *)
(* the usual priority once it has had the lock (tdfx_lock).  Dispatch gets *)
(* to every request in the end (ClientDispatch).  Nobody is sure of the    *)
(* spin lock, nobody has to draw, and the server need not move a window or *)
(* switch consoles.                                                        *)
(***************************************************************************)
ServerWork ==
    \/ DRISpinLockTimeout \/ DRIPostValidateTree \/ SpinUnlock
    \/ \E w \in Windows : ValidateTree(w)

ClientWork(c) ==
    \/ ValidateDrawableInfo(c) \/ UnlockHardware(c)
    \/ TakeSpin(c) \/ Recheck(c) \/ LetGo(c) \/ LetGoFree(c)
    \/ TakeSpinBack(c) \/ Leave(c) \/ LeaveFree(c)

Fairness ==
    /\ WF_vars(ServerWork) /\ SF_vars(Relock \/ DRIDoWakeupHandler)
    /\ \A c \in Clients : WF_vars(ClientWork(c)) /\ SF_vars(DRIGetDrawableInfo(c))

FairSpec == Spec /\ Fairness

-----------------------------------------------------------------------------
TypeOK ==
    /\ holder \in Procs \cup {None} /\ last \in Procs \cup {None}
    /\ spin \in BOOLEAN /\ spinner \in Procs \cup {None}
    /\ lockRefCount \in -1 .. 2 /\ vtSema \in BOOLEAN /\ spc \in ServerPlaces
    /\ geometry \in [Windows -> Nat]
    /\ index \in [Windows -> Slots \cup {NoEntry}]
    /\ table \in [Slots -> Windows \cup {None}]
    /\ stamp \in [Slots \cup {NoEntry} -> Nat] /\ nextStamp \in Nat
    /\ changes \in 0 .. MaxChanges
    /\ pc \in [Clients -> ClientPlaces]
    /\ bound \in [Clients -> Windows \cup {None}]
    /\ pStamp \in [Clients -> [Windows -> Slots \cup {NoEntry, NoInfo}]]
    /\ lastStamp \in [Clients -> [Windows -> Nat]]
    /\ seen \in [Clients -> [Windows -> Nat]]
    /\ binding \in [Clients -> BOOLEAN]

(***************************************************************************)
(* What direct rendering is for: a client that draws does so with the      *)
(* rectangles the window has now, although most of the time it takes the   *)
(* lock without looking at the stamp, and although the server moved the    *)
(* window without telling it.                                              *)
(***************************************************************************)
NoStaleDrawing ==
    \A c \in Clients : pc[c] = "drawing" => seen[c][bound[c]] = geometry[bound[c]]

(***************************************************************************)
(* The reference count that the block and wakeup handlers, ValidateTree    *)
(* and the console switch share tells the truth about the hardware lock,   *)
(* and is never taken below the calls of DRILock; a client touches the     *)
(* hardware only with the lock.                                            *)
(***************************************************************************)
LocksAgree ==
    /\ holder = Server <=> lockRefCount > 0
    /\ spc = "running" => lockRefCount # 0
    /\ spc \in {"validating", "posting", "spinunlock"} => holder = Server
    /\ \A c \in Clients : pc[c] \in {"check", "drawing"} <=> holder = c

(***************************************************************************)
(* No client draws while the console belongs to somebody else, even when   *)
(* the server sleeps in select or moves windows in the meantime.           *)
(***************************************************************************)
AwayKeepsLock == ~vtSema => holder = Server

(***************************************************************************)
(* The server is not locked up by a client in DRIValidateTree: a client    *)
(* that waits for the server has let go of the spin lock, and that of a    *)
(* client that died is taken away.                                         *)
(***************************************************************************)
ServerGoesOn == spc = "spinning" ~> spc = "running"

\* An entry of the table is claimed by the window whose index it is.
EntryClaimed ==
    \A w \in Windows : index[w] # NoEntry => table[index[w]] = w
=============================================================================
