----------------------- MODULE DirectRenderingProofs ------------------------
(***************************************************************************)
(* Theorems about DirectRendering, for any set of clients and windows.     *)
(***************************************************************************)
EXTENDS DirectRendering, TLAPS, FiniteSetTheorems, WellFoundedInduction

\* The holder's context is in the word.
Remembered == holder # None => last = holder

\* The places where the server has locked the hardware for itself.
ServerHolds == {"running", "validating", "posting", "spinunlock"}

\* The server locks once for itself and once for a console that is away; only
\* before it first waits does it run without the lock.
Counted ==
    \/ lockRefCount = (IF spc \in ServerHolds THEN 1 ELSE 0)
                      + (IF vtSema THEN 0 ELSE 1)
    \/ lockRefCount = -1 /\ spc = "running" /\ vtSema

\* The locks.
LockInv == Remembered /\ Counted /\ LocksAgree

LockTypeOK == /\ holder \in Procs \cup {None} /\ last \in Procs \cup {None}
              /\ lockRefCount \in -1 .. 2 /\ vtSema \in BOOLEAN
              /\ spc \in ServerPlaces /\ pc \in [Clients -> ClientPlaces]

\* Each entry of the table is claimed by at most one window, and its stamp is an
\* old one.
Entered ==
    /\ EntryClaimed
    /\ \A i \in Slots : table[i] # None => index[table[i]] = i
    /\ \A w \in Windows : index[w] # NoEntry => stamp[index[w]] < nextStamp

\* A client that is drawing or may take the lock knows its window's entry; one
\* that has not fetched it yet has not had the lock.
Bound(c) ==
    /\ pc[c] # "unbound" => bound[c] \in Windows
    /\ pc[c] = "unbound" \/ binding[c] => last # c
    /\ pc[c] \in {"ready", "check", "drawing", "relock"} => ~binding[c]
    /\ pc[c] \in {"ready", "check", "drawing", "spinback", "leave", "leaving",
                  "relock"} => pStamp[c][bound[c]] # NoInfo

\* A copy whose stamp is the table's is right.
Copied(c) ==
    \A w \in Windows : pStamp[c][w] # NoInfo =>
        /\ pStamp[c][w] \in Slots /\ index[w] = pStamp[c][w]
        /\ lastStamp[c][w] < nextStamp
        /\ stamp[index[w]] = lastStamp[c][w] => seen[c][w] = geometry[w]

\* A client that had the lock last has the right copy: this is why it need not
\* look at the stamp.
Current(c) ==
    last = c /\ pc[c] \in {"ready", "drawing"} =>
        seen[c][bound[c]] = geometry[bound[c]]

CopyInv == Entered /\ \A c \in Clients : Bound(c) /\ Copied(c) /\ Current(c)

\* No window has to be given the entry of another.
Room == IsFiniteSet(Windows) /\ Cardinality(Windows) <= Entries


-----------------------------------------------------------------------------
(***************************************************************************)
(* The locks.                                                              *)
(***************************************************************************)

\* The server is a process, and no client.
LEMMA ServerNotNone ==
    /\ Server \in Procs /\ None \notin Procs
    /\ Clients \subseteq Procs /\ Server \notin Clients
BY RenderingAssumption, NoneAssumption DEF Clients

\* What DRILock does, from the invariant.
LEMMA DRILockTakes ==
    ASSUME LockTypeOK, LockInv, DRILock
    PROVE  /\ lockRefCount' = lockRefCount + 1
           /\ lockRefCount = 0 =>
                holder = None /\ holder' = Server /\ last' = Server
           /\ lockRefCount # 0 => holder' = holder /\ last' = last
BY DEF DRILock, Lock, TakeLight, TakeHeavy, lockVars

\* What DRIUnlock does, from the invariant.
LEMMA DRIUnlockGives ==
    ASSUME LockTypeOK, LockInv, DRIUnlock
    PROVE  /\ lockRefCount > 1 => /\ lockRefCount' = lockRefCount - 1
                                  /\ holder' = holder /\ last' = last
           /\ lockRefCount = 1 => /\ lockRefCount' = 0 /\ holder = Server
                                  /\ holder' = None /\ last' \in {Server, None}
           /\ lockRefCount < 1 => /\ lockRefCount' = 0
                                  /\ holder' = holder /\ last' = last
<1>1. lockRefCount \in {-1, 0, 1, 2}
  BY DEF LockTypeOK
<1> QED
  BY <1>1 DEF DRIUnlock, GiveUp, lockVars

LEMMA InitLocks == Init => LockTypeOK /\ LockInv
BY ServerNotNone DEF Init, LockInit, LockTypeOK, LockInv, Remembered, Counted,
   LocksAgree, ServerPlaces, ClientPlaces, ServerHolds

\* The server's steps that lock or unlock the hardware.
LEMMA ServerLocks ==
    ASSUME LockTypeOK, LockInv, pc' = pc,
           \/ DRIDoBlockHandler \/ DRIDoWakeupHandler \/ LeaveVT \/ EnterVT
           \/ DRIValidateTree \/ Relock
    PROVE  LockTypeOK' /\ LockInv'
<1> USE ServerNotNone
<1> USE DEF LockTypeOK, LockInv, Remembered, Counted, LocksAgree, ServerPlaces,
        ServerHolds
<1>1. CASE DRIDoBlockHandler
  BY <1>1, DRIUnlockGives DEF DRIDoBlockHandler
<1>2. CASE DRIDoWakeupHandler
  BY <1>2, DRILockTakes DEF DRIDoWakeupHandler
<1>3. CASE LeaveVT
  <2>1. /\ lockRefCount = 1 /\ lockRefCount' = 2 /\ vtSema' = FALSE
        /\ spc = "running" /\ holder = Server /\ UNCHANGED <<lockVars, spc>>
    BY <1>3, DRILockTakes DEF LeaveVT, lockVars
  <2>2. Counted'
    BY <2>1
  <2>3. vtSema' \in BOOLEAN
    BY <2>1, Zenon
  <2>4. LockTypeOK' /\ Remembered'
    BY <2>1, <2>3 DEF lockVars
  <2>5. LocksAgree'
    BY <2>1 DEF lockVars
  <2> QED
    BY <2>2, <2>4, <2>5
<1>4. CASE EnterVT
  BY <1>4, DRIUnlockGives DEF EnterVT
<1>5. CASE DRIValidateTree
  BY <1>5, DRIUnlockGives DEF DRIValidateTree
<1>6. CASE Relock
  BY <1>6, DRILockTakes DEF Relock
<1> QED
  BY <1>1, <1>2, <1>3, <1>4, <1>5, <1>6

\* The server's steps that leave the hardware lock alone.
LEMMA ServerKeepsLocks ==
    ASSUME LockTypeOK, LockInv, UNCHANGED <<lockVars, lockRefCount, vtSema>>,
           pc' = pc,
           \/ spc = "spinning" /\ spc' = "relocking"
           \/ spc = "validating" /\ spc' = "posting"
           \/ spc = "posting" /\ spc' \in {"spinunlock", "running"}
           \/ spc = "spinunlock" /\ spc' = "running"
    PROVE  LockTypeOK' /\ LockInv'
BY ServerNotNone DEF LockTypeOK, LockInv, Remembered, Counted, LocksAgree,
   ServerPlaces, ServerHolds, lockVars

\* A client takes the lock, gives it up, or does neither.
LEMMA ClientLocks ==
    ASSUME LockTypeOK, LockInv, NEW c \in Clients, NEW place \in ClientPlaces,
           Goto(c, place), UNCHANGED <<lockRefCount, vtSema, spc>>,
           \/ Lock(c) /\ place \in {"check", "drawing"}
           \/ /\ holder' = None /\ holder = c /\ last' \in {c, None}
              /\ place \notin {"check", "drawing"}
           \/ /\ UNCHANGED lockVars
              /\ place \in {"check", "drawing"} <=> pc[c] \in {"check", "drawing"}
    PROVE  LockTypeOK' /\ LockInv'
BY ServerNotNone DEF Clients, LockTypeOK, LockInv, Remembered, Counted, LocksAgree,
   ServerPlaces, ServerHolds, lockVars, Goto, Lock, TakeLight, TakeHeavy

LEMMA NextLocks ==
    ASSUME LockTypeOK, LockInv, [Next]_vars
    PROVE  LockTypeOK' /\ LockInv'
<1> USE ServerNotNone
<1>1. CASE UNCHANGED vars
  BY <1>1 DEF vars, serverVars, clientVars, lockVars, LockTypeOK, LockInv,
     Remembered, Counted, LocksAgree
<1>2. CASE ServerNext
  <2>1. pc' = pc
    BY <1>2 DEF ServerNext, DRIDoBlockHandler, DRIDoWakeupHandler, LeaveVT, EnterVT,
       DRIValidateTree, DRISpinLockTimeout, Relock, ValidateTree,
       DRIPostValidateTree, SpinUnlock, clientVars
  <2>2. CASE \/ DRIDoBlockHandler \/ DRIDoWakeupHandler \/ LeaveVT \/ EnterVT
             \/ DRIValidateTree \/ Relock
    BY <2>1, <2>2, ServerLocks
  <2>3. CASE \/ DRISpinLockTimeout \/ DRIPostValidateTree \/ SpinUnlock
             \/ \E w \in Windows : ValidateTree(w)
    BY <2>1, <2>3, ServerKeepsLocks
    DEF DRISpinLockTimeout, ValidateTree, DRIPostValidateTree, SpinUnlock, serverVars
  <2> QED
    BY <1>2, <2>2, <2>3 DEF ServerNext
<1>3. ASSUME NEW c \in Clients, ClientNext(c) \/ DRIGetDrawableInfo(c)
      PROVE  LockTypeOK' /\ LockInv'
  <2>1. CASE DRIGetDrawableInfo(c)
    BY <1>3, <2>1, ClientLocks DEF DRIGetDrawableInfo, Goto, ClientPlaces
  <2>2. CASE \E w \in Windows : driMesaBindContext(c, w)
    <3>1. PICK w \in Windows : driMesaBindContext(c, w)
      BY <2>2
    <3>2. pc[c] \notin {"check", "drawing"} /\ UNCHANGED <<lockVars, serverVars>>
      BY <3>1 DEF driMesaBindContext
    <3>3. Goto(c, "spinlock") \/ Goto(c, "ready")
      BY <3>1 DEF driMesaBindContext
    <3> QED
      BY <3>2, <3>3, ClientLocks DEF serverVars, ClientPlaces
  <2>3. CASE LockHardware(c)
    BY <2>3, ClientLocks DEF LockHardware, Lock, serverVars, ClientPlaces
  <2>4. CASE ValidateDrawableInfo(c)
    BY <2>4, ClientLocks DEF ValidateDrawableInfo, GiveUp, serverVars, ClientPlaces
  <2>5. CASE TakeSpin(c) \/ Recheck(c) \/ LetGo(c) \/ LetGoFree(c) \/ TakeSpinBack(c)
             \/ Leave(c) \/ LeaveFree(c)
    <3>1. /\ pc[c] \notin {"check", "drawing"} /\ UNCHANGED <<lockVars, serverVars>>
          /\ \E place \in ClientPlaces \ {"check", "drawing"} : Goto(c, place)
      BY <2>5 DEF TakeSpin, Recheck, LetGo, LetGoFree, TakeSpinBack, Leave, LeaveFree,
         AfterSpin, ClientPlaces
    <3> QED
      BY <3>1, ClientLocks DEF serverVars
  <2>6. CASE Relight(c)
    BY <2>6, ClientLocks DEF Relight, serverVars, ClientPlaces
  <2>7. CASE UnlockHardware(c)
    BY <2>7, ClientLocks DEF UnlockHardware, GiveUp, serverVars, ClientPlaces
  <2>8. CASE Die(c)
    BY <2>8, ClientLocks DEF Die, LocksAgree, LockInv, serverVars, lockVars, ClientPlaces
  <2> QED
    BY <1>3, <2>1, <2>2, <2>3, <2>4, <2>5, <2>6, <2>7, <2>8 DEF ClientNext
<1> QED
  BY <1>1, <1>2, <1>3 DEF Next

(***************************************************************************)
(* The count of the server's locks tells the truth, whatever clients do.   *)
(***************************************************************************)
THEOREM CountTellsTruth == Spec => []LocksAgree
<1>1. Init => LockTypeOK /\ LockInv
  BY InitLocks
<1>2. LockTypeOK /\ LockInv /\ [Next]_vars => (LockTypeOK /\ LockInv)'
  BY NextLocks
<1>3. LockTypeOK /\ LockInv => LocksAgree
  BY DEF LockInv
<1> QED
  BY <1>1, <1>2, <1>3, PTL DEF Spec

(***************************************************************************)
(* Nobody draws on a console that is away: the server has the lock.        *)
(***************************************************************************)
THEOREM AwayLocked == Spec => []AwayKeepsLock
<1>1. Init => LockTypeOK /\ LockInv
  BY InitLocks
<1>2. LockTypeOK /\ LockInv /\ [Next]_vars => (LockTypeOK /\ LockInv)'
  BY NextLocks
<1>3. LockTypeOK /\ LockInv => AwayKeepsLock
  BY DEF LockTypeOK, LockInv, Counted, LocksAgree, AwayKeepsLock
<1> QED
  BY <1>1, <1>2, <1>3, PTL DEF Spec

-----------------------------------------------------------------------------
(***************************************************************************)
(* The table of drawables, and type correctness.                           *)
(***************************************************************************)

\* A set of numbers has a least one.
LEMMA LeastNat ==
    ASSUME NEW T, T \subseteq Nat, T # {}
    PROVE  \E x \in T : \A y \in T : x <= y
<1>1. PICK R : IsWellFoundedOn(R, Nat) /\ \A x, y \in Nat : y < x => <<y, x>> \in R
  <2> DEFINE R == OpToRel(<, Nat)
  <2>1. IsWellFoundedOn(R, Nat)
    BY NatLessThanWellFounded
  <2>2. \A x, y \in Nat : y < x => <<y, x>> \in R
    BY DEF OpToRel
  <2> HIDE DEF R
  <2> QED
    BY <2>1, <2>2
<1>2. PICK x \in T : \A y \in T : <<y, x>> \notin R
  BY <1>1, WFMin, Zenon
<1>3. \A y \in T : ~(y < x)
  BY <1>1, <1>2
<1> QED
  BY <1>2, <1>3

\* A free entry is found when there is one.
LEMMA FirstFreeFinds ==
    ASSUME FreeEntries # {}
    PROVE  FirstFree \in Slots /\ table[FirstFree] = None
<1>1. FreeEntries \subseteq Nat
  BY RenderingAssumption DEF FreeEntries, Slots
<1>2. PICK i \in FreeEntries : \A j \in FreeEntries : i <= j
  BY <1>1, LeastNat
<1>3. FirstFree \in FreeEntries
  BY <1>2 DEF FirstFree
<1> QED
  BY <1>3 DEF FreeEntries

\* There is always an oldest entry.
LEMMA OldestEntryFinds ==
    ASSUME stamp \in [Slots \cup {NoEntry} -> Nat]
    PROVE  OldestEntry \in Slots
<1> DEFINE T == {stamp[i] : i \in Slots}
<1>1. 0 \in Slots
  BY RenderingAssumption DEF Slots
<1>2. T \subseteq Nat /\ T # {}
  BY <1>1
<1>3. PICK s \in T : \A r \in T : s <= r
  BY <1>2, LeastNat
<1>4. PICK i \in Slots : s = stamp[i]
  BY <1>3
<1>5. \E j \in Slots : \A k \in Slots : stamp[j] <= stamp[k]
  BY <1>3, <1>4
<1> QED
  BY <1>5 DEF OldestEntry

\* The part of TypeOK that does not concern the hardware lock.
DataTypeOK ==
    /\ spin \in BOOLEAN /\ spinner \in Procs \cup {None}
    /\ geometry \in [Windows -> Nat]
    /\ index \in [Windows -> Slots \cup {NoEntry}]
    /\ table \in [Slots -> Windows \cup {None}]
    /\ stamp \in [Slots \cup {NoEntry} -> Nat] /\ nextStamp \in Nat
    /\ changes \in 0 .. MaxChanges
    /\ bound \in [Clients -> Windows \cup {None}]
    /\ pStamp \in [Clients -> [Windows -> Slots \cup {NoEntry, NoInfo}]]
    /\ lastStamp \in [Clients -> [Windows -> Nat]]
    /\ seen \in [Clients -> [Windows -> Nat]]
    /\ binding \in [Clients -> BOOLEAN]

\* The types of the locks and of the data are all the types.
LEMMA SplitType == TypeOK <=> LockTypeOK /\ DataTypeOK
BY DEF TypeOK, LockTypeOK, DataTypeOK

LEMMA InitData == Init => DataTypeOK
<1> SUFFICES ASSUME Init PROVE DataTypeOK
  OBVIOUS
<1>1. /\ pStamp \in [Clients -> [Windows -> Slots \cup {NoEntry, NoInfo}]]
      /\ lastStamp \in [Clients -> [Windows -> Nat]]
      /\ seen \in [Clients -> [Windows -> Nat]]
  BY DEF Init
<1>2. changes \in 0 .. MaxChanges
  BY RenderingAssumption DEF Init
<1> QED
  BY <1>1, <1>2 DEF Init, DataTypeOK

\* A client that has asked for something has a window.
HasWindow == \A c \in Clients : pc[c] # "unbound" => bound[c] \in Windows

LEMMA InitHasWindow == Init => HasWindow
BY DEF Init, HasWindow

\* The data keep their types, and a client that has asked has a window, whatever
\* the server does
LEMMA ServerData ==
    ASSUME DataTypeOK, HasWindow, ServerNext
    PROVE  DataTypeOK' /\ HasWindow'
<1> USE ServerNotNone
<1>1. CASE \/ DRIDoBlockHandler \/ DRIDoWakeupHandler \/ LeaveVT \/ EnterVT
           \/ DRIPostValidateTree \/ Relock
  BY <1>1 DEF DRIDoBlockHandler, DRIDoWakeupHandler, LeaveVT, EnterVT,
     DRIPostValidateTree, Relock, sareaVars, clientVars, DataTypeOK, HasWindow
<1>2. CASE DRIValidateTree
  BY <1>2, RenderingAssumption
  DEF DRIValidateTree, sareaVars, clientVars, DataTypeOK, HasWindow
<1>3. CASE DRISpinLockTimeout \/ SpinUnlock
  BY <1>3 DEF DRISpinLockTimeout, SpinUnlock, SpinLock, SpinFree, clientVars,
     DataTypeOK, HasWindow
<1>4. ASSUME NEW w \in Windows, ValidateTree(w) PROVE DataTypeOK' /\ HasWindow'
  <2>1. /\ geometry' = [geometry EXCEPT ![w] = changes] /\ changes \in Nat
        /\ stamp' = [stamp EXCEPT ![index[w]] = nextStamp] /\ nextStamp' = nextStamp + 1
    BY <1>4 DEF ValidateTree, DRIClipNotify, DataTypeOK
  <2>2. /\ geometry' \in [Windows -> Nat] /\ nextStamp' \in Nat
        /\ stamp' \in [Slots \cup {NoEntry} -> Nat]
    BY <2>1 DEF DataTypeOK
  <2> QED
    BY <1>4, <2>2 DEF ValidateTree, clientVars, DataTypeOK, HasWindow
<1> QED
  BY <1>1, <1>2, <1>3, <1>4 DEF ServerNext

\* What the server answers, and what becomes of the table.
LEMMA AskData ==
    ASSUME LockTypeOK, DataTypeOK, HasWindow, NEW c \in Clients, DRIGetDrawableInfo(c)
    PROVE  DataTypeOK' /\ HasWindow'
<1> DEFINE w == bound[c]
<1>1. w \in Windows /\ pc[c] = "asking"
  BY DEF DRIGetDrawableInfo, HasWindow
<1>2. /\ index' \in [Windows -> Slots \cup {NoEntry}]
      /\ table' \in [Slots -> Windows \cup {None}]
      /\ stamp' \in [Slots \cup {NoEntry} -> Nat] /\ nextStamp' \in Nat
  <2>1. CASE LoadEntry(w)
    BY <1>1, <2>1, FirstFreeFinds DEF LoadEntry, DataTypeOK
  <2>2. CASE EvictEntry(w)
    <3>1. OldestEntry \in Slots
      BY OldestEntryFinds DEF DataTypeOK
    <3>2. /\ index' = [index EXCEPT ![w] = OldestEntry,
                                    ![table[OldestEntry]] = NoEntry]
          /\ stamp' = [stamp EXCEPT ![NoEntry] = nextStamp]
          /\ nextStamp' = nextStamp + 1 /\ table' = table
      BY <2>2 DEF EvictEntry
    <3> HIDE DEF w
    <3>3. index' \in [Windows -> Slots \cup {NoEntry}]
      BY <1>1, <3>1, <3>2 DEF DataTypeOK
    <3> QED
      BY <3>2, <3>3 DEF DataTypeOK
  <2>3. CASE UNCHANGED <<index, table, stamp, nextStamp>>
    BY <2>3 DEF DataTypeOK
  <2> QED
    BY <2>1, <2>2, <2>3 DEF DRIGetDrawableInfo
<1>3. /\ lastStamp' = [lastStamp EXCEPT ![c][w] = stamp'[index'[w]]]
      /\ seen' = [seen EXCEPT ![c][w] = geometry[w]]
      /\ pStamp' = [pStamp EXCEPT ![c][w] = index'[w]]
      /\ pc' = [pc EXCEPT ![c] = "spinback"]
      /\ UNCHANGED <<spin, spinner, geometry, changes, bound, binding>>
  BY DEF DRIGetDrawableInfo
<1>4. index'[w] \in Slots \cup {NoEntry} /\ stamp'[index'[w]] \in Nat
      /\ geometry[w] \in Nat
  BY <1>1, <1>2 DEF DataTypeOK
<1> HIDE DEF w
<1>5. /\ lastStamp' \in [Clients -> [Windows -> Nat]]
      /\ seen' \in [Clients -> [Windows -> Nat]]
      /\ pStamp' \in [Clients -> [Windows -> Slots \cup {NoEntry, NoInfo}]]
  BY <1>1, <1>3, <1>4 DEF DataTypeOK
<1>6. DataTypeOK'
  BY <1>2, <1>3, <1>5 DEF DataTypeOK
<1> QED
  BY <1>1, <1>3, <1>6 DEF HasWindow, LockTypeOK

\* and whatever a client does.
LEMMA ClientData ==
    ASSUME LockTypeOK, DataTypeOK, HasWindow, NEW c \in Clients, ClientNext(c)
    PROVE  DataTypeOK' /\ HasWindow'
<1> USE ServerNotNone
<1>1. ASSUME NEW w \in Windows, driMesaBindContext(c, w)
      PROVE  DataTypeOK' /\ HasWindow'
  BY <1>1 DEF driMesaBindContext, Goto, sareaVars, serverVars, LockTypeOK, DataTypeOK, HasWindow
<1>2. CASE LockHardware(c) \/ ValidateDrawableInfo(c) \/ Recheck(c) \/ LetGo(c)
           \/ Relight(c) \/ UnlockHardware(c) \/ Die(c)
  BY <1>2 DEF LockHardware, ValidateDrawableInfo, Recheck, LetGo, Relight,
     UnlockHardware, Die, Info, Goto, sareaVars, serverVars, LockTypeOK, DataTypeOK, HasWindow
<1>3. CASE TakeSpin(c) \/ LetGoFree(c) \/ TakeSpinBack(c)
  BY <1>3 DEF TakeSpin, LetGoFree, TakeSpinBack, SpinLock, SpinFree, Info, Goto,
     serverVars, LockTypeOK, DataTypeOK, HasWindow
<1>4. CASE Leave(c) \/ LeaveFree(c)
  BY <1>4 DEF Leave, LeaveFree, AfterSpin, SpinFree, Info, Goto, sareaVars,
     serverVars, LockTypeOK, DataTypeOK, HasWindow
<1> QED
  BY <1>1, <1>2, <1>3, <1>4 DEF ClientNext

LEMMA NextData ==
    ASSUME LockTypeOK, DataTypeOK, HasWindow, [Next]_vars
    PROVE  DataTypeOK' /\ HasWindow'
<1>1. CASE UNCHANGED vars
  BY <1>1 DEF vars, sareaVars, serverVars, clientVars, DataTypeOK, HasWindow
<1> QED
  BY <1>1, ServerData, AskData, ClientData DEF Next

(***************************************************************************)
(* Type correctness: the reference count stays between the values that     *)
(* block and wakeup handlers, ValidateTree and the console switch give it, *)
(* and the stamps and entries that clients keep are stamps and entries.    *)
(***************************************************************************)
THEOREM TypeCorrect == Spec => []TypeOK
<1> DEFINE I == LockTypeOK /\ LockInv /\ DataTypeOK /\ HasWindow
<1>1. Init => I
  BY InitLocks, InitData, InitHasWindow
<1>2. I /\ [Next]_vars => I'
  BY NextLocks, NextData
<1>3. I => TypeOK
  BY SplitType
<1> QED
  BY <1>1, <1>2, <1>3, PTL DEF Spec

-----------------------------------------------------------------------------
(***************************************************************************)
(* The copies of the clip rectangles.                                      *)
(***************************************************************************)

Typed == LockTypeOK /\ LockInv /\ DataTypeOK /\ HasWindow

LEMMA NextTyped == Typed /\ [Next]_vars => Typed'
BY NextLocks, NextData DEF Typed

\* With an entry for each window, no window has to give up its own.
LEMMA RoomForAll ==
    ASSUME Room, Entered, DataTypeOK, NEW w \in Windows, index[w] = NoEntry
    PROVE  FreeEntries # {}
<1> SUFFICES ASSUME FreeEntries = {} PROVE FALSE
  OBVIOUS
<1>1. ASSUME NEW i \in Slots
      PROVE  table[i] \in Windows \ {w} /\ index[table[i]] = i
  <2>1. table[i] # None /\ table[i] \in Windows
    BY DEF FreeEntries, DataTypeOK
  <2>2. index[table[i]] = i /\ i # NoEntry
    BY <2>1, RenderingAssumption DEF Entered, NoEntry, Slots
  <2> QED
    BY <2>1, <2>2
<1>2. table \in [Slots -> Windows \ {w}]
  BY <1>1 DEF DataTypeOK
<1>3. IsFiniteSet(Slots) /\ Cardinality(Slots) = Entries
  BY RenderingAssumption, FS_Interval DEF Slots
<1>4. /\ IsFiniteSet(Windows \ {w})
      /\ Cardinality(Windows \ {w}) = Cardinality(Windows) - 1
  BY FS_RemoveElement DEF Room
<1>5. Cardinality(Windows \ {w}) < Cardinality(Slots)
  BY <1>3, <1>4, FS_CardinalityType, RenderingAssumption DEF Room
<1>6. \E i, j \in Slots : i # j /\ table[i] = table[j]
  BY <1>2, <1>3, <1>4, <1>5, FS_PigeonHole
<1> QED
  BY <1>1, <1>6

LEMMA InitCopies == Init => CopyInv
BY ServerNotNone DEF Init, LockInit, CopyInv, Entered, EntryClaimed, Bound, Copied,
   Current, NoEntry, NoInfo, Slots

\* The locks change hands, but not in favour of a client.
LEMMA LocksKeepCopies ==
    ASSUME CopyInv, last' = last \/ last' \notin Clients,
           UNCHANGED <<geometry, index, table, stamp, nextStamp, clientVars>>
    PROVE  CopyInv'
BY DEF CopyInv, Entered, EntryClaimed, Bound, Copied, Current, clientVars

\* A window changes: its stamp becomes one that no client has.
LEMMA ValidateKeepsCopies ==
    ASSUME Typed, CopyInv, NEW w \in Windows, ValidateTree(w)
    PROVE  CopyInv'
<1>1. last = Server
  BY ServerNotNone DEF Typed, LockInv, Remembered, LocksAgree, ValidateTree
<1>2. /\ geometry' = [geometry EXCEPT ![w] = changes]
      /\ stamp' = [stamp EXCEPT ![index[w]] = nextStamp]
      /\ nextStamp' = nextStamp + 1 /\ nextStamp \in Nat
      /\ UNCHANGED <<last, index, table, clientVars>>
  BY DEF ValidateTree, DRIClipNotify, lockVars, Typed, DataTypeOK
<1>3. Entered'
  BY <1>2 DEF CopyInv, Entered, EntryClaimed, Typed, DataTypeOK
<1>4. \A c \in Clients : Bound(c)' /\ Current(c)'
  BY <1>1, <1>2, ServerNotNone DEF CopyInv, Bound, Current, clientVars
<1>5. ASSUME NEW c \in Clients PROVE Copied(c)'
  <2> SUFFICES ASSUME NEW v \in Windows, pStamp[c][v] # NoInfo
                 PROVE  /\ pStamp[c][v] \in Slots /\ index[v] = pStamp[c][v]
                        /\ lastStamp[c][v] < nextStamp + 1
                        /\ stamp'[index[v]] = lastStamp[c][v]
                             => seen[c][v] = geometry'[v]
    BY <1>2 DEF Copied, clientVars
  <2>2. /\ pStamp[c][v] \in Slots /\ index[v] = pStamp[c][v]
        /\ lastStamp[c][v] < nextStamp
        /\ stamp[index[v]] = lastStamp[c][v] => seen[c][v] = geometry[v]
    BY DEF CopyInv, Copied
  <2>5. lastStamp[c][v] \in Nat
    BY DEF Typed, DataTypeOK
  <2>3. CASE v = w
    BY <1>2, <2>2, <2>3 DEF Typed, DataTypeOK
  <2>4. CASE v # w
    <3>1. index[v] # index[w]
      BY <2>2, <2>4 DEF CopyInv, Entered, EntryClaimed, NoEntry, Slots
    <3> QED
      BY <1>2, <2>2, <2>4, <3>1 DEF Typed, DataTypeOK
  <2> QED
    BY <2>3, <2>4
<1> QED
  BY <1>3, <1>4, <1>5 DEF CopyInv

\* A client fetches its copy, with the stamp that is in the table.
LEMMA AskKeepsCopies ==
    ASSUME Typed, Typed', Room, CopyInv, NEW c \in Clients, DRIGetDrawableInfo(c)
    PROVE  CopyInv'
<1> DEFINE w == bound[c]
<1>1. w \in Windows /\ pc[c] = "asking"
  BY DEF DRIGetDrawableInfo, HasWindow, Typed
<1>2. /\ index'[w] \in Slots /\ stamp'[index'[w]] < nextStamp'
      /\ \A v \in Windows : index[v] \in Slots =>
            index'[v] = index[v] /\ stamp'[index[v]] = stamp[index[v]]
      /\ nextStamp <= nextStamp'
      /\ Entered'
  <2> USE DEF CopyInv, Entered, EntryClaimed, Typed, DataTypeOK
  <2>1. CASE LoadEntry(w)
    <3>1. FirstFree \in Slots /\ table[FirstFree] = None
      BY <2>1, FirstFreeFinds DEF LoadEntry
    <3>2. /\ index[w] = NoEntry
          /\ index' = [index EXCEPT ![w] = FirstFree]
          /\ table' = [table EXCEPT ![FirstFree] = w]
          /\ stamp' = [stamp EXCEPT ![FirstFree] = nextStamp]
          /\ nextStamp' = nextStamp + 1
      BY <2>1 DEF LoadEntry
    <3> HIDE DEF w
    <3>3. FirstFree # NoEntry /\ NoEntry \notin Slots /\ w # None
      BY <1>1, <3>1, RenderingAssumption, SMTT(60) DEF NoEntry, Slots
    <3>4. /\ \A v \in Windows \ {w} : index'[v] = index[v] /\ index[v] # FirstFree
          /\ index'[w] = FirstFree
      <4>1. \A v \in Windows : index[v] # FirstFree
        BY <3>1, <3>3, RenderingAssumption
      <4> QED
        BY <1>1, <3>2, <4>1
    <3>5. /\ stamp'[FirstFree] = nextStamp /\ table'[FirstFree] = w
          /\ \A j \in Slots \ {FirstFree} : stamp'[j] = stamp[j] /\ table'[j] = table[j]
      BY <3>1, <3>2
    <3>6. ASSUME NEW v \in Windows, index'[v] # NoEntry
          PROVE  table'[index'[v]] = v /\ stamp'[index'[v]] < nextStamp'
      <4>1. CASE v = w
        BY <3>2, <3>4, <3>5, <4>1
      <4>2. CASE v # w
        <5>1. index[v] \in Slots \ {FirstFree} /\ index'[v] = index[v]
          BY <3>4, <3>6, <4>2
        <5>2. table[index[v]] = v /\ stamp[index[v]] < nextStamp
          BY <3>3, <5>1
        <5> QED
          BY <3>2, <3>5, <5>1, <5>2
      <4> QED
        BY <4>1, <4>2
    <3>7. ASSUME NEW j \in Slots, table'[j] # None PROVE index'[table'[j]] = j
      <4>1. CASE j = FirstFree
        BY <3>4, <3>5, <4>1
      <4>2. CASE j # FirstFree
        <5>1. table'[j] = table[j] /\ table[j] \in Windows /\ index[table[j]] = j
          BY <3>5, <3>7, <4>2
        <5>2. table[j] # w
          BY <3>2, <3>3, <5>1
        <5> QED
          BY <3>4, <5>1, <5>2
      <4> QED
        BY <4>1, <4>2
    <3>8. \A v \in Windows : index[v] \in Slots =>
             index'[v] = index[v] /\ stamp'[index[v]] = stamp[index[v]]
      BY <3>2, <3>3, <3>4, <3>5
    <3> QED
      BY <3>1, <3>2, <3>4, <3>5, <3>6, <3>7, <3>8
  <2>2. CASE EvictEntry(w)
    BY <1>1, <2>2, RoomForAll DEF EvictEntry
  <2>3. CASE index[w] # NoEntry /\ UNCHANGED <<index, table, stamp, nextStamp>>
    BY <1>1, <2>3
  <2> QED
    BY <2>1, <2>2, <2>3 DEF DRIGetDrawableInfo
<1>3. /\ lastStamp' = [lastStamp EXCEPT ![c][w] = stamp'[index'[w]]]
      /\ seen' = [seen EXCEPT ![c][w] = geometry[w]]
      /\ pStamp' = [pStamp EXCEPT ![c][w] = index'[w]]
      /\ pc' = [pc EXCEPT ![c] = "spinback"]
      /\ UNCHANGED <<last, geometry, bound, binding>>
  BY DEF DRIGetDrawableInfo, lockVars
<1>4. index'[w] # NoInfo
  BY <1>2 DEF NoInfo, Slots
<1>5. bound'[c] = w
  BY <1>3
<1> HIDE DEF w
<1>6. ASSUME NEW d \in Clients PROVE Bound(d)' /\ Current(d)'
  <2>1. CASE d = c
    BY <1>1, <1>3, <1>4, <1>5, <2>1 DEF CopyInv, Bound, Current, Typed, LockTypeOK, DataTypeOK
  <2>2. CASE d # c
    BY <1>3, <2>2 DEF CopyInv, Bound, Current, Typed, LockTypeOK, DataTypeOK
  <2> QED
    BY <2>1, <2>2
<1>7. ASSUME NEW d \in Clients PROVE Copied(d)'
  <2> SUFFICES ASSUME NEW v \in Windows, pStamp'[d][v] # NoInfo
               PROVE  /\ pStamp'[d][v] \in Slots /\ index'[v] = pStamp'[d][v]
                      /\ lastStamp'[d][v] < nextStamp'
                      /\ stamp'[index'[v]] = lastStamp'[d][v]
                           => seen'[d][v] = geometry'[v]
    BY DEF Copied
  <2>1. CASE d = c /\ v = w
    BY <1>2, <1>3, <2>1 DEF Typed, DataTypeOK
  <2>2. CASE ~(d = c /\ v = w)
    <3>1. /\ pStamp'[d][v] = pStamp[d][v] /\ lastStamp'[d][v] = lastStamp[d][v]
          /\ seen'[d][v] = seen[d][v]
      BY <1>3, <2>2 DEF Typed, DataTypeOK
    <3>2. /\ pStamp[d][v] \in Slots /\ index[v] = pStamp[d][v]
          /\ lastStamp[d][v] < nextStamp
          /\ stamp[index[v]] = lastStamp[d][v] => seen[d][v] = geometry[v]
      BY <3>1 DEF CopyInv, Copied
    <3>3. lastStamp[d][v] < nextStamp'
      BY <1>2, <3>2 DEF Typed, DataTypeOK
    <3> QED
      BY <1>2, <1>3, <3>1, <3>2, <3>3
  <2> QED
    BY <2>1, <2>2
<1> QED
  BY <1>2, <1>6, <1>7 DEF CopyInv

\* A client goes on, with the copies it has.
LEMMA ClientKeepsCopies ==
    ASSUME Typed, CopyInv, NEW c \in Clients, NEW place, Goto(c, place),
           UNCHANGED <<geometry, index, table, stamp, nextStamp, bound, pStamp,
                       lastStamp, seen>>,
           binding' = binding \/ binding' = [binding EXCEPT ![c] = FALSE],
           last' = last \/ last' = None \/ last' = c,
           pc[c] \notin {"unbound", "dead"}, place # "unbound",
           last' = c => last = c \/ ~binding[c],
           place \in {"ready", "check", "drawing", "relock"} => ~binding'[c],
           place \in {"ready", "check", "drawing", "spinback", "leave", "leaving",
                      "relock"} => pStamp[c][bound[c]] # NoInfo,
           last' = c /\ place \in {"ready", "drawing"} =>
               seen[c][bound[c]] = geometry[bound[c]]
    PROVE  CopyInv'
<1>1. Entered' /\ \A d \in Clients : Copied(d)'
  BY DEF CopyInv, Entered, EntryClaimed, Copied
<1>2. ASSUME NEW d \in Clients PROVE Bound(d)' /\ Current(d)'
  <2>1. CASE d = c
    BY <2>1 DEF CopyInv, Bound, Current, Goto, Typed, LockTypeOK, DataTypeOK
  <2>2. CASE d # c
    BY <2>2, ServerNotNone DEF CopyInv, Bound, Current, Goto, Typed, LockTypeOK, DataTypeOK
  <2> QED
    BY <2>1, <2>2
<1> QED
  BY <1>1, <1>2 DEF CopyInv

\* A client that looks at the table with a lock gets a current copy.
LEMMA ClientCopies ==
    ASSUME Typed, ~Rebinds, CopyInv, NEW c \in Clients, ClientNext(c)
    PROVE  CopyInv'
<1>1. Bound(c) /\ Copied(c) /\ Current(c)
  BY DEF CopyInv
<1>2. CASE \E w \in Windows : driMesaBindContext(c, w)
  <2>1. PICK w \in Windows : driMesaBindContext(c, w)
    BY <1>2
  <2>2. /\ pc[c] = "unbound" /\ last # c
        /\ bound' = [bound EXCEPT ![c] = w]
        /\ binding' = [binding EXCEPT ![c] = pStamp[c][w] = NoInfo]
        /\ Goto(c, IF pStamp[c][w] = NoInfo THEN "spinlock" ELSE "ready")
        /\ UNCHANGED <<lockVars, sareaVars, serverVars, pStamp, lastStamp, seen>>
    BY <1>1, <2>1 DEF driMesaBindContext, Bound
  <2>3. Entered' /\ \A d \in Clients : Copied(d)'
    BY <2>2 DEF CopyInv, Entered, EntryClaimed, Copied, sareaVars, serverVars
  <2>4. ASSUME NEW d \in Clients PROVE Bound(d)' /\ Current(d)'
    <3>1. CASE d = c
      BY <2>2, <3>1 DEF Bound, Current, Goto, lockVars, Typed, LockTypeOK, DataTypeOK
    <3>2. CASE d # c
      BY <2>2, <3>2 DEF CopyInv, Bound, Current, Goto, lockVars, serverVars, Typed,
         LockTypeOK, DataTypeOK
    <3> QED
      BY <3>1, <3>2
  <2> QED
    BY <2>3, <2>4 DEF CopyInv
<1>3. CASE LockHardware(c)
  <2>1. pc[c] = "ready" /\ last' = c
        /\ \/ last = c /\ Goto(c, "drawing")
           \/ Goto(c, "check")
    BY <1>3 DEF LockHardware, TakeLight, TakeHeavy
  <2> QED
    BY <1>1, <1>3, <2>1, ClientKeepsCopies
    DEF LockHardware, Bound, Current, Info, sareaVars, serverVars
<1>4. CASE ValidateDrawableInfo(c)
  <2>1. /\ pc[c] = "check" /\ ~binding[c] /\ pStamp[c][bound[c]] # NoInfo
        /\ bound[c] \in Windows
    BY <1>1, <1>4 DEF ValidateDrawableInfo, Bound
  <2>2. CASE Stale(c)
    BY <1>4, <2>1, <2>2, ClientKeepsCopies
    DEF ValidateDrawableInfo, GiveUp, Info, sareaVars, serverVars
  <2>3. CASE ~Stale(c)
    <3>1. seen[c][bound[c]] = geometry[bound[c]]
      BY <1>1, <2>1, <2>3 DEF Stale, Copied
    <3> QED
      BY <1>4, <2>1, <2>3, <3>1, ClientKeepsCopies
      DEF ValidateDrawableInfo, Info, sareaVars, serverVars, lockVars
  <2> QED
    BY <2>2, <2>3
<1>5. CASE TakeSpin(c) \/ Recheck(c) \/ LetGo(c) \/ LetGoFree(c) \/ TakeSpinBack(c)
  BY <1>1, <1>5, ClientKeepsCopies
  DEF TakeSpin, Recheck, LetGo, LetGoFree, TakeSpinBack, Info, Bound, sareaVars,
      serverVars, lockVars
<1>6. CASE Leave(c) \/ LeaveFree(c)
  <2>1. /\ pc[c] \in {"leave", "leaving"} /\ pStamp[c][bound[c]] # NoInfo
        /\ UNCHANGED <<lockVars, serverVars, stamp, bound, pStamp, lastStamp, seen>>
    BY <1>1, <1>6 DEF Leave, LeaveFree, Bound, sareaVars, SpinFree
  <2>2. CASE Goto(c, "leaving") /\ UNCHANGED binding
    BY <1>1, <2>1, <2>2, ClientKeepsCopies DEF Bound, serverVars, lockVars
  <2>3. CASE AfterSpin(c)
    <3>1. ~binding'[c]
      BY <2>3 DEF AfterSpin, Typed, DataTypeOK
    <3>2. \/ Goto(c, "ready") /\ last # c
          \/ Goto(c, "relock")
      BY <1>1, <2>3 DEF AfterSpin, Bound
    <3>3. binding' = [binding EXCEPT ![c] = FALSE] /\ (last = c => ~binding[c])
      BY <1>1, <2>3 DEF AfterSpin, Bound
    <3> QED
      BY <2>1, <3>1, <3>2, <3>3, ClientKeepsCopies DEF serverVars, lockVars
  <2> QED
    BY <1>6, <2>2, <2>3 DEF Leave, LeaveFree
<1>7. CASE Relight(c)
  BY <1>1, <1>7, ClientKeepsCopies
  DEF Relight, Lock, TakeLight, TakeHeavy, Bound, Info, sareaVars, serverVars
<1>8. CASE UnlockHardware(c)
  <2>1. /\ pc[c] = "drawing" /\ holder = c /\ last' \in {c, None} /\ Goto(c, "ready")
        /\ UNCHANGED <<sareaVars, serverVars, Info>>
    BY <1>8 DEF UnlockHardware, GiveUp
  <2>2. /\ last = c /\ ~binding[c] /\ pStamp[c][bound[c]] # NoInfo
        /\ seen[c][bound[c]] = geometry[bound[c]]
    BY <1>1, <2>1, ServerNotNone DEF Typed, LockInv, Remembered, Bound, Current
  <2> QED
    BY <2>1, <2>2, ClientKeepsCopies DEF Info, sareaVars, serverVars
<1>9. CASE Die(c)
  <2>1. /\ pc[c] \notin {"unbound", "dead"} /\ Goto(c, "dead")
        /\ last' = last \/ last' = None
        /\ UNCHANGED <<sareaVars, serverVars, Info>>
    BY <1>9 DEF Die, lockVars
  <2>2. last' = c => last = c \/ ~binding[c]
    BY <2>1, ServerNotNone
  <2> QED
    BY <2>1, <2>2, ClientKeepsCopies DEF Info, sareaVars, serverVars
<1> QED
  BY <1>2, <1>3, <1>4, <1>5, <1>6, <1>7, <1>8, <1>9 DEF ClientNext

\* All steps keep the copies that are stamped as the table is, as long as no
\* window is bound again.
LEMMA NextCopies ==
    ASSUME Typed, Typed', Room, ~Rebinds, CopyInv, [Next]_vars
    PROVE  CopyInv'
<1>1. CASE UNCHANGED vars
  BY <1>1, LocksKeepCopies DEF vars, lockVars, sareaVars, serverVars
<1>2. CASE ServerNext
  <2>1. CASE \E w \in Windows : ValidateTree(w)
    BY <2>1, ValidateKeepsCopies
  <2>2. CASE \/ DRIDoBlockHandler \/ DRIDoWakeupHandler \/ LeaveVT \/ EnterVT
             \/ DRIValidateTree \/ Relock
    <3>1. last' = last \/ last' \notin Clients
      BY <2>2, DRILockTakes, DRIUnlockGives, ServerNotNone
      DEF Typed, LockTypeOK, DRIDoBlockHandler, DRIDoWakeupHandler, LeaveVT, EnterVT,
          DRIValidateTree, Relock
    <3> QED
      BY <2>2, <3>1, LocksKeepCopies
      DEF DRIDoBlockHandler, DRIDoWakeupHandler, LeaveVT, EnterVT, DRIValidateTree,
          Relock, sareaVars
  <2>3. CASE DRISpinLockTimeout \/ DRIPostValidateTree \/ SpinUnlock
    BY <2>3, LocksKeepCopies
    DEF DRISpinLockTimeout, DRIPostValidateTree, SpinUnlock, sareaVars, lockVars
  <2> QED
    BY <1>2, <2>1, <2>2, <2>3 DEF ServerNext
<1> QED
  BY <1>1, <1>2, AskKeepsCopies, ClientCopies DEF Next

(***************************************************************************)
(* What direct rendering is for: whoever draws has the rectangles that the *)
(* window has now.  It holds when every window has room in the table and   *)
(* no client makes another window current; DriTableFull and DriRebind are  *)
(* counterexamples without.                                                *)
(***************************************************************************)
THEOREM DrawingIsCurrent == Room /\ ~Rebinds => (Spec => []NoStaleDrawing)
<1> SUFFICES ASSUME Room, ~Rebinds PROVE Spec => []NoStaleDrawing
  OBVIOUS
<1> DEFINE I == Typed /\ CopyInv
<1>1. Init => I
  BY InitLocks, InitData, InitHasWindow, InitCopies DEF Typed
<1>2. I /\ [Next]_vars => I'
  BY NextTyped, NextCopies
<1>3. I => NoStaleDrawing
  BY ServerNotNone DEF Typed, LockInv, LocksAgree, Remembered, CopyInv, Current,
     NoStaleDrawing
<1> QED
  BY <1>1, <1>2, <1>3, PTL DEF Spec

=============================================================================
