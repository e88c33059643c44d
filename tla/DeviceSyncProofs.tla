-------------------------- MODULE DeviceSyncProofs --------------------------
(***************************************************************************)
(* Theorems about DeviceSync, for any number of devices, clients, windows  *)
(* and events: what freezes a device is always explained by a grab,        *)
(* nothing is left behind when the server is idle, the events of a device  *)
(* are processed in their order, and every handler returns.                *)
(***************************************************************************)
EXTENDS DeviceSync, FiniteSetTheorems, SequenceTheorems, WellFoundedInduction, TLAPS

(***************************************************************************)
(* The table of devices.  Sound is what every table is, the ones in the    *)
(* middle of a handler too; Fresh is what ComputeFreezes makes of it.      *)
(***************************************************************************)
Table(D) == D \in [Devices -> DeviceRecords]

Sound(D) ==
  \A d \in Devices :
    /\ D[d].other # None => D[D[d].other].grab # None
    /\ D[d].state # "NOT_GRABBED" <=> D[d].grab # None
    /\ D[d].grab # None => D[d].grab \in alive /\ D[d].window # 0
    /\ D[d].state = "FROZEN_WITH_EVENT" => D[d].event \in Events
    /\ D[d].fromPassive = TRUE => D[d].grab # None

Fresh(D) ==
  \A d \in Devices :
    D[d].frozen <=> (D[d].state \in Frozen \/ D[d].other # None)

\* Every device of D that was frozen in dev still is.
StaysFrozen(D) == \A d \in Devices : dev[d].frozen => D[d].frozen

\* The table A is D but for its freezes and grabs; the events A keeps for replay
\* are those of D or of E.
Alike(A, D, E) ==
  \A o \in Devices :
    /\ A[o].down = D[o].down
    /\ A[o].state = "FROZEN_WITH_EVENT" =>
         \/ D[o].state = "FROZEN_WITH_EVENT" /\ A[o].event = D[o].event
         \/ A[o].event \in E /\ A[o].event.dev = o

(***************************************************************************)
(* The stack of the running handler.  The ids of the events in it are the  *)
(* ids of events that were made.                                           *)
(***************************************************************************)
Known(n) == {e \in Events : e.id <= n}
Duties(n) == {k \in Continuations : k.op = "again" => k.event.id <= n}

HasPlay(s) == \E i \in DOMAIN s : s[i].op = "play"
OnePlay(s) ==
  \A i, j \in DOMAIN s : s[i].op = "play" /\ s[j].op = "play" => i = j

-----------------------------------------------------------------------------
(* What the operators on the table do.                                     *)

\* A table has a record for each device.
LEMMA RecordType ==
  ASSUME NEW D, Table(D), NEW d \in Devices
  PROVE  D[d] \in DeviceRecords
BY DEF Table

\* ActivateGrab for a live client makes a sound table of a sound one.
LEMMA ActivateSound ==
  ASSUME NEW D, Table(D), Sound(D), NEW d \in Devices, NEW c \in alive,
         alive \subseteq Clients, NEW w \in Windows,
         NEW passive \in BOOLEAN, NEW thisSync \in BOOLEAN, NEW otherSync \in BOOLEAN
  PROVE  /\ Table(ActivateGrab(D, d, c, w, passive, thisSync, otherSync))
         /\ Sound(ActivateGrab(D, d, c, w, passive, thisSync, otherSync))
<1> DEFINE A == ActivateGrab(D, d, c, w, passive, thisSync, otherSync)
<1>c. c \in Clients /\ c # None /\ w \in 0 .. Depth /\ w # 0
  BY NoneAssumption, BoundsAssumption DEF Windows
<1>1. A = [o \in Devices |-> A[o]]
  BY DEF ActivateGrab
<1>2. ASSUME NEW o \in Devices
      PROVE  /\ A[o] \in DeviceRecords
             /\ A[o].other \in {D[o].other, None, d}
             /\ o = d => A[o].grab = c /\ A[o].window = w
                         /\ A[o].state \in {"FROZEN_NO_EVENT", "THAWED"}
             /\ o # d => /\ A[o].grab = D[o].grab /\ A[o].window = D[o].window
                         /\ A[o].state = D[o].state /\ A[o].event = D[o].event
                         /\ A[o].fromPassive = D[o].fromPassive
  <2>1. D[o] \in DeviceRecords
    BY RecordType
  <2> QED
    BY <1>c, <2>1, ZenonT(60) DEF ActivateGrab, DeviceRecords, States, Frozen
<1>3. Table(A)
  BY <1>1, <1>2 DEF Table
<1>4. Sound(A)
  <2> SUFFICES ASSUME NEW o \in Devices
               PROVE  /\ A[o].other # None => A[A[o].other].grab # None
                      /\ A[o].state # "NOT_GRABBED" <=> A[o].grab # None
                      /\ A[o].grab # None => A[o].grab \in alive /\ A[o].window # 0
                      /\ A[o].state = "FROZEN_WITH_EVENT" => A[o].event \in Events
                      /\ A[o].fromPassive = TRUE => A[o].grab # None
    BY DEF Sound
  <2>1. A[o].other # None => A[A[o].other].grab # None
    <3>1. D[o].other \in Devices \cup {None} /\ (D[o].other # None => D[D[o].other].grab # None)
      BY RecordType DEF DeviceRecords, Sound
    <3>2. ASSUME A[o].other # None, A[o].other # d PROVE A[A[o].other].grab # None
      BY <3>1, <3>2, <1>2
    <3> QED
      BY <3>2, <1>2, <1>c
  <2> QED
    BY <2>1, <1>2, <1>c DEF Sound
<1> QED
  BY <1>3, <1>4

\* So does the end of a grab: nobody keeps pointing to it.
LEMMA DeactivateSound ==
  ASSUME NEW D, Table(D), Sound(D), NEW d \in Devices
  PROVE  Table(DeactivateGrab(D, d)) /\ Sound(DeactivateGrab(D, d))
<1> DEFINE A == DeactivateGrab(D, d)
<1>1. A = [o \in Devices |-> A[o]]
  BY DEF DeactivateGrab
<1>2. ASSUME NEW o \in Devices
      PROVE  /\ A[o] \in DeviceRecords
             /\ A[o].other = IF D[o].other = d THEN None ELSE D[o].other
             /\ o = d => A[o].grab = None /\ A[o].state = "NOT_GRABBED"
             /\ o # d => /\ A[o].grab = D[o].grab /\ A[o].window = D[o].window
                         /\ A[o].state = D[o].state /\ A[o].event = D[o].event
             /\ A[o].fromPassive = TRUE => o # d /\ D[o].fromPassive = TRUE
  <2>1. D[o] \in DeviceRecords
    BY RecordType
  <2>2. PICK p \in BOOLEAN : p = (D[o].fromPassive /\ o # d)
    OBVIOUS
  <2>3. A[o] = [D[o] EXCEPT !.other = IF @ = d THEN None ELSE @,
                            !.grab = IF o = d THEN None ELSE @,
                            !.window = IF o = d THEN 0 ELSE @,
                            !.state = IF o = d THEN "NOT_GRABBED" ELSE @,
                            !.fromPassive = p]
    BY <2>2, Zenon DEF DeactivateGrab
  <2> HIDE DEF A
  <2>4. 0 \in 0 .. Depth
    BY BoundsAssumption
  <2>5. /\ A[o] \in DeviceRecords
        /\ A[o].other = IF D[o].other = d THEN None ELSE D[o].other
        /\ o = d => A[o].grab = None /\ A[o].state = "NOT_GRABBED"
    BY <2>1, <2>3, <2>4 DEF DeviceRecords, States
  <2>6. ASSUME o # d
        PROVE  /\ A[o].grab = D[o].grab /\ A[o].window = D[o].window
               /\ A[o].state = D[o].state /\ A[o].event = D[o].event
    BY <2>1, <2>3, <2>6 DEF DeviceRecords
  <2>7. A[o].fromPassive = p
    BY <2>1, <2>3 DEF DeviceRecords
  <2>8. p = TRUE => o # d /\ D[o].fromPassive = TRUE
    <3>1. D[o].fromPassive \in BOOLEAN
      BY <2>1 DEF DeviceRecords
    <3> QED
      BY <2>2, <3>1, Zenon
  <2>9. A[o].fromPassive = TRUE => o # d /\ D[o].fromPassive = TRUE
    BY <2>7, <2>8, Zenon
  <2> QED
    BY <2>5, <2>6, <2>9
<1>3. Table(A)
  BY <1>1, <1>2 DEF Table
<1>4. Sound(A)
  <2> SUFFICES ASSUME NEW o \in Devices
               PROVE  /\ A[o].other # None => A[A[o].other].grab # None
                      /\ A[o].state # "NOT_GRABBED" <=> A[o].grab # None
                      /\ A[o].grab # None => A[o].grab \in alive /\ A[o].window # 0
                      /\ A[o].state = "FROZEN_WITH_EVENT" => A[o].event \in Events
                      /\ A[o].fromPassive = TRUE => A[o].grab # None
    BY DEF Sound
  <2>1. A[o].other # None => A[A[o].other].grab # None
    <3>1. D[o].other \in Devices \cup {None} /\ (D[o].other # None => D[D[o].other].grab # None)
      BY RecordType DEF DeviceRecords, Sound
    <3> QED
      BY <3>1, <1>2, ZenonT(60)
  <2>2. A[o].fromPassive = TRUE => A[o].grab # None
    <3>1. ASSUME A[o].fromPassive = TRUE PROVE A[o].grab # None
      <4>1. o # d /\ D[o].fromPassive = TRUE
        BY <1>2, <3>1
      <4>2. A[o].grab = D[o].grab
        BY <1>2, <4>1
      <4> QED
        BY <4>1, <4>2 DEF Sound
    <3> QED
      BY <3>1
  <2>3. /\ A[o].state # "NOT_GRABBED" <=> A[o].grab # None
        /\ A[o].grab # None => A[o].grab \in alive /\ A[o].window # 0
        /\ A[o].state = "FROZEN_WITH_EVENT" => A[o].event \in Events
    <3>1. CASE o = d
      BY <1>2, <3>1
    <3>2. CASE o # d
      <4>1. /\ A[o].grab = D[o].grab /\ A[o].window = D[o].window
            /\ A[o].state = D[o].state /\ A[o].event = D[o].event
        BY <1>2, <3>2
      <4> QED
        BY <4>1 DEF Sound
    <3> QED
      BY <3>1, <3>2
  <2> QED
    BY <2>1, <2>2, <2>3
<1> QED
  BY <1>3, <1>4

\* A delivery that freezes leaves the table sound and fresh and thaws nobody.
LEMMA FreezeAfterSound ==
  ASSUME NEW D, Table(D), Sound(D), Fresh(D), NEW e \in Events
  PROVE  /\ Table(FreezeAfter(D, e)) /\ Sound(FreezeAfter(D, e))
         /\ Fresh(FreezeAfter(D, e))
         /\ \A o \in Devices : D[o].frozen => FreezeAfter(D, e)[o].frozen
<1> DEFINE A == FreezeAfter(D, e)
           d == e.dev
<1>d. d \in Devices
  BY DEF Events
<1>1. CASE D[d].state \notin {"FREEZE_BOTH_NEXT_EVENT", "FREEZE_NEXT_EVENT"}
  BY <1>1 DEF FreezeAfter
<1>2. CASE D[d].state \in {"FREEZE_BOTH_NEXT_EVENT", "FREEZE_NEXT_EVENT"}
  <2>g. D[d].grab # None
    BY <1>d, <1>2 DEF Sound
  <2>1. A = [o \in Devices |-> A[o]]
    BY <1>2, <1>d DEF FreezeAfter, Table
  <2>2. ASSUME NEW o \in Devices
        PROVE  /\ A[o] \in DeviceRecords
               /\ A[o].grab = D[o].grab /\ A[o].window = D[o].window
               /\ A[o].other \in {D[o].other, d}
               /\ A[o].fromPassive = D[o].fromPassive
               /\ A[o].state # D[o].state => /\ A[o].state \in Frozen
                                            /\ D[o].state # "NOT_GRABBED"
                                            /\ A[o].frozen
               /\ A[o].state = "FROZEN_WITH_EVENT" => A[o].event \in Events
               /\ A[o] = D[o] \/ (A[o].frozen /\ (A[o].state \in Frozen \/ A[o].other = d))
    <3>1. D[o] \in DeviceRecords
      BY RecordType
    <3> QED
      BY <3>1, <1>2, <1>d, ZenonT(60) DEF FreezeAfter, DeviceRecords, States, Frozen, Sound, Table
  <2>3. Table(A)
    BY <2>1, <2>2 DEF Table
  <2>4. Sound(A)
    <3> SUFFICES ASSUME NEW o \in Devices
                 PROVE  /\ A[o].other # None => A[A[o].other].grab # None
                        /\ A[o].state # "NOT_GRABBED" <=> A[o].grab # None
                        /\ A[o].grab # None => A[o].grab \in alive /\ A[o].window # 0
                        /\ A[o].state = "FROZEN_WITH_EVENT" => A[o].event \in Events
                        /\ A[o].fromPassive = TRUE => A[o].grab # None
      BY DEF Sound
    <3>1. D[o].other \in Devices \cup {None} /\ (D[o].other # None => D[D[o].other].grab # None)
      BY RecordType DEF DeviceRecords, Sound
    <3> QED
      BY <3>1, <2>2, <2>g, <1>d DEF Sound, Frozen
  <2>5. Fresh(A)
    BY <2>2, <1>d, NoneAssumption DEF Fresh
  <2> QED
    BY <2>2, <2>3, <2>4, <2>5
<1> QED
  BY <1>1, <1>2

\* A handler that only notes that the key or button is up or down.
LEMMA DownSound ==
  ASSUME NEW D, Table(D), Sound(D), NEW d \in Devices, NEW b \in BOOLEAN
  PROVE  /\ Table([D EXCEPT ![d].down = b]) /\ Sound([D EXCEPT ![d].down = b])
         /\ Fresh(D) => Fresh([D EXCEPT ![d].down = b])
         /\ \A o \in Devices : D[o].frozen => [D EXCEPT ![d].down = b][o].frozen
<1> DEFINE A == [D EXCEPT ![d].down = b]
<1>1. A = [o \in Devices |-> A[o]]
  BY DEF Table
<1>2. ASSUME NEW o \in Devices
      PROVE  /\ A[o] \in DeviceRecords
             /\ A[o].other = D[o].other /\ A[o].grab = D[o].grab
             /\ A[o].window = D[o].window /\ A[o].state = D[o].state
             /\ A[o].event = D[o].event /\ A[o].frozen = D[o].frozen
             /\ A[o].fromPassive = D[o].fromPassive
  <2>1. D[o] \in DeviceRecords
    BY RecordType
  <2> QED
    BY <2>1 DEF DeviceRecords, Table
<1> HIDE DEF A
<1>3. Table(A)
  BY <1>1, <1>2 DEF Table
<1>4. Sound(A)
  <2>1. ASSUME NEW o \in Devices PROVE D[o].other \in Devices \cup {None}
    BY RecordType DEF DeviceRecords
  <2> QED
    BY <1>2, <2>1 DEF Sound
<1>5. Fresh(D) => Fresh(A)
  BY <1>2 DEF Fresh
<1> QED
  BY <1>2, <1>3, <1>4, <1>5 DEF A

\* ComputeFreezes makes every sound table fresh.
LEMMA RefrozenSound ==
  ASSUME NEW D, Table(D), Sound(D)
  PROVE  Table(Refrozen(D)) /\ Sound(Refrozen(D)) /\ Fresh(Refrozen(D))
<1> DEFINE A == Refrozen(D)
<1>1. A = [o \in Devices |-> A[o]]
  BY DEF Refrozen
<1>2. ASSUME NEW o \in Devices
      PROVE  /\ A[o] \in DeviceRecords
             /\ A[o].other = D[o].other /\ A[o].grab = D[o].grab
             /\ A[o].window = D[o].window /\ A[o].state = D[o].state
             /\ A[o].fromPassive = D[o].fromPassive
             /\ A[o].state = "FROZEN_WITH_EVENT" => A[o].event = D[o].event
             /\ A[o].frozen <=> (A[o].state \in Frozen \/ A[o].other # None)
  <2>1. D[o] \in DeviceRecords
    BY RecordType
  <2>2. PICK p \in BOOLEAN : p = (D[o].other # None \/ D[o].state \in Frozen)
    OBVIOUS
  <2>3. A[o] = [D[o] EXCEPT !.frozen = p,
                  !.event = IF D[o].state = "FROZEN_WITH_EVENT" THEN @ ELSE None]
    BY <2>2, Zenon DEF Refrozen
  <2> HIDE DEF A
  <2>4. /\ A[o] \in DeviceRecords
        /\ A[o].other = D[o].other /\ A[o].grab = D[o].grab
        /\ A[o].window = D[o].window /\ A[o].state = D[o].state
        /\ A[o].fromPassive = D[o].fromPassive
        /\ A[o].state = "FROZEN_WITH_EVENT" => A[o].event = D[o].event
        /\ A[o].frozen = p
    BY <2>1, <2>3 DEF DeviceRecords
  <2> QED
    BY <2>2, <2>4
<1> HIDE DEF A
<1>3. Table(A)
  BY <1>1, <1>2 DEF Table
<1>4. Sound(A)
  <2>1. ASSUME NEW o \in Devices PROVE D[o].other \in Devices \cup {None}
    BY RecordType DEF DeviceRecords
  <2> QED
    BY <1>2, <2>1 DEF Sound
<1>5. Fresh(A)
  BY <1>2 DEF Fresh
<1> QED
  BY <1>3, <1>4, <1>5 DEF A

-----------------------------------------------------------------------------
(* What the operators on the table leave alone.                            *)

\* Two changes in a row leave alone what both of them leave alone.
LEMMA AlikeAfter ==
  ASSUME NEW A, NEW B, NEW C, NEW E, Alike(A, B, {}), Alike(B, C, E)
  PROVE  Alike(A, C, E)
BY DEF Alike

\* A new grab changes no key and keeps no new event for replay.
LEMMA ActivateAlike ==
  ASSUME NEW D, Table(D), NEW d \in Devices, NEW c \in Clients, NEW w \in Windows,
         NEW passive \in BOOLEAN, NEW thisSync \in BOOLEAN, NEW otherSync \in BOOLEAN
  PROVE  Alike(ActivateGrab(D, d, c, w, passive, thisSync, otherSync), D, {})
<1> DEFINE A == ActivateGrab(D, d, c, w, passive, thisSync, otherSync)
<1>1. ASSUME NEW o \in Devices
      PROVE  /\ A[o].down = D[o].down
             /\ A[o].state = "FROZEN_WITH_EVENT" =>
                  D[o].state = "FROZEN_WITH_EVENT" /\ A[o].event = D[o].event
  <2>1. D[o] \in DeviceRecords
    BY RecordType
  <2> QED
    BY <2>1 DEF ActivateGrab, DeviceRecords
<1> QED
  BY <1>1 DEF Alike

\* Nor does the end of one,
LEMMA DeactivateAlike ==
  ASSUME NEW D, Table(D), NEW d \in Devices
  PROVE  Alike(DeactivateGrab(D, d), D, {})
<1> DEFINE A == DeactivateGrab(D, d)
<1>1. ASSUME NEW o \in Devices
      PROVE  /\ A[o].down = D[o].down
             /\ A[o].state = "FROZEN_WITH_EVENT" =>
                  D[o].state = "FROZEN_WITH_EVENT" /\ A[o].event = D[o].event
  <2>1. D[o] \in DeviceRecords
    BY RecordType
  <2>2. PICK p \in BOOLEAN : p = (D[o].fromPassive /\ o # d)
    OBVIOUS
  <2>3. A[o] = [D[o] EXCEPT !.other = IF @ = d THEN None ELSE @,
                            !.grab = IF o = d THEN None ELSE @,
                            !.window = IF o = d THEN 0 ELSE @,
                            !.state = IF o = d THEN "NOT_GRABBED" ELSE @,
                            !.fromPassive = p]
    BY <2>2, Zenon DEF DeactivateGrab
  <2> HIDE DEF A
  <2> QED
    BY <2>1, <2>3 DEF DeviceRecords
<1> QED
  BY <1>1 DEF Alike

\* or ComputeFreezes;
LEMMA RefrozenAlike ==
  ASSUME NEW D, Table(D)
  PROVE  Alike(Refrozen(D), D, {})
<1> DEFINE A == Refrozen(D)
<1>1. ASSUME NEW o \in Devices
      PROVE  /\ A[o].down = D[o].down
             /\ A[o].state = "FROZEN_WITH_EVENT" =>
                  D[o].state = "FROZEN_WITH_EVENT" /\ A[o].event = D[o].event
  <2>1. D[o] \in DeviceRecords
    BY RecordType
  <2>2. PICK p \in BOOLEAN : p = (D[o].other # None \/ D[o].state \in Frozen)
    OBVIOUS
  <2>3. A[o] = [D[o] EXCEPT !.frozen = p,
                  !.event = IF D[o].state = "FROZEN_WITH_EVENT" THEN @ ELSE None]
    BY <2>2, Zenon DEF Refrozen
  <2> HIDE DEF A
  <2> QED
    BY <2>1, <2>3 DEF DeviceRecords
<1> QED
  BY <1>1 DEF Alike

\* and a delivery that freezes keeps the event delivered.
LEMMA FreezeAfterAlike ==
  ASSUME NEW D, Table(D), NEW e \in Events
  PROVE  Alike(FreezeAfter(D, e), D, {e})
<1>1. ASSUME NEW o \in Devices
      PROVE  /\ FreezeAfter(D, e)[o].down = D[o].down
             /\ FreezeAfter(D, e)[o].state = "FROZEN_WITH_EVENT" =>
                  \/ /\ D[o].state = "FROZEN_WITH_EVENT"
                     /\ FreezeAfter(D, e)[o].event = D[o].event
                  \/ FreezeAfter(D, e)[o].event = e /\ e.dev = o
  <2>1. D[o] \in DeviceRecords /\ e.dev \in Devices
    BY RecordType DEF Events
  <2> QED
    BY <2>1 DEF FreezeAfter, DeviceRecords, Table
<1> QED
  BY <1>1 DEF Alike


-----------------------------------------------------------------------------
(* What a handler does to the stack, and the handlers that return through  *)
(* ComputeFreezes or directly.                                             *)

Stack(s, n) == s \in Seq(Duties(n)) /\ OnePlay(s)

\* How a handler leaves the table and the stack: where it may thaw a device it
\* plays, or nothing waits.
Handled(n) ==
  /\ Table(dev') /\ Sound(dev') /\ Fresh(dev')
  /\ Stack(todo', n)
  /\ playing' \in BOOLEAN /\ (playing' <=> HasPlay(todo'))
  /\ playing => playing'
  /\ playing' \/ pending = <<>> \/ StaysFrozen(dev')

\* The playing loop goes on a stack only once.
LEMMA PushPlay ==
  ASSUME NEW n, NEW s, Stack(s, n), ~HasPlay(s)
  PROVE  LET t == <<[op |-> "play"]>> \o s IN Stack(t, n) /\ HasPlay(t)
<1> DEFINE k == [op |-> "play"]
           t == <<k>> \o s
<1>1. k \in Duties(n)
  BY DEF Duties, Continuations
<1>2. /\ t \in Seq(Duties(n)) /\ Len(t) = Len(s) + 1 /\ Len(s) \in Nat
      /\ t[1] = k /\ \A i \in 2 .. Len(t) : t[i] = s[i - 1] /\ i - 1 \in 1 .. Len(s)
  BY <1>1 DEF Stack
<1>3. DOMAIN t = 1 .. Len(t) /\ DOMAIN s = 1 .. Len(s)
  BY <1>2 DEF Stack
<1> HIDE DEF t
<1>4. OnePlay(t)
  <2>1. ASSUME NEW i \in 1 .. Len(t), t[i].op = "play" PROVE i = 1
    <3>1. CASE i \in 2 .. Len(t)
      <4>1. i - 1 \in DOMAIN s /\ s[i - 1].op = "play"
        BY <1>2, <1>3, <2>1, <3>1
      <4> QED
        BY <4>1 DEF HasPlay
    <3> QED
      BY <1>2, <3>1
  <2> QED
    BY <1>3, <2>1 DEF OnePlay
<1>5. HasPlay(t)
  BY <1>2, <1>3 DEF HasPlay
<1> QED
  BY <1>2, <1>4, <1>5 DEF Stack, t

\* Any other duty can be pushed on a stack at any time.
LEMMA Push ==
  ASSUME NEW n, NEW s, Stack(s, n), NEW k \in Duties(n), k.op # "play"
  PROVE  LET t == <<k>> \o s IN Stack(t, n) /\ (HasPlay(t) <=> HasPlay(s))
<1> DEFINE t == <<k>> \o s
<1>2. /\ t \in Seq(Duties(n)) /\ Len(t) = Len(s) + 1 /\ Len(s) \in Nat
      /\ t[1] = k /\ \A i \in 2 .. Len(t) : t[i] = s[i - 1] /\ i - 1 \in 1 .. Len(s)
      /\ \A i \in 1 .. Len(s) : s[i] = t[i + 1] /\ i + 1 \in 1 .. Len(t)
  BY DEF Stack
<1>3. DOMAIN t = 1 .. Len(t) /\ DOMAIN s = 1 .. Len(s)
  BY <1>2 DEF Stack
<1> HIDE DEF t
<1>4. OnePlay(t)
  <2> SUFFICES ASSUME NEW i \in 1 .. Len(t), NEW j \in 1 .. Len(t),
                      t[i].op = "play", t[j].op = "play"
               PROVE  i = j
    BY <1>3 DEF OnePlay
  <2>1. i # 1 /\ j # 1
    BY <1>2
  <2>2. i - 1 = j - 1
    BY <1>2, <1>3, <2>1 DEF Stack, OnePlay
  <2> QED
    BY <2>2
<1>5. HasPlay(t) <=> HasPlay(s)
  <2>1. ASSUME NEW i \in 1 .. Len(t), t[i].op = "play" PROVE HasPlay(s)
    <3>1. i \in 2 .. Len(t)
      BY <1>2, <2>1
    <3> QED
      BY <1>2, <1>3, <2>1, <3>1 DEF HasPlay
  <2>2. ASSUME NEW i \in 1 .. Len(s), s[i].op = "play" PROVE HasPlay(t)
    BY <1>2, <1>3, <2>2 DEF HasPlay
  <2> QED
    BY <1>3, <2>1, <2>2 DEF HasPlay
<1> QED
  BY <1>2, <1>4, <1>5 DEF Stack, t

\* What is below the top of a stack is a stack.
LEMMA Pop ==
  ASSUME NEW n, NEW s, Stack(s, n), s # <<>>
  PROVE  /\ Stack(Tail(s), n) /\ Head(s) \in Duties(n)
         /\ Head(s).op # "play" => (HasPlay(Tail(s)) <=> HasPlay(s))
         /\ Head(s).op = "play" => HasPlay(s) /\ ~HasPlay(Tail(s))
<1> DEFINE t == Tail(s)
<1>2. /\ t \in Seq(Duties(n)) /\ Len(s) = Len(t) + 1 /\ Len(t) \in Nat
      /\ Head(s) = s[1] /\ Head(s) \in Duties(n)
      /\ \A i \in 2 .. Len(s) : s[i] = t[i - 1] /\ i - 1 \in 1 .. Len(t)
      /\ \A i \in 1 .. Len(t) : t[i] = s[i + 1] /\ i + 1 \in 1 .. Len(s)
  BY DEF Stack
<1>3. DOMAIN t = 1 .. Len(t) /\ DOMAIN s = 1 .. Len(s)
  BY <1>2 DEF Stack
<1> HIDE DEF t
<1>4. OnePlay(t)
  <2> SUFFICES ASSUME NEW i \in 1 .. Len(t), NEW j \in 1 .. Len(t),
                      t[i].op = "play", t[j].op = "play"
               PROVE  i = j
    BY <1>3 DEF OnePlay
  <2>1. /\ i + 1 \in DOMAIN s /\ s[i + 1].op = "play"
        /\ j + 1 \in DOMAIN s /\ s[j + 1].op = "play"
    BY <1>2, <1>3
  <2>2. i + 1 = j + 1
    BY <2>1 DEF Stack, OnePlay
  <2> QED
    BY <2>2
<1>5. HasPlay(t) => HasPlay(s)
  BY <1>2, <1>3 DEF HasPlay
<1>6. Head(s).op # "play" /\ HasPlay(s) => HasPlay(t)
  <2> SUFFICES ASSUME Head(s).op # "play", NEW i \in 1 .. Len(s), s[i].op = "play"
               PROVE  HasPlay(t)
    BY <1>3 DEF HasPlay
  <2>1. i \in 2 .. Len(s)
    BY <1>2
  <2> QED
    BY <1>2, <1>3, <2>1 DEF HasPlay
<1>7. Head(s).op = "play" => HasPlay(s) /\ ~HasPlay(t)
  <2> SUFFICES ASSUME Head(s).op = "play" PROVE HasPlay(s) /\ ~HasPlay(t)
    OBVIOUS
  <2>1. HasPlay(s)
    BY <1>2, <1>3 DEF HasPlay
  <2>2. ASSUME NEW i \in 1 .. Len(t), t[i].op = "play" PROVE FALSE
    <3>1. /\ i + 1 \in DOMAIN s /\ s[i + 1].op = "play"
          /\ 1 \in DOMAIN s /\ s[1].op = "play"
      BY <1>2, <1>3, <2>2
    <3>2. i + 1 = 1
      BY <3>1 DEF Stack, OnePlay
    <3> QED
      BY <3>2
  <2> QED
    BY <1>3, <2>1, <2>2 DEF HasPlay
<1> QED
  BY <1>2, <1>4, <1>5, <1>6, <1>7 DEF Stack, t

\* A handler that ends in ComputeFreezes ends with a settled table, and plays
\* what waits unless it is playing.
LEMMA FreezesHandled ==
  ASSUME NEW D, NEW replay, NEW rest, NEW n,
         Table(D), Sound(D), Stack(rest, n),
         playing \in BOOLEAN, playing <=> HasPlay(rest),
         replay = <<>> \/ \E r \in Duties(n) : r.op = "replay" /\ replay = <<r>>,
         ComputeFreezes(D, replay, rest)
  PROVE  Handled(n)
<1>1. Table(dev') /\ Sound(dev') /\ Fresh(dev')
  BY RefrozenSound DEF ComputeFreezes
<1>2. CASE playing \/ (replay = <<>> /\ pending = <<>>)
  <2>1. todo' = rest /\ playing' = playing
    BY <1>2, Zenon DEF ComputeFreezes
  <2> QED
    BY <1>1, <1>2, <2>1, Zenon DEF Handled
<1>3. CASE ~(playing \/ (replay = <<>> /\ pending = <<>>))
  <2>1. todo' = replay \o <<[op |-> "play"]>> \o rest /\ playing' = TRUE
    BY <1>3, Zenon DEF ComputeFreezes
  <2> DEFINE p == <<[op |-> "play"]>> \o rest
  <2>2. Stack(p, n) /\ HasPlay(p)
    BY <1>3, PushPlay
  <2>3. Stack(todo', n) /\ HasPlay(todo')
    <3>1. CASE replay = <<>>
      <4>1. todo' = p
        BY <2>1, <3>1 DEF Stack
      <4> QED
        BY <2>2, <4>1
    <3>2. ASSUME NEW r \in Duties(n), r.op = "replay", replay = <<r>>
          PROVE  Stack(todo', n) /\ HasPlay(todo')
      <4>1. todo' = <<r>> \o p
        BY <2>1, <3>2 DEF Stack
      <4> HIDE DEF p
      <4> QED
        BY <2>2, <4>1, <3>2, Push
    <3> QED
      BY <3>1, <3>2
  <2> QED
    BY <1>1, <2>1, <2>3, Zenon DEF Handled
<1> QED
  BY <1>2, <1>3

\* A handler that just returns has to bring a fresh table, and may thaw nobody.
LEMMA ReturnHandled ==
  ASSUME NEW D, NEW rest, NEW n, Table(D), Sound(D), Fresh(D), StaysFrozen(D),
         Stack(rest, n), playing \in BOOLEAN, playing <=> HasPlay(rest),
         Return(D, rest)
  PROVE  Handled(n)
BY DEF Return, Handled
-----------------------------------------------------------------------------
(* The handlers of events, from the inside out.                            *)

\* What a handler may rely on when rest is what its callers still have to do.
Ready(rest, n) ==
  /\ Stack(rest, n) /\ playing \in BOOLEAN /\ (playing <=> HasPlay(rest))
  /\ alive \subseteq Clients

\* A search for passive grabs ends in either way.
LEMMA CheckHandled ==
  ASSUME NEW D, NEW rest, NEW n, NEW e \in Events, NEW first \in 1 .. Depth + 1,
         Table(D), Sound(D), Fresh(D), StaysFrozen(D), Ready(rest, n),
         CheckDeviceGrabs(D, e, first, rest)
  PROVE  Handled(n)
<1>e. e.dev \in Devices
  BY DEF Events
<1>1. CASE Return(D, rest)
  BY <1>1, ReturnHandled DEF Ready
<1>2. ASSUME NEW c \in alive, NEW w \in first .. Depth,
             NEW thisSync \in BOOLEAN, NEW otherSync \in BOOLEAN,
             ComputeFreezes(
               ActivateGrab(D, e.dev, c, w, TRUE, thisSync, otherSync), <<>>,
               <<[op |-> "save", event |-> e]>> \o rest)
      PROVE  Handled(n)
  <2> DEFINE A == ActivateGrab(D, e.dev, c, w, TRUE, thisSync, otherSync)
             k == [op |-> "save", event |-> e]
             t == <<k>> \o rest
  <2>1. w \in Windows
    BY BoundsAssumption DEF Windows
  <2>2. Table(A) /\ Sound(A)
    BY <1>e, <2>1, ActivateSound DEF Ready
  <2>3. k \in Duties(n) /\ k.op # "play"
    BY DEF Duties, Continuations
  <2> HIDE DEF k
  <2>4. Stack(t, n) /\ (HasPlay(t) <=> HasPlay(rest))
    BY <2>3, Push DEF Ready
  <2>5. ComputeFreezes(A, <<>>, t)
    BY <1>2 DEF k
  <2> HIDE DEF A, t
  <2> QED
    BY <2>2, <2>4, <2>5, FreezesHandled DEF Ready
<1>3. ASSUME NEW c \in alive, NEW w \in Windows, e.dev = Pointer,
             ComputeFreezes(ActivateGrab(D, Pointer, c, w, TRUE, FALSE, FALSE),
                            <<>>, rest)
      PROVE  Handled(n)
  <2> DEFINE A == ActivateGrab(D, Pointer, c, w, TRUE, FALSE, FALSE)
  <2>1. Table(A) /\ Sound(A)
    BY DevicesAssumption, ActivateSound DEF Ready
  <2>2. ComputeFreezes(A, <<>>, rest)
    BY <1>3
  <2> HIDE DEF A
  <2> QED
    BY <2>1, <2>2, FreezesHandled DEF Ready
<1> QED
  BY <1>1, <1>2, <1>3 DEF CheckDeviceGrabs

LEMMA DeliverHandled ==
  ASSUME NEW D, NEW rest, NEW n, NEW e \in Events,
         Table(D), Sound(D), Fresh(D), StaysFrozen(D), Ready(rest, n),
         DeliverGrabbedEvent(D, e, rest)
  PROVE  Handled(n)
<1>1. CASE Return(D, rest)
  BY <1>1, ReturnHandled DEF Ready
<1>2. CASE Return(FreezeAfter(D, e), rest)
  <2> DEFINE A == FreezeAfter(D, e)
  <2>1. Table(A) /\ Sound(A) /\ Fresh(A) /\ StaysFrozen(A)
    BY FreezeAfterSound DEF StaysFrozen
  <2>2. Return(A, rest)
    BY <1>2
  <2> HIDE DEF A
  <2> QED
    BY <2>1, <2>2, ReturnHandled DEF Ready
<1> QED
  BY <1>1, <1>2 DEF DeliverGrabbedEvent

\* The table in front of a handler.
Settled == Table(dev) /\ Sound(dev) /\ Fresh(dev)

LEMMA PressHandled ==
  ASSUME NEW rest, NEW n, NEW e \in Events, Settled, Ready(rest, n), Press(e, rest)
  PROVE  Handled(n)
<1> DEFINE D == [dev EXCEPT ![e.dev].down = TRUE]
<1>1. Table(D) /\ Sound(D) /\ Fresh(D) /\ StaysFrozen(D)
  <2>1. e.dev \in Devices
    BY DEF Events
  <2> QED
    BY <2>1, DownSound DEF Settled, StaysFrozen
<1>2. CheckDeviceGrabs(D, e, 1, rest) \/ DeliverGrabbedEvent(D, e, rest)
  BY DEF Press
<1>3. 1 \in 1 .. Depth + 1
  BY BoundsAssumption
<1> HIDE DEF D
<1> QED
  BY <1>1, <1>2, <1>3, CheckHandled, DeliverHandled

LEMMA ReleaseHandled ==
  ASSUME NEW rest, NEW n, NEW e \in Events, Settled, Ready(rest, n), Release(e, rest)
  PROVE  Handled(n)
<1> DEFINE D == [dev EXCEPT ![e.dev].down = FALSE]
<1>e. e.dev \in Devices
  BY DEF Events
<1>1. Table(D) /\ Sound(D) /\ Fresh(D) /\ StaysFrozen(D)
  BY <1>e, DownSound DEF Settled, StaysFrozen
<1>2. Table(DeactivateGrab(D, e.dev)) /\ Sound(DeactivateGrab(D, e.dev))
  BY <1>1, <1>e, DeactivateSound
<1>3. \/ ComputeFreezes(DeactivateGrab(D, e.dev), <<>>, rest)
      \/ Return(D, rest) \/ DeliverGrabbedEvent(D, e, rest)
  BY DEF Release
<1> HIDE DEF D
<1>4. CASE ComputeFreezes(DeactivateGrab(D, e.dev), <<>>, rest)
  BY <1>2, <1>4, FreezesHandled DEF Ready
<1>5. CASE Return(D, rest)
  BY <1>1, <1>5, ReturnHandled DEF Ready
<1>6. CASE DeliverGrabbedEvent(D, e, rest)
  BY <1>1, <1>6, DeliverHandled
<1> QED
  BY <1>3, <1>4, <1>5, <1>6

\* Whatever an event does, it is done when the stack and the table are as a
\* handler leaves them, and it is the last of its device.
LEMMA ProcessHandled ==
  ASSUME NEW rest, NEW n \in Nat, NEW e \in Known(n), Settled, Ready(rest, n),
         done \in [Devices -> 0 .. n], lastReport \in 0 .. n,
         ProcessEvent(e, rest)
  PROVE  Handled(n) /\ done' \in [Devices -> 0 .. n] /\ lastReport' \in 0 .. n
<1>e. e \in Events /\ e.dev \in Devices /\ e.id \in 0 .. n
      /\ e.kind \in {"press", "release", "motion"}
  BY BoundsAssumption DEF Known, Events
<1>1. done' \in [Devices -> 0 .. n] /\ lastReport' \in 0 .. n
  BY <1>e DEF ProcessEvent
<1>2. CASE Return(dev, rest)
  BY <1>1, <1>2, ReturnHandled DEF Settled, Ready, StaysFrozen
<1>3. CASE Press(e, rest)
  BY <1>1, <1>e, <1>3, PressHandled
<1>4. CASE Release(e, rest)
  BY <1>1, <1>e, <1>4, ReleaseHandled
<1>5. CASE e.kind = "press" /\ Release([e EXCEPT !.kind = "release"],
                    <<[op |-> "again", event |-> [e EXCEPT !.again = TRUE]]>> \o rest)
  <2> DEFINE up == [e EXCEPT !.kind = "release"]
             k == [op |-> "again", event |-> [e EXCEPT !.again = TRUE]]
             t == <<k>> \o rest
  <2>1. up \in Events
    BY <1>e DEF Events
  <2>2. k \in Duties(n) /\ k.op # "play"
    <3> DEFINE half == [e EXCEPT !.again = TRUE]
    <3>1. \A b \in BOOLEAN : [e EXCEPT !.again = b] \in Events
                            /\ [e EXCEPT !.again = b].id = e.id
      BY <1>e DEF Events
    <3>2. half \in Events /\ half.id = e.id
      BY <3>1, Zenon
    <3> HIDE DEF half
    <3>3. [op |-> "again", event |-> half] \in Duties(n)
      BY <1>e, <3>2 DEF Duties, Continuations
    <3> QED
      BY <3>3 DEF half
  <2>3. Release(up, t)
    BY <1>5
  <2> HIDE DEF up, k
  <2>4. Ready(t, n)
    BY <2>2, Push DEF Ready
  <2> HIDE DEF t
  <2> QED
    BY <1>1, <2>1, <2>3, <2>4, ReleaseHandled
<1>6. \/ Return(dev, rest) \/ Press(e, rest) \/ Release(e, rest)
      \/ e.kind = "press" /\ Release([e EXCEPT !.kind = "release"],
                    <<[op |-> "again", event |-> [e EXCEPT !.again = TRUE]]>> \o rest)
  <2>1. CASE e.kind = "motion"
    BY <2>1 DEF ProcessEvent
  <2>2. CASE e.kind = "release"
    BY <2>2 DEF ProcessEvent
  <2>3. CASE e.kind = "press"
    BY <2>3 DEF ProcessEvent
  <2> QED
    BY <1>e, <2>1, <2>2, <2>3
<1> QED
  BY <1>1, <1>2, <1>3, <1>4, <1>5, <1>6

\* EnqueueEvent adds the event or puts it in the place of another one.
LEMMA EnqueueTyped ==
  ASSUME NEW n \in Nat, NEW e \in Known(n), pending \in Seq(Known(n)), EnqueueEvent(e)
  PROVE  /\ pending' \in Seq(Known(n)) /\ tail' = TRUE /\ lastReport' \in 0 .. n
         /\ \A i \in DOMAIN pending' :
              pending'[i] = e \/ (i \in DOMAIN pending /\ pending'[i] = pending[i])
<1>1. e.id \in 0 .. n
  BY BoundsAssumption DEF Known, Events
<1>2. CASE pending' = Append(pending, e)
  BY <1>1, <1>2 DEF EnqueueEvent
<1>3. CASE pending' = [pending EXCEPT ![Len(pending)] = e]
  BY <1>1, <1>3 DEF EnqueueEvent
<1> QED
  BY <1>2, <1>3 DEF EnqueueEvent
-----------------------------------------------------------------------------
(* The inductive invariant.                                                *)

\* What waits is of frozen devices unless it is being played.
Waiting ==
  /\ pending \in Seq(Known(made)) /\ tail \in BOOLEAN
  /\ ~playing => \A i \in DOMAIN pending : dev[pending[i].dev].frozen

History ==
  /\ phys \in [Devices -> BOOLEAN] /\ made \in 0 .. MaxEvents
  /\ done \in [Devices -> 0 .. made] /\ split \in BOOLEAN /\ lastReport \in 0 .. made

Invariant == Settled /\ Ready(todo, made) /\ Waiting /\ History

\* Events that are made later do not disturb what was known.
LEMMA KnownGrows ==
  ASSUME NEW m \in Nat, NEW n \in Nat, m <= n
  PROVE  /\ Known(m) \subseteq Known(n)
         /\ \A s : Stack(s, m) => Stack(s, n)
<1>1. Known(m) \subseteq Known(n)
  BY DEF Known, Events
<1>2. Duties(m) \subseteq Duties(n)
  <2> SUFFICES ASSUME NEW k \in Duties(m), k.op = "again" PROVE k.event.id <= n
    BY DEF Duties
  <2>1. k.event \in Events /\ k.event.id <= m
    BY DEF Duties, Continuations
  <2> QED
    BY <2>1 DEF Events
<1> QED
  BY <1>1, <1>2 DEF Stack

\* What a handler leaves behind is what the invariant asks between two steps,
LEMMA HandledSettled ==
  ASSUME Handled(made'), alive' = alive, alive \subseteq Clients
  PROVE  Settled' /\ Ready(todo, made)'
BY Zenon DEF Handled, Settled, Ready, Sound, Table, Fresh, Stack, OnePlay, HasPlay, Duties

\* and when it does not play, the events that wait are still of frozen devices.
LEMMA HandledWaits ==
  ASSUME Handled(made'), pending' = pending, Waiting
  PROVE  ~playing' => \A i \in DOMAIN pending' : dev'[pending'[i].dev].frozen
<1> SUFFICES ASSUME ~playing', NEW i \in DOMAIN pending
             PROVE  dev'[pending[i].dev].frozen
  OBVIOUS
<1>1. ~playing /\ StaysFrozen(dev')
  BY DEF Handled, Waiting
<1>2. pending[i].dev \in Devices
  BY DEF Waiting, Known, Events
<1> QED
  BY <1>1, <1>2 DEF Waiting, StaysFrozen

LEMMA InitInvariant == Init => Invariant
<1> SUFFICES ASSUME Init PROVE Invariant
  OBVIOUS
<1>1. Settled
  BY BoundsAssumption DEF Init, Settled, Table, Sound, Fresh, DeviceRecords, States, Frozen
<1>2. Ready(todo, made)
  <2>1. todo = <<>> /\ playing = FALSE /\ alive = Clients
    BY Zenon DEF Init
  <2>2. Stack(todo, made) /\ ~HasPlay(todo)
    BY <2>1 DEF Stack, OnePlay, HasPlay
  <2> QED
    BY <2>1, <2>2, Zenon DEF Ready
<1>3. Waiting
  BY DEF Init, Waiting
<1>4. History
  <2>1. phys = [d \in Devices |-> FALSE]
    BY Zenon DEF Init
  <2>2. phys \in [Devices -> BOOLEAN]
    BY <2>1
  <2>3. split = FALSE /\ made = 0 /\ done = [d \in Devices |-> 0] /\ lastReport = 0
    BY Zenon DEF Init
  <2>4. split \in BOOLEAN
    BY <2>3
  <2>5. /\ made \in 0 .. MaxEvents /\ done \in [Devices -> 0 .. made]
        /\ lastReport \in 0 .. made
    BY <2>3, BoundsAssumption
  <2> QED
    BY <2>2, <2>4, <2>5 DEF History
<1> QED
  BY <1>1, <1>2, <1>3, <1>4 DEF Invariant

LEMMA InputInvariant ==
  ASSUME Invariant, NEW d \in Devices, NEW kind \in {"press", "release", "motion"},
         InputEvent(d, kind)
  PROVE  Invariant'
<1> DEFINE e == [id |-> made + 1, dev |-> d, kind |-> kind, again |-> FALSE]
<1>n. made \in Nat /\ made' \in Nat /\ made <= made' /\ made' = made + 1
      /\ made + 1 \in 1 .. MaxEvents /\ made' \in 0 .. MaxEvents
  BY BoundsAssumption DEF Invariant, History, InputEvent
<1>e. e \in Known(made')
  <2>1. \A b \in BOOLEAN :
          [id |-> made + 1, dev |-> d, kind |-> kind, again |-> b] \in Known(made')
    BY <1>n DEF Known, Events
  <2> QED
    BY <2>1, Zenon
<1>i. Idle /\ todo = <<>> /\ alive' = alive /\ split' = split
  BY DEF InputEvent, Idle
<1>p. phys' \in [Devices -> BOOLEAN]
  <2>1. PICK b \in BOOLEAN : b = (kind = "press")
    OBVIOUS
  <2>2. phys' = IF kind = "motion" THEN phys ELSE [phys EXCEPT ![d] = b]
    BY <2>1, Zenon DEF InputEvent
  <2> QED
    BY <2>2 DEF Invariant, History
<1>s. /\ Stack(todo, made') /\ pending \in Seq(Known(made'))
      /\ Ready(todo, made') /\ done \in [Devices -> 0 .. made'] /\ lastReport \in 0 .. made'
  <2>1. Stack(todo, made') /\ pending \in Seq(Known(made'))
    BY <1>n, KnownGrows DEF Invariant, Ready, Waiting
  <2> QED
    BY <1>n, <2>1 DEF Invariant, Ready, History
<1> HIDE DEF e
<1>1. CASE dev[d].frozen
  <2>1. EnqueueEvent(e) /\ dev' = dev /\ todo' = todo /\ playing' = playing /\ done' = done
    BY <1>1 DEF InputEvent, e
  <2>2. /\ pending' \in Seq(Known(made')) /\ tail' \in BOOLEAN /\ lastReport' \in 0 .. made'
        /\ \A i \in DOMAIN pending' :
             pending'[i] = e \/ (i \in DOMAIN pending /\ pending'[i] = pending[i])
    BY <1>n, <1>e, <1>s, <2>1, EnqueueTyped
  <2>3. Settled' /\ Ready(todo, made)'
    BY <1>i, <1>s, <2>1 DEF Invariant, Settled, Sound, Table, Fresh, Ready, Stack, OnePlay,
                            HasPlay, Duties
  <2>4. Waiting'
    BY <1>1, <2>1, <2>2 DEF Invariant, Waiting, Known, e
  <2>5. History'
    BY <1>n, <1>p, <1>i, <1>s, <2>1, <2>2 DEF Invariant, History
  <2> QED
    BY <2>3, <2>4, <2>5 DEF Invariant
<1>2. CASE ~dev[d].frozen
  <2>1. ProcessEvent(e, todo) /\ pending' = pending /\ tail' = tail
    BY <1>2, <1>i DEF InputEvent, e
  <2>2. Handled(made') /\ done' \in [Devices -> 0 .. made'] /\ lastReport' \in 0 .. made'
    BY <1>n, <1>e, <1>s, <2>1, ProcessHandled DEF Invariant
  <2>3. Settled' /\ Ready(todo, made)'
    BY <1>i, <2>2, HandledSettled DEF Invariant, Ready
  <2>4. Waiting'
    BY <1>s, <2>1, <2>2, HandledWaits DEF Invariant, Waiting, Known
  <2>5. History'
    BY <1>n, <1>p, <1>i, <2>2 DEF Invariant, History
  <2> QED
    BY <2>3, <2>4, <2>5 DEF Invariant
<1> QED
  BY <1>1, <1>2
\* What the requests and the steps of a running handler have in common: nothing
\* is made or enqueued.
LEMMA HandledInvariant ==
  ASSUME Invariant, Handled(made), alive' = alive,
         pending' = pending, tail' = tail, phys' = phys, made' = made, split' = split,
         done' \in [Devices -> 0 .. made], lastReport' \in 0 .. made
  PROVE  Invariant'
<1>1. Settled' /\ Ready(todo, made)'
  BY HandledSettled DEF Invariant, Ready
<1>2. Waiting'
  BY HandledWaits DEF Invariant, Waiting, Known
<1>3. History'
  BY DEF Invariant, History
<1> QED
  BY <1>1, <1>2, <1>3 DEF Invariant

\* A request of a client ends in ComputeFreezes.
LEMMA RequestInvariant ==
  ASSUME Invariant, Request, NEW D, Table(D), Sound(D), NEW replay,
         replay = <<>> \/ \E r \in Duties(made) : r.op = "replay" /\ replay = <<r>>,
         ComputeFreezes(D, replay, <<>>)
  PROVE  Invariant'
<1>1. todo = <<>>
  BY DEF Request, Idle
<1>2. Handled(made)
  BY <1>1, FreezesHandled DEF Invariant, Ready
<1> QED
  BY <1>2, HandledInvariant DEF Request, Invariant, History

LEMMA GrabInvariant ==
  ASSUME Invariant, NEW c \in Clients, NEW d \in Devices, NEW w \in Windows,
         NEW thisSync \in BOOLEAN, NEW otherSync \in BOOLEAN,
         GrabDevice(c, d, w, thisSync, otherSync)
  PROVE  Invariant'
<1> DEFINE A == ActivateGrab(dev, d, c, w, FALSE, thisSync, otherSync)
<1>1. Request /\ c \in alive /\ ComputeFreezes(A, <<>>, <<>>)
  BY DEF GrabDevice
<1>2. \A p \in BOOLEAN : Table(ActivateGrab(dev, d, c, w, p, thisSync, otherSync))
                         /\ Sound(ActivateGrab(dev, d, c, w, p, thisSync, otherSync))
  BY <1>1, ActivateSound DEF Invariant, Settled, Ready
<1>3. Table(A) /\ Sound(A)
  BY <1>2, Zenon
<1> HIDE DEF A
<1> QED
  BY <1>1, <1>3, RequestInvariant

LEMMA EndInvariant ==
  ASSUME Invariant, NEW d \in Devices, EndGrab(d)
  PROVE  Invariant'
<1>1. Table(DeactivateGrab(dev, d)) /\ Sound(DeactivateGrab(dev, d))
  BY DeactivateSound DEF Invariant, Settled
<1> QED
  BY <1>1, RequestInvariant DEF EndGrab

\* The tables AllowSome makes: the state of a grab's devices is another state of
\* a grab, and the devices it held are let go.
LEMMA AllowedSound ==
  ASSUME NEW D, Table(D), Sound(D), NEW A, A = [o \in Devices |-> A[o]],
         \A o \in Devices :
           \E s \in States \ {"NOT_GRABBED"}, t \in {D[o].other, None} :
             \/ /\ A[o] = [D[o] EXCEPT !.state = s, !.other = t]
                /\ D[o].grab # None
                /\ s = "FROZEN_WITH_EVENT" => D[o].state = s
             \/ A[o] = [D[o] EXCEPT !.other = t]
  PROVE  Table(A) /\ Sound(A) /\ Alike(A, D, {})
<1>1. ASSUME NEW o \in Devices
      PROVE  /\ A[o] \in DeviceRecords
             /\ A[o].grab = D[o].grab /\ A[o].window = D[o].window
             /\ A[o].event = D[o].event /\ A[o].other \in {D[o].other, None}
             /\ A[o].down = D[o].down /\ A[o].fromPassive = D[o].fromPassive
             /\ A[o].state = "FROZEN_WITH_EVENT" => D[o].state = "FROZEN_WITH_EVENT"
             /\ A[o].state = D[o].state \/
                (A[o].state # "NOT_GRABBED" /\ D[o].grab # None
                 /\ A[o].state # "FROZEN_WITH_EVENT")
  <2>1. D[o] \in DeviceRecords
    BY RecordType
  <2>2. PICK s \in States \ {"NOT_GRABBED"}, t \in {D[o].other, None} :
          \/ /\ A[o] = [D[o] EXCEPT !.state = s, !.other = t]
             /\ D[o].grab # None
             /\ s = "FROZEN_WITH_EVENT" => D[o].state = s
          \/ A[o] = [D[o] EXCEPT !.other = t]
    BY Zenon
  <2> QED
    BY <2>1, <2>2, ZenonT(60) DEF DeviceRecords
<1>2. Table(A)
  BY <1>1 DEF Table
<1>3. Sound(A)
  <2> SUFFICES ASSUME NEW o \in Devices
               PROVE  /\ A[o].other # None => A[A[o].other].grab # None
                      /\ A[o].state # "NOT_GRABBED" <=> A[o].grab # None
                      /\ A[o].grab # None => A[o].grab \in alive /\ A[o].window # 0
                      /\ A[o].state = "FROZEN_WITH_EVENT" => A[o].event \in Events
                      /\ A[o].fromPassive = TRUE => A[o].grab # None
    BY DEF Sound
  <2>1. D[o].other \in Devices \cup {None}
    BY RecordType DEF DeviceRecords
  <2>2. A[o].other # None => A[A[o].other].grab # None
    <3>1. \A x \in Devices : A[x].grab = D[x].grab
      BY <1>1
    <3>2. A[o].other \in {D[o].other, None}
      BY <1>1
    <3>3. D[o].other # None => D[D[o].other].grab # None
      BY DEF Sound
    <3> QED
      BY <2>1, <3>1, <3>2, <3>3
  <2>3. A[o].state # "NOT_GRABBED" <=> A[o].grab # None
    BY <1>1, ZenonT(60) DEF Sound
  <2>4. A[o].fromPassive = TRUE => A[o].grab # None
    <3>1. A[o].fromPassive = D[o].fromPassive /\ A[o].grab = D[o].grab
      BY <1>1
    <3> QED
      BY <3>1 DEF Sound
  <2>5. /\ A[o].grab # None => A[o].grab \in alive /\ A[o].window # 0
        /\ A[o].state = "FROZEN_WITH_EVENT" => A[o].event \in Events
    BY <1>1 DEF Sound
  <2> QED
    BY <2>2, <2>3, <2>4, <2>5
<1>4. Alike(A, D, {})
  BY <1>1 DEF Alike
<1> QED
  BY <1>2, <1>3, <1>4

\* AllowSome ends in ComputeFreezes, with a table that keeps the keys and the
\* events, and with the event of the grab when it is to be replayed.
LEMMA AllowFreezes ==
  ASSUME Settled, alive \subseteq Clients, NEW c \in Clients, NEW d \in Devices,
         NEW mode \in Modes, AllowSome(c, d, mode)
  PROVE  \E A, replay :
           /\ Table(A) /\ Sound(A) /\ Alike(A, dev, {})
           /\ \/ replay = <<>>
              \/ \E w \in Windows :
                   /\ dev[d].state = "FROZEN_WITH_EVENT" /\ dev[d].event \in Events
                   /\ replay = <<[op |-> "replay", event |-> dev[d].event, win |-> w]>>
           /\ ComputeFreezes(A, replay, <<>>)
<1> DEFINE others == Devices \ {d}
           thisGrabbed == dev[d].grab = c
           thisSynced == \E o \in others : dev[o].grab = c /\ dev[d].other = o
           This(state) == [dev EXCEPT ![d].state = IF thisGrabbed THEN state ELSE @,
                                      ![d].other = IF thisSynced THEN None ELSE @]
           All(state) == [o \in Devices |->
                            [dev[o] EXCEPT
                               !.state = IF dev[o].grab = c THEN state ELSE @,
                               !.other = IF OtherClient(dev, o) = c THEN None ELSE @]]
<1>c. c # None /\ Table(dev) /\ Sound(dev)
  BY NoneAssumption DEF Settled
<1>1. ASSUME NEW s \in States \ {"NOT_GRABBED"}, s = "FROZEN_WITH_EVENT" => dev[d].state = s
      PROVE  Table(This(s)) /\ Sound(This(s)) /\ Alike(This(s), dev, {})
  <2> DEFINE A == This(s)
  <2>1. A = [o \in Devices |-> A[o]]
    BY <1>c DEF Table
  <2>2. ASSUME NEW o \in Devices
        PROVE  \E x \in States \ {"NOT_GRABBED"}, t \in {dev[o].other, None} :
                 \/ /\ A[o] = [dev[o] EXCEPT !.state = x, !.other = t]
                    /\ dev[o].grab # None
                    /\ x = "FROZEN_WITH_EVENT" => dev[o].state = x
                 \/ A[o] = [dev[o] EXCEPT !.other = t]
    <3>0. dev[o] \in DeviceRecords
      BY <1>c, RecordType
    <3> DEFINE t == IF o = d /\ thisSynced THEN None ELSE dev[o].other
    <3>1. t \in {dev[o].other, None}
      OBVIOUS
    <3> HIDE DEF thisSynced
    <3>2. CASE o = d /\ thisGrabbed
      <4>1. A[o] = [dev[o] EXCEPT !.state = s, !.other = t]
        BY <1>c, <3>0, <3>2 DEF Table, DeviceRecords
      <4>2. dev[o].grab # None /\ (s = "FROZEN_WITH_EVENT" => dev[o].state = s)
        BY <1>1, <1>c, <3>2
      <4> HIDE DEF A, t
      <4> QED
        BY <3>1, <4>1, <4>2, Zenon
    <3>3. CASE ~(o = d /\ thisGrabbed)
      <4>1. A[o] = [dev[o] EXCEPT !.other = t]
        BY <1>c, <3>0, <3>3 DEF Table, DeviceRecords
      <4> HIDE DEF A, t
      <4> QED
        BY <1>1, <3>1, <4>1, Zenon
    <3> QED
      BY <3>2, <3>3
  <2> HIDE DEF A
  <2>3. Table(A) /\ Sound(A) /\ Alike(A, dev, {})
    BY <1>c, <2>1, <2>2, AllowedSound
  <2> QED
    BY <2>3 DEF A
<1>2. ASSUME NEW s \in {"THAWED", "FREEZE_BOTH_NEXT_EVENT"}
      PROVE  Table(All(s)) /\ Sound(All(s)) /\ Alike(All(s), dev, {})
  <2> DEFINE A == All(s)
  <2>1. A = [o \in Devices |-> A[o]]
    OBVIOUS
  <2>2. ASSUME NEW o \in Devices
        PROVE  \E x \in States \ {"NOT_GRABBED"}, t \in {dev[o].other, None} :
                 \/ /\ A[o] = [dev[o] EXCEPT !.state = x, !.other = t]
                    /\ dev[o].grab # None
                    /\ x = "FROZEN_WITH_EVENT" => dev[o].state = x
                 \/ A[o] = [dev[o] EXCEPT !.other = t]
    <3>0. dev[o] \in DeviceRecords /\ s \in States \ {"NOT_GRABBED"} /\ s # "FROZEN_WITH_EVENT"
      BY <1>c, RecordType DEF States
    <3> DEFINE t == IF OtherClient(dev, o) = c THEN None ELSE dev[o].other
    <3>1. t \in {dev[o].other, None}
      OBVIOUS
    <3>2. CASE dev[o].grab = c
      <4>1. A[o] = [dev[o] EXCEPT !.state = s, !.other = t]
        BY <3>0, <3>2 DEF DeviceRecords
      <4> HIDE DEF A, t
      <4> QED
        BY <1>c, <3>0, <3>1, <3>2, <4>1, Zenon
    <3>3. CASE dev[o].grab # c
      <4>1. A[o] = [dev[o] EXCEPT !.other = t]
        BY <3>0, <3>3 DEF DeviceRecords
      <4> HIDE DEF A, t
      <4> QED
        BY <3>0, <3>1, <4>1, Zenon
    <3> QED
      BY <3>2, <3>3
  <2> HIDE DEF A
  <2>3. Table(A) /\ Sound(A) /\ Alike(A, dev, {})
    BY <1>c, <2>1, <2>2, AllowedSound
  <2> QED
    BY <2>3 DEF A
<1>4. \/ ComputeFreezes(This("THAWED"), <<>>, <<>>)
      \/ ComputeFreezes(This("FREEZE_NEXT_EVENT"), <<>>, <<>>)
      \/ ComputeFreezes(All("THAWED"), <<>>, <<>>)
      \/ ComputeFreezes(All("FREEZE_BOTH_NEXT_EVENT"), <<>>, <<>>)
      \/ /\ thisGrabbed /\ dev[d].state = "FROZEN_WITH_EVENT"
         /\ ComputeFreezes(
              DeactivateGrab(This("FROZEN_WITH_EVENT"), d),
              <<[op |-> "replay", event |-> dev[d].event, win |-> dev[d].window]>>,
              <<>>)
  BY Zenon DEF AllowSome
<1>5. /\ "THAWED" \in States \ {"NOT_GRABBED"}
      /\ "FREEZE_NEXT_EVENT" \in States \ {"NOT_GRABBED"}
      /\ "FROZEN_WITH_EVENT" \in States \ {"NOT_GRABBED"}
  BY DEF States, Frozen
<1> HIDE DEF This, All
<1>6. CASE ComputeFreezes(This("THAWED"), <<>>, <<>>)
  BY <1>1, <1>5, <1>6
<1>7. CASE ComputeFreezes(This("FREEZE_NEXT_EVENT"), <<>>, <<>>)
  BY <1>1, <1>5, <1>7
<1>8. CASE ComputeFreezes(All("THAWED"), <<>>, <<>>)
  BY <1>2, <1>8
<1>9. CASE ComputeFreezes(All("FREEZE_BOTH_NEXT_EVENT"), <<>>, <<>>)
  BY <1>2, <1>9
<1>10. CASE /\ thisGrabbed /\ dev[d].state = "FROZEN_WITH_EVENT"
            /\ ComputeFreezes(
                 DeactivateGrab(This("FROZEN_WITH_EVENT"), d),
                 <<[op |-> "replay", event |-> dev[d].event, win |-> dev[d].window]>>,
                 <<>>)
  <2> DEFINE A == DeactivateGrab(This("FROZEN_WITH_EVENT"), d)
             r == [op |-> "replay", event |-> dev[d].event, win |-> dev[d].window]
  <2>1. /\ Table(This("FROZEN_WITH_EVENT")) /\ Sound(This("FROZEN_WITH_EVENT"))
        /\ Alike(This("FROZEN_WITH_EVENT"), dev, {})
    BY <1>1, <1>5, <1>10
  <2>2. Table(A) /\ Sound(A) /\ Alike(A, This("FROZEN_WITH_EVENT"), {})
    BY <2>1, DeactivateSound, DeactivateAlike
  <2>3. Alike(A, dev, {})
    BY <2>1, <2>2, AlikeAfter
  <2>4. dev[d].event \in Events /\ dev[d].window \in Windows
    <3>1. dev[d].window \in 0 .. Depth
      BY <1>c, RecordType DEF DeviceRecords
    <3> QED
      BY <1>c, <1>10, <3>1, BoundsAssumption DEF Sound, Windows
  <2>5. ComputeFreezes(A, <<r>>, <<>>)
    BY <1>10
  <2> HIDE DEF A
  <2> QED
    BY <1>10, <2>2, <2>3, <2>4, <2>5
<1> QED
  BY <1>4, <1>6, <1>7, <1>8, <1>9, <1>10

LEMMA AllowInvariant ==
  ASSUME Invariant, NEW c \in Clients, NEW d \in Devices, NEW mode \in Modes,
         AllowSome(c, d, mode)
  PROVE  Invariant'
<1>1. PICK A, replay :
        /\ Table(A) /\ Sound(A)
        /\ \/ replay = <<>>
           \/ \E w \in Windows :
                /\ dev[d].event \in Events
                /\ replay = <<[op |-> "replay", event |-> dev[d].event, win |-> w]>>
        /\ ComputeFreezes(A, replay, <<>>)
  <2>1. Settled /\ alive \subseteq Clients
    BY DEF Invariant, Ready
  <2> QED
    BY <2>1, AllowFreezes
<1>2. replay = <<>> \/ \E r \in Duties(made) : r.op = "replay" /\ replay = <<r>>
  <2> SUFFICES ASSUME NEW w \in Windows, dev[d].event \in Events
               PROVE  [op |-> "replay", event |-> dev[d].event, win |-> w] \in Duties(made)
    BY <1>1
  <2> QED
    BY DEF Duties, Continuations
<1> QED
  BY <1>1, <1>2, RequestInvariant DEF AllowSome

-----------------------------------------------------------------------------
(* The steps of the running handler.                                       *)

\* The first waiting event that is ready.
LEMMA FirstIsLeast ==
  ASSUME NEW S, S \subseteq Nat, S # {}
  PROVE  LET i == CHOOSE j \in S : \A k \in S : j <= k
         IN  i \in S /\ \A k \in S : i <= k
<1>1. PICK R : IsWellFoundedOn(R, Nat) /\ \A x, y \in Nat : y < x => <<y, x>> \in R
  <2> DEFINE R == OpToRel(<, Nat)
  <2>1. \A x, y \in Nat : y < x => <<y, x>> \in R
    BY DEF OpToRel
  <2>2. IsWellFoundedOn(R, Nat)
    BY NatLessThanWellFounded
  <2> QED
    BY <2>1, <2>2
<1>2. PICK x \in S : \A y \in S : <<y, x>> \notin R
  BY <1>1, WFMin, Zenon
<1>3. \A y \in S : ~(y < x)
  BY <1>1, <1>2, Zenon
<1>4. \A y \in S : x <= y
  BY <1>3
<1> QED
  BY <1>4

LEMMA PlayInvariant ==
  ASSUME Invariant, PlayReleasedEvents
  PROVE  Invariant'
<1> DEFINE ready == {i \in DOMAIN pending : ~dev[pending[i].dev].frozen}
           i == CHOOSE j \in ready : \A k \in ready : j <= k
<1>1. /\ todo # <<>> /\ Head(todo).op = "play" /\ Stack(Tail(todo), made)
      /\ HasPlay(todo) /\ ~HasPlay(Tail(todo)) /\ playing /\ alive \subseteq Clients
  BY Pop DEF PlayReleasedEvents, Top, Invariant, Ready
<1>2. alive' = alive /\ phys' = phys /\ made' = made /\ split' = split
  BY DEF PlayReleasedEvents
<1>3. CASE ready = {}
  <2>1. /\ playing' = FALSE /\ todo' = Tail(todo) /\ dev' = dev /\ pending' = pending
        /\ tail' = tail /\ done' = done /\ lastReport' = lastReport
    BY <1>3 DEF PlayReleasedEvents
  <2>2. Settled'
    BY <1>2, <2>1 DEF Invariant, Settled, Table, Sound, Fresh
  <2>3. Ready(todo, made)'
    <3>1. Stack(todo', made') /\ ~HasPlay(todo') /\ ~playing' /\ playing' \in BOOLEAN
      BY <1>1, <1>2, <2>1, Zenon
    <3> QED
      BY <1>1, <1>2, <3>1, Zenon DEF Ready, Stack, HasPlay, OnePlay, Duties
  <2>4. Waiting'
    BY <1>2, <1>3, <2>1 DEF Invariant, Waiting, Known
  <2>5. History'
    BY <1>2, <2>1 DEF Invariant, History
  <2> QED
    BY <2>2, <2>3, <2>4, <2>5 DEF Invariant
<1>4. CASE ready # {}
  <2>1. /\ pending' = SubSeq(pending, 1, i - 1) \o SubSeq(pending, i + 1, Len(pending))
        /\ tail' = ((tail /\ i # Len(pending)) \/ Len(pending) = 1)
        /\ ProcessEvent(pending[i], todo)
    BY <1>4 DEF PlayReleasedEvents
  <2>2. i \in DOMAIN pending /\ pending \in Seq(Known(made)) /\ made \in Nat
    <3>1. pending \in Seq(Known(made)) /\ made \in Nat /\ ready \subseteq Nat
      BY DEF Invariant, Waiting, History
    <3> HIDE DEF ready
    <3>2. i \in ready
      BY <1>4, <3>1, FirstIsLeast
    <3> QED
      BY <3>1, <3>2 DEF ready
  <2> HIDE DEF i
  <2>3. pending' \in Seq(Known(made))
    BY <2>1, <2>2
  <2>4. /\ Handled(made) /\ done' \in [Devices -> 0 .. made]
        /\ lastReport' \in 0 .. made
    <3>1. pending[i] \in Known(made)
      BY <2>2
    <3> QED
      BY <2>1, <2>2, <3>1, ProcessHandled DEF Invariant, History
  <2>5. Settled' /\ Ready(todo, made)'
    BY <1>1, <1>2, <2>4, HandledSettled
  <2>6. Waiting'
    <3>1. playing' /\ tail' \in BOOLEAN
      BY <1>1, <2>1, <2>4, Zenon DEF Handled
    <3> QED
      BY <1>2, <2>3, <3>1 DEF Waiting, Known
  <2>7. History'
    BY <1>2, <2>4 DEF Invariant, History
  <2> QED
    BY <2>5, <2>6, <2>7 DEF Invariant
<1> QED
  BY <1>3, <1>4

\* The rest of the stack when the top is not the playing loop.
LEMMA RestReady ==
  ASSUME Invariant, todo # <<>>, Head(todo).op # "play"
  PROVE  Ready(Tail(todo), made) /\ Head(todo) \in Continuations
BY Pop DEF Invariant, Ready, Duties

LEMMA ReplayInvariant ==
  ASSUME Invariant, ReplayEvent
  PROVE  Invariant'
<1>1. todo # <<>> /\ Head(todo).op = "replay"
  BY DEF ReplayEvent, Top
<1>2. Ready(Tail(todo), made) /\ Head(todo) \in Continuations
  BY <1>1, RestReady
<1>3. Head(todo).event \in Events /\ Head(todo).win \in Windows
  BY <1>1, <1>2 DEF Continuations
<1>4. PICK first \in 1 .. Depth + 1 :
        CheckDeviceGrabs(dev, Head(todo).event, first, Tail(todo))
  BY <1>3, BoundsAssumption DEF ReplayEvent, Windows
<1>5. Handled(made)
  BY <1>2, <1>3, <1>4, CheckHandled DEF Invariant, Settled, StaysFrozen
<1> QED
  BY <1>5, HandledInvariant DEF ReplayEvent, Invariant, History

LEMMA SaveInvariant ==
  ASSUME Invariant, SaveEvent
  PROVE  Invariant'
<1> DEFINE e == Head(todo).event
           d == e.dev
           A == [dev EXCEPT ![d] = IF @.state = "FROZEN_NO_EVENT"
                   THEN [@ EXCEPT !.state = "FROZEN_WITH_EVENT", !.event = e] ELSE @]
<1>1. todo # <<>> /\ Head(todo).op = "save"
  BY DEF SaveEvent, Top
<1>2. Ready(Tail(todo), made) /\ Head(todo) \in Continuations
  BY <1>1, RestReady
<1>3. e \in Events /\ d \in Devices
  BY <1>1, <1>2 DEF Continuations, Events
<1>t. Table(dev) /\ Sound(dev) /\ Fresh(dev)
  BY DEF Invariant, Settled
<1>4. ASSUME NEW o \in Devices
      PROVE  /\ A[o] \in DeviceRecords
             /\ A[o].other = dev[o].other /\ A[o].grab = dev[o].grab
             /\ A[o].window = dev[o].window /\ A[o].frozen = dev[o].frozen
             /\ A[o].fromPassive = dev[o].fromPassive
             /\ \/ A[o].state = dev[o].state /\ A[o].event = dev[o].event
                \/ /\ A[o].state = "FROZEN_WITH_EVENT" /\ A[o].event \in Events
                   /\ dev[o].state = "FROZEN_NO_EVENT"
  <2>1. dev[o] \in DeviceRecords
    BY <1>t, RecordType
  <2> QED
    BY <1>t, <1>3, <2>1 DEF Table, DeviceRecords, States, Frozen
<1>5. Table(A)
  <2>1. A = [o \in Devices |-> A[o]]
    BY <1>t DEF Table
  <2> HIDE DEF A
  <2> QED
    BY <2>1, <1>4 DEF Table
<1>6. Return(A, Tail(todo))
  BY DEF SaveEvent
<1> HIDE DEF A
<1>7. Sound(A)
  <2>1. ASSUME NEW o \in Devices PROVE dev[o].other \in Devices \cup {None}
    BY <1>t, RecordType DEF DeviceRecords
  <2> QED
    BY <1>t, <1>4, <2>1 DEF Sound
<1>8. Fresh(A) /\ StaysFrozen(A)
  BY <1>t, <1>4 DEF Fresh, StaysFrozen, Frozen
<1>9. Handled(made)
  BY <1>2, <1>5, <1>6, <1>7, <1>8, ReturnHandled DEF Ready
<1> QED
  BY <1>9, HandledInvariant DEF SaveEvent, Invariant, History
LEMMA AgainInvariant ==
  ASSUME Invariant, PressAgain
  PROVE  Invariant'
<1> DEFINE e == Head(todo).event
<1>1. todo # <<>> /\ Head(todo).op = "again"
  BY DEF PressAgain, Top
<1>2. Ready(Tail(todo), made) /\ Head(todo) \in Duties(made) /\ made \in Nat
  BY <1>1, RestReady, Pop DEF Invariant, Ready, History
<1>3. e \in Known(made) /\ e \in Events
  BY <1>1, <1>2 DEF Duties, Known, Continuations
<1>4. alive' = alive /\ phys' = phys /\ made' = made
  BY DEF PressAgain
<1>5. CASE dev[e.dev].frozen
  <2>1. EnqueueEvent(e) /\ split' = TRUE /\ todo' = Tail(todo)
        /\ dev' = dev /\ playing' = playing /\ done' = done
    BY <1>5 DEF PressAgain
  <2> HIDE DEF e
  <2>2. /\ pending' \in Seq(Known(made)) /\ tail' = TRUE /\ lastReport' \in 0 .. made
        /\ \A i \in DOMAIN pending' :
             pending'[i] = e \/ (i \in DOMAIN pending /\ pending'[i] = pending[i])
    BY <1>2, <1>3, <2>1, EnqueueTyped DEF Invariant, Waiting
  <2>3. Settled'
    BY <1>4, <2>1 DEF Invariant, Settled, Table, Sound, Fresh
  <2>4. Ready(todo, made)'
    BY <1>2, <1>4, <2>1 DEF Ready, Stack, HasPlay, OnePlay, Duties
  <2>5. Waiting'
    BY <1>4, <1>5, <2>1, <2>2 DEF Invariant, Waiting, Known
  <2>6. History'
    <3>1. split' \in BOOLEAN
      BY <2>1
    <3> QED
      BY <1>4, <2>1, <2>2, <3>1 DEF Invariant, History
  <2> QED
    BY <2>3, <2>4, <2>5, <2>6 DEF Invariant
<1>6. CASE ~dev[e.dev].frozen
  <2>1. /\ ProcessEvent(e, Tail(todo)) /\ pending' = pending /\ tail' = tail
        /\ split' = split
    BY <1>6 DEF PressAgain
  <2>2. /\ Handled(made) /\ done' \in [Devices -> 0 .. made]
        /\ lastReport' \in 0 .. made
    BY <1>2, <1>3, <2>1, ProcessHandled DEF Invariant, History
  <2> QED
    BY <1>4, <2>1, <2>2, HandledInvariant
<1> QED
  BY <1>5, <1>6

\* The client goes when no device is grabbed by it.
LEMMA ReleaseInvariant ==
  ASSUME Invariant, ReleaseActiveGrabs
  PROVE  Invariant'
<1> DEFINE c == Head(todo).client
           mine == {d \in Devices : dev[d].grab = c}
<1>1. todo # <<>> /\ Head(todo).op = "release"
  BY DEF ReleaseActiveGrabs, Top
<1>2. Ready(Tail(todo), made)
  BY <1>1, RestReady
<1>3. /\ pending' = pending /\ tail' = tail /\ phys' = phys /\ made' = made
      /\ done' = done /\ split' = split /\ lastReport' = lastReport
  BY DEF ReleaseActiveGrabs
<1>4. CASE mine = {}
  <2>1. /\ alive' = alive \ {c} /\ dev' = dev /\ todo' = Tail(todo)
        /\ playing' = playing
    BY <1>4 DEF ReleaseActiveGrabs, Return
  <2>2. \A d \in Devices : dev[d].grab # c
    BY <1>4
  <2> HIDE DEF c
  <2>3. Settled'
    <3>1. Table(dev)' /\ Fresh(dev)'
      BY <2>1 DEF Invariant, Settled, Table, Fresh
    <3>2. Sound(dev)'
      BY <2>1, <2>2 DEF Invariant, Settled, Sound
    <3> QED
      BY <3>1, <3>2 DEF Settled
  <2>4. Ready(todo, made)'
    BY <1>2, <1>3, <2>1 DEF Ready, Stack, HasPlay, OnePlay, Duties
  <2>5. Waiting'
    BY <1>3, <2>1 DEF Invariant, Waiting, Known
  <2>6. History'
    BY <1>3 DEF Invariant, History
  <2> QED
    BY <2>3, <2>4, <2>5, <2>6 DEF Invariant
<1>5. CASE mine # {}
  <2>1. alive' = alive
    BY <1>5 DEF ReleaseActiveGrabs
  <2>2. PICK d \in mine : ComputeFreezes(DeactivateGrab(dev, d), <<>>, todo)
    BY <1>5 DEF ReleaseActiveGrabs
  <2>3. Table(DeactivateGrab(dev, d)) /\ Sound(DeactivateGrab(dev, d))
    BY DeactivateSound DEF Invariant, Settled
  <2>4. Handled(made)
    BY <2>2, <2>3, FreezesHandled DEF Invariant, Ready
  <2> QED
    BY <1>3, <2>1, <2>4, HandledInvariant DEF Invariant, History
<1> QED
  BY <1>4, <1>5

LEMMA CloseInvariant ==
  ASSUME Invariant, NEW c \in Clients, CloseClient(c)
  PROVE  Invariant'
<1> DEFINE k == [op |-> "release", client |-> c]
<1>1. Request /\ todo = <<>> /\ todo' = <<k>> /\ dev' = dev /\ playing' = playing
  BY DEF CloseClient, Request, Idle
<1>2. /\ pending' = pending /\ tail' = tail /\ phys' = phys /\ made' = made
      /\ done' = done /\ split' = split /\ lastReport' = lastReport /\ alive' = alive
  BY <1>1 DEF Request
<1>3. k \in Duties(made) /\ k.op # "play"
  BY DEF Duties, Continuations
<1> HIDE DEF k
<1>4. Stack(<<k>> \o todo, made) /\ (HasPlay(<<k>> \o todo) <=> HasPlay(todo))
  BY <1>3, Push DEF Invariant, Ready
<1>5. <<k>> \o todo = todo'
  BY <1>1
<1>6. Handled(made)
  BY <1>1, <1>4, <1>5 DEF Invariant, Settled, Ready, Handled, StaysFrozen
<1> QED
  BY <1>2, <1>6, HandledInvariant DEF Invariant, History

LEMMA NewInvariant ==
  ASSUME Invariant, NEW c \in Clients, NewClient(c)
  PROVE  Invariant'
<1>1. /\ alive' = alive \cup {c} /\ dev' = dev /\ pending' = pending /\ tail' = tail
      /\ playing' = playing /\ todo' = todo /\ phys' = phys /\ made' = made
      /\ done' = done /\ split' = split /\ lastReport' = lastReport
  BY DEF NewClient
<1>2. Settled'
  <2>1. Table(dev)' /\ Fresh(dev)'
    BY <1>1 DEF Invariant, Settled, Table, Fresh
  <2>2. Sound(dev)'
    BY <1>1 DEF Invariant, Settled, Sound
  <2> QED
    BY <2>1, <2>2 DEF Settled
<1>3. Ready(todo, made)'
  BY <1>1 DEF Invariant, Ready, Stack, HasPlay, OnePlay, Duties
<1>4. Waiting'
  BY <1>1 DEF Invariant, Waiting, Known
<1>5. History'
  BY <1>1 DEF Invariant, History
<1> QED
  BY <1>2, <1>3, <1>4, <1>5 DEF Invariant

LEMMA Invariance == Spec => []Invariant
<1>1. Invariant /\ [Next]_vars => Invariant'
  <2> SUFFICES ASSUME Invariant, [Next]_vars PROVE Invariant'
    OBVIOUS
  <2>1. ASSUME NEW d \in Devices, NEW kind \in {"press", "release", "motion"},
               InputEvent(d, kind)
        PROVE  Invariant'
    BY <2>1, InputInvariant
  <2>2. ASSUME NEW c \in Clients, NEW d \in Devices, NEW w \in Windows,
               NEW thisSync \in BOOLEAN, NEW otherSync \in BOOLEAN,
               GrabDevice(c, d, w, thisSync, otherSync)
        PROVE  Invariant'
    BY <2>2, GrabInvariant
  <2>3. ASSUME NEW c \in Clients, NEW d \in Devices, NEW mode \in Modes,
               AllowSome(c, d, mode)
        PROVE  Invariant'
    BY <2>3, AllowInvariant
  <2>4. ASSUME NEW d \in Devices, EndGrab(d) PROVE Invariant'
    BY <2>4, EndInvariant
  <2>5. ASSUME NEW c \in Clients, CloseClient(c) PROVE Invariant'
    BY <2>5, CloseInvariant
  <2>6. ASSUME NEW c \in Clients, NewClient(c) PROVE Invariant'
    BY <2>6, NewInvariant
  <2>7. CASE ServerStep
    BY <2>7, PlayInvariant, ReplayInvariant, AgainInvariant, SaveInvariant,
       ReleaseInvariant DEF ServerStep
  <2>8. CASE UNCHANGED vars
    BY <2>8 DEF vars, Invariant, Settled, Table, Sound, Fresh, Ready, Stack, OnePlay,
                HasPlay, Duties, Waiting, Known, History
  <2> QED
    BY <2>1, <2>2, <2>3, <2>4, <2>5, <2>6, <2>7, <2>8 DEF Next
<1> QED
  BY <1>1, InitInvariant, PTL DEF Spec

-----------------------------------------------------------------------------
(* Type correctness: the table, the queue of waiting events and the stack  *)
(* of the running handler; playingEvents says that PlayReleasedEvents is   *)
(* on that stack, and it is there only once.                               *)
THEOREM TypeCorrect == Spec => []TypeOK
<1>1. Invariant => TypeOK
  <2> SUFFICES ASSUME Invariant PROVE TypeOK
    OBVIOUS
  <2>1. Known(made) \subseteq Events /\ Duties(made) \subseteq Continuations
    BY DEF Known, Duties
  <2>2. pending \in Seq(Events) /\ todo \in Seq(Continuations)
    BY <2>1 DEF Invariant, Waiting, Ready, Stack
  <2> QED
    BY <2>2 DEF Invariant, Settled, Table, Ready, HasPlay, Waiting, History, TypeOK
<1> QED
  BY <1>1, Invariance, PTL

\* sync.frozen, which decides where an event goes, is never stale: a device is
\* frozen exactly when a grab holds it, and that grab is active.
THEOREM FreezeExplained == Spec => []FreezeIsExplained
<1>1. Invariant => FreezeIsExplained
  BY DEF Invariant, Settled, Sound, Fresh, FreezeIsExplained
<1> QED
  BY <1>1, Invariance, PTL

\* When the server is idle an event that waits is of a frozen device, and every
\* grab is a grab of a client that is there to end it.
THEOREM NothingLeftBehind == Spec => []NothingStranded
<1>1. Invariant => NothingStranded
  <2> SUFFICES ASSUME Invariant, Idle
               PROVE  /\ ~playing /\ \A i \in DOMAIN pending : dev[pending[i].dev].frozen
                      /\ \A d \in Devices : dev[d].grab # None => dev[d].grab \in alive
    BY DEF NothingStranded
  <2>1. ~playing
    BY DEF Idle, Invariant, Ready, HasPlay
  <2> QED
    BY <2>1 DEF Invariant, Waiting, Settled, Sound
<1> QED
  BY <1>1, Invariance, PTL

-----------------------------------------------------------------------------
(***************************************************************************)
(* The order of events.  Under says that a duty on the stack is done       *)
(* before the playing loop goes on; Grown that t is the stack s with some  *)
(* of the duties K, and perhaps the playing loop, pushed on it.            *)
(***************************************************************************)
Eventful == {"again", "save", "replay"}

Under(s, m) == \E k \in DOMAIN s : m < k /\ s[k].op = "play"

AgainOf(s, d) == \E m \in DOMAIN s : s[m].op = "again" /\ s[m].event.dev = d

Grown(t, s, K) ==
  /\ \A m \in DOMAIN t : t[m].op \in Eventful =>
       \/ \E k \in DOMAIN s : t[m] = s[k] /\ (Under(s, k) => Under(t, m))
       \/ t[m] \in K /\ (HasPlay(s) => Under(t, m))
  /\ \A k \in DOMAIN s : \E m \in DOMAIN t : t[m] = s[k]

\* A stack may have grown by nothing,
LEMMA GrownNone ==
  ASSUME NEW s, NEW K
  PROVE  Grown(s, s, K)
BY Zenon DEF Grown

\* by one duty that is allowed or carries no event,
LEMMA GrownMore ==
  ASSUME NEW X, NEW t \in Seq(X), NEW s, NEW K, NEW k \in X,
         Grown(t, s, K), k.op \in Eventful => k \in K
  PROVE  Grown(<<k>> \o t, s, K)
<1> DEFINE u == <<k>> \o t
<1>1. /\ DOMAIN u = 1 .. Len(t) + 1 /\ DOMAIN t = 1 .. Len(t) /\ Len(t) \in Nat
      /\ u[1] = k /\ \A i \in 1 .. Len(t) : u[i + 1] = t[i]
  OBVIOUS
<1> HIDE DEF u
<1>2. ASSUME NEW m \in DOMAIN t, Under(t, m) PROVE Under(u, m + 1)
  <2>1. PICK i \in DOMAIN t : m < i /\ t[i].op = "play"
    BY <1>2 DEF Under
  <2>2. i + 1 \in DOMAIN u /\ m + 1 < i + 1 /\ u[i + 1].op = "play"
    BY <1>1, <2>1
  <2> QED
    BY <2>2 DEF Under
<1>3. HasPlay(s) => Under(u, 1)
  <2> SUFFICES ASSUME HasPlay(s) PROVE Under(u, 1)
    OBVIOUS
  <2>1. PICK i \in DOMAIN t : t[i].op = "play"
    BY DEF HasPlay, Grown
  <2>2. i + 1 \in DOMAIN u /\ 1 < i + 1 /\ u[i + 1].op = "play"
    BY <1>1, <2>1
  <2> QED
    BY <2>2 DEF Under
<1>4. ASSUME NEW m \in DOMAIN u, u[m].op \in Eventful
      PROVE  \/ \E i \in DOMAIN s : u[m] = s[i] /\ (Under(s, i) => Under(u, m))
             \/ u[m] \in K /\ (HasPlay(s) => Under(u, m))
  <2>1. CASE m = 1
    BY <1>1, <1>3, <1>4, <2>1
  <2>2. CASE m # 1
    <3>1. PICK j \in DOMAIN t : m = j + 1 /\ u[m] = t[j]
      <4>1. m - 1 \in DOMAIN t /\ m = (m - 1) + 1
        BY <1>1, <2>2
      <4> QED
        BY <1>1, <4>1
    <3>2. \/ \E i \in DOMAIN s : t[j] = s[i] /\ (Under(s, i) => Under(t, j))
          \/ t[j] \in K /\ (HasPlay(s) => Under(t, j))
      BY <1>4, <3>1 DEF Grown
    <3> QED
      BY <1>2, <3>1, <3>2
  <2> QED
    BY <2>1, <2>2
<1>5. ASSUME NEW i \in DOMAIN s PROVE \E m \in DOMAIN u : u[m] = s[i]
  <2>1. PICK j \in DOMAIN t : t[j] = s[i]
    BY DEF Grown
  <2>2. j + 1 \in DOMAIN u /\ u[j + 1] = s[i]
    BY <1>1, <2>1
  <2> QED
    BY <2>2
<1> QED
  BY <1>4, <1>5 DEF Grown, u

\* and by what it grew in two steps.
LEMMA GrownTwice ==
  ASSUME NEW u, NEW t, NEW s, NEW K, NEW L, L \subseteq K,
         Grown(u, t, L), Grown(t, s, K)
  PROVE  Grown(u, s, K)
<1>1. HasPlay(s) => HasPlay(t)
  BY Zenon DEF Grown, HasPlay
<1>2. ASSUME NEW m \in DOMAIN u, u[m].op \in Eventful
      PROVE  \/ \E i \in DOMAIN s : u[m] = s[i] /\ (Under(s, i) => Under(u, m))
             \/ u[m] \in K /\ (HasPlay(s) => Under(u, m))
  <2>1. CASE u[m] \in L /\ (HasPlay(t) => Under(u, m))
    BY <1>1, <2>1
  <2>2. ASSUME NEW k \in DOMAIN t, u[m] = t[k], Under(t, k) => Under(u, m)
        PROVE  \/ \E i \in DOMAIN s : u[m] = s[i] /\ (Under(s, i) => Under(u, m))
               \/ u[m] \in K /\ (HasPlay(s) => Under(u, m))
    <3>1. \/ \E i \in DOMAIN s : t[k] = s[i] /\ (Under(s, i) => Under(t, k))
          \/ t[k] \in K /\ (HasPlay(s) => Under(t, k))
      BY <1>2, <2>2, Zenon DEF Grown
    <3> QED
      BY <2>2, <3>1, Zenon
  <2> QED
    BY <1>2, <2>1, <2>2, Zenon DEF Grown
<1>3. ASSUME NEW i \in DOMAIN s PROVE \E m \in DOMAIN u : u[m] = s[i]
  BY Zenon DEF Grown
<1> QED
  BY <1>2, <1>3, Zenon DEF Grown

-----------------------------------------------------------------------------
(* What a handler does with the event e, when rest is what its callers     *)
(* still have to do.                                                       *)

Copies(e) == {x \in Events : x.dev = e.dev /\ x.id = e.id}

Saves(e) ==
  {k \in Continuations : k.op = "save" /\ k.event.dev = e.dev /\ k.event.id = e.id}

Presses(e) ==
  {k \in Continuations :
     /\ k.op = "again" /\ k.event.dev = e.dev /\ k.event.id = e.id
     /\ e.kind = "press" /\ e.dev # Pointer
     /\ k.event.kind = "press" /\ k.event.again = TRUE}

NewDuties(e) == Saves(e) \cup Presses(e)

Does(D, rest, e) == Alike(dev', D, Copies(e)) /\ Grown(todo', rest, Saves(e))

\* ComputeFreezes pushes the playing loop only and changes no key.
LEMMA FreezesGrow ==
  ASSUME NEW D, Table(D), NEW n, NEW rest, Stack(rest, n), NEW s, NEW K,
         Grown(rest, s, K), ComputeFreezes(D, <<>>, rest)
  PROVE  Alike(dev', D, {}) /\ Grown(todo', s, K)
<1>1. Alike(dev', D, {})
  BY RefrozenAlike DEF ComputeFreezes
<1>2. todo' = rest \/ todo' = <<[op |-> "play"]>> \o rest
  <2>1. todo' = rest \/ todo' = <<>> \o <<[op |-> "play"]>> \o rest
    BY Zenon DEF ComputeFreezes
  <2> QED
    BY <2>1 DEF Stack
<1>3. CASE todo' = rest
  BY <1>1, <1>3
<1>4. CASE todo' = <<[op |-> "play"]>> \o rest
  <2> DEFINE k == [op |-> "play"]
  <2>1. k \in Duties(n) /\ k.op \notin Eventful
    BY DEF Duties, Continuations, Eventful
  <2> HIDE DEF k
  <2>2. Grown(<<k>> \o rest, s, K)
    BY <2>1, GrownMore DEF Stack
  <2> QED
    BY <1>1, <1>4, <2>2 DEF k
<1> QED
  BY <1>2, <1>3, <1>4

\* The more events may be kept for replay, the weaker the promise.
LEMMA AlikeMore ==
  ASSUME NEW A, NEW D, NEW E, NEW F, E \subseteq F, Alike(A, D, E)
  PROVE  Alike(A, D, F)
BY DEF Alike

\* A return does nothing.
LEMMA ReturnDoes ==
  ASSUME NEW D, NEW rest, NEW e, Return(D, rest)
  PROVE  Does(D, rest, e)
<1>1. Alike(D, D, Copies(e))
  BY DEF Alike
<1> QED
  BY <1>1, GrownNone DEF Return, Does

\* A press that meets a passive grab pushes at most the saving of that press.
LEMMA CheckDoes ==
  ASSUME NEW D, NEW rest, NEW n, NEW e \in Events, NEW first \in 1 .. Depth + 1,
         Table(D), Sound(D), Ready(rest, n), CheckDeviceGrabs(D, e, first, rest)
  PROVE  Does(D, rest, e)
<1>e. e.dev \in Devices
  BY DEF Events
<1>1. CASE Return(D, rest)
  BY <1>1, ReturnDoes
<1>2. ASSUME NEW c \in alive, NEW w \in first .. Depth,
             NEW thisSync \in BOOLEAN, NEW otherSync \in BOOLEAN,
             ComputeFreezes(
               ActivateGrab(D, e.dev, c, w, TRUE, thisSync, otherSync), <<>>,
               <<[op |-> "save", event |-> e]>> \o rest)
      PROVE  Does(D, rest, e)
  <2> DEFINE A == ActivateGrab(D, e.dev, c, w, TRUE, thisSync, otherSync)
             k == [op |-> "save", event |-> e]
             t == <<k>> \o rest
  <2>1. w \in Windows /\ c \in Clients /\ alive \subseteq Clients
    BY BoundsAssumption DEF Windows, Ready
  <2>2. Table(A) /\ Alike(A, D, {})
    <3>1. \A p \in BOOLEAN :
            /\ Table(ActivateGrab(D, e.dev, c, w, p, thisSync, otherSync))
            /\ Alike(ActivateGrab(D, e.dev, c, w, p, thisSync, otherSync), D, {})
      BY <1>e, <2>1, ActivateSound, ActivateAlike
    <3> QED
      BY <3>1, Zenon
  <2>3. k \in Duties(n) /\ k.op # "play" /\ k \in Saves(e)
    BY DEF Duties, Continuations, Saves
  <2> HIDE DEF k
  <2>4. Stack(t, n)
    BY <2>3, Push DEF Ready
  <2>5. Grown(t, rest, Saves(e))
    BY <2>3, GrownNone, GrownMore DEF Ready, Stack
  <2>6. ComputeFreezes(A, <<>>, t)
    BY <1>2 DEF k
  <2> HIDE DEF A, t
  <2>7. Alike(dev', A, {}) /\ Grown(todo', rest, Saves(e))
    BY <2>2, <2>4, <2>5, <2>6, FreezesGrow
  <2> QED
    BY <2>2, <2>7, AlikeAfter, AlikeMore DEF Does
<1>3. ASSUME NEW c \in alive, NEW w \in Windows,
             ComputeFreezes(ActivateGrab(D, Pointer, c, w, TRUE, FALSE, FALSE),
                            <<>>, rest)
      PROVE  Does(D, rest, e)
  <2> DEFINE A == ActivateGrab(D, Pointer, c, w, TRUE, FALSE, FALSE)
  <2>2. Table(A) /\ Alike(A, D, {})
    <3>0. c \in Clients /\ alive \subseteq Clients
      BY DEF Ready
    <3>1. \A p, q, r \in BOOLEAN :
            /\ Table(ActivateGrab(D, Pointer, c, w, p, q, r))
            /\ Alike(ActivateGrab(D, Pointer, c, w, p, q, r), D, {})
      BY <3>0, DevicesAssumption, ActivateSound, ActivateAlike
    <3> QED
      BY <3>1, Zenon
  <2>3. ComputeFreezes(A, <<>>, rest)
    BY <1>3
  <2> HIDE DEF A
  <2>4. Alike(dev', A, {}) /\ Grown(todo', rest, Saves(e))
    BY <2>2, <2>3, FreezesGrow, GrownNone DEF Ready
  <2> QED
    BY <2>2, <2>4, AlikeAfter, AlikeMore DEF Does
<1> QED
  BY <1>1, <1>2, <1>3 DEF CheckDeviceGrabs

\* A delivery keeps at most the event delivered.
LEMMA DeliverDoes ==
  ASSUME NEW D, NEW rest, NEW e \in Events, Table(D), DeliverGrabbedEvent(D, e, rest)
  PROVE  Does(D, rest, e)
<1>1. CASE Return(D, rest)
  BY <1>1, ReturnDoes
<1>2. CASE Return(FreezeAfter(D, e), rest)
  <2>1. Alike(FreezeAfter(D, e), D, Copies(e))
    <3>1. {e} \subseteq Copies(e)
      BY DEF Copies
    <3> QED
      BY <3>1, FreezeAfterAlike, AlikeMore
  <2> QED
    BY <1>2, <2>1, GrownNone DEF Return, Does
<1> QED
  BY <1>1, <1>2 DEF DeliverGrabbedEvent

LEMMA PressDoes ==
  ASSUME NEW rest, NEW n, NEW e \in Events, Settled, Ready(rest, n), Press(e, rest)
  PROVE  Does([dev EXCEPT ![e.dev].down = TRUE], rest, e)
<1> DEFINE D == [dev EXCEPT ![e.dev].down = TRUE]
<1>1. Table(D) /\ Sound(D)
  <2>1. e.dev \in Devices
    BY DEF Events
  <2> QED
    BY <2>1, DownSound DEF Settled
<1>2. CheckDeviceGrabs(D, e, 1, rest) \/ DeliverGrabbedEvent(D, e, rest)
  BY DEF Press
<1>3. 1 \in 1 .. Depth + 1
  BY BoundsAssumption
<1> HIDE DEF D
<1>4. Does(D, rest, e)
  BY <1>1, <1>2, <1>3, CheckDoes, DeliverDoes
<1> QED
  BY <1>4 DEF D

LEMMA ReleaseDoes ==
  ASSUME NEW rest, NEW n, NEW e \in Events, Settled, Ready(rest, n), Release(e, rest)
  PROVE  Does([dev EXCEPT ![e.dev].down = FALSE], rest, e)
<1> DEFINE D == [dev EXCEPT ![e.dev].down = FALSE]
<1>e. e.dev \in Devices
  BY DEF Events
<1>1. Table(D) /\ Sound(D)
  BY <1>e, DownSound DEF Settled
<1>2. Table(DeactivateGrab(D, e.dev)) /\ Alike(DeactivateGrab(D, e.dev), D, {})
  BY <1>1, <1>e, DeactivateSound, DeactivateAlike
<1>3. \/ ComputeFreezes(DeactivateGrab(D, e.dev), <<>>, rest)
      \/ Return(D, rest) \/ DeliverGrabbedEvent(D, e, rest)
  BY DEF Release
<1> HIDE DEF D
<1>4. CASE ComputeFreezes(DeactivateGrab(D, e.dev), <<>>, rest)
  <2>1. Alike(dev', DeactivateGrab(D, e.dev), {}) /\ Grown(todo', rest, Saves(e))
    BY <1>2, <1>4, FreezesGrow, GrownNone DEF Ready
  <2>2. Does(D, rest, e)
    BY <1>2, <2>1, AlikeAfter, AlikeMore DEF Does
  <2> QED
    BY <2>2 DEF D
<1>5. CASE Return(D, rest)
  BY <1>5, ReturnDoes DEF D
<1>6. CASE DeliverGrabbedEvent(D, e, rest)
  BY <1>1, <1>6, DeliverDoes DEF D
<1> QED
  BY <1>3, <1>4, <1>5, <1>6

\* The events kept in A for replay are those kept in dev or one of E.
Kept(A, E) ==
  \A o \in Devices :
    A[o].state = "FROZEN_WITH_EVENT" =>
      \/ dev[o].state = "FROZEN_WITH_EVENT" /\ A[o].event = dev[o].event
      \/ A[o].event \in E /\ A[o].event.dev = o

\* After a press or a release only the key concerned has changed.
LEMMA DownAfter ==
  ASSUME Table(dev), NEW d \in Devices, NEW b \in BOOLEAN, NEW A, NEW E,
         Alike(A, [dev EXCEPT ![d].down = b], E)
  PROVE  /\ A[d].down = b
         /\ \A o \in Devices \ {d} : A[o].down = dev[o].down
         /\ Kept(A, E)
<1> DEFINE D == [dev EXCEPT ![d].down = b]
<1>1. ASSUME NEW o \in Devices
      PROVE  /\ o = d => D[o].down = b
             /\ o # d => D[o].down = dev[o].down
             /\ D[o].state = dev[o].state /\ D[o].event = dev[o].event
  <2>1. dev[o] \in DeviceRecords
    BY RecordType
  <2> QED
    BY <2>1 DEF Table, DeviceRecords
<1> HIDE DEF D
<1>2. Alike(A, D, E)
  BY DEF D
<1> QED
  BY <1>1, <1>2 DEF Alike, Kept

\* A press leaves the key down, unless it was down and the press is still to
\* come; a release leaves it up.
LEMMA ProcessDoes ==
  ASSUME NEW rest, NEW n \in Nat, NEW e \in Known(n), Settled, Ready(rest, n),
         ProcessEvent(e, rest)
  PROVE  /\ Grown(todo', rest, NewDuties(e))
         /\ \A o \in Devices \ {e.dev} : dev'[o].down = dev[o].down
         /\ Kept(dev', Copies(e))
         /\ e.kind = "motion" => dev'[e.dev].down = dev[e.dev].down
         /\ e.kind = "press" => dev'[e.dev].down = TRUE \/ AgainOf(todo', e.dev)
         /\ e.kind = "release" => dev'[e.dev].down = FALSE
<1>e. /\ e \in Events /\ e.dev \in Devices /\ e.kind \in {"press", "release", "motion"}
      /\ dev[e.dev].down \in BOOLEAN /\ Table(dev) /\ TRUE \in BOOLEAN /\ FALSE \in BOOLEAN
  BY RecordType DEF Known, Events, Settled, DeviceRecords
<1>1. CASE Return(dev, rest) /\ (e.kind = "motion" \/ (e.kind = "release" /\ ~dev[e.dev].down))
  <2>1. dev' = dev /\ todo' = rest
    BY <1>1 DEF Return
  <2>2. e.kind = "release" => dev[e.dev].down = FALSE
    BY <1>1, <1>e
  <2> QED
    BY <1>1, <1>e, <2>1, <2>2, GrownNone DEF Kept
<1>2. CASE Press(e, rest) /\ e.kind = "press"
  <2>1. Does([dev EXCEPT ![e.dev].down = TRUE], rest, e)
    BY <1>e, <1>2, PressDoes
  <2>2. Alike(dev', [dev EXCEPT ![e.dev].down = TRUE], Copies(e))
    BY <2>1 DEF Does
  <2>3. /\ dev'[e.dev].down = TRUE
        /\ \A o \in Devices \ {e.dev} : dev'[o].down = dev[o].down
        /\ Kept(dev', Copies(e))
    BY <1>e, <2>2, DownAfter, Zenon
  <2>4. Grown(todo', rest, NewDuties(e))
    BY <2>1, GrownNone, GrownTwice DEF Does, NewDuties
  <2> QED
    BY <1>2, <2>3, <2>4, Zenon
<1>3. CASE Release(e, rest) /\ e.kind = "release"
  <2>1. Does([dev EXCEPT ![e.dev].down = FALSE], rest, e)
    BY <1>e, <1>3, ReleaseDoes
  <2>2. Alike(dev', [dev EXCEPT ![e.dev].down = FALSE], Copies(e))
    BY <2>1 DEF Does
  <2>3. /\ dev'[e.dev].down = FALSE
        /\ \A o \in Devices \ {e.dev} : dev'[o].down = dev[o].down
        /\ Kept(dev', Copies(e))
    BY <1>e, <2>2, DownAfter, Zenon
  <2>4. Grown(todo', rest, NewDuties(e))
    BY <2>1, GrownNone, GrownTwice DEF Does, NewDuties
  <2> QED
    BY <1>3, <2>3, <2>4, Zenon
<1>4. CASE e.kind = "press" /\ e.dev # Pointer /\ Release([e EXCEPT !.kind = "release"],
                    <<[op |-> "again", event |-> [e EXCEPT !.again = TRUE]]>> \o rest)
  <2> DEFINE up == [e EXCEPT !.kind = "release"]
             half == [e EXCEPT !.again = TRUE]
             k == [op |-> "again", event |-> half]
             t == <<k>> \o rest
  <2>1. up \in Events /\ up.dev = e.dev /\ up.id = e.id
    BY <1>e DEF Events
  <2>2. half \in Known(n) /\ half.id = e.id /\ half.dev = e.dev /\ half.kind = e.kind
      /\ half.again = TRUE
    <3>1. \A b \in BOOLEAN : /\ [e EXCEPT !.again = b] \in Known(n)
                            /\ [e EXCEPT !.again = b].id = e.id
                            /\ [e EXCEPT !.again = b].dev = e.dev
                            /\ [e EXCEPT !.again = b].kind = e.kind
                            /\ [e EXCEPT !.again = b].again = b
      BY <1>e DEF Events, Known
    <3> QED
      BY <3>1, Zenon
  <2>3. Release(up, t)
    BY <1>4
  <2> HIDE DEF up, half
  <2>4. k \in Duties(n) /\ k.op = "again" /\ k \in NewDuties(e) /\ k.event.dev = e.dev
    BY <1>4, <2>2 DEF Duties, Continuations, Known, NewDuties, Presses
  <2> HIDE DEF k
  <2>5. Ready(t, n) /\ Grown(t, rest, NewDuties(e)) /\ t \in Seq(Duties(n))
    <3>1. Stack(t, n) /\ (HasPlay(t) <=> HasPlay(rest))
      BY <2>4, Push DEF Ready
    <3>2. Grown(t, rest, NewDuties(e))
      BY <2>4, GrownNone, GrownMore DEF Ready, Stack
    <3> QED
      BY <3>1, <3>2 DEF Ready, Stack
  <2>6. 1 \in DOMAIN t /\ t[1] = k
    BY <2>4 DEF Ready, Stack
  <2> HIDE DEF t
  <2>7. Does([dev EXCEPT ![up.dev].down = FALSE], t, up)
    BY <2>1, <2>3, <2>5, ReleaseDoes
  <2>8. /\ \A o \in Devices \ {e.dev} : dev'[o].down = dev[o].down
        /\ Kept(dev', Copies(up))
    <3>1. Alike(dev', [dev EXCEPT ![e.dev].down = FALSE], Copies(up))
      BY <2>1, <2>7 DEF Does
    <3> QED
      BY <1>e, <3>1, DownAfter, Zenon
  <2>9. Copies(up) = Copies(e)
    BY <2>1 DEF Copies
  <2>10. AgainOf(todo', e.dev)
    BY <2>4, <2>6, <2>7, Zenon DEF Does, Grown, AgainOf
  <2>11. Grown(todo', rest, NewDuties(e))
    <3>1. Saves(up) \subseteq NewDuties(e)
      BY <2>1 DEF NewDuties, Saves
    <3> QED
      BY <2>5, <2>7, <3>1, GrownTwice DEF Does
  <2> QED
    BY <1>4, <2>8, <2>9, <2>10, <2>11
<1>5. \/ Return(dev, rest) /\ (e.kind = "motion" \/ (e.kind = "release" /\ ~dev[e.dev].down))
      \/ Press(e, rest) /\ e.kind = "press"
      \/ Release(e, rest) /\ e.kind = "release"
      \/ e.kind = "press" /\ e.dev # Pointer /\ Release([e EXCEPT !.kind = "release"],
                    <<[op |-> "again", event |-> [e EXCEPT !.again = TRUE]]>> \o rest)
  <2>1. CASE e.kind = "motion"
    BY <2>1 DEF ProcessEvent
  <2>2. CASE e.kind = "release"
    BY <2>2 DEF ProcessEvent
  <2>3. CASE e.kind = "press"
    BY <2>3 DEF ProcessEvent
  <2> QED
    BY <1>e, <2>1, <2>2, <2>3
<1> QED
  BY <1>1, <1>2, <1>3, <1>4, <1>5

-----------------------------------------------------------------------------
(* The inductive invariant.  With q the events that wait, D the table, s   *)
(* the stack, f the last event processed of each device and p what the     *)
(* user holds:                                                             *)

NonePending(q, d) == \A i \in DOMAIN q : q[i].dev # d

Increasing(q) == \A i, j \in DOMAIN q : i < j => q[i].id < q[j].id

Ahead(q, f) == \A i \in DOMAIN q : f[q[i].dev] < q[i].id /\ ~q[i].again

\* A duty is about the last event of its device, and is done before another one.
DutyDue(k, f) ==
  /\ k.event.id = f[k.event.dev]
  /\ k.op = "again" => k.event.kind = "press"

Due(s, q, f) ==
  \A m \in DOMAIN s : s[m].op \in Eventful =>
    DutyDue(s[m], f) /\ (Under(s, m) \/ NonePending(q, s[m].event.dev))

\* An event that is kept for replay is the last one of its device.
Current(D, f) ==
  \A d \in Devices :
    D[d].state = "FROZEN_WITH_EVENT" => D[d].event.dev = d /\ D[d].event.id = f[d]

\* The last press or release of a device that waits is what the user did last.
LastPress(q, i) ==
  /\ q[i].kind # "motion"
  /\ \A j \in DOMAIN q : i < j /\ q[j].dev = q[i].dev => q[j].kind = "motion"

Matched(q, p) ==
  \A i \in DOMAIN q : LastPress(q, i) => (p[q[i].dev] = TRUE <=> q[i].kind = "press")

\* When none waits the server knows it, or will when the running handler returns.
OnlyMotion(q, d) == \A i \in DOMAIN q : q[i].dev = d => q[i].kind = "motion"

Pressed(D, s, d) == D[d].down = TRUE \/ AgainOf(s, d)

Agreed(q, p, D, s) ==
  \A d \in Devices : OnlyMotion(q, d) => (p[d] = TRUE <=> Pressed(D, s, d))

Orderly ==
  /\ Increasing(pending) /\ Ahead(pending, done) /\ Due(todo, pending, done)
  /\ Current(dev, done) /\ Matched(pending, phys) /\ Agreed(pending, phys, dev, todo)

InOrder == ~split => Orderly

-----------------------------------------------------------------------------
(* Duties on a stack that grows or is popped.                              *)

\* Duties that are due may be pushed when their devices' events are held up or
\* play later,
LEMMA DueGrown ==
  ASSUME NEW t, NEW s, NEW K, NEW q, NEW f, Grown(t, s, K), Due(s, q, f),
         \A k \in K : DutyDue(k, f) /\ (HasPlay(s) \/ NonePending(q, k.event.dev))
  PROVE  Due(t, q, f)
<1> SUFFICES ASSUME NEW m \in DOMAIN t, t[m].op \in Eventful
             PROVE  DutyDue(t[m], f) /\ (Under(t, m) \/ NonePending(q, t[m].event.dev))
  BY DEF Due
<1>1. CASE t[m] \in K /\ (HasPlay(s) => Under(t, m))
  BY <1>1
<1>2. CASE \E k \in DOMAIN s : t[m] = s[k] /\ (Under(s, k) => Under(t, m))
  BY <1>2 DEF Due
<1> QED
  BY <1>1, <1>2 DEF Grown

\* and only those pushed can add a press half.
LEMMA AgainGrown ==
  ASSUME NEW t, NEW s, NEW K, NEW d, Grown(t, s, K)
  PROVE  /\ AgainOf(s, d) => AgainOf(t, d)
         /\ AgainOf(t, d) =>
              AgainOf(s, d) \/ \E k \in K : k.op = "again" /\ k.event.dev = d
<1>1. AgainOf(s, d) => AgainOf(t, d)
  BY Zenon DEF Grown, AgainOf
<1>2. AgainOf(t, d) =>
         AgainOf(s, d) \/ \E k \in K : k.op = "again" /\ k.event.dev = d
  <2> SUFFICES ASSUME NEW m \in DOMAIN t, t[m].op = "again", t[m].event.dev = d
               PROVE  AgainOf(s, d) \/ \E k \in K : k.op = "again" /\ k.event.dev = d
    BY DEF AgainOf
  <2>1. t[m].op \in Eventful
    BY DEF Eventful
  <2>2. t[m] \in K \/ \E k \in DOMAIN s : t[m] = s[k]
    BY <2>1, Zenon DEF Grown
  <2> QED
    BY <2>2, Zenon DEF AgainOf
<1> QED
  BY <1>1, <1>2

\* The stack without its top, and the top.
LEMMA Popped ==
  ASSUME NEW n, NEW s, Stack(s, n), s # <<>>
  PROVE  /\ 1 \in DOMAIN s /\ s[1] = Head(s)
         /\ \A m \in DOMAIN Tail(s) :
              /\ m + 1 \in DOMAIN s /\ Tail(s)[m] = s[m + 1]
              /\ Under(s, m + 1) => Under(Tail(s), m)
         /\ \A m \in DOMAIN s : m # 1 => \E k \in DOMAIN Tail(s) : Tail(s)[k] = s[m]
         /\ Head(s).op = "play" => \A m \in DOMAIN s : ~Under(s, m)
<1> DEFINE t == Tail(s)
<1>2. /\ Len(s) = Len(t) + 1 /\ Len(t) \in Nat /\ Head(s) = s[1]
      /\ \A i \in 2 .. Len(s) : s[i] = t[i - 1] /\ i - 1 \in 1 .. Len(t)
      /\ \A i \in 1 .. Len(t) : t[i] = s[i + 1] /\ i + 1 \in 1 .. Len(s)
      /\ DOMAIN t = 1 .. Len(t) /\ DOMAIN s = 1 .. Len(s)
  BY DEF Stack
<1> HIDE DEF t
<1>3. ASSUME NEW m \in DOMAIN t, Under(s, m + 1) PROVE Under(t, m)
  <2>1. PICK k \in DOMAIN s : m + 1 < k /\ s[k].op = "play"
    BY <1>3 DEF Under
  <2>2. k - 1 \in DOMAIN t /\ m < k - 1 /\ t[k - 1].op = "play"
    BY <1>2, <2>1
  <2> QED
    BY <2>2 DEF Under
<1>4. ASSUME NEW m \in DOMAIN s, m # 1 PROVE \E k \in DOMAIN t : t[k] = s[m]
  <2>1. m - 1 \in DOMAIN t /\ t[m - 1] = s[m]
    BY <1>2, <1>4
  <2> QED
    BY <2>1
<1>5. ASSUME Head(s).op = "play", NEW m \in DOMAIN s PROVE ~Under(s, m)
  <2>1. \A k \in DOMAIN s : s[k].op = "play" => k = 1
    BY <1>2, <1>5 DEF Stack, OnePlay
  <2> QED
    BY <1>2, <2>1 DEF Under
<1> QED
  BY <1>2, <1>3, <1>4, <1>5 DEF t

\* Taking the top off a stack leaves the other duties due,
LEMMA DueTail ==
  ASSUME NEW n, NEW s, Stack(s, n), s # <<>>, NEW q, NEW f, Due(s, q, f)
  PROVE  Due(Tail(s), q, f)
<1> DEFINE t == Tail(s)
<1>1. \A m \in DOMAIN t : /\ m + 1 \in DOMAIN s /\ t[m] = s[m + 1]
                          /\ Under(s, m + 1) => Under(t, m)
  BY Popped
<1> HIDE DEF t
<1>2. Due(t, q, f)
  BY <1>1 DEF Due
<1> QED
  BY <1>2 DEF t

\* and no press half is lost unless it was the top.
LEMMA AgainTail ==
  ASSUME NEW n, NEW s, Stack(s, n), s # <<>>, NEW d,
         Head(s).op # "again" \/ Head(s).event.dev # d
  PROVE  AgainOf(Tail(s), d) <=> AgainOf(s, d)
<1> DEFINE t == Tail(s)
<1>1. /\ s[1] = Head(s)
      /\ \A m \in DOMAIN t : m + 1 \in DOMAIN s /\ t[m] = s[m + 1]
      /\ \A m \in DOMAIN s : m # 1 => \E k \in DOMAIN t : t[k] = s[m]
  BY Popped
<1> HIDE DEF t
<1>2. AgainOf(t, d) => AgainOf(s, d)
  BY <1>1 DEF AgainOf
<1>3. ASSUME NEW m \in DOMAIN s, s[m].op = "again", s[m].event.dev = d
      PROVE  AgainOf(t, d)
  <2>1. PICK k \in DOMAIN t : t[k] = s[m]
    BY <1>1, <1>3
  <2> QED
    BY <1>3, <2>1 DEF AgainOf
<1> QED
  BY <1>2, <1>3 DEF AgainOf, t

-----------------------------------------------------------------------------
(* The steps that process no event that is new.                            *)

\* Tables that keep only current events for replay stay current.
LEMMA CurrentKept ==
  ASSUME NEW A, NEW E, NEW f, Current(dev, f), Kept(A, E), \A x \in E : x.id = f[x.dev]
  PROVE  Current(A, f)
BY DEF Current, Kept

\* A step that takes no event from the queue and processes none keeps the order,
\* when the duties stay due and no key changes.
LEMMA SameEvents ==
  ASSUME Orderly, pending' = pending, done' = done, phys' = phys,
         Due(todo', pending, done), Current(dev', done),
         \A d \in Devices : Pressed(dev', todo', d) <=> Pressed(dev, todo, d)
  PROVE  Orderly'
<1>1. Agreed(pending, phys, dev', todo')
  BY DEF Orderly, Agreed
<1> QED
  BY <1>1 DEF Orderly, Increasing, Ahead, Due, Current, Matched, Agreed, OnlyMotion,
              NonePending, DutyDue, Under, LastPress, Pressed, AgainOf

\* A change of grabs keeps the events and the keys.
LEMMA AlikeKept ==
  ASSUME NEW A, Alike(A, dev, {})
  PROVE  Kept(A, {}) /\ \A d \in Devices : A[d].down = dev[d].down
BY DEF Alike, Kept

\* A request and a step of the running handler that only plays what waits.
LEMMA FreezesOrder ==
  ASSUME Orderly, NEW A, Table(A), Alike(A, dev, {}), NEW n, Stack(todo, n),
         ComputeFreezes(A, <<>>, todo), pending' = pending, done' = done, phys' = phys
  PROVE  Orderly'
<1>1. Alike(dev', A, {}) /\ Grown(todo', todo, {})
  BY FreezesGrow, GrownNone
<1>2. Kept(dev', {}) /\ \A d \in Devices : dev'[d].down = dev[d].down
  BY <1>1, AlikeAfter, AlikeKept
<1>3. Due(todo', pending, done)
  BY <1>1, DueGrown DEF Orderly
<1>4. Current(dev', done)
  BY <1>2, CurrentKept DEF Orderly
<1>5. \A d \in Devices : AgainOf(todo', d) <=> AgainOf(todo, d)
  BY <1>1, AgainGrown
<1>6. \A d \in Devices : Pressed(dev', todo', d) <=> Pressed(dev, todo, d)
  BY <1>2, <1>5 DEF Pressed
<1> QED
  BY <1>3, <1>4, <1>6, SameEvents

LEMMA GrabOrder ==
  ASSUME Invariant, Orderly, NEW c \in Clients, NEW d \in Devices, NEW w \in Windows,
         NEW thisSync \in BOOLEAN, NEW otherSync \in BOOLEAN,
         GrabDevice(c, d, w, thisSync, otherSync)
  PROVE  Orderly'
<1> DEFINE A == ActivateGrab(dev, d, c, w, FALSE, thisSync, otherSync)
<1>1. Request /\ c \in alive /\ ComputeFreezes(A, <<>>, todo)
  BY DEF GrabDevice, Request, Idle
<1>2. \A p \in BOOLEAN :
        /\ Table(ActivateGrab(dev, d, c, w, p, thisSync, otherSync))
        /\ Alike(ActivateGrab(dev, d, c, w, p, thisSync, otherSync), dev, {})
  BY <1>1, ActivateSound, ActivateAlike DEF Invariant, Settled, Ready
<1>3. Table(A) /\ Alike(A, dev, {})
  BY <1>2, Zenon
<1> HIDE DEF A
<1> QED
  BY <1>1, <1>3, FreezesOrder DEF Request, Invariant, Ready

LEMMA EndOrder ==
  ASSUME Invariant, Orderly, NEW d \in Devices, EndGrab(d)
  PROVE  Orderly'
<1>1. Table(DeactivateGrab(dev, d)) /\ Alike(DeactivateGrab(dev, d), dev, {})
  BY DeactivateSound, DeactivateAlike DEF Invariant, Settled
<1>2. Request /\ ComputeFreezes(DeactivateGrab(dev, d), <<>>, todo)
  BY DEF EndGrab, Request, Idle
<1> QED
  BY <1>1, <1>2, FreezesOrder DEF Request, Invariant, Ready

\* The event that is given back is the last one of its device, and the stack has
\* the playing loop below it.
LEMMA AllowOrder ==
  ASSUME Invariant, Orderly, NEW c \in Clients, NEW d \in Devices, NEW mode \in Modes,
         AllowSome(c, d, mode)
  PROVE  Orderly'
<1>1. PICK A, replay :
        /\ Table(A) /\ Sound(A) /\ Alike(A, dev, {})
        /\ \/ replay = <<>>
           \/ \E w \in Windows :
                /\ dev[d].state = "FROZEN_WITH_EVENT" /\ dev[d].event \in Events
                /\ replay = <<[op |-> "replay", event |-> dev[d].event, win |-> w]>>
        /\ ComputeFreezes(A, replay, <<>>)
  <2>1. Settled /\ alive \subseteq Clients
    BY DEF Invariant, Ready
  <2> QED
    BY <2>1, AllowFreezes
<1>2. /\ todo = <<>> /\ pending' = pending /\ done' = done /\ phys' = phys
      /\ ~playing /\ Stack(todo, made)
  <2>1. Request
    BY DEF AllowSome
  <2>2. todo = <<>> /\ pending' = pending /\ done' = done /\ phys' = phys
    BY <2>1 DEF Request, Idle
  <2> QED
    BY <2>2 DEF Invariant, Ready, HasPlay
<1>3. CASE replay = <<>>
  BY <1>1, <1>2, <1>3, FreezesOrder
<1>4. ASSUME NEW w \in Windows, dev[d].state = "FROZEN_WITH_EVENT", dev[d].event \in Events,
             replay = <<[op |-> "replay", event |-> dev[d].event, win |-> w]>>
      PROVE  Orderly'
  <2> DEFINE r == [op |-> "replay", event |-> dev[d].event, win |-> w]
             l == [op |-> "play"]
  <2>1. /\ r.op = "replay" /\ r.event = dev[d].event /\ r \in Continuations
        /\ l.op = "play" /\ l \in Continuations
    BY <1>4 DEF Continuations
  <2> HIDE DEF r, l
  <2>2. todo' = <<r>> \o <<l>> \o <<>> /\ dev' = Refrozen(A)
    <3>1. replay # <<>> /\ replay = <<r>>
      BY <1>4 DEF r
    <3> QED
      BY <1>1, <1>2, <3>1 DEF ComputeFreezes, l
  <2>3. DOMAIN todo' = {1, 2} /\ todo'[1] = r /\ todo'[2] = l
    BY <2>1, <2>2
  <2>4. Due(todo', pending, done)
    <3>1. r.event.id = done[r.event.dev]
      BY <1>4, <2>1 DEF Orderly, Current
    <3>2. Under(todo', 1)
      BY <2>1, <2>3 DEF Under
    <3> QED
      BY <2>1, <2>3, <3>1, <3>2 DEF Due, DutyDue, Eventful
  <2>5. Kept(dev', {}) /\ \A x \in Devices : dev'[x].down = dev[x].down
    BY <1>1, <2>2, RefrozenAlike, AlikeAfter, AlikeKept
  <2>6. Current(dev', done)
    BY <2>5, CurrentKept DEF Orderly
  <2>7. \A x \in Devices : ~AgainOf(todo', x) /\ ~AgainOf(todo, x)
    BY <1>2, <2>1, <2>3 DEF AgainOf
  <2> QED
    BY <1>2, <2>4, <2>5, <2>6, <2>7, SameEvents DEF Pressed
<1> QED
  BY <1>1, <1>3, <1>4

\* The rest of the stack, when its top is no press that is still to come.
LEMMA RestOrder ==
  ASSUME Invariant, Orderly, todo # <<>>, Head(todo).op # "again"
  PROVE  /\ Stack(Tail(todo), made) /\ Head(todo) \in Duties(made)
         /\ Due(Tail(todo), pending, done)
         /\ \A d \in Devices : AgainOf(Tail(todo), d) <=> AgainOf(todo, d)
BY Pop, DueTail, AgainTail DEF Invariant, Ready, Orderly

\* What a duty on top of the stack is about.
LEMMA TopDue ==
  ASSUME Invariant, Orderly, todo # <<>>, Head(todo).op \in Eventful
  PROVE  /\ Head(todo).event \in Events /\ DutyDue(Head(todo), done)
         /\ HasPlay(Tail(todo)) \/ NonePending(pending, Head(todo).event.dev)
<1>1. 1 \in DOMAIN todo /\ todo[1] = Head(todo) /\ Head(todo) \in Duties(made)
      /\ Stack(todo, made)
  BY Popped, Pop DEF Invariant, Ready
<1>2. Under(todo, 1) => HasPlay(Tail(todo))
  <2>1. Under(todo, 1) => HasPlay(todo)
    BY DEF Under, HasPlay
  <2> QED
    BY <1>1, <2>1, Pop DEF Eventful
<1> QED
  BY <1>1, <1>2 DEF Orderly, Due, Eventful, Duties, Continuations

\* The top of the stack is done with, and its event was processed before.
LEMMA TopProcessed ==
  ASSUME Invariant, Orderly, todo # <<>>, Head(todo).op \in Eventful \ {"again"},
         NEW e, e = Head(todo).event, Kept(dev', Copies(e)),
         Grown(todo', Tail(todo), Saves(e)),
         \A d \in Devices : dev'[d].down = dev[d].down,
         pending' = pending, done' = done, phys' = phys
  PROVE  Orderly'
<1>1. /\ Stack(Tail(todo), made) /\ Due(Tail(todo), pending, done)
      /\ \A d \in Devices : AgainOf(Tail(todo), d) <=> AgainOf(todo, d)
  BY RestOrder
<1>2. /\ e \in Events /\ e.id = done[e.dev]
      /\ HasPlay(Tail(todo)) \/ NonePending(pending, e.dev)
  BY TopDue DEF DutyDue
<1>3. Due(todo', pending, done)
  <2>1. \A k \in Saves(e) :
          DutyDue(k, done) /\ (HasPlay(Tail(todo)) \/ NonePending(pending, k.event.dev))
    BY <1>2 DEF Saves, DutyDue
  <2> QED
    BY <1>1, <2>1, DueGrown
<1>4. Current(dev', done)
  BY <1>2, CurrentKept DEF Orderly, Copies
<1>5. \A d \in Devices : AgainOf(todo', d) <=> AgainOf(Tail(todo), d)
  BY AgainGrown DEF Saves
<1> QED
  BY <1>1, <1>3, <1>4, <1>5, SameEvents DEF Pressed

LEMMA ReplayOrder ==
  ASSUME Invariant, Orderly, ReplayEvent
  PROVE  Orderly'
<1> DEFINE e == Head(todo).event
<1>1. todo # <<>> /\ Head(todo).op = "replay" /\ pending' = pending /\ done' = done
      /\ phys' = phys
  BY DEF ReplayEvent, Top
<1>2. /\ e \in Events /\ e.id = done[e.dev]
      /\ HasPlay(Tail(todo)) \/ NonePending(pending, e.dev)
  BY <1>1, TopDue DEF Eventful, DutyDue
<1>3. PICK first \in 1 .. Depth + 1 : CheckDeviceGrabs(dev, e, first, Tail(todo))
  <2>1. Head(todo).win \in Windows
    BY <1>1, RestReady DEF Continuations
  <2> QED
    BY <2>1, BoundsAssumption DEF ReplayEvent, Windows
<1>4. Ready(Tail(todo), made)
  BY <1>1, RestReady
<1>5. Does(dev, Tail(todo), e)
  BY <1>2, <1>3, <1>4, CheckDoes DEF Invariant, Settled
<1>6. Kept(dev', Copies(e)) /\ \A d \in Devices : dev'[d].down = dev[d].down
  BY <1>5 DEF Does, Alike, Kept
<1> QED
  BY <1>1, <1>2, <1>5, <1>6, TopProcessed DEF Does, Eventful

LEMMA SaveOrder ==
  ASSUME Invariant, Orderly, SaveEvent
  PROVE  Orderly'
<1> DEFINE e == Head(todo).event
<1>1. /\ todo # <<>> /\ Head(todo).op = "save" /\ pending' = pending /\ done' = done
      /\ phys' = phys /\ todo' = Tail(todo)
      /\ dev' = [dev EXCEPT ![e.dev] = IF @.state = "FROZEN_NO_EVENT"
                   THEN [@ EXCEPT !.state = "FROZEN_WITH_EVENT", !.event = e] ELSE @]
  BY DEF SaveEvent, Top, Return
<1>2. e \in Events /\ e.dev \in Devices
  BY <1>1, TopDue DEF Eventful, Events
<1>3. ASSUME NEW o \in Devices
      PROVE  /\ dev'[o].down = dev[o].down
             /\ dev'[o].state = "FROZEN_WITH_EVENT" =>
                  \/ dev[o].state = "FROZEN_WITH_EVENT" /\ dev'[o].event = dev[o].event
                  \/ dev'[o].event = e /\ e.dev = o
  <2>1. dev[o] \in DeviceRecords /\ Table(dev)
    BY RecordType DEF Invariant, Settled
  <2> QED
    BY <1>1, <1>2, <2>1 DEF Table, DeviceRecords
<1>4. Kept(dev', Copies(e)) /\ Grown(todo', Tail(todo), Saves(e))
  BY <1>1, <1>2, <1>3, GrownNone DEF Kept, Copies
<1> QED
  BY <1>1, <1>3, <1>4, TopProcessed DEF Eventful

\* The press half of a repeated press: the key is down now, or the press is put
\* off again.
LEMMA PressOrder ==
  ASSUME Invariant, Orderly, PressAgain, ~split'
  PROVE  Orderly'
<1> DEFINE e == Head(todo).event
<1>1. /\ todo # <<>> /\ Head(todo).op = "again" /\ pending' = pending /\ phys' = phys
      /\ ProcessEvent(e, Tail(todo))
  BY DEF PressAgain, Top
<1>2. /\ e \in Events /\ e.id = done[e.dev] /\ e.kind = "press" /\ e.dev \in Devices
      /\ HasPlay(Tail(todo)) \/ NonePending(pending, e.dev)
  BY <1>1, TopDue DEF Eventful, DutyDue, Events
<1>3. /\ Ready(Tail(todo), made) /\ made \in Nat /\ e \in Known(made)
      /\ Due(Tail(todo), pending, done) /\ Settled /\ Stack(todo, made)
  <2>1. Head(todo) \in Duties(made)
    BY <1>1, Pop DEF Invariant, Ready
  <2> QED
    BY <1>1, <1>2, <2>1, RestReady, DueTail DEF Invariant, Ready, History, Orderly, Duties, Known
<1> HIDE DEF e
<1>4. /\ Grown(todo', Tail(todo), NewDuties(e)) /\ Kept(dev', Copies(e))
      /\ \A o \in Devices \ {e.dev} : dev'[o].down = dev[o].down
      /\ Pressed(dev', todo', e.dev)
  BY <1>1, <1>2, <1>3, ProcessDoes DEF Pressed
<1>5. done' = done
  <2>1. done \in [Devices -> 0 .. made]
    BY DEF Invariant, History
  <2> QED
    BY <1>1, <1>2, <2>1 DEF ProcessEvent
<1>6. Due(todo', pending, done)
  <2>1. \A k \in NewDuties(e) :
          DutyDue(k, done) /\ (HasPlay(Tail(todo)) \/ NonePending(pending, k.event.dev))
    BY <1>2 DEF NewDuties, Saves, Presses, DutyDue
  <2> QED
    BY <1>3, <1>4, <2>1, DueGrown
<1>7. Current(dev', done)
  BY <1>2, <1>4, CurrentKept DEF Orderly, Copies
<1>8. ASSUME NEW d \in Devices PROVE Pressed(dev', todo', d) <=> Pressed(dev, todo, d)
  <2>1. CASE d = e.dev
    <3>1. AgainOf(todo, d)
      BY <1>1, <1>3, <2>1, Popped DEF AgainOf, e
    <3> QED
      BY <1>4, <2>1, <3>1 DEF Pressed
  <2>2. CASE d # e.dev
    <3>1. AgainOf(Tail(todo), d) <=> AgainOf(todo, d)
      BY <1>1, <1>3, <2>2, AgainTail DEF e
    <3>2. AgainOf(todo', d) <=> AgainOf(Tail(todo), d)
      BY <1>4, <2>2, AgainGrown DEF NewDuties, Saves, Presses
    <3> QED
      BY <1>4, <2>2, <3>1, <3>2 DEF Pressed
  <2> QED
    BY <2>1, <2>2
<1> QED
  BY <1>1, <1>5, <1>6, <1>7, <1>8, SameEvents

LEMMA ReleaseOrder ==
  ASSUME Invariant, Orderly, ReleaseActiveGrabs
  PROVE  Orderly'
<1> DEFINE mine == {d \in Devices : dev[d].grab = Head(todo).client}
<1>1. /\ todo # <<>> /\ Head(todo).op = "release" /\ pending' = pending /\ done' = done
      /\ phys' = phys /\ Stack(todo, made)
  BY DEF ReleaseActiveGrabs, Top, Invariant, Ready
<1>2. CASE mine = {}
  <2>1. dev' = dev /\ todo' = Tail(todo)
    BY <1>2 DEF ReleaseActiveGrabs, Return
  <2>2. /\ Due(Tail(todo), pending, done)
        /\ \A d \in Devices : AgainOf(Tail(todo), d) <=> AgainOf(todo, d)
    BY <1>1, RestOrder
  <2> QED
    BY <1>1, <2>1, <2>2, SameEvents DEF Orderly, Pressed
<1>3. CASE mine # {}
  <2>1. PICK d \in mine : ComputeFreezes(DeactivateGrab(dev, d), <<>>, todo)
    BY <1>3 DEF ReleaseActiveGrabs
  <2>2. Table(DeactivateGrab(dev, d)) /\ Alike(DeactivateGrab(dev, d), dev, {})
    BY DeactivateSound, DeactivateAlike DEF Invariant, Settled
  <2> QED
    BY <1>1, <2>1, <2>2, FreezesOrder
<1> QED
  BY <1>2, <1>3

LEMMA CloseOrder ==
  ASSUME Invariant, Orderly, NEW c \in Clients, CloseClient(c)
  PROVE  Orderly'
<1>1. /\ todo = <<>> /\ todo' = <<[op |-> "release", client |-> c]>> /\ dev' = dev
      /\ pending' = pending /\ done' = done /\ phys' = phys
  BY DEF CloseClient, Request, Idle
<1>2. Due(todo', pending, done) /\ \A d \in Devices : ~AgainOf(todo', d) /\ ~AgainOf(todo, d)
  BY <1>1 DEF Due, Eventful, AgainOf
<1> QED
  BY <1>1, <1>2, SameEvents DEF Orderly, Pressed

LEMMA NewOrder ==
  ASSUME Orderly, NEW c \in Clients, NewClient(c)
  PROVE  Orderly'
BY SameEvents DEF NewClient, Orderly

-----------------------------------------------------------------------------
(* The steps that process the next event of a device.                      *)

\* An event that was not processed before, on the way: q is what waits after it
\* is gone.
LEMMA EventOrder ==
  ASSUME Settled, NEW n \in Nat, NEW rest, Ready(rest, n), NEW e \in Known(n),
         ~e.again, ProcessEvent(e, rest), done \in [Devices -> Nat],
         Increasing(pending'), Ahead(pending', done'), Matched(pending', phys'),
         Current(dev, done),
         \A d \in Devices : dev[d].state = "FROZEN_WITH_EVENT" => d # e.dev,
         \A m \in DOMAIN rest : rest[m].op \in Eventful =>
           /\ DutyDue(rest[m], done) /\ rest[m].event.dev # e.dev
           /\ NonePending(pending', rest[m].event.dev),
         HasPlay(rest) \/ NonePending(pending', e.dev),
         \A d \in Devices \ {e.dev} :
           OnlyMotion(pending', d) => (phys'[d] = TRUE <=> Pressed(dev, rest, d)),
         OnlyMotion(pending', e.dev) =>
           IF e.kind = "motion" THEN phys'[e.dev] = TRUE <=> Pressed(dev, rest, e.dev)
                                ELSE phys'[e.dev] = TRUE <=> e.kind = "press"
  PROVE  Orderly'
<1>e. e \in Events /\ e.dev \in Devices /\ e.kind \in {"press", "release", "motion"}
  BY DEF Known, Events
<1>1. done' = [done EXCEPT ![e.dev] = e.id] /\ done'[e.dev] = e.id
      /\ \A d \in Devices \ {e.dev} : done'[d] = done[d]
  BY <1>e DEF ProcessEvent
<1>2. /\ Grown(todo', rest, NewDuties(e)) /\ Kept(dev', Copies(e))
      /\ \A o \in Devices \ {e.dev} : dev'[o].down = dev[o].down
      /\ e.kind = "motion" => dev'[e.dev].down = dev[e.dev].down
      /\ e.kind = "press" => Pressed(dev', todo', e.dev)
      /\ e.kind = "release" => dev'[e.dev].down = FALSE
  BY ProcessDoes, ZenonT(60) DEF Pressed
<1>3. Due(todo', pending', done')
  <2>1. Due(rest, pending', done')
    <3> SUFFICES ASSUME NEW m \in DOMAIN rest, rest[m].op \in Eventful
                 PROVE  DutyDue(rest[m], done') /\ NonePending(pending', rest[m].event.dev)
      BY DEF Due
    <3>1. rest[m].event.dev \in Devices
      BY DEF Ready, Stack, Duties, Continuations, Eventful, Events
    <3> QED
      BY <1>1, <3>1 DEF DutyDue
  <2>2. \A k \in NewDuties(e) :
          DutyDue(k, done') /\ (HasPlay(rest) \/ NonePending(pending', k.event.dev))
    BY <1>1 DEF NewDuties, Saves, Presses, DutyDue
  <2> QED
    BY <1>2, <2>1, <2>2, DueGrown
<1>4. Current(dev', done')
  <2> SUFFICES ASSUME NEW d \in Devices, dev'[d].state = "FROZEN_WITH_EVENT"
               PROVE  dev'[d].event.dev = d /\ dev'[d].event.id = done'[d]
    BY DEF Current
  <2>1. CASE dev'[d].event \in Copies(e) /\ dev'[d].event.dev = d
    BY <1>1, <2>1 DEF Copies
  <2>2. CASE dev[d].state = "FROZEN_WITH_EVENT" /\ dev'[d].event = dev[d].event
    BY <1>1, <2>2 DEF Current
  <2> QED
    BY <1>2, <2>1, <2>2 DEF Kept
<1>5. Agreed(pending', phys', dev', todo')
  <2> SUFFICES ASSUME NEW d \in Devices, OnlyMotion(pending', d)
               PROVE  phys'[d] = TRUE <=> Pressed(dev', todo', d)
    BY DEF Agreed
  <2>1. CASE d # e.dev
    <3>1. AgainOf(todo', d) <=> AgainOf(rest, d)
      BY <1>2, <2>1, AgainGrown DEF NewDuties, Saves, Presses
    <3> QED
      BY <1>2, <2>1, <3>1 DEF Pressed
  <2>2. CASE d = e.dev /\ e.kind = "motion"
    <3>1. AgainOf(todo', d) <=> AgainOf(rest, d)
      BY <1>2, <2>2, AgainGrown DEF NewDuties, Saves, Presses
    <3> QED
      BY <1>2, <2>2, <3>1 DEF Pressed
  <2>3. CASE d = e.dev /\ e.kind = "press"
    BY <1>2, <2>3
  <2>4. CASE d = e.dev /\ e.kind = "release"
    <3>1. ~AgainOf(rest, d)
      BY <2>4 DEF AgainOf, Eventful
    <3>2. ~AgainOf(todo', d)
      BY <1>2, <2>4, <3>1, AgainGrown DEF NewDuties, Saves, Presses
    <3>3. dev'[d].down # TRUE
      BY <1>2, <2>4
    <3> QED
      BY <2>4, <3>2, <3>3 DEF Pressed
  <2> QED
    BY <1>e, <2>1, <2>2, <2>3, <2>4
<1> QED
  BY <1>3, <1>4, <1>5 DEF Orderly, Increasing, Ahead, Due, Current, Matched, Agreed,
     OnlyMotion, NonePending, DutyDue, Under, LastPress, Pressed, AgainOf

\* FROZEN_WITH_EVENT is a frozen state, so what an event is played or processed
\* for never holds one back for replay.
LEMMA ThawedKeepsNone ==
  ASSUME Settled, NEW d \in Devices, ~dev[d].frozen
  PROVE  \A o \in Devices : dev[o].state = "FROZEN_WITH_EVENT" => o # d
BY DEF Settled, Fresh, Frozen

\* What waits without its i-th event: Step(i, j) is where the j-th one was.
Step(i, j) == IF j < i THEN j ELSE j + 1

IsWithout(r, q, i) ==
  /\ \A j \in DOMAIN r : /\ Step(i, j) \in DOMAIN q \ {i} /\ r[j] = q[Step(i, j)]
                         /\ j \in Nat
  /\ \A k \in DOMAIN q \ {i} : \E j \in DOMAIN r : k = Step(i, j)

\* SubSeq and concatenation take one place out of a sequence.
LEMMA Without ==
  ASSUME NEW X, NEW q \in Seq(X), NEW i \in DOMAIN q, NEW r,
         r = SubSeq(q, 1, i - 1) \o SubSeq(q, i + 1, Len(q))
  PROVE  IsWithout(r, q, i)
<1>1. /\ i \in 1 .. Len(q) /\ Len(q) \in Nat /\ DOMAIN r = 1 .. Len(q) - 1
      /\ \A j \in 1 .. Len(q) - 1 : r[j] = q[Step(i, j)]
  <2> DEFINE a == SubSeq(q, 1, i - 1)
             b == SubSeq(q, i + 1, Len(q))
  <2>1. i \in 1 .. Len(q) /\ Len(q) \in Nat
    OBVIOUS
  <2>2. /\ a \in Seq(X) /\ Len(a) = i - 1
        /\ \A j \in 1 .. i - 1 : a[j] = q[j]
    BY <2>1
  <2>3. /\ b \in Seq(X) /\ Len(b) = Len(q) - i
        /\ \A j \in 1 .. Len(q) - i : b[j] = q[j + i]
    BY <2>1, SMTT(60)
  <2>4. r = a \o b
    OBVIOUS
  <2> HIDE DEF a, b
  <2>5. DOMAIN r = 1 .. Len(q) - 1
    BY <2>1, <2>2, <2>3, <2>4, SMTT(60)
  <2>6. ASSUME NEW j \in 1 .. Len(q) - 1 PROVE r[j] = q[Step(i, j)]
    <3>1. CASE j < i
      BY <2>1, <2>2, <2>3, <2>4, <3>1, SMTT(60) DEF Step
    <3>2. CASE ~(j < i)
      <4>1. r[j] = b[j - (i - 1)]
        <5>1. j \in Nat /\ Len(a) < j /\ j <= Len(a) + Len(b)
          BY <2>1, <2>2, <2>3, <3>2
        <5>2. r[j] = b[j - Len(a)]
          <6>1. \A k \in 1 .. Len(a) + Len(b) :
                  (a \o b)[k] = IF k <= Len(a) THEN a[k] ELSE b[k - Len(a)]
            BY <2>2, <2>3, ConcatProperties, Zenon
          <6>2. j \in 1 .. Len(a) + Len(b) /\ ~(j <= Len(a))
            BY <2>1, <2>2, <2>3, <5>1
          <6> QED
            BY <2>4, <6>1, <6>2
        <5> QED
          BY <2>2, <5>2
      <4>2. j - (i - 1) \in 1 .. Len(q) - i /\ j - (i - 1) + i = j + 1
        BY <2>1, <3>2, SMTT(60)
      <4> QED
        BY <2>3, <3>2, <4>1, <4>2 DEF Step
    <3> QED
      BY <3>1, <3>2
  <2> QED
    BY <2>1, <2>5, <2>6
<1>2. \A j \in 1 .. Len(q) - 1 : Step(i, j) \in 1 .. Len(q) /\ Step(i, j) # i
  BY <1>1, SMTT(60) DEF Step
<1>3. ASSUME NEW k \in 1 .. Len(q), k # i PROVE \E j \in 1 .. Len(q) - 1 : k = Step(i, j)
  <2>1. CASE k < i
    BY <1>1, <2>1 DEF Step
  <2>2. CASE k > i
    <3>1. k - 1 \in 1 .. Len(q) - 1 /\ k = Step(i, k - 1)
      BY <1>1, <2>2 DEF Step
    <3> QED
      BY <3>1
  <2> QED
    BY <1>1, <1>3, <2>1, <2>2
<1>4. \A j \in 1 .. Len(q) - 1 : j \in Nat
  BY <1>1
<1>5. DOMAIN q = 1 .. Len(q)
  OBVIOUS
<1> QED
  BY <1>1, <1>2, <1>3, <1>4, <1>5, Zenon DEF IsWithout

LEMMA PlayOrder ==
  ASSUME Invariant, Orderly, PlayReleasedEvents
  PROVE  Orderly'
<1> DEFINE ready == {i \in DOMAIN pending : ~dev[pending[i].dev].frozen}
           i == CHOOSE j \in ready : \A k \in ready : j <= k
<1>1. /\ todo # <<>> /\ Head(todo).op = "play" /\ Stack(todo, made) /\ HasPlay(todo)
      /\ phys' = phys
  BY Pop DEF PlayReleasedEvents, Top, Invariant, Ready
<1>2. CASE ready = {}
  <2>1. todo' = Tail(todo) /\ dev' = dev /\ pending' = pending /\ done' = done
    BY <1>2 DEF PlayReleasedEvents
  <2>2. /\ Due(Tail(todo), pending, done)
        /\ \A d \in Devices : AgainOf(Tail(todo), d) <=> AgainOf(todo, d)
    BY <1>1, RestOrder
  <2> QED
    BY <1>1, <2>1, <2>2, SameEvents DEF Orderly, Pressed
<1>3. CASE ready # {}
  <2>1. /\ pending' = SubSeq(pending, 1, i - 1) \o SubSeq(pending, i + 1, Len(pending))
        /\ ProcessEvent(pending[i], todo)
    BY <1>3 DEF PlayReleasedEvents
  <2>2. pending \in Seq(Known(made)) /\ made \in Nat /\ done \in [Devices -> Nat]
        /\ DOMAIN pending \subseteq Nat
    BY DEF Invariant, Waiting, History
  <2>3. i \in DOMAIN pending /\ ~dev[pending[i].dev].frozen
        /\ \A k \in DOMAIN pending : pending[k].dev = pending[i].dev => i <= k
    <3>1. ready \subseteq Nat
      BY <2>2
    <3> HIDE DEF ready
    <3>2. i \in ready /\ \A k \in ready : i <= k
      BY <1>3, <3>1, FirstIsLeast
    <3> QED
      BY <3>2 DEF ready
  <2> HIDE DEF i, ready
  <2> DEFINE e == pending[i]
  <2>4. e \in Known(made) /\ e.dev \in Devices /\ ~e.again
    BY <2>2, <2>3 DEF Known, Events, Orderly, Ahead
  <2>5. done' = [done EXCEPT ![e.dev] = e.id]
    BY <2>1, <2>4 DEF ProcessEvent
  <2>6. /\ \A j \in DOMAIN pending' :
             /\ Step(i, j) \in DOMAIN pending \ {i} /\ pending'[j] = pending[Step(i, j)]
             /\ j \in Nat
        /\ \A k \in DOMAIN pending \ {i} : \E j \in DOMAIN pending' : k = Step(i, j)
    <3>1. pending' = SubSeq(pending, 1, i - 1) \o SubSeq(pending, i + 1, Len(pending))
      BY <2>1
    <3>2. PICK r : r = pending'
      OBVIOUS
    <3>3. PICK X : pending \in Seq(X)
      BY <2>2
    <3>4. r = SubSeq(pending, 1, i - 1) \o SubSeq(pending, i + 1, Len(pending))
      BY <3>1, <3>2
    <3>5. IsWithout(r, pending, i)
      BY <2>3, <3>3, <3>4, Without, Zenon
    <3> QED
      BY <3>2, <3>5 DEF IsWithout
  <2>7. \A j, k \in DOMAIN pending' : j < k <=> Step(i, j) < Step(i, k)
    BY <2>2, <2>3, <2>6 DEF Step
  <2>8. Increasing(pending')
    BY <2>6, <2>7 DEF Orderly, Increasing
  <2>9. Ahead(pending', done')
    <3> SUFFICES ASSUME NEW j \in DOMAIN pending'
                 PROVE  done'[pending'[j].dev] < pending'[j].id /\ ~pending'[j].again
      BY DEF Ahead
    <3>1. PICK k \in DOMAIN pending \ {i} : pending'[j] = pending[k]
      BY <2>6
    <3>2. CASE pending[k].dev = e.dev
      <4>1. i < k
        BY <2>2, <2>3, <3>1, <3>2
      <4> QED
        BY <2>3, <2>4, <2>5, <2>2, <3>1, <3>2, <4>1 DEF Orderly, Increasing, Ahead
    <3>3. CASE pending[k].dev # e.dev
      <4>1. pending[k].dev \in Devices
        BY <2>2, <3>1 DEF Known, Events
      <4> QED
        BY <2>5, <2>2, <3>1, <3>3, <4>1 DEF Orderly, Ahead
    <3> QED
      BY <3>2, <3>3
  <2>10. Matched(pending', phys')
    <3> SUFFICES ASSUME NEW j \in DOMAIN pending', LastPress(pending', j)
                 PROVE  phys[pending'[j].dev] = TRUE <=> pending'[j].kind = "press"
      BY <1>1 DEF Matched
    <3> DEFINE k == Step(i, j)
    <3>1. k \in DOMAIN pending \ {i} /\ pending'[j] = pending[k]
      BY <2>6
    <3>2. LastPress(pending, k)
      <4> SUFFICES ASSUME NEW m \in DOMAIN pending, k < m, pending[m].dev = pending[k].dev
                   PROVE  pending[m].kind = "motion"
        BY <3>1 DEF LastPress
      <4>1. m # i
        <5>1. CASE pending[k].dev = e.dev
          BY <2>2, <2>3, <3>1, <5>1
        <5>2. CASE pending[k].dev # e.dev
          BY <5>2
        <5> QED
          BY <5>1, <5>2
      <4>2. PICK l \in DOMAIN pending' : m = Step(i, l)
        BY <2>6, <4>1
      <4>3. j < l /\ pending'[l] = pending[m]
        BY <2>6, <2>7, <4>2
      <4> QED
        BY <3>1, <4>3 DEF LastPress
    <3> HIDE DEF k
    <3> QED
      BY <3>1, <3>2 DEF Orderly, Matched
  <2>11. \A o \in Devices : dev[o].state = "FROZEN_WITH_EVENT" => o # e.dev
    BY <2>3, <2>4, ThawedKeepsNone DEF Invariant
  <2>12. ASSUME NEW m \in DOMAIN todo, todo[m].op \in Eventful
         PROVE  /\ DutyDue(todo[m], done) /\ todo[m].event.dev # e.dev
                /\ NonePending(pending', todo[m].event.dev)
    <3>1. ~Under(todo, m)
      BY <1>1, Popped
    <3>2. DutyDue(todo[m], done) /\ NonePending(pending, todo[m].event.dev)
      BY <2>12, <3>1 DEF Orderly, Due
    <3> QED
      BY <2>3, <2>6, <3>2 DEF NonePending
  <2>13. ASSUME NEW d \in Devices \ {e.dev}, OnlyMotion(pending', d)
         PROVE  phys'[d] = TRUE <=> Pressed(dev, todo, d)
    <3>1. OnlyMotion(pending, d)
      <4> SUFFICES ASSUME NEW m \in DOMAIN pending, pending[m].dev = d
                   PROVE  pending[m].kind = "motion"
        BY DEF OnlyMotion
      <4>1. PICK l \in DOMAIN pending' : pending'[l] = pending[m]
        BY <2>6
      <4> QED
        BY <2>13, <4>1 DEF OnlyMotion
    <3> QED
      BY <1>1, <3>1 DEF Orderly, Agreed
  <2>14. ASSUME OnlyMotion(pending', e.dev), e.kind = "motion"
         PROVE  phys'[e.dev] = TRUE <=> Pressed(dev, todo, e.dev)
    <3>1. OnlyMotion(pending, e.dev)
      <4> SUFFICES ASSUME NEW m \in DOMAIN pending, pending[m].dev = e.dev, m # i
                   PROVE  pending[m].kind = "motion"
        BY <2>14 DEF OnlyMotion
      <4>1. PICK l \in DOMAIN pending' : pending'[l] = pending[m]
        BY <2>6
      <4> QED
        BY <2>14, <4>1 DEF OnlyMotion
    <3> QED
      BY <1>1, <2>4, <3>1 DEF Orderly, Agreed
  <2>15. ASSUME OnlyMotion(pending', e.dev), e.kind # "motion"
         PROVE  phys'[e.dev] = TRUE <=> e.kind = "press"
    <3>1. LastPress(pending, i)
      <4> SUFFICES ASSUME NEW m \in DOMAIN pending, pending[m].dev = e.dev, i < m
                   PROVE  pending[m].kind = "motion"
        BY <2>15 DEF LastPress
      <4>0. m # i
        BY <2>2, <2>3
      <4>1. PICK l \in DOMAIN pending' : pending'[l] = pending[m]
        BY <2>6, <4>0
      <4> QED
        BY <2>15, <4>1 DEF OnlyMotion
    <3> QED
      BY <1>1, <2>3, <3>1 DEF Orderly, Matched
  <2>16. Settled /\ Ready(todo, made) /\ Current(dev, done) /\ ProcessEvent(e, todo)
    BY <2>1 DEF Invariant, Orderly
  <2> HIDE DEF e
  <2> QED
    BY <1>1, <2>2, <2>4, <2>8, <2>9, <2>10, <2>11, <2>12, <2>13, <2>14, <2>15, <2>16, EventOrder
<1> QED
  BY <1>2, <1>3

-----------------------------------------------------------------------------
(* The events the hardware generates.                                      *)

\* What EnqueueEvent does to the queue: the event comes last, and may take the
\* place of a motion that was last.
LEMMA EnqueueShape ==
  ASSUME pending \in Seq(Events), NEW e \in Events, EnqueueEvent(e)
  PROVE  \E n \in DOMAIN pending' :
           /\ n \in Nat /\ pending'[n] = e /\ \A j \in DOMAIN pending' : j \in Nat /\ j <= n
           /\ \A j \in DOMAIN pending' \ {n} : j \in DOMAIN pending /\ pending'[j] = pending[j]
           /\ \A j \in DOMAIN pending :
                \/ j \in DOMAIN pending' \ {n}
                \/ j = n /\ e.kind = "motion" /\ pending[j].kind = "motion"
<1>0. Len(pending) \in Nat /\ DOMAIN pending = 1 .. Len(pending)
  OBVIOUS
<1>1. CASE pending' = Append(pending, e)
  <2>1. /\ DOMAIN pending' = 1 .. Len(pending) + 1 /\ pending'[Len(pending) + 1] = e
        /\ \A j \in 1 .. Len(pending) : pending'[j] = pending[j]
    BY <1>0, <1>1
  <2>2. Len(pending) + 1 \in DOMAIN pending' /\ Len(pending) + 1 \in Nat
    BY <1>0, <2>1
  <2>3. \A j \in DOMAIN pending' : j \in Nat /\ j <= Len(pending) + 1
    BY <1>0, <2>1
  <2>4. \A j \in DOMAIN pending' \ {Len(pending) + 1} :
          j \in DOMAIN pending /\ pending'[j] = pending[j]
    BY <1>0, <2>1
  <2>5. \A j \in DOMAIN pending : j \in DOMAIN pending' \ {Len(pending) + 1}
    BY <1>0, <2>1
  <2> QED
    BY <2>1, <2>2, <2>3, <2>4, <2>5
<1>2. CASE /\ pending' = [pending EXCEPT ![Len(pending)] = e] /\ Len(pending) > 0
           /\ e.kind = "motion" /\ pending[Len(pending)].kind = "motion"
  <2>1. /\ DOMAIN pending' = 1 .. Len(pending) /\ pending'[Len(pending)] = e
        /\ \A j \in 1 .. Len(pending) : j # Len(pending) => pending'[j] = pending[j]
    <3>1. Len(pending) \in DOMAIN pending
      BY <1>0, <1>2
    <3>2. DOMAIN pending' = DOMAIN pending
      BY <1>2
    <3>3. pending'[Len(pending)] = e
      BY <1>2, <3>1
    <3>4. \A j \in DOMAIN pending : j # Len(pending) => pending'[j] = pending[j]
      BY <1>2
    <3> QED
      BY <1>0, <3>2, <3>3, <3>4
  <2>2. Len(pending) \in Nat /\ Len(pending) > 0
    BY <1>0, <1>2
  <2> DEFINE n == Len(pending)
  <2>3. /\ DOMAIN pending' = 1 .. n /\ pending'[n] = e /\ n \in Nat /\ n > 0
        /\ \A j \in 1 .. n : j # n => pending'[j] = pending[j]
        /\ DOMAIN pending = 1 .. n /\ e.kind = "motion" /\ pending[n].kind = "motion"
    BY <1>0, <1>2, <2>1, <2>2
  <2> HIDE DEF n
  <2>4. n \in DOMAIN pending' /\ \A j \in DOMAIN pending' : j \in Nat /\ j <= n
    BY <2>3
  <2>5. /\ \A j \in DOMAIN pending' \ {n} : j \in DOMAIN pending /\ pending'[j] = pending[j]
        /\ \A j \in DOMAIN pending :
             \/ j \in DOMAIN pending' \ {n}
             \/ j = n /\ e.kind = "motion" /\ pending[j].kind = "motion"
    BY <2>3
  <2> QED
    BY <2>3, <2>4, <2>5
<1> QED
  BY <1>1, <1>2 DEF EnqueueEvent

LEMMA InputOrder ==
  ASSUME Invariant, Orderly, NEW d \in Devices, NEW kind \in {"press", "release", "motion"},
         InputEvent(d, kind)
  PROVE  Orderly'
<1> DEFINE e == [id |-> made + 1, dev |-> d, kind |-> kind, again |-> FALSE]
<1>n. made \in Nat /\ made' = made + 1 /\ made' \in Nat /\ made <= made'
      /\ made + 1 \in 1 .. MaxEvents
  BY BoundsAssumption DEF Invariant, History, InputEvent
<1>e. e \in Known(made') /\ e.id = made + 1 /\ e.dev = d /\ e.kind = kind /\ ~e.again
  <2>1. \A b \in BOOLEAN :
          LET x == [id |-> made + 1, dev |-> d, kind |-> kind, again |-> b]
          IN  /\ x \in Known(made') /\ x.id = made + 1 /\ x.dev = d /\ x.kind = kind
              /\ x.again = b
    BY <1>n DEF Known, Events
  <2> QED
    BY <2>1, Zenon
<1>i. todo = <<>> /\ ~HasPlay(todo)
  BY DEF InputEvent, Idle, HasPlay
<1>p. /\ kind = "motion" => phys' = phys
      /\ \A o \in Devices \ {d} : phys'[o] = phys[o]
      /\ kind # "motion" => (phys'[d] = TRUE <=> kind = "press")
  <2>1. PICK b \in BOOLEAN : b = (kind = "press")
    OBVIOUS
  <2>2. phys' = IF kind = "motion" THEN phys ELSE [phys EXCEPT ![d] = b]
    BY <2>1, Zenon DEF InputEvent
  <2>3. b = TRUE <=> kind = "press"
    BY <2>1
  <2> QED
    BY <2>2, <2>3 DEF Invariant, History
<1>q. /\ pending \in Seq(Known(made)) /\ pending \in Seq(Events)
      /\ \A i \in DOMAIN pending : /\ pending[i].id \in Nat /\ pending[i].id <= made
                                   /\ pending[i].dev \in Devices
      /\ done \in [Devices -> 0 .. made]
  <2>1. pending \in Seq(Known(made)) /\ done \in [Devices -> 0 .. made]
    BY DEF Invariant, Waiting, History
  <2>2. Known(made) \subseteq Events
    BY DEF Known
  <2>3. ASSUME NEW i \in DOMAIN pending
        PROVE  /\ pending[i].id \in Nat /\ pending[i].id <= made
               /\ pending[i].dev \in Devices
    <3>1. pending[i] \in Known(made)
      BY <2>1
    <3> QED
      BY <3>1, BoundsAssumption DEF Known, Events
  <2>4. pending \in Seq(Events)
    BY <2>1, <2>2
  <2> QED
    BY <2>1, <2>3, <2>4
<1> HIDE DEF e
<1>1. CASE dev[d].frozen
  <2>1. EnqueueEvent(e) /\ dev' = dev /\ todo' = todo /\ done' = done
    BY <1>1 DEF InputEvent, e
  <2>2. PICK n \in DOMAIN pending' :
           /\ n \in Nat /\ pending'[n] = e /\ \A j \in DOMAIN pending' : j \in Nat /\ j <= n
           /\ \A j \in DOMAIN pending' \ {n} : j \in DOMAIN pending /\ pending'[j] = pending[j]
           /\ \A j \in DOMAIN pending :
                \/ j \in DOMAIN pending' \ {n}
                \/ j = n /\ e.kind = "motion" /\ pending[j].kind = "motion"
    <3>1. e \in Events
      BY <1>e DEF Known
    <3> QED
      BY <1>q, <2>1, <3>1, EnqueueShape, Zenon
  <2>3. Increasing(pending')
    <3> SUFFICES ASSUME NEW i \in DOMAIN pending', NEW j \in DOMAIN pending', i < j
                 PROVE  pending'[i].id < pending'[j].id
      BY DEF Increasing
    <3>1. i # n
      BY <2>2
    <3>2. CASE j = n
      BY <1>e, <1>n, <1>q, <2>2, <3>1, <3>2
    <3>3. CASE j # n
      BY <2>2, <3>1, <3>3 DEF Orderly, Increasing
    <3> QED
      BY <3>2, <3>3
  <2>4. Ahead(pending', done')
    <3> SUFFICES ASSUME NEW i \in DOMAIN pending'
                 PROVE  done[pending'[i].dev] < pending'[i].id /\ ~pending'[i].again
      BY <2>1 DEF Ahead
    <3>1. CASE i = n
      BY <1>e, <1>n, <1>q, <2>2, <3>1
    <3>2. CASE i # n
      BY <2>2, <3>2 DEF Orderly, Ahead
    <3> QED
      BY <3>1, <3>2
  <2>5. Due(todo', pending', done')
    BY <1>i, <2>1 DEF Due
  <2>6. Matched(pending', phys')
    <3> SUFFICES ASSUME NEW i \in DOMAIN pending', LastPress(pending', i)
                 PROVE  phys'[pending'[i].dev] = TRUE <=> pending'[i].kind = "press"
      BY DEF Matched
    <3>1. CASE i = n
      BY <1>e, <1>p, <2>2, <3>1 DEF LastPress
    <3>2. CASE i # n
      <4>1. i \in DOMAIN pending /\ pending'[i] = pending[i] /\ i < n
        BY <2>2, <3>2
      <4>2. e.dev = pending[i].dev => e.kind = "motion"
        BY <2>2, <4>1 DEF LastPress
      <4>3. LastPress(pending, i)
        <5> SUFFICES ASSUME NEW m \in DOMAIN pending, i < m, pending[m].dev = pending[i].dev
                     PROVE  pending[m].kind = "motion"
          BY <4>1 DEF LastPress
        <5>1. CASE m \in DOMAIN pending' \ {n}
          BY <2>2, <4>1, <5>1 DEF LastPress
        <5> QED
          BY <2>2, <5>1
      <4>4. phys[pending[i].dev] = TRUE <=> pending[i].kind = "press"
        BY <4>1, <4>3 DEF Orderly, Matched
      <4>5. phys'[pending[i].dev] = phys[pending[i].dev]
        BY <1>e, <1>p, <1>q, <4>1, <4>2
      <4> QED
        BY <4>1, <4>4, <4>5
    <3> QED
      BY <3>1, <3>2
  <2>7. Agreed(pending', phys', dev', todo')
    <3> SUFFICES ASSUME NEW o \in Devices, OnlyMotion(pending', o)
                 PROVE  phys'[o] = TRUE <=> Pressed(dev, todo, o)
      BY <2>1 DEF Agreed
    <3>1. OnlyMotion(pending, o)
      <4> SUFFICES ASSUME NEW m \in DOMAIN pending, pending[m].dev = o
                   PROVE  pending[m].kind = "motion"
        BY DEF OnlyMotion
      <4>1. CASE m \in DOMAIN pending' \ {n}
        BY <2>2, <4>1 DEF OnlyMotion
      <4> QED
        BY <2>2, <4>1
    <3>2. o = d => kind = "motion"
      BY <1>e, <2>2 DEF OnlyMotion
    <3> QED
      BY <1>p, <3>1, <3>2 DEF Orderly, Agreed
  <2>8. Current(dev', done')
    BY <2>1 DEF Orderly
  <2> QED
    BY <2>3, <2>4, <2>5, <2>6, <2>7, <2>8 DEF Orderly, Increasing, Ahead, Due, Current,
       Matched, Agreed, OnlyMotion, NonePending, DutyDue, Under, LastPress, Pressed, AgainOf
<1>2. CASE ~dev[d].frozen
  <2>1. ProcessEvent(e, todo) /\ pending' = pending
    BY <1>2, <1>i DEF InputEvent, e
  <2>2. NonePending(pending, d)
    <3>1. ~playing
      BY <1>i DEF Invariant, Ready
    <3> QED
      BY <1>2, <3>1 DEF Invariant, Waiting, NonePending
  <2>3. done' = [done EXCEPT ![d] = made + 1]
    BY <1>e, <2>1 DEF ProcessEvent
  <2>4. Ahead(pending', done')
    BY <1>q, <2>1, <2>2, <2>3 DEF Orderly, Ahead, NonePending
  <2>5. Matched(pending', phys')
    BY <1>p, <1>q, <2>1, <2>2 DEF Orderly, Matched, NonePending
  <2>6. Increasing(pending') /\ Current(dev, done) /\ Settled
    BY <2>1 DEF Orderly, Invariant
  <2>7. \A o \in Devices : dev[o].state = "FROZEN_WITH_EVENT" => o # e.dev
    BY <1>2, <1>e, ThawedKeepsNone DEF Invariant
  <2>8. \A m \in DOMAIN todo : FALSE
    BY <1>i
  <2>9. NonePending(pending', e.dev) /\ OnlyMotion(pending, d)
    BY <1>e, <2>1, <2>2 DEF NonePending, OnlyMotion
  <2>10. ASSUME NEW o \in Devices \ {e.dev}, OnlyMotion(pending', o)
         PROVE  phys'[o] = TRUE <=> Pressed(dev, todo, o)
    BY <1>e, <1>p, <2>1, <2>10 DEF Orderly, Agreed
  <2>11. IF e.kind = "motion" THEN phys'[e.dev] = TRUE <=> Pressed(dev, todo, e.dev)
                              ELSE phys'[e.dev] = TRUE <=> e.kind = "press"
    BY <1>e, <1>p, <2>9 DEF Orderly, Agreed
  <2>12. Ready(todo, made') /\ done \in [Devices -> Nat]
    <3>1. Stack(todo, made')
      BY <1>n, KnownGrows DEF Invariant, Ready
    <3> QED
      BY <1>q, <3>1 DEF Invariant, Ready
  <2> QED
    BY <1>e, <1>n, <2>1, <2>4, <2>5, <2>6, <2>7, <2>8, <2>9, <2>10, <2>11, <2>12, EventOrder
<1> QED
  BY <1>1, <1>2

LEMMA InitOrder == Init => Orderly
<1> SUFFICES ASSUME Init PROVE Orderly
  OBVIOUS
<1>1. pending = <<>> /\ todo = <<>>
  BY DEF Init
<1>2. ASSUME NEW d \in Devices
      PROVE  dev[d].state = "NOT_GRABBED" /\ dev[d].down # TRUE /\ phys[d] # TRUE
  BY DEF Init
<1>3. Agreed(pending, phys, dev, todo)
  <2>1. \A d \in Devices : ~AgainOf(todo, d)
    BY <1>1 DEF AgainOf
  <2>2. \A d \in Devices : ~Pressed(dev, todo, d)
    BY <1>2, <2>1, Zenon DEF Pressed
  <2> QED
    BY <1>2, <2>2, Zenon DEF Agreed
<1>4. Current(dev, done)
  BY <1>2 DEF Current
<1> QED
  BY <1>1, <1>3, <1>4 DEF Orderly, Increasing, Ahead, Due, Matched

\* A press that was put back in the queue is remembered.
LEMMA SplitStays ==
  ASSUME [Next]_vars, split
  PROVE  split'
<1>1. ASSUME NEW d \in Devices, NEW kind \in {"press", "release", "motion"},
             InputEvent(d, kind)
      PROVE  split'
  BY <1>1 DEF InputEvent
<1>2. ASSUME NEW c \in Clients, NEW d \in Devices, NEW w \in Windows,
             NEW thisSync \in BOOLEAN, NEW otherSync \in BOOLEAN,
             GrabDevice(c, d, w, thisSync, otherSync)
      PROVE  split'
  BY <1>2 DEF GrabDevice, Request
<1>3. ASSUME NEW c \in Clients, NEW d \in Devices, NEW mode \in Modes, AllowSome(c, d, mode)
      PROVE  split'
  <2>1. Request
    BY <1>3 DEF AllowSome
  <2> QED
    BY <2>1 DEF Request
<1>4. ASSUME NEW d \in Devices, EndGrab(d) PROVE split'
  BY <1>4 DEF EndGrab, Request
<1>5. ASSUME NEW c \in Clients, CloseClient(c) \/ NewClient(c) PROVE split'
  BY <1>5 DEF CloseClient, NewClient, Request
<1>6. CASE PlayReleasedEvents \/ ReplayEvent \/ SaveEvent \/ ReleaseActiveGrabs
  BY <1>6 DEF PlayReleasedEvents, ReplayEvent, SaveEvent, ReleaseActiveGrabs
<1>7. CASE PressAgain
  BY <1>7 DEF PressAgain
<1>8. CASE UNCHANGED vars
  BY <1>8 DEF vars
<1> QED
  BY <1>1, <1>2, <1>3, <1>4, <1>5, <1>6, <1>7, <1>8 DEF Next, ServerStep

LEMMA OrderInvariance == Spec => []InOrder
<1>1. Invariant /\ InOrder /\ [Next]_vars => InOrder'
  <2> SUFFICES ASSUME Invariant, ~split => Orderly, [Next]_vars, ~split' PROVE Orderly'
    BY DEF InOrder
  <2>0. Orderly
    BY SplitStays
  <2>1. ASSUME NEW d \in Devices, NEW kind \in {"press", "release", "motion"},
               InputEvent(d, kind)
        PROVE  Orderly'
    BY <2>0, <2>1, InputOrder
  <2>2. ASSUME NEW c \in Clients, NEW d \in Devices, NEW w \in Windows,
               NEW thisSync \in BOOLEAN, NEW otherSync \in BOOLEAN,
               GrabDevice(c, d, w, thisSync, otherSync)
        PROVE  Orderly'
    BY <2>0, <2>2, GrabOrder
  <2>3. ASSUME NEW c \in Clients, NEW d \in Devices, NEW mode \in Modes,
               AllowSome(c, d, mode)
        PROVE  Orderly'
    BY <2>0, <2>3, AllowOrder
  <2>4. ASSUME NEW d \in Devices, EndGrab(d) PROVE Orderly'
    BY <2>0, <2>4, EndOrder
  <2>5. ASSUME NEW c \in Clients, CloseClient(c) PROVE Orderly'
    BY <2>0, <2>5, CloseOrder
  <2>6. ASSUME NEW c \in Clients, NewClient(c) PROVE Orderly'
    BY <2>0, <2>6, NewOrder
  <2>7. CASE ServerStep
    BY <2>0, <2>7, PlayOrder, ReplayOrder, PressOrder, SaveOrder, ReleaseOrder DEF ServerStep
  <2>8. CASE UNCHANGED vars
    BY <2>0, <2>8, SameEvents DEF vars, Orderly
  <2> QED
    BY <2>1, <2>2, <2>3, <2>4, <2>5, <2>6, <2>7, <2>8 DEF Next
<1>2. Init => InOrder
  BY InitOrder DEF InOrder
<1> QED
  BY <1>1, <1>2, Invariance, PTL DEF Spec

\* The events of a device are processed once each and in the order they were
\* generated, whatever froze and thawed it in between, and the keys the server
\* believes to be down are those the user holds once nothing waits: as long as
\* no repeated press was cut in two.
THEOREM OrderIsKept == Spec => []OrderKept
<1>1. Invariant /\ InOrder => OrderKept
  <2> SUFFICES ASSUME Invariant, Orderly
               PROVE  /\ \A i, j \in DOMAIN pending :
                           i < j /\ pending[i].dev = pending[j].dev =>
                             pending[i].id < pending[j].id
                      /\ \A i \in DOMAIN pending : done[pending[i].dev] < pending[i].id
                      /\ \A d \in Devices :
                           Idle /\ (\A i \in DOMAIN pending : pending[i].dev # d) =>
                             dev[d].down = phys[d]
    BY DEF InOrder, OrderKept
  <2>1. ASSUME NEW d \in Devices, Idle, \A i \in DOMAIN pending : pending[i].dev # d
        PROVE  dev[d].down = phys[d]
    <3>1. OnlyMotion(pending, d) /\ ~AgainOf(todo, d)
      BY <2>1 DEF OnlyMotion, AgainOf, Idle
    <3>2. phys[d] = TRUE <=> dev[d].down = TRUE
      BY <3>1 DEF Orderly, Agreed, Pressed
    <3>3. dev[d].down \in BOOLEAN /\ phys[d] \in BOOLEAN
      BY RecordType DEF Invariant, Settled, DeviceRecords, History
    <3> QED
      BY <3>2, <3>3
  <2> QED
    BY <2>1 DEF Orderly, Increasing, Ahead
<1> QED
  BY <1>1, Invariance, OrderInvariance, PTL

\* An event that AllowEvents gives back is the last one of its device that was
\* processed: nothing overtook it while the grab held it.
THEOREM ReplayOfLast == Spec => []ReplayIsCurrent
<1>1. Invariant /\ InOrder => ReplayIsCurrent
  <2> SUFFICES ASSUME Invariant, Orderly
               PROVE  /\ \A d \in Devices :
                           dev[d].state = "FROZEN_WITH_EVENT" => dev[d].event.id = done[d]
                      /\ Top("replay") => Head(todo).event.id = done[Head(todo).event.dev]
    BY DEF InOrder, ReplayIsCurrent
  <2>1. Top("replay") => Head(todo).event.id = done[Head(todo).event.dev]
    BY TopDue DEF Top, Eventful, DutyDue
  <2> QED
    BY <2>1 DEF Orderly, Current
<1> QED
  BY <1>1, Invariance, OrderInvariance, PTL
-----------------------------------------------------------------------------
(***************************************************************************)
(* The running handler returns.  Number counts the places of q that hold   *)
(* a member of K; Even says that t is the stack s but for duties that a    *)
(* handler may push at any time.                                           *)
(***************************************************************************)
Places(q, K) == {i \in DOMAIN q : q[i] \in K}

Number(q, K) == Cardinality(Places(q, K))

Steady == {k \in Continuations : k.op \in {"again", "replay"}}

Even(t, s) == \A K \in SUBSET Steady : Number(t, K) = Number(s, K)

\* The places of a sequence that hold a member of K can be counted.
LEMMA PlacesFinite ==
  ASSUME NEW X, NEW q \in Seq(X), NEW K
  PROVE  IsFiniteSet(Places(q, K)) /\ Number(q, K) \in Nat
<1>1. Places(q, K) \in SUBSET Nat /\ Len(q) \in Nat /\ \A i \in Places(q, K) : i <= Len(q)
  BY DEF Places
<1>2. IsFiniteSet(Places(q, K))
  BY <1>1, FS_BoundedSetOfNaturals
<1> QED
  BY <1>2, FS_CardinalityType DEF Number

\* Taking one place out of a sequence takes what it held from the count.
LEMMA NumberWithout ==
  ASSUME NEW X, NEW q \in Seq(X), NEW i \in DOMAIN q, NEW r \in Seq(X),
         IsWithout(r, q, i), NEW K
  PROVE  Number(q, K) = Number(r, K) + (IF q[i] \in K THEN 1 ELSE 0)
<1> DEFINE S == Places(q, K)
           T == Places(r, K)
           f == [j \in T |-> Step(i, j)]
<1>1. i \in Nat /\ IsFiniteSet(S) /\ IsFiniteSet(T) /\ Cardinality(S) \in Nat
  BY PlacesFinite DEF Number
<1>2. \A j \in T : j \in Nat /\ Step(i, j) \in S \ {i}
  BY DEF IsWithout, Places
<1>3. \A j, k \in T : Step(i, j) = Step(i, k) => j = k
  BY <1>1, <1>2 DEF Step
<1>4. \A k \in S \ {i} : \E j \in T : k = Step(i, j)
  <2> SUFFICES ASSUME NEW k \in S \ {i} PROVE \E j \in T : k = Step(i, j)
    OBVIOUS
  <2>1. PICK j \in DOMAIN r : k = Step(i, j)
    BY DEF IsWithout, Places
  <2> QED
    BY <2>1 DEF IsWithout, Places
<1>5. f \in Bijection(T, S \ {i})
  <2>1. f \in [T -> S \ {i}] /\ \A j \in T : f[j] = Step(i, j)
    BY <1>2
  <2> HIDE DEF f, S, T
  <2>2. f \in Injection(T, S \ {i})
    BY <1>3, <2>1 DEF Injection, IsInjective
  <2>3. f \in Surjection(T, S \ {i})
    BY <1>4, <2>1 DEF Surjection
  <2> QED
    BY <2>2, <2>3 DEF Bijection
<1>6. Cardinality(S \ {i}) = Cardinality(T)
  BY <1>1, <1>5, FS_Bijection DEF ExistsBijection
<1>7. Cardinality(S \ {i}) = IF i \in S THEN Cardinality(S) - 1 ELSE Cardinality(S)
  BY <1>1, FS_RemoveElement
<1>8. i \in S <=> q[i] \in K
  BY DEF Places
<1> QED
  BY <1>1, <1>6, <1>7, <1>8 DEF Number

\* A push, a pop and an append are the ends of a sequence put in or taken out.
LEMMA PushWithout ==
  ASSUME NEW X, NEW s \in Seq(X), NEW k \in X
  PROVE  LET t == <<k>> \o s
         IN  t \in Seq(X) /\ 1 \in DOMAIN t /\ t[1] = k /\ IsWithout(s, t, 1)
<1> DEFINE t == <<k>> \o s
<1>1. /\ t \in Seq(X) /\ DOMAIN t = 1 .. Len(s) + 1 /\ DOMAIN s = 1 .. Len(s)
      /\ Len(s) \in Nat /\ t[1] = k /\ \A i \in 1 .. Len(s) : t[i + 1] = s[i]
  OBVIOUS
<1> HIDE DEF t
<1>2. \A j \in 1 .. Len(s) : Step(1, j) = j + 1 /\ j + 1 \in 1 .. Len(s) + 1 /\ j + 1 # 1 /\ j \in Nat
  BY <1>1 DEF Step
<1>3. ASSUME NEW m \in 1 .. Len(s) + 1, m # 1 PROVE \E j \in 1 .. Len(s) : m = Step(1, j)
  <2>1. m - 1 \in 1 .. Len(s) /\ m = (m - 1) + 1
    BY <1>1, <1>3
  <2> QED
    BY <1>2, <2>1
<1> QED
  BY <1>1, <1>2, <1>3, SMTT(60) DEF IsWithout, t

LEMMA TailWithout ==
  ASSUME NEW X, NEW s \in Seq(X), s # <<>>
  PROVE  Tail(s) \in Seq(X) /\ 1 \in DOMAIN s /\ s[1] = Head(s) /\ IsWithout(Tail(s), s, 1)
<1> DEFINE t == Tail(s)
<1>1. /\ t \in Seq(X) /\ DOMAIN s = 1 .. Len(t) + 1 /\ DOMAIN t = 1 .. Len(t)
      /\ Len(t) \in Nat /\ s[1] = Head(s) /\ \A i \in 1 .. Len(t) : s[i + 1] = t[i]
  <2>1. Len(s) \in Nat \ {0} /\ DOMAIN s = 1 .. Len(s) /\ s[1] = Head(s)
    OBVIOUS
  <2>2. t \in Seq(X) /\ Len(t) = Len(s) - 1 /\ \A i \in 1 .. Len(t) : t[i] = s[i + 1]
    OBVIOUS
  <2> HIDE DEF t
  <2> QED
    BY <2>1, <2>2
<1> HIDE DEF t
<1>2. \A j \in 1 .. Len(t) : Step(1, j) = j + 1 /\ j + 1 \in 1 .. Len(t) + 1 /\ j + 1 # 1 /\ j \in Nat
  BY <1>1 DEF Step
<1>3. ASSUME NEW m \in 1 .. Len(t) + 1, m # 1 PROVE \E j \in 1 .. Len(t) : m = Step(1, j)
  <2>1. m - 1 \in 1 .. Len(t) /\ m = (m - 1) + 1
    BY <1>1, <1>3
  <2> QED
    BY <1>2, <2>1
<1>4. IsWithout(t, s, 1)
  BY <1>1, <1>2, <1>3 DEF IsWithout
<1>5. t \in Seq(X) /\ 1 \in DOMAIN s /\ s[1] = Head(s)
  BY <1>1
<1> QED
  BY <1>4, <1>5 DEF t

LEMMA AppendWithout ==
  ASSUME NEW X, NEW q \in Seq(X), NEW e \in X
  PROVE  LET r == Append(q, e)
             n == Len(q) + 1
         IN  r \in Seq(X) /\ n \in DOMAIN r /\ r[n] = e /\ IsWithout(q, r, n)
<1> DEFINE r == Append(q, e)
           n == Len(q) + 1
<1>1. /\ r \in Seq(X) /\ DOMAIN r = 1 .. n /\ DOMAIN q = 1 .. Len(q)
      /\ Len(q) \in Nat /\ r[n] = e /\ \A i \in 1 .. Len(q) : r[i] = q[i]
  OBVIOUS
<1> HIDE DEF r
<1>2. \A j \in 1 .. Len(q) : Step(n, j) = j /\ j \in 1 .. n /\ j # n /\ j \in Nat
  BY <1>1 DEF Step
<1>3. \A m \in 1 .. n : m # n => m \in 1 .. Len(q) /\ m = Step(n, m)
  BY <1>1 DEF Step
<1>4. IsWithout(q, r, n)
  <2>1. DOMAIN r \ {n} = {m \in 1 .. n : m # n}
    BY <1>1
  <2> HIDE DEF n
  <2> QED
    BY <1>1, <1>2, <1>3, <2>1 DEF IsWithout
<1>5. r \in Seq(X) /\ n \in DOMAIN r /\ r[n] = e
  BY <1>1
<1> QED
  BY <1>4, <1>5 DEF r

\* Duties that are not counted may be pushed.
LEMMA EvenMore ==
  ASSUME NEW t \in Seq(Continuations), NEW s, NEW k \in Continuations, k \notin Steady,
         Even(t, s)
  PROVE  Even(<<k>> \o t, s)
<1> SUFFICES ASSUME NEW K \in SUBSET Steady PROVE Number(<<k>> \o t, K) = Number(s, K)
  BY DEF Even
<1> DEFINE u == <<k>> \o t
<1>1. u \in Seq(Continuations) /\ 1 \in DOMAIN u /\ u[1] = k /\ IsWithout(t, u, 1)
  BY PushWithout, Zenon
<1> HIDE DEF u
<1>2. Number(u, K) = Number(t, K) + (IF u[1] \in K THEN 1 ELSE 0)
  BY <1>1, NumberWithout
<1>3. u[1] \notin K /\ Number(t, K) \in Nat /\ Number(t, K) = Number(s, K)
  BY <1>1, PlacesFinite DEF Even
<1> QED
  BY <1>2, <1>3 DEF u

\* ComputeFreezes pushes none that is counted.
LEMMA FreezesEven ==
  ASSUME NEW D, NEW rest \in Seq(Continuations), NEW s, Even(rest, s),
         ComputeFreezes(D, <<>>, rest)
  PROVE  Even(todo', s)
<1>1. todo' = rest \/ todo' = <<[op |-> "play"]>> \o rest
  <2>1. todo' = rest \/ todo' = <<>> \o <<[op |-> "play"]>> \o rest
    BY Zenon DEF ComputeFreezes
  <2> QED
    BY <2>1
<1> DEFINE k == [op |-> "play"]
<1>2. k \in Continuations /\ k \notin Steady
  BY DEF Continuations, Steady
<1> HIDE DEF k
<1>3. Even(<<k>> \o rest, s)
  BY <1>2, EvenMore
<1> QED
  BY <1>1, <1>3 DEF k

LEMMA EvenSame ==
  ASSUME NEW s
  PROVE  Even(s, s)
BY DEF Even

-----------------------------------------------------------------------------
(* What a handler does to the number of duties and to the grabs.           *)

Holders(D) == {d \in Devices : D[d].grab # None}

\* ComputeFreezes and deliveries neither begin nor end a grab; the end of a grab
\* takes one away.
LEMMA RefrozenHolders ==
  ASSUME NEW D, Table(D)
  PROVE  Holders(Refrozen(D)) = Holders(D)
<1>1. ASSUME NEW o \in Devices PROVE Refrozen(D)[o].grab = D[o].grab
  <2>1. D[o] \in DeviceRecords
    BY RecordType
  <2>2. PICK p \in BOOLEAN : p = (D[o].other # None \/ D[o].state \in Frozen)
    OBVIOUS
  <2>3. Refrozen(D)[o] = [D[o] EXCEPT !.frozen = p,
                            !.event = IF D[o].state = "FROZEN_WITH_EVENT" THEN @ ELSE None]
    BY <2>2, Zenon DEF Refrozen
  <2> QED
    BY <2>1, <2>3 DEF DeviceRecords
<1> QED
  BY <1>1 DEF Holders

LEMMA DeactivateHolders ==
  ASSUME NEW D, Table(D), NEW d \in Devices
  PROVE  Holders(DeactivateGrab(D, d)) = Holders(D) \ {d}
<1>1. ASSUME NEW o \in Devices
      PROVE  DeactivateGrab(D, d)[o].grab = IF o = d THEN None ELSE D[o].grab
  <2>1. D[o] \in DeviceRecords
    BY RecordType
  <2>2. PICK p \in BOOLEAN : p = (D[o].fromPassive /\ o # d)
    OBVIOUS
  <2>3. DeactivateGrab(D, d)[o] =
          [D[o] EXCEPT !.other = IF @ = d THEN None ELSE @,
                       !.grab = IF o = d THEN None ELSE @,
                       !.window = IF o = d THEN 0 ELSE @,
                       !.state = IF o = d THEN "NOT_GRABBED" ELSE @,
                       !.fromPassive = p]
    BY <2>2, Zenon DEF DeactivateGrab
  <2> QED
    BY <2>1, <2>3 DEF DeviceRecords
<1> QED
  BY <1>1 DEF Holders

LEMMA FreezeAfterHolders ==
  ASSUME NEW D, Table(D), NEW e \in Events
  PROVE  Holders(FreezeAfter(D, e)) = Holders(D)
<1>1. ASSUME NEW o \in Devices PROVE FreezeAfter(D, e)[o].grab = D[o].grab
  <2>1. D[o] \in DeviceRecords /\ e.dev \in Devices
    BY RecordType DEF Events
  <2> QED
    BY <2>1 DEF FreezeAfter, DeviceRecords, Table
<1> QED
  BY <1>1 DEF Holders

\* Nor does the state of a key.
LEMMA DownHolders ==
  ASSUME NEW d \in Devices, NEW b \in BOOLEAN, Table(dev)
  PROVE  LET D == [dev EXCEPT ![d].down = b]
         IN  Holders(D) = Holders(dev) /\ D[d].fromPassive = dev[d].fromPassive
<1> DEFINE D == [dev EXCEPT ![d].down = b]
<1>1. ASSUME NEW o \in Devices
      PROVE  D[o].grab = dev[o].grab /\ D[o].fromPassive = dev[o].fromPassive
  <2>1. dev[o] \in DeviceRecords
    BY RecordType
  <2> QED
    BY <2>1 DEF DeviceRecords, Table
<1> HIDE DEF D
<1>2. Holders(D) = Holders(dev)
  BY <1>1 DEF Holders
<1> QED
  BY <1>1, <1>2 DEF D

\* A search for passive grabs pushes no duty that is counted.
LEMMA CheckEven ==
  ASSUME NEW D, NEW rest, NEW n, NEW e \in Events, NEW first, Ready(rest, n),
         CheckDeviceGrabs(D, e, first, rest)
  PROVE  Even(todo', rest)
<1>1. rest \in Seq(Continuations)
  BY DEF Ready, Stack, Duties
<1>2. CASE Return(D, rest)
  BY <1>2, EvenSame DEF Return
<1>3. ASSUME NEW A, ComputeFreezes(A, <<>>, <<[op |-> "save", event |-> e]>> \o rest)
      PROVE  Even(todo', rest)
  <2> DEFINE k == [op |-> "save", event |-> e]
             t == <<k>> \o rest
  <2>1. k \in Continuations /\ k \notin Steady
    BY DEF Continuations, Steady
  <2> HIDE DEF k
  <2>2. t \in Seq(Continuations) /\ Even(t, rest)
    BY <1>1, <2>1, EvenSame, EvenMore
  <2>3. ComputeFreezes(A, <<>>, t)
    BY <1>3 DEF k
  <2> HIDE DEF t
  <2> QED
    BY <2>2, <2>3, FreezesEven
<1>4. ASSUME NEW A, ComputeFreezes(A, <<>>, rest) PROVE Even(todo', rest)
  BY <1>1, <1>4, EvenSame, FreezesEven
<1> QED
  BY <1>2, <1>3, <1>4 DEF CheckDeviceGrabs

\* The grab of the device d ended, or the grabs are the same and nothing is thawed.
GaveUp(d) ==
  \/ d \in Holders(dev) /\ Holders(dev') = Holders(dev) \ {d}
  \/ Holders(dev') = Holders(dev) /\ StaysFrozen(dev')

LEMMA PressEven ==
  ASSUME NEW rest, NEW n, NEW e \in Events, Ready(rest, n), Press(e, rest)
  PROVE  Even(todo', rest)
<1> DEFINE D == [dev EXCEPT ![e.dev].down = TRUE]
<1>1. CheckDeviceGrabs(D, e, 1, rest) \/ DeliverGrabbedEvent(D, e, rest)
  BY DEF Press
<1> HIDE DEF D
<1>2. CASE DeliverGrabbedEvent(D, e, rest)
  BY <1>2, EvenSame DEF DeliverGrabbedEvent, Return
<1> QED
  BY <1>1, <1>2, CheckEven

\* A release pushes none either, and ends the grab its press began.
LEMMA ReleaseEven ==
  ASSUME NEW rest, NEW n, NEW e \in Events, Settled, Ready(rest, n), Release(e, rest)
  PROVE  Even(todo', rest) /\ GaveUp(e.dev)
<1> DEFINE D == [dev EXCEPT ![e.dev].down = FALSE]
<1>0. e.dev \in Devices /\ rest \in Seq(Continuations) /\ FALSE \in BOOLEAN /\ Table(dev)
  BY DEF Events, Ready, Stack, Duties, Settled
<1>1. Table(D) /\ Sound(D) /\ Fresh(D) /\ StaysFrozen(D)
  BY <1>0, DownSound DEF Settled, StaysFrozen
<1>2. Holders(D) = Holders(dev)
  BY <1>0, DownHolders, Zenon
<1>3. \/ dev[e.dev].fromPassive = TRUE /\ ComputeFreezes(DeactivateGrab(D, e.dev), <<>>, rest)
      \/ Return(D, rest) \/ DeliverGrabbedEvent(D, e, rest)
  BY DEF Release
<1> HIDE DEF D
<1>4. CASE dev[e.dev].fromPassive = TRUE
           /\ ComputeFreezes(DeactivateGrab(D, e.dev), <<>>, rest)
  <2>1. Even(todo', rest)
    BY <1>0, <1>4, EvenSame, FreezesEven
  <2>2. dev' = Refrozen(DeactivateGrab(D, e.dev))
    BY <1>4 DEF ComputeFreezes
  <2>3. Holders(dev') = Holders(dev) \ {e.dev}
    BY <1>0, <1>1, <1>2, <2>2, DeactivateSound, DeactivateHolders, RefrozenHolders
  <2>4. e.dev \in Holders(dev)
    BY <1>0, <1>4 DEF Settled, Sound, Holders
  <2> QED
    BY <2>1, <2>3, <2>4 DEF GaveUp
<1>5. CASE Return(D, rest)
  BY <1>1, <1>2, <1>5, EvenSame DEF Return, GaveUp, StaysFrozen
<1>6. CASE Return(FreezeAfter(D, e), rest)
  <2>1. \A o \in Devices : D[o].frozen => FreezeAfter(D, e)[o].frozen
    BY <1>1, FreezeAfterSound
  <2>2. Holders(FreezeAfter(D, e)) = Holders(dev)
    BY <1>1, <1>2, FreezeAfterHolders
  <2> QED
    BY <1>1, <1>6, <2>1, <2>2, EvenSame DEF Return, GaveUp, StaysFrozen
<1> QED
  BY <1>3, <1>4, <1>5, <1>6 DEF DeliverGrabbedEvent

\* An event is processed: nothing that counts is pushed, or it is a press of a key
\* that is down, whose press half is pushed.
Ordinary(e, rest) == Even(todo', rest) /\ Grown(todo', rest, Saves(e))

Repeated(e, rest) ==
  /\ e.kind = "press" /\ e.dev # Pointer /\ dev[e.dev].down = TRUE
  /\ dev'[e.dev].down = FALSE /\ GaveUp(e.dev)
  /\ \E k \in Presses(e) :
       Even(todo', <<k>> \o rest) /\ Grown(todo', <<k>> \o rest, Saves(e))

\* What processing an event comes to: an ordinary handler, or the first half of a
\* repeated press, which pushes the second half.
LEMMA ProcessReturns ==
  ASSUME NEW rest, NEW n \in Nat, NEW e \in Known(n), Settled, Ready(rest, n),
         ProcessEvent(e, rest)
  PROVE  Ordinary(e, rest) \/ Repeated(e, rest)
<1>e. /\ e \in Events /\ e.dev \in Devices /\ e.kind \in {"press", "release", "motion"}
      /\ dev[e.dev].down \in BOOLEAN /\ Table(dev) /\ FALSE \in BOOLEAN
  BY RecordType DEF Known, Events, Settled, DeviceRecords
<1>1. CASE Return(dev, rest)
  BY <1>1, GrownNone, EvenSame DEF Return, Ordinary
<1>2. CASE Press(e, rest)
  BY <1>e, <1>2, PressDoes, PressEven DEF Does, Ordinary
<1>3. CASE Release(e, rest)
  BY <1>e, <1>3, ReleaseDoes, ReleaseEven DEF Does, Ordinary
<1>4. CASE /\ e.kind = "press" /\ e.dev # Pointer /\ dev[e.dev].down
           /\ Release([e EXCEPT !.kind = "release"],
                    <<[op |-> "again", event |-> [e EXCEPT !.again = TRUE]]>> \o rest)
  <2> DEFINE up == [e EXCEPT !.kind = "release"]
             half == [e EXCEPT !.again = TRUE]
             k == [op |-> "again", event |-> half]
             t == <<k>> \o rest
  <2>1. up \in Events /\ up.dev = e.dev /\ up.id = e.id
    BY <1>e DEF Events
  <2>2. /\ half \in Known(n) /\ half.id = e.id /\ half.dev = e.dev /\ half.kind = e.kind
        /\ half.again = TRUE
    <3>1. \A b \in BOOLEAN : /\ [e EXCEPT !.again = b] \in Known(n)
                            /\ [e EXCEPT !.again = b].id = e.id
                            /\ [e EXCEPT !.again = b].dev = e.dev
                            /\ [e EXCEPT !.again = b].kind = e.kind
                            /\ [e EXCEPT !.again = b].again = b
      BY <1>e DEF Events, Known
    <3> QED
      BY <3>1, Zenon
  <2>3. Release(up, t)
    BY <1>4
  <2> HIDE DEF up, half
  <2>4. k \in Duties(n) /\ k.op # "play" /\ k \in Presses(e)
    BY <1>4, <2>2 DEF Duties, Continuations, Known, Presses
  <2> HIDE DEF k
  <2>5. Ready(t, n)
    BY <2>4, Push DEF Ready
  <2> HIDE DEF t
  <2>6. Does([dev EXCEPT ![up.dev].down = FALSE], t, up) /\ Even(todo', t) /\ GaveUp(e.dev)
    BY <2>1, <2>3, <2>5, ReleaseDoes, ReleaseEven
  <2>7. dev'[e.dev].down = FALSE
    <3>1. Alike(dev', [dev EXCEPT ![e.dev].down = FALSE], Copies(up))
      BY <2>1, <2>6 DEF Does
    <3> QED
      BY <1>e, <3>1, DownAfter, Zenon
  <2>8. Grown(todo', t, Saves(e))
    <3>1. Saves(up) = Saves(e)
      BY <2>1 DEF Saves
    <3> QED
      BY <2>6, <3>1 DEF Does
  <2>9. dev[e.dev].down = TRUE
    BY <1>e, <1>4
  <2> QED
    BY <1>4, <2>4, <2>6, <2>7, <2>8, <2>9 DEF Repeated, t
<1>5. \/ Return(dev, rest) \/ Press(e, rest) \/ Release(e, rest)
      \/ /\ e.kind = "press" /\ e.dev # Pointer /\ dev[e.dev].down
         /\ Release([e EXCEPT !.kind = "release"],
                    <<[op |-> "again", event |-> [e EXCEPT !.again = TRUE]]>> \o rest)
  <2>1. CASE e.kind = "motion"
    BY <2>1 DEF ProcessEvent
  <2>2. CASE e.kind = "release"
    BY <2>2 DEF ProcessEvent
  <2>3. CASE e.kind = "press"
    BY <2>3 DEF ProcessEvent
  <2> QED
    BY <1>e, <2>1, <2>2, <2>3
<1> QED
  BY <1>1, <1>2, <1>3, <1>4, <1>5

-----------------------------------------------------------------------------
(* The invariant: a press half on the stack is of a key that is up, it is  *)
(* the only one of its device, and it is handed on before another event of *)
(* its device is played.                                                   *)

HalfOf(d) == {k \in Continuations : k.op = "again" /\ k.event.dev = d}

IsHalf(k, D) ==
  /\ k.event.kind = "press" /\ k.event.again = TRUE
  /\ k.event.dev # Pointer /\ D[k.event.dev].down = FALSE

HalvesDue(s, q, D) ==
  \A m \in DOMAIN s : s[m].op = "again" =>
    IsHalf(s[m], D) /\ (Under(s, m) \/ NonePending(q, s[m].event.dev))

Halves ==
  /\ HalvesDue(todo, pending, dev)
  /\ \A d \in Devices : Number(todo, HalfOf(d)) <= 1
  /\ \A i \in DOMAIN pending : pending[i].again = TRUE => pending[i].kind = "press"

\* Saving duties and the playing loop disturb no press half,
LEMMA HalvesGrown ==
  ASSUME NEW t, NEW s, NEW e, NEW q, NEW D, NEW A, Grown(t, s, Saves(e)),
         HalvesDue(s, q, D), \A d \in Devices : AgainOf(s, d) => A[d].down = D[d].down,
         s \in Seq(Continuations)
  PROVE  HalvesDue(t, q, A)
<1> SUFFICES ASSUME NEW m \in DOMAIN t, t[m].op = "again"
             PROVE  IsHalf(t[m], A) /\ (Under(t, m) \/ NonePending(q, t[m].event.dev))
  BY DEF HalvesDue
<1>1. t[m] \notin Saves(e) /\ t[m].op \in Eventful
  BY DEF Saves, Eventful
<1>2. PICK k \in DOMAIN s : t[m] = s[k] /\ (Under(s, k) => Under(t, m))
  BY <1>1, Zenon DEF Grown
<1>3. IsHalf(s[k], D) /\ (Under(s, k) \/ NonePending(q, s[k].event.dev))
  BY <1>2 DEF HalvesDue
<1>4. AgainOf(s, s[k].event.dev) /\ s[k].event.dev \in Devices
  <2>1. s[k] \in Continuations /\ s[k].op = "again"
    BY <1>2
  <2> QED
    BY <2>1 DEF AgainOf, Continuations, Events
<1> QED
  BY <1>2, <1>3, <1>4 DEF IsHalf

\* taking the top off the stack disturbs no other one,
LEMMA HalvesTail ==
  ASSUME NEW n, NEW s, Stack(s, n), s # <<>>, NEW q, NEW D, HalvesDue(s, q, D)
  PROVE  HalvesDue(Tail(s), q, D)
<1> DEFINE t == Tail(s)
<1>1. \A m \in DOMAIN t : /\ m + 1 \in DOMAIN s /\ t[m] = s[m + 1]
                          /\ Under(s, m + 1) => Under(t, m)
  BY Popped
<1> HIDE DEF t
<1>2. HalvesDue(t, q, D)
  BY <1>1 DEF HalvesDue
<1> QED
  BY <1>2 DEF t

\* and a half may be pushed when its key is up and nothing of its device is
\* played before it.
LEMMA HalvesPush ==
  ASSUME NEW s \in Seq(Continuations), NEW q, NEW D, HalvesDue(s, q, D),
         NEW k \in Continuations, IsHalf(k, D),
         HasPlay(s) \/ NonePending(q, k.event.dev)
  PROVE  HalvesDue(<<k>> \o s, q, D)
<1> DEFINE t == <<k>> \o s
<1>1. /\ DOMAIN t = 1 .. Len(s) + 1 /\ DOMAIN s = 1 .. Len(s) /\ Len(s) \in Nat
      /\ t[1] = k /\ \A i \in 1 .. Len(s) : t[i + 1] = s[i]
  OBVIOUS
<1> HIDE DEF t
<1>2. ASSUME NEW m \in DOMAIN s, NEW j \in DOMAIN s, s[j].op = "play"
      PROVE  /\ j + 1 \in DOMAIN t /\ t[j + 1].op = "play" /\ 1 < j + 1
             /\ m < j => m + 1 < j + 1
  BY <1>1, <1>2
<1>3. HasPlay(s) => Under(t, 1)
  BY <1>2 DEF HasPlay, Under
<1>4. \A m \in DOMAIN s : Under(s, m) => Under(t, m + 1)
  BY <1>2 DEF Under
<1>5. ASSUME NEW m \in DOMAIN t, t[m].op = "again"
      PROVE  IsHalf(t[m], D) /\ (Under(t, m) \/ NonePending(q, t[m].event.dev))
  <2>1. CASE m = 1
    BY <1>1, <1>3, <2>1
  <2>2. CASE m # 1
    <3>1. m - 1 \in DOMAIN s /\ (m - 1) + 1 = m
      BY <1>1, <2>2
    <3>2. PICK j \in DOMAIN s : m = j + 1 /\ t[m] = s[j]
      BY <1>1, <3>1
    <3>3. IsHalf(s[j], D) /\ (Under(s, j) \/ NonePending(q, s[j].event.dev))
      BY <1>5, <3>2 DEF HalvesDue
    <3> QED
      BY <1>4, <3>2, <3>3
  <2> QED
    BY <2>1, <2>2
<1> QED
  BY <1>5 DEF HalvesDue, t

\* Counting a stack from its top.
LEMMA NumberTail ==
  ASSUME NEW n, NEW s, Stack(s, n), s # <<>>, NEW K
  PROVE  /\ Number(s, K) = Number(Tail(s), K) + (IF Head(s) \in K THEN 1 ELSE 0)
         /\ Number(s, K) \in Nat /\ Number(Tail(s), K) \in Nat
         /\ Tail(s) \in Seq(Continuations) /\ s \in Seq(Continuations)
         /\ Len(Tail(s)) \in Nat /\ Len(s) = Len(Tail(s)) + 1
<1>1. s \in Seq(Continuations)
  BY DEF Stack, Duties
<1>2. /\ Tail(s) \in Seq(Continuations) /\ 1 \in DOMAIN s /\ s[1] = Head(s)
      /\ IsWithout(Tail(s), s, 1)
  BY <1>1, TailWithout
<1>3. Number(s, K) = Number(Tail(s), K) + (IF s[1] \in K THEN 1 ELSE 0)
  <2>1. PICK t : t = Tail(s)
    OBVIOUS
  <2>2. t \in Seq(Continuations) /\ IsWithout(t, s, 1) /\ 1 \in DOMAIN s
    BY <1>2, <2>1, Zenon
  <2>3. Number(s, K) = Number(t, K) + (IF s[1] \in K THEN 1 ELSE 0)
    BY <1>1, <2>2, NumberWithout
  <2> QED
    BY <2>1, <2>3
<1>4. Number(s, K) \in Nat /\ Number(Tail(s), K) \in Nat
  BY <1>1, <1>2, PlacesFinite
<1>5. Len(Tail(s)) \in Nat /\ Len(s) = Len(Tail(s)) + 1
  BY <1>1
<1> QED
  BY <1>1, <1>2, <1>3, <1>4, <1>5

LEMMA NumberPush ==
  ASSUME NEW s \in Seq(Continuations), NEW k \in Continuations, NEW K
  PROVE  /\ Number(<<k>> \o s, K) = Number(s, K) + (IF k \in K THEN 1 ELSE 0)
         /\ Number(s, K) \in Nat /\ <<k>> \o s \in Seq(Continuations)
<1> DEFINE t == <<k>> \o s
<1>1. t \in Seq(Continuations) /\ 1 \in DOMAIN t /\ t[1] = k /\ IsWithout(s, t, 1)
  BY PushWithout, Zenon
<1> HIDE DEF t
<1>2. Number(t, K) = Number(s, K) + (IF t[1] \in K THEN 1 ELSE 0)
  BY <1>1, NumberWithout
<1>3. Number(s, K) \in Nat
  BY PlacesFinite
<1> QED
  BY <1>1, <1>2, <1>3 DEF t

\* No press half of d is counted when there is none.
LEMMA NumberNone ==
  ASSUME NEW s \in Seq(Continuations), NEW d
  PROVE  Number(s, HalfOf(d)) = 0 <=> ~AgainOf(s, d)
<1>1. Number(s, HalfOf(d)) = 0 <=> Places(s, HalfOf(d)) = {}
  BY PlacesFinite, FS_EmptySet DEF Number
<1>2. Places(s, HalfOf(d)) = {} <=> ~AgainOf(s, d)
  <2>1. \A m \in DOMAIN s : s[m] \in Continuations
    OBVIOUS
  <2> QED
    BY <2>1 DEF Places, HalfOf, AgainOf
<1> QED
  BY <1>1, <1>2

\* Press halves are duties that count.
LEMMA HalfSteady ==
  ASSUME NEW d
  PROVE  HalfOf(d) \in SUBSET Steady
BY DEF HalfOf, Steady

-----------------------------------------------------------------------------
(* The steps that push no press half, and the requests.                    *)

\* Taking an event from the queue hurries no press half.
LEMMA FewerPending ==
  ASSUME NEW s, NEW q, NEW r, NEW D, HalvesDue(s, q, D),
         \A d \in Devices : AgainOf(s, d) /\ NonePending(q, d) => NonePending(r, d),
         s \in Seq(Continuations)
  PROVE  HalvesDue(s, r, D)
<1> SUFFICES ASSUME NEW m \in DOMAIN s, s[m].op = "again"
             PROVE  IsHalf(s[m], D) /\ (Under(s, m) \/ NonePending(r, s[m].event.dev))
  BY DEF HalvesDue
<1>1. s[m] \in Continuations
  OBVIOUS
<1>2. AgainOf(s, s[m].event.dev) /\ s[m].event.dev \in Devices
  BY <1>1 DEF AgainOf, Continuations, Events
<1> QED
  BY <1>2 DEF HalvesDue

\* No press half is on the stack.
LEMMA QuietHalves ==
  ASSUME Halves, todo' \in Seq(Continuations),
         pending' = pending
           \/ \A i \in DOMAIN pending' : pending'[i].again = TRUE => pending'[i].kind = "press",
         \A d \in Devices : ~AgainOf(todo', d)
  PROVE  Halves'
<1>1. ASSUME NEW m \in DOMAIN todo', todo'[m].op = "again" PROVE FALSE
  <2>1. todo'[m] \in Continuations
    OBVIOUS
  <2> QED
    BY <1>1, <2>1 DEF AgainOf, Continuations, Events
<1>2. \A d \in Devices : Number(todo', HalfOf(d)) = 0
  BY NumberNone
<1>3. (\A i \in DOMAIN pending : pending[i].again = TRUE => pending[i].kind = "press")'
  BY DEF Halves
<1>4. HalvesDue(todo', pending', dev')
  BY <1>1 DEF HalvesDue
<1>5. HalvesDue(todo, pending, dev)'
  BY <1>4 DEF HalvesDue, Under, NonePending, IsHalf
<1>6. (\A d \in Devices : Number(todo, HalfOf(d)) <= 1)'
  BY <1>2 DEF Number, Places, HalfOf
<1> QED
  BY <1>3, <1>5, <1>6 DEF Halves

\* The types in the next state, from the invariant.
LEMMA TypedNext ==
  ASSUME Invariant'
  PROVE  todo' \in Seq(Continuations) /\ pending' \in Seq(Events)
BY DEF Invariant, Ready, Stack, Duties, Waiting, Known

\* A request finds no handler running and leaves no press half.
LEMMA RequestHalves ==
  ASSUME Invariant, Invariant', Halves, Request, NEW A, Table(A),
         ComputeFreezes(A, <<>>, <<>>)
  PROVE  Halves'
<1>1. todo = <<>> /\ pending' = pending /\ Stack(todo, made)
  BY DEF Request, Idle, Invariant, Ready
<1>2. Grown(todo', todo, {})
  <2>1. ComputeFreezes(A, <<>>, todo)
    BY <1>1
  <2> QED
    BY <1>1, <2>1, FreezesGrow, GrownNone
<1>3. ASSUME NEW d \in Devices PROVE ~AgainOf(todo', d)
  <2>1. ~AgainOf(todo, d)
    BY <1>1 DEF AgainOf
  <2> QED
    BY <1>2, <2>1, AgainGrown
<1> QED
  BY <1>1, <1>3, TypedNext, QuietHalves

LEMMA AllowHalves ==
  ASSUME Invariant, Invariant', Halves, NEW c \in Clients, NEW d \in Devices,
         NEW mode \in Modes, AllowSome(c, d, mode)
  PROVE  Halves'
<1>1. PICK A, replay :
        /\ Table(A) /\ Sound(A) /\ Alike(A, dev, {})
        /\ \/ replay = <<>>
           \/ \E w \in Windows :
                /\ dev[d].state = "FROZEN_WITH_EVENT" /\ dev[d].event \in Events
                /\ replay = <<[op |-> "replay", event |-> dev[d].event, win |-> w]>>
        /\ ComputeFreezes(A, replay, <<>>)
  <2>1. Settled /\ alive \subseteq Clients
    BY DEF Invariant, Ready
  <2> QED
    BY <2>1, AllowFreezes
<1>2. Request
  BY DEF AllowSome
<1>3. CASE replay = <<>>
  BY <1>1, <1>2, <1>3, RequestHalves
<1>4. ASSUME NEW w \in Windows,
             replay = <<[op |-> "replay", event |-> dev[d].event, win |-> w]>>
      PROVE  Halves'
  <2> DEFINE r == [op |-> "replay", event |-> dev[d].event, win |-> w]
             l == [op |-> "play"]
  <2>1. r.op = "replay" /\ l.op = "play"
    OBVIOUS
  <2> HIDE DEF r, l
  <2>2. todo' = <<>> \/ todo' = <<r>> \o <<l>> \o <<>>
    BY <1>1, <1>4, Zenon DEF ComputeFreezes, r, l
  <2>3. \A x \in Devices : ~AgainOf(todo', x)
    BY <2>1, <2>2 DEF AgainOf
  <2> QED
    BY <1>2, <2>3, TypedNext, QuietHalves DEF Request
<1> QED
  BY <1>1, <1>3, <1>4

LEMMA GrabHalves ==
  ASSUME Invariant, Invariant', Halves, NEW c \in Clients, NEW d \in Devices,
         NEW w \in Windows, NEW thisSync \in BOOLEAN, NEW otherSync \in BOOLEAN,
         GrabDevice(c, d, w, thisSync, otherSync)
  PROVE  Halves'
<1> DEFINE A == ActivateGrab(dev, d, c, w, FALSE, thisSync, otherSync)
<1>1. Request /\ c \in alive /\ ComputeFreezes(A, <<>>, <<>>)
  BY DEF GrabDevice
<1>2. \A p \in BOOLEAN : Table(ActivateGrab(dev, d, c, w, p, thisSync, otherSync))
  BY <1>1, ActivateSound DEF Invariant, Settled, Ready
<1>3. Table(A)
  BY <1>2, Zenon
<1> HIDE DEF A
<1> QED
  BY <1>1, <1>3, RequestHalves

LEMMA EndHalves ==
  ASSUME Invariant, Invariant', Halves, NEW d \in Devices, EndGrab(d)
  PROVE  Halves'
<1>1. Table(DeactivateGrab(dev, d))
  BY DeactivateSound DEF Invariant, Settled
<1> QED
  BY <1>1, RequestHalves DEF EndGrab

LEMMA CloseHalves ==
  ASSUME Invariant', Halves, NEW c \in Clients, CloseClient(c)
  PROVE  Halves'
<1>1. todo' = <<[op |-> "release", client |-> c]>> /\ pending' = pending
  BY DEF CloseClient, Request
<1>2. \A d \in Devices : ~AgainOf(todo', d)
  BY <1>1 DEF AgainOf
<1> QED
  BY <1>1, <1>2, TypedNext, QuietHalves

LEMMA NewHalves ==
  ASSUME Invariant', Halves, NEW c \in Clients, NewClient(c)
  PROVE  Halves'
<1>1. todo' = <<>> /\ pending' = pending
  BY DEF NewClient, Idle
<1>2. \A d \in Devices : ~AgainOf(todo', d)
  BY <1>1 DEF AgainOf
<1> QED
  BY <1>1, <1>2, TypedNext, QuietHalves

-----------------------------------------------------------------------------
(* The steps that process an event.                                        *)

\* In front of the event e of a device whose press half is not in rest: what
\* waits for the rest of the stack waits as well when e is done.
LEMMA EventHalves ==
  ASSUME NEW n \in Nat, NEW rest, NEW e \in Known(n), Settled, Ready(rest, n),
         ProcessEvent(e, rest), Invariant',
         HalvesDue(rest, pending', dev), \A d \in Devices : Number(rest, HalfOf(d)) <= 1,
         ~AgainOf(rest, e.dev), HasPlay(rest) \/ NonePending(pending', e.dev),
         \A i \in DOMAIN pending' : pending'[i].again = TRUE => pending'[i].kind = "press"
  PROVE  Halves'
<1>1. /\ rest \in Seq(Continuations) /\ todo' \in Seq(Continuations) /\ e.dev \in Devices
  BY TypedNext DEF Ready, Stack, Duties, Known, Events
<1>2. \A d \in Devices : AgainOf(rest, d) => dev'[d].down = dev[d].down
  BY ProcessDoes
<1>3. HalvesDue(rest, pending', dev')
  BY <1>1, <1>2, GrownNone, HalvesGrown
<1>4. CASE Ordinary(e, rest)
  <2>1. HalvesDue(todo', pending', dev')
    BY <1>1, <1>3, <1>4, HalvesGrown DEF Ordinary
  <2>2. \A d \in Devices : Number(todo', HalfOf(d)) <= 1
    BY <1>4, HalfSteady DEF Ordinary, Even
  <2> QED
    BY <2>1, <2>2 DEF Halves, HalvesDue, Under, NonePending, IsHalf, Number, Places, HalfOf
<1>5. CASE Repeated(e, rest)
  <2>1. PICK k \in Presses(e) : /\ Even(todo', <<k>> \o rest)
                               /\ Grown(todo', <<k>> \o rest, Saves(e))
    BY <1>5 DEF Repeated
  <2>2. k \in Continuations /\ k.op = "again" /\ k.event.dev = e.dev /\ IsHalf(k, dev')
    BY <1>5 DEF Repeated, Presses, IsHalf
  <2>3. HalvesDue(<<k>> \o rest, pending', dev') /\ <<k>> \o rest \in Seq(Continuations)
    BY <1>1, <1>3, <2>2, HalvesPush
  <2>4. HalvesDue(todo', pending', dev')
    BY <2>1, <2>3, HalvesGrown
  <2>5. ASSUME NEW d \in Devices PROVE Number(todo', HalfOf(d)) <= 1
    <3>1. /\ Number(todo', HalfOf(d)) = Number(rest, HalfOf(d))
                                         + (IF k \in HalfOf(d) THEN 1 ELSE 0)
          /\ Number(rest, HalfOf(d)) \in Nat
      BY <1>1, <2>1, <2>2, HalfSteady, NumberPush, SMTT(60) DEF Even
    <3>2. k \in HalfOf(d) => Number(rest, HalfOf(d)) = 0
      BY <1>1, <2>2, NumberNone DEF HalfOf
    <3> QED
      BY <3>1, <3>2
  <2> QED
    BY <2>4, <2>5 DEF Halves, HalvesDue, Under, NonePending, IsHalf, Number, Places, HalfOf
<1> QED
  BY <1>4, <1>5, ProcessReturns

LEMMA InputHalves ==
  ASSUME Invariant, Invariant', Halves, NEW d \in Devices,
         NEW kind \in {"press", "release", "motion"}, InputEvent(d, kind)
  PROVE  Halves'
<1> DEFINE e == [id |-> made + 1, dev |-> d, kind |-> kind, again |-> FALSE]
<1>n. made \in Nat /\ made' \in Nat /\ made <= made' /\ made' = made + 1
      /\ made + 1 \in 1 .. MaxEvents
  BY BoundsAssumption DEF Invariant, History, InputEvent
<1>e. e \in Known(made') /\ e.again = FALSE /\ e.dev = d
  <2>1. \A b \in BOOLEAN :
          [id |-> made + 1, dev |-> d, kind |-> kind, again |-> b] \in Known(made')
    BY <1>n DEF Known, Events
  <2> QED
    BY <2>1, Zenon
<1>i. todo = <<>> /\ ~HasPlay(todo) /\ ~playing
  BY DEF InputEvent, Idle, Invariant, Ready, HasPlay
<1>s. Stack(todo, made') /\ pending \in Seq(Known(made')) /\ Ready(todo, made')
  <2>1. Stack(todo, made') /\ pending \in Seq(Known(made'))
    BY <1>n, KnownGrows DEF Invariant, Ready, Waiting
  <2> QED
    BY <2>1 DEF Invariant, Ready
<1> HIDE DEF e
<1>1. CASE dev[d].frozen
  <2>1. EnqueueEvent(e) /\ todo' = <<>>
    BY <1>1, <1>i DEF InputEvent, e
  <2>2. \A i \in DOMAIN pending' :
          pending'[i] = e \/ (i \in DOMAIN pending /\ pending'[i] = pending[i])
    BY <1>n, <1>e, <1>s, <2>1, EnqueueTyped
  <2>3. \A i \in DOMAIN pending' : pending'[i].again = TRUE => pending'[i].kind = "press"
    BY <1>e, <2>2 DEF Halves
  <2>4. \A x \in Devices : ~AgainOf(todo', x)
    BY <2>1 DEF AgainOf
  <2> QED
    BY <2>3, <2>4, TypedNext, QuietHalves
<1>2. CASE ~dev[d].frozen
  <2>1. ProcessEvent(e, todo) /\ pending' = pending
    BY <1>2, <1>i DEF InputEvent, e
  <2>2. HalvesDue(todo, pending', dev) /\ \A x \in Devices : Number(todo, HalfOf(x)) <= 1
    BY <2>1 DEF Halves
  <2>3. ~AgainOf(todo, d)
    BY <1>i DEF AgainOf
  <2>4. NonePending(pending', d)
    BY <1>2, <1>i, <2>1 DEF NonePending, Invariant, Waiting
  <2>5. \A i \in DOMAIN pending' : pending'[i].again = TRUE => pending'[i].kind = "press"
    BY <2>1 DEF Halves
  <2> QED
    BY <1>n, <1>e, <1>s, <2>1, <2>2, <2>3, <2>4, <2>5, EventHalves DEF Invariant
<1> QED
  BY <1>1, <1>2

\* A step that plays nothing and puts nothing in the queue.
LEMMA SteadyHalves ==
  ASSUME Invariant', Halves, NEW rest \in Seq(Continuations),
         HalvesDue(rest, pending, dev), \A d \in Devices : Number(rest, HalfOf(d)) <= 1,
         NEW e, Grown(todo', rest, Saves(e)), Even(todo', rest), pending' = pending,
         \A d \in Devices : dev'[d].down = dev[d].down
  PROVE  Halves'
<1>1. HalvesDue(todo', pending', dev')
  BY HalvesGrown
<1>2. \A d \in Devices : Number(todo', HalfOf(d)) <= 1
  BY HalfSteady DEF Even
<1>3. \A i \in DOMAIN pending' : pending'[i].again = TRUE => pending'[i].kind = "press"
  BY DEF Halves
<1> QED
  BY <1>1, <1>2, <1>3 DEF Halves, HalvesDue, Under, NonePending, IsHalf, Number, Places, HalfOf

\* The press halves below the top of the stack.
LEMMA RestHalves ==
  ASSUME Invariant, Halves, todo # <<>>
  PROVE  /\ Stack(todo, made) /\ Tail(todo) \in Seq(Continuations)
         /\ HalvesDue(Tail(todo), pending, dev)
         /\ \A d \in Devices : Number(Tail(todo), HalfOf(d)) <= 1
         /\ \A d \in Devices : Head(todo) \in HalfOf(d) => ~AgainOf(Tail(todo), d)
<1>1. Stack(todo, made)
  BY DEF Invariant, Ready
<1>2. HalvesDue(Tail(todo), pending, dev)
  BY <1>1, HalvesTail DEF Halves
<1>3. ASSUME NEW d \in Devices
      PROVE  /\ Number(todo, HalfOf(d)) = Number(Tail(todo), HalfOf(d))
                                           + (IF Head(todo) \in HalfOf(d) THEN 1 ELSE 0)
             /\ Number(Tail(todo), HalfOf(d)) \in Nat /\ Tail(todo) \in Seq(Continuations)
             /\ Number(todo, HalfOf(d)) <= 1
  BY <1>1, NumberTail DEF Halves
<1>4. Tail(todo) \in Seq(Continuations)
  BY <1>1, NumberTail
<1>5. ASSUME NEW d \in Devices
      PROVE  /\ Number(Tail(todo), HalfOf(d)) <= 1
             /\ Head(todo) \in HalfOf(d) => ~AgainOf(Tail(todo), d)
  <2>1. Number(Tail(todo), HalfOf(d)) = 0 <=> ~AgainOf(Tail(todo), d)
    BY <1>4, NumberNone
  <2> QED
    BY <1>3, <2>1
<1> QED
  BY <1>1, <1>2, <1>4, <1>5

\* What PlayReleasedEvents does: it is done, or it takes an event of a thawed device.
LEMMA PlayShape ==
  ASSUME Invariant, PlayReleasedEvents
  PROVE  /\ todo # <<>> /\ Head(todo).op = "play" /\ Stack(todo, made) /\ HasPlay(todo)
         /\ \/ todo' = Tail(todo) /\ dev' = dev /\ pending' = pending
            \/ \E i \in DOMAIN pending :
                 /\ IsWithout(pending', pending, i) /\ ProcessEvent(pending[i], todo)
                 /\ pending[i] \in Known(made) /\ ~dev[pending[i].dev].frozen
<1> DEFINE ready == {i \in DOMAIN pending : ~dev[pending[i].dev].frozen}
           i == CHOOSE j \in ready : \A k \in ready : j <= k
<1>1. todo # <<>> /\ Head(todo).op = "play" /\ Stack(todo, made) /\ HasPlay(todo)
  BY Pop DEF PlayReleasedEvents, Top, Invariant, Ready
<1>2. CASE ready = {}
  BY <1>1, <1>2 DEF PlayReleasedEvents
<1>3. CASE ready # {}
  <2>1. /\ pending' = SubSeq(pending, 1, i - 1) \o SubSeq(pending, i + 1, Len(pending))
        /\ ProcessEvent(pending[i], todo)
    BY <1>3 DEF PlayReleasedEvents
  <2>2. pending \in Seq(Known(made)) /\ DOMAIN pending \subseteq Nat
    BY DEF Invariant, Waiting
  <2>3. i \in DOMAIN pending /\ ~dev[pending[i].dev].frozen
    <3>1. ready \subseteq Nat
      BY <2>2
    <3> HIDE DEF ready
    <3>2. i \in ready
      BY <1>3, <3>1, FirstIsLeast
    <3> QED
      BY <3>2 DEF ready
  <2> HIDE DEF i, ready
  <2>4. IsWithout(pending', pending, i)
    <3>1. PICK r : r = pending'
      OBVIOUS
    <3>2. r = SubSeq(pending, 1, i - 1) \o SubSeq(pending, i + 1, Len(pending))
      BY <2>1, <3>1
    <3>3. IsWithout(r, pending, i)
      BY <2>2, <2>3, <3>2, Without, Zenon
    <3> QED
      BY <3>1, <3>3
  <2>5. pending[i] \in Known(made)
    BY <2>2, <2>3
  <2> QED
    BY <1>1, <2>1, <2>3, <2>4, <2>5
<1> QED
  BY <1>2, <1>3

LEMMA PlayHalves ==
  ASSUME Invariant, Invariant', Halves, PlayReleasedEvents
  PROVE  Halves'
<1>1. /\ todo # <<>> /\ Head(todo).op = "play" /\ Stack(todo, made) /\ HasPlay(todo)
      /\ made \in Nat
  BY PlayShape DEF Invariant, History
<1>2. CASE todo' = Tail(todo) /\ dev' = dev /\ pending' = pending
  BY <1>1, <1>2, RestHalves, SteadyHalves, GrownNone, EvenSame
<1>3. ASSUME NEW i \in DOMAIN pending,
             IsWithout(pending', pending, i), ProcessEvent(pending[i], todo),
             pending[i] \in Known(made)
      PROVE  Halves'
  <2>1. \A j \in DOMAIN pending' : \E k \in DOMAIN pending : pending'[j] = pending[k]
    BY <1>3 DEF IsWithout
  <2>2. \A j \in DOMAIN pending' : pending'[j].again = TRUE => pending'[j].kind = "press"
    BY <2>1 DEF Halves
  <2>3. HalvesDue(todo, pending', dev)
    <3>1. \A d \in Devices : NonePending(pending, d) => NonePending(pending', d)
      BY <2>1 DEF NonePending
    <3> QED
      BY <1>1, <3>1, FewerPending DEF Halves, Stack, Duties
  <2>4. ~AgainOf(todo, pending[i].dev)
    <3> SUFFICES ASSUME NEW m \in DOMAIN todo, todo[m].op = "again",
                        todo[m].event.dev = pending[i].dev
                 PROVE  FALSE
      BY DEF AgainOf
    <3>1. ~Under(todo, m)
      BY <1>1, Popped
    <3> QED
      BY <3>1 DEF Halves, HalvesDue, NonePending
  <2> QED
    BY <1>1, <1>3, <2>2, <2>3, <2>4, EventHalves DEF Invariant, Halves
<1> QED
  BY <1>2, <1>3, PlayShape

\* The press half on top of the stack: of a key that is up, and the only one of it.
LEMMA TopHalf ==
  ASSUME Invariant, Halves, Top("again"), NEW e, e = Head(todo).event
  PROVE  /\ e \in Known(made) /\ e \in Events /\ e.dev \in Devices /\ made \in Nat
         /\ e.kind = "press" /\ e.again = TRUE /\ dev[e.dev].down = FALSE
         /\ Head(todo) \in HalfOf(e.dev) /\ Head(todo) \in Continuations
         /\ Ready(Tail(todo), made) /\ ~AgainOf(Tail(todo), e.dev)
         /\ HasPlay(Tail(todo)) \/ NonePending(pending, e.dev)
<1>1. /\ todo # <<>> /\ Head(todo).op = "again" /\ Stack(todo, made) /\ made \in Nat
      /\ Head(todo) \in Duties(made) /\ Ready(Tail(todo), made)
  BY RestReady, Pop DEF Top, Invariant, Ready, History
<1>2. e \in Known(made) /\ e \in Events /\ e.dev \in Devices /\ Head(todo) \in HalfOf(e.dev)
      /\ Head(todo) \in Continuations
  BY <1>1 DEF Duties, Continuations, Known, Events, HalfOf
<1>3. ~AgainOf(Tail(todo), e.dev)
  BY <1>1, <1>2, RestHalves
<1>4. 1 \in DOMAIN todo /\ todo[1] = Head(todo)
  BY <1>1, Popped
<1>5. IsHalf(Head(todo), dev) /\ (Under(todo, 1) \/ NonePending(pending, e.dev))
  BY <1>1, <1>4 DEF Halves, HalvesDue
<1>6. Under(todo, 1) => HasPlay(Tail(todo))
  <2>1. Under(todo, 1) => HasPlay(todo)
    BY DEF Under, HasPlay
  <2> QED
    BY <1>1, <2>1, Pop
<1> QED
  BY <1>1, <1>2, <1>3, <1>5, <1>6 DEF IsHalf

LEMMA AgainHalves ==
  ASSUME Invariant, Invariant', Halves, PressAgain
  PROVE  Halves'
<1> DEFINE e == Head(todo).event
<1>1. /\ e \in Known(made) /\ e \in Events /\ e.dev \in Devices /\ made \in Nat
      /\ e.kind = "press" /\ Ready(Tail(todo), made) /\ ~AgainOf(Tail(todo), e.dev)
      /\ HasPlay(Tail(todo)) \/ NonePending(pending, e.dev)
  BY TopHalf DEF PressAgain
<1>2. /\ Tail(todo) \in Seq(Continuations) /\ HalvesDue(Tail(todo), pending, dev)
      /\ \A d \in Devices : Number(Tail(todo), HalfOf(d)) <= 1
  BY RestHalves DEF PressAgain, Top
<1>3. CASE dev[e.dev].frozen
  <2>1. EnqueueEvent(e) /\ todo' = Tail(todo) /\ dev' = dev
    BY <1>3 DEF PressAgain
  <2> HIDE DEF e
  <2>2. \A i \in DOMAIN pending' :
          pending'[i] = e \/ (i \in DOMAIN pending /\ pending'[i] = pending[i])
    BY <1>1, <2>1, EnqueueTyped DEF Invariant, Waiting
  <2>3. \A d \in Devices : AgainOf(Tail(todo), d) /\ NonePending(pending, d)
                          => NonePending(pending', d)
    BY <1>1, <2>2 DEF NonePending
  <2>4. HalvesDue(todo', pending', dev')
    BY <1>2, <2>1, <2>3, FewerPending
  <2>5. \A i \in DOMAIN pending' : pending'[i].again = TRUE => pending'[i].kind = "press"
    BY <1>1, <2>2 DEF Halves
  <2>6. \A d \in Devices : Number(todo', HalfOf(d)) <= 1
    BY <1>2, <2>1
  <2> QED
    BY <2>4, <2>5, <2>6
    DEF Halves, HalvesDue, Under, NonePending, IsHalf, Number, Places, HalfOf
<1>4. CASE ~dev[e.dev].frozen
  <2>1. ProcessEvent(e, Tail(todo)) /\ pending' = pending
    BY <1>4 DEF PressAgain
  <2> HIDE DEF e
  <2>2. HalvesDue(Tail(todo), pending', dev)
        /\ \A i \in DOMAIN pending' : pending'[i].again = TRUE => pending'[i].kind = "press"
    BY <1>2, <2>1 DEF Halves
  <2>3. HasPlay(Tail(todo)) \/ NonePending(pending', e.dev)
    BY <1>1, <2>1
  <2> QED
    BY <1>1, <1>2, <2>1, <2>2, <2>3, EventHalves DEF Invariant
<1> QED
  BY <1>3, <1>4

\* A replay takes its own duty off the stack and begins at most a new grab.
LEMMA ReplayShape ==
  ASSUME Invariant, ReplayEvent
  PROVE  /\ Stack(todo, made) /\ todo # <<>> /\ Head(todo).op = "replay" /\ pending' = pending
         /\ Head(todo) \in Continuations
         /\ \A d \in Devices : dev'[d].down = dev[d].down
         /\ Even(todo', Tail(todo)) /\ Grown(todo', Tail(todo), Saves(Head(todo).event))
<1> DEFINE e == Head(todo).event
<1>1. /\ todo # <<>> /\ Head(todo).op = "replay" /\ pending' = pending
      /\ Ready(Tail(todo), made) /\ Head(todo) \in Continuations /\ Stack(todo, made)
  BY RestReady DEF ReplayEvent, Top, Invariant, Ready
<1>2. e \in Events /\ Head(todo).win \in Windows
  BY <1>1 DEF Continuations
<1>3. PICK first \in 1 .. Depth + 1 : CheckDeviceGrabs(dev, e, first, Tail(todo))
  BY <1>2, BoundsAssumption DEF ReplayEvent, Windows
<1> HIDE DEF e
<1>4. Does(dev, Tail(todo), e)
  BY <1>1, <1>2, <1>3, CheckDoes DEF Invariant, Settled
<1>5. Even(todo', Tail(todo))
  BY <1>1, <1>2, <1>3, CheckEven
<1> QED
  BY <1>1, <1>4, <1>5 DEF Does, Alike, e

LEMMA ReplayHalves ==
  ASSUME Invariant, Invariant', Halves, ReplayEvent
  PROVE  Halves'
BY ReplayShape, RestHalves, SteadyHalves

\* Saving an event takes its own duty off the stack and changes neither keys nor
\* grabs.
LEMMA SaveShape ==
  ASSUME Invariant, SaveEvent
  PROVE  /\ Stack(todo, made) /\ todo # <<>> /\ Head(todo).op = "save" /\ pending' = pending
         /\ todo' = Tail(todo)
         /\ \A d \in Devices : /\ dev'[d].down = dev[d].down /\ dev'[d].grab = dev[d].grab
                              /\ dev'[d].frozen = dev[d].frozen
<1> DEFINE e == Head(todo).event
<1>1. /\ todo # <<>> /\ Head(todo).op = "save" /\ pending' = pending /\ todo' = Tail(todo)
      /\ Ready(Tail(todo), made) /\ Head(todo) \in Continuations /\ Stack(todo, made)
      /\ dev' = [dev EXCEPT ![e.dev] = IF @.state = "FROZEN_NO_EVENT"
                   THEN [@ EXCEPT !.state = "FROZEN_WITH_EVENT", !.event = e] ELSE @]
  BY RestReady DEF SaveEvent, Top, Return, Invariant, Ready
<1>2. e \in Events /\ e.dev \in Devices
  BY <1>1 DEF Continuations, Events
<1>3. ASSUME NEW d \in Devices
      PROVE  /\ dev'[d].down = dev[d].down /\ dev'[d].grab = dev[d].grab
             /\ dev'[d].frozen = dev[d].frozen
  <2>1. dev[d] \in DeviceRecords /\ Table(dev)
    BY RecordType DEF Invariant, Settled
  <2> QED
    BY <1>1, <1>2, <2>1 DEF Table, DeviceRecords
<1> QED
  BY <1>1, <1>3

LEMMA SaveHalves ==
  ASSUME Invariant, Invariant', Halves, SaveEvent
  PROVE  Halves'
BY SaveShape, RestHalves, SteadyHalves, GrownNone, EvenSame

\* A step of ReleaseActiveGrabs is its last one or ends a grab.
LEMMA ReleaseShape ==
  ASSUME Invariant, ReleaseActiveGrabs
  PROVE  /\ Stack(todo, made) /\ todo # <<>> /\ Head(todo).op = "release"
         /\ pending' = pending /\ \A d \in Devices : dev'[d].down = dev[d].down
         /\ \/ todo' = Tail(todo) /\ dev' = dev
            \/ /\ Even(todo', todo) /\ Grown(todo', todo, {})
               /\ \E d \in Holders(dev) : Holders(dev') = Holders(dev) \ {d}
<1> DEFINE c == Head(todo).client
           mine == {d \in Devices : dev[d].grab = c}
<1>1. /\ todo # <<>> /\ Head(todo).op = "release" /\ pending' = pending
      /\ Stack(todo, made) /\ todo \in Seq(Continuations) /\ Head(todo) \in Continuations
  BY RestReady DEF ReleaseActiveGrabs, Top, Invariant, Ready, Stack, Duties
<1>2. CASE mine = {}
  BY <1>1, <1>2 DEF ReleaseActiveGrabs, Return
<1>3. CASE mine # {}
  <2>1. PICK d \in mine : ComputeFreezes(DeactivateGrab(dev, d), <<>>, todo)
    BY <1>3 DEF ReleaseActiveGrabs
  <2>2. c # None
    BY <1>1, NoneAssumption DEF Continuations
  <2>3. d \in Holders(dev) /\ d \in Devices
    BY <2>2 DEF Holders
  <2> HIDE DEF mine, c
  <2>4. /\ Table(DeactivateGrab(dev, d)) /\ Alike(DeactivateGrab(dev, d), dev, {})
        /\ Holders(DeactivateGrab(dev, d)) = Holders(dev) \ {d}
    BY <2>3, DeactivateSound, DeactivateAlike, DeactivateHolders DEF Invariant, Settled
  <2>5. Alike(dev', DeactivateGrab(dev, d), {}) /\ Grown(todo', todo, {})
    BY <1>1, <2>1, <2>4, FreezesGrow, GrownNone
  <2>6. \A o \in Devices : dev'[o].down = dev[o].down
    BY <2>4, <2>5 DEF Alike
  <2>7. Even(todo', todo)
    BY <1>1, <2>1, EvenSame, FreezesEven
  <2>8. Holders(dev') = Holders(dev) \ {d}
    BY <2>1, <2>4, RefrozenHolders DEF ComputeFreezes
  <2> QED
    BY <1>1, <2>3, <2>5, <2>6, <2>7, <2>8
<1> QED
  BY <1>2, <1>3

LEMMA ReleaseHalves ==
  ASSUME Invariant, Invariant', Halves, ReleaseActiveGrabs
  PROVE  Halves'
<1>1. /\ todo # <<>> /\ pending' = pending /\ \A d \in Devices : dev'[d].down = dev[d].down
  BY ReleaseShape
<1>2. CASE todo' = Tail(todo) /\ dev' = dev
  BY <1>1, <1>2, RestHalves, SteadyHalves, GrownNone, EvenSame
<1>3. CASE Even(todo', todo) /\ Grown(todo', todo, {})
  <2>1. PICK e : TRUE
    OBVIOUS
  <2>2. Grown(todo', todo, Saves(e))
    BY <1>3, GrownNone, GrownTwice
  <2>3. todo \in Seq(Continuations)
    BY ReleaseShape DEF Stack, Duties
  <2> QED
    BY <1>1, <1>3, <2>2, <2>3, SteadyHalves DEF Halves
<1> QED
  BY <1>2, <1>3, ReleaseShape

LEMMA InitHalves == Init => Halves
<1> SUFFICES ASSUME Init PROVE Halves
  OBVIOUS
<1>1. todo = <<>> /\ pending = <<>> /\ todo \in Seq(Continuations)
  BY DEF Init
<1>2. \A d \in Devices : ~AgainOf(todo, d)
  BY <1>1 DEF AgainOf
<1>3. \A d \in Devices : Number(todo, HalfOf(d)) = 0
  BY <1>1, <1>2, NumberNone
<1> QED
  BY <1>1, <1>3 DEF Halves, HalvesDue

LEMMA HalvesInvariance == Spec => []Halves
<1>1. Invariant /\ Invariant' /\ Halves /\ [Next]_vars => Halves'
  <2> SUFFICES ASSUME Invariant, Invariant', Halves, [Next]_vars PROVE Halves'
    OBVIOUS
  <2>1. ASSUME NEW d \in Devices, NEW kind \in {"press", "release", "motion"},
               InputEvent(d, kind)
        PROVE  Halves'
    BY <2>1, InputHalves
  <2>2. ASSUME NEW c \in Clients, NEW d \in Devices, NEW w \in Windows,
               NEW thisSync \in BOOLEAN, NEW otherSync \in BOOLEAN,
               GrabDevice(c, d, w, thisSync, otherSync)
        PROVE  Halves'
    BY <2>2, GrabHalves
  <2>3. ASSUME NEW c \in Clients, NEW d \in Devices, NEW mode \in Modes,
               AllowSome(c, d, mode)
        PROVE  Halves'
    BY <2>3, AllowHalves
  <2>4. ASSUME NEW d \in Devices, EndGrab(d) PROVE Halves'
    BY <2>4, EndHalves
  <2>5. ASSUME NEW c \in Clients, CloseClient(c) PROVE Halves'
    BY <2>5, CloseHalves
  <2>6. ASSUME NEW c \in Clients, NewClient(c) PROVE Halves'
    BY <2>6, NewHalves
  <2>7. CASE ServerStep
    BY <2>7, PlayHalves, ReplayHalves, AgainHalves, SaveHalves, ReleaseHalves DEF ServerStep
  <2>8. CASE UNCHANGED vars
    BY <2>8 DEF vars, Halves, HalvesDue, Under, NonePending, IsHalf, Number, Places, HalfOf
  <2> QED
    BY <2>1, <2>2, <2>3, <2>4, <2>5, <2>6, <2>7, <2>8 DEF Next
<1> QED
  BY <1>1, InitHalves, Invariance, PTL DEF Spec

-----------------------------------------------------------------------------
(* The work that is left.                                                  *)

Plain == {e \in Events : e.again = FALSE}

PutBack == {e \in Events : e.again = TRUE}

ReadyBack(D) == {e \in Events : e.again = TRUE /\ ~D[e.dev].frozen}

OfOp(op) == {k \in Continuations : k.op = op}

\* Six numbers are compared from the first one on.
LEMMA LessBy ==
  ASSUME NEW m1, NEW m2, NEW m3, NEW m4, NEW m5, NEW m6,
         NEW n1, NEW n2, NEW n3, NEW n4, NEW n5, NEW n6,
         \/ m1 < n1
         \/ m1 = n1 /\ m2 < n2
         \/ m1 = n1 /\ m2 = n2 /\ m3 < n3
         \/ m1 = n1 /\ m2 = n2 /\ m3 = n3 /\ m4 < n4
         \/ m1 = n1 /\ m2 = n2 /\ m3 = n3 /\ m4 = n4 /\ m5 < n5
         \/ m1 = n1 /\ m2 = n2 /\ m3 = n3 /\ m4 = n4 /\ m5 = n5 /\ m6 < n6
  PROVE  Less(<<m1, m2, m3, m4, m5, m6>>, <<n1, n2, n3, n4, n5, n6>>)
<1> DEFINE m == <<m1, m2, m3, m4, m5, m6>>
           n == <<n1, n2, n3, n4, n5, n6>>
<1>1. /\ m[1] = m1 /\ m[2] = m2 /\ m[3] = m3 /\ m[4] = m4 /\ m[5] = m5 /\ m[6] = m6
      /\ n[1] = n1 /\ n[2] = n2 /\ n[3] = n3 /\ n[4] = n4 /\ n[5] = n5 /\ n[6] = n6
      /\ DOMAIN n = 1 .. 6
  OBVIOUS
<1> HIDE DEF m, n
<1>2. PICK i \in 1 .. 6 : m[i] < n[i] /\ \A j \in 1 .. 6 : j < i => m[j] = n[j]
  <2>1. \A j \in 1 .. 6 : j = 1 \/ j = 2 \/ j = 3 \/ j = 4 \/ j = 5 \/ j = 6
    OBVIOUS
  <2>2. CASE m1 < n1
    <3>1. m[1] < n[1] /\ \A j \in 1 .. 6 : ~(j < 1)
      BY <1>1, <2>2
    <3> QED
      BY <3>1
  <2>3. CASE m1 = n1 /\ m2 < n2
    <3>1. m[2] < n[2] /\ \A j \in 1 .. 6 : j < 2 => m[j] = n[j]
      BY <1>1, <2>1, <2>3
    <3> QED
      BY <3>1
  <2>4. CASE m1 = n1 /\ m2 = n2 /\ m3 < n3
    <3>1. m[3] < n[3] /\ \A j \in 1 .. 6 : j < 3 => m[j] = n[j]
      BY <1>1, <2>1, <2>4
    <3> QED
      BY <3>1
  <2>5. CASE m1 = n1 /\ m2 = n2 /\ m3 = n3 /\ m4 < n4
    <3>1. m[4] < n[4] /\ \A j \in 1 .. 6 : j < 4 => m[j] = n[j]
      BY <1>1, <2>1, <2>5
    <3> QED
      BY <3>1
  <2>6. CASE m1 = n1 /\ m2 = n2 /\ m3 = n3 /\ m4 = n4 /\ m5 < n5
    <3>1. m[5] < n[5] /\ \A j \in 1 .. 6 : j < 5 => m[j] = n[j]
      BY <1>1, <2>1, <2>6
    <3> QED
      BY <3>1
  <2>7. CASE m1 = n1 /\ m2 = n2 /\ m3 = n3 /\ m4 = n4 /\ m5 = n5 /\ m6 < n6
    <3>1. m[6] < n[6] /\ \A j \in 1 .. 6 : j < 6 => m[j] = n[j]
      BY <1>1, <2>1, <2>7
    <3> QED
      BY <3>1
  <2> QED
    BY <2>2, <2>3, <2>4, <2>5, <2>6, <2>7
<1>3. \A j \in 1 .. i - 1 : j \in 1 .. 6 /\ j < i
  OBVIOUS
<1>4. Less(m, n)
  BY <1>1, <1>2, <1>3 DEF Less
<1> QED
  BY <1>4 DEF m, n

\* What Work counts, in terms of Number,
LEMMA PlacesAre ==
  ASSUME NEW q \in Seq(Events), NEW D, NEW s \in Seq(Continuations)
  PROVE  /\ {i \in DOMAIN q : q[i].again = FALSE} = Places(q, Plain)
         /\ {i \in DOMAIN q : q[i].again = TRUE} = Places(q, PutBack)
         /\ {i \in {j \in DOMAIN q : q[j].again = TRUE} : ~D[q[i].dev].frozen}
              = Places(q, ReadyBack(D))
         /\ \A op : {i \in DOMAIN s : s[i].op = op} = Places(s, OfOp(op))
<1>1. (\A i \in DOMAIN q : q[i] \in Events) /\ \A i \in DOMAIN s : s[i] \in Continuations
  OBVIOUS
<1> QED
  BY <1>1 DEF Places, Plain, PutBack, ReadyBack, OfOp

WorkOf(q, D, s) ==
  <<Number(q, Plain), Number(q, PutBack) + Number(s, OfOp("again")),
    Number(s, OfOp("replay")), Cardinality(Holders(D)),
    2 * Number(q, ReadyBack(D)) + Number(s, OfOp("again")), Len(s)>>

\* and Work as a function of the queue, the table and the stack.
LEMMA WorkIs ==
  ASSUME Invariant, Invariant'
  PROVE  Work = WorkOf(pending, dev, todo) /\ Work' = WorkOf(pending', dev', todo')
<1>1. pending \in Seq(Events) /\ todo \in Seq(Continuations)
  BY DEF Invariant, Ready, Stack, Duties, Waiting, Known
<1>2. Work = WorkOf(pending, dev, todo)
  BY <1>1, PlacesAre, Zenon DEF Work, WorkOf, Number, Holders
<1>3. Work' = WorkOf(pending', dev', todo')
  BY TypedNext, PlacesAre, Zenon DEF Work, WorkOf, Number, Holders
<1> QED
  BY <1>2, <1>3

\* From q, D and s to r, E and t the first number that changes gets smaller.
Falls(r, E, t, q, D, s) ==
  LET plain == Number(r, Plain) = Number(q, Plain)
      halves == Number(r, PutBack) + Number(t, OfOp("again"))
                  = Number(q, PutBack) + Number(s, OfOp("again"))
      replays == Number(t, OfOp("replay")) = Number(s, OfOp("replay"))
      grabs == Cardinality(Holders(E)) = Cardinality(Holders(D))
  IN \/ Number(r, Plain) < Number(q, Plain)
     \/ /\ plain
        /\ Number(r, PutBack) + Number(t, OfOp("again"))
              < Number(q, PutBack) + Number(s, OfOp("again"))
     \/ plain /\ halves /\ Number(t, OfOp("replay")) < Number(s, OfOp("replay"))
     \/ /\ plain /\ halves /\ replays
        /\ Cardinality(Holders(E)) < Cardinality(Holders(D))
     \/ /\ plain /\ halves /\ replays /\ grabs
        /\ 2 * Number(r, ReadyBack(E)) + Number(t, OfOp("again"))
              < 2 * Number(q, ReadyBack(D)) + Number(s, OfOp("again"))
     \/ /\ plain /\ halves /\ replays /\ grabs
        /\ 2 * Number(r, ReadyBack(E)) + Number(t, OfOp("again"))
              = 2 * Number(q, ReadyBack(D)) + Number(s, OfOp("again"))
        /\ Len(t) < Len(s)

\* Each way to fall makes Work smaller.
LEMMA FallsLess ==
  ASSUME NEW r, NEW E, NEW t, NEW q, NEW D, NEW s, Falls(r, E, t, q, D, s)
  PROVE  Less(WorkOf(r, E, t), WorkOf(q, D, s))
<1> DEFINE m1 == Number(r, Plain)
           m2 == Number(r, PutBack) + Number(t, OfOp("again"))
           m3 == Number(t, OfOp("replay"))
           m4 == Cardinality(Holders(E))
           m5 == 2 * Number(r, ReadyBack(E)) + Number(t, OfOp("again"))
           m6 == Len(t)
           n1 == Number(q, Plain)
           n2 == Number(q, PutBack) + Number(s, OfOp("again"))
           n3 == Number(s, OfOp("replay"))
           n4 == Cardinality(Holders(D))
           n5 == 2 * Number(q, ReadyBack(D)) + Number(s, OfOp("again"))
           n6 == Len(s)
<1>1. \/ m1 < n1
      \/ m1 = n1 /\ m2 < n2
      \/ m1 = n1 /\ m2 = n2 /\ m3 < n3
      \/ m1 = n1 /\ m2 = n2 /\ m3 = n3 /\ m4 < n4
      \/ m1 = n1 /\ m2 = n2 /\ m3 = n3 /\ m4 = n4 /\ m5 < n5
      \/ m1 = n1 /\ m2 = n2 /\ m3 = n3 /\ m4 = n4 /\ m5 = n5 /\ m6 < n6
  BY Zenon DEF Falls
<1>2. /\ WorkOf(r, E, t) = <<m1, m2, m3, m4, m5, m6>>
      /\ WorkOf(q, D, s) = <<n1, n2, n3, n4, n5, n6>>
  BY Zenon DEF WorkOf
<1> HIDE DEF m1, m2, m3, m4, m5, m6, n1, n2, n3, n4, n5, n6
<1>3. Less(<<m1, m2, m3, m4, m5, m6>>, <<n1, n2, n3, n4, n5, n6>>)
  BY <1>1, LessBy
<1> QED
  BY <1>2, <1>3

\* The devices with a grab can be counted, and the end of a grab makes them
\* fewer.
LEMMA HoldersFinite ==
  ASSUME NEW D
  PROVE  IsFiniteSet(Holders(D)) /\ Cardinality(Holders(D)) \in Nat
<1>1. Holders(D) \in SUBSET Devices
  BY DEF Holders
<1> QED
  BY <1>1, DevicesAssumption, FS_Subset, FS_CardinalityType

LEMMA FewerHolders ==
  ASSUME NEW D, NEW E, NEW d \in Holders(D), Holders(E) = Holders(D) \ {d}
  PROVE  Cardinality(Holders(E)) < Cardinality(Holders(D))
BY HoldersFinite, FS_RemoveElement, SMTT(60)

\* What waits stays and the stack loses its top, or grows by what does not count.
LEMMA RestNumbers ==
  ASSUME NEW n, NEW s, Stack(s, n), s # <<>>, NEW op, NEW q \in Seq(Events), NEW D
  PROVE  /\ Number(s, OfOp(op)) = Number(Tail(s), OfOp(op))
                                   + (IF Head(s).op = op THEN 1 ELSE 0)
         /\ Number(s, OfOp(op)) \in Nat /\ Number(Tail(s), OfOp(op)) \in Nat
         /\ Number(q, Plain) \in Nat /\ Number(q, PutBack) \in Nat
         /\ Number(q, ReadyBack(D)) \in Nat
         /\ Len(Tail(s)) \in Nat /\ Len(s) = Len(Tail(s)) + 1
<1>1. Head(s) \in OfOp(op) <=> Head(s).op = op
  BY Pop DEF OfOp, Duties
<1> QED
  BY <1>1, NumberTail, PlacesFinite

\* Press halves and replays are only pushed on purpose.
LEMMA OpSteady == OfOp("again") \in SUBSET Steady /\ OfOp("replay") \in SUBSET Steady
BY DEF OfOp, Steady

\* A step that only takes the top off the stack, which is not an event to process.
LEMMA PoppedLess ==
  ASSUME NEW n, NEW s, Stack(s, n), s # <<>>, Head(s).op \notin {"again", "replay"},
         NEW q \in Seq(Events), NEW D, NEW E,
         \A d \in Devices : D[d].grab = E[d].grab /\ D[d].frozen = E[d].frozen
  PROVE  Falls(q, E, Tail(s), q, D, s)
<1>1. Holders(E) = Holders(D)
  BY DEF Holders
<1>2. ReadyBack(E) = ReadyBack(D)
  BY DEF ReadyBack, Events
<1>3. /\ Number(s, OfOp("again")) = Number(Tail(s), OfOp("again"))
      /\ Number(s, OfOp("replay")) = Number(Tail(s), OfOp("replay"))
      /\ Len(Tail(s)) < Len(s)
  <2>1. /\ Number(s, OfOp("again")) = Number(Tail(s), OfOp("again")) + 0
        /\ Number(Tail(s), OfOp("again")) \in Nat
        /\ Len(Tail(s)) \in Nat /\ Len(s) = Len(Tail(s)) + 1
    BY RestNumbers
  <2>2. /\ Number(s, OfOp("replay")) = Number(Tail(s), OfOp("replay")) + 0
        /\ Number(Tail(s), OfOp("replay")) \in Nat
    BY RestNumbers
  <2> QED
    BY <2>1, <2>2
<1> QED
  BY <1>1, <1>2, <1>3 DEF Falls

\* A smaller set of events counts no more places.
LEMMA NumberLess ==
  ASSUME NEW q \in Seq(Events), NEW K, NEW L, L \subseteq K
  PROVE  Number(q, L) <= Number(q, K)
<1>1. Places(q, L) \in SUBSET Places(q, K)
  BY DEF Places
<1> QED
  BY <1>1, PlacesFinite, FS_Subset DEF Number

\* An event is taken from what waits.
LEMMA TakenNumbers ==
  ASSUME NEW q \in Seq(Events), NEW r \in Seq(Events), NEW i \in DOMAIN q,
         IsWithout(r, q, i), NEW D
  PROVE  /\ Number(r, Plain) \in Nat /\ Number(r, PutBack) \in Nat
         /\ Number(r, ReadyBack(D)) \in Nat
         /\ q[i].again = FALSE => Number(q, Plain) = Number(r, Plain) + 1
         /\ q[i].again = TRUE =>
              /\ Number(q, Plain) = Number(r, Plain)
              /\ Number(q, PutBack) = Number(r, PutBack) + 1
              /\ ~D[q[i].dev].frozen =>
                   Number(q, ReadyBack(D)) = Number(r, ReadyBack(D)) + 1
<1>1. /\ Number(q, Plain) = Number(r, Plain) + (IF q[i] \in Plain THEN 1 ELSE 0)
      /\ Number(q, PutBack) = Number(r, PutBack) + (IF q[i] \in PutBack THEN 1 ELSE 0)
      /\ Number(q, ReadyBack(D)) = Number(r, ReadyBack(D))
                                   + (IF q[i] \in ReadyBack(D) THEN 1 ELSE 0)
  BY NumberWithout
<1>2. /\ Number(r, Plain) \in Nat /\ Number(r, PutBack) \in Nat
      /\ Number(r, ReadyBack(D)) \in Nat
  BY PlacesFinite
<1>3. /\ q[i] \in Plain <=> q[i].again = FALSE
      /\ q[i] \in PutBack <=> q[i].again = TRUE
      /\ q[i] \in ReadyBack(D) <=> q[i].again = TRUE /\ ~D[q[i].dev].frozen
  <2>1. q[i] \in Events
    OBVIOUS
  <2> QED
    BY <2>1 DEF Plain, PutBack, ReadyBack
<1> QED
  BY <1>1, <1>2, <1>3

\* The steps of a handler make Work smaller: playing takes an event from those
\* that wait, or ends the loop;
LEMMA PlayLess ==
  ASSUME Invariant, Invariant', Halves, PlayReleasedEvents
  PROVE  Falls(pending', dev', todo', pending, dev, todo)
<1>1. /\ todo # <<>> /\ Head(todo).op = "play" /\ Stack(todo, made)
      /\ made \in Nat /\ pending \in Seq(Events) /\ todo \in Seq(Continuations)
  BY PlayShape DEF Invariant, History, Waiting, Known, Stack, Duties
<1>2. CASE todo' = Tail(todo) /\ dev' = dev /\ pending' = pending
  BY <1>1, <1>2, PoppedLess
<1>3. ASSUME NEW i \in DOMAIN pending,
             IsWithout(pending', pending, i), ProcessEvent(pending[i], todo),
             pending[i] \in Known(made), ~dev[pending[i].dev].frozen
      PROVE  Falls(pending', dev', todo', pending, dev, todo)
  <2> DEFINE e == pending[i]
  <2>1. PICK r \in Seq(Events) : r = pending'
    BY TypedNext
  <2>2. IsWithout(r, pending, i)
    BY <1>3, <2>1
  <2>3. /\ Number(r, Plain) \in Nat /\ Number(r, PutBack) \in Nat
        /\ Number(r, ReadyBack(dev)) \in Nat
        /\ e.again = FALSE => Number(pending, Plain) = Number(r, Plain) + 1
        /\ e.again = TRUE =>
             /\ Number(pending, Plain) = Number(r, Plain)
             /\ Number(pending, PutBack) = Number(r, PutBack) + 1
             /\ Number(pending, ReadyBack(dev)) = Number(r, ReadyBack(dev)) + 1
    BY <1>1, <1>3, <2>2, TakenNumbers, ZenonT(60)
  <2>4. e \in Events /\ e.again \in BOOLEAN /\ e.dev \in Devices
    BY <1>3 DEF Known, Events
  <2>5. Number(todo, OfOp("again")) \in Nat
    BY <1>1, PlacesFinite
  <2>6. Ordinary(e, todo) \/ Repeated(e, todo)
    BY <1>1, <1>3, ProcessReturns DEF Invariant
  <2> HIDE DEF e
  <2>7. CASE e.again = FALSE
    <3>1. Number(pending', Plain) < Number(pending, Plain)
      BY <2>1, <2>3, <2>7
    <3> QED
      BY <3>1 DEF Falls
  <2>8. CASE e.again = TRUE /\ Ordinary(e, todo)
    <3>1. Number(todo', OfOp("again")) = Number(todo, OfOp("again"))
      BY <2>8, OpSteady DEF Ordinary, Even
    <3>2. /\ Number(pending', Plain) = Number(pending, Plain)
          /\ Number(pending', PutBack) + Number(todo', OfOp("again"))
               < Number(pending, PutBack) + Number(todo, OfOp("again"))
      BY <2>1, <2>3, <2>5, <2>8, <3>1
    <3> QED
      BY <3>2 DEF Falls
  <2>9. CASE e.again = TRUE /\ Repeated(e, todo)
    <3>1. PICK k \in Presses(e) : Even(todo', <<k>> \o todo)
      BY <2>9 DEF Repeated
    <3>2. k \in Continuations /\ k \in OfOp("again") /\ k \notin OfOp("replay")
      BY DEF Presses, OfOp
    <3>3. Number(<<k>> \o todo, OfOp("again")) = Number(todo, OfOp("again")) + 1
      BY <1>1, <3>2, NumberPush
    <3>4. Number(<<k>> \o todo, OfOp("replay")) = Number(todo, OfOp("replay"))
      BY <1>1, <3>2, NumberPush
    <3>5. /\ Number(todo', OfOp("again")) = Number(todo, OfOp("again")) + 1
          /\ Number(todo', OfOp("replay")) = Number(todo, OfOp("replay"))
      BY <3>1, <3>3, <3>4, OpSteady DEF Even
    <3>6. /\ Number(pending', Plain) = Number(pending, Plain)
          /\ Number(pending', PutBack) + Number(todo', OfOp("again"))
               = Number(pending, PutBack) + Number(todo, OfOp("again"))
      BY <2>1, <2>3, <2>5, <2>9, <3>5
    <3>7. CASE e.dev \in Holders(dev) /\ Holders(dev') = Holders(dev) \ {e.dev}
      <4>1. Cardinality(Holders(dev')) < Cardinality(Holders(dev))
        BY <3>7, FewerHolders
      <4> QED
        BY <3>5, <3>6, <4>1 DEF Falls
    <3>8. CASE Holders(dev') = Holders(dev) /\ StaysFrozen(dev')
      <4>1. PICK E : E = dev'
        OBVIOUS
      <4>2. ReadyBack(E) \subseteq ReadyBack(dev)
        BY <3>8, <4>1 DEF ReadyBack, StaysFrozen, Events
      <4>3. Number(r, ReadyBack(E)) <= Number(r, ReadyBack(dev))
            /\ Number(r, ReadyBack(E)) \in Nat
        BY <4>2, NumberLess, PlacesFinite
      <4>4. 2 * Number(r, ReadyBack(E)) + Number(todo', OfOp("again"))
              < 2 * Number(pending, ReadyBack(dev)) + Number(todo, OfOp("again"))
        BY <2>3, <2>5, <2>9, <3>5, <4>3
      <4>5. 2 * Number(pending', ReadyBack(dev')) + Number(todo', OfOp("again"))
              < 2 * Number(pending, ReadyBack(dev)) + Number(todo, OfOp("again"))
        BY <2>1, <4>1, <4>4
      <4> QED
        BY <3>5, <3>6, <3>8, <4>5 DEF Falls
    <3> QED
      BY <2>9, <3>7, <3>8 DEF Repeated, GaveUp
  <2> QED
    BY <2>4, <2>6, <2>7, <2>8, <2>9
<1> QED
  BY <1>2, <1>3, PlayShape

\* a replay is a duty less;
LEMMA ReplayLess ==
  ASSUME Invariant, Invariant', Halves, ReplayEvent
  PROVE  Falls(pending', dev', todo', pending, dev, todo)
<1>1. /\ Stack(todo, made) /\ todo # <<>> /\ Head(todo).op = "replay" /\ pending' = pending
      /\ Even(todo', Tail(todo)) /\ pending \in Seq(Events)
  BY ReplayShape DEF Invariant, Waiting, Known
<1>2. /\ Number(todo, OfOp("again")) = Number(Tail(todo), OfOp("again")) + 0
      /\ Number(Tail(todo), OfOp("again")) \in Nat
  BY <1>1, RestNumbers
<1>3. /\ Number(todo, OfOp("replay")) = Number(Tail(todo), OfOp("replay")) + 1
      /\ Number(Tail(todo), OfOp("replay")) \in Nat
  BY <1>1, RestNumbers
<1>4. /\ Number(todo', OfOp("again")) = Number(Tail(todo), OfOp("again"))
      /\ Number(todo', OfOp("replay")) = Number(Tail(todo), OfOp("replay"))
  BY <1>1, OpSteady DEF Even
<1>5. /\ Number(todo', OfOp("again")) = Number(todo, OfOp("again"))
      /\ Number(todo', OfOp("replay")) < Number(todo, OfOp("replay"))
  BY <1>2, <1>3, <1>4
<1> QED
  BY <1>1, <1>5 DEF Falls

\* a press half is put back, where it counts as before but is not ready, or is
\* done with;
LEMMA AgainLess ==
  ASSUME Invariant, Invariant', Halves, PressAgain
  PROVE  Falls(pending', dev', todo', pending, dev, todo)
<1> DEFINE e == Head(todo).event
<1>1. /\ e \in Known(made) /\ e \in Events /\ e.dev \in Devices /\ made \in Nat
      /\ e.kind = "press" /\ e.again = TRUE /\ dev[e.dev].down = FALSE
      /\ Ready(Tail(todo), made) /\ Head(todo).op = "again" /\ todo # <<>>
      /\ Stack(todo, made) /\ pending \in Seq(Events)
  <2>1. Top("again") /\ Head(todo).op = "again" /\ todo # <<>> /\ Stack(todo, made)
    BY DEF PressAgain, Top, Invariant, Ready
  <2>2. pending \in Seq(Events)
    BY DEF Invariant, Waiting, Known
  <2> HIDE DEF e
  <2>3. /\ e \in Known(made) /\ e \in Events /\ e.dev \in Devices /\ made \in Nat
        /\ e.kind = "press" /\ e.again = TRUE /\ dev[e.dev].down = FALSE
        /\ Ready(Tail(todo), made)
    BY <2>1, TopHalf DEF e
  <2> QED
    BY <2>1, <2>2, <2>3
<1>2. /\ Number(todo, OfOp("again")) = Number(Tail(todo), OfOp("again")) + 1
      /\ Number(Tail(todo), OfOp("again")) \in Nat
      /\ Number(pending, Plain) \in Nat /\ Number(pending, PutBack) \in Nat
      /\ Number(pending, ReadyBack(dev)) \in Nat
  BY <1>1, RestNumbers
<1>3. /\ Number(todo, OfOp("replay")) = Number(Tail(todo), OfOp("replay")) + 0
      /\ Number(Tail(todo), OfOp("replay")) \in Nat
  BY <1>1, RestNumbers
<1>4. CASE dev[e.dev].frozen
  <2>1. EnqueueEvent(e) /\ todo' = Tail(todo) /\ dev' = dev
    BY <1>4 DEF PressAgain
  <2> HIDE DEF e
  <2>2. pending' = Append(pending, e)
    BY <1>1, <2>1 DEF EnqueueEvent
  <2>3. PICK r \in Seq(Events) : r = pending' /\ Len(pending) + 1 \in DOMAIN r
                                /\ r[Len(pending) + 1] = e
                                /\ IsWithout(pending, r, Len(pending) + 1)
    BY <1>1, <2>2, AppendWithout
  <2>4. /\ Number(r, Plain) = Number(pending, Plain) + (IF e \in Plain THEN 1 ELSE 0)
        /\ Number(r, PutBack) = Number(pending, PutBack) + (IF e \in PutBack THEN 1 ELSE 0)
        /\ Number(r, ReadyBack(dev)) = Number(pending, ReadyBack(dev))
                                       + (IF e \in ReadyBack(dev) THEN 1 ELSE 0)
    BY <1>1, <2>3, NumberWithout
  <2>5. e \notin Plain /\ e \in PutBack /\ e \notin ReadyBack(dev)
    BY <1>1, <1>4 DEF Plain, PutBack, ReadyBack
  <2>6. /\ Number(r, Plain) = Number(pending, Plain)
        /\ Number(r, PutBack) + Number(Tail(todo), OfOp("again"))
             = Number(pending, PutBack) + Number(todo, OfOp("again"))
        /\ Number(Tail(todo), OfOp("replay")) = Number(todo, OfOp("replay"))
        /\ 2 * Number(r, ReadyBack(dev)) + Number(Tail(todo), OfOp("again"))
             < 2 * Number(pending, ReadyBack(dev)) + Number(todo, OfOp("again"))
    BY <1>2, <1>3, <2>4, <2>5, SMTT(60)
  <2>7. Falls(r, dev, Tail(todo), pending, dev, todo)
    BY <2>6 DEF Falls
  <2> QED
    BY <2>1, <2>3, <2>7
<1>5. CASE ~dev[e.dev].frozen
  <2>1. ProcessEvent(e, Tail(todo)) /\ pending' = pending
    BY <1>5 DEF PressAgain
  <2> HIDE DEF e
  <2>2. Ordinary(e, Tail(todo))
    BY <1>1, <2>1, ProcessReturns DEF Repeated, Invariant
  <2>3. Number(todo', OfOp("again")) = Number(Tail(todo), OfOp("again"))
    BY <2>2, OpSteady DEF Ordinary, Even
  <2>4. Number(pending, PutBack) + Number(todo', OfOp("again"))
          < Number(pending, PutBack) + Number(todo, OfOp("again"))
    BY <1>2, <2>3
  <2> QED
    BY <2>1, <2>4 DEF Falls
<1> QED
  BY <1>4, <1>5

\* saving an event is a duty less;
LEMMA SaveLess ==
  ASSUME Invariant, SaveEvent
  PROVE  Falls(pending', dev', todo', pending, dev, todo)
<1>1. PICK E : E = dev'
  OBVIOUS
<1>2. pending \in Seq(Events)
  BY DEF Invariant, Waiting, Known
<1>3. Falls(pending, E, Tail(todo), pending, dev, todo)
  BY <1>1, <1>2, SaveShape, PoppedLess
<1> QED
  BY <1>1, <1>3, SaveShape

\* and ReleaseActiveGrabs ends a grab or is done.
LEMMA ReleaseLess ==
  ASSUME Invariant, ReleaseActiveGrabs
  PROVE  Falls(pending', dev', todo', pending, dev, todo)
<1>1. pending \in Seq(Events) /\ pending' = pending
  BY ReleaseShape DEF Invariant, Waiting, Known
<1>2. CASE todo' = Tail(todo) /\ dev' = dev
  BY <1>1, <1>2, ReleaseShape, PoppedLess
<1>3. ASSUME NEW d \in Holders(dev), Holders(dev') = Holders(dev) \ {d}, Even(todo', todo)
      PROVE  Falls(pending', dev', todo', pending, dev, todo)
  <2>1. Cardinality(Holders(dev')) < Cardinality(Holders(dev))
    BY <1>3, FewerHolders
  <2>2. /\ Number(todo', OfOp("again")) = Number(todo, OfOp("again"))
        /\ Number(todo', OfOp("replay")) = Number(todo, OfOp("replay"))
    BY <1>3, OpSteady DEF Even
  <2> QED
    BY <1>1, <2>1, <2>2 DEF Falls
<1> QED
  BY <1>2, <1>3, ReleaseShape

\* What is not a step of the running handler waits until none is running.
LEMMA OnlyIdle ==
  /\ \A d \in Devices, kind \in {"press", "release", "motion"} : InputEvent(d, kind) => Idle
  /\ \A c \in Clients, d \in Devices, w \in Windows, thisSync, otherSync \in BOOLEAN :
       GrabDevice(c, d, w, thisSync, otherSync) => Idle
  /\ \A c \in Clients, d \in Devices, mode \in Modes : AllowSome(c, d, mode) => Idle
  /\ \A d \in Devices : EndGrab(d) => Idle
  /\ \A c \in Clients : (CloseClient(c) => Idle) /\ (NewClient(c) => Idle)
<1>1. \A d \in Devices, kind \in {"press", "release", "motion"} : InputEvent(d, kind) => Idle
  BY Zenon DEF InputEvent
<1>2. \A c \in Clients, d \in Devices, w \in Windows, thisSync, otherSync \in BOOLEAN :
        GrabDevice(c, d, w, thisSync, otherSync) => Idle
  BY Zenon DEF GrabDevice, Request
<1>3. ASSUME NEW c \in Clients, NEW d \in Devices, NEW mode \in Modes, AllowSome(c, d, mode)
      PROVE  Idle
  <2>1. Request
    BY <1>3 DEF AllowSome
  <2> QED
    BY <2>1 DEF Request
<1>4. \A d \in Devices : EndGrab(d) => Idle
  BY Zenon DEF EndGrab, Request
<1>5. \A c \in Clients : (CloseClient(c) => Idle) /\ (NewClient(c) => Idle)
  BY Zenon DEF CloseClient, NewClient, Request
<1> QED
  BY <1>1, <1>2, <1>3, <1>4, <1>5

\* The six numbers of Work are natural numbers, so they cannot fall for ever.
THEOREM WorkIsCounted == Spec => [](Work \in Nat \X Nat \X Nat \X Nat \X Nat \X Nat)
<1>1. Invariant => Work \in Nat \X Nat \X Nat \X Nat \X Nat \X Nat
  <2> SUFFICES ASSUME Invariant PROVE Work \in Nat \X Nat \X Nat \X Nat \X Nat \X Nat
    OBVIOUS
  <2>1. pending \in Seq(Events) /\ todo \in Seq(Continuations)
    BY DEF Invariant, Ready, Stack, Duties, Waiting, Known
  <2>2. Work = WorkOf(pending, dev, todo)
    BY <2>1, PlacesAre, Zenon DEF Work, WorkOf, Number, Holders
  <2>3. /\ \A K : Number(pending, K) \in Nat /\ Number(todo, K) \in Nat
        /\ Cardinality(Holders(dev)) \in Nat /\ Len(todo) \in Nat
    BY <2>1, PlacesFinite, HoldersFinite
  <2>4. \A n1, n2, n3, n4, n5, n6 \in Nat :
          <<n1, n2, n3, n4, n5, n6>> \in Nat \X Nat \X Nat \X Nat \X Nat \X Nat
    OBVIOUS
  <2>5. /\ Number(pending, PutBack) + Number(todo, OfOp("again")) \in Nat
        /\ 2 * Number(pending, ReadyBack(dev)) + Number(todo, OfOp("again")) \in Nat
    <3>1. \A m, n \in Nat : m + n \in Nat /\ 2 * m + n \in Nat
      OBVIOUS
    <3> QED
      BY <2>3, <3>1
  <2>6. WorkOf(pending, dev, todo) \in Nat \X Nat \X Nat \X Nat \X Nat \X Nat
    BY <2>3, <2>4, <2>5, Zenon DEF WorkOf
  <2> QED
    BY <2>2, <2>6
<1> QED
  BY <1>1, Invariance, PTL

\* Every handler returns: with each step of the running handler the first of the
\* six numbers of Work that changes gets smaller, so whatever an event that is
\* played begins, freezes or puts back in the queue, the steps come to an end.
THEOREM EveryHandlerReturns == Spec => HandlersReturn
<1>1. Invariant /\ Invariant' /\ Halves /\ [Next]_vars
        => [~Idle => Less(Work', Work)]_vars
  <2> SUFFICES ASSUME Invariant, Invariant', Halves, Next, ~Idle
               PROVE  Less(Work', Work)
    BY Zenon
  <2>1. ServerStep
    BY OnlyIdle DEF Next
  <2>2. Falls(pending', dev', todo', pending, dev, todo)
    BY <2>1, PlayLess, ReplayLess, AgainLess, SaveLess, ReleaseLess DEF ServerStep
  <2>3. Less(WorkOf(pending', dev', todo'), WorkOf(pending, dev, todo))
    BY <2>2, FallsLess
  <2> QED
    BY <2>3, WorkIs
<1> QED
  BY <1>1, Invariance, HalvesInvariance, PTL DEF Spec, HandlersReturn
=============================================================================
