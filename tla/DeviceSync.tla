----------------------------- MODULE DeviceSync -----------------------------
(***************************************************************************)
(* Synchronous grabs of input devices (dix/events.c): a grab freezes its   *)
(* device, or the other devices, the events of a frozen device wait in     *)
(* syncEvents.pending, and AllowEvents, the end of a grab or the end of a  *)
(* client plays them again.                                                *)
(*                                                                         *)
(* One handler runs at a time, but ComputeFreezes plays waiting events in  *)
(* the middle of the handler that called it, and an event that is played   *)
(* may end a grab or begin another one.  todo is the stack of what the     *)
(* running handler still has to do, innermost first; the server is idle    *)
(* when it is empty.  Windows are the depths of the window tree under the  *)
(* pointer, and the grabs clients registered on them are not kept: a press *)
(* may meet any grab of any client.  A device has one key or button.       *)
(***************************************************************************)
EXTENDS Integers, Sequences, FiniteSets, TLC

CONSTANTS Devices,       \* inputInfo.devices
          Pointer,       \* the one that is inputInfo.pointer
          Clients,
          Depth,         \* the depth of the window tree under the pointer
          MaxEvents,     \* bound on the events the hardware generates
          None

ASSUME DevicesAssumption == Pointer \in Devices /\ IsFiniteSet(Devices)
ASSUME NoneAssumption == None \notin Devices \cup Clients
ASSUME BoundsAssumption == Depth \in Nat \ {0} /\ MaxEvents \in Nat

VARIABLES
  dev,          \* [Devices -> DeviceIntRec]: active grab, sync record, key state
  pending,      \* syncEvents.pending
  tail,         \* *syncEvents.pendtail is the last waiting event, not NULL
  playing,      \* syncEvents.playingEvents
  todo,         \* what the running handler still has to do
  alive,        \* the clients whose resources have not been freed
  phys,         \* [Devices -> BOOLEAN]: the key or button is held by the user
  made,         \* the number of events the hardware has generated
  done,         \* [Devices -> Nat]: the last event processInputProc has processed
  split,        \* the press half of a repeated press was put back in the queue
  lastReport    \* the last event DeviceEventCallback was called with

vars == <<dev, pending, tail, playing, todo, alive, phys, made, done, split,
          lastReport>>

-----------------------------------------------------------------------------
Frozen == {"FROZEN_NO_EVENT", "FROZEN_WITH_EVENT"}      \* state >= FROZEN
States == {"NOT_GRABBED", "THAWED", "FREEZE_NEXT_EVENT",
           "FREEZE_BOTH_NEXT_EVENT"} \cup Frozen
Modes == {"Async", "Sync", "Replay", "AsyncBoth", "SyncBoth"}
Windows == 1 .. Depth

Events == [id : 1 .. MaxEvents, dev : Devices,
           kind : {"press", "release", "motion"}, again : BOOLEAN]

DeviceRecords ==
  [grab : Clients \cup {None}, window : 0 .. Depth, state : States,
   other : Devices \cup {None}, frozen : BOOLEAN, event : Events \cup {None},
   fromPassive : BOOLEAN, down : BOOLEAN]

Continuations ==
  [op : {"play"}] \cup [op : {"again", "save"}, event : Events]
    \cup [op : {"replay"}, event : Events, win : Windows]
    \cup [op : {"release"}, client : Clients]

TypeOK ==
  /\ dev \in [Devices -> DeviceRecords]
  /\ pending \in Seq(Events) /\ tail \in BOOLEAN /\ playing \in BOOLEAN
  /\ todo \in Seq(Continuations)
  /\ playing <=> \E i \in DOMAIN todo : todo[i].op = "play"
  /\ alive \subseteq Clients
  /\ phys \in [Devices -> BOOLEAN] /\ made \in 0 .. MaxEvents
  /\ done \in [Devices -> 0 .. made] /\ split \in BOOLEAN
  /\ lastReport \in 0 .. made

Idle == todo = <<>>

\* Nothing tells one client from another.
ClientSymmetry == Permutations(Clients)

-----------------------------------------------------------------------------
(* The table of devices, D: what the handlers do to it.                    *)

\* The client of the grab that sync.other of o points to.
OtherClient(D, o) == IF D[o].other = None THEN None ELSE D[D[o].other].grab

\* FreezeThaw for every device.  sync.event is only meant in FROZEN_WITH_EVENT.
Refrozen(D) ==
  [d \in Devices |->
     [D[d] EXCEPT !.frozen = D[d].other # None \/ D[d].state \in Frozen,
                  !.event = IF D[d].state = "FROZEN_WITH_EVENT" THEN @ ELSE None]]

\* ActivateGrab and CheckGrabForSyncs, up to ComputeFreezes.
ActivateGrab(D, d, c, w, passive, thisSync, otherSync) ==
  LET Freed(o) == IF OtherClient(D, o) = c THEN None ELSE D[o].other IN
  [o \in Devices |->
     IF o = d
       THEN [D[d] EXCEPT !.grab = c, !.window = w, !.fromPassive = passive,
               !.state = IF thisSync THEN "FROZEN_NO_EVENT" ELSE "THAWED",
               !.other = IF thisSync THEN @ ELSE Freed(d)]
       ELSE [D[o] EXCEPT !.other = IF otherSync THEN d ELSE Freed(o)]]

\* Mutant of DeactivateGrab: the other devices keep pointing to the grab.
DeactivateGrab_KeepsOther(D, d) ==
  [D EXCEPT ![d].grab = None, ![d].window = 0, ![d].state = "NOT_GRABBED",
            ![d].fromPassive = FALSE]

\* DeactivatePointerGrab and DeactivateKeyboardGrab, up to ComputeFreezes.
DeactivateGrab(D, d) ==
  [o \in Devices |->
     [D[o] EXCEPT !.other = IF @ = d THEN None ELSE @,
                  !.grab = IF o = d THEN None ELSE @,
                  !.window = IF o = d THEN 0 ELSE @,
                  !.state = IF o = d THEN "NOT_GRABBED" ELSE @,
                  !.fromPassive = @ /\ o # d]]

\* The end of DeliverGrabbedEvent, for a key or button event that was delivered.
FreezeAfter(D, e) ==
  LET d == e.dev
      Mine == [D[d] EXCEPT !.state = "FROZEN_WITH_EVENT", !.frozen = TRUE,
                           !.event = e]
      Dragged(o) ==
        IF D[o].state = "FREEZE_BOTH_NEXT_EVENT" /\ D[o].grab = D[d].grab
          THEN [D[o] EXCEPT !.frozen = TRUE, !.state = "FROZEN_NO_EVENT"]
          ELSE [D[o] EXCEPT !.frozen = TRUE, !.other = d]
  IN CASE D[d].state = "FREEZE_BOTH_NEXT_EVENT" ->
            [o \in Devices |-> IF o = d THEN Mine ELSE Dragged(o)]
       [] D[d].state = "FREEZE_NEXT_EVENT" -> [D EXCEPT ![d] = Mine]
       [] OTHER -> D

-----------------------------------------------------------------------------
(* The ways a handler ends: rest is what its callers still have to do.     *)

Return(D, rest) == dev' = D /\ todo' = rest /\ UNCHANGED playing

\* Mutant of ComputeFreezes: events are played before the one to be replayed.
ComputeFreezes_PlaysFirst(D, replay, rest) ==
  /\ dev' = Refrozen(D)
  /\ IF playing \/ (replay = <<>> /\ pending = <<>>)
       THEN todo' = rest /\ UNCHANGED playing
       ELSE todo' = <<[op |-> "play"]>> \o replay \o rest /\ playing' = TRUE

\* Mutant of ComputeFreezes: playingEvents is not tested.
ComputeFreezes_Nested(D, replay, rest) ==
  /\ dev' = Refrozen(D)
  /\ IF replay = <<>> /\ pending = <<>>
       THEN todo' = rest /\ UNCHANGED playing
       ELSE todo' = replay \o <<[op |-> "play"]>> \o rest /\ playing' = TRUE

\* ComputeFreezes.  It only plays when it is not already playing; replay is
\* the event of syncEvents.replayDev, if there is one.
ComputeFreezes(D, replay, rest) ==
  /\ dev' = Refrozen(D)
  /\ IF playing \/ (replay = <<>> /\ pending = <<>>)
       THEN todo' = rest /\ UNCHANGED playing
       ELSE todo' = replay \o <<[op |-> "play"]>> \o rest /\ playing' = TRUE

\* CheckDeviceGrabs from the window below first on, then the delivery when no
\* grab matches: DeliverEventsToWindow grabs the pointer for the client that
\* gets the press.
CheckDeviceGrabs(D, e, first, rest) ==
  \/ Return(D, rest)
  \/ /\ e.kind = "press"
     /\ \E c \in alive, w \in first .. Depth, thisSync, otherSync \in BOOLEAN :
          ComputeFreezes(
            ActivateGrab(D, e.dev, c, w, TRUE, thisSync, otherSync), <<>>,
            <<[op |-> "save", event |-> e]>> \o rest)
  \/ /\ e.kind = "press" /\ e.dev = Pointer
     /\ \E c \in alive, w \in Windows :
          ComputeFreezes(ActivateGrab(D, Pointer, c, w, TRUE, FALSE, FALSE),
                         <<>>, rest)

\* DeliverGrabbedEvent: delivered or not, as masks and owner events decide.
DeliverGrabbedEvent(D, e, rest) ==
  \/ Return(FreezeAfter(D, e), rest)
  \/ Return(D, rest)

Press(e, rest) ==
  LET D == [dev EXCEPT ![e.dev].down = TRUE] IN
  IF dev[e.dev].grab = None THEN CheckDeviceGrabs(D, e, 1, rest)
                            ELSE DeliverGrabbedEvent(D, e, rest)

\* The release of the key or button that began a passive grab ends the grab.
Release(e, rest) ==
  LET D == [dev EXCEPT ![e.dev].down = FALSE] IN
  IF dev[e.dev].fromPassive
    THEN ComputeFreezes(DeactivateGrab(D, e.dev), <<>>, rest)
    ELSE IF dev[e.dev].grab = None THEN Return(D, rest)
                                   ELSE DeliverGrabbedEvent(D, e, rest)

\* realInputProc: ProcessPointerEvent or ProcessKeyboardEvent.  A press of a
\* key that is down is taken as a release and a press, each handed to
\* processInputProc; a release of a key that is up is dropped.
ProcessEvent(e, rest) ==
  LET down == dev[e.dev].down IN
  /\ done' = IF e.again THEN done ELSE [done EXCEPT ![e.dev] = e.id]
  /\ lastReport' = IF playing /\ e.dev # Pointer THEN lastReport ELSE e.id
  /\ CASE e.kind = "motion" -> Return(dev, rest)
       [] e.kind = "press" /\ (e.dev = Pointer \/ ~down) -> Press(e, rest)
       [] e.kind = "press" /\ e.dev # Pointer /\ down ->
            Release([e EXCEPT !.kind = "release"],
                    <<[op |-> "again", event |-> [e EXCEPT !.again = TRUE]]>>
                      \o rest)
       [] e.kind = "release" /\ (e.dev = Pointer \/ down) -> Release(e, rest)
       [] e.kind = "release" /\ e.dev # Pointer /\ ~down -> Return(dev, rest)

\* Mutant of EnqueueEvent: motion is compressed with any waiting motion.
EnqueueEvent_AnyMotion(e) ==
  LET moves == {i \in DOMAIN pending : pending[i].kind = "motion"}
      i == CHOOSE j \in moves : \A k \in moves : j <= k
      compress == e.kind = "motion" /\ moves # {}
  IN /\ pending' = IF compress THEN [pending EXCEPT ![i] = e] ELSE Append(pending, e)
     /\ tail' = TRUE
     /\ lastReport' = e.id

\* EnqueueEvent, with its compression of motion.
EnqueueEvent(e) ==
  LET n == Len(pending)
      compress == e.kind = "motion" /\ n > 0 /\ tail /\ pending[n].kind = "motion"
  IN /\ pending' = IF compress THEN [pending EXCEPT ![n] = e] ELSE Append(pending, e)
     /\ tail' = TRUE
     /\ lastReport' = e.id

-----------------------------------------------------------------------------
Init ==
  /\ dev = [d \in Devices |->
              [grab |-> None, window |-> 0, state |-> "NOT_GRABBED", other |-> None,
               frozen |-> FALSE, event |-> None, fromPassive |-> FALSE,
               down |-> FALSE]]
  /\ pending = <<>> /\ tail = TRUE /\ playing = FALSE /\ todo = <<>>
  /\ alive = Clients
  /\ phys = [d \in Devices |-> FALSE] /\ made = 0
  /\ done = [d \in Devices |-> 0] /\ split = FALSE /\ lastReport = 0

\* ProcessInputEvents hands an event to processInputProc of its device.  A key
\* that is held repeats.
InputEvent(d, kind) ==
  /\ Idle /\ made < MaxEvents
  /\ \/ kind = "press" /\ (d # Pointer \/ ~phys[d])
     \/ kind = "release" /\ phys[d]
     \/ kind = "motion" /\ d = Pointer
  /\ made' = made + 1
  /\ phys' = IF kind = "motion" THEN phys ELSE [phys EXCEPT ![d] = kind = "press"]
  /\ LET e == [id |-> made + 1, dev |-> d, kind |-> kind, again |-> FALSE] IN
     IF dev[d].frozen
       THEN EnqueueEvent(e) /\ UNCHANGED <<dev, todo, playing, done>>
       ELSE ProcessEvent(e, <<>>) /\ UNCHANGED <<pending, tail>>
  /\ UNCHANGED <<alive, split>>

Request == Idle /\ UNCHANGED <<pending, tail, alive, phys, made, done, split, lastReport>>

\* ProcGrabPointer and GrabDevice, when they do not refuse.
GrabDevice(c, d, w, thisSync, otherSync) ==
  /\ Request /\ c \in alive
  /\ dev[d].grab \in {None, c}
  /\ ~(dev[d].frozen /\ dev[d].other # None /\ OtherClient(dev, d) # c)
  /\ ComputeFreezes(ActivateGrab(dev, d, c, w, FALSE, thisSync, otherSync), <<>>, <<>>)

\* ProcUngrabPointer and ProcUngrabKeyboard, and DeleteWindowFromAnyEvents when
\* the window of the grab goes away: the grab ends, whoever asked.
EndGrab(d) ==
  /\ Request /\ dev[d].grab # None
  /\ ComputeFreezes(DeactivateGrab(dev, d), <<>>, <<>>)

\* AllowSome, for the request ProcAllowEvents makes of it.
AllowSome(c, d, mode) ==
  LET others == Devices \ {d}
      thisGrabbed == dev[d].grab = c
      thisSynced == \E o \in others : dev[o].grab = c /\ dev[d].other = o
      othersFrozen == \A o \in others :
                        IF dev[o].grab = c THEN dev[o].state \in Frozen
                                           ELSE OtherClient(dev, o) = c
      This(state) == [dev EXCEPT ![d].state = IF thisGrabbed THEN state ELSE @,
                                 ![d].other = IF thisSynced THEN None ELSE @]
      All(state) == [o \in Devices |->
                       [dev[o] EXCEPT
                          !.state = IF dev[o].grab = c THEN state ELSE @,
                          !.other = IF OtherClient(dev, o) = c THEN None ELSE @]]
  IN /\ Request /\ c \in alive
     /\ (thisGrabbed /\ dev[d].state \in Frozen) \/ thisSynced
     /\ mode \in {"AsyncBoth", "SyncBoth"} => d # Pointer
     /\ \/ /\ mode = "Async"
           /\ ComputeFreezes(This("THAWED"), <<>>, <<>>)
        \/ /\ mode = "Sync" /\ thisGrabbed
           /\ ComputeFreezes(This("FREEZE_NEXT_EVENT"), <<>>, <<>>)
        \/ /\ mode = "AsyncBoth" /\ othersFrozen
           /\ ComputeFreezes(All("THAWED"), <<>>, <<>>)
        \/ /\ mode = "SyncBoth" /\ othersFrozen
           /\ ComputeFreezes(All("FREEZE_BOTH_NEXT_EVENT"), <<>>, <<>>)
        \/ /\ mode = "Replay" /\ thisGrabbed /\ dev[d].state = "FROZEN_WITH_EVENT"
           /\ ComputeFreezes(
                DeactivateGrab(This("FROZEN_WITH_EVENT"), d),
                <<[op |-> "replay", event |-> dev[d].event, win |-> dev[d].window]>>,
                <<>>)

\* CloseDownClient comes to ReleaseActiveGrabs.
CloseClient(c) ==
  /\ Request /\ c \in alive
  /\ todo' = <<[op |-> "release", client |-> c]>>
  /\ UNCHANGED <<dev, playing>>

\* Another client connects and is given the place of one that went.
NewClient(c) ==
  /\ Idle /\ c \notin alive /\ alive' = alive \cup {c}
  /\ UNCHANGED <<dev, pending, tail, playing, todo, phys, made, done, split,
                 lastReport>>

-----------------------------------------------------------------------------
(* The steps of the running handler: what is on top of todo.               *)

Top(op) == todo # <<>> /\ Head(todo).op = op

\* Mutant of PlayReleasedEvents: a played event stays in the queue when another
\* one follows it.
PlayReleasedEvents_Keeps ==
  LET ready == {i \in DOMAIN pending : ~dev[pending[i].dev].frozen}
      i == CHOOSE j \in ready : \A k \in ready : j <= k
  IN /\ Top("play")
     /\ IF ready = {}
          THEN /\ playing' = FALSE /\ todo' = Tail(todo)
               /\ UNCHANGED <<dev, pending, tail, done, lastReport>>
          ELSE /\ pending' = IF i = 1 THEN Tail(pending) ELSE pending
               /\ UNCHANGED tail
               /\ ProcessEvent(pending[i], todo)
     /\ UNCHANGED <<alive, phys, made, split>>

\* PlayReleasedEvents: the first waiting event of a device that is not frozen,
\* and the end of ComputeFreezes when there is none.
PlayReleasedEvents ==
  LET ready == {i \in DOMAIN pending : ~dev[pending[i].dev].frozen}
      i == CHOOSE j \in ready : \A k \in ready : j <= k
      n == Len(pending)
  IN /\ Top("play")
     /\ IF ready = {}
          THEN /\ playing' = FALSE /\ todo' = Tail(todo)
               /\ UNCHANGED <<dev, pending, tail, done, lastReport>>
          ELSE /\ pending' = SubSeq(pending, 1, i - 1) \o SubSeq(pending, i + 1, n)
               /\ tail' = ((tail /\ i # n) \/ n = 1)
               /\ ProcessEvent(pending[i], todo)
     /\ UNCHANGED <<alive, phys, made, split>>

\* ComputeFreezes processes the event of replayDev again, below the window of
\* the grab that was given up, or as if no grab was there when the pointer has
\* left that window.
ReplayEvent ==
  /\ Top("replay")
  /\ \E first \in {Head(todo).win + 1, Depth + 1} :
       CheckDeviceGrabs(dev, Head(todo).event, first, Tail(todo))
  /\ UNCHANGED <<pending, tail, alive, phys, made, done, split, lastReport>>

\* The press half of a repeated press goes to processInputProc.
PressAgain ==
  /\ Top("again")
  /\ LET e == Head(todo).event IN
     IF dev[e.dev].frozen
       THEN /\ EnqueueEvent(e) /\ split' = TRUE /\ todo' = Tail(todo)
            /\ UNCHANGED <<dev, playing, done>>
       ELSE ProcessEvent(e, Tail(todo)) /\ UNCHANGED <<pending, tail, split>>
  /\ UNCHANGED <<alive, phys, made>>

\* The end of CheckPassiveGrabsOnWindow.
SaveEvent ==
  /\ Top("save")
  /\ LET e == Head(todo).event IN
     Return([dev EXCEPT ![e.dev] =
               IF @.state = "FROZEN_NO_EVENT"
                 THEN [@ EXCEPT !.state = "FROZEN_WITH_EVENT", !.event = e]
                 ELSE @],
            Tail(todo))
  /\ UNCHANGED <<pending, tail, alive, phys, made, done, split, lastReport>>

\* Mutant of ReleaseActiveGrabs: it stops after the first grab.
ReleaseActiveGrabs_First ==
  /\ Top("release")
  /\ LET mine == {d \in Devices : dev[d].grab = Head(todo).client}
     IN IF mine = {}
          THEN Return(dev, Tail(todo))
          ELSE \E d \in mine : ComputeFreezes(DeactivateGrab(dev, d), <<>>, Tail(todo))
  /\ alive' = alive \ {Head(todo).client}
  /\ UNCHANGED <<pending, tail, phys, made, done, split, lastReport>>

\* ReleaseActiveGrabs: until the client has no grab, whatever grabs the events
\* that were played gave it; then its resources go.
ReleaseActiveGrabs ==
  /\ Top("release")
  /\ LET c == Head(todo).client
         mine == {d \in Devices : dev[d].grab = c}
     IN IF mine = {}
          THEN alive' = alive \ {c} /\ Return(dev, Tail(todo))
          ELSE /\ \E d \in mine : ComputeFreezes(DeactivateGrab(dev, d), <<>>, todo)
               /\ UNCHANGED alive
  /\ UNCHANGED <<pending, tail, phys, made, done, split, lastReport>>

ServerStep ==
  PlayReleasedEvents \/ ReplayEvent \/ PressAgain \/ SaveEvent \/ ReleaseActiveGrabs

Next ==
  \/ \E d \in Devices, kind \in {"press", "release", "motion"} : InputEvent(d, kind)
  \/ \E c \in Clients, d \in Devices :
       \/ \E w \in Windows, thisSync, otherSync \in BOOLEAN :
            GrabDevice(c, d, w, thisSync, otherSync)
       \/ \E mode \in Modes : AllowSome(c, d, mode)
  \/ \E d \in Devices : EndGrab(d)
  \/ \E c \in Clients : CloseClient(c) \/ NewClient(c)
  \/ ServerStep

Spec == Init /\ [][Next]_vars

-----------------------------------------------------------------------------
(* Properties.                                                             *)

\* What processInputProc does with an event is decided by sync.frozen, a copy
\* of what sync.state and sync.other say that ComputeFreezes refreshes: the
\* copy is never stale, a device that is held by another device's grab is held
\* by one that is active, and only devices with a grab have a sync state.
FreezeIsExplained ==
  \A d \in Devices :
    /\ dev[d].frozen <=> (dev[d].state \in Frozen \/ dev[d].other # None)
    /\ dev[d].other # None => dev[dev[d].other].grab # None
    /\ dev[d].state # "NOT_GRABBED" <=> dev[d].grab # None

\* No event is left behind: when the server has nothing to do, every event
\* that still waits is of a device that is frozen, by a grab of a client that
\* is there to thaw it.
NothingStranded ==
  Idle => /\ ~playing
          /\ \A i \in DOMAIN pending : dev[pending[i].dev].frozen
          /\ \A d \in Devices : dev[d].grab # None => dev[d].grab \in alive

\* The events of a device are processed once each and in the order they were
\* generated, whatever freezes, replays and thaws came between, as long as no
\* repeated press was cut in two; so the keys the server believes to be down
\* are those the user holds, when none of the device's events wait.
OrderKept ==
  ~split =>
    /\ \A i, j \in DOMAIN pending :
         i < j /\ pending[i].dev = pending[j].dev => pending[i].id < pending[j].id
    /\ \A i \in DOMAIN pending : done[pending[i].dev] < pending[i].id
    /\ \A d \in Devices :
         Idle /\ (\A i \in DOMAIN pending : pending[i].dev # d) => dev[d].down = phys[d]

\* An event that is to be replayed is the last one of its device that was
\* processed: nothing overtook it while its grab was held.
ReplayIsCurrent ==
  ~split =>
    /\ \A d \in Devices :
         dev[d].state = "FROZEN_WITH_EVENT" => dev[d].event.id = done[d]
    /\ Top("replay") => Head(todo).event.id = done[Head(todo).event.dev]

\* Every handler returns, although an event it plays may begin a grab, freeze
\* its device again or be put back in the queue: with each of its steps the
\* first of these that changes gets smaller (and a step is always possible:
\* there is no deadlock).
Work ==
  LET Waiting(again) == {i \in DOMAIN pending : pending[i].again = again}
      ready == {i \in Waiting(TRUE) : ~dev[pending[i].dev].frozen}
      Todo(op) == {i \in DOMAIN todo : todo[i].op = op}
      halves == Cardinality(Todo("again"))
  IN <<Cardinality(Waiting(FALSE)),
       Cardinality(Waiting(TRUE)) + halves,
       Cardinality(Todo("replay")),
       Cardinality({d \in Devices : dev[d].grab # None}),
       2 * Cardinality(ready) + halves,
       Len(todo)>>

Less(m, n) ==
  \E i \in DOMAIN n : m[i] < n[i] /\ \A j \in 1 .. i - 1 : m[j] = n[j]

HandlersReturn == [][~Idle => Less(Work', Work)]_vars

\* The RECORD specification: each device event is recorded in the same order it
\* is generated by the device (doc/specs/Xext/record.ms).
ReportedInOrder == [][lastReport <= lastReport']_vars

\* The same as OrderKept without the exception for repeated presses.
PressesKeepOrder ==
  Idle /\ pending = <<>> => \A d \in Devices : dev[d].down = phys[d]
=============================================================================
