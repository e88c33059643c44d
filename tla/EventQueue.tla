----------------------------- MODULE EventQueue -----------------------------
(***************************************************************************)
(* The machine-independent input event queue (mi/mieq.c) between the SIGIO *)
(* handler, which reads the devices and enqueues, and the main program,    *)
(* which dequeues from Dispatch (dix/dispatch.c) and sleeps in select()    *)
(* inside WaitForSomething (os/WaitFor.c).                                 *)
(*                                                                         *)
(* There is one thread.  The handler runs to completion wherever it        *)
(* interrupts the main program, so a Post action is atomic and may fire at *)
(* every value of pc, while each access of the main program to a shared    *)
(* field is a step of its own.                                             *)
(*                                                                         *)
(* Every report of a device gets a serial number; the serial of a motion   *)
(* stands for the coordinates it reports.                                  *)
(***************************************************************************)
EXTENDS Naturals, Sequences

CONSTANTS
    QSize,        \* QUEUE_SIZE
    Screens,      \* the screens of screenInfo
    FirstScreen,  \* screenInfo.screens[0]
    Times,        \* the time stamps devices put in their reports
    BootTime,     \* lastEventTime, which only mieqInit assigns
    Window,       \* 10000: how far back a stamp may lie and still be raised
    MaxPosts,     \* bound: reports made by the devices in one behaviour
    HasTimeout    \* does select() get a timeout (screen saver, DPMS, timers)?

ASSUME QueueAssumption ==
    /\ QSize \in Nat /\ QSize >= 2
    /\ FirstScreen \in Screens
    /\ Times \subseteq Nat
    /\ BootTime \in Nat
    /\ Window \in Nat
    /\ MaxPosts \in Nat
    /\ HasTimeout \in BOOLEAN

VARIABLES
    head, tail,       \* miEventQueue.head, miEventQueue.tail
    events,           \* miEventQueue.events
    lastMotion,       \* miEventQueue.lastMotion
    pEnqueueScreen,   \* screen events are being delivered to
    pDequeueScreen,   \* screen events are being dispatched to
    pc,               \* where the main program stands
    ret,              \* where mieqProcessInputEvents returns to
    cur,              \* the locals xe, x and y
    pointer,          \* miPointer.x, y: the last position the devices reported
    sprite,           \* sprite.hotPhys: the position DIX works with
    serial,           \* history: reports made so far
    accepted,         \* history: serials of the key events let into the queue
    delivered,        \* history: serials of the key events handed to the device
    lastOut           \* history: the last event handed to DIX

queueVars == <<head, tail, events, lastMotion>>
screenVars == <<pEnqueueScreen, pDequeueScreen>>
outVars == <<sprite, delivered, lastOut>>
vars == <<queueVars, screenVars, pc, ret, cur, pointer, serial, accepted, outVars>>

-----------------------------------------------------------------------------
Slots == 0 .. QSize - 1
Kinds == {"key", "motion"}
\* Mutant of the index macros: one slot too far back.
Pred_OffByOne(i) == IF i = 0 THEN QSize - 2 ELSE i - 1

Succ(i) == IF i + 1 = QSize THEN 0 ELSE i + 1
Pred(i) == IF i = 0 THEN QSize - 1 ELSE i - 1

Event == [kind : Kinds, serial : Nat, time : Nat, screen : Screens]
Local == [kind : Kinds, time : Nat, x : Nat, y : Nat]

\* Where the main program stands, by the code it is about to execute.
Places == {"dispatch",   \* the test of Dispatch, before WaitForSomething
           "wait",       \* in WaitForSomething, select() not entered yet
           "select",     \* asleep in select()
           "woken",      \* select() returned without a readable descriptor
           "serve",      \* the test of Dispatch before a request is read
           "request",    \* executing a request
           "while",      \* the loop test of mieqProcessInputEvents
           "check", "switch", "readX", "readY", "stepSwitch", "newScreen",
           "copy", "copyXY", "step", "process"}

TypeOK ==
    /\ head \in Slots /\ tail \in Slots
    /\ events \in [Slots -> Event]
    /\ lastMotion \in BOOLEAN
    /\ pEnqueueScreen \in Screens /\ pDequeueScreen \in Screens
    /\ pc \in Places /\ ret \in {"wait", "request"}
    /\ cur \in Local
    /\ pointer \in Nat
    /\ sprite \in [x : Nat, y : Nat]
    /\ serial \in 0 .. MaxPosts
    /\ accepted \subseteq Nat /\ delivered \subseteq Nat
    /\ lastOut \in [kind : Kinds, serial : Nat, time : Nat]

mieqInit ==
    /\ head = 0 /\ tail = 0
    /\ events = [i \in Slots |-> [kind |-> "motion", serial |-> 0,
                                  time |-> 0, screen |-> FirstScreen]]
    /\ lastMotion = FALSE
    /\ pEnqueueScreen = FirstScreen /\ pDequeueScreen = FirstScreen

Init ==
    /\ mieqInit
    /\ pc = "dispatch" /\ ret = "wait"
    /\ cur = [kind |-> "motion", time |-> 0, x |-> 0, y |-> 0]
    /\ pointer = 0
    /\ sprite = [x |-> 0, y |-> 0]
    /\ serial = 0
    /\ accepted = {} /\ delivered = {}
    /\ lastOut = [kind |-> "motion", serial |-> 0, time |-> 0]

-----------------------------------------------------------------------------
(* The producer: mieqEnqueue, in the SIGIO handler or with SIGIO blocked.  *)

\* Mutants: a motion replaces any newest event; the queue is never full, or
\* takes itself for full while two slots are left.
Coalesces_AnyLast(kind) == kind = "motion" /\ tail # head
Full_Never == FALSE
Full_Early == head \in {Succ(tail), Succ(Succ(tail))}

\* A motion right behind a motion replaces it, unless the queue is empty.
Coalesces(kind) == kind = "motion" /\ lastMotion /\ tail # head

\* "Toss events which come in late": no slot is left for a new event.
Full == Succ(tail) = head

\* The slot the event is written to.
Target(kind) == IF Coalesces(kind) THEN Pred(tail) ELSE tail

\* The stamp the slot receives.
Stamp(t) == IF t < BootTime /\ BootTime - t < Window THEN BootTime ELSE t

Toss(kind) ==
    /\ ~Coalesces(kind) /\ Full
    /\ UNCHANGED <<queueVars, accepted>>

Store(kind, t, scr) ==
    /\ Coalesces(kind) \/ ~Full
    /\ tail' = IF Coalesces(kind) THEN tail ELSE Succ(tail)
    /\ lastMotion' = (kind = "motion")
    /\ events' = [events EXCEPT ![Target(kind)] =
                    [kind |-> kind, serial |-> serial + 1,
                     time |-> Stamp(t), screen |-> scr]]
    /\ accepted' = IF kind = "key" THEN accepted \cup {serial + 1} ELSE accepted
    /\ UNCHANGED head

mieqEnqueue(kind, t, scr) == Toss(kind) \/ Store(kind, t, scr)

\* A report of a device: the handler calls mieqEnqueue once, and a signal
\* that arrives in select() makes it return EINTR.
Report(kind, t, scr) ==
    /\ serial < MaxPosts
    /\ serial' = serial + 1
    /\ mieqEnqueue(kind, t, scr)
    /\ pEnqueueScreen' = scr
    /\ pointer' = IF kind = "motion" THEN serial + 1 ELSE pointer

Interrupt ==
    /\ pc' = IF pc = "select" THEN "woken" ELSE pc
    /\ UNCHANGED <<pDequeueScreen, ret, cur, outVars>>

PostKey(t) == Report("key", t, pEnqueueScreen) /\ Interrupt

\* miPointerAbsoluteCursor; CursorOffScreen may move the pointer to another
\* screen, and then mieqSwitchScreen(scr, FALSE) comes before the event.
PostMotion(t, scr) == Report("motion", t, scr) /\ Interrupt

\* ProcWarpPointer: miPointerWarpCursor runs with SIGIO blocked and
\* GenerateEvent set; it calls mieqSwitchScreen(scr, TRUE).
Warp(t, scr) ==
    /\ pc = "request"
    /\ Report("motion", t, scr)
    /\ pDequeueScreen' = IF scr # pEnqueueScreen THEN scr ELSE pDequeueScreen
    /\ pc' = "serve"
    /\ UNCHANGED <<ret, cur, outVars>>

-----------------------------------------------------------------------------
(* The main loop: Dispatch and WaitForSomething.                           *)

Moves(from, to) == pc = from /\ pc' = to

Loop(from, to) ==
    /\ Moves(from, to)
    /\ UNCHANGED <<queueVars, screenVars, ret, cur, pointer, serial,
                   accepted, outVars>>

\* A test of *icheck[0] != *icheck[1] and the call to ProcessInputEvents.
TestInput(from, to) ==
    /\ pc = from
    /\ pc' = IF head # tail THEN "while" ELSE to
    /\ ret' = IF head # tail THEN to ELSE ret
    /\ UNCHANGED <<queueVars, screenVars, cur, pointer, serial, accepted, outVars>>

TestBeforeWait == TestInput("dispatch", "wait")
TestBeforeRequest == TestInput("serve", "request")

EnterSelect == Loop("wait", "select")
\* A client is readable, or has a buffered request.
ClientReady == Loop("wait", "serve") \/ Loop("select", "serve")
SelectTimeout == HasTimeout /\ Loop("select", "woken")

\* Mutant: the test of checkForInput after select() is missing.
Woken_NoCheck == Loop("woken", "wait")

\* select() failed or timed out: return to Dispatch only when input waits.
Woken ==
    \/ head # tail /\ Loop("woken", "dispatch")
    \/ head = tail /\ Loop("woken", "wait")

\* A request without effect here; then the next one, or the next round.
Request == Loop("request", "serve") \/ Loop("request", "dispatch")

-----------------------------------------------------------------------------
(* The consumer: mieqProcessInputEvents, e = &events[head].                *)

e == events[head]

Consume(from, to) ==
    /\ Moves(from, to)
    /\ UNCHANGED <<tail, events, lastMotion, pEnqueueScreen, ret, pointer,
                   serial, accepted>>

WhileTest ==
    /\ pc = "while"
    /\ Consume("while", IF head # tail THEN "check" ELSE ret)
    /\ UNCHANGED <<head, pDequeueScreen, cur, outVars>>

CheckScreen ==
    /\ Consume("check", IF e.screen # pDequeueScreen THEN "switch" ELSE "copy")
    /\ UNCHANGED <<head, pDequeueScreen, cur, outVars>>

SwitchScreen ==
    /\ Consume("switch", "readX")
    /\ pDequeueScreen' = e.screen
    /\ UNCHANGED <<head, cur, outVars>>

ReadX ==
    /\ Consume("readX", "readY")
    /\ cur' = [cur EXCEPT !.x = e.serial]
    /\ UNCHANGED <<head, pDequeueScreen, outVars>>

ReadY ==
    /\ Consume("readY", "stepSwitch")
    /\ cur' = [cur EXCEPT !.y = e.serial]
    /\ UNCHANGED <<head, pDequeueScreen, outVars>>

AdvanceHead(from, to) ==
    /\ Consume(from, to)
    /\ head' = Succ(head)
    /\ UNCHANGED <<pDequeueScreen, cur, outVars>>

\* The event moves the sprite; when it was a key, the key is gone.
NewCurrentScreen ==
    /\ Consume("newScreen", "while")
    /\ sprite' = [x |-> cur.x, y |-> cur.y]
    /\ lastOut' = [lastOut EXCEPT !.kind = "motion", !.serial = cur.y]
    /\ UNCHANGED <<head, pDequeueScreen, cur, delivered>>

\* xe = e->event copies word by word: type and time first, then rootX and
\* rootY, which share a word.
CopyHead ==
    /\ Consume("copy", "copyXY")
    /\ cur' = [cur EXCEPT !.kind = e.kind, !.time = e.time]
    /\ UNCHANGED <<head, pDequeueScreen, outVars>>

CopyXY ==
    /\ Consume("copyXY", "step")
    /\ cur' = [cur EXCEPT !.x = e.serial, !.y = e.serial]
    /\ UNCHANGED <<head, pDequeueScreen, outVars>>

\* (*processInputProc): a key goes to the keyboard, a motion to the pointer.
ProcessEvent ==
    /\ Consume("process", "while")
    /\ lastOut' = [kind |-> cur.kind, serial |-> cur.x, time |-> cur.time]
    /\ \/ /\ cur.kind = "key"
          /\ delivered' = delivered \cup {cur.x}
          /\ UNCHANGED sprite
       \/ /\ cur.kind = "motion"
          /\ sprite' = [x |-> cur.x, y |-> cur.y]
          /\ UNCHANGED delivered
    /\ UNCHANGED <<head, pDequeueScreen, cur>>

-----------------------------------------------------------------------------
Device ==
    \/ \E t \in Times : PostKey(t)
    \/ \E t \in Times, scr \in Screens : PostMotion(t, scr)

Main ==
    \/ TestBeforeWait \/ TestBeforeRequest \/ EnterSelect
    \/ Woken \/ Request
    \/ WhileTest \/ CheckScreen
    \/ SwitchScreen \/ ReadX \/ ReadY \/ AdvanceHead("stepSwitch", "newScreen")
    \/ NewCurrentScreen
    \/ CopyHead \/ CopyXY \/ AdvanceHead("step", "process") \/ ProcessEvent

Next ==
    \/ Device
    \/ Main
    \/ ClientReady
    \/ SelectTimeout
    \/ \E t \in Times, scr \in Screens : Warp(t, scr)

Spec == Init /\ [][Next]_vars

\* The main program runs on while it is not asleep, and a timeout given to
\* select() expires; nothing makes devices or clients act.
FairSpec == Spec /\ WF_vars(Main) /\ WF_vars(SelectTimeout)

-----------------------------------------------------------------------------
(* Safety of the queue.                                                    *)

\* How far slot i lies behind slot h, and the slots from h up to t.
Dist(h, i) == IF i >= h THEN i - h ELSE i - h + QSize
Between(h, t) == {i \in Slots : Dist(h, i) < Dist(h, t)}

\* The slots that hold waiting events.
Live == Between(head, tail)

\* Events lie in the queue in the order the devices reported them, all of
\* them later than the last one handed to DIX: mieqEnqueue only ever
\* overwrites the newest slot.
SlotsInOrder ==
    /\ \A i, j \in Live :
          Dist(head, i) < Dist(head, j) => events[i].serial < events[j].serial
    /\ \A i \in Live : events[i].serial \in lastOut.serial + 1 .. serial
    /\ lastOut.serial <= serial

\* lastMotion tells the kind of the newest waiting event.
NewestIsMotion == lastMotion /\ head # tail => events[Pred(tail)].kind = "motion"

\* The event at head stays where it is while the main program reads it, and
\* what has been read of it lies in the order too: the handler may replace a
\* motion by a newer one between two reads, and never a key.
ReadInOrder ==
    /\ pc \in {"check", "switch", "readX", "readY", "stepSwitch",
               "copy", "copyXY", "step"} => head # tail
    /\ pc \in {"copyXY", "step"} => cur.kind = e.kind
    /\ pc = "step" => cur.x \in lastOut.serial + 1 .. e.serial
    /\ pc = "step" /\ cur.kind = "key" => cur.x = e.serial
    /\ pc = "stepSwitch" => cur.y \in lastOut.serial + 1 .. e.serial
    /\ pc = "process" => /\ cur.x \in lastOut.serial + 1 .. serial
                         /\ \A i \in Live : cur.x < events[i].serial
    /\ pc = "newScreen" => /\ cur.y \in lastOut.serial + 1 .. serial
                           /\ \A i \in Live : cur.y < events[i].serial

\* What orders the queue at every step of the handler and the main program.
QueueOrder == SlotsInOrder /\ NewestIsMotion /\ ReadInOrder
\* The inductive invariant behind the order of delivery.
QueueInv == TypeOK /\ QueueOrder

\* No event is handed to DIX after one that was reported later, or twice,
\* whatever the handler does between the steps of mieqProcessInputEvents.
DeliveredInOrder ==
    [][lastOut' # lastOut => lastOut'.serial > lastOut.serial]_vars

\* A key or button event that mieqEnqueue let into the queue is handed to
\* the device, in the local xe, or still in a slot between head and tail:
\* neither the coalescing of motions nor a full queue destroys it.
KeysKept ==
    \A k \in accepted :
        \/ k \in delivered
        \/ pc = "process" /\ cur.kind = "key" /\ cur.x = k
        \/ \E i \in Live : events[i].kind = "key" /\ events[i].serial = k

\* A key event let into the queue reaches the keyboard device.  It may sit
\* in the queue while the main program sleeps in select(), which notices
\* only the timeout, a client or the next signal.
KeyReachesDevice == \A k \in 1 .. MaxPosts : k \in accepted ~> k \in delivered

-----------------------------------------------------------------------------
(* What the comments of the source promise.                                *)

\* mieq.c: "screen switching can only occur on motion events".
SwitchOnMotionOnly == pc = "switch" => e.kind = "motion"

\* mieq.c: mieqEnqueue is "reentrant with ProcessInputEvents": when all input
\* is processed and the server sleeps, DIX has the pointer where it is.
PointerFollowed ==
    pc = "select" /\ head = tail => sprite = [x |-> pointer, y |-> pointer]

\* mieq.c: "Make sure that event times don't go backwards".
TimesForward == [][lastOut'.time >= lastOut.time]_vars

-----------------------------------------------------------------------------
(* The queue implements the input stream that InputStream describes.  An   *)
(* event is delivered when the device processes it; once all its words are *)
(* copied, the copy counts and the slot it came from does not.             *)

Slot(n) == IF head + n < QSize THEN events[head + n] ELSE events[head + n - QSize]
Waiting ==
    [n \in 1 .. Dist(head, tail) |->
        IF n = 1 /\ pc = "step" THEN [kind |-> cur.kind, serial |-> cur.x]
        ELSE [kind |-> Slot(n - 1).kind, serial |-> Slot(n - 1).serial]]
Pending ==
    (IF pc = "process" THEN <<[kind |-> cur.kind, serial |-> cur.x]>> ELSE << >>)
        \o Waiting

Stream == INSTANCE InputStream WITH
            Capacity <- QSize - 1, position <- pointer, pending <- Pending,
            out <- [kind |-> lastOut.kind, serial |-> lastOut.serial]

\* Seen through the mapping above, every step of the handler and of the main
\* program is a step of the stream: a key is dropped only when QSize - 1
\* events wait, the one in the locals included; a motion is superseded or
\* gives way only next to a motion, and is never moved past a key.
RefinesStream == Stream!Spec
=============================================================================
