---------------------------- MODULE SmartSchedule ----------------------------
(***************************************************************************)
(* The smart scheduler (dix/dispatch.c, hw/xfree86/doc/smartsched): which  *)
(* of the clients with something to read gets the next turn, and how long  *)
(* the turn is.  Time is counted in ticks of SIGVTALRM, which interrupts   *)
(* the server between any two steps and only while it uses the processor.  *)
(* With it comes what WaitForSomething does of it: with a whole request in *)
(* some buffer it polls, and skips the timers on the way.                  *)
(*                                                                         *)
(* Grabs, sleepers and the priorities of SetPriority only make the set of  *)
(* clients to choose from smaller; ClientDispatch has the first two.       *)
(***************************************************************************)
EXTENDS Integers, FiniteSets

CONSTANTS
    Clients,       \* indexes of clients[]
    Users,         \* bound: the clients that user input goes to
    Penalties,     \* -SmartMinPriority: 20
    MaxPriority,   \* SmartMaxPriority: 20
    Interval,      \* SmartScheduleInterval, in ticks: 1
    MaxSlice,      \* SMART_SCHEDULE_MAX_SLICE, in ticks: 10
    Long           \* 1000 milliseconds, in ticks: 50

ASSUME SmartAssumption ==
    /\ Clients \subseteq 1 .. 255 /\ Clients # {} /\ Users \subseteq Clients
    /\ Penalties \in Nat \ {0} /\ MaxPriority \in Nat
    /\ Interval \in Nat \ {0} /\ Long \in Nat
    /\ MaxSlice \in Nat /\ MaxSlice >= Interval

MinPriority == -Penalties

VARIABLES
    alive,      \* the clients connected
    want,       \* each client: what there is to read, and where
    prio,       \* smart_priority
    idle,       \* each client below normal: ticks since smart_stop_tick
    slice,      \* SmartScheduleSlice
    last,       \* SmartLastClient, or 0
    lastIndex,  \* SmartLastIndex
    lastAge,    \* ticks since smart_start_tick of last
    used,       \* ticks since start_tick of the turn
    cur,        \* the client whose turn it is, or 0
    pc,         \* where the server stands
    due,        \* has the time of some timer come?
    passed      \* history: turns in a row given to clients of the same
                \* priority while this one was ready

clientVars == <<alive, want, prio, idle>>
lastVars == <<slice, last, lastIndex, lastAge>>
vars == <<clientVars, lastVars, used, cur, pc, due, passed>>

Waits == {"none", "socket",   \* select() will tell
          "buffer"}           \* in ClientsWithInput

\* Ticks are counted as far as some test can tell.
IdleCap == 2 * Cardinality(Clients) * MaxSlice
Later(n, cap) == IF n < cap THEN n + 1 ELSE cap

TypeOK ==
    /\ alive \subseteq Clients /\ want \in [Clients -> Waits]
    /\ prio \in [Clients -> MinPriority .. MaxPriority]
    /\ idle \in [Clients -> 0 .. IdleCap]
    /\ slice \in Interval .. MaxSlice
    /\ last \in alive \cup {0} /\ lastIndex \in Clients \cup {0}
    /\ last # 0 => lastIndex = last
    /\ lastAge \in 0 .. Long + 1 /\ used \in 0 .. MaxSlice
    /\ cur \in Clients \cup {0} /\ (pc \in {"chosen", "run"} => cur \in alive)
    /\ pc \in {"wait", "select", "chosen", "run"} /\ due \in BOOLEAN
    /\ passed \in [Clients -> Nat]

Init ==
    /\ alive = Clients /\ want = [c \in Clients |-> "none"]
    /\ prio = [c \in Clients |-> 0] /\ idle = [c \in Clients |-> 0]
    /\ slice = Interval /\ last = 0 /\ lastIndex = 0 /\ lastAge = 0
    /\ used = 0 /\ cur = 0 /\ pc = "wait" /\ due = FALSE
    /\ passed = [c \in Clients |-> 0]

-----------------------------------------------------------------------------
(* The world.                                                              *)

Send(c) ==
    /\ c \in alive /\ want[c] = "none"
    /\ want' = [want EXCEPT ![c] = "socket"]
    /\ UNCHANGED <<alive, prio, idle, lastVars, used, cur, pc, due, passed>>

\* SmartScheduleTimer.  A client at normal priority or above is penalized
\* only at the end of its own turn, so the time since the last one is of no
\* account.
Tick ==
    /\ pc # "select"
    /\ idle' = [c \in Clients |-> IF prio[c] < 0 THEN Later(idle[c], IdleCap) ELSE 0]
    /\ lastAge' = Later(lastAge, Long + 1)
    /\ used' = IF pc = "run" THEN Later(used, MaxSlice) ELSE used
    /\ UNCHANGED <<alive, want, prio, slice, last, lastIndex, cur, pc, due, passed>>

TimerComes ==
    /\ ~due /\ due' = TRUE
    /\ UNCHANGED <<clientVars, lastVars, used, cur, pc, passed>>

\* ProcessInputEvents delivers a critical event: TryClientEvents praises.
UserInput(c) ==
    /\ pc \in {"wait", "run"} /\ c \in alive \cap Users
    /\ prio' = [prio EXCEPT ![c] = IF @ < MaxPriority THEN @ + 1 ELSE @]
    /\ UNCHANGED <<alive, want, idle, lastVars, used, cur, pc, due, passed>>

-----------------------------------------------------------------------------
(* SmartScheduleClient.                                                    *)

\* Mutant: nobody is praised for waiting.
Praised_Never(ready) == prio

\* The priorities once the clients idle for long enough are praised.
Praised(ready) ==
    [c \in Clients |->
        IF c \in ready /\ prio[c] < 0 /\ idle[c] >= 2 * Cardinality(ready) * slice
        THEN prio[c] + 1 ELSE prio[c]]

\* Mutant: the highest index wins, whoever had the last turn.
Robin_FromZero(c) == c

Robin(c) == (c - lastIndex) % 256

Best(ready, p) ==
    CHOOSE c \in ready : \A d \in ready \ {c} :
        p[d] < p[c] \/ (p[d] = p[c] /\ Robin(d) < Robin(c))

\* A client that has had the server for itself for long gets longer slices.
Slice(ready, age) ==
    IF Cardinality(ready) > 1 THEN Interval
    ELSE IF age > Long /\ slice < MaxSlice THEN slice + 1 ELSE slice

SmartScheduleClient(ready) ==
    LET p == Praised(ready)
        best == Best(ready, p)
    IN  /\ prio' = p /\ cur' = best
        /\ last' = best /\ lastIndex' = best
        /\ lastAge' = IF last = best THEN lastAge ELSE 0
        /\ slice' = Slice(ready, lastAge')
        /\ passed' = [c \in Clients |-> IF c \in ready \ {best} /\ p[c] = p[best]
                                        THEN passed[c] + 1 ELSE 0]
        /\ pc' = "chosen"

-----------------------------------------------------------------------------
(* WaitForSomething.                                                       *)

Buffered == {c \in alive : want[c] = "buffer"}
Readable == {c \in alive : want[c] = "socket"}

\* With a request in some buffer, select() polls and no timer runs.
Poll ==
    /\ pc = "wait" /\ Buffered # {}
    /\ SmartScheduleClient(Buffered \cup Readable)
    /\ UNCHANGED <<alive, want, idle, used, due>>

\* Otherwise the timers whose time has come run before select() blocks.
Block ==
    /\ pc = "wait" /\ Buffered = {}
    /\ due' = FALSE /\ pc' = "select"
    /\ UNCHANGED <<clientVars, lastVars, used, cur, passed>>

Hear ==
    /\ pc = "select" /\ Readable # {}
    /\ SmartScheduleClient(Readable)
    /\ UNCHANGED <<alive, want, idle, used, due>>

\* select() returns without a client: for a device, or at a timeout or a signal,
\* and then the timers run.
Wake ==
    /\ pc = "select" /\ Readable = {}
    /\ pc' = "wait" /\ due' \in {due, FALSE}
    /\ UNCHANGED <<clientVars, lastVars, used, cur, passed>>

-----------------------------------------------------------------------------
(* The turn.                                                               *)

StartTurn ==
    /\ pc = "chosen" /\ pc' = "run" /\ used' = 0
    /\ UNCHANGED <<clientVars, lastVars, cur, due, passed>>

\* smart_stop_tick is set, and Dispatch goes back to WaitForSomething.
EndTurn ==
    /\ pc' = "wait" /\ cur' = 0 /\ used' = 0
    /\ idle' = [idle EXCEPT ![cur] = 0]
    /\ UNCHANGED <<alive, lastVars, due, passed>>

\* Mutant: the penalty knows no bottom.
SliceOver_Bottomless ==
    /\ pc = "run" /\ used >= slice
    /\ prio' = [prio EXCEPT ![cur] = @ - 1]
    /\ EndTurn /\ UNCHANGED want

\* A client that consumes its slice is penalized.
SliceOver ==
    /\ pc = "run" /\ used >= slice
    /\ prio' = [prio EXCEPT ![cur] = IF @ > MinPriority THEN @ - 1 ELSE @]
    /\ EndTurn /\ UNCHANGED want

\* A request is read and executed; others may be left in the buffer.  An
\* error ends the turn.
Execute ==
    /\ pc = "run" /\ used < slice /\ want[cur] # "none"
    /\ \E left \in {"none", "buffer"} : want' = [want EXCEPT ![cur] = left]
    /\ \/ EndTurn /\ UNCHANGED prio
       \/ UNCHANGED <<alive, prio, idle, lastVars, used, cur, pc, due, passed>>

NothingToRead ==
    /\ pc = "run" /\ used < slice /\ want[cur] = "none"
    /\ EndTurn /\ UNCHANGED <<want, prio>>

-----------------------------------------------------------------------------
(* Connections come and go.                                                *)

\* CloseDownClient forgets SmartLastClient, whichever client it closes.
CloseDownClient(c) ==
    /\ c \in alive /\ (pc = "wait" \/ (pc = "run" /\ used < slice))
    /\ alive' = alive \ {c} /\ want' = [want EXCEPT ![c] = "none"]
    /\ passed' = [passed EXCEPT ![c] = 0]
    /\ last' = 0
    /\ IF c = cur THEN pc' = "wait" /\ cur' = 0 /\ used' = 0
       ELSE UNCHANGED <<pc, cur, used>>
    /\ UNCHANGED <<prio, idle, slice, lastIndex, lastAge, due>>

\* InitClient, of the least free slot.
Connect(c) ==
    /\ pc = "wait" /\ c \in Clients \ alive
    /\ \A d \in Clients \ alive : c <= d
    /\ alive' = alive \cup {c}
    /\ prio' = [prio EXCEPT ![c] = 0] /\ idle' = [idle EXCEPT ![c] = 0]
    /\ UNCHANGED <<want, lastVars, used, cur, pc, due, passed>>

-----------------------------------------------------------------------------
World == \/ TimerComes
         \/ \E c \in Clients : Send(c) \/ UserInput(c) \/ CloseDownClient(c) \/ Connect(c)

Server == \/ Poll \/ Block \/ Hear \/ Wake
          \/ StartTurn \/ SliceOver \/ Execute \/ NothingToRead

Next == World \/ Tick \/ Server

Spec == Init /\ [][Next]_vars

\* The server runs on, and its processor time with it: SF, since blocked in
\* select() it uses none.
FairSpec == Spec /\ WF_vars(Server) /\ SF_vars(Tick)

-----------------------------------------------------------------------------
\* The robin (dispatch.c:301) shares the turns among clients of one priority:
\* while a client is ready, they get fewer turns in a row than there are
\* clients, before it has its own or the priorities part them.
NotOvertaken == \A c \in Clients : passed[c] < Cardinality(Clients)

\* The client with something to read gets its turn or loses its connection.
Served(c) ==
    (c \in alive /\ want[c] # "none") ~> ((pc = "run" /\ cur = c) \/ c \notin alive)

\* Penalties and praise (dispatch.c:294, 427) starve nobody: once user input
\* has stopped lifting clients above normal, every client that has something
\* to read is served, though streams of requests and penalties never stop.
NormalServed ==
    <>[](\A c \in Clients : prio[c] <= 0) => \A c \in Clients : Served(c)

\* Every client is served, whoever gets the user's input.  It is not so: a
\* client above normal is never caught up with by praise (dispatch.c:296), and
\* keeps the server while input (events.c:1588) makes up for its penalties.
AllServed == \A c \in Clients : Served(c)

\* A timer whose time has come runs in the end.  It is not so: while buffers
\* hold whole requests, WaitForSomething only polls (WaitFor.c:174-190).
TimersRun == due ~> ~due

\* A slice longer than the interval is for a client that has had the server
\* for long (dispatch.c:336).  It is not so: the slice is only made short again
\* when two clients are ready at once, and the next one inherits it.
SliceEarned == pc = "run" /\ slice > Interval => lastAge > Long
=============================================================================
