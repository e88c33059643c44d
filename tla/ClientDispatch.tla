--------------------------- MODULE ClientDispatch ---------------------------
(***************************************************************************)
(* How the server chooses the client whose requests it executes: the       *)
(* WaitForSomething and Dispatch loop (os/WaitFor.c, dix/dispatch.c), the  *)
(* reading of requests (os/io.c), the server grab, clients put to sleep by *)
(* a font or by a delayed fake input, the work queue (dix/dixutils.c) and  *)
(* the closing of connections at any of these points.                      *)
(*                                                                         *)
(* The server has one thread.  The clients, the font server and the clock  *)
(* act between any two of its steps.  What a request asks is decided when  *)
(* it is read, except that one put back is asked again as it was, so a     *)
(* buffer is the number of whole requests in it.                           *)
(***************************************************************************)
EXTENDS InputMasks, Integers, Sequences, FiniteSets

CONSTANTS
    Connected,   \* the clients connected and set up at the start
    Exempt,      \* those of them that made themselves impervious to grabs
    Ops,         \* what each client may ask for, out of Operations
    Comers,      \* bound: the clients that may connect later, or again
    Fragile,     \* bound: the clients a write may fail to once they have hung up
    Backlog,     \* bound: requests that fit in a socket
    Priorities,  \* the priorities SyncSetPriority may give
    Smart,       \* is the smart scheduler in use (~SmartScheduleDisable)?
    WordBits     \* 32: clients per word of grabWaiters

Operations == {"noop", "grab", "ungrab", "open", "delay", "kill",
               "impervious", "pervious", "priority"}

ASSUME DispatchAssumption ==
    /\ Connected \subseteq Clients /\ Exempt \subseteq Connected
    /\ Ops \in [Clients -> SUBSET Operations] /\ Comers \subseteq Clients /\ Fragile \subseteq Clients
    /\ Backlog \in Nat /\ Smart \in BOOLEAN
    /\ Priorities \subseteq Int /\ 0 \in Priorities
    /\ WordBits \in Nat \ {0}

VARIABLES
    masks,        \* the descriptor sets of InputMasks
    grabState,    \* grabState: "none", "active" or "kickout"
    grabClient,   \* grabClient, never reset; 0 before the first grab
    grabWaiters,  \* grabWaiters
    life,         \* each client: "absent", "knocking", "new" or "running"
    buf,          \* each client: whole requests in oc->input
    sock,         \* each client: whole requests in its socket
    retry,        \* each client: was the head of buf put back, and by what
    hangup,       \* clients that have closed their end
    priority,     \* each client: client->priority
    broken,       \* clients with noClientException set by a failed write
    asleep,       \* sleepQueue
    delayed,      \* pPending of sleepuntil.c
    workQueue,    \* workQueue: a client to wake, or 0 for new connections
    ready,        \* clientReady[] of the round
    cur,          \* the client whose turn it is
    pc,           \* where the server stands
    closing       \* clients being closed before the server goes on

grabVars == <<grabState, grabClient, grabWaiters>>
inputVars == <<buf, sock, retry>>
sleepVars == <<asleep, delayed, workQueue>>
turnVars == <<ready, cur, pc>>
vars == <<masks, grabVars, life, inputVars, hangup, priority, broken, sleepVars,
          turnVars, closing>>

-----------------------------------------------------------------------------
Places == {"wait",     \* at the top of the loop of WaitForSomething
           "accept",   \* in EstablishNewConnections
           "select",   \* in select() and the block and wakeup handlers
           "check",    \* in CheckConnections
           "round",    \* in Dispatch, between two clients
           "run"}      \* in Dispatch, in the turn of cur

TypeOK ==
    /\ masks \in Masks
    /\ grabState \in {"none", "active", "kickout"}
    /\ grabClient \in Clients \cup {0}
    /\ grabWaiters \subseteq Clients
    /\ life \in [Clients -> {"absent", "knocking", "new", "running"}]
    /\ buf \in [Clients -> Nat] /\ sock \in [Clients -> Nat]
    /\ retry \in [Clients -> {"fresh", "grab", "delayed"}]
    /\ priority \in [Clients -> Priorities]
    /\ hangup \subseteq Clients /\ broken \subseteq Clients
    /\ asleep \subseteq Clients /\ delayed \subseteq Clients
    /\ workQueue \in Seq(Clients \cup {0})
    /\ ready \subseteq Clients
    /\ cur \in Clients \cup {0}
    /\ pc \in Places
    /\ closing \in Seq(Clients)

Init ==
    /\ masks = Listening(Connected, Exempt)
    /\ grabState = "none" /\ grabClient = 0 /\ grabWaiters = {}
    /\ life = [c \in Clients |-> IF c \in Connected THEN "running" ELSE "absent"]
    /\ buf = [c \in Clients |-> 0] /\ sock = [c \in Clients |-> 0]
    /\ retry = [c \in Clients |-> "fresh"]
    /\ priority = [c \in Clients |-> 0] /\ hangup = {} /\ broken = {}
    /\ asleep = {} /\ delayed = {} /\ workQueue = <<>>
    /\ ready = {} /\ cur = 0 /\ pc = "wait"
    /\ closing = <<>>

\* The clients of clients[].
Alive == {c \in Clients : life[c] \in {"new", "running"}}

\* The clients some handler has taken out of the masks until later.
SetAside == asleep \cup delayed \cup grabWaiters

-----------------------------------------------------------------------------
(* The clients' side: they connect, send, and close their end.             *)

Knock(c) ==
    /\ c \in Comers /\ life[c] = "absent"
    /\ life' = [life EXCEPT ![c] = "knocking"]
    /\ UNCHANGED <<masks, grabVars, inputVars, hangup, priority, broken, sleepVars,
                   turnVars, closing>>

\* A client sends its connection prefix and then waits for the answer.
Send(c) ==
    /\ life[c] = "running" \/ (life[c] = "new" /\ sock[c] = 0)
    /\ c \notin hangup
    /\ sock[c] < Backlog
    /\ sock' = [sock EXCEPT ![c] = @ + 1]
    /\ UNCHANGED <<masks, grabVars, life, buf, retry, hangup, priority, broken, sleepVars,
                   turnVars, closing>>

HangUp(c) ==
    /\ c \in Alive \ hangup
    /\ hangup' = hangup \cup {c}
    /\ UNCHANGED <<masks, grabVars, life, inputVars, priority, broken, sleepVars,
                   turnVars, closing>>

\* FlushClient fails to write an event or a reply to a peer that hung up.
WriteFails(c) ==
    /\ pc = "run" /\ closing = <<>>
    /\ c \in (hangup \cap Alive \cap Fragile) \ broken
    /\ broken' = broken \cup {c}
    /\ UNCHANGED <<masks, grabVars, life, inputVars, hangup, priority, sleepVars,
                   turnVars, closing>>

-----------------------------------------------------------------------------
(* UngrabServer: the first client of the highest word with one is woken.   *)

\* Mutant: the first client of the word, whether it waits or not.
FirstWaiter_WordStart ==
    WordBits * (CHOOSE w \in {c \div WordBits : c \in grabWaiters} :
                    \A c \in grabWaiters : c \div WordBits <= w)

FirstWaiter ==
    CHOOSE c \in grabWaiters : \A d \in grabWaiters :
        \/ d \div WordBits < c \div WordBits
        \/ d \div WordBits = c \div WordBits /\ c <= d

\* Mutant: the waiter is taken off the list but not attended.
Ungrabbed_NoWake(m) == ListenToAll(m)

Ungrabbed(m) == IF grabWaiters = {} THEN ListenToAll(m)
                ELSE Attend(ListenToAll(m), FirstWaiter)

StillWaiting == IF grabWaiters = {} THEN {} ELSE grabWaiters \ {FirstWaiter}

-----------------------------------------------------------------------------
(* CloseDownClient, of the next client to close.                           *)

IsHolder(c) == grabState # "none" /\ grabClient = c

\* Mutant: a dying client stays on the work queue.
CloseDownClient_NoZombies ==
    /\ closing # <<>>
    /\ LET c == Head(closing) IN
        /\ masks' = CloseFd(IF IsHolder(c) THEN Ungrabbed(masks) ELSE masks, c)
        /\ grabState' = IF IsHolder(c) THEN "none" ELSE grabState
        /\ grabWaiters' = (IF IsHolder(c) THEN StillWaiting ELSE grabWaiters) \ {c}
        /\ life' = [life EXCEPT ![c] = "absent"]
        /\ buf' = [buf EXCEPT ![c] = 0] /\ sock' = [sock EXCEPT ![c] = 0]
        /\ retry' = [retry EXCEPT ![c] = "fresh"]
        /\ priority' = [priority EXCEPT ![c] = 0]
        /\ hangup' = hangup \ {c} /\ broken' = broken \ {c}
        /\ asleep' = asleep \ {c} /\ delayed' = delayed \ {c}
    /\ closing' = Tail(closing)
    /\ UNCHANGED <<grabClient, workQueue, turnVars>>

\* ProcessWorkQueueZombies: the work queue q without the items of c.
Without(q, c) ==
    LET kept[n \in 0 .. Len(q)] ==
            IF n = 0 THEN <<>>
            ELSE IF q[n] = c THEN kept[n - 1] ELSE Append(kept[n - 1], q[n])
    IN  kept[Len(q)]

\* A client asleep is signalled, and ProcessWorkQueueZombies runs and drops
\* every item of the dead client: each run of doOpenFont frees its closure.
CloseDownClient ==
    /\ closing # <<>>
    /\ LET c == Head(closing) IN
        /\ masks' = CloseFd(IF IsHolder(c) THEN Ungrabbed(masks) ELSE masks, c)
        /\ grabState' = IF IsHolder(c) THEN "none" ELSE grabState
        /\ grabWaiters' = (IF IsHolder(c) THEN StillWaiting ELSE grabWaiters) \ {c}
        /\ life' = [life EXCEPT ![c] = "absent"]
        /\ buf' = [buf EXCEPT ![c] = 0] /\ sock' = [sock EXCEPT ![c] = 0]
        /\ retry' = [retry EXCEPT ![c] = "fresh"]
        /\ priority' = [priority EXCEPT ![c] = 0]
        /\ hangup' = hangup \ {c} /\ broken' = broken \ {c}
        /\ asleep' = asleep \ {c} /\ delayed' = delayed \ {c}
        /\ workQueue' = Without(workQueue, c)
    /\ closing' = Tail(closing)
    /\ UNCHANGED <<grabClient, turnVars>>

-----------------------------------------------------------------------------
(* WaitForSomething.                                                       *)

Idle(place) == pc = place /\ closing = <<>>

\* ProcessWorkQueue reaches doOpenFont, which may be suspended again.
FontOpened ==
    /\ Idle("wait") /\ workQueue # <<>> /\ Head(workQueue) # 0
    /\ LET c == Head(workQueue) IN
        \/ /\ masks' = IF c \in asleep THEN Attend(masks, c) ELSE masks
           /\ asleep' = asleep \ {c}
        \/ UNCHANGED <<masks, asleep>>
    /\ workQueue' = Tail(workQueue)
    /\ UNCHANGED <<grabVars, life, inputVars, hangup, priority, broken, delayed,
                   turnVars, closing>>

\* ProcessWorkQueue reaches EstablishNewConnections.
StartAccept ==
    /\ Idle("wait") /\ workQueue # <<>> /\ Head(workQueue) = 0
    /\ pc' = "accept"
    /\ UNCHANGED <<masks, grabVars, life, inputVars, hangup, priority, broken, sleepVars,
                   ready, cur, closing>>

\* "Kill off stragglers": a failed client, or one too long in its setup.
KillStraggler(c) ==
    /\ Idle("accept")
    /\ c \in Alive /\ (c \in broken \/ life[c] = "new")
    /\ closing' = <<c>>
    /\ UNCHANGED <<masks, grabVars, life, inputVars, hangup, priority, broken, sleepVars,
                   turnVars>>

\* The item of the work queue goes when EstablishNewConnections returns.
Accept(c) ==
    /\ Idle("accept") /\ broken = {}
    /\ life[c] = "knocking"
    /\ life' = [life EXCEPT ![c] = "new"]
    /\ masks' = Connect(masks, c)
    /\ workQueue' = Tail(workQueue)
    /\ pc' = "wait"
    /\ UNCHANGED <<grabVars, inputVars, hangup, priority, broken, asleep, delayed,
                   ready, cur, closing>>

\* Mutant: clients of the same priority are not batched together.
Highest_First(S) == IF S = {} THEN {} ELSE {CHOOSE c \in S : \A d \in S : priority[d] <= priority[c]}

\* The strict priorities of SYNC: a round is for the highest one only.  The
\* descriptors are in one word of clientsReadable: highest_priority is declared
\* inside the loop over the words, and not set again for the next one.
Highest(S) == {c \in S : \A d \in S : priority[d] <= priority[c]}

\* With the smart scheduler off, buffered requests keep it out of select().
EnterSelect ==
    /\ Idle("wait") /\ workQueue = <<>>
    /\ IF ~Smart /\ masks.input # {}
       THEN ready' = Highest(masks.input) /\ pc' = "round"
       ELSE ready' = {} /\ pc' = "select"
    /\ UNCHANGED <<masks, grabVars, life, inputVars, hangup, priority, broken, sleepVars,
                   cur, closing>>

\* The font server answers: its wakeup handler calls ClientSignal.
FontAnswer(c) ==
    /\ Idle("select")
    /\ c \in asleep /\ \A i \in 1 .. Len(workQueue) : workQueue[i] # c
    /\ workQueue' = Append(workQueue, c)
    /\ UNCHANGED <<masks, grabVars, life, inputVars, hangup, priority, broken, asleep,
                   delayed, turnVars, closing>>

\* The block or the wakeup handler of sleepuntil.c finds a time has come.
DelayExpires(c) ==
    /\ Idle("select")
    /\ c \in delayed
    /\ delayed' = delayed \ {c}
    /\ masks' = Attend(masks, c)
    /\ UNCHANGED <<grabVars, life, inputVars, hangup, priority, broken, asleep, workQueue,
                   turnVars, closing>>

Readable == {c \in masks.all : sock[c] > 0 \/ c \in hangup}
Knocking == {c \in Clients : life[c] = "knocking"}

\* A descriptor closed by a failed write makes select() fail with EBADF.
Watched == IF Smart THEN masks.all \ masks.input ELSE masks.all

\* What select() leaves in clientsReadable.  With the smart scheduler the
\* clients with input buffered are added; alone, they are taken as they are.
Heard ==
    IF ~Smart THEN {Readable}
    ELSE {(Readable \cup masks.input) \cap masks.all}
         \cup (IF Readable \subseteq masks.input /\ Knocking = {}
               THEN {masks.input} ELSE {})

\* A delay may have brought input back since the loop began: once more then.
SelectReturns ==
    /\ Idle("select")
    /\ broken \cap Watched = {}
    /\ \E heard \in Heard :
        /\ heard \cup Knocking \cup masks.input # {} \/ workQueue # <<>>
        /\ IF heard = {} THEN ready' = {} /\ pc' = "wait"
           ELSE /\ pc' = "round"
                /\ IF Smart THEN \E c \in Highest(heard) : ready' = {c}
                   ELSE ready' = Highest(heard)
    /\ workQueue' = IF Knocking = {} THEN workQueue ELSE Append(workQueue, 0)
    /\ UNCHANGED <<masks, grabVars, life, inputVars, hangup, priority, broken, asleep,
                   delayed, cur, closing>>

SelectFails ==
    /\ Idle("select")
    /\ broken \cap Watched # {}
    /\ pc' = "check"
    /\ UNCHANGED <<masks, grabVars, life, inputVars, hangup, priority, broken, sleepVars,
                   ready, cur, closing>>

CheckConnections ==
    /\ Idle("check")
    /\ \/ \E c \in broken \cap masks.all : closing' = <<c>> /\ pc' = pc
       \/ broken \cap masks.all = {} /\ pc' = "wait" /\ UNCHANGED closing
    /\ UNCHANGED <<masks, grabVars, life, inputVars, hangup, priority, broken, sleepVars,
                   ready, cur>>

-----------------------------------------------------------------------------
(* Dispatch: the rounds.                                                   *)

\* Mutant: the rest of the round is served after a grab.
NextTurn_NoKickout ==
    /\ Idle("round")
    /\ \E c \in ready :
        /\ ready' = ready \ {c}
        /\ IF c \in Alive THEN cur' = c /\ pc' = "run" ELSE UNCHANGED <<cur, pc>>
    /\ UNCHANGED <<masks, grabVars, life, inputVars, hangup, priority, broken, sleepVars,
                   closing>>

\* A closed client is skipped; a fresh grab ends the round.  requestingClient,
\* which is reset after every turn, is cur no longer than the round.
NextTurn ==
    /\ Idle("round")
    /\ \E c \in ready :
        IF c \notin Alive THEN ready' = ready \ {c} /\ UNCHANGED <<cur, pc, grabState>>
        ELSE IF grabState = "kickout"
        THEN ready' = {} /\ grabState' = "active" /\ pc' = "wait" /\ cur' = 0
        ELSE ready' = ready \ {c} /\ cur' = c /\ pc' = "run" /\ UNCHANGED grabState
    /\ UNCHANGED <<masks, grabClient, grabWaiters, life, inputVars, hangup, priority, broken,
                   sleepVars, closing>>

EndRound ==
    /\ Idle("round") /\ ready = {}
    /\ pc' = "wait" /\ cur' = 0
    /\ UNCHANGED <<masks, grabVars, life, inputVars, hangup, priority, broken, sleepVars,
                   ready, closing>>

-----------------------------------------------------------------------------
(* ReadRequestFromClient and the handlers, in the turn of cur.             *)

\* The requests at hand: a read is made only when the buffer is empty.
AtHand == IF buf[cur] > 0 THEN buf[cur]
          ELSE IF cur \in broken THEN 0 ELSE sock[cur]

\* Nothing to read: end of file or a closed descriptor ends the client.
ReadNothing ==
    /\ Idle("run") /\ AtHand = 0
    /\ pc' = "round"
    /\ IF cur \in hangup
       THEN closing' = <<cur>> /\ UNCHANGED masks
       ELSE masks' = SetInput(masks, cur, FALSE) /\ UNCHANGED closing
    /\ UNCHANGED <<grabVars, life, inputVars, hangup, priority, broken, sleepVars, ready, cur>>

\* A request of cur that asks op is read.
Reads(op) ==
    /\ Idle("run") /\ AtHand > 0
    /\ CASE retry[cur] = "grab" -> op = "grab"
         [] retry[cur] = "delayed" -> op = "noop"
         [] retry[cur] = "fresh" /\ life[cur] = "new" -> op = "setup"
         [] OTHER -> op \in Ops[cur]
    /\ sock' = IF buf[cur] > 0 THEN sock ELSE [sock EXCEPT ![cur] = 0]

\* The masks once the request is read and the handler is called.
MasksRead == SetInput(masks, cur, AtHand > 1)

Consume ==
    /\ buf' = [buf EXCEPT ![cur] = AtHand - 1]
    /\ retry' = [retry EXCEPT ![cur] = "fresh"]

PutBack(why) ==
    /\ buf' = [buf EXCEPT ![cur] = AtHand]
    /\ retry' = [retry EXCEPT ![cur] = why]

\* A slice may run out after any request; without slices, an emptied buffer
\* ends the turn.
Proceed(yields) ==
    \/ pc' = "round"
    \/ ~yields /\ (Smart \/ AtHand > 1) /\ cur \notin broken /\ pc' = "run"

\* What follows a handler that returns client->noClientException.
Return(yields) ==
    /\ Proceed(yields)
    /\ closing' = IF cur \in broken THEN <<cur>> ELSE <<>>

Noop ==
    /\ Reads("noop") /\ Consume /\ Return(FALSE)
    /\ masks' = MasksRead
    /\ UNCHANGED <<grabVars, life, hangup, priority, broken, sleepVars, ready, cur>>

\* The connection is accepted, has more to say to be authorized, or is refused.
Setup ==
    /\ Reads("setup") /\ Consume
    /\ \/ life' = [life EXCEPT ![cur] = "running"] /\ Return(FALSE)
       \/ life' = life /\ Return(FALSE)
       \/ life' = life /\ pc' = "round" /\ closing' = <<cur>>
    /\ masks' = MasksRead
    /\ UNCHANGED <<grabVars, hangup, priority, broken, sleepVars, ready, cur>>

MayGrab == grabState = "none" \/ grabClient = cur

GrabServer ==
    /\ Reads("grab") /\ MayGrab /\ Consume /\ Return(FALSE)
    /\ masks' = OnlyListenTo(MasksRead, cur)
    /\ grabState' = "kickout" /\ grabClient' = cur
    /\ UNCHANGED <<grabWaiters, life, hangup, priority, broken, sleepVars, ready, cur>>

\* The request is put back and the client ignored until it is woken.
WaitForGrab ==
    /\ Reads("grab") /\ ~MayGrab /\ PutBack("grab") /\ Return(TRUE)
    /\ masks' = Ignore(Reset(MasksRead, cur), cur)
    /\ grabWaiters' = grabWaiters \cup {cur}
    /\ UNCHANGED <<grabState, grabClient, life, hangup, priority, broken, sleepVars, ready, cur>>

\* Whoever asks, the server is released and one waiter attended.
UngrabServer ==
    /\ Reads("ungrab") /\ Consume /\ Return(FALSE)
    /\ masks' = Ungrabbed(MasksRead)
    /\ grabWaiters' = StillWaiting
    /\ grabState' = "none"
    /\ UNCHANGED <<grabClient, life, hangup, priority, broken, sleepVars, ready, cur>>

\* The font is at a font server: doOpenFont is suspended.
OpenFont ==
    /\ Reads("open") /\ Consume /\ Return(TRUE)
    /\ masks' = Ignore(MasksRead, cur)
    /\ asleep' = asleep \cup {cur}
    /\ UNCHANGED <<grabVars, life, hangup, priority, broken, delayed, workQueue, ready, cur>>

\* A fake input with a delay: put back, to be executed when its time comes.
DelayInput ==
    /\ Reads("delay") /\ PutBack("delayed") /\ Proceed(TRUE)
    /\ masks' = Reset(Ignore(MasksRead, cur), cur)
    /\ delayed' = delayed \cup {cur}
    /\ closing' = <<>>
    /\ UNCHANGED <<grabVars, life, hangup, priority, broken, asleep, workQueue, ready, cur>>

\* The clients past their setup, whose resources a request may name.
Running == {c \in Clients : life[c] = "running"}

KillClient ==
    /\ Reads("kill") /\ Consume
    /\ \E victim \in Running :
        /\ Proceed(victim = cur)
        /\ closing' = IF cur \in broken /\ victim # cur /\ (Smart \/ AtHand > 1)
                      THEN <<victim, cur>> ELSE <<victim>>
    /\ masks' = MasksRead
    /\ UNCHANGED <<grabVars, life, hangup, priority, broken, sleepVars, ready, cur>>

GrabControl ==
    /\ \/ /\ Reads("impervious") /\ Consume /\ Return(FALSE)
          /\ masks' = MakeImpervious(MasksRead, cur)
       \/ /\ Reads("pervious") /\ Consume /\ Return(masks.grab \notin {0, cur})
          /\ masks' = MakePervious(MasksRead, cur)
    /\ UNCHANGED <<grabVars, life, hangup, priority, broken, sleepVars, ready, cur>>

\* ProcSyncSetPriority: a change ends the turn, and the round with it.  It
\* returns Success, whatever has become of the connection.
SetPriority ==
    /\ Reads("priority") /\ Consume
    /\ \E c \in Running, p \in Priorities :
        /\ priority' = [priority EXCEPT ![c] = p]
        /\ \/ p # priority[c] /\ pc' = "round" /\ ready' = {}
           \/ /\ p = priority[c] /\ ready' = ready
              /\ pc' \in IF Smart \/ AtHand > 1 THEN {"round", "run"} ELSE {"round"}
    /\ masks' = MasksRead
    /\ UNCHANGED <<grabVars, life, hangup, broken, sleepVars, cur, closing>>

-----------------------------------------------------------------------------
Outside == \E c \in Clients : Knock(c) \/ Send(c) \/ HangUp(c) \/ WriteFails(c)

Answers == \E c \in Clients : FontAnswer(c) \/ DelayExpires(c)

Waiting == \/ FontOpened \/ StartAccept \/ EnterSelect
           \/ \E c \in Clients : KillStraggler(c) \/ Accept(c)
           \/ SelectReturns \/ SelectFails \/ CheckConnections

Serving == \/ NextTurn \/ EndRound \/ ReadNothing
           \/ Noop \/ Setup \/ GrabServer \/ WaitForGrab \/ UngrabServer
           \/ OpenFont \/ DelayInput \/ KillClient \/ GrabControl
           \/ SetPriority

Server == CloseDownClient \/ Waiting \/ Serving

Next == Outside \/ Answers \/ Server

Spec == Init /\ [][Next]_vars

\* The server never stops.  A font server answers in the end, and a time
\* that has come is seen by the next block handler: SF, because only select()
\* offers the occasion.
FontComes(c) == FontOpened /\ c \in asleep /\ c \notin asleep'

FairSpec == /\ Spec
            /\ WF_vars(Server)
            /\ \A c \in Clients : /\ SF_vars(FontAnswer(c)) /\ SF_vars(FontComes(c))
                                  /\ SF_vars(DelayExpires(c))

-----------------------------------------------------------------------------
(* Safety.                                                                 *)

\* The two parts of the server that know of a grab, dispatch.c and
\* connection.c, agree on it, and its holder is connected.
GrabAgrees ==
    /\ masks.grab = IF grabState = "none" THEN 0 ELSE grabClient
    /\ grabState # "none" => grabClient \in Alive

\* While one client holds the server, a turn is given only to it and to
\* impervious clients, even when others were chosen before it grabbed.
GrabExcludes ==
    pc = "run" /\ grabState # "none" => cur = grabClient \/ cur \in masks.impervious

\* The same seen from the masks: during a grab, what WaitForSomething may
\* choose is impervious or the holder, and so is what is left of a round.
HeldMasks == masks.grab # 0 =>
    (masks.all \cup masks.input) \subseteq masks.impervious \cup {masks.grab}

HeldRound == pc = "round" \/ pc = "run" =>
    (grabState = "active" => ready \cap Alive \subseteq masks.impervious \cup {grabClient})

\* The client whose turn it is is connected and not about to be closed.
TurnOpen == pc = "run" =>
    cur \in Alive \ ready /\ \A i \in 1 .. Len(closing) : closing[i] # cur

\* GrabAgrees and GrabExcludes, made inductive.
GrabInv == GrabAgrees /\ GrabExcludes /\ HeldMasks /\ HeldRound /\ TurnOpen

\* A client put aside (asleep, delayed or waiting for a grab) is in neither
\* mask that WaitForSomething chooses from: what select() watches, and what
\* has input in its buffer.
AsideIgnored == SetAside \cap (masks.all \cup masks.input) = {}

\* A connected client not put aside is listened to, or will be when the
\* grab ends.
OthersHeard ==
    \A c \in Alive \ SetAside :
        c \in masks.all \/ (masks.grab # 0 /\ c \in masks.savedAll)

\* A request already read into the buffer, which select() cannot see, is
\* recorded in the mask that will bring its client back.
BufferedKnown ==
    \A c \in Alive : buf[c] > 0 =>
        c \in IF c \in SetAside THEN masks.ignored
              ELSE IF c \in masks.all THEN masks.input ELSE masks.savedInput

\* Clients wait for a grab only while somebody holds it or a client woken
\* for it is about to ask again.
WaitersHaveHope ==
    grabWaiters # {} => \/ grabState # "none"
                        \/ \E c \in Alive \ grabWaiters : retry[c] = "grab"

\* Nothing is kept of a client whose connection closed: no mask it could be
\* chosen from, now or at the end of the grab, no exemption its successor would
\* inherit, no queued work; and what is left of its round is gone before its
\* number is given again.  IgnoredClientsWithInput keeps its bit, which
\* IgnoreClient overwrites before AttendClient reads it.
ClosedForgotten ==
    LET saved == IF masks.grab = 0 THEN {} ELSE masks.savedAll \cup masks.savedInput
        kept == masks.all \cup masks.input \cup masks.impervious \cup saved \cup SetAside
                \cup {workQueue[i] : i \in 1 .. Len(workQueue)}
    IN  /\ kept \subseteq Alive \cup {0}
        /\ pc = "accept" => ready = {}

\* The function of a sleeping client completes once: it is not on the work
\* queue already when the closing of the client queues and runs it.
CompletedOnce ==
    [][closing # <<>> /\ Head(closing) \in asleep \ asleep' =>
        \A i \in 1 .. Len(workQueue) : workQueue[i] # Head(closing)]_vars

\* A grab ends only by a request of its holder or by the holder's closing.
OnlyHolderReleases ==
    [][grabState # "none" /\ grabState' = "none" =>
        \/ pc = "run" /\ closing = <<>> /\ cur = grabClient
        \/ closing # <<>> /\ Head(closing) = grabClient]_vars

\* While one client holds the server, accepting a new connection closes no
\* client the grab shuts out.
GrabStopsCloseDowns ==
    [][closing # <<>> /\ pc = "accept" /\ grabState # "none" /\ closing' # closing =>
        Head(closing) \in {grabClient} \cup masks.impervious]_vars

-----------------------------------------------------------------------------
(* Liveness.                                                               *)

\* A client with a request to read gets its turn, or its connection closes,
\* whatever it slept on or was put away by.
GetsTurn(c) ==
    []<>(c \notin Alive \/ buf[c] + sock[c] = 0 \/ (pc = "run" /\ cur = c))

\* No client that is connected has a higher priority.
FirstClass(c) == \A d \in Alive : priority[d] <= priority[c]

\* No exempt client is awake in a grab that it slept into: were it to give its
\* exemption up there, no mask would keep it.
ExemptSaved == masks.grab # 0 =>
    (masks.impervious \ SetAside) \subseteq masks.savedAll \cup {masks.grab}

\* Once the server is grabbed no more, every client gets its turns from when
\* none has a higher priority than it, also one that waited for the grab of a
\* holder that released it, died, or grabbed again.  Two cases are left out
\* that the code gets wrong: a second waiter, whom nobody wakes when the first
\* one dies, and ExemptSaved.
AllGetTurns ==
    /\ <>[](grabState = "none")
    /\ [](Cardinality(grabWaiters) <= 1) /\ []ExemptSaved
    => \A c \in Clients : <>[]FirstClass(c) => GetsTurn(c)

\* Every client does, also one that gives its exemption up while another
\* client has grabbed the server: the header of os/connection.c says what the
\* masks are saved for.
ExemptGetTurnsToo ==
    <>[](grabState = "none") => \A c \in Clients : GetsTurn(c)

-----------------------------------------------------------------------------
(* What the loop implements.                                               *)

Promise == INSTANCE ServerGrab WITH
    connected <- Alive,
    exempt <- masks.impervious,
    late <- broken \cup {c \in Clients : life[c] = "new"},
    holder <- IF grabState = "none" THEN 0 ELSE grabClient,
    turn <- IF pc = "run" \/ (pc = "round" /\ closing # <<>>) THEN cur ELSE 0

\* The loop implements the promise of ServerGrab to the protocol's clients: a
\* client that a grab shuts out is neither served nor, unless the server may
\* cut it off, closed but in the turn of one that is not shut out.
KeepsPromise == Promise!Spec
=============================================================================
