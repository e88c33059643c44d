------------------------ MODULE ClientDispatchProofs ------------------------
(***************************************************************************)
(* Proofs about ClientDispatch, for every set of clients, of exempt ones   *)
(* and of requests, both schedulers and every backlog.                     *)
(*                                                                         *)
(*  1. The grab.  The lemmas say what each function of InputMasks does to  *)
(*     the three things the grab depends on: who holds it, who is exempt,  *)
(*     and that only those can be chosen.  The steps use these facts and   *)
(*     never open a mask again.                                            *)
(*  2. What is remembered of a client: types, and that everything goes     *)
(*     when its connection closes.                                         *)
(*  3. With no client exempt from grabs: who sleeps is not listened to,    *)
(*     who does not is, no buffered request is forgotten, and the server   *)
(*     keeps the promise of ServerGrab.                                    *)
(***************************************************************************)
EXTENDS ClientDispatch, TLAPS, SequenceTheorems, NaturalsInduction, WellFoundedInduction

-----------------------------------------------------------------------------
(* The functions of InputMasks.                                            *)

\* m has the fields of Masks.
Shape(m) == m = [all |-> m.all, input |-> m.input, savedAll |-> m.savedAll,
                 savedInput |-> m.savedInput, ignored |-> m.ignored,
                 impervious |-> m.impervious, grab |-> m.grab]

Held(m) == m.grab # 0 => (m.all \cup m.input) \subseteq m.impervious \cup {m.grab}

Good(m) == Shape(m) /\ Held(m)

\* n is well formed and says the same as m of who holds and who is exempt.
SameGrab(m, n) == Good(n) /\ n.grab = m.grab /\ n.impervious = m.impervious

\* c may be chosen: nobody holds the server, or c does, or c is exempt.
May(m, c) == m.grab \in {0, c} \/ c \in m.impervious

\* The functions that move one client between the masks change neither the holder
\* nor the exempt.
LEMMA SetInputSame ==
    ASSUME NEW m, NEW c, NEW more, Good(m), May(m, c)
    PROVE  SameGrab(m, SetInput(m, c, more))
BY DEF SetInput, Put, SameGrab, Good, Shape, Held, May

LEMMA IgnoreSame ==
    ASSUME NEW m, NEW c, Good(m)
    PROVE  SameGrab(m, Ignore(m, c))
BY DEF Ignore, Put, SameGrab, Good, Shape, Held

LEMMA AttendSame ==
    ASSUME NEW m, NEW c, Good(m)
    PROVE  SameGrab(m, Attend(m, c))
BY DEF Attend, Put, SameGrab, Good, Shape, Held

LEMMA ResetSame ==
    ASSUME NEW m, NEW c, Good(m), May(m, c)
    PROVE  SameGrab(m, Reset(m, c))
BY DEF Reset, SameGrab, Good, Shape, Held, May

LEMMA ConnectSame ==
    ASSUME NEW m, NEW c, Good(m)
    PROVE  SameGrab(m, Connect(m, c))
BY DEF Connect, SameGrab, Good, Shape, Held

\* OnlyListenToOneClient makes c the holder,
LEMMA OnlyListenToGrabs ==
    ASSUME NEW m, NEW c, Good(m), c # 0, m.grab \in {0, c}
    PROVE  LET n == OnlyListenTo(m, c)
           IN  Good(n) /\ n.grab = c /\ n.impervious = m.impervious
BY DEF OnlyListenTo, Good, Shape, Held

\* ListenToAllClients gives the server back,
LEMMA ListenToAllFrees ==
    ASSUME NEW m, Good(m)
    PROVE  LET n == ListenToAll(m)
           IN  Good(n) /\ n.grab = 0 /\ n.impervious = m.impervious
BY DEF ListenToAll, Good, Shape, Held

\* and UngrabServer does whomever it wakes.
LEMMA UngrabbedFrees ==
    ASSUME NEW m, Good(m)
    PROVE  LET n == Ungrabbed(m)
           IN  Good(n) /\ n.grab = 0 /\ n.impervious = m.impervious
<1> DEFINE l == ListenToAll(m)
<1>1. Good(l) /\ l.grab = 0 /\ l.impervious = m.impervious
    BY ListenToAllFrees
<1>2. SameGrab(l, Attend(l, FirstWaiter))
    BY <1>1, AttendSame
<1> QED
    BY <1>1, <1>2 DEF Ungrabbed, SameGrab

\* Exempting a client and taking that back change the exempt by that client only.
LEMMA MakeImperviousAdds ==
    ASSUME NEW m, NEW c, Good(m)
    PROVE  LET n == MakeImpervious(m, c)
           IN  Good(n) /\ n.grab = m.grab /\ n.impervious = m.impervious \cup {c}
BY DEF MakeImpervious, Good, Shape, Held

LEMMA MakePerviousRemoves ==
    ASSUME NEW m, NEW c, Good(m)
    PROVE  LET n == MakePervious(m, c)
           IN  Good(n) /\ n.grab = m.grab /\ n.impervious = m.impervious \ {c}
BY DEF MakePervious, Put, Good, Shape, Held

\* A closed descriptor is forgotten by the set of exempt clients, when it does
\* not hold the server.
LEMMA CloseFdRemoves ==
    ASSUME NEW m, NEW c, Good(m), c # 0, m.grab # c
    PROVE  LET n == CloseFd(m, c)
           IN  Good(n) /\ n.grab = m.grab /\ n.impervious = m.impervious \ {c}
BY ZenonT(60) DEF CloseFd, Good, Shape, Held

-----------------------------------------------------------------------------
(* The grab invariant.                                                     *)

\* What the steps need to know of types.  Which clients the other masks hold
\* is of no concern, nor is the order of the work queue.
GrabTypes ==
    /\ grabState \in {"none", "active", "kickout"}
    /\ grabClient \in Clients \cup {0}
    /\ life \in [Clients -> {"absent", "knocking", "new", "running"}]
    /\ broken \subseteq Clients
    /\ closing \in Seq(Clients)
    /\ Shape(masks)

IInv == GrabTypes /\ GrabInv

\* The invariant makes the masks good ones,
LEMMA GoodMasks ==
    ASSUME IInv
    PROVE  Good(masks)
BY DEF IInv, GrabTypes, GrabInv, HeldMasks, Good, Held

\* In its turn a client may be listened to.
LEMMA CurMay ==
    ASSUME IInv, pc = "run"
    PROVE  May(masks, cur) /\ cur \in Alive /\ cur \in Clients /\ cur # 0
<1>1. cur \in Alive /\ cur \in Clients /\ cur # 0
    BY ClientsAssumption DEF IInv, GrabInv, TurnOpen, Alive
<1>2. May(masks, cur)
    BY DEF IInv, GrabInv, GrabAgrees, GrabExcludes, May
<1> QED
    BY <1>1, <1>2

\* and reading a request does not touch the grab.
LEMMA ReadGood ==
    ASSUME IInv, Idle("run")
    PROVE  SameGrab(masks, MasksRead)
BY GoodMasks, CurMay, SetInputSame DEF MasksRead, Idle

\* A step that leaves the grab, its holder and the exempt alone, closes no
\* client, and starts no turn and no round, keeps the invariant; it may end
\* a round.
LEMMA QuietStep ==
    ASSUME IInv,
           SameGrab(masks, masks'),
           UNCHANGED <<grabState, grabClient>>,
           ready' \subseteq ready,
           pc' = "run" => cur' = cur,
           life' \in [Clients -> {"absent", "knocking", "new", "running"}],
           Alive \subseteq Alive',
           pc = "run" \/ pc = "round" => Alive' = Alive,
           broken' \subseteq Clients,
           closing' \in Seq(Clients),
           pc' = "run" => pc = "run" /\ \A i \in 1 .. Len(closing') : closing'[i] # cur,
           pc' = "round" => pc \in {"run", "round"}
    PROVE  IInv'
<1>1. GrabTypes'
    BY DEF IInv, GrabTypes, SameGrab, Good
<1>2. GrabAgrees'
    BY DEF IInv, GrabInv, GrabAgrees, SameGrab
<1>3. GrabExcludes'
    BY DEF IInv, GrabInv, GrabExcludes, SameGrab
<1>4. HeldMasks'
    BY DEF HeldMasks, SameGrab, Good, Held
<1>5. HeldRound'
    BY DEF IInv, GrabInv, HeldRound, SameGrab
<1>6. TurnOpen'
    BY DEF IInv, GrabInv, TurnOpen
<1> QED
    BY <1>1, <1>2, <1>3, <1>4, <1>5, <1>6 DEF IInv, GrabInv

LEMMA InitInv == Init => IInv
<1> SUFFICES ASSUME Init PROVE IInv
    OBVIOUS
<1>1. GrabTypes
    BY DEF Init, GrabTypes, Listening, Shape
<1>2. GrabInv
    BY DEF Init, GrabInv, GrabAgrees, GrabExcludes, HeldMasks, HeldRound, TurnOpen, Listening
<1> QED
    BY <1>1, <1>2 DEF IInv


\* What Return leaves: the turn goes on only for a client not to be closed.
LEMMA ReturnOK ==
    ASSUME IInv, Idle("run"), NEW yields, Return(yields)
    PROVE  /\ closing' \in Seq(Clients)
           /\ pc' \in {"run", "round"}
           /\ pc' = "run" => closing' = <<>>
<1>1. cur \in Clients
    BY CurMay DEF Idle
<1> QED
    BY <1>1 DEF Return, Proceed

\* The clients and their sockets do nothing to the server's own state.
LEMMA OutsideKeeps ==
    ASSUME IInv, Outside
    PROVE  IInv'
<1>1. SameGrab(masks, masks)
    BY GoodMasks DEF SameGrab
<1>2. PICK c \in Clients : Knock(c) \/ Send(c) \/ HangUp(c) \/ WriteFails(c)
    BY DEF Outside
<1>3. UNCHANGED <<masks, grabState, grabClient, ready, cur, pc, closing>>
    BY <1>2 DEF Knock, Send, HangUp, WriteFails, grabVars, turnVars
<1>4. /\ life' \in [Clients -> {"absent", "knocking", "new", "running"}]
      /\ Alive' = Alive
  <2>1. life' = life \/ (life[c] = "absent" /\ life' = [life EXCEPT ![c] = "knocking"])
    BY <1>2 DEF Knock, Send, HangUp, WriteFails
  <2> QED
    BY <2>1 DEF IInv, GrabTypes, Alive
<1>5. broken' \subseteq Clients
    BY <1>2 DEF IInv, GrabTypes, Knock, Send, HangUp, WriteFails
<1>6. closing' \in Seq(Clients) /\ (pc = "run" => \A i \in 1 .. Len(closing) : closing[i] # cur)
    BY <1>3 DEF IInv, GrabTypes, GrabInv, TurnOpen
<1> QED
    BY <1>1, <1>3, <1>4, <1>5, <1>6, QuietStep

\* Waking a client, accepting one, and the failures of select().
LEMMA WakingKeeps ==
    ASSUME IInv,
           \/ Answers \/ FontOpened \/ StartAccept \/ SelectFails \/ CheckConnections
           \/ \E c \in Clients : KillStraggler(c) \/ Accept(c)
    PROVE  IInv'
<1> USE DEF turnVars, grabVars, Idle, sleepVars
<1>1. SameGrab(masks, masks')
  <2>1. \/ masks' = masks
        \/ \E c : masks' = Attend(masks, c) \/ masks' = Connect(masks, c)
    BY DEF Answers, FontAnswer, DelayExpires, FontOpened, StartAccept, SelectFails,
           CheckConnections, KillStraggler, Accept
  <2> QED
    BY <2>1, GoodMasks, AttendSame, ConnectSame DEF SameGrab
<1>2. /\ UNCHANGED <<grabState, grabClient, ready, cur, broken>>
      /\ pc \in {"wait", "accept", "select", "check"}
      /\ pc' \in {"wait", "accept", "select", "check"}
    BY DEF Answers, FontAnswer, DelayExpires, FontOpened, StartAccept, SelectFails,
           CheckConnections, KillStraggler, Accept
<1>3. /\ life' \in [Clients -> {"absent", "knocking", "new", "running"}]
      /\ Alive \subseteq Alive'
  <2>1. life' = life \/ \E c \in Clients : life' = [life EXCEPT ![c] = "new"]
    BY DEF Answers, FontAnswer, DelayExpires, FontOpened, StartAccept, SelectFails,
           CheckConnections, KillStraggler, Accept
  <2> QED
    BY <2>1 DEF IInv, GrabTypes, Alive
<1>4. closing' \in Seq(Clients)
  <2>1. closing' = closing \/ \E c \in Clients : closing' = <<c>>
    BY DEF IInv, GrabTypes, Answers, FontAnswer, DelayExpires, FontOpened, StartAccept,
           SelectFails, CheckConnections, KillStraggler, Accept
  <2>2. ASSUME NEW c \in Clients PROVE <<c>> \in Seq(Clients)
    OBVIOUS
  <2>3. closing \in Seq(Clients)
    BY DEF IInv, GrabTypes
  <2> QED
    BY <2>1, <2>2, <2>3
<1>5. broken' \subseteq Clients
    BY <1>2 DEF IInv, GrabTypes
<1> QED
    BY <1>1, <1>2, <1>3, <1>4, <1>5, QuietStep

\* The requests that leave the grab alone, a read that finds nothing, and
\* the end of a round.
LEMMA ServingKeeps ==
    ASSUME IInv,
           \/ EndRound \/ ReadNothing \/ Noop \/ Setup \/ WaitForGrab
           \/ OpenFont \/ DelayInput \/ KillClient \/ SetPriority
    PROVE  IInv'
<1> USE DEF turnVars, grabVars, Idle, sleepVars
<1>1. CASE EndRound
  <2>1. SameGrab(masks, masks')
    BY <1>1, GoodMasks DEF EndRound, SameGrab
  <2> QED
    BY <1>1, <2>1, QuietStep DEF EndRound, IInv, GrabTypes, Alive
<1>2. CASE ReadNothing
  <2>1. pc = "run" /\ pc' = "round"
    BY <1>2 DEF ReadNothing
  <2>2. May(masks, cur) /\ cur \in Clients
    BY <2>1, CurMay
  <2>3. masks' \in {masks, SetInput(masks, cur, FALSE)} /\ closing' \in {closing, <<cur>>}
    BY <1>2 DEF ReadNothing
  <2>4. SameGrab(masks, masks')
    <3>1. Good(masks)
      BY GoodMasks
    <3>2. SameGrab(masks, SetInput(masks, cur, FALSE))
      BY <2>2, <3>1, SetInputSame, Zenon
    <3> QED
      BY <2>3, <3>1, <3>2 DEF SameGrab
  <2>5. closing' \in Seq(Clients)
    <3>1. <<cur>> \in Seq(Clients)
      BY <2>2
    <3>2. closing \in Seq(Clients)
      BY DEF IInv, GrabTypes
    <3> QED
      BY <2>3, <3>1, <3>2
  <2>6. UNCHANGED <<grabState, grabClient, ready, cur, life, broken>>
    BY <1>2 DEF ReadNothing
  <2> QED
    BY <2>1, <2>4, <2>5, <2>6, QuietStep DEF IInv, GrabTypes, Alive
<1>3. CASE Noop \/ WaitForGrab \/ OpenFont \/ Setup
  <2>1. Idle("run") /\ ((\E yields : Return(yields)) \/ (pc' = "round" /\ closing' = <<cur>>))
    BY <1>3 DEF Noop, WaitForGrab, OpenFont, Setup, Reads
  <2>2. May(masks, cur) /\ cur \in Alive /\ cur \in Clients
    BY <2>1, CurMay
  <2>3. SameGrab(masks, MasksRead)
    BY <2>1, ReadGood
  <2>4. SameGrab(MasksRead, Reset(MasksRead, cur))
    BY <2>2, <2>3, ResetSame DEF SameGrab, May
  <2>5. SameGrab(masks, masks')
    BY <1>3, <2>3, <2>4, IgnoreSame, ZenonT(60) DEF SameGrab, Noop, WaitForGrab, OpenFont, Setup
  <2>6. /\ life' \in [Clients -> {"absent", "knocking", "new", "running"}]
        /\ Alive' = Alive
    BY <1>3, <2>2 DEF IInv, GrabTypes, Alive, Noop, WaitForGrab, OpenFont, Setup
  <2>7. UNCHANGED <<grabState, grabClient, ready, cur, broken>>
    BY <1>3 DEF Noop, WaitForGrab, OpenFont, Setup
  <2>8. /\ closing' \in Seq(Clients)
        /\ pc' \in {"run", "round"}
        /\ pc' = "run" => closing' = <<>>
    <3>1. <<cur>> \in Seq(Clients)
      BY <2>2
    <3> QED
      BY <2>1, <3>1, ReturnOK
  <2> QED
    BY <2>1, <2>5, <2>6, <2>7, <2>8, QuietStep DEF IInv, GrabTypes
<1>4. CASE DelayInput
  <2>1. Idle("run")
    BY <1>4 DEF DelayInput, Reads
  <2>2. May(masks, cur)
    BY <2>1, CurMay
  <2>3. SameGrab(masks, MasksRead)
    BY <2>1, ReadGood
  <2>4. SameGrab(MasksRead, Ignore(MasksRead, cur))
    BY <2>3, IgnoreSame DEF SameGrab
  <2>5. SameGrab(masks, masks')
    BY <1>4, <2>2, <2>3, <2>4, ResetSame DEF SameGrab, May, DelayInput
  <2> QED
    BY <1>4, <2>1, <2>5, QuietStep DEF DelayInput, Proceed, IInv, GrabTypes, Alive
<1>5. CASE KillClient
  <2>1. Idle("run")
    BY <1>5 DEF KillClient, Reads
  <2>2. cur \in Clients
    BY <2>1, CurMay
  <2>3. SameGrab(masks, masks')
    BY <1>5, <2>1, ReadGood DEF KillClient, SameGrab
  <2>4. PICK victim \in Running :
            /\ Proceed(victim = cur)
            /\ closing' \in {<<victim>>, <<victim, cur>>}
            /\ closing' = <<victim, cur>> => cur \in broken
    BY <1>5 DEF KillClient
  <2>5. closing' \in Seq(Clients) /\ pc' \in {"run", "round"}
    <3>1. victim \in Clients
      BY DEF Running
    <3>2. <<victim>> \in Seq(Clients)
      BY <3>1
    <3>3. <<victim, cur>> \in Seq(Clients)
      BY <2>2, <3>1
    <3>4. pc' \in {"run", "round"}
      BY <2>4 DEF Proceed
    <3> QED
      BY <2>4, <3>2, <3>3, <3>4
  <2>6. pc' = "run" => closing' = <<victim>> /\ victim # cur
    BY <2>4 DEF Proceed
  <2>7. pc' = "run" => \A i \in 1 .. Len(closing') : closing'[i] # cur
    <3> SUFFICES ASSUME pc' = "run", NEW i \in 1 .. Len(closing') PROVE closing'[i] # cur
      OBVIOUS
    <3>1. closing' = <<victim>> /\ victim # cur
      BY <2>6
    <3>2. Len(<<victim>>) = 1 /\ <<victim>>[1] = victim
      OBVIOUS
    <3>3. i = 1
      BY <3>1, <3>2
    <3> QED
      BY <3>1, <3>2, <3>3
  <2>8. UNCHANGED <<grabState, grabClient, ready, cur, life, broken>>
    BY <1>5 DEF KillClient
  <2> QED
    BY <2>1, <2>3, <2>5, <2>7, <2>8, QuietStep DEF IInv, GrabTypes, Alive
<1>6. CASE SetPriority
  <2>1. Idle("run") /\ pc' \in {"run", "round"}
    BY <1>6 DEF SetPriority, Reads
  <2>2. SameGrab(masks, masks')
    BY <1>6, <2>1, ReadGood DEF SetPriority, SameGrab
  <2>3. UNCHANGED <<grabState, grabClient, life, broken, cur, closing>> /\ ready' \in {{}, ready}
    BY <1>6 DEF SetPriority
  <2> QED
    BY <2>1, <2>2, <2>3, QuietStep DEF IInv, GrabTypes, Alive
<1> QED
    BY <1>1, <1>2, <1>3, <1>4, <1>5, <1>6

\* A round starts with clients the masks offer, so with the holder and the
\* exempt only, when somebody holds the server.
LEMMA RoundStarts ==
    ASSUME IInv, EnterSelect \/ SelectReturns
    PROVE  IInv'
<1> USE DEF turnVars, grabVars, Idle
<1>1. /\ UNCHANGED <<masks, grabState, grabClient, life, cur, broken, closing>>
      /\ pc' \in {"wait", "select", "round"}
      /\ ready' \subseteq masks.all \cup masks.input
  <2>1. CASE EnterSelect
    BY <2>1 DEF EnterSelect, Highest
  <2>2. CASE SelectReturns
    <3>1. PICK heard \in Heard : ready' \subseteq heard
      BY <2>2 DEF SelectReturns, Highest
    <3>2. heard \subseteq masks.all \cup masks.input
      BY DEF Heard, Readable
    <3> QED
      BY <2>2, <3>1, <3>2 DEF SelectReturns
  <2> QED
    BY <2>1, <2>2
<1>2. HeldRound'
  <2> SUFFICES ASSUME grabState = "active"
               PROVE  (ready' \cap Alive) \subseteq masks.impervious \cup {grabClient}
    BY <1>1 DEF HeldRound, Alive
  <2>1. masks.grab = grabClient /\ grabClient # 0
    BY ClientsAssumption DEF IInv, GrabInv, GrabAgrees, Alive
  <2> QED
    BY <1>1, <2>1 DEF IInv, GrabInv, HeldMasks
<1>3. GrabTypes'
    BY <1>1 DEF IInv, GrabTypes
<1>4. GrabAgrees' /\ GrabExcludes' /\ HeldMasks' /\ TurnOpen'
    BY <1>1 DEF IInv, GrabInv, GrabAgrees, GrabExcludes, HeldMasks, TurnOpen, Alive
<1> QED
    BY <1>2, <1>3, <1>4 DEF IInv, GrabInv

\* The next turn goes to a client of the round, unless the grab is fresh.
LEMMA TurnStarts ==
    ASSUME IInv, NextTurn
    PROVE  IInv'
<1> USE DEF turnVars, grabVars, Idle
<1>1. /\ UNCHANGED <<masks, grabClient, life, broken, closing>>
      /\ pc = "round" /\ closing = <<>>
    BY DEF NextTurn
<1>2. PICK c \in ready :
        \/ /\ c \notin Alive
           /\ ready' = ready \ {c} /\ UNCHANGED <<cur, pc, grabState>>
        \/ /\ grabState = "kickout"
           /\ ready' = {} /\ grabState' = "active" /\ pc' = "wait" /\ cur' = 0
        \/ /\ c \in Alive /\ grabState # "kickout"
           /\ ready' = ready \ {c} /\ cur' = c /\ pc' = "run" /\ UNCHANGED grabState
    BY DEF NextTurn
<1>3. GrabTypes'
    BY <1>1, <1>2 DEF IInv, GrabTypes
<1>4. GrabAgrees' /\ HeldMasks' /\ HeldRound'
    BY <1>1, <1>2 DEF IInv, GrabInv, GrabAgrees, HeldMasks, HeldRound, Alive
<1>5. GrabExcludes'
    BY <1>1, <1>2 DEF IInv, GrabTypes, GrabInv, HeldRound, GrabExcludes, Alive
<1>6. TurnOpen'
    BY <1>1, <1>2 DEF TurnOpen, Alive
<1> QED
    BY <1>3, <1>4, <1>5, <1>6 DEF IInv, GrabInv

\* The requests that change who holds the server or who is exempt.
LEMMA GrabRequestsKeep ==
    ASSUME IInv, GrabServer \/ UngrabServer \/ GrabControl
    PROVE  IInv'
<1> USE DEF turnVars, grabVars, Idle
<1>1. Idle("run") /\ UNCHANGED <<life, broken, ready, cur>> /\ \E yields : Return(yields)
    BY DEF GrabServer, UngrabServer, GrabControl, Reads
<1>2. /\ closing' \in Seq(Clients)
      /\ pc' \in {"run", "round"}
      /\ pc' = "run" => closing' = <<>>
    BY <1>1, ReturnOK
<1>3. May(masks, cur) /\ cur \in Alive /\ cur \in Clients /\ cur # 0 /\ cur \notin ready
    BY <1>1, CurMay DEF IInv, GrabInv, TurnOpen
<1>4. Good(MasksRead) /\ MasksRead.grab = masks.grab /\ MasksRead.impervious = masks.impervious
    BY <1>1, ReadGood DEF SameGrab
<1>5. TurnOpen'
    BY <1>1, <1>2, <1>3 DEF TurnOpen, Alive
<1>6. CASE GrabServer
  <2>1. masks.grab \in {0, cur}
    BY <1>6 DEF GrabServer, MayGrab, IInv, GrabInv, GrabAgrees
  <2>2. Good(masks') /\ masks'.grab = cur /\ masks'.impervious = masks.impervious
    BY <1>3, <1>4, <1>6, <2>1, OnlyListenToGrabs DEF GrabServer
  <2>3. grabState' = "kickout" /\ grabClient' = cur
    BY <1>6 DEF GrabServer
  <2>4. GrabTypes'
    BY <1>1, <1>2, <1>3, <2>2, <2>3 DEF IInv, GrabTypes, Good
  <2>5. GrabAgrees' /\ GrabExcludes' /\ HeldMasks' /\ HeldRound'
    BY <1>1, <1>3, <2>2, <2>3
       DEF GrabAgrees, GrabExcludes, HeldMasks, HeldRound, Good, Held, Alive
  <2> QED
    BY <1>5, <2>4, <2>5 DEF IInv, GrabInv
<1>7. CASE UngrabServer
  <2>1. Good(masks') /\ masks'.grab = 0 /\ masks'.impervious = masks.impervious
    BY <1>4, <1>7, UngrabbedFrees DEF UngrabServer
  <2>2. grabState' = "none" /\ UNCHANGED grabClient
    BY <1>7 DEF UngrabServer
  <2>3. GrabTypes'
    BY <1>1, <1>2, <2>1, <2>2 DEF IInv, GrabTypes, Good
  <2>4. GrabAgrees' /\ GrabExcludes' /\ HeldMasks' /\ HeldRound'
    BY <2>1, <2>2 DEF GrabAgrees, GrabExcludes, HeldMasks, HeldRound
  <2> QED
    BY <1>5, <2>3, <2>4 DEF IInv, GrabInv
<1>8. CASE GrabControl
  <2>1. UNCHANGED <<grabState, grabClient>>
    BY <1>8 DEF GrabControl
  <2>2. \/ masks' = MakeImpervious(MasksRead, cur)
        \/ masks' = MakePervious(MasksRead, cur) /\ (masks.grab \in {0, cur} \/ pc' = "round")
    BY <1>8 DEF GrabControl, Return, Proceed
  <2>3. /\ Good(masks') /\ masks'.grab = masks.grab
        /\ \/ masks'.impervious = masks.impervious \cup {cur}
           \/ /\ masks'.impervious = masks.impervious \ {cur}
              /\ masks.grab \in {0, cur} \/ pc' = "round"
    <3>1. CASE masks' = MakeImpervious(MasksRead, cur)
      BY <1>4, <3>1, MakeImperviousAdds
    <3>2. CASE /\ masks' = MakePervious(MasksRead, cur)
               /\ masks.grab \in {0, cur} \/ pc' = "round"
      BY <1>4, <3>2, MakePerviousRemoves
    <3> QED
      BY <2>2, <3>1, <3>2
  <2>4. GrabTypes'
    BY <1>1, <1>2, <2>1, <2>3 DEF IInv, GrabTypes, Good
  <2>5. GrabAgrees' /\ HeldMasks'
    BY <1>1, <2>1, <2>3 DEF IInv, GrabInv, GrabAgrees, HeldMasks, Good, Held, Alive
  <2>6. HeldRound'
    <3> SUFFICES ASSUME grabState = "active"
                 PROVE  (ready \cap Alive) \subseteq masks'.impervious \cup {grabClient}
      BY <1>1, <2>1 DEF HeldRound, Alive
    <3>1. (ready \cap Alive) \subseteq masks.impervious \cup {grabClient}
      BY <1>1 DEF IInv, GrabInv, HeldRound
    <3> QED
      BY <1>3, <2>3, <3>1
  <2>7. GrabExcludes'
    <3> SUFFICES ASSUME pc' = "run", grabState # "none", cur # grabClient
                 PROVE  cur \in masks'.impervious
      BY <1>1, <2>1 DEF GrabExcludes
    <3>1. masks.grab \notin {0, cur}
      BY <1>3, ClientsAssumption DEF IInv, GrabInv, GrabAgrees, Alive
    <3>2. cur \in masks.impervious
      BY <1>1 DEF Idle, IInv, GrabInv, GrabExcludes
    <3> QED
      BY <2>3, <3>1, <3>2
  <2> QED
    BY <1>5, <2>4, <2>5, <2>6, <2>7 DEF IInv, GrabInv
<1> QED
    BY <1>6, <1>7, <1>8

\* A client closes: when it held the server, nobody does, and nobody is
\* closed in its own turn.
LEMMA CloseDownClientKeeps ==
    ASSUME IInv, CloseDownClient
    PROVE  IInv'
<1> DEFINE c == Head(closing)
<1> USE DEF turnVars
<1>1. /\ closing # <<>> /\ closing' = Tail(closing)
      /\ life' = [life EXCEPT ![c] = "absent"] /\ broken' = broken \ {c}
      /\ UNCHANGED <<grabClient, ready, cur, pc>>
    BY DEF CloseDownClient
<1>2. c \in Clients /\ c # 0 /\ closing' \in Seq(Clients) /\ c = closing[1]
    BY <1>1, ClientsAssumption DEF IInv, GrabTypes
<1>3. life' \in [Clients -> {"absent", "knocking", "new", "running"}] /\ Alive' = Alive \ {c}
    BY <1>1, <1>2 DEF IInv, GrabTypes, Alive
<1>4. pc = "run" => cur # c
    BY <1>1, <1>2 DEF IInv, GrabTypes, GrabInv, TurnOpen
<1>5. TurnOpen'
  <2> SUFFICES ASSUME pc = "run"
               PROVE  /\ cur \in Alive' \ ready
                      /\ \A i \in 1 .. Len(closing') : closing'[i] # cur
    BY <1>1 DEF TurnOpen
  <2>1. cur \in Alive \ ready /\ \A i \in 1 .. Len(closing) : closing[i] # cur
    BY DEF IInv, GrabInv, TurnOpen
  <2>2. \A i \in 1 .. Len(closing') : closing'[i] = closing[i + 1] /\ i + 1 \in 1 .. Len(closing)
    BY <1>1 DEF IInv, GrabTypes
  <2> QED
    BY <1>3, <1>4, <2>1, <2>2
<1>6. CASE IsHolder(c)
  <2>1. Good(Ungrabbed(masks)) /\ Ungrabbed(masks).grab = 0
    BY GoodMasks, UngrabbedFrees
  <2>2. masks' = CloseFd(Ungrabbed(masks), c) /\ grabState' = "none"
    BY <1>6 DEF CloseDownClient
  <2>3. Good(masks') /\ masks'.grab = 0
    BY <1>2, <2>1, <2>2, CloseFdRemoves
  <2>4. GrabTypes'
    BY <1>1, <1>2, <1>3, <2>2, <2>3 DEF IInv, GrabTypes, Good
  <2>5. GrabAgrees' /\ GrabExcludes' /\ HeldMasks' /\ HeldRound'
    BY <2>2, <2>3 DEF GrabAgrees, GrabExcludes, HeldMasks, HeldRound
  <2> QED
    BY <1>5, <2>4, <2>5 DEF IInv, GrabInv
<1>7. CASE ~IsHolder(c)
  <2>1. masks' = CloseFd(masks, c) /\ grabState' = grabState
    BY <1>7 DEF CloseDownClient
  <2>2. masks.grab # c
    BY <1>2, <1>7 DEF IInv, GrabInv, GrabAgrees, IsHolder
  <2>3. /\ Good(masks') /\ masks'.grab = masks.grab
        /\ masks'.impervious = masks.impervious \ {c}
    BY <1>2, <2>1, <2>2, GoodMasks, CloseFdRemoves
  <2>4. GrabTypes'
    BY <1>1, <1>2, <1>3, <2>1, <2>3 DEF IInv, GrabTypes, Good
  <2>5. GrabAgrees' /\ HeldMasks'
    BY <1>1, <1>3, <1>7, <2>1, <2>3
       DEF IInv, GrabInv, GrabAgrees, HeldMasks, Good, Held, IsHolder
  <2>6. HeldRound' /\ GrabExcludes'
    BY <1>1, <1>3, <1>4, <2>1, <2>3 DEF IInv, GrabInv, HeldRound, GrabExcludes
  <2> QED
    BY <1>5, <2>4, <2>5, <2>6 DEF IInv, GrabInv
<1> QED
    BY <1>6, <1>7

LEMMA NextKeeps ==
    ASSUME IInv, [Next]_vars
    PROVE  IInv'
<1>1. CASE UNCHANGED vars
    BY <1>1 DEF vars, grabVars, turnVars, IInv, GrabTypes, GrabInv, GrabAgrees, GrabExcludes,
                HeldMasks, HeldRound, TurnOpen, Alive, Shape
<1>2. CASE Outside
    BY <1>2, OutsideKeeps
<1>3. CASE Answers
    BY <1>3, WakingKeeps
<1>4. CASE CloseDownClient
    BY <1>4, CloseDownClientKeeps
<1>5. CASE Waiting
    BY <1>5, WakingKeeps, RoundStarts DEF Waiting
<1>6. CASE Serving
    BY <1>6, TurnStarts, ServingKeeps, GrabRequestsKeep DEF Serving
<1> QED
    BY <1>1, <1>2, <1>3, <1>4, <1>5, <1>6 DEF Next, Server

\* The invariant behind the grab, of every behaviour: the two records of who
\* holds the server agree, and the masks, what is left of a round and the
\* turn hold only clients the grab lets through.
THEOREM GrabCorrect == Spec => []GrabInv
<1>1. IInv => GrabInv
    BY DEF IInv
<1> QED
    BY <1>1, InitInv, NextKeeps, PTL DEF Spec

\* dispatch.c and connection.c never disagree on who holds the server, and
\* the holder is never a closed connection: CloseDownClient releases the grab
\* in every order of closings and requests.
THEOREM GrabKnown == Spec => []GrabAgrees
<1>1. GrabInv => GrabAgrees
    BY DEF GrabInv
<1> QED
    BY <1>1, GrabCorrect, PTL

-----------------------------------------------------------------------------
(* 2. What is remembered.  First, the least of a set of numbers, and       *)
(* induction up to a number.                                               *)

\* A set of numbers has a least one.
LEMMA LeastNat ==
    ASSUME NEW T, T \subseteq Nat, T # {}
    PROVE  \E x \in T : \A y \in T : x <= y
<1>1. PICK R : IsWellFoundedOn(R, Nat) /\ \A x, y \in Nat : y < x => <<y, x>> \in R
  <2> DEFINE R == OpToRel(<, Nat)
  <2>1. IsWellFoundedOn(R, Nat)
    BY NatLessThanWellFounded, Zenon
  <2>2. \A x, y \in Nat : y < x => <<y, x>> \in R
    BY Zenon DEF OpToRel
  <2> HIDE DEF R
  <2> QED
    BY <2>1, <2>2
<1>2. PICK x \in T : \A y \in T : <<y, x>> \notin R
  BY <1>1, WFMin, Zenon
<1>3. \A y \in T : ~(y < x)
  BY <1>1, <1>2
<1> QED
  BY <1>2, <1>3

-----------------------------------------------------------------------------
(* The words of grabWaiters.                                               *)

\* The number of the word that holds the bit of c.
WordOf(c) == c \div WordBits

\* Descriptors have a word in the masks.
LEMMA WordOfType == \A c \in Clients : WordOf(c) \in Nat
BY ClientsAssumption, DispatchAssumption DEF WordOf

\* The words that hold a waiter are below some bound: grabWaiters is an array.
FewWords == \E b \in Nat : \A c \in grabWaiters : WordOf(c) <= b

\* UngrabServer finds a waiter when there is one.
LEMMA FirstWaiterWaits ==
    ASSUME grabWaiters \subseteq Clients, grabWaiters # {}, FewWords
    PROVE  FirstWaiter \in grabWaiters
<1>1. \A c \in grabWaiters : WordOf(c) \in Nat /\ c \in Nat
  BY WordOfType, ClientsAssumption
<1>2. PICK b \in Nat : \A c \in grabWaiters : WordOf(c) <= b
  BY DEF FewWords
<1>3. PICK m \in grabWaiters : \A d \in grabWaiters : WordOf(d) <= WordOf(m)
  <2> DEFINE T == {n \in Nat : \E c \in grabWaiters : n = b - WordOf(c)}
  <2>1. T \subseteq Nat /\ \A c \in grabWaiters : b - WordOf(c) \in T
    BY <1>1, <1>2
  <2>2. PICK x \in T : \A y \in T : x <= y
    <3> HIDE DEF T
    <3> QED
      BY <2>1, LeastNat
  <2>3. PICK c \in grabWaiters : x = b - WordOf(c)
    OBVIOUS
  <2>4. \A d \in grabWaiters : b - WordOf(c) <= b - WordOf(d)
    BY <2>1, <2>2, <2>3
  <2> HIDE DEF T
  <2>5. \A d \in grabWaiters : WordOf(d) <= WordOf(c)
    BY <1>1, <2>4
  <2> QED
    BY <2>5
<1>4. PICK c \in grabWaiters : /\ WordOf(c) = WordOf(m)
                               /\ \A d \in grabWaiters : WordOf(d) = WordOf(m) => c <= d
  <2> DEFINE T == {c \in grabWaiters : WordOf(c) = WordOf(m)}
  <2>1. T \subseteq Nat /\ T # {}
    BY <1>1
  <2>2. PICK c \in T : \A d \in T : c <= d
    <3> HIDE DEF T
    <3> QED
      BY <2>1, LeastNat
  <2> QED
    BY <2>2
<1>5. \A d \in grabWaiters : \/ WordOf(d) < WordOf(c)
                             \/ WordOf(d) = WordOf(c) /\ c <= d
  BY <1>1, <1>3, <1>4
<1> QED
  BY <1>5 DEF FirstWaiter, WordOf

-----------------------------------------------------------------------------
(* ProcessWorkQueueZombies.                                                *)

\* Induction up to N, with the set of the numbers a fact holds of in place of
\* the fact.
LEMMA UpTo ==
    ASSUME NEW N \in Nat, NEW S, 0 \in S, \A n \in 1 .. N : n - 1 \in S => n \in S
    PROVE  \A n \in 0 .. N : n \in S
<1> DEFINE Bad == {n \in 0 .. N : n \notin S}
<1> SUFFICES ASSUME Bad # {} PROVE FALSE
  OBVIOUS
<1>1. Bad \subseteq Nat
  OBVIOUS
<1>2. PICK n \in Bad : \A m \in Bad : n <= m
  <2> HIDE DEF Bad
  <2> QED
    BY <1>1, LeastNat
<1>3. n \in 1 .. N /\ n - 1 \notin Bad
  BY <1>2
<1> QED
  BY <1>3

\* The recursion of Without, from the first item on.
KeptBy(f, q, c) ==
    \A n \in 0 .. Len(q) :
        f[n] = IF n = 0 THEN <<>>
               ELSE IF q[n] = c THEN f[n - 1] ELSE Append(f[n - 1], q[n])

\* ProcessWorkQueueZombies builds its queue an item at a time.
LEMMA WithoutSteps ==
    ASSUME NEW T, NEW q \in Seq(T), NEW c
    PROVE  \E f : KeptBy(f, q, c) /\ Without(q, c) = f[Len(q)]
<1> DEFINE Step(f, m) == IF m = 0 THEN <<>>
                         ELSE IF q[m] = c THEN f[m - 1] ELSE Append(f[m - 1], q[m])
           Is(f, n) == f = [m \in 0 .. n |-> Step(f, m)]
           N == Len(q)
           Defined == {n \in 0 .. N : \E f : Is(f, n)}
<1>1. N \in Nat
  BY LenProperties
<1>2. 0 \in Defined
  <2> DEFINE g == [m \in 0 .. 0 |-> <<>>]
  <2>1. Is(g, 0)
    OBVIOUS
  <2>2. 0 \in 0 .. N
    BY <1>1
  <2> HIDE DEF Is, g, N
  <2> QED
    BY <2>1, <2>2
<1>3. ASSUME NEW n \in 1 .. N, n - 1 \in Defined PROVE n \in Defined
  <2>1. n \in 0 .. N /\ n - 1 \in 0 .. n - 1 /\ n # 0 /\ n \in 0 .. n
    BY <1>1
  <2>2. PICK f : Is(f, n - 1)
    BY <1>3
  <2> DEFINE g == [m \in 0 .. n |-> IF m = n THEN Step(f, n) ELSE f[m]]
  <2>3. ASSUME NEW m \in 0 .. n - 1 PROVE g[m] = f[m] /\ f[m] = Step(f, m)
    <3>1. m \in 0 .. n /\ m # n
      BY <1>1
    <3>2. g[m] = f[m]
      BY <3>1
    <3>3. f[m] = Step(f, m)
      BY <2>2
    <3> QED
      BY <3>2, <3>3
  <2>4. g[n] = Step(f, n) /\ g[n - 1] = f[n - 1]
    <3>1. g[n] = Step(f, n)
      BY <2>1
    <3>2. g[n - 1] = f[n - 1]
      BY <2>1, <2>3
    <3> QED
      BY <3>1, <3>2
  <2>5. g = [m \in 0 .. n |-> g[m]]
    OBVIOUS
  <2> HIDE DEF g
  <2>6. ASSUME NEW m \in 0 .. n PROVE g[m] = Step(g, m)
    <3>1. CASE m = n
      BY <2>1, <2>4, <3>1
    <3>2. CASE m # n
      <4>1. m \in 0 .. n - 1 /\ (m # 0 => m - 1 \in 0 .. n - 1)
        BY <3>2
      <4>2. g[m] = Step(f, m) /\ (m # 0 => g[m - 1] = f[m - 1])
        BY <2>3, <4>1
      <4> QED
        BY <4>2
    <3> QED
      BY <3>1, <3>2
  <2>7. [m \in 0 .. n |-> g[m]] = [m \in 0 .. n |-> Step(g, m)]
    BY <2>6
  <2>8. Is(g, n)
    BY <2>5, <2>7
  <2> QED
    BY <2>1, <2>8
<1>4. N \in Defined
  <2>1. N \in 0 .. N
    BY <1>1
  <2> HIDE DEF Defined
  <2> QED
    BY <1>1, <1>2, <1>3, <2>1, UpTo
<1>5. \E f : Is(f, N)
  BY <1>4
<1> DEFINE f == CHOOSE g : Is(g, N)
<1>6. Is(f, N)
  BY <1>5
<1>7. Without(q, c) = f[N]
  BY DEF Without
<1> HIDE DEF f
<1>8. KeptBy(f, q, c)
  BY <1>6 DEF KeptBy
<1> QED
  BY <1>7, <1>8

\* What is left is a queue, and holds nothing of c.
LEMMA WithoutType ==
    ASSUME NEW T, NEW q \in Seq(T), NEW c
    PROVE  Without(q, c) \in Seq(T \ {c})
<1> DEFINE N == Len(q)
<1>1. N \in Nat
  BY LenProperties
<1>2. PICK f : KeptBy(f, q, c) /\ Without(q, c) = f[N]
  BY WithoutSteps
<1> DEFINE Right == {n \in 0 .. N : f[n] \in Seq(T \ {c})}
<1>3. 0 \in Right
  <2>1. 0 \in 0 .. N
    BY <1>1
  <2>2. f[0] = <<>>
    BY <1>2, <2>1 DEF KeptBy
  <2> QED
    BY <2>1, <2>2, EmptySeq
<1>4. ASSUME NEW n \in 1 .. N, n - 1 \in Right PROVE n \in Right
  <2>1. n \in 0 .. N /\ n # 0
    BY <1>1
  <2>2. q[n] # c => Append(f[n - 1], q[n]) \in Seq(T \ {c})
    BY <1>4, ElementOfSeq, AppendProperties
  <2> QED
    BY <1>2, <1>4, <2>1, <2>2 DEF KeptBy
<1>5. N \in Right
  <2>1. N \in 0 .. N
    BY <1>1
  <2> HIDE DEF Right
  <2> QED
    BY <1>1, <1>3, <1>4, <2>1, UpTo
<1> QED
  BY <1>2, <1>5

\* The first item stays first unless it is of c.
LEMMA WithoutHead ==
    ASSUME NEW T, NEW q \in Seq(T), NEW c, q # <<>>, Head(q) # c
    PROVE  Without(q, c) # <<>> /\ Head(Without(q, c)) = Head(q)
<1> DEFINE N == Len(q)
<1>1. N \in Nat \ {0} /\ Head(q) = q[1] /\ q[1] \in T
  BY EmptySeq, HeadTailProperties
<1>2. PICK f : KeptBy(f, q, c) /\ Without(q, c) = f[N]
  BY WithoutSteps
<1> DEFINE Right == {n \in 0 .. N : \/ n = 0 /\ f[n] = <<>>
                                    \/ n # 0 /\ f[n] \in Seq(T) \ {<<>>} /\ f[n][1] = q[1]}
<1>3. 0 \in Right
  <2>1. 0 \in 0 .. N
    BY <1>1
  <2>2. f[0] = <<>>
    BY <1>2, <2>1 DEF KeptBy
  <2> QED
    BY <2>1, <2>2
<1>4. ASSUME NEW n \in 1 .. N, n - 1 \in Right PROVE n \in Right
  <2>1. n \in 0 .. N /\ n # 0 /\ q[n] \in T
    BY <1>1, ElementOfSeq
  <2>2. f[n] = IF q[n] = c THEN f[n - 1] ELSE Append(f[n - 1], q[n])
    BY <1>2, <2>1 DEF KeptBy
  <2>3. CASE n = 1
    <3>1. f[0] = <<>>
      BY <1>4, <2>3
    <3>2. f[1] = Append(<<>>, q[1])
      BY <1>1, <2>2, <2>3, <3>1
    <3>3. <<>> \in Seq(T)
      BY EmptySeq
    <3>4. f[1] \in Seq(T) \ {<<>>} /\ f[1][1] = q[1]
      BY <1>1, <3>2, <3>3
    <3> QED
      BY <2>1, <2>3, <3>4
  <2>4. CASE n # 1
    <3>1. f[n - 1] \in Seq(T) \ {<<>>} /\ f[n - 1][1] = q[1]
      BY <1>4, <2>4
    <3>2. Append(f[n - 1], q[n]) \in Seq(T) \ {<<>>} /\ Append(f[n - 1], q[n])[1] = q[1]
      BY <2>1, <3>1
    <3> QED
      BY <2>1, <2>2, <3>1, <3>2
  <2> QED
    BY <2>3, <2>4
<1>5. N \in Right
  <2>1. N \in 0 .. N
    BY <1>1
  <2> HIDE DEF Right
  <2> QED
    BY <1>1, <1>3, <1>4, <2>1, UpTo
<1>6. f[N] \in Seq(T) \ {<<>>} /\ f[N][1] = q[1]
  BY <1>1, <1>5
<1> QED
  BY <1>1, <1>2, <1>6

-----------------------------------------------------------------------------
(* Only connected clients are remembered.                                  *)

\* m remembers, where a client could be chosen from it, clients of A only.
Known(m, A) ==
    /\ m \in Masks
    /\ (m.all \cup m.input \cup m.impervious) \subseteq A
    /\ m.grab # 0 => (m.savedAll \cup m.savedInput) \subseteq A

\* No function of the masks adds a client but its argument: with A the clients
\* that are connected, the masks hold no others.
LEMMA SetInputKnown ==
    ASSUME NEW m, NEW A \in SUBSET Clients, NEW c \in A, NEW more, Known(m, A)
    PROVE  Known(SetInput(m, c, more), A)
BY DEF SetInput, Put, Known, Masks

LEMMA IgnoreKnown ==
    ASSUME NEW m, NEW A \in SUBSET Clients, NEW c \in A, Known(m, A)
    PROVE  Known(Ignore(m, c), A)
BY DEF Ignore, Put, Known, Masks

LEMMA AttendKnown ==
    ASSUME NEW m, NEW A \in SUBSET Clients, NEW c \in A, Known(m, A)
    PROVE  Known(Attend(m, c), A)
BY DEF Attend, Put, Known, Masks

LEMMA ResetKnown ==
    ASSUME NEW m, NEW A \in SUBSET Clients, NEW c \in A, Known(m, A)
    PROVE  Known(Reset(m, c), A)
BY DEF Reset, Known, Masks

LEMMA ConnectKnown ==
    ASSUME NEW m, NEW A \in SUBSET Clients, NEW c \in Clients, Known(m, A)
    PROVE  Known(Connect(m, c), A \cup {c})
BY DEF Connect, Known, Masks

LEMMA OnlyListenToKnown ==
    ASSUME NEW m, NEW A \in SUBSET Clients, NEW c \in A, Known(m, A)
    PROVE  Known(OnlyListenTo(m, c), A)
BY ZenonT(60) DEF OnlyListenTo, Known, Masks

LEMMA ListenToAllKnown ==
    ASSUME NEW m, NEW A \in SUBSET Clients, Known(m, A)
    PROVE  Known(ListenToAll(m), A)
BY DEF ListenToAll, Known, Masks

LEMMA MakeImperviousKnown ==
    ASSUME NEW m, NEW A \in SUBSET Clients, NEW c \in A, Known(m, A)
    PROVE  Known(MakeImpervious(m, c), A)
BY DEF MakeImpervious, Known, Masks

LEMMA MakePerviousKnown ==
    ASSUME NEW m, NEW A \in SUBSET Clients, NEW c \in A, Known(m, A)
    PROVE  Known(MakePervious(m, c), A)
BY DEF MakePervious, Put, Known, Masks

\* What is closed is forgotten, except in the set of ignored clients.
LEMMA CloseFdKnown ==
    ASSUME NEW m, NEW A \in SUBSET Clients, NEW c \in Clients, Known(m, A)
    PROVE  Known(CloseFd(m, c), A \ {c})
BY DEF CloseFd, Known, Masks

\* UngrabServer wakes one of those that wait, so it adds none either.
LEMMA UngrabbedKnown ==
    ASSUME NEW m, NEW A \in SUBSET Clients, Known(m, A), grabWaiters \subseteq A, FewWords
    PROVE  Known(Ungrabbed(m), A)
<1>1. Known(ListenToAll(m), A)
  BY ListenToAllKnown
<1>2. CASE grabWaiters = {}
  BY <1>1, <1>2 DEF Ungrabbed
<1>3. CASE grabWaiters # {}
  <2>1. FirstWaiter \in A
    BY <1>3, FirstWaiterWaits
  <2> QED
    BY <1>1, <1>3, <2>1, AttendKnown DEF Ungrabbed
<1> QED
  BY <1>2, <1>3

\* A connected client is one of clients[].
LEMMA AliveClients == Alive \in SUBSET Clients
BY DEF Alive

-----------------------------------------------------------------------------
(* The invariant.                                                          *)

InputTypes ==
    /\ buf \in [Clients -> Nat] /\ sock \in [Clients -> Nat]
    /\ retry \in [Clients -> {"fresh", "grab", "delayed"}]
    /\ hangup \subseteq Clients
    /\ priority \in [Clients -> Priorities]

\* What is left of a round does not outlive it.
TurnTypes == /\ ready \subseteq Clients /\ cur \in Clients \cup {0} /\ pc \in Places
             /\ pc \notin {"round", "run"} => ready = {}

\* Whoever is set aside is connected, and so is whoever has work queued.
Pending ==
    /\ SetAside \subseteq Alive /\ FewWords
    /\ workQueue \in Seq(Alive \cup {0})

\* While connections are accepted, the work item that does it is still first.
Accepting == pc = "accept" => workQueue # <<>> /\ Head(workQueue) = 0

MemInv == /\ IInv /\ Known(masks, Alive) /\ InputTypes /\ TurnTypes /\ Pending
          /\ Accepting

LEMMA MemInvTypeOK == MemInv => TypeOK
<1> SUFFICES ASSUME MemInv PROVE TypeOK
  OBVIOUS
<1>1. asleep \subseteq Clients /\ delayed \subseteq Clients /\ grabWaiters \subseteq Clients
  BY AliveClients DEF MemInv, Pending, SetAside
<1>2. workQueue \in Seq(Clients \cup {0})
  <2>1. (Alive \cup {0}) \subseteq Clients \cup {0}
    BY AliveClients
  <2> QED
    BY <2>1, SeqMonotonic DEF MemInv, Pending
<1> QED
  BY <1>1, <1>2 DEF MemInv, IInv, GrabTypes, Known, InputTypes, TurnTypes, TypeOK

LEMMA MemInvForgotten == MemInv => ClosedForgotten
<1> SUFFICES ASSUME MemInv PROVE ClosedForgotten
  OBVIOUS
<1>1. \A i \in 1 .. Len(workQueue) : workQueue[i] \in Alive \cup {0}
  BY ElementOfSeq DEF MemInv, Pending
<1> QED
  BY <1>1 DEF MemInv, Known, Pending, ClosedForgotten, TurnTypes

LEMMA InitMemory == Init => MemInv
<1> SUFFICES ASSUME Init PROVE MemInv
  OBVIOUS
<1> USE DispatchAssumption, ClientsAssumption
<1>1. Alive = Connected
  BY DEF Init, Alive
<1>2. Known(masks, Alive)
  BY <1>1 DEF Init, Listening, Known, Masks
<1>3. InputTypes /\ TurnTypes
  BY DEF Init, InputTypes, TurnTypes, Places
<1>4. Pending
  <2>1. workQueue \in Seq(Alive \cup {0})
    BY EmptySeq DEF Init
  <2>2. FewWords /\ SetAside \subseteq Alive
    <3>1. 0 \in Nat /\ grabWaiters = {} /\ SetAside = {}
      BY DEF Init, SetAside
    <3> QED
      BY <3>1 DEF FewWords
  <2> QED
    BY <2>1, <2>2 DEF Pending
<1>5. Accepting
  BY DEF Init, Accepting
<1> QED
  BY <1>2, <1>3, <1>4, <1>5, InitInv DEF MemInv

\* Queued work stays queued, and may be joined by more.
LEMMA QueueKept ==
    ASSUME MemInv, Alive \subseteq Alive'
    PROVE  /\ workQueue \in Seq(Alive' \cup {0})
           /\ \A c \in Alive' \cup {0} : Append(workQueue, c) \in Seq(Alive' \cup {0})
           /\ workQueue # <<>> => Tail(workQueue) \in Seq(Alive' \cup {0})
<1>1. workQueue \in Seq(Alive' \cup {0})
  <2>1. (Alive \cup {0}) \subseteq Alive' \cup {0}
    OBVIOUS
  <2> QED
    BY <2>1, SeqMonotonic DEF MemInv, Pending
<1> QED
  BY <1>1, AppendProperties, HeadTailProperties

-----------------------------------------------------------------------------
(* The steps.                                                              *)

\* What happens outside the server keeps the four parts of the invariant.
LEMMA OutsideMemory ==
    ASSUME MemInv, Outside
    PROVE  Known(masks, Alive)' /\ InputTypes' /\ TurnTypes' /\ Pending'
<1>1. PICK c \in Clients : Knock(c) \/ Send(c) \/ HangUp(c) \/ WriteFails(c)
  BY DEF Outside
<1>2. UNCHANGED <<masks, grabWaiters, asleep, delayed, workQueue, ready, cur, pc>>
  BY <1>1 DEF Knock, Send, HangUp, WriteFails, grabVars, sleepVars, turnVars
<1>3. Alive' = Alive
  <2>1. life' = life \/ (life[c] = "absent" /\ life' = [life EXCEPT ![c] = "knocking"])
    BY <1>1 DEF Knock, Send, HangUp, WriteFails
  <2> QED
    BY <2>1 DEF MemInv, IInv, GrabTypes, Alive
<1>4. InputTypes'
  <2>1. /\ UNCHANGED <<buf, retry, priority>> /\ hangup' \in {hangup, hangup \cup {c}}
        /\ sock' \in {sock, [sock EXCEPT ![c] = @ + 1]}
    BY <1>1 DEF Knock, Send, HangUp, WriteFails, inputVars
  <2>2. sock[c] + 1 \in Nat /\ sock \in [Clients -> Nat]
    BY DEF MemInv, InputTypes
  <2>3. sock' \in [Clients -> Nat]
    BY <2>1, <2>2
  <2> QED
    BY <2>1, <2>3 DEF MemInv, InputTypes
<1>5. Known(masks, Alive)' /\ TurnTypes'
  BY <1>2, <1>3 DEF MemInv, Known, TurnTypes
<1>6. Pending'
  BY <1>2, <1>3 DEF MemInv, Pending, FewWords, SetAside, WordOf
<1> QED
  BY <1>4, <1>5, <1>6

\* The server waits, chooses a round or a turn, and moves nobody.
LEMMA WaitingMemory ==
    ASSUME MemInv,
           \/ StartAccept \/ EnterSelect \/ SelectReturns \/ SelectFails
           \/ CheckConnections \/ NextTurn \/ EndRound
           \/ \E c \in Clients : KillStraggler(c) \/ FontAnswer(c)
    PROVE  Known(masks, Alive)' /\ InputTypes' /\ TurnTypes' /\ Pending'
<1> USE DEF grabVars, inputVars, sleepVars, turnVars, Idle
<1>1. UNCHANGED <<masks, grabWaiters, asleep, delayed, buf, sock, retry, hangup, priority, life>>
  BY DEF StartAccept, SelectFails, CheckConnections, EndRound, NextTurn, EnterSelect,
         SelectReturns, KillStraggler, FontAnswer
<1>2. Alive' = Alive
  BY <1>1 DEF Alive
<1>3. Known(masks, Alive)' /\ InputTypes'
  BY <1>1, <1>2 DEF MemInv, Known, InputTypes
<1>4. TurnTypes'
  <2>1. masks.all \subseteq Clients /\ masks.input \subseteq Clients
    BY DEF MemInv, Known, Masks
  <2>2. CASE SelectReturns
    <3>1. PICK heard \in Heard : ready' \subseteq heard /\ (heard = {} => ready' = {})
      BY <2>2 DEF SelectReturns, Highest
    <3>2. heard \subseteq Clients
      BY <2>1 DEF Heard, Readable
    <3> QED
      BY <2>2, <3>1, <3>2 DEF SelectReturns, MemInv, TurnTypes, Places
  <2>3. CASE EnterSelect
    BY <2>1, <2>3 DEF EnterSelect, Highest, MemInv, TurnTypes, Places
  <2>4. CASE NextTurn \/ EndRound
    BY <2>4 DEF NextTurn, EndRound, MemInv, TurnTypes, Places
  <2> QED
    BY <2>2, <2>3, <2>4 DEF MemInv, TurnTypes, Places, StartAccept, SelectFails,
       CheckConnections, KillStraggler, FontAnswer
<1>5. \/ workQueue' = workQueue
      \/ \E c \in Alive' \cup {0} : workQueue' = Append(workQueue, c)
  <2>1. \A c : c \in asleep => c \in Alive'
    BY <1>2 DEF MemInv, Pending, SetAside
  <2> QED
    BY <2>1 DEF StartAccept, SelectFails, CheckConnections, EndRound, NextTurn, EnterSelect,
       SelectReturns, KillStraggler, FontAnswer
<1>6. workQueue' \in Seq(Alive' \cup {0})
  BY <1>2, <1>5, QueueKept
<1>7. Pending'
  BY <1>1, <1>2, <1>6 DEF MemInv, Pending, FewWords, SetAside, WordOf
<1> QED
  BY <1>3, <1>4, <1>7

\* A sleeper is attended, or a client accepted.
LEMMA WakingMemory ==
    ASSUME MemInv, FontOpened \/ \E c \in Clients : DelayExpires(c) \/ Accept(c)
    PROVE  Known(masks, Alive)' /\ InputTypes' /\ TurnTypes' /\ Pending'
<1> USE DEF grabVars, inputVars, sleepVars, turnVars, Idle
<1>1. /\ UNCHANGED <<grabWaiters, buf, sock, retry, hangup, priority, ready, cur>>
      /\ pc' \in {pc, "wait"} /\ pc \notin {"round", "run"}
      /\ asleep' \subseteq asleep /\ delayed' \subseteq delayed
  BY DEF FontOpened, DelayExpires, Accept
<1>2. InputTypes' /\ TurnTypes'
  BY <1>1 DEF MemInv, InputTypes, TurnTypes, Places
<1>3. Alive \subseteq Alive' /\ Known(masks, Alive)'
  <2>1. CASE UNCHANGED life
    <3>1. Alive' = Alive
      BY <2>1 DEF Alive
    <3>2. masks' = masks \/ \E c \in Alive : masks' = Attend(masks, c)
      BY <2>1 DEF FontOpened, DelayExpires, Accept, MemInv, Pending, SetAside, IInv, GrabTypes
    <3> QED
      BY <3>1, <3>2, AliveClients, AttendKnown DEF MemInv
  <2>2. CASE \E c \in Clients : Accept(c)
    <3>1. PICK c \in Clients : Accept(c)
      BY <2>2
    <3>2. life' = [life EXCEPT ![c] = "new"] /\ masks' = Connect(masks, c)
      BY <3>1 DEF Accept
    <3>3. Alive' = Alive \cup {c}
      BY <3>2 DEF MemInv, IInv, GrabTypes, Alive
    <3> QED
      BY <3>2, <3>3, AliveClients, ConnectKnown DEF MemInv
  <2>3. UNCHANGED life \/ \E c \in Clients : Accept(c)
    BY DEF FontOpened, DelayExpires
  <2> QED
    BY <2>1, <2>2, <2>3
<1>4. workQueue' \in Seq(Alive' \cup {0})
  <2>1. workQueue' = workQueue \/ (workQueue' = Tail(workQueue) /\ workQueue # <<>>)
    BY DEF FontOpened, DelayExpires, Accept, MemInv, Accepting
  <2> QED
    BY <1>3, <2>1, QueueKept
<1>5. Pending'
  BY <1>1, <1>3, <1>4 DEF MemInv, Pending, FewWords, SetAside, WordOf
<1> QED
  BY <1>2, <1>3, <1>5

\* A read that finds nothing.
LEMMA ReadNothingMemory ==
    ASSUME MemInv, ReadNothing
    PROVE  Known(masks, Alive)' /\ InputTypes' /\ TurnTypes' /\ Pending'
<1> USE DEF grabVars, inputVars, sleepVars, turnVars, Idle
<1>1. /\ UNCHANGED <<grabWaiters, asleep, delayed, workQueue, buf, sock, retry, hangup,
                     priority, life, ready, cur>>
      /\ pc = "run" /\ pc' = "round"
      /\ masks' \in {masks, SetInput(masks, cur, FALSE)}
  BY DEF ReadNothing
<1>2. Alive' = Alive /\ cur \in Alive
  BY <1>1, CurMay DEF MemInv, Alive
<1>3. Known(masks, Alive)'
  BY <1>1, <1>2, AliveClients, SetInputKnown DEF MemInv
<1>4. InputTypes' /\ TurnTypes'
  BY <1>1 DEF MemInv, InputTypes, TurnTypes, Places
<1>5. Pending'
  BY <1>1, <1>2 DEF MemInv, Pending, FewWords, SetAside, WordOf
<1> QED
  BY <1>3, <1>4, <1>5

\* The requests: each is executed or put back, and sets at most its own
\* client aside.
Request ==
    \/ Noop \/ Setup \/ GrabServer \/ WaitForGrab \/ UngrabServer
    \/ OpenFont \/ DelayInput \/ KillClient \/ GrabControl \/ SetPriority

\* A request closes nobody at once, and what it queues is for clients that are
\* connected.
LEMMA RequestInputs ==
    ASSUME MemInv, Request
    PROVE  /\ Idle("run") /\ InputTypes' /\ TurnTypes'
           /\ cur \in Alive /\ Alive' = Alive /\ workQueue' = workQueue
<1>1. /\ \E op : Reads(op)
      /\ Consume \/ PutBack("grab") \/ PutBack("delayed")
      /\ UNCHANGED <<hangup, cur, workQueue>>
      /\ life' \in {life, [life EXCEPT ![cur] = "running"]}
      /\ pc' \in {"run", "round"} /\ ready' \in {ready, {}}
      /\ \/ priority' = priority
         \/ \E c \in Clients, p \in Priorities : priority' = [priority EXCEPT ![c] = p]
  <2>1. CASE SetPriority
    BY <2>1 DEF SetPriority, Running, sleepVars
  <2> QED
    BY <2>1 DEF Request, Noop, Setup, GrabServer, WaitForGrab, UngrabServer, OpenFont,
       DelayInput, KillClient, GrabControl, Return, Proceed, sleepVars
<1>2. Idle("run") /\ AtHand > 0 /\ sock' \in {sock, [sock EXCEPT ![cur] = 0]}
  BY <1>1 DEF Reads
<1>3. cur \in Alive /\ cur \in Clients
  BY <1>2, CurMay DEF MemInv, Idle
<1>4. Alive' = Alive
  BY <1>1, <1>3 DEF MemInv, IInv, GrabTypes, Alive
<1>5. InputTypes'
  <2>1. buf \in [Clients -> Nat] /\ sock \in [Clients -> Nat]
    BY DEF MemInv, InputTypes
  <2>2. AtHand \in Nat
    BY <1>3, <2>1 DEF AtHand
  <2> DEFINE n == AtHand
  <2>3. n \in Nat /\ n - 1 \in Nat
    BY <1>2, <2>2
  <2> HIDE DEF n
  <2>4. \E k \in {n, n - 1} : buf' = [buf EXCEPT ![cur] = k]
    BY <1>1 DEF n, Consume, PutBack
  <2>5. buf' \in [Clients -> Nat]
    BY <2>1, <2>3, <2>4
  <2>6. sock' \in [Clients -> Nat]
    <3>1. 0 \in Nat
      OBVIOUS
    <3> QED
      BY <1>2, <2>1, <3>1
  <2>7. retry' \in [Clients -> {"fresh", "grab", "delayed"}]
    <3>1. \E why \in {"fresh", "grab", "delayed"} : retry' = [retry EXCEPT ![cur] = why]
      BY <1>1 DEF Consume, PutBack
    <3> QED
      BY <3>1 DEF MemInv, InputTypes
  <2>8. priority' \in [Clients -> Priorities]
    BY <1>1 DEF MemInv, InputTypes
  <2> QED
    BY <1>1, <2>5, <2>6, <2>7, <2>8 DEF MemInv, InputTypes
<1>6. TurnTypes'
  BY <1>1 DEF MemInv, TurnTypes, Places
<1> QED
  BY <1>1, <1>2, <1>3, <1>4, <1>5, <1>6

LEMMA RequestMemory ==
    ASSUME MemInv, Request
    PROVE  Known(masks, Alive)' /\ InputTypes' /\ TurnTypes' /\ Pending'
<1>1. /\ Idle("run") /\ InputTypes' /\ TurnTypes'
      /\ cur \in Alive /\ Alive' = Alive /\ workQueue' = workQueue
  BY RequestInputs
<1>2. Known(MasksRead, Alive)
  BY <1>1, AliveClients, SetInputKnown DEF MemInv, MasksRead
<1>3. grabWaiters \subseteq Alive /\ FewWords /\ Alive \in SUBSET Clients
  BY AliveClients DEF MemInv, Pending, SetAside
<1>4. Known(masks', Alive)
  <2>1. CASE Noop \/ Setup \/ KillClient \/ SetPriority
    BY <1>2, <2>1 DEF Noop, Setup, KillClient, SetPriority
  <2>2. CASE GrabServer
    BY <1>1, <1>2, <1>3, <2>2, OnlyListenToKnown DEF GrabServer
  <2>3. CASE WaitForGrab
    <3>1. Known(Reset(MasksRead, cur), Alive)
      BY <1>1, <1>2, <1>3, ResetKnown
    <3> QED
      BY <1>1, <1>3, <2>3, <3>1, IgnoreKnown DEF WaitForGrab
  <2>4. CASE UngrabServer
    BY <1>2, <1>3, <2>4, UngrabbedKnown DEF UngrabServer
  <2>5. CASE OpenFont
    BY <1>1, <1>2, <1>3, <2>5, IgnoreKnown DEF OpenFont
  <2>6. CASE DelayInput
    <3>1. Known(Ignore(MasksRead, cur), Alive)
      BY <1>1, <1>2, <1>3, IgnoreKnown
    <3> QED
      BY <1>1, <1>3, <2>6, <3>1, ResetKnown DEF DelayInput
  <2>7. CASE GrabControl
    BY <1>1, <1>2, <1>3, <2>7, MakeImperviousKnown, MakePerviousKnown DEF GrabControl
  <2> QED
    BY <2>1, <2>2, <2>3, <2>4, <2>5, <2>6, <2>7 DEF Request
<1>5. /\ grabWaiters' \subseteq grabWaiters \cup {cur}
      /\ asleep' \subseteq asleep \cup {cur} /\ delayed' \subseteq delayed \cup {cur}
  BY DEF Request, Noop, Setup, GrabServer, WaitForGrab, UngrabServer, OpenFont, DelayInput,
         KillClient, GrabControl, SetPriority, StillWaiting, grabVars, sleepVars
<1>6. FewWords'
  <2>1. PICK b \in Nat : \A c \in grabWaiters : WordOf(c) <= b
    BY <1>3 DEF FewWords
  <2>2. WordOf(cur) \in Nat /\ \A c \in grabWaiters : WordOf(c) \in Nat
    BY <1>1, <1>3, WordOfType
  <2>3. PICK a \in Nat : b <= a /\ WordOf(cur) <= a
    BY <2>2
  <2>4. \A c \in grabWaiters' : WordOf(c) <= a
    BY <1>5, <2>1, <2>2, <2>3
  <2> QED
    BY <2>4 DEF FewWords, WordOf
<1>7. Pending'
  BY <1>1, <1>5, <1>6 DEF MemInv, Pending, SetAside
<1> QED
  BY <1>1, <1>4, <1>7

LEMMA CloseDownMemory ==
    ASSUME MemInv, CloseDownClient
    PROVE  Known(masks, Alive)' /\ InputTypes' /\ TurnTypes' /\ Pending'
<1> DEFINE c == Head(closing)
<1>1. c \in Clients
  BY HeadTailProperties DEF MemInv, IInv, GrabTypes, CloseDownClient
<1>2. Alive' = Alive \ {c}
  BY <1>1 DEF CloseDownClient, MemInv, IInv, GrabTypes, Alive
<1>3. grabWaiters \subseteq Alive /\ FewWords /\ Alive \in SUBSET Clients
  BY AliveClients DEF MemInv, Pending, SetAside
<1>4. Known(masks, Alive)'
  <2>1. Known(Ungrabbed(masks), Alive)
    BY <1>3, UngrabbedKnown DEF MemInv
  <2>2. PICK m \in {masks, Ungrabbed(masks)} : masks' = CloseFd(m, c)
    BY DEF CloseDownClient
  <2>3. Known(m, Alive)
    BY <2>1, <2>2 DEF MemInv
  <2> QED
    BY <1>1, <1>2, <1>3, <2>2, <2>3, CloseFdKnown
<1>5. InputTypes' /\ TurnTypes'
  <2>1. 0 \in Nat
    OBVIOUS
  <2> QED
    BY <1>1, <2>1, DispatchAssumption DEF CloseDownClient, MemInv, InputTypes, TurnTypes, turnVars
<1>6. workQueue' \in Seq(Alive' \cup {0})
  <2>1. workQueue' = Without(workQueue, c)
    BY DEF CloseDownClient
  <2>2. Without(workQueue, c) \in Seq((Alive \cup {0}) \ {c})
    BY WithoutType DEF MemInv, Pending
  <2>3. ((Alive \cup {0}) \ {c}) \subseteq Alive' \cup {0}
    BY <1>2
  <2> QED
    BY <2>1, <2>2, <2>3, SeqMonotonic
<1>7. SetAside' \subseteq Alive' /\ grabWaiters' \subseteq grabWaiters
  BY <1>2 DEF CloseDownClient, StillWaiting, SetAside, MemInv, Pending
<1>8. FewWords'
  BY <1>3, <1>7 DEF FewWords, WordOf
<1> QED
  BY <1>4, <1>5, <1>6, <1>7, <1>8 DEF Pending

\* EstablishNewConnections runs from the item at the head of the work queue,
\* and the closing of stragglers removes only items of clients.
LEMMA NextAccepting ==
    ASSUME MemInv, Next
    PROVE  Accepting'
<1> USE DEF Accepting, turnVars, sleepVars
<1>1. CASE StartAccept
  BY <1>1 DEF StartAccept
<1>2. CASE CloseDownClient
  <2> SUFFICES ASSUME pc = "accept" PROVE workQueue' # <<>> /\ Head(workQueue') = 0
    BY <1>2 DEF CloseDownClient
  <2> DEFINE c == Head(closing)
  <2>1. c # 0
    BY <1>2, HeadTailProperties, ClientsAssumption DEF MemInv, IInv, GrabTypes, CloseDownClient
  <2>2. workQueue # <<>> /\ Head(workQueue) # c
    BY <2>1 DEF MemInv
  <2>3. workQueue' = Without(workQueue, c)
    BY <1>2 DEF CloseDownClient
  <2>4. Without(workQueue, c) # <<>> /\ Head(Without(workQueue, c)) = Head(workQueue)
    BY <2>2, WithoutHead DEF MemInv, Pending
  <2> QED
    BY <2>3, <2>4 DEF MemInv
<1>3. CASE Outside \/ \E c \in Clients : KillStraggler(c)
  BY <1>3 DEF Outside, Knock, Send, HangUp, WriteFails, KillStraggler, MemInv
<1>4. CASE \/ Serving \/ Answers \/ FontOpened \/ EnterSelect
           \/ SelectReturns \/ SelectFails \/ CheckConnections
           \/ \E c \in Clients : Accept(c)
  <2>1. pc' # "accept"
    BY <1>4 DEF Serving, Noop, Setup, GrabServer, WaitForGrab, UngrabServer, OpenFont,
       DelayInput, KillClient, GrabControl, SetPriority, ReadNothing, EndRound, NextTurn, Return, Proceed,
       Reads, Answers, FontAnswer, DelayExpires, FontOpened, EnterSelect, SelectReturns,
       SelectFails, CheckConnections, Accept, Idle
  <2> QED
    BY <2>1
<1> QED
  BY <1>1, <1>2, <1>3, <1>4 DEF Next, Server, Waiting

LEMMA NextMemory ==
    ASSUME MemInv, [Next]_vars
    PROVE  MemInv'
<1>1. IInv'
  BY NextKeeps DEF MemInv
<1>2. Known(masks, Alive)' /\ InputTypes' /\ TurnTypes' /\ Pending'
  <2>1. CASE UNCHANGED vars
    BY <2>1 DEF vars, grabVars, inputVars, sleepVars, turnVars, MemInv, Known, Alive,
       InputTypes, TurnTypes, Pending, SetAside, FewWords, WordOf
  <2>2. CASE Outside
    BY <2>2, OutsideMemory
  <2>3. CASE Answers
    BY <2>3, WaitingMemory, WakingMemory DEF Answers
  <2>4. CASE Waiting
    BY <2>4, WaitingMemory, WakingMemory DEF Waiting
  <2>5. CASE Serving
    BY <2>5, WaitingMemory, ReadNothingMemory, RequestMemory DEF Serving, Request
  <2>6. CASE CloseDownClient
    BY <2>6, CloseDownMemory
  <2> QED
    BY <2>1, <2>2, <2>3, <2>4, <2>5, <2>6 DEF Next, Server
<1>3. Accepting'
  <2>1. CASE UNCHANGED vars
    BY <2>1 DEF vars, sleepVars, turnVars, MemInv, Accepting
  <2> QED
    BY <2>1, NextAccepting
<1> QED
  BY <1>1, <1>2, <1>3 DEF MemInv

\* Type correctness of every behaviour.
THEOREM TypeCorrect == Spec => []TypeOK
BY InitMemory, NextMemory, MemInvTypeOK, PTL DEF Spec

\* Once a client is closed it is in no mask it could be chosen from, now or at
\* the end of a grab, it is neither exempt nor set aside nor on the work queue,
\* and what is left of its round is gone before another can connect.
THEOREM Forgotten == Spec => []ClosedForgotten
BY InitMemory, NextMemory, MemInvForgotten, PTL DEF Spec

-----------------------------------------------------------------------------
(* 3. No client is exempt from grabs.                                      *)
(*                                                                         *)
(* Kept says where every client is in the masks, given who is set aside,   *)
(* who is connected and who has requests in its buffer.                    *)

NoExempt == Exempt = {} /\ \A c \in Clients : "impervious" \notin Ops[c]

-----------------------------------------------------------------------------
(* The functions of InputMasks.                                            *)

\* m keeps account of the clients A, of which S are set aside and F have
\* whole requests in their buffers.
Kept(m, S, A, F) ==
    /\ m.impervious = {} /\ m.input \subseteq m.all
    /\ m.grab # 0 => m.savedInput \subseteq m.savedAll /\ m.all \subseteq {m.grab}
    /\ \A c \in A \cap S :
        /\ c \notin m.all
        /\ m.grab \notin {0, c} => c \notin m.savedAll
        /\ c \in F => c \in m.ignored
    /\ \A c \in A \ S :
        /\ c \in m.all \/ (m.grab \notin {0, c} /\ c \in m.savedAll)
        /\ c \in F => c \in IF c \in m.all THEN m.input ELSE m.savedInput

\* The functions of the masks keep the account of every client, here and below:
\* SetInput for the one whose buffer changes,
LEMMA SetInputKept ==
    ASSUME NEW m, NEW S, NEW A, NEW F, Shape(m), Kept(m, S, A, F), NEW G,
           NEW c \in A \ S, c \in m.all, NEW more \in BOOLEAN,
           G \ {c} = F \ {c}, c \in G => more
    PROVE  Kept(SetInput(m, c, more), S, A, G)
BY DEF SetInput, Put, Kept, Shape

\* The client that is put aside has its requests remembered.
LEMMA IgnoreKept ==
    ASSUME NEW m, NEW S, NEW A, NEW F, Shape(m), Kept(m, S, A, F),
           NEW c \in A \ S, c \in m.all
    PROVE  /\ Kept(Ignore(m, c), S \cup {c}, A, F)
           /\ c \notin Ignore(m, c).all
BY DEF Ignore, Put, Kept, Shape

\* putting a request back records it,
LEMMA ResetKept ==
    ASSUME NEW m, NEW S, NEW A, NEW F, Shape(m), Kept(m, S, A, F),
           NEW c \in A, c \in m.all \/ c \in S
    PROVE  /\ Kept(Reset(m, c), S, A, F \cup {c})
           /\ Reset(m, c).all = m.all
BY DEF Reset, Kept, Shape

\* attending to a client counts it back in,
LEMMA AttendKept ==
    ASSUME NEW m, NEW S, NEW A, NEW F, Shape(m), Kept(m, S, A, F), NEW c \in A \cap S
    PROVE  Kept(Attend(m, c), S \ {c}, A, F)
BY DEF Attend, Put, Kept, Shape

\* a new client is listened to, now or after the grab,
LEMMA ConnectKept ==
    ASSUME NEW m, NEW S, NEW A, NEW F, Shape(m), Kept(m, S, A, F), NEW c,
           c \notin A \cup S \cup F, m.grab # c
    PROVE  Kept(Connect(m, c), S, A \cup {c}, F)
BY DEF Connect, Kept, Shape

\* a grab moves the others to the saved sets,
LEMMA OnlyListenToKept ==
    ASSUME NEW m, NEW S, NEW A, NEW F, Shape(m), Kept(m, S, A, F),
           NEW c \in A \ S, c \in m.all, c # 0, m.grab \in {0, c}
    PROVE  Kept(OnlyListenTo(m, c), S, A, F)
BY DEF OnlyListenTo, Kept, Shape

\* and the end of a grab brings them back.
LEMMA ListenToAllKept ==
    ASSUME NEW m, NEW S, NEW A, NEW F, Shape(m), Kept(m, S, A, F), m.grab \notin S \cap A
    PROVE  Kept(ListenToAll(m), S, A, F)
BY DEF ListenToAll, Kept, Shape

\* A client that is closed needs no account,
LEMMA FewerKept ==
    ASSUME NEW m, NEW S, NEW A, NEW F, Kept(m, S, A, F), NEW c
    PROVE  Kept(m, S \ {c}, A \ {c}, F \ {c})
BY DEF Kept

\* and closing its descriptor disturbs no other.
LEMMA CloseFdKept ==
    ASSUME NEW m, NEW S, NEW A, NEW F, Shape(m), NEW c, Kept(m, S, A, F), c \notin A,
           m.grab # c
    PROVE  Kept(CloseFd(m, c), S, A, F)
BY DEF CloseFd, Kept, Shape

-----------------------------------------------------------------------------
(* The invariant.                                                          *)

\* The clients with whole requests in their buffers.
Full == {c \in Alive : buf[c] > 0}

\* Nobody waits for a grab: only a client exempt from the grab of another can
\* have a turn in which to ask for it.  Nobody has a turn while put aside.
Apart ==
    /\ SetAside \subseteq Alive /\ grabWaiters = {} /\ asleep \cap delayed = {}
    /\ pc = "run" => cur \notin SetAside
    /\ pc \in {"run", "round"} => ready \cap SetAside = {}

Buffers ==
    /\ buf \in [Clients -> Nat] /\ sock \in [Clients -> Nat]
    /\ \A c \in Clients \ Alive : buf[c] = 0

Account == Kept(masks, SetAside, Alive, Full)

MaskInv == IInv /\ Account /\ Apart /\ Buffers

LEMMA InitMasks == ASSUME NoExempt, Init PROVE MaskInv
<1>1. IInv
  BY InitInv
<1>2. Account
  BY DEF NoExempt, Init, Account, Kept, Listening, SetAside, Full, Alive
<1>3. Apart
  BY ClientsAssumption DEF Init, Apart, SetAside, Listening
<1>4. Buffers
  BY DEF Init, Buffers
<1> QED
  BY <1>1, <1>2, <1>3, <1>4 DEF MaskInv

\* In its turn a client is listened to, and nobody else holds the server.
LEMMA TurnFacts ==
    ASSUME MaskInv, pc = "run"
    PROVE  /\ cur \in Alive \ SetAside /\ cur \in Clients /\ cur # 0
           /\ cur \in masks.all /\ masks.grab \in {0, cur}
           /\ cur \notin ready /\ ready \cap SetAside = {}
<1>1. cur \in Alive \ SetAside /\ cur \in Clients /\ cur # 0 /\ cur \notin ready
  BY CurMay DEF MaskInv, Apart, IInv, GrabInv, TurnOpen
<1>2. masks.grab \in {0, cur}
  BY DEF MaskInv, Account, Kept, IInv, GrabInv, GrabExcludes, GrabAgrees
<1>3. cur \in masks.all
  BY <1>1, <1>2 DEF MaskInv, Account, Kept
<1> QED
  BY <1>1, <1>2, <1>3 DEF MaskInv, Apart

\* A step that moves nobody: masks, sleepers, buffers and connections stay.
LEMMA QuietMasks ==
    ASSUME MaskInv,
           UNCHANGED <<masks, grabWaiters, asleep, delayed, buf>>,
           Alive' = Alive, sock' \in [Clients -> Nat],
           pc' = "run" => cur' \notin SetAside,
           pc' \in {"run", "round"} => ready' \cap SetAside = {}
    PROVE  Account' /\ Apart' /\ Buffers'
<1>1. SetAside' = SetAside /\ Full' = Full
  BY DEF SetAside, Full
<1>2. Account'
  BY <1>1 DEF MaskInv, Account, Kept
<1>3. Apart'
  BY <1>1 DEF MaskInv, Apart
<1>4. Buffers'
  BY DEF MaskInv, Buffers
<1> QED
  BY <1>2, <1>3, <1>4

LEMMA OutsideMasks ==
    ASSUME MaskInv, Outside
    PROVE  Account' /\ Apart' /\ Buffers'
<1>1. PICK c \in Clients : Knock(c) \/ Send(c) \/ HangUp(c) \/ WriteFails(c)
  BY DEF Outside
<1>2. UNCHANGED <<masks, grabWaiters, asleep, delayed, buf, pc, cur, ready>>
  BY <1>1 DEF Knock, Send, HangUp, WriteFails, grabVars, inputVars, sleepVars, turnVars
<1>3. Alive' = Alive
  <2>1. life' = life \/ (life[c] = "absent" /\ life' = [life EXCEPT ![c] = "knocking"])
    BY <1>1 DEF Knock, Send, HangUp, WriteFails
  <2> QED
    BY <2>1 DEF MaskInv, IInv, GrabTypes, Alive
<1>4. sock' \in [Clients -> Nat]
  BY <1>1 DEF MaskInv, Buffers, Knock, Send, HangUp, WriteFails, inputVars
<1> QED
  BY <1>2, <1>3, <1>4, QuietMasks DEF MaskInv, Apart

\* The server waits, and nobody is woken or accepted; rounds and turns begin.
LEMMA WaitingMasks ==
    ASSUME MaskInv,
           \/ StartAccept \/ SelectFails \/ CheckConnections \/ EndRound \/ NextTurn
           \/ EnterSelect \/ SelectReturns
           \/ \E c \in Clients : KillStraggler(c) \/ FontAnswer(c)
    PROVE  Account' /\ Apart' /\ Buffers'
<1> USE DEF grabVars, inputVars, sleepVars, turnVars, Idle
<1>1. UNCHANGED <<masks, grabWaiters, asleep, delayed, buf, sock, life>>
  BY DEF StartAccept, SelectFails, CheckConnections, EndRound, NextTurn, EnterSelect,
         SelectReturns, KillStraggler, FontAnswer
<1>2. Alive' = Alive /\ sock' \in [Clients -> Nat]
  BY <1>1 DEF Alive, MaskInv, Buffers
<1>3. (pc' = "run" => cur' \notin SetAside)
      /\ (pc' \in {"run", "round"} => ready' \cap SetAside = {})
  <2>1. CASE NextTurn
    BY <2>1 DEF NextTurn, MaskInv, Apart
  <2>2. CASE EnterSelect \/ SelectReturns
    <3>1. masks.input \subseteq masks.all /\ masks.all \cap SetAside = {}
      BY DEF MaskInv, Apart, Account, Kept
    <3>2. CASE EnterSelect
      BY <3>1, <3>2 DEF EnterSelect, Highest
    <3>3. CASE SelectReturns
      <4>1. PICK heard \in Heard : ready' \subseteq heard
        BY <3>3 DEF SelectReturns, Highest
      <4>2. heard \subseteq masks.all
        BY <3>1 DEF Heard, Readable
      <4> QED
        BY <3>1, <3>3, <4>1, <4>2 DEF SelectReturns
    <3> QED
      BY <2>2, <3>2, <3>3
  <2>3. CASE \/ StartAccept \/ SelectFails \/ CheckConnections \/ EndRound
             \/ \E c \in Clients : KillStraggler(c) \/ FontAnswer(c)
    BY <2>3 DEF StartAccept, SelectFails, CheckConnections, EndRound, KillStraggler,
                FontAnswer, MaskInv, Apart
  <2> QED
    BY <2>1, <2>2, <2>3
<1> QED
  BY <1>1, <1>2, <1>3, QuietMasks

\* A sleeper is attended, from select() or from the work queue.
LEMMA WakingMasks ==
    ASSUME MaskInv, FontOpened \/ \E c \in Clients : DelayExpires(c)
    PROVE  Account' /\ Apart' /\ Buffers'
<1> USE DEF grabVars, inputVars, sleepVars, turnVars, Idle
<1>1. /\ UNCHANGED <<grabWaiters, buf, sock, life, pc>> /\ pc \in {"wait", "select"}
  BY DEF FontOpened, DelayExpires
<1>2. Alive' = Alive /\ Full' = Full
  BY <1>1 DEF Alive, Full
<1>3. \/ UNCHANGED <<masks, asleep, delayed>>
      \/ \E c \in asleep \cup delayed :
           /\ masks' = Attend(masks, c)
           /\ asleep' = asleep \ {c} /\ delayed' = delayed \ {c}
  <2>1. CASE FontOpened
    BY <2>1 DEF FontOpened, MaskInv, Apart
  <2>2. CASE \E c \in Clients : DelayExpires(c)
    BY <2>2 DEF DelayExpires, MaskInv, Apart
  <2> QED
    BY <2>1, <2>2
<1>4. CASE UNCHANGED <<masks, asleep, delayed>>
  BY <1>1, <1>2, <1>4, QuietMasks DEF MaskInv, Buffers
<1>5. ASSUME NEW c \in asleep \cup delayed, masks' = Attend(masks, c),
             asleep' = asleep \ {c}, delayed' = delayed \ {c}
      PROVE  Account' /\ Apart' /\ Buffers'
  <2>1. c \in SetAside \cap Alive /\ SetAside' = SetAside \ {c}
    BY <1>1, <1>5 DEF MaskInv, Apart, SetAside
  <2>2. Shape(masks)
    BY DEF MaskInv, IInv, GrabTypes
  <2>3. Account'
    BY <1>2, <1>5, <2>1, <2>2, AttendKept DEF MaskInv, Account
  <2>5. Apart'
    BY <1>1, <1>2, <1>5, <2>1 DEF MaskInv, Apart
  <2>6. Buffers'
    BY <1>1, <1>2 DEF MaskInv, Buffers
  <2> QED
    BY <2>3, <2>5, <2>6
<1> QED
  BY <1>3, <1>4, <1>5

LEMMA AcceptMasks ==
    ASSUME MaskInv, NEW c \in Clients, Accept(c)
    PROVE  Account' /\ Apart' /\ Buffers'
<1> USE DEF grabVars, inputVars, sleepVars, turnVars, Idle
<1>1. /\ UNCHANGED <<grabWaiters, asleep, delayed, buf, sock>> /\ pc' = "wait"
      /\ masks' = Connect(masks, c) /\ life' = [life EXCEPT ![c] = "new"]
      /\ life[c] = "knocking"
  BY DEF Accept
<1>2. c \notin Alive /\ Alive' = Alive \cup {c} /\ SetAside' = SetAside
  BY <1>1 DEF MaskInv, IInv, GrabTypes, Alive, SetAside
<1>3. c \notin Full /\ Full' = Full /\ c \notin SetAside
  BY <1>1, <1>2 DEF Full, MaskInv, Buffers, Apart
<1>4. masks.grab # c /\ Shape(masks)
  BY <1>2, ClientsAssumption DEF MaskInv, IInv, GrabTypes, GrabInv, GrabAgrees
<1>5. Account'
  BY <1>1, <1>2, <1>3, <1>4, ConnectKept DEF MaskInv, Account
<1>7. Apart'
  BY <1>1, <1>2 DEF MaskInv, Apart
<1>8. Buffers'
  BY <1>1, <1>2 DEF MaskInv, Buffers
<1> QED
  BY <1>5, <1>7, <1>8
-----------------------------------------------------------------------------
(* Requests.                                                               *)

\* What can be read is a number.
LEMMA AtHandType == ASSUME MaskInv, pc = "run" PROVE AtHand \in Nat
<1>1. cur \in Clients
  BY TurnFacts
<1>2. buf[cur] \in Nat /\ sock[cur] \in Nat
  BY <1>1 DEF MaskInv, Buffers
<1> QED
  BY <1>2 DEF AtHand

\* Reading leaves the account true for any record of what is left to execute.
LEMMA ReadKept ==
    ASSUME MaskInv, pc = "run", NEW G, G \ {cur} = Full \ {cur}, cur \in G => AtHand > 1
    PROVE  /\ Kept(MasksRead, SetAside, Alive, G) /\ Shape(MasksRead)
           /\ MasksRead.all = masks.all /\ MasksRead.grab = masks.grab
<1>1. cur \in Alive \ SetAside /\ cur \in masks.all /\ Shape(masks)
  BY TurnFacts DEF MaskInv, IInv, GrabTypes
<1>2. PICK more \in BOOLEAN : more = (AtHand > 1)
  <2>1. (AtHand > 1) = TRUE \/ (AtHand > 1) = FALSE
    BY AtHandType
  <2> QED
    BY <2>1, Zenon
<1>3. MasksRead = SetInput(masks, cur, more)
  BY <1>2, Zenon DEF MasksRead
<1>4. cur \in G => more
  BY <1>2
<1>5. Kept(MasksRead, SetAside, Alive, G)
  BY <1>1, <1>3, <1>4, SetInputKept DEF MaskInv, Account
<1>6. Shape(MasksRead) /\ MasksRead.all = masks.all /\ MasksRead.grab = masks.grab
  BY <1>1, <1>3 DEF SetInput, Shape
<1> QED
  BY <1>5, <1>6

\* What is left in the buffers once a request is read: executed or put back.
LEMMA BufferFacts ==
    ASSUME MaskInv, pc = "run", AtHand > 0, Alive' = Alive,
           sock' = IF buf[cur] > 0 THEN sock ELSE [sock EXCEPT ![cur] = 0],
           buf' = [buf EXCEPT ![cur] = AtHand - 1] \/ buf' = [buf EXCEPT ![cur] = AtHand]
    PROVE  /\ Buffers'
           /\ Full' \ {cur} = Full \ {cur}
           /\ buf' = [buf EXCEPT ![cur] = AtHand - 1] => (cur \in Full' => AtHand > 1)
           /\ buf' = [buf EXCEPT ![cur] = AtHand] => Full' = (Full \ {cur}) \cup {cur}
<1>1. cur \in Alive /\ cur \in Clients /\ AtHand \in Nat
  BY TurnFacts, AtHandType
<1> DEFINE n == AtHand
<1>2. n - 1 \in Nat /\ n \in Nat /\ n > 0
  BY <1>1
<1> HIDE DEF n
<1>3. PICK k \in {n - 1, n} : buf' = [buf EXCEPT ![cur] = k]
  BY DEF n
<1>4. buf'[cur] = k /\ \A c \in Clients \ {cur} : buf'[c] = buf[c]
  BY <1>1, <1>3 DEF MaskInv, Buffers
<1>5. Buffers'
  <2>1. buf' \in [Clients -> Nat] /\ sock' \in [Clients -> Nat]
    BY <1>1, <1>2, <1>3 DEF MaskInv, Buffers
  <2> QED
    BY <1>1, <1>4, <2>1 DEF MaskInv, Buffers
<1>6. Full' \ {cur} = Full \ {cur}
  BY <1>4 DEF Full, Alive
<1>7. buf' = [buf EXCEPT ![cur] = n - 1] => (cur \in Full' => n > 1)
  <2> SUFFICES ASSUME buf' = [buf EXCEPT ![cur] = n - 1], cur \in Full' PROVE n > 1
    OBVIOUS
  <2>1. buf'[cur] = n - 1 /\ buf'[cur] > 0
    BY <1>1 DEF Full, MaskInv, Buffers
  <2> QED
    BY <1>2, <2>1
<1>8. buf' = [buf EXCEPT ![cur] = n] => Full' = (Full \ {cur}) \cup {cur}
  <2> SUFFICES ASSUME buf' = [buf EXCEPT ![cur] = n] PROVE cur \in Full'
    BY <1>6
  <2>1. buf'[cur] = n
    BY <1>1 DEF MaskInv, Buffers
  <2> QED
    BY <1>1, <1>2, <2>1 DEF Full
<1> QED
  BY <1>5, <1>6, <1>7, <1>8 DEF n

\* After a request that puts nobody aside.
LEMMA ApartAfter ==
    ASSUME MaskInv, pc = "run", UNCHANGED <<asleep, delayed, cur>>, Alive' = Alive,
           grabWaiters' = {}, ready' \subseteq ready, pc' \in {"run", "round"}
    PROVE  Apart' /\ SetAside' = SetAside
<1>1. SetAside' = SetAside
  BY DEF SetAside, MaskInv, Apart
<1> QED
  BY <1>1, TurnFacts DEF MaskInv, Apart

LEMMA NothingMasks ==
    ASSUME MaskInv, ReadNothing
    PROVE  Account' /\ Apart' /\ Buffers'
<1> USE DEF grabVars, inputVars, sleepVars, turnVars, Idle
<1>1. /\ UNCHANGED <<grabWaiters, asleep, delayed, buf, sock, life, ready, cur>>
      /\ pc = "run" /\ pc' = "round" /\ AtHand = 0
  BY DEF ReadNothing
<1>2. Alive' = Alive /\ Full' = Full /\ SetAside' = SetAside
  BY <1>1 DEF Alive, Full, SetAside
<1>3. masks' = masks \/ masks' = SetInput(masks, cur, FALSE)
  BY DEF ReadNothing
<1>4. cur \notin Full
  BY <1>1, TurnFacts DEF AtHand, Full, MaskInv, Buffers
<1>5. Account'
  <2>1. CASE masks' = masks
    BY <1>2, <2>1 DEF MaskInv, Account
  <2>2. CASE masks' = SetInput(masks, cur, FALSE)
    <3>1. MasksRead = SetInput(masks, cur, FALSE)
      <4>1. (AtHand > 1) = FALSE
        BY <1>1
      <4> QED
        BY <4>1, Zenon DEF MasksRead
    <3>2. Kept(MasksRead, SetAside, Alive, Full)
      BY <1>1, <1>4, ReadKept
    <3> QED
      BY <1>2, <2>2, <3>1, <3>2 DEF Account
  <2> QED
    BY <1>3, <2>1, <2>2
<1>6. Apart'
  BY <1>1, <1>2, ApartAfter DEF MaskInv, Apart
<1>7. Buffers'
  BY <1>1, <1>2 DEF MaskInv, Buffers
<1> QED
  BY <1>5, <1>6, <1>7

\* The requests that neither grab nor sleep.
LEMMA PlainMasks ==
    ASSUME MaskInv, Noop \/ Setup \/ KillClient \/ SetPriority
    PROVE  Account' /\ Apart' /\ Buffers'
<1> USE DEF grabVars, inputVars, sleepVars, turnVars, Idle
<1>1. /\ UNCHANGED <<grabWaiters, asleep, delayed, cur>> /\ ready' \subseteq ready
      /\ pc = "run" /\ pc' \in {"run", "round"} /\ AtHand > 0
      /\ sock' = IF buf[cur] > 0 THEN sock ELSE [sock EXCEPT ![cur] = 0]
      /\ buf' = [buf EXCEPT ![cur] = AtHand - 1] /\ masks' = MasksRead
  BY DEF Noop, Setup, KillClient, SetPriority, Reads, Consume, Return, Proceed
<1>2. Alive' = Alive
  <2>1. life' = life \/ life' = [life EXCEPT ![cur] = "running"]
    BY DEF Noop, Setup, KillClient, SetPriority
  <2>2. cur \in Alive
    BY <1>1, TurnFacts
  <2> QED
    BY <2>1, <2>2 DEF MaskInv, IInv, GrabTypes, Alive
<1>3. Apart' /\ SetAside' = SetAside
  BY <1>1, <1>2, ApartAfter DEF MaskInv, Apart
<1>4. Buffers' /\ Full' \ {cur} = Full \ {cur} /\ (cur \in Full' => AtHand > 1)
  BY <1>1, <1>2, BufferFacts
<1>5. Account'
  <2>1. Kept(MasksRead, SetAside, Alive, Full')
    BY <1>1, <1>4, ReadKept
  <2> QED
    BY <1>1, <1>2, <1>3, <2>1 DEF Account
<1> QED
  BY <1>3, <1>4, <1>5

\* Grabbing and releasing the server: only its holder has turns during a grab,
\* so whoever releases it is its holder.
LEMMA GrabMasks ==
    ASSUME NoExempt, MaskInv, GrabServer \/ UngrabServer
    PROVE  Account' /\ Apart' /\ Buffers'
<1> USE DEF grabVars, inputVars, sleepVars, turnVars, Idle
<1>1. /\ UNCHANGED <<asleep, delayed, ready, cur, life>>
      /\ pc = "run" /\ pc' \in {"run", "round"} /\ AtHand > 0
      /\ sock' = IF buf[cur] > 0 THEN sock ELSE [sock EXCEPT ![cur] = 0]
      /\ buf' = [buf EXCEPT ![cur] = AtHand - 1]
  BY DEF GrabServer, UngrabServer, Reads, Consume, Return, Proceed
<1>2. Alive' = Alive
  BY <1>1 DEF Alive
<1>3. grabWaiters = {} /\ grabWaiters' = {}
  BY DEF MaskInv, Apart, GrabServer, UngrabServer, StillWaiting
<1>4. Apart' /\ SetAside' = SetAside
  BY <1>1, <1>2, <1>3, ApartAfter
<1>5. Buffers' /\ Full' \ {cur} = Full \ {cur} /\ (cur \in Full' => AtHand > 1)
  BY <1>1, <1>2, BufferFacts
<1>6. /\ Kept(MasksRead, SetAside, Alive, Full') /\ Shape(MasksRead)
      /\ MasksRead.all = masks.all /\ MasksRead.grab = masks.grab
  BY <1>1, <1>5, ReadKept
<1>7. Account'
  <2>1. CASE GrabServer
    <3>1. masks' = OnlyListenTo(MasksRead, cur)
      BY <2>1 DEF GrabServer
    <3>2. Kept(OnlyListenTo(MasksRead, cur), SetAside, Alive, Full')
      BY <1>1, <1>6, TurnFacts, OnlyListenToKept
    <3> QED
      BY <1>2, <1>4, <3>1, <3>2 DEF Account
  <2>2. CASE UngrabServer
    <3>1. masks' = ListenToAll(MasksRead)
      BY <1>3, <2>2 DEF UngrabServer, Ungrabbed
    <3>2. MasksRead.grab \notin SetAside \cap Alive
      BY <1>1, <1>6, TurnFacts, ClientsAssumption DEF Alive
    <3>3. Kept(ListenToAll(MasksRead), SetAside, Alive, Full')
      BY <1>6, <3>2, ListenToAllKept
    <3> QED
      BY <1>2, <1>4, <3>1, <3>3 DEF Account
  <2> QED
    BY <2>1, <2>2
<1> QED
  BY <1>4, <1>5, <1>7

\* A client without exemptions never finds the server held by another.
LEMMA NobodyWaits == ASSUME MaskInv, pc = "run" PROVE MayGrab
<1>1. grabState # "none" => masks.grab = grabClient /\ grabClient # 0
  BY ClientsAssumption DEF MaskInv, IInv, GrabInv, GrabAgrees, Alive
<1> QED
  BY <1>1, TurnFacts DEF MayGrab

\* The client that asks is put aside, its request executed or put back.
LEMMA SleepMasks ==
    ASSUME MaskInv, OpenFont \/ DelayInput
    PROVE  Account' /\ Apart' /\ Buffers'
<1> USE DEF grabVars, inputVars, sleepVars, turnVars, Idle
<1>1. /\ UNCHANGED <<grabWaiters, ready, cur, life>>
      /\ pc = "run" /\ pc' = "round" /\ AtHand > 0
      /\ sock' = IF buf[cur] > 0 THEN sock ELSE [sock EXCEPT ![cur] = 0]
  BY DEF OpenFont, DelayInput, Reads, Consume, PutBack, Return, Proceed
<1>2. Alive' = Alive
  BY <1>1 DEF Alive
<1>3. SetAside' = SetAside \cup {cur}
  BY <1>1 DEF OpenFont, DelayInput, SetAside
<1>4. Apart'
  <2>1. cur \notin SetAside /\ cur \in Alive /\ cur \notin ready
    BY <1>1, TurnFacts
  <2>2. asleep' \cap delayed' = {}
    BY <2>1 DEF OpenFont, DelayInput, SetAside, MaskInv, Apart
  <2> QED
    BY <1>1, <1>2, <1>3, <2>1, <2>2 DEF MaskInv, Apart
<1>5. Shape(masks) /\ cur \in Alive \ SetAside /\ cur \in masks.all
  BY <1>1, TurnFacts DEF MaskInv, IInv, GrabTypes
<1>6. CASE OpenFont
  <2>1. buf' = [buf EXCEPT ![cur] = AtHand - 1] /\ masks' = Ignore(MasksRead, cur)
    BY <1>6 DEF OpenFont, Consume
  <2>2. Buffers' /\ Full' \ {cur} = Full \ {cur} /\ (cur \in Full' => AtHand > 1)
    BY <1>1, <1>2, <2>1, BufferFacts
  <2>3. Kept(MasksRead, SetAside, Alive, Full') /\ Shape(MasksRead) /\ cur \in MasksRead.all
    BY <1>1, <1>5, <2>2, ReadKept
  <2>4. Kept(Ignore(MasksRead, cur), SetAside \cup {cur}, Alive, Full')
    BY <1>5, <2>3, IgnoreKept
  <2> QED
    BY <1>2, <1>3, <1>4, <2>1, <2>2, <2>4 DEF Account
<1>7. CASE DelayInput
  <2> DEFINE away == Ignore(MasksRead, cur)
  <2>1. buf' = [buf EXCEPT ![cur] = AtHand] /\ masks' = Reset(away, cur)
    BY <1>7 DEF DelayInput, PutBack
  <2>2. Buffers' /\ Full' = (Full \ {cur}) \cup {cur}
    BY <1>1, <1>2, <2>1, BufferFacts
  <2>3. /\ Kept(MasksRead, SetAside, Alive, Full \ {cur})
        /\ Shape(MasksRead) /\ cur \in MasksRead.all
    BY <1>1, <1>5, ReadKept
  <2>4. Kept(away, SetAside \cup {cur}, Alive, Full \ {cur})
    BY <1>5, <2>3, IgnoreKept
  <2>5. Shape(away)
    BY <2>3 DEF Ignore, Put, Shape
  <2> HIDE DEF away
  <2>6. Kept(Reset(away, cur), SetAside \cup {cur}, Alive, Full')
    BY <1>5, <2>2, <2>4, <2>5, ResetKept
  <2> QED
    BY <1>2, <1>3, <1>4, <2>1, <2>2, <2>6 DEF Account
<1> QED
  BY <1>6, <1>7, Zenon

\* Giving up an exemption one does not have changes no mask.
LEMMA ControlMasks ==
    ASSUME NoExempt, MaskInv, GrabControl
    PROVE  Account' /\ Apart' /\ Buffers'
<1> USE DEF grabVars, inputVars, sleepVars, turnVars, Idle
<1>1. /\ UNCHANGED <<grabWaiters, asleep, delayed, ready, cur, life>>
      /\ pc = "run" /\ pc' \in {"run", "round"} /\ AtHand > 0
      /\ sock' = IF buf[cur] > 0 THEN sock ELSE [sock EXCEPT ![cur] = 0]
      /\ buf' = [buf EXCEPT ![cur] = AtHand - 1]
  BY DEF GrabControl, Reads, Consume, Return, Proceed
<1>2. Alive' = Alive
  BY <1>1 DEF Alive
<1>3. Apart' /\ SetAside' = SetAside
  BY <1>1, <1>2, ApartAfter DEF MaskInv, Apart
<1>4. Buffers' /\ Full' \ {cur} = Full \ {cur} /\ (cur \in Full' => AtHand > 1)
  BY <1>1, <1>2, BufferFacts
<1>5. /\ Kept(MasksRead, SetAside, Alive, Full') /\ Shape(MasksRead)
      /\ MasksRead.grab \in {0, cur}
  BY <1>1, <1>4, ReadKept, TurnFacts
<1>6. masks' = MakePervious(MasksRead, cur)
  <2>1. ~Reads("impervious")
    BY <1>1, TurnFacts DEF Reads, NoExempt
  <2> QED
    BY <2>1 DEF GrabControl
<1>7. MakePervious(MasksRead, cur) = MasksRead
  BY <1>5 DEF MakePervious, Kept, Shape
<1> QED
  BY <1>2, <1>3, <1>4, <1>5, <1>6, <1>7 DEF Account

-----------------------------------------------------------------------------
(* The end of a connection.                                                *)

LEMMA CloseMasks ==
    ASSUME MaskInv, CloseDownClient
    PROVE  Account' /\ Apart' /\ Buffers'
<1> DEFINE c == Head(closing)
           S == SetAside \ {c}
           A == Alive \ {c}
           F == Full \ {c}
<1> USE DEF turnVars
<1>1. c \in Clients /\ c # 0 /\ Shape(masks)
  BY ClientsAssumption DEF CloseDownClient, MaskInv, IInv, GrabTypes
<1>2. /\ life' = [life EXCEPT ![c] = "absent"] /\ buf' = [buf EXCEPT ![c] = 0]
      /\ sock' = [sock EXCEPT ![c] = 0] /\ asleep' = asleep \ {c}
      /\ delayed' = delayed \ {c} /\ UNCHANGED <<ready, cur, pc>> /\ grabWaiters' = {}
  BY DEF CloseDownClient, MaskInv, Apart, StillWaiting
<1>3. Alive' = A /\ SetAside' = S
  BY <1>1, <1>2 DEF Alive, SetAside, MaskInv, Apart, IInv, GrabTypes
<1>4. Full' = F
  <2>1. \A d \in Clients : buf'[d] = IF d = c THEN 0 ELSE buf[d]
    BY <1>2 DEF MaskInv, Buffers
  <2>2. ~(0 > 0)
    OBVIOUS
  <2> QED
    BY <1>1, <1>3, <2>1, <2>2 DEF Full, Alive
<1>5. Kept(masks, S, A, F)
  BY FewerKept DEF MaskInv, Account
<1> DEFINE m == IF IsHolder(c) THEN ListenToAll(masks) ELSE masks
<1>6. masks' = CloseFd(m, c)
  BY DEF CloseDownClient, Ungrabbed, MaskInv, Apart
<1>7. Kept(m, S, A, F) /\ Shape(m) /\ m.grab # c
  <2>1. CASE IsHolder(c)
    <3>1. masks.grab = c
      BY <2>1 DEF IsHolder, MaskInv, IInv, GrabInv, GrabAgrees
    <3>2. Kept(ListenToAll(masks), S, A, F)
      BY <1>1, <1>5, <3>1, ListenToAllKept
    <3>3. Shape(ListenToAll(masks)) /\ ListenToAll(masks).grab = 0
      BY GoodMasks, ListenToAllFrees DEF Good, MaskInv
    <3> QED
      BY <1>1, <2>1, <3>2, <3>3
  <2>2. CASE ~IsHolder(c)
    <3>1. masks.grab # c
      BY <1>1, <2>2 DEF IsHolder, MaskInv, IInv, GrabInv, GrabAgrees
    <3> QED
      BY <1>1, <1>5, <2>2, <3>1
  <2> QED
    BY <2>1, <2>2
<1> HIDE DEF m
<1>8. Account'
  <2>1. Kept(CloseFd(m, c), S, A, F)
    BY <1>7, CloseFdKept
  <2> QED
    BY <1>3, <1>4, <1>6, <2>1 DEF Account
<1>9. Apart'
  BY <1>2, <1>3 DEF MaskInv, Apart
<1>10. Buffers'
  <2>1. \A d \in Clients : buf'[d] = IF d = c THEN 0 ELSE buf[d]
    BY <1>2 DEF MaskInv, Buffers
  <2>2. buf' \in [Clients -> Nat] /\ sock' \in [Clients -> Nat]
    BY <1>2 DEF MaskInv, Buffers
  <2> QED
    BY <1>3, <2>1, <2>2 DEF MaskInv, Buffers
<1> QED
  BY <1>8, <1>9, <1>10

-----------------------------------------------------------------------------
(* The theorems.                                                           *)

LEMMA NextMasks ==
    ASSUME NoExempt, MaskInv, [Next]_vars
    PROVE  MaskInv'
<1> SUFFICES Account' /\ Apart' /\ Buffers'
  BY NextKeeps DEF MaskInv
<1>2. CASE UNCHANGED vars
  BY <1>2, QuietMasks DEF vars, grabVars, inputVars, sleepVars, turnVars, MaskInv, Apart,
     Buffers, Alive
<1>3. CASE Outside
  BY <1>3, OutsideMasks
<1>4. CASE Answers
  BY <1>4, WaitingMasks, WakingMasks DEF Answers
<1>5. CASE CloseDownClient
  BY <1>5, CloseMasks
<1>6. CASE Waiting
  BY <1>6, WaitingMasks, WakingMasks, AcceptMasks DEF Waiting
<1>7. CASE Serving
  <2>1. ~WaitForGrab
    BY NobodyWaits DEF WaitForGrab, Reads, Idle
  <2> QED
    BY <1>7, <2>1, WaitingMasks, NothingMasks, PlainMasks, GrabMasks, SleepMasks,
       ControlMasks DEF Serving
<1> QED
  BY <1>2, <1>3, <1>4, <1>5, <1>6, <1>7 DEF Next, Server

\* Together: the invariant of the masks, when nobody is exempt.
LEMMA MasksAccounted == ASSUME NoExempt PROVE Spec => []MaskInv
<1>1. Init => MaskInv
  BY InitMasks
<1>2. MaskInv /\ [Next]_vars => MaskInv'
  BY NextMasks
<1> QED
  BY <1>1, <1>2, PTL DEF Spec

\* As long as no client is exempt from grabs, IgnoreClient keeps its word: who
\* sleeps on a font or on a delayed input is in neither mask WaitForSomething
\* chooses from, AllClients and ClientsWithInput.
THEOREM SleepersIgnored == NoExempt => (Spec => []AsideIgnored)
<1> SUFFICES ASSUME NoExempt PROVE Spec => []AsideIgnored
  OBVIOUS
<1>1. MaskInv => AsideIgnored
  BY DEF MaskInv, Account, Kept, Apart, AsideIgnored
<1> QED
  BY <1>1, MasksAccounted, PTL

\* Neither IgnoreClient, AttendClient, the grab nor a new connection during it
\* drops a client: who is not put aside is heard, at the latest after the grab.
THEOREM NobodyDropped == NoExempt => (Spec => []OthersHeard)
<1> SUFFICES ASSUME NoExempt PROVE Spec => []OthersHeard
  OBVIOUS
<1>1. MaskInv => OthersHeard
  BY DEF MaskInv, Account, Kept, OthersHeard
<1> QED
  BY <1>1, MasksAccounted, PTL

\* A request left in the buffer of os/io.c, which select() cannot see, stays
\* recorded through grabs, sleep and the putting back of requests.
THEOREM NoRequestForgotten == NoExempt => (Spec => []BufferedKnown)
<1> SUFFICES ASSUME NoExempt PROVE Spec => []BufferedKnown
  OBVIOUS
<1>1. MaskInv => BufferedKnown
  BY DEF MaskInv, Account, Kept, Full, BufferedKnown
<1> QED
  BY <1>1, MasksAccounted, PTL

-----------------------------------------------------------------------------
(* The promise of the protocol.                                            *)

\* Who holds the server, whose turn it is, and whom the server may cut off, as
\* the promise has it.
Holder == IF grabState = "none" THEN 0 ELSE grabClient
Served == IF pc = "run" \/ (pc = "round" /\ closing # <<>>) THEN cur ELSE 0
Late == broken \cup {c \in Clients : life[c] = "new"}

\* Clients are closed in a turn, or one at a time because they are late.
Ending ==
    /\ broken \subseteq Alive
    /\ closing # <<>> => IF pc \in {"run", "round"} THEN cur # 0
                         ELSE \E c \in Late : closing = <<c>>

LEMMA OutsideEnding ==
    ASSUME MaskInv, Ending, Outside
    PROVE  Ending'
<1> USE DEF inputVars, turnVars
<1>1. PICK c \in Clients : Knock(c) \/ Send(c) \/ HangUp(c) \/ WriteFails(c)
  BY DEF Outside
<1>2. UNCHANGED <<pc, cur, closing>>
  BY <1>1 DEF Knock, Send, HangUp, WriteFails
<1>3. /\ life' = life \/ (life[c] = "absent" /\ life' = [life EXCEPT ![c] = "knocking"])
      /\ \/ broken' = broken
         \/ closing = <<>> /\ c \in Alive /\ broken' = broken \cup {c}
  BY <1>1 DEF Knock, Send, HangUp, WriteFails
<1>4. Alive' = Alive /\ {d \in Clients : life'[d] = "new"} = {d \in Clients : life[d] = "new"}
  BY <1>3 DEF MaskInv, IInv, GrabTypes, Alive
<1> QED
  BY <1>2, <1>3, <1>4 DEF Ending, Late

\* A step between the turns that closes nobody, and one in a turn.
LEMMA IdleEnding ==
    ASSUME MaskInv, Ending, broken' = broken, Alive \subseteq Alive',
           \/ closing' = <<>>
           \/ pc = "run" /\ pc' \in {"run", "round"} /\ cur' = cur
           \/ pc' \notin {"run", "round"} /\ \E c \in Late' : closing' = <<c>>
    PROVE  Ending'
BY TurnFacts DEF Ending

LEMMA ServerEnding ==
    ASSUME MaskInv, Ending, Answers \/ Waiting \/ Serving
    PROVE  Ending'
<1> USE DEF grabVars, inputVars, sleepVars, turnVars, Idle
<1>1. CASE \/ Answers \/ FontOpened \/ StartAccept \/ EnterSelect \/ SelectReturns
           \/ SelectFails \/ NextTurn \/ EndRound
  <2>1. UNCHANGED <<broken, life, closing>> /\ closing = <<>>
    BY <1>1 DEF Answers, FontAnswer, DelayExpires, FontOpened, StartAccept, EnterSelect,
       SelectReturns, SelectFails, NextTurn, EndRound
  <2> QED
    BY <2>1, IdleEnding DEF Alive
<1>2. CASE CheckConnections \/ \E c \in Clients : KillStraggler(c)
  <2>1. UNCHANGED <<broken, life>>
    BY <1>2 DEF CheckConnections, KillStraggler
  <2>2. closing' = <<>> \/ (pc' \notin {"run", "round"} /\ \E c \in Late : closing' = <<c>>)
    BY <1>2 DEF CheckConnections, KillStraggler, Late
  <2> QED
    BY <2>1, <2>2, IdleEnding DEF Alive, Late
<1>3. ASSUME NEW c \in Clients, Accept(c) PROVE Ending'
  <2>1. UNCHANGED <<broken, closing>> /\ closing = <<>> /\ life' = [life EXCEPT ![c] = "new"]
    BY <1>3 DEF Accept
  <2>2. Alive \subseteq Alive'
    BY <2>1 DEF Alive, MaskInv, IInv, GrabTypes
  <2> QED
    BY <2>1, <2>2, IdleEnding
<1>4. CASE \/ ReadNothing \/ Noop \/ Setup \/ GrabServer \/ WaitForGrab \/ UngrabServer
           \/ OpenFont \/ DelayInput \/ KillClient \/ GrabControl \/ SetPriority
  <2>1. /\ pc = "run" /\ pc' \in {"run", "round"} /\ UNCHANGED <<cur, broken>>
        /\ life' = life \/ life' = [life EXCEPT ![cur] = "running"]
    BY <1>4 DEF ReadNothing, Noop, Setup, GrabServer, WaitForGrab, UngrabServer, OpenFont,
       DelayInput, KillClient, GrabControl, SetPriority, Reads, Return, Proceed
  <2>2. Alive \subseteq Alive'
    BY <2>1 DEF Alive, MaskInv, IInv, GrabTypes
  <2> QED
    BY <2>1, <2>2, IdleEnding
<1> QED
  BY <1>1, <1>2, <1>3, <1>4 DEF Waiting, Serving

LEMMA CloseEnding ==
    ASSUME MaskInv, Ending, CloseDownClient
    PROVE  Ending'
<1> USE DEF turnVars
<1>1. /\ closing # <<>> /\ closing' = Tail(closing) /\ UNCHANGED <<pc, cur>>
      /\ life' = [life EXCEPT ![Head(closing)] = "absent"]
      /\ broken' = broken \ {Head(closing)}
  BY DEF CloseDownClient
<1>2. broken' \subseteq Alive'
  BY <1>1 DEF Ending, Alive, MaskInv, IInv, GrabTypes
<1>3. ASSUME NEW c, closing = <<c>> PROVE closing' = <<>>
  BY <1>1, <1>3
<1> QED
  BY <1>1, <1>2, <1>3 DEF Ending

\* What the promise rests on.
PromiseInv == MaskInv /\ Ending

LEMMA InitPromiseInv == ASSUME NoExempt, Init PROVE PromiseInv
BY InitMasks DEF Init, Ending, PromiseInv

LEMMA NextPromiseInv ==
    ASSUME NoExempt, PromiseInv, [Next]_vars
    PROVE  PromiseInv'
<1>1. MaskInv'
  BY NextMasks DEF PromiseInv
<1>2. CASE UNCHANGED vars
  BY <1>1, <1>2 DEF vars, turnVars, PromiseInv, Ending, Late, Alive
<1> QED
  BY <1>1, <1>2, OutsideEnding, ServerEnding, CloseEnding DEF PromiseInv, Next, Server

\* The turn of a client finds it connected, and the server held by it or by
\* nobody.
LEMMA InTurn ==
    ASSUME MaskInv, pc = "run"
    PROVE  /\ Served = cur /\ cur # 0 /\ cur \in Alive /\ cur \in Clients
           /\ Holder \in {0, cur}
BY TurnFacts DEF Served, Holder, MaskInv, IInv, GrabInv, GrabAgrees

\* A step that leaves the connections and the holder alone, and at most ends
\* the turn.
LEMMA NoNews ==
    ASSUME Alive' = Alive, masks'.impervious = masks.impervious, Late' = Late,
           Holder' = Holder, Served' \in {0, Served}
    PROVE  [Promise!Next]_(Promise!vars)
BY DEF Promise!Next, Promise!vars, Promise!Done, Holder, Served, Late

\* The steps outside Dispatch: a failed write and a new connection show.
LEMMA WaitingPromise ==
    ASSUME MaskInv, MaskInv', Outside \/ Answers \/ Waiting
    PROVE  [Promise!Next]_(Promise!vars)
<1> USE DEF grabVars, inputVars, sleepVars, turnVars, Idle
<1>0. masks.impervious = {} /\ masks'.impervious = {}
  BY DEF MaskInv, Account, Kept
<1>1. ASSUME NEW c \in Clients, Knock(c) \/ Send(c) \/ HangUp(c)
      PROVE  [Promise!Next]_(Promise!vars)
  <2>1. /\ life' = life \/ (life[c] = "absent" /\ life' = [life EXCEPT ![c] = "knocking"])
        /\ UNCHANGED <<grabState, grabClient, broken, pc, cur, closing>>
    BY <1>1 DEF Knock, Send, HangUp
  <2>2. Alive' = Alive /\ {d \in Clients : life'[d] = "new"} = {d \in Clients : life[d] = "new"}
    BY <2>1 DEF MaskInv, IInv, GrabTypes, Alive
  <2> QED
    BY <1>0, <2>1, <2>2, NoNews DEF Holder, Served, Late
<1>2. ASSUME NEW c \in Clients, WriteFails(c)
      PROVE  [Promise!Next]_(Promise!vars)
  <2>1. /\ UNCHANGED <<grabState, grabClient, life, pc, cur, closing>> /\ pc = "run"
        /\ c \in Alive /\ broken' = broken \cup {c}
    BY <1>2 DEF WriteFails
  <2>2. Alive' = Alive /\ Late' = Late \cup {c}
    BY <2>1 DEF Alive, Late
  <2>3. Promise!Fail(c)
    BY <1>0, <2>1, <2>2, InTurn DEF Promise!Fail, Holder, Served, Late
  <2> QED
    BY <2>3 DEF Promise!Next
<1>3. ASSUME NEW c \in Clients, Accept(c)
      PROVE  [Promise!Next]_(Promise!vars)
  <2>1. /\ UNCHANGED <<grabState, grabClient, broken>> /\ pc = "accept" /\ pc' = "wait"
        /\ life[c] = "knocking" /\ life' = [life EXCEPT ![c] = "new"]
    BY <1>3 DEF Accept
  <2>2. c \notin Alive /\ Alive' = Alive \cup {c} /\ Late' = Late \cup {c}
    BY <2>1 DEF MaskInv, IInv, GrabTypes, Alive, Late
  <2>3. Promise!Open(c)
    BY <1>0, <2>1, <2>2 DEF Promise!Open, Late
  <2> QED
    BY <2>3 DEF Promise!Next
<1>4. CASE \/ FontOpened \/ StartAccept \/ EnterSelect \/ SelectReturns \/ SelectFails
           \/ CheckConnections
           \/ \E c \in Clients : FontAnswer(c) \/ DelayExpires(c) \/ KillStraggler(c)
  <2>1. UNCHANGED <<grabState, grabClient, life, broken, cur>> /\ pc # "run" /\ pc' # "run"
    BY <1>4 DEF FontOpened, StartAccept, EnterSelect, SelectReturns, SelectFails,
       CheckConnections, FontAnswer, DelayExpires, KillStraggler
  <2>2. pc' = "round" => closing' = <<>>
    BY <1>4 DEF FontOpened, StartAccept, EnterSelect, SelectReturns, SelectFails,
       CheckConnections, FontAnswer, DelayExpires, KillStraggler
  <2> QED
    BY <1>0, <2>1, <2>2, NoNews DEF Alive, Holder, Served, Late
<1> QED
  BY <1>1, <1>2, <1>3, <1>4 DEF Outside, Answers, Waiting

\* The steps of Dispatch.
LEMMA ServingPromise ==
    ASSUME NoExempt, MaskInv, MaskInv', Serving
    PROVE  [Promise!Next]_(Promise!vars)
<1> USE DEF grabVars, inputVars, sleepVars, turnVars, Idle
<1>0. masks.impervious = {} /\ masks'.impervious = {}
  BY DEF MaskInv, Account, Kept
<1>1. CASE NextTurn
  <2>1. /\ UNCHANGED <<grabClient, life, broken, closing>> /\ pc = "round" /\ closing = <<>>
        /\ Alive' = Alive /\ Late' = Late
    BY <1>1 DEF NextTurn, Alive, Late
  <2>2. \/ UNCHANGED <<cur, pc, grabState>>
        \/ grabState = "kickout" /\ grabState' = "active" /\ pc' = "wait"
        \/ cur' \in Alive /\ pc' = "run" /\ UNCHANGED grabState
    BY <1>1 DEF NextTurn
  <2>3. CASE \/ UNCHANGED <<cur, pc, grabState>>
             \/ grabState = "kickout" /\ grabState' = "active" /\ pc' = "wait"
    BY <1>0, <2>1, <2>3, NoNews DEF Holder, Served
  <2>4. CASE cur' \in Alive /\ pc' = "run" /\ UNCHANGED grabState
    <3>1. grabState # "none" => cur' = grabClient
      BY <1>0, <2>1, <2>4 DEF MaskInv, IInv, GrabInv, GrabExcludes
    <3>2. Promise!Turn(cur')
      BY <1>0, <2>1, <2>4, <3>1 DEF Promise!Turn, Promise!ShutOut, Late
    <3> QED
      BY <2>4, <3>2 DEF Promise!Next, Alive
  <2> QED
    BY <2>2, <2>3, <2>4
<1>2. CASE EndRound
  BY <1>0, <1>2, NoNews DEF EndRound, Alive, Holder, Served, Late
<1>3. CASE \/ ReadNothing \/ Noop \/ OpenFont \/ DelayInput \/ KillClient \/ GrabControl
           \/ SetPriority
  <2>1. /\ UNCHANGED <<grabState, grabClient, cur, life, broken>>
        /\ pc = "run" /\ pc' \in {"run", "round"}
    BY <1>3 DEF ReadNothing, Noop, OpenFont, DelayInput, KillClient, GrabControl,
       SetPriority, Reads, Return, Proceed
  <2> QED
    BY <1>0, <2>1, NoNews DEF Alive, Holder, Served, Late
<1>4. CASE Setup
  <2>1. /\ UNCHANGED <<grabState, grabClient, cur, broken>>
        /\ pc = "run" /\ pc' \in {"run", "round"}
        /\ life' = life \/ life' = [life EXCEPT ![cur] = "running"]
    BY <1>4 DEF Setup, Reads, Return, Proceed
  <2>2. Served = cur /\ cur # 0 /\ cur \in Alive /\ cur \in Clients
    BY <2>1, InTurn
  <2>3. Alive' = Alive /\ Late' \in {Late, Late \ {cur}}
    BY <2>1, <2>2 DEF MaskInv, IInv, GrabTypes, Alive, Late
  <2>4. Promise!Admit
    BY <1>0, <2>1, <2>2, <2>3 DEF Promise!Admit, Holder, Served, Late
  <2> QED
    BY <2>4 DEF Promise!Next
<1>5. CASE GrabServer
  <2>1. /\ UNCHANGED <<life, cur, broken>> /\ pc = "run" /\ pc' \in {"run", "round"}
        /\ grabState' = "kickout" /\ grabClient' = cur
    BY <1>5 DEF GrabServer, Reads, Return, Proceed
  <2>2. Promise!Grab
    BY <1>0, <2>1, InTurn DEF Promise!Grab, Alive, Holder, Served
  <2> QED
    BY <2>2 DEF Promise!Next
<1>6. CASE UngrabServer
  <2>1. /\ UNCHANGED <<life, cur, broken>> /\ pc = "run" /\ pc' \in {"run", "round"}
        /\ grabState' = "none"
    BY <1>6 DEF UngrabServer, Reads, Return, Proceed
  <2>2. CASE Holder = 0
    BY <1>0, <2>1, <2>2, NoNews DEF Alive, Holder, Served, Late
  <2>3. CASE Holder = cur
    <3>1. Promise!Ungrab
      BY <1>0, <2>1, <2>3, InTurn DEF Promise!Ungrab, Alive, Holder, Served
    <3> QED
      BY <3>1 DEF Promise!Next
  <2> QED
    BY <2>1, <2>2, <2>3, InTurn
<1>7. ~WaitForGrab
  BY NobodyWaits DEF WaitForGrab, Reads
<1> QED
  BY <1>1, <1>2, <1>3, <1>4, <1>5, <1>6, <1>7 DEF Serving

\* A connection ends, in a turn or because it was late, and the hold of its
\* client with it.
LEMMA ClosePromise ==
    ASSUME PromiseInv, PromiseInv', CloseDownClient
    PROVE  [Promise!Next]_(Promise!vars)
<1> USE DEF turnVars
<1>0. masks.impervious = {} /\ masks'.impervious = {}
  BY DEF PromiseInv, MaskInv, Account, Kept
<1>1. PICK c \in Clients : c = Head(closing) /\ c # 0
  <2>1. Head(closing) \in Clients
    BY DEF CloseDownClient, PromiseInv, MaskInv, IInv, GrabTypes
  <2> QED
    BY <2>1, ClientsAssumption, Zenon
<1>2. /\ life' = [life EXCEPT ![c] = "absent"] /\ UNCHANGED <<grabClient, cur, pc>>
      /\ grabState' = IF IsHolder(c) THEN "none" ELSE grabState
      /\ broken' = broken \ {c}
  <2>1. /\ life' = [life EXCEPT ![Head(closing)] = "absent"]
        /\ grabState' = IF IsHolder(Head(closing)) THEN "none" ELSE grabState
        /\ broken' = broken \ {Head(closing)} /\ UNCHANGED <<grabClient, cur, pc>>
    BY DEF CloseDownClient
  <2> QED
    BY <1>1, <2>1
<1>3. Served # 0 \/ c \in Late
  BY <1>1 DEF PromiseInv, Ending, Served, CloseDownClient
<1>4. Served' \in {0, Served}
  BY <1>2 DEF Served, CloseDownClient
<1>5. Alive' = Alive \ {c} /\ Late' = Late \ {c}
  BY <1>1, <1>2 DEF Alive, Late, PromiseInv, MaskInv, IInv, GrabTypes
<1>6. Holder' = IF Holder = c THEN 0 ELSE Holder
  BY <1>1, <1>2 DEF Holder, IsHolder
<1>7. Holder \in Alive \cup {0} /\ Late \subseteq Alive
  BY DEF Holder, Late, Alive, Ending, PromiseInv, MaskInv, IInv, GrabInv, GrabAgrees
<1>8. CASE c \in Alive
  <2>1. Promise!Close(c)
    BY <1>0, <1>3, <1>4, <1>5, <1>6, <1>8 DEF Promise!Close, Holder, Served, Late
  <2> QED
    BY <2>1 DEF Promise!Next
<1>9. CASE c \notin Alive
  BY <1>0, <1>1, <1>4, <1>5, <1>6, <1>7, <1>9, NoNews
<1> QED
  BY <1>8, <1>9

\* As long as no client is exempt from grabs, the loop keeps the promise of
\* ServerGrab: every step of it is one that ServerGrab allows, or none.  A
\* client that a grab shuts out has no turn, and is closed only in a turn of
\* one that is not shut out, or when it is late: cut off by a failed write, or
\* still in its setup.
THEOREM PromiseKept == NoExempt => (Spec => KeepsPromise)
<1> SUFFICES ASSUME NoExempt PROVE Spec => KeepsPromise
  OBVIOUS
<1>1. Init => Promise!Init
  <2> SUFFICES ASSUME Init PROVE Promise!Init
    OBVIOUS
  <2>1. Alive = Connected
    BY DispatchAssumption DEF Init, Alive
  <2>2. broken \cup {c \in Clients : life[c] = "new"} = {}
    BY DEF Init
  <2>3. masks.impervious = Exempt /\ grabState = "none" /\ pc = "wait"
    BY DEF Init, Listening
  <2> QED
    BY <2>1, <2>2, <2>3 DEF Promise!Init
<1>2. Init => PromiseInv
  BY InitPromiseInv
<1>3. PromiseInv /\ [Next]_vars => PromiseInv'
  BY NextPromiseInv
<1>4. PromiseInv /\ PromiseInv' /\ [Next]_vars => [Promise!Next]_(Promise!vars)
  <2> SUFFICES ASSUME PromiseInv, PromiseInv', [Next]_vars
               PROVE  [Promise!Next]_(Promise!vars)
    OBVIOUS
  <2>0. MaskInv /\ MaskInv'
    BY DEF PromiseInv
  <2>1. CASE UNCHANGED vars
    BY <2>1 DEF vars, grabVars, turnVars, Promise!vars, Alive
  <2> QED
    BY <2>0, <2>1, WaitingPromise, ServingPromise, ClosePromise DEF Next, Server
<1> QED
  BY <1>1, <1>2, <1>3, <1>4, PTL DEF Spec, KeepsPromise, Promise!Spec
=============================================================================
