-------------------------- MODULE EventQueueProofs --------------------------
(***************************************************************************)
(* Theorems about EventQueue, for every queue size, every set of screens   *)
(* and any number of reports.                                              *)
(***************************************************************************)
EXTENDS EventQueue, TLAPS, SequenceTheorems

\* The index macros stay inside the array.
LEMMA IndexType ==
    ASSUME NEW i \in Slots
    PROVE  Succ(i) \in Slots /\ Pred(i) \in Slots
BY QueueAssumption DEF Slots, Succ, Pred

\* A report leaves every field of the queue in its type.
LEMMA ReportType ==
    ASSUME TypeOK, NEW kind \in Kinds, NEW t \in Times, NEW scr \in Screens,
           Report(kind, t, scr)
    PROVE  /\ head' \in Slots /\ tail' \in Slots
           /\ events' \in [Slots -> Event]
           /\ lastMotion' \in BOOLEAN
           /\ pEnqueueScreen' \in Screens
           /\ pointer' \in Nat
           /\ serial' \in 0 .. MaxPosts
           /\ accepted' \subseteq Nat
           /\ serial \in Nat /\ serial' = serial + 1
<1> USE QueueAssumption DEF TypeOK
<1>1. serial \in Nat /\ serial' = serial + 1 /\ serial' \in 0 .. MaxPosts
  BY DEF Report
<1>2. pointer' \in Nat /\ pEnqueueScreen' \in Screens
  BY DEF Report
<1>3. CASE Toss(kind)
  BY <1>1, <1>2, <1>3 DEF Toss, queueVars
<1>4. CASE Store(kind, t, scr)
  <2>1. Target(kind) \in Slots /\ Succ(tail) \in Slots
    BY IndexType DEF Target
  <2>2. Stamp(t) \in Nat
    BY DEF Stamp
  <2>3. [kind |-> kind, serial |-> serial + 1, time |-> Stamp(t),
         screen |-> scr] \in Event
    BY <1>1, <2>2 DEF Event
  <2>4. events' \in [Slots -> Event]
    BY <1>4, <2>1, <2>3 DEF Store
  <2>5. accepted' \subseteq Nat
    BY <1>1, <1>4 DEF Store
  <2> QED
    BY <1>1, <1>2, <1>4, <2>1, <2>4, <2>5 DEF Store
<1> QED
  BY <1>3, <1>4 DEF Report, mieqEnqueue

\* Every field has its type in every reachable state.
THEOREM TypeCorrect == Spec => []TypeOK
<1>1. Init => TypeOK
  <2> SUFFICES ASSUME Init PROVE TypeOK
    OBVIOUS
  <2>1. [kind |-> "motion", serial |-> 0, time |-> 0, screen |-> FirstScreen]
          \in Event
    BY QueueAssumption DEF Event, Kinds
  <2>2. 0 \in Slots /\ events \in [Slots -> Event]
    BY QueueAssumption, <2>1 DEF Init, mieqInit, Slots
  <2>3. cur \in Local /\ lastOut \in [kind : Kinds, serial : Nat, time : Nat]
    BY DEF Init, Local, Kinds
  <2>4. head \in Slots /\ tail \in Slots /\ lastMotion \in BOOLEAN
        /\ pEnqueueScreen \in Screens /\ pDequeueScreen \in Screens
    BY QueueAssumption, <2>2 DEF Init, mieqInit
  <2>5. pc \in Places /\ ret \in {"wait", "request"} /\ pointer \in Nat
        /\ sprite \in [x : Nat, y : Nat] /\ serial \in 0 .. MaxPosts
        /\ accepted \subseteq Nat /\ delivered \subseteq Nat
    BY QueueAssumption DEF Init, Places
  <2> QED
    BY <2>2, <2>3, <2>4, <2>5 DEF TypeOK
<1>2. TypeOK /\ [Next]_vars => TypeOK'
  <2> SUFFICES ASSUME TypeOK, [Next]_vars PROVE TypeOK'
    OBVIOUS
  <2>1. ASSUME NEW t \in Times, PostKey(t) PROVE TypeOK'
    <3>1. "key" \in Kinds /\ pEnqueueScreen \in Screens
      BY DEF Kinds, TypeOK
    <3> QED
      BY <2>1, <3>1, ReportType, QueueAssumption
      DEF PostKey, Interrupt, outVars, TypeOK, Places
  <2>2. ASSUME NEW t \in Times, NEW scr \in Screens, PostMotion(t, scr)
        PROVE  TypeOK'
    <3>1. "motion" \in Kinds
      BY DEF Kinds
    <3> QED
      BY <2>2, <3>1, ReportType, QueueAssumption
      DEF PostMotion, Interrupt, outVars, TypeOK, Places
  <2>3. ASSUME NEW t \in Times, NEW scr \in Screens, Warp(t, scr)
        PROVE  TypeOK'
    <3>1. "motion" \in Kinds
      BY DEF Kinds
    <3> QED
      BY <2>3, <3>1, ReportType, QueueAssumption
      DEF Warp, outVars, TypeOK, Places
  <2>4. CASE Main \/ ClientReady \/ SelectTimeout
    <3> USE <2>4 DEF TypeOK
    <3>1. CASE TestBeforeWait \/ TestBeforeRequest
      BY <3>1 DEF TestBeforeWait, TestBeforeRequest, TestInput, queueVars,
                  screenVars, outVars, Places
    <3>2. CASE EnterSelect \/ Woken \/ Request \/ ClientReady \/ SelectTimeout
      BY <3>2 DEF EnterSelect, Woken, Request, ClientReady, SelectTimeout,
                  Loop, Moves, queueVars, screenVars, outVars, Places
    <3>3. CASE WhileTest
      BY <3>3 DEF WhileTest, Consume, Moves, outVars, Places
    <3>4. CASE CheckScreen
      BY <3>4 DEF CheckScreen, Consume, Moves, outVars, Places
    <3>5. CASE SwitchScreen
      BY <3>5 DEF SwitchScreen, Consume, Moves, outVars, Places, e, Event
    <3>6. CASE ReadX \/ ReadY \/ CopyHead \/ CopyXY
      BY <3>6 DEF ReadX, ReadY, CopyHead, CopyXY, Consume, Moves, outVars,
                  Places, e, Event, Local
    <3>7. CASE AdvanceHead("stepSwitch", "newScreen") \/ AdvanceHead("step", "process")
      BY <3>7, IndexType DEF AdvanceHead, Consume, Moves, outVars, Places
    <3>8. CASE NewCurrentScreen
      BY <3>8 DEF NewCurrentScreen, Consume, Moves, Places, Local, Kinds
    <3>9. CASE ProcessEvent
      <4>1. cur.kind \in Kinds /\ cur.time \in Nat /\ cur.x \in Nat
            /\ cur.y \in Nat
        BY DEF Local
      <4>2. lastOut' \in [kind : Kinds, serial : Nat, time : Nat]
        BY <3>9, <4>1 DEF ProcessEvent
      <4>3. sprite' \in [x : Nat, y : Nat]
        BY <3>9, <4>1 DEF ProcessEvent
      <4>4. delivered' \subseteq Nat
        BY <3>9, <4>1 DEF ProcessEvent
      <4> QED
        BY <3>9, <4>2, <4>3, <4>4 DEF ProcessEvent, Consume, Moves, Places
    <3> QED
      BY <3>1, <3>2, <3>3, <3>4, <3>5, <3>6, <3>7, <3>8, <3>9 DEF Main
  <2>5. CASE UNCHANGED vars
    BY <2>5 DEF vars, queueVars, screenVars, outVars, TypeOK
  <2> QED
    BY <2>1, <2>2, <2>3, <2>4, <2>5 DEF Next, Device
<1> QED
  BY <1>1, <1>2, PTL DEF Spec

-----------------------------------------------------------------------------
(* The arithmetic of the ring.                                             *)

\* Filling the free slot at t appends it behind the live slots.
LEMMA AppendSlot ==
    ASSUME NEW h \in Slots, NEW t \in Slots, Succ(t) # h
    PROVE  /\ Between(h, Succ(t)) = Between(h, t) \cup {t}
           /\ t \notin Between(h, t)
           /\ Pred(Succ(t)) = t
           /\ Succ(t) # t
           /\ \A i \in Between(h, t) : i # t /\ Dist(h, i) < Dist(h, t)
           /\ t \in Slots
BY QueueAssumption DEF Slots, Succ, Pred, Between, Dist

\* When the queue is not empty, the slot before tail is the last live one.
LEMMA NewestSlot ==
    ASSUME NEW h \in Slots, NEW t \in Slots, t # h
    PROVE  /\ Pred(t) \in Between(h, t)
           /\ \A i \in Between(h, t) :
                 i # Pred(t) => Dist(h, i) < Dist(h, Pred(t))
           /\ h \in Between(h, t)
           /\ \A i \in Between(h, t) : i # h => Dist(h, h) < Dist(h, i)
BY QueueAssumption DEF Slots, Pred, Between, Dist

\* Advancing head removes the slot it stood on and keeps the order.
LEMMA RemoveSlot ==
    ASSUME NEW h \in Slots, NEW t \in Slots, t # h
    PROVE  /\ Between(Succ(h), t) = Between(h, t) \ {h}
           /\ \A i \in Between(Succ(h), t) : Dist(Succ(h), i) = Dist(h, i) - 1
           /\ \A i \in Slots : Dist(h, i) \in Nat
BY QueueAssumption DEF Slots, Succ, Between, Dist

\* No slot lies between head and an equal tail.
LEMMA EmptyQueue ==
    ASSUME NEW h \in Slots
    PROVE  Between(h, h) = {}
BY QueueAssumption DEF Slots, Between, Dist

-----------------------------------------------------------------------------
(* QueueOrder is inductive.                                                  *)

\* A report that finds the queue full changes nothing but the count.
LEMMA TossKeepsQueue ==
    ASSUME TypeOK, QueueOrder, NEW kind \in Kinds, Toss(kind),
           serial' = serial + 1, cur' = cur, lastOut' = lastOut,
           \/ pc' = pc
           \/ pc' \in {"woken", "serve"}
    PROVE  QueueOrder'
<1> USE QueueAssumption DEF TypeOK
<1>1. /\ head' = head /\ tail' = tail /\ events' = events
      /\ lastMotion' = lastMotion
  BY DEF Toss, queueVars
<1>2. Live' = Live /\ \A i \in Live : i \in Slots /\ events[i].serial \in Nat
  BY <1>1 DEF Live, Between, Event
<1>3. SlotsInOrder'
  BY <1>1, <1>2 DEF QueueOrder, SlotsInOrder, Dist
<1>4. NewestIsMotion'
  BY <1>1 DEF QueueOrder, NewestIsMotion
<1>5. ReadInOrder'
  BY <1>1, <1>2 DEF QueueOrder, ReadInOrder, e
<1> QED
  BY <1>3, <1>4, <1>5 DEF QueueOrder

\* A report that is stored becomes the newest live event: behind the others,
\* or in place of the motion that was the newest.
LEMMA StoreKeepsQueue ==
    ASSUME TypeOK, QueueOrder, NEW kind \in Kinds, NEW t \in Times,
           NEW scr \in Screens, Store(kind, t, scr),
           serial' = serial + 1, cur' = cur, lastOut' = lastOut,
           \/ pc' = pc
           \/ pc' \in {"woken", "serve"}
    PROVE  QueueOrder'
<1> USE QueueAssumption DEF TypeOK
<1> DEFINE s == Target(kind)
<1>1. head' = head /\ lastMotion' = (kind = "motion") /\ s \in Slots
  BY IndexType DEF Store, Target
<1>2. /\ events'[s].serial = serial + 1 /\ events'[s].kind = kind
      /\ \A i \in Slots : i # s => events'[i] = events[i]
  BY <1>1 DEF Store
<1>3. /\ s \in Live' /\ Live \subseteq Live'
      /\ \A i \in Live' : i # s => i \in Live /\ Dist(head, i) < Dist(head, s)
      /\ tail' # head /\ Pred(tail') = s
  <2>1. CASE Coalesces(kind)
    <3>1. tail' = tail /\ s = Pred(tail) /\ tail # head
      BY <2>1 DEF Store, Target, Coalesces
    <3> QED
      BY <1>1, <3>1, NewestSlot DEF Live
  <2>2. CASE ~Coalesces(kind)
    <3>1. tail' = Succ(tail) /\ s = tail /\ Succ(tail) # head
      BY <2>2 DEF Store, Target, Full
    <3> QED
      BY <1>1, <3>1, AppendSlot DEF Live
  <2> QED
    BY <2>1, <2>2
<1>4. \A i \in Live' : i \in Slots /\ events[i].serial \in Nat
  BY DEF Live, Between, Event
<1>5. \A i \in Live : events[i].serial < serial + 1 /\ events[i].serial \in Nat
  BY <1>3, <1>4 DEF QueueOrder, SlotsInOrder
<1>6. \A i \in Live' : Dist(head, i) \in Nat
  BY <1>4 DEF Dist, Slots
<1>7. SlotsInOrder'
  <2>1. ASSUME NEW i \in Live', NEW j \in Live', Dist(head, i) < Dist(head, j)
        PROVE  events'[i].serial < events'[j].serial
    <3>1. CASE j = s
      BY <1>2, <1>3, <1>4, <1>5, <1>6, <2>1, <3>1
    <3>2. CASE j # s
      <4>1. i # s /\ i \in Live /\ j \in Live
        BY <1>3, <1>6, <2>1, <3>2
      <4> QED
        BY <1>2, <1>4, <2>1, <3>2, <4>1 DEF QueueOrder, SlotsInOrder
    <3> QED
      BY <3>1, <3>2
  <2>2. ASSUME NEW i \in Live'
        PROVE  events'[i].serial \in lastOut.serial + 1 .. serial + 1
    <3>1. CASE i = s
      BY <1>2, <3>1 DEF QueueOrder, SlotsInOrder
    <3>2. CASE i # s
      BY <1>2, <1>3, <1>4, <3>2 DEF QueueOrder, SlotsInOrder
    <3> QED
      BY <3>1, <3>2
  <2>3. lastOut.serial <= serial + 1
    BY DEF QueueOrder, SlotsInOrder
  <2> QED
    BY <1>1, <2>1, <2>2, <2>3 DEF SlotsInOrder, Dist
<1>8. NewestIsMotion'
  BY <1>1, <1>2, <1>3 DEF NewestIsMotion
<1>9. ReadInOrder'
  <2>1. ASSUME head # tail
        PROVE  /\ e'.kind = e.kind
               /\ e'.serial >= e.serial
               /\ e.kind = "key" => e' = e
    <3>1. CASE Coalesces(kind) /\ s = head
      <4>1. e.kind = "motion" /\ kind = "motion" /\ head \in Live
        BY <2>1, <3>1, NewestSlot
        DEF Coalesces, Target, QueueOrder, NewestIsMotion, e, Live
      <4> QED
        BY <1>1, <1>2, <1>5, <3>1, <4>1 DEF e
    <3>2. CASE s # head
      BY <1>1, <1>2, <1>4, <1>3, <2>1, <3>2, NewestSlot DEF e, Live
    <3>3. CASE ~Coalesces(kind)
      <4>1. s # head
        BY <2>1, <3>3 DEF Target
      <4> QED
        BY <3>2, <4>1
    <3> QED
      BY <3>1, <3>2, <3>3
  <2>2. \A i \in Live' : \/ i \in Live /\ events'[i] = events[i]
                         \/ events'[i].serial = serial + 1
    BY <1>2, <1>3, <1>4
  <2>3. e.serial \in Nat /\ e'.serial \in Nat
    BY <1>1, <1>2 DEF e, Event
  <2>4. head' # tail'
    BY <1>1, <1>3
  <2> QED
    BY <2>1, <2>2, <2>3, <2>4 DEF QueueOrder, ReadInOrder, SlotsInOrder
<1> QED
  BY <1>7, <1>8, <1>9 DEF QueueOrder

\* A report, wherever the main program stands.
LEMMA ReportKeepsQueue ==
    ASSUME TypeOK, QueueOrder, NEW kind \in Kinds, NEW t \in Times,
           NEW scr \in Screens, Report(kind, t, scr),
           cur' = cur, lastOut' = lastOut,
           \/ pc' = pc
           \/ pc' \in {"woken", "serve"}
    PROVE  QueueOrder'
BY TossKeepsQueue, StoreKeepsQueue DEF Report, mieqEnqueue

\* Advancing head takes the event just read out of the queue.
LEMMA AdvanceKeepsQueue ==
    ASSUME TypeOK, QueueOrder,
           \/ AdvanceHead("step", "process")
           \/ AdvanceHead("stepSwitch", "newScreen")
    PROVE  QueueOrder'
<1> USE QueueAssumption DEF TypeOK
<1>1. /\ head' = Succ(head) /\ tail' = tail /\ events' = events
      /\ lastMotion' = lastMotion /\ serial' = serial /\ cur' = cur
      /\ lastOut' = lastOut
      /\ \/ pc = "step" /\ pc' = "process"
         \/ pc = "stepSwitch" /\ pc' = "newScreen"
  BY DEF AdvanceHead, Consume, Moves, outVars
<1>2. head # tail
  BY <1>1 DEF QueueOrder, ReadInOrder
<1>3. /\ head \in Live /\ Live' = Live \ {head}
      /\ \A i \in Live' : Dist(Succ(head), i) = Dist(head, i) - 1
      /\ \A i \in Live : i \in Slots /\ Dist(head, i) \in Nat
      /\ \A i \in Live : i # head => Dist(head, head) < Dist(head, i)
  <2>1. head \in Slots /\ tail \in Slots
    OBVIOUS
  <2>2. /\ head \in Live
        /\ \A i \in Live : i # head => Dist(head, head) < Dist(head, i)
    BY <1>2, <2>1, NewestSlot DEF Live
  <2>3. /\ Live' = Between(Succ(head), tail)
        /\ Live \subseteq Slots
    BY <1>1 DEF Live, Between, Dist
  <2>4. /\ Live' = Live \ {head}
        /\ \A i \in Live' : Dist(Succ(head), i) = Dist(head, i) - 1
        /\ \A i \in Slots : Dist(head, i) \in Nat
    BY <1>2, <2>1, <2>3, RemoveSlot DEF Live
  <2> QED
    BY <2>2, <2>3, <2>4
<1>4. \A i \in Live : events[i].serial \in Nat
  BY <1>3 DEF Event
<1>5. \A i \in Live' : i \in Live /\ e.serial < events[i].serial
  BY <1>3 DEF QueueOrder, SlotsInOrder, e
<1>6. SlotsInOrder'
  <2>1. ASSUME NEW i \in Live', NEW j \in Live',
               Dist(Succ(head), i) < Dist(Succ(head), j)
        PROVE  events[i].serial < events[j].serial
    BY <1>3, <1>5, <2>1 DEF QueueOrder, SlotsInOrder
  <2> QED
    BY <1>1, <1>5, <2>1 DEF QueueOrder, SlotsInOrder, Dist
<1>7. NewestIsMotion'
  BY <1>1, <1>2 DEF QueueOrder, NewestIsMotion
<1>8. ReadInOrder'
  <2>1. e.serial \in Nat /\ e.serial <= serial
    BY <1>3, <1>4 DEF e, QueueOrder, SlotsInOrder
  <2>2. CASE pc = "step" /\ pc' = "process"
    <3>1. cur.x \in lastOut.serial + 1 .. e.serial
      BY <2>2 DEF QueueOrder, ReadInOrder
    <3>2. \A i \in Live' : cur.x < events[i].serial
      BY <1>4, <1>5, <2>1, <3>1
    <3> QED
      BY <1>1, <2>1, <2>2, <3>1, <3>2 DEF ReadInOrder
  <2>3. CASE pc = "stepSwitch" /\ pc' = "newScreen"
    <3>1. cur.y \in lastOut.serial + 1 .. e.serial
      BY <2>3 DEF QueueOrder, ReadInOrder
    <3>2. \A i \in Live' : cur.y < events[i].serial
      BY <1>4, <1>5, <2>1, <3>1
    <3> QED
      BY <1>1, <2>1, <2>3, <3>1, <3>2 DEF ReadInOrder
  <2> QED
    BY <1>1, <2>2, <2>3
<1> QED
  BY <1>6, <1>7, <1>8 DEF QueueOrder

\* Reading the event at head.
LEMMA ReadKeepsQueue ==
    ASSUME TypeOK, QueueOrder,
           \/ CheckScreen \/ SwitchScreen
           \/ ReadX \/ ReadY \/ CopyHead \/ CopyXY
    PROVE  QueueOrder'
<1> USE QueueAssumption DEF TypeOK
<1>1. /\ head' = head /\ tail' = tail /\ events' = events
      /\ lastMotion' = lastMotion /\ serial' = serial /\ lastOut' = lastOut
  BY DEF CheckScreen, SwitchScreen, ReadX, ReadY, CopyHead, CopyXY, Consume,
         Moves, outVars
<1>2. /\ pc \in {"check", "switch", "readX", "readY", "copy", "copyXY"}
      /\ head # tail
  BY DEF CheckScreen, SwitchScreen, ReadX, ReadY, CopyHead, CopyXY, Consume,
         Moves, QueueOrder, ReadInOrder
<1>3. SlotsInOrder' /\ NewestIsMotion'
  BY <1>1 DEF QueueOrder, SlotsInOrder, NewestIsMotion, Live, Between, Dist
<1>4. e.serial \in lastOut.serial + 1 .. e.serial /\ e' = e
  <2>1. head \in Live
    BY <1>2, NewestSlot DEF Live
  <2> QED
    BY <1>1, <2>1 DEF QueueOrder, SlotsInOrder, e, Event, Live, Between
<1>5. ReadInOrder'
  <2>1. CASE CheckScreen \/ SwitchScreen
    BY <1>1, <1>2, <1>4, <2>1
    DEF CheckScreen, SwitchScreen, Consume, Moves, ReadInOrder
  <2>2. CASE ReadX \/ ReadY
    BY <1>1, <1>2, <1>4, <2>2 DEF ReadX, ReadY, Consume, Moves, ReadInOrder, Local
  <2>3. CASE CopyHead
    BY <1>1, <1>2, <1>4, <2>3 DEF CopyHead, Consume, Moves, ReadInOrder, Local
  <2>4. CASE CopyXY
    BY <1>1, <1>2, <1>4, <2>4
    DEF CopyXY, Consume, Moves, QueueOrder, ReadInOrder, Local
  <2> QED
    BY <2>1, <2>2, <2>3, <2>4
<1> QED
  BY <1>3, <1>5 DEF QueueOrder

\* Handing the event over.
LEMMA HandOverKeepsQueue ==
    ASSUME TypeOK, QueueOrder, NewCurrentScreen \/ ProcessEvent
    PROVE  QueueOrder' /\ lastOut'.serial > lastOut.serial
<1> USE QueueAssumption DEF TypeOK
<1>1. /\ head' = head /\ tail' = tail /\ events' = events
      /\ lastMotion' = lastMotion /\ serial' = serial /\ cur' = cur
      /\ pc' = "while"
  BY DEF NewCurrentScreen, ProcessEvent, Consume, Moves
<1>2. /\ lastOut'.serial > lastOut.serial
      /\ lastOut'.serial <= serial
      /\ \A i \in Live : lastOut'.serial < events[i].serial
  <2>1. CASE NewCurrentScreen
    BY <2>1 DEF NewCurrentScreen, Consume, Moves, QueueOrder, ReadInOrder
  <2>2. CASE ProcessEvent
    BY <2>2 DEF ProcessEvent, Consume, Moves, QueueOrder, ReadInOrder
  <2> QED
    BY <2>1, <2>2
<1>3. lastOut'.serial \in Nat
  <2>1. cur.x \in Nat /\ cur.y \in Nat
    BY DEF Local
  <2>2. CASE NewCurrentScreen
    BY <2>1, <2>2 DEF NewCurrentScreen
  <2>3. CASE ProcessEvent
    BY <2>1, <2>3 DEF ProcessEvent
  <2> QED
    BY <2>2, <2>3
<1>4. \A i \in Live : events[i].serial \in Nat
  BY DEF Live, Between, Event
<1>5. SlotsInOrder'
  BY <1>1, <1>2, <1>3, <1>4 DEF QueueOrder, SlotsInOrder, Live, Between, Dist
<1>6. NewestIsMotion' /\ ReadInOrder'
  BY <1>1 DEF QueueOrder, NewestIsMotion, ReadInOrder
<1> QED
  BY <1>2, <1>5, <1>6 DEF QueueOrder

\* The steps of the main loop touch nothing the invariant speaks of but pc.
LEMMA LoopKeepsQueue ==
    ASSUME TypeOK, QueueOrder,
           \/ TestBeforeWait \/ TestBeforeRequest \/ EnterSelect
           \/ ClientReady \/ SelectTimeout \/ Woken \/ Request
           \/ WhileTest
           \/ UNCHANGED vars
    PROVE  QueueOrder'
<1> USE DEF TypeOK
<1> DEFINE Same == /\ head' = head /\ tail' = tail /\ events' = events
                   /\ lastMotion' = lastMotion /\ serial' = serial
                   /\ cur' = cur /\ lastOut' = lastOut
           Quiet == {"while", "wait", "request", "select", "serve", "woken",
                     "dispatch"}
<1>1. Same /\ (pc' = pc \/ pc' \in Quiet \/ (pc' = "check" /\ head # tail))
  <2>1. CASE TestBeforeWait \/ TestBeforeRequest
    BY <2>1 DEF TestBeforeWait, TestBeforeRequest, TestInput, queueVars, outVars
  <2>2. CASE EnterSelect \/ ClientReady \/ SelectTimeout \/ Woken \/ Request
    BY <2>2 DEF EnterSelect, ClientReady, SelectTimeout, Woken, Request, Loop,
                Moves, queueVars, outVars
  <2>3. CASE WhileTest
    BY <2>3 DEF WhileTest, Consume, Moves, outVars
  <2>4. CASE UNCHANGED vars
    BY <2>4 DEF vars, queueVars, outVars
  <2> QED
    BY <2>1, <2>2, <2>3, <2>4
<1> QED
  BY <1>1 DEF QueueOrder, SlotsInOrder, NewestIsMotion, ReadInOrder, Live,
              Between, Dist, e

\* Every step keeps the order in the slots and in what is being read, and
\* delivers only later events.
LEMMA StepKeepsQueue ==
    ASSUME TypeOK, QueueOrder, [Next]_vars
    PROVE  /\ QueueOrder'
           /\ lastOut' # lastOut => lastOut'.serial > lastOut.serial
<1>1. ASSUME NEW t \in Times, PostKey(t)
      PROVE  QueueOrder' /\ lastOut' = lastOut
  <2>1. "key" \in Kinds /\ pEnqueueScreen \in Screens
    BY DEF Kinds, TypeOK
  <2> QED
    BY <1>1, <2>1, ReportKeepsQueue DEF PostKey, Interrupt, outVars
<1>2. ASSUME NEW t \in Times, NEW scr \in Screens,
             PostMotion(t, scr) \/ Warp(t, scr)
      PROVE  QueueOrder' /\ lastOut' = lastOut
  <2>1. "motion" \in Kinds
    BY DEF Kinds
  <2> QED
    BY <1>2, <2>1, ReportKeepsQueue DEF PostMotion, Warp, Interrupt, outVars
<1>3. CASE \/ AdvanceHead("step", "process")
           \/ AdvanceHead("stepSwitch", "newScreen")
  BY <1>3, AdvanceKeepsQueue DEF AdvanceHead, outVars
<1>4. CASE \/ CheckScreen \/ SwitchScreen
           \/ ReadX \/ ReadY \/ CopyHead \/ CopyXY
  <2>1. lastOut' = lastOut
    BY <1>4 DEF CheckScreen, SwitchScreen, ReadX, ReadY, CopyHead, CopyXY, outVars
  <2> QED
    BY <1>4, <2>1, ReadKeepsQueue
<1>5. CASE NewCurrentScreen \/ ProcessEvent
  BY <1>5, HandOverKeepsQueue
<1>6. CASE \/ TestBeforeWait \/ TestBeforeRequest \/ EnterSelect
           \/ ClientReady \/ SelectTimeout \/ Woken \/ Request
           \/ WhileTest
           \/ UNCHANGED vars
  <2>1. lastOut' = lastOut
    BY <1>6 DEF TestBeforeWait, TestBeforeRequest, TestInput, EnterSelect,
                ClientReady, SelectTimeout, Woken, Request, WhileTest, Loop,
                vars, outVars
  <2> QED
    BY <1>6, <2>1, LoopKeepsQueue
<1> QED
  BY <1>1, <1>2, <1>3, <1>4, <1>5, <1>6 DEF Next, Device, Main

\* The order of the queue is kept by every step.
LEMMA QueueKept == Spec => []QueueOrder
<1>1. TypeOK /\ Init => QueueOrder
  BY EmptyQueue
  DEF Init, mieqInit, TypeOK, QueueOrder, SlotsInOrder, NewestIsMotion,
      ReadInOrder, Live
<1>2. TypeOK /\ QueueOrder /\ [Next]_vars => QueueOrder'
  BY StepKeepsQueue
<1> QED
  BY <1>1, <1>2, TypeCorrect, PTL DEF Spec

\* The waiting events are in order and newer than everything delivered, and
\* what the main program has read of the head event stays in that order,
\* wherever the handler interrupts it.
THEOREM QueueCorrect == Spec => []QueueInv
<1>1. TypeOK /\ QueueOrder => QueueInv
  BY DEF QueueInv
<1> QED
  BY <1>1, TypeCorrect, QueueKept, PTL

\* Events reach DIX in the order the devices reported them, none twice.
THEOREM OrderedDelivery == Spec => DeliveredInOrder
<1>1. TypeOK /\ QueueOrder /\ [Next]_vars
        => [lastOut' # lastOut => lastOut'.serial > lastOut.serial]_vars
  BY StepKeepsQueue
<1> QED
  BY <1>1, TypeCorrect, QueueKept, PTL DEF Spec, DeliveredInOrder

-----------------------------------------------------------------------------
(* On one screen no key is lost.                                           *)

OneScreen == Screens = {FirstScreen}

\* With one screen the branch that switches screens is never taken.
NoSwitch == pc \notin {"switch", "readX", "readY", "stepSwitch", "newScreen"}

\* With one screen there is no switch that could swallow a key.
LEMMA StepKeepsKeys ==
    ASSUME OneScreen, TypeOK, QueueOrder, NoSwitch, KeysKept, [Next]_vars
    PROVE  NoSwitch' /\ KeysKept'
<1> USE QueueAssumption DEF TypeOK
<1> DEFINE Waits(k) == \E i \in Live : events[i].kind = "key"
                                       /\ events[i].serial = k
           Taken(k) == \/ k \in delivered
                       \/ pc = "process" /\ cur.kind = "key" /\ cur.x = k
<1>1. ASSUME NEW kind \in Kinds, NEW t \in Times, NEW scr \in Screens,
             Report(kind, t, scr), cur' = cur, delivered' = delivered,
             pc' = pc \/ (pc \in {"select", "request"} /\ pc' \in {"woken", "serve"})
      PROVE  NoSwitch' /\ KeysKept'
  <2>1. NoSwitch'
    BY <1>1 DEF NoSwitch
  <2>2. \A k : Taken(k) => Taken(k)'
    BY <1>1
  <2>3. CASE Toss(kind)
    <3>1. Live' = Live /\ events' = events /\ accepted' = accepted
      BY <2>3 DEF Toss, queueVars, Live, Between, Dist
    <3> QED
      BY <2>1, <2>2, <3>1 DEF KeysKept
  <2>4. CASE Store(kind, t, scr)
    <3>1. CASE Coalesces(kind)
      <4>1. /\ head' = head /\ tail' = tail /\ accepted' = accepted
            /\ \A i \in Slots : i # Pred(tail) => events'[i] = events[i]
            /\ events[Pred(tail)].kind = "motion"
        BY <2>4, <3>1
        DEF Store, Coalesces, Target, QueueOrder, NewestIsMotion, Kinds
      <4>2. Live' = Live /\ Live \subseteq Slots
        BY <4>1 DEF Live, Between, Dist
      <4>3. \A k : Waits(k) => Waits(k)'
        BY <4>1, <4>2
      <4> QED
        BY <2>1, <2>2, <4>1, <4>3 DEF KeysKept
    <3>2. CASE ~Coalesces(kind)
      <4>1. /\ head' = head /\ tail' = Succ(tail) /\ Succ(tail) # head
            /\ \A i \in Slots : i # tail => events'[i] = events[i]
            /\ events'[tail].kind = kind /\ events'[tail].serial = serial + 1
            /\ accepted' \subseteq accepted \cup {serial + 1}
            /\ serial + 1 \in accepted' \ accepted => kind = "key"
        BY <2>4, <3>2 DEF Store, Target, Full
      <4>2. /\ Live \subseteq Live' /\ tail \in Live' /\ tail \notin Live
            /\ Live \subseteq Slots
        BY <4>1, AppendSlot DEF Live, Between
      <4>3. ASSUME NEW k, Waits(k) PROVE Waits(k)'
        <5>1. PICK i \in Live : events[i].kind = "key" /\ events[i].serial = k
          BY <4>3
        <5>2. i \in Live' /\ events'[i] = events[i]
          BY <4>1, <4>2
        <5> QED
          BY <5>1, <5>2
      <4>4. ASSUME NEW k, k = serial + 1, kind = "key" PROVE Waits(k)'
        BY <4>1, <4>2, <4>4
      <4> QED
        BY <2>1, <2>2, <4>1, <4>3, <4>4 DEF KeysKept
    <3> QED
      BY <3>1, <3>2
  <2> QED
    BY <1>1, <2>3, <2>4 DEF Report, mieqEnqueue
<1>2. ASSUME NEW t \in Times, PostKey(t) PROVE NoSwitch' /\ KeysKept'
  BY <1>1, <1>2 DEF PostKey, Interrupt, outVars, Kinds
<1>3. ASSUME NEW t \in Times, NEW scr \in Screens, PostMotion(t, scr)
      PROVE  NoSwitch' /\ KeysKept'
  BY <1>1, <1>3 DEF PostMotion, Interrupt, outVars, Kinds
<1>4. ASSUME NEW t \in Times, NEW scr \in Screens, Warp(t, scr)
      PROVE  NoSwitch' /\ KeysKept'
  BY <1>1, <1>4 DEF Warp, outVars, Kinds
<1>5. CASE AdvanceHead("step", "process")
  <2>1. /\ head' = Succ(head) /\ tail' = tail /\ events' = events
        /\ accepted' = accepted /\ delivered' = delivered
        /\ cur' = cur /\ pc = "step" /\ pc' = "process"
    BY <1>5 DEF AdvanceHead, Consume, Moves, outVars
  <2>2. head # tail /\ cur.kind = e.kind
        /\ (cur.kind = "key" => cur.x = e.serial)
    BY <2>1 DEF QueueOrder, ReadInOrder
  <2>3. Live' = Live \ {head}
    BY <2>1, <2>2, RemoveSlot DEF Live
  <2>4. \A k : Waits(k) => Waits(k)' \/ Taken(k)'
    BY <2>1, <2>2, <2>3 DEF e
  <2> QED
    BY <2>1, <2>4 DEF KeysKept, NoSwitch
<1>6. CASE CheckScreen
  <2>1. e.screen = pDequeueScreen
    BY DEF OneScreen, e, Event
  <2> QED
    BY <1>6, <2>1 DEF CheckScreen, Consume, Moves, outVars, NoSwitch, KeysKept,
                      Live, Between, Dist
<1>7. CASE CopyHead \/ CopyXY
  <2>1. /\ head' = head /\ tail' = tail /\ events' = events
        /\ accepted' = accepted /\ delivered' = delivered
        /\ pc \in {"copy", "copyXY"} /\ pc' \in {"copyXY", "step"}
    BY <1>7 DEF CopyHead, CopyXY, Consume, Moves, outVars
  <2> QED
    BY <2>1 DEF NoSwitch, KeysKept, Live, Between, Dist
<1>8. CASE ProcessEvent
  <2>1. /\ head' = head /\ tail' = tail /\ events' = events
        /\ accepted' = accepted /\ pc' = "while"
        /\ delivered \subseteq delivered'
        /\ cur.kind = "key" => cur.x \in delivered'
    BY <1>8 DEF ProcessEvent, Consume, Moves, Kinds
  <2> QED
    BY <2>1 DEF NoSwitch, KeysKept, Live, Between, Dist
<1>9. CASE \/ SwitchScreen \/ ReadX \/ ReadY \/ NewCurrentScreen
           \/ AdvanceHead("stepSwitch", "newScreen")
  BY <1>9 DEF NoSwitch, SwitchScreen, ReadX, ReadY, NewCurrentScreen,
              AdvanceHead, Consume, Moves
<1>10. CASE \/ TestBeforeWait \/ TestBeforeRequest \/ EnterSelect
            \/ ClientReady \/ SelectTimeout \/ Woken \/ Request
            \/ WhileTest
            \/ UNCHANGED vars
  <2>1. /\ head' = head /\ tail' = tail /\ events' = events
        /\ accepted' = accepted /\ delivered' = delivered /\ cur' = cur
    BY <1>10 DEF TestBeforeWait, TestBeforeRequest, TestInput, EnterSelect,
                 ClientReady, SelectTimeout, Woken, Request, WhileTest, Loop,
                 Consume, vars, queueVars, outVars
  <2>2. pc' = pc \/ (pc # "process" /\ NoSwitch')
    BY <1>10 DEF TestBeforeWait, TestBeforeRequest, TestInput, EnterSelect,
                 ClientReady, SelectTimeout, Woken, Request, WhileTest, Loop,
                 Consume, Moves, vars, NoSwitch
  <2> QED
    BY <2>1, <2>2 DEF NoSwitch, KeysKept, Live, Between, Dist
<1> QED
  BY <1>2, <1>3, <1>4, <1>5, <1>6, <1>7, <1>8, <1>9, <1>10 DEF Next, Device, Main

\* On a one-screen server a key or button event that found room in the queue
\* is never lost, however the handler interleaves with the main program and
\* however full the queue gets.
THEOREM NoKeyLost ==
    ASSUME OneScreen
    PROVE  Spec => []KeysKept
<1>1. Init => NoSwitch /\ KeysKept
  BY DEF Init, NoSwitch, KeysKept
<1>2. TypeOK /\ QueueOrder /\ NoSwitch /\ KeysKept /\ [Next]_vars
        => (NoSwitch /\ KeysKept)'
  BY StepKeepsKeys
<1> QED
  BY <1>1, <1>2, TypeCorrect, QueueKept, PTL DEF Spec

-----------------------------------------------------------------------------
(* On one screen the queue implements the stream of InputStream.           *)

Item == [kind : Kinds, serial : Nat]

\* What Waiting has at place n + 1.
Nth(n) == IF n = 0 /\ pc = "step" THEN [kind |-> cur.kind, serial |-> cur.x]
          ELSE [kind |-> Slot(n).kind, serial |-> Slot(n).serial]

\* The slots by their distance from head.
LEMMA SlotAt ==
    ASSUME TypeOK
    PROVE  /\ Dist(head, tail) \in 0 .. QSize - 1
           /\ \A n \in 0 .. QSize - 1 : Slot(n) \in Event
           /\ Slot(0) = e
           /\ head # tail <=> Dist(head, tail) # 0
           /\ head # tail => Slot(Dist(head, tail) - 1) = events[Pred(tail)]
           /\ Slot(Dist(head, tail)) = events[tail]
           /\ Succ(tail) = head <=> Dist(head, tail) = QSize - 1
           /\ Succ(tail) # head => Dist(head, Succ(tail)) = Dist(head, tail) + 1
<1> USE QueueAssumption DEF TypeOK, Slots
<1>1. \A n \in 0 .. QSize - 1 : Slot(n) \in Event
  BY DEF Slot
<1>2. Slot(0) = e
  BY DEF Slot, e
<1>3. Dist(head, tail) \in 0 .. QSize - 1 /\ (head # tail <=> Dist(head, tail) # 0)
  BY DEF Dist
<1>4. head # tail => Slot(Dist(head, tail) - 1) = events[Pred(tail)]
  BY DEF Slot, Dist, Pred
<1>5. Slot(Dist(head, tail)) = events[tail]
  BY DEF Slot, Dist
<1>6. /\ Succ(tail) = head <=> Dist(head, tail) = QSize - 1
      /\ Succ(tail) # head => Dist(head, Succ(tail)) = Dist(head, tail) + 1
  BY DEF Succ, Dist
<1> QED
  BY <1>1, <1>2, <1>3, <1>4, <1>5, <1>6

\* What the waiting events are, as a sequence.
WaitingIs ==
    /\ Waiting \in Seq(Item) /\ Len(Waiting) = Dist(head, tail)
    /\ \A n \in 1 .. Len(Waiting) : Waiting[n] = Nth(n - 1)

\* The ring always stands for a sequence of events, oldest first.
LEMMA WaitingIsSeq == TypeOK => WaitingIs
<1> HAVE TypeOK
<1> DEFINE d == Dist(head, tail)
<1>1. d \in Nat /\ d <= QSize - 1 /\ \A n \in 0 .. d : n = d \/ Slot(n) \in Event
  BY SlotAt, QueueAssumption
<1>2. \A n \in 1 .. d : Nth(n - 1) \in Item
  BY <1>1 DEF Nth, Item, Event, TypeOK, Local
<1>3. Waiting = [n \in 1 .. d |-> Nth(n - 1)]
  BY <1>1 DEF Waiting, Nth
<1> HIDE DEF d
<1>4. Waiting \in [1 .. d -> Item]
  BY <1>2, <1>3
<1>5. Waiting \in Seq(Item) /\ Len(Waiting) = d
  BY <1>1, <1>4
<1> QED
  BY <1>3, <1>5 DEF d, WaitingIs

\* The same of the state after a step.
LEMMA WaitingNext == TypeOK' => WaitingIs'
  BY WaitingIsSeq, PTL

\* A new last element.
LEMMA NewLast ==
    ASSUME NEW S, NEW w \in Seq(S), w # << >>, NEW y \in S
    PROVE  /\ [w EXCEPT ![Len(w)] = y] \in Seq(S)
           /\ Len([w EXCEPT ![Len(w)] = y]) = Len(w)
           /\ \A j \in 1 .. Len(w) :
                 [w EXCEPT ![Len(w)] = y][j] = IF j = Len(w) THEN y ELSE w[j]
<1>1. Len(w) \in 1 .. Len(w)
  BY EmptySeq
<1> QED
  BY <1>1, ExceptSeq

\* Sequences with at most one element in front.
LEMMA InFront ==
    ASSUME NEW S, NEW p \in Seq(S), p = << >> \/ (\E x \in S : p = <<x>>),
           NEW s \in Seq(S), NEW y \in S
    PROVE  /\ p \o s \in Seq(S) /\ Len(p \o s) = Len(p) + Len(s)
           /\ p \o Append(s, y) = Append(p \o s, y)
           /\ s # << >> => /\ p \o s # << >>
                           /\ (p \o s)[Len(p \o s)] = s[Len(s)]
                           /\ p \o [s EXCEPT ![Len(s)] = y]
                                = [p \o s EXCEPT ![Len(p \o s)] = y]
<1>1. Len(p) \in Nat /\ Len(s) \in Nat
  OBVIOUS
<1>2. /\ p \o s \in Seq(S) /\ Len(p \o s) = Len(p) + Len(s)
      /\ \A i \in 1 .. Len(p) + Len(s) :
            (p \o s)[i] = IF i <= Len(p) THEN p[i] ELSE s[i - Len(p)]
  BY ConcatProperties
<1>3. p \o Append(s, y) = Append(p \o s, y)
  OBVIOUS
<1>4. ASSUME s # << >>
      PROVE  /\ p \o s # << >>
             /\ (p \o s)[Len(p \o s)] = s[Len(s)]
             /\ p \o [s EXCEPT ![Len(s)] = y] = [p \o s EXCEPT ![Len(p \o s)] = y]
  <2>1. Len(s) \in Nat \ {0}
    BY <1>4, EmptySeq
  <2> DEFINE t == [s EXCEPT ![Len(s)] = y]
             u == [p \o s EXCEPT ![Len(p \o s)] = y]
  <2>2. /\ t \in Seq(S) /\ Len(t) = Len(s)
        /\ \A j \in 1 .. Len(s) : t[j] = IF j = Len(s) THEN y ELSE s[j]
    BY <2>1, ExceptSeq
  <2>3. /\ u \in Seq(S) /\ Len(u) = Len(p \o s)
        /\ \A j \in 1 .. Len(p \o s) : u[j] = IF j = Len(p \o s) THEN y ELSE (p \o s)[j]
    <3>1. p \o s \in Seq(S) /\ p \o s # << >>
      BY <2>1, <1>1, <1>2
    <3> QED
      <4> DEFINE w == p \o s
      <4>1. w \in Seq(S) /\ w # << >>
        BY <3>1
      <4> HIDE DEF w
      <4>2. /\ [w EXCEPT ![Len(w)] = y] \in Seq(S)
            /\ Len([w EXCEPT ![Len(w)] = y]) = Len(w)
            /\ \A j \in 1 .. Len(w) :
                  [w EXCEPT ![Len(w)] = y][j] = IF j = Len(w) THEN y ELSE w[j]
        BY <4>1, NewLast
      <4> QED
        BY <4>2 DEF w
  <2> HIDE DEF t, u
  <2>4. /\ p \o t \in Seq(S) /\ Len(p \o t) = Len(p) + Len(t)
        /\ \A i \in 1 .. Len(p) + Len(t) :
              (p \o t)[i] = IF i <= Len(p) THEN p[i] ELSE t[i - Len(p)]
    <3>1. t \in Seq(S)
      BY <2>2
    <3> QED
      BY <3>1, ConcatProperties
  <2>5. Len(p \o t) = Len(u) /\ \A i \in 1 .. Len(u) : (p \o t)[i] = u[i]
    <3>1. Len(p \o t) = Len(p) + Len(s) /\ Len(u) = Len(p) + Len(s)
      BY <1>2, <2>2, <2>3, <2>4
    <3>2. ASSUME NEW i \in 1 .. Len(p) + Len(s) PROVE (p \o t)[i] = u[i]
      <4>1. CASE i <= Len(p)
        <5>1. (p \o t)[i] = p[i] /\ (p \o s)[i] = p[i] /\ i # Len(p \o s)
          BY <1>1, <1>2, <2>1, <2>2, <2>4, <4>1
        <5> QED
          BY <1>2, <2>3, <5>1
      <4>2. CASE i > Len(p)
        <5>1. /\ i - Len(p) \in 1 .. Len(s)
              /\ (p \o t)[i] = t[i - Len(p)] /\ (p \o s)[i] = s[i - Len(p)]
          BY <1>1, <1>2, <2>1, <2>2, <2>4, <4>2
        <5>2. t[i - Len(p)] = IF i - Len(p) = Len(s) THEN y ELSE s[i - Len(p)]
          BY <2>2, <5>1
        <5>3. u[i] = IF i = Len(p) + Len(s) THEN y ELSE (p \o s)[i]
          BY <1>2, <2>3
        <5> QED
          BY <1>1, <5>1, <5>2, <5>3
      <4>3. i <= Len(p) \/ i > Len(p)
        BY <1>1
      <4> QED
        BY <4>1, <4>2, <4>3
    <3> QED
      BY <3>1, <3>2
  <2>6. p \o t = u
    BY <2>3, <2>4, <2>5, SeqEqual
  <2> QED
    BY <1>1, <1>2, <2>1, <2>6 DEF t, u
<1> QED
  BY <1>2, <1>3, <1>4

-----------------------------------------------------------------------------
\* An event the device is about to process counts as the oldest that waits.
Front == IF pc = "process" THEN <<[kind |-> cur.kind, serial |-> cur.x]>> ELSE << >>

\* The pending events are at most one in front and those in the ring.
LEMMA PendingParts ==
    ASSUME TypeOK
    PROVE  /\ Pending = Front \o Waiting
           /\ Front \in Seq(Item) /\ Waiting \in Seq(Item)
           /\ Front = << >> \/ (\E x \in Item : Front = <<x>>)
           /\ Len(Pending) >= Dist(head, tail) /\ Len(Waiting) = Dist(head, tail)
<1>1. [kind |-> cur.kind, serial |-> cur.x] \in Item
  BY DEF TypeOK, Local, Item
<1>2. Front \in Seq(Item) /\ (Front = << >> \/ (\E x \in Item : Front = <<x>>))
  BY <1>1 DEF Front
<1>3. Waiting \in Seq(Item) /\ Len(Waiting) = Dist(head, tail)
  BY WaitingIsSeq DEF WaitingIs
<1>4. Pending = Front \o Waiting
  BY DEF Pending, Front
<1>5. Len(Front \o Waiting) = Len(Front) + Len(Waiting)
  BY <1>2, <1>3, ConcatProperties
<1>8. Len(Front) \in Nat /\ Len(Waiting) \in Nat
  BY <1>2, <1>3, LenProperties
<1>6. Len(Pending) = Len(Front) + Len(Waiting)
  BY <1>4, <1>5
<1>7. Len(Pending) >= Dist(head, tail)
  BY <1>3, <1>6, <1>8
<1> QED
  BY <1>2, <1>3, <1>4, <1>7

\* Steps that only move the main program along, outside the copying.
LEMMA SameWaiting ==
    ASSUME head' = head, tail' = tail, events' = events,
           pc' = "step" <=> pc = "step", pc = "step" => cur' = cur
    PROVE  Waiting' = Waiting
<1>1. /\ Dist(head, tail)' = Dist(head, tail) /\ \A n : Slot(n)' = Slot(n)
      /\ pc = "step" => cur' = cur
  BY DEF Dist, Slot
<1> QED
  BY <1>1 DEF Waiting

\* What a stored report does to the slots by their distance from head.
LEMMA StoreSlots ==
    ASSUME TypeOK, NEW kind \in Kinds, NEW t \in Times, NEW scr \in Screens,
           Store(kind, t, scr), NEW d \in Nat, d = Dist(head, tail)
    PROVE  /\ head' = head
           /\ Coalesces(kind) =>
                /\ tail' = tail /\ d # 0
                /\ Slot(d - 1)'.kind = kind /\ Slot(d - 1)'.serial = serial + 1
                /\ \A n \in 0 .. d - 2 : Slot(n)' = Slot(n)
           /\ ~Coalesces(kind) =>
                /\ Dist(head, tail)' = d + 1
                /\ Slot(d)'.kind = kind /\ Slot(d)'.serial = serial + 1
                /\ \A n \in 0 .. d - 1 : Slot(n)' = Slot(n)
<1> USE QueueAssumption DEF TypeOK, Slots
<1> DEFINE Index(n) == IF head + n < QSize THEN head + n ELSE head + n - QSize
           x == [kind |-> kind, serial |-> serial + 1, time |-> Stamp(t), screen |-> scr]
<1>1. head' = head /\ events' = [events EXCEPT ![Target(kind)] = x]
  BY DEF Store
<1>2. \A n : Slot(n) = events[Index(n)] /\ Slot(n)' = events'[Index(n)]
  BY <1>1 DEF Slot
<1>3. /\ d \in 0 .. QSize - 1
      /\ Succ(tail) # head => Dist(head, Succ(tail)) = d + 1
      /\ tail # head => d # 0
  BY SlotAt
<1>4. /\ Index(d) = tail
      /\ \A n \in 0 .. d - 1 : Index(n) \in Slots /\ Index(n) # tail
      /\ tail # head => /\ Index(d - 1) = Pred(tail)
                        /\ \A n \in 0 .. d - 2 : Index(n) # Pred(tail)
  BY DEF Dist, Pred
<1>5. tail \in Slots /\ Pred(tail) \in Slots
  BY IndexType
<1>6. x.kind = kind /\ x.serial = serial + 1
  OBVIOUS
<1> HIDE DEF Index, x
<1>7. CASE Coalesces(kind)
  <2>1. tail' = tail /\ tail # head /\ Target(kind) = Pred(tail)
    BY <1>7 DEF Store, Target, Coalesces
  <2>2. events'[Pred(tail)] = x /\ \A i \in Slots : i # Pred(tail) => events'[i] = events[i]
    BY <1>1, <1>5, <2>1
  <2>3. Slot(d - 1)' = x
    BY <1>2, <1>4, <2>1, <2>2
  <2>4. ASSUME NEW n \in 0 .. d - 2 PROVE Slot(n)' = Slot(n)
    <3>1. n \in 0 .. d - 1
      BY <1>3
    <3>2. Index(n) \in Slots /\ Index(n) # Pred(tail)
      BY <1>4, <2>1, <3>1
    <3> QED
      BY <1>2, <2>2, <3>2
  <2> QED
    BY <1>1, <1>3, <1>6, <1>7, <2>1, <2>3, <2>4
<1>8. CASE ~Coalesces(kind)
  <2>1. tail' = Succ(tail) /\ Succ(tail) # head /\ Target(kind) = tail
    BY <1>8 DEF Store, Target, Full
  <2>2. events'[tail] = x /\ \A i \in Slots : i # tail => events'[i] = events[i]
    BY <1>1, <1>5, <2>1
  <2>3. Slot(d)' = x
    BY <1>2, <1>4, <2>2
  <2>4. \A n \in 0 .. d - 1 : Slot(n)' = Slot(n)
    BY <1>2, <1>4, <2>2
  <2>5. Dist(head, tail)' = d + 1
    BY <1>1, <1>3, <2>1 DEF Dist
  <2> QED
    BY <1>1, <1>6, <1>8, <2>3, <2>4, <2>5
<1> QED
  BY <1>7, <1>8

\* A stored report is accepted at the end, or supersedes the newest motion, or,
\* when that motion was just copied out of its slot, is dropped.
LEMMA StoreStream ==
    ASSUME TypeOK, TypeOK', QueueOrder, NEW kind \in Kinds, NEW t \in Times,
           NEW scr \in Screens, Store(kind, t, scr),
           Stream!Made(kind), cur' = cur, lastOut' = lastOut,
           pc' = pc \/ (pc \in {"select", "request"} /\ pc' \in {"woken", "serve"})
    PROVE  Stream!Next
<1> DEFINE x == [kind |-> kind, serial |-> serial + 1]
<1>1. x \in Item /\ Stream!Report(kind) = x /\ serial' = serial + 1
  BY DEF Item, TypeOK, Stream!Report, Stream!Made
<1>2. PICK d \in 0 .. QSize - 1 : d = Dist(head, tail)
  BY SlotAt
<1>3. /\ Pending = Front \o Waiting /\ Pending' = Front \o Waiting'
      /\ Front \in Seq(Item) /\ Waiting \in Seq(Item)
      /\ Front = << >> \/ (\E y \in Item : Front = <<y>>)
  BY PendingParts DEF Pending, Front
<1>4. /\ Waiting' \in Seq(Item) /\ Len(Waiting') = Dist(head, tail)'
      /\ \A n \in 1 .. Len(Waiting') : Waiting'[n] = Nth(n - 1)'
  BY WaitingNext DEF WaitingIs
<1>5. /\ Len(Waiting) = d
      /\ \A n \in 1 .. d : Waiting[n] = Nth(n - 1)
  BY <1>2, WaitingIsSeq DEF WaitingIs
<1>6. pc = "step" => d # 0
  BY <1>2, SlotAt DEF QueueOrder, ReadInOrder
<1>7. /\ head' = head
      /\ Coalesces(kind) =>
           /\ tail' = tail /\ d # 0
           /\ Slot(d - 1)'.kind = kind /\ Slot(d - 1)'.serial = serial + 1
           /\ \A n \in 0 .. d - 2 : Slot(n)' = Slot(n)
      /\ ~Coalesces(kind) =>
           /\ Dist(head, tail)' = d + 1
           /\ Slot(d)'.kind = kind /\ Slot(d)'.serial = serial + 1
           /\ \A n \in 0 .. d - 1 : Slot(n)' = Slot(n)
  BY <1>2, StoreSlots
<1>8. UNCHANGED <<lastOut.kind, lastOut.serial>> /\ (pc' = "step") = (pc = "step")
  OBVIOUS
<1>9. CASE ~Coalesces(kind)
  <2>1. Len(Waiting') = d + 1
    BY <1>4, <1>7, <1>9
  <2>2. /\ Append(Waiting, x) \in Seq(Item) /\ Len(Append(Waiting, x)) = d + 1
        /\ \A n \in 1 .. d + 1 :
              Append(Waiting, x)[n] = IF n = d + 1 THEN x ELSE Waiting[n]
    BY <1>1, <1>3, <1>5, AppendProperties
  <2>3. ASSUME NEW n \in 1 .. d + 1 PROVE Waiting'[n] = Append(Waiting, x)[n]
    <3>1. Waiting'[n] = Nth(n - 1)'
      BY <1>4, <2>1
    <3>2. CASE n = d + 1
      <4>1. Nth(d)' = [kind |-> Slot(d)'.kind, serial |-> Slot(d)'.serial]
        BY <1>6, <1>8 DEF Nth
      <4> QED
        BY <1>7, <1>9, <2>2, <3>1, <3>2, <4>1
    <3>3. CASE n # d + 1
      <4>1. n - 1 \in 0 .. d - 1 /\ n \in 1 .. d
        BY <3>3
      <4>2. Slot(n - 1)' = Slot(n - 1)
        BY <1>7, <1>9, <4>1
      <4>3. Nth(n - 1)' = Nth(n - 1)
        BY <1>8, <4>2 DEF Nth
      <4> QED
        BY <1>5, <2>2, <3>1, <3>3, <4>1, <4>3
    <3> QED
      BY <3>2, <3>3
  <2>4. Waiting' = Append(Waiting, x)
    BY <1>4, <2>1, <2>2, <2>3, SeqEqual
  <2>5. Pending' = Append(Pending, x)
    BY <1>1, <1>3, <2>4, InFront, SMTT(60)
  <2>6. Stream!Accept(kind)
    BY <1>1, <1>8, <2>5 DEF Stream!Accept
  <2> QED
    BY <2>6 DEF Stream!Next, Kinds
<1>10. CASE Coalesces(kind) /\ pc = "step" /\ d = 1
  <2>1. Len(Waiting') = 1 /\ Len(Waiting) = 1
    BY <1>2, <1>4, <1>5, <1>7, <1>10 DEF Dist
  <2>2. Nth(0)' = Nth(0)
    BY <1>8, <1>10 DEF Nth
  <2>3. Waiting'[1] = Waiting[1]
    BY <1>4, <1>5, <1>10, <2>1, <2>2
  <2>4. Waiting' = Waiting
    BY <1>3, <1>4, <2>1, <2>3, SeqEqual
  <2>5. Pending' = Pending
    BY <1>3, <2>4
  <2>6. Waiting[1] = [kind |-> cur.kind, serial |-> cur.x]
    BY <1>5, <1>10 DEF Nth
  <2>7. cur.kind = "motion" /\ kind = "motion"
    <3>1. e.kind = "motion"
      BY <1>2, <1>10, SlotAt DEF QueueOrder, NewestIsMotion, Coalesces
    <3> QED
      BY <1>10, <3>1 DEF QueueOrder, ReadInOrder, Coalesces
  <2>8. Pending = Waiting
    <3>1. Front = << >>
      BY <1>10 DEF Front
    <3> QED
      BY <1>3, <3>1, ConcatEmptySeq
  <2>9. Stream!EndsInMotion
    <3>1. Waiting # << >>
      BY <2>1
    <3>2. Waiting[Len(Waiting)].kind = "motion"
      BY <2>1, <2>6, <2>7
    <3> QED
      BY <2>8, <3>1, <3>2 DEF Stream!EndsInMotion
  <2>10. Stream!DropMotion
    BY <1>8, <2>5, <2>7, <2>9 DEF Stream!DropMotion
  <2> QED
    BY <2>10 DEF Stream!Next
<1>11. CASE Coalesces(kind) /\ ~(pc = "step" /\ d = 1)
  <2>1. Len(Waiting') = d /\ d # 0 /\ kind = "motion" /\ lastMotion /\ head # tail
    BY <1>2, <1>4, <1>7, <1>11 DEF Dist, Coalesces
  <2>2. Waiting # << >>
    BY <1>5, <2>1
  <2> DEFINE w == [Waiting EXCEPT ![Len(Waiting)] = x]
  <2>3. /\ w \in Seq(Item) /\ Len(w) = d
        /\ \A n \in 1 .. d : w[n] = IF n = d THEN x ELSE Waiting[n]
    BY <1>1, <1>3, <1>5, <2>2, NewLast
  <2> HIDE DEF w
  <2>4. ASSUME NEW n \in 1 .. d PROVE Waiting'[n] = w[n]
    <3>1. Waiting'[n] = Nth(n - 1)'
      BY <1>4, <2>1
    <3>2. CASE n = d
      <4>1. Nth(d - 1)' = [kind |-> Slot(d - 1)'.kind, serial |-> Slot(d - 1)'.serial]
        BY <1>2, <1>8, <1>11 DEF Nth
      <4> QED
        BY <1>7, <1>11, <2>3, <3>1, <3>2, <4>1
    <3>3. CASE n # d
      <4>1. n - 1 \in 0 .. d - 2
        BY <3>3
      <4>2. Slot(n - 1)' = Slot(n - 1)
        BY <1>7, <1>11, <4>1
      <4>3. Nth(n - 1)' = Nth(n - 1)
        BY <1>8, <4>2 DEF Nth
      <4> QED
        BY <1>5, <2>3, <3>1, <3>3, <4>3
    <3> QED
      BY <3>2, <3>3
  <2>5. Waiting' = w
    BY <1>4, <2>1, <2>3, <2>4, SeqEqual
  <2>6. /\ Pending # << >> /\ Pending[Len(Pending)] = Waiting[Len(Waiting)]
        /\ Pending' = [Pending EXCEPT ![Len(Pending)] = x]
    <3>1. /\ Front \o Waiting # << >>
          /\ (Front \o Waiting)[Len(Front \o Waiting)] = Waiting[Len(Waiting)]
          /\ Front \o w = [Front \o Waiting EXCEPT ![Len(Front \o Waiting)] = x]
      BY <1>1, <1>3, <2>2, InFront, SMTT(60) DEF w
    <3> QED
      BY <1>3, <2>5, <3>1
  <2>7. Waiting[d].kind = "motion"
    <3>1. Slot(d - 1).kind = "motion"
      BY <1>2, <2>1, SlotAt DEF QueueOrder, NewestIsMotion
    <3>2. Nth(d - 1) = [kind |-> Slot(d - 1).kind, serial |-> Slot(d - 1).serial]
      BY <1>2, <1>11 DEF Nth
    <3> QED
      BY <1>5, <2>1, <3>1, <3>2
  <2>8. Stream!Supersede
    BY <1>1, <1>5, <1>8, <2>1, <2>6, <2>7 DEF Stream!Supersede, Stream!EndsInMotion
  <2> QED
    BY <2>8 DEF Stream!Next
<1> QED
  BY <1>9, <1>10, <1>11

\* A report that is tossed is dropped: a motion always may be, and a key only
\* when as many events wait as the ring holds.
LEMMA TossStream ==
    ASSUME TypeOK, NEW kind \in Kinds, Toss(kind),
           Stream!Made(kind), cur' = cur, lastOut' = lastOut,
           pc' = pc \/ (pc \in {"select", "request"} /\ pc' \in {"woken", "serve"})
    PROVE  Stream!Next
<1>1. head' = head /\ tail' = tail /\ events' = events /\ Succ(tail) = head
  BY DEF Toss, Full, queueVars
<1>2. Waiting' = Waiting
  BY <1>1, SameWaiting
<1>3. Pending' = Pending
  BY <1>2 DEF Pending
<1>4. Len(Pending) >= QSize - 1
  BY <1>1, SlotAt, PendingParts
<1>5. ~Stream!Room
  BY <1>4, PendingParts, QueueAssumption DEF Stream!Room
<1>6. UNCHANGED <<lastOut.kind, lastOut.serial>>
  OBVIOUS
<1>7. CASE kind = "motion"
  BY <1>3, <1>5, <1>6, <1>7 DEF Stream!DropMotion, Stream!Next
<1>8. CASE kind = "key"
  BY <1>3, <1>5, <1>6, <1>8 DEF Stream!DropKey, Stream!Next
<1> QED
  BY <1>7, <1>8 DEF Kinds

\* A report of a device is a step of the stream, whatever becomes of it.
LEMMA ReportStream ==
    ASSUME TypeOK, TypeOK', QueueOrder, NEW kind \in Kinds, NEW t \in Times,
           NEW scr \in Screens, Report(kind, t, scr), cur' = cur, lastOut' = lastOut,
           pc' = pc \/ (pc \in {"select", "request"} /\ pc' \in {"woken", "serve"})
    PROVE  Stream!Next
<1>1. Stream!Made(kind) /\ (Toss(kind) \/ Store(kind, t, scr))
  BY DEF Report, mieqEnqueue, Stream!Made
<1> QED
  BY <1>1, StoreStream, TossStream

\* The event at head leaves the queue into the local xe.
LEMMA AdvanceStream ==
    ASSUME TypeOK, TypeOK', QueueOrder, AdvanceHead("step", "process")
    PROVE  UNCHANGED <<serial, pointer, Pending, lastOut>>
<1> DEFINE x == [kind |-> cur.kind, serial |-> cur.x]
<1>1. /\ head' = Succ(head) /\ tail' = tail /\ events' = events /\ cur' = cur
      /\ pc = "step" /\ pc' = "process" /\ lastOut' = lastOut
      /\ serial' = serial /\ pointer' = pointer
  BY DEF AdvanceHead, Consume, Moves, outVars
<1>2. PICK d \in 0 .. QSize - 1 : d = Dist(head, tail)
  BY SlotAt
<1>3. d # 0
  BY <1>1, <1>2, SlotAt DEF QueueOrder, ReadInOrder
<1>4. Dist(head, tail)' = d - 1 /\ \A n \in 0 .. d - 2 : Slot(n)' = Slot(n + 1)
  BY <1>1, <1>2, <1>3, QueueAssumption DEF Dist, Slot, Succ, TypeOK, Slots
<1>5. /\ Waiting \in Seq(Item) /\ Len(Waiting) = d
      /\ \A n \in 1 .. d : Waiting[n] = Nth(n - 1)
  BY <1>2, WaitingIsSeq DEF WaitingIs
<1>6. /\ Waiting' \in Seq(Item) /\ Len(Waiting') = d - 1
      /\ \A n \in 1 .. d - 1 : Waiting'[n] = Nth(n - 1)'
  BY <1>4, WaitingNext DEF WaitingIs
<1>7. x \in Item /\ <<x>> \in Seq(Item) /\ Len(<<x>>) = 1
  BY DEF Item, TypeOK, Local
<1>8. /\ <<x>> \o Waiting' \in Seq(Item) /\ Len(<<x>> \o Waiting') = d
      /\ \A n \in 1 .. d :
            (<<x>> \o Waiting')[n] = IF n <= 1 THEN x ELSE Waiting'[n - 1]
  BY <1>3, <1>6, <1>7, ConcatProperties
<1>9. ASSUME NEW n \in 1 .. d PROVE Waiting[n] = (<<x>> \o Waiting')[n]
  <2>1. CASE n = 1
    BY <1>1, <1>5, <1>8, <2>1 DEF Nth
  <2>2. CASE n # 1
    <3>1. n - 1 \in 1 .. d - 1 /\ n - 2 \in 0 .. d - 2
      BY <2>2
    <3>2. Nth(n - 2)' = [kind |-> Slot(n - 2)'.kind, serial |-> Slot(n - 2)'.serial]
      BY <1>1 DEF Nth
    <3>3. Nth(n - 1) = [kind |-> Slot(n - 1).kind, serial |-> Slot(n - 1).serial]
      BY <2>2 DEF Nth
    <3>4. Slot(n - 2)' = Slot(n - 1)
      BY <1>4, <3>1
    <3>5. Waiting'[n - 1] = Nth(n - 2)'
      BY <1>6, <3>1
    <3> QED
      BY <1>5, <1>8, <2>2, <3>2, <3>3, <3>4, <3>5
  <2> QED
    BY <2>1, <2>2
<1>10. Waiting = <<x>> \o Waiting'
  BY <1>5, <1>8, <1>9, SeqEqual
<1>11. Pending = Waiting /\ Pending' = <<x>> \o Waiting'
  <2>1. Pending' = <<x>> \o Waiting'
    BY <1>1 DEF Pending
  <2>2. Pending = << >> \o Waiting
    BY <1>1 DEF Pending
  <2> QED
    BY <1>5, <2>1, <2>2, ConcatEmptySeq
<1> QED
  BY <1>1, <1>10, <1>11

\* The last word is copied: from now on the copy counts, which is the same.
LEMMA CopyStream ==
    ASSUME TypeOK, TypeOK', QueueOrder, CopyXY
    PROVE  UNCHANGED <<serial, pointer, Pending, lastOut>>
<1>1. /\ head' = head /\ tail' = tail /\ events' = events
      /\ cur' = [cur EXCEPT !.x = e.serial, !.y = e.serial]
      /\ pc = "copyXY" /\ pc' = "step" /\ lastOut' = lastOut
      /\ serial' = serial /\ pointer' = pointer
  BY DEF CopyXY, Consume, Moves, outVars
<1>2. /\ Dist(head, tail)' = Dist(head, tail) /\ \A n : Slot(n)' = Slot(n)
      /\ Slot(0) = e /\ cur.kind = e.kind
  BY <1>1, SlotAt DEF Dist, Slot, QueueOrder, ReadInOrder
<1>3. cur'.kind = e.kind /\ cur'.x = e.serial
  BY <1>1, <1>2 DEF TypeOK, Local
<1>4. \A n : Nth(n)' = Nth(n)
  BY <1>1, <1>2, <1>3 DEF Nth
<1>5. Waiting' = Waiting
  <2>1. Len(Waiting') = Len(Waiting)
    BY <1>2, WaitingIsSeq, WaitingNext DEF WaitingIs
  <2>2. \A n \in 1 .. Len(Waiting) : Waiting'[n] = Waiting[n]
    BY <1>4, <2>1, WaitingIsSeq, WaitingNext DEF WaitingIs
  <2> QED
    BY <2>1, <2>2, WaitingIsSeq, WaitingNext, SeqEqual DEF WaitingIs
<1>6. Pending' = Pending
  BY <1>1, <1>5 DEF Pending
<1> QED
  BY <1>1, <1>6

\* The device takes the oldest event.
LEMMA ProcessStream ==
    ASSUME TypeOK, ProcessEvent
    PROVE  Stream!Deliver
<1> DEFINE x == [kind |-> cur.kind, serial |-> cur.x]
<1>1. /\ head' = head /\ tail' = tail /\ events' = events /\ cur' = cur
      /\ pc = "process" /\ pc' = "while" /\ serial' = serial /\ pointer' = pointer
      /\ lastOut'.kind = cur.kind /\ lastOut'.serial = cur.x
  BY DEF ProcessEvent, Consume, Moves
<1>2. Waiting' = Waiting
  BY <1>1, SameWaiting
<1>3. Pending = <<x>> \o Waiting /\ Pending' = << >> \o Waiting
  BY <1>1, <1>2 DEF Pending
<1>4. Waiting \in Seq(Item) /\ x \in Item
  BY WaitingIsSeq DEF WaitingIs, Item, TypeOK, Local
<1>5. Pending # << >> /\ Head(Pending) = x /\ Tail(Pending) = Waiting
  BY <1>3, <1>4
<1>6. Pending' = Waiting
  BY <1>3, <1>4, ConcatEmptySeq
<1> QED
  BY <1>1, <1>5, <1>6 DEF Stream!Deliver

\* Every step of the queue is a step of the stream or leaves it alone.
LEMMA StepImplements ==
    ASSUME OneScreen, TypeOK, TypeOK', QueueOrder, NoSwitch, [Next]_vars
    PROVE  [Stream!Next]_(Stream!sVars)
<1>1. ASSUME NEW t \in Times, PostKey(t) PROVE Stream!Next
  BY <1>1, ReportStream DEF PostKey, Interrupt, outVars, Kinds, TypeOK
<1>2. ASSUME NEW t \in Times, NEW scr \in Screens, PostMotion(t, scr)
      PROVE  Stream!Next
  BY <1>2, ReportStream DEF PostMotion, Interrupt, outVars, Kinds
<1>3. ASSUME NEW t \in Times, NEW scr \in Screens, Warp(t, scr)
      PROVE  Stream!Next
  BY <1>3, ReportStream DEF Warp, outVars, Kinds
<1>4. ASSUME UNCHANGED <<serial, pointer, Pending, lastOut>>
      PROVE  UNCHANGED Stream!sVars
  BY <1>4 DEF Stream!sVars
<1>5. CASE AdvanceHead("step", "process")
  BY <1>4, <1>5, AdvanceStream
<1>6. CASE CopyXY
  BY <1>4, <1>6, CopyStream
<1>7. CASE ProcessEvent
  BY <1>7, ProcessStream DEF Stream!Next
<1>8. CASE \/ SwitchScreen \/ ReadX \/ ReadY \/ NewCurrentScreen
           \/ AdvanceHead("stepSwitch", "newScreen")
  BY <1>8 DEF NoSwitch, SwitchScreen, ReadX, ReadY, NewCurrentScreen,
              AdvanceHead, Consume, Moves
<1>9. CASE \/ TestBeforeWait \/ TestBeforeRequest \/ EnterSelect
           \/ ClientReady \/ SelectTimeout \/ Woken \/ Request
           \/ WhileTest \/ CheckScreen \/ CopyHead
           \/ UNCHANGED vars
  <2>1. /\ head' = head /\ tail' = tail /\ events' = events
        /\ serial' = serial /\ pointer' = pointer /\ lastOut' = lastOut
        /\ (pc \in {"step", "process"} \/ pc' \in {"step", "process"})
             => pc' = pc /\ cur' = cur
    <3>1. CASE \/ TestBeforeWait \/ TestBeforeRequest \/ EnterSelect
               \/ ClientReady \/ SelectTimeout \/ Woken \/ Request
      BY <3>1 DEF TestBeforeWait, TestBeforeRequest, TestInput, EnterSelect,
                  ClientReady, SelectTimeout, Woken, Request, Loop, Moves,
                  queueVars, outVars
    <3>2. CASE WhileTest \/ CheckScreen \/ CopyHead \/ UNCHANGED vars
      BY <3>2 DEF WhileTest, CheckScreen, CopyHead, Consume, Moves, vars,
                  queueVars, outVars, TypeOK
    <3> QED
      BY <1>9, <3>1, <3>2
  <2>2. Waiting' = Waiting
    BY <2>1, SameWaiting
  <2>3. Pending' = Pending
    BY <2>1, <2>2 DEF Pending
  <2> QED
    BY <1>4, <2>1, <2>3
<1> QED
  BY <1>1, <1>2, <1>3, <1>5, <1>6, <1>7, <1>8, <1>9 DEF Next, Device, Main

\* On one screen the ring, its two indexes and the locals of the consumer
\* implement the stream of InputStream, however the handler interrupts the
\* copying: a report is lost only when QSize - 1 events wait, the one in the
\* locals included, or is a motion next to a motion; the rest stays in order.
THEOREM StreamImplemented ==
    ASSUME OneScreen
    PROVE  Spec => RefinesStream
<1>1. TypeOK /\ Init => Stream!Init /\ NoSwitch /\ KeysKept
  <2> SUFFICES ASSUME TypeOK, Init PROVE Stream!Init /\ NoSwitch /\ KeysKept
    OBVIOUS
  <2>1. NoSwitch /\ KeysKept
    BY DEF Init, NoSwitch, KeysKept
  <2>2. Dist(head, tail) = 0
    BY DEF Init, mieqInit, Dist
  <2>3. Pending = << >>
    <3>1. Waiting = << >>
      BY <2>2, WaitingIsSeq DEF WaitingIs
    <3> QED
      BY <3>1 DEF Pending, Init
  <2> QED
    BY <2>1, <2>3 DEF Stream!Init, Init
<1>2. TypeOK /\ QueueOrder /\ NoSwitch /\ KeysKept /\ [Next]_vars
        => (NoSwitch /\ KeysKept)'
  BY StepKeepsKeys
<1>3. TypeOK /\ TypeOK' /\ QueueOrder /\ NoSwitch /\ [Next]_vars
        => [Stream!Next]_(Stream!sVars)
  BY StepImplements
<1> QED
  BY <1>1, <1>2, <1>3, TypeCorrect, QueueKept, PTL DEF Spec, RefinesStream, Stream!Spec
=============================================================================
