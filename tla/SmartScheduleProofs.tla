------------------------- MODULE SmartScheduleProofs -------------------------
(***************************************************************************)
(* Theorems about SmartSchedule, for every set of clients, all bounds of   *)
(* the priorities and all slices.                                          *)
(***************************************************************************)
EXTENDS SmartSchedule, TLAPS, FiniteSetTheorems, NaturalsInduction, WellFoundedInduction

\* A set of numbers has a least one.
LEMMA LeastNat ==
    ASSUME NEW T, T \subseteq Nat, T # {}
    PROVE  \E x \in T : \A y \in T : x <= y
<1>1. PICK R : IsWellFoundedOn(R, Nat) /\ \A x, y \in Nat : y < x => <<y, x>> \in R
  <2> DEFINE R == OpToRel(<, Nat)
  <2>1. IsWellFoundedOn(R, Nat)
    BY NatLessThanWellFounded
  <2>2. \A x, y \in Nat : y < x => <<y, x>> \in R
    BY DEF OpToRel
  <2> HIDE DEF R
  <2> QED
    BY <2>1, <2>2
<1>2. PICK x \in T : \A y \in T : <<y, x>> \notin R
  BY <1>1, WFMin, Zenon
<1>3. \A y \in T : ~(y < x)
  BY <1>1, <1>2
<1> QED
  BY <1>2, <1>3

-----------------------------------------------------------------------------
(* SmartScheduleClient.                                                    *)

\* The distance of two client indices, counted as an unsigned byte.
LEMMA ModDiff ==
    ASSUME NEW a \in 0 .. 255, NEW b \in 0 .. 255
    PROVE  (a - b) % 256 = IF a >= b THEN a - b ELSE a - b + 256
  OBVIOUS

\* There is a number of clients, and of those in any set of them.
LEMMA ClientsFinite ==
    /\ IsFiniteSet(Clients) /\ Cardinality(Clients) \in Nat \ {0}
    /\ \A S \in SUBSET Clients : IsFiniteSet(S) /\ Cardinality(S) \in Nat
<1>1. Clients \in SUBSET Nat /\ 255 \in Nat /\ \A c \in Clients : c <= 255
  BY SmartAssumption
<1>2. IsFiniteSet(Clients)
  BY <1>1, FS_BoundedSetOfNaturals
<1>3. Cardinality(Clients) \in Nat /\ Cardinality(Clients) # 0
  BY <1>2, FS_CardinalityType, FS_EmptySet, SmartAssumption
<1>4. \A S \in SUBSET Clients : IsFiniteSet(S)
  BY <1>2, FS_Subset
<1>5. \A S \in SUBSET Clients : Cardinality(S) \in Nat
  BY <1>4, FS_CardinalityType
<1> QED
  BY <1>2, <1>3, <1>4, <1>5

\* The choice is one of the ready clients, of the highest priority, and the
\* first of these in the round.
LEMMA BestFinds ==
    ASSUME NEW ready \in SUBSET Clients, ready # {},
           NEW p \in [Clients -> MinPriority .. MaxPriority],
           lastIndex \in Clients \cup {0}
    PROVE  /\ Best(ready, p) \in ready
           /\ \A d \in ready \ {Best(ready, p)} :
                 \/ p[d] < p[Best(ready, p)]
                 \/ /\ p[d] = p[Best(ready, p)]
                    /\ Robin(d) < Robin(Best(ready, p))
<1> USE SmartAssumption DEF MinPriority
<1>1. \A c \in Clients : Robin(c) \in 0 .. 255
  BY ModDiff DEF Robin
<1>2. \A c, d \in Clients : Robin(c) = Robin(d) => c = d
  BY ModDiff DEF Robin
<1>3. PICK m \in ready : \A d \in ready : p[d] <= p[m]
  <2> DEFINE T == {n \in Nat : \E c \in ready : n = MaxPriority - p[c]}
  <2>1. T \subseteq Nat /\ \A c \in ready : MaxPriority - p[c] \in T
    <3>1. \A c \in ready : p[c] \in MinPriority .. MaxPriority
      OBVIOUS
    <3> QED
      BY <3>1
  <2>2. PICK x \in T : \A y \in T : x <= y
    <3> HIDE DEF T
    <3> QED
      BY <2>1, LeastNat
  <2>3. PICK c \in ready : x = MaxPriority - p[c]
    OBVIOUS
  <2>4. \A d \in ready : p[d] <= p[c]
    <3>1. \A d \in ready : p[d] \in Int /\ MaxPriority - p[c] <= MaxPriority - p[d]
      BY <2>1, <2>2, <2>3
    <3> HIDE DEF MinPriority, T
    <3> QED
      BY <3>1
  <2> QED
    BY <2>4
<1>4. PICK b \in ready : p[b] = p[m] /\ \A d \in ready : p[d] = p[m] => Robin(d) <= Robin(b)
  <2> DEFINE T == {n \in Nat : \E c \in ready : p[c] = p[m] /\ n = 255 - Robin(c)}
  <2>1. /\ T \subseteq Nat
        /\ \A c \in ready : p[c] = p[m] => 255 - Robin(c) \in T
    BY <1>1, SMTT(60)
  <2>2. PICK x \in T : \A y \in T : x <= y
    <3> HIDE DEF T
    <3> QED
      BY <2>1, LeastNat
  <2>3. PICK c \in ready : p[c] = p[m] /\ x = 255 - Robin(c)
    OBVIOUS
  <2>4. \A d \in ready : p[d] = p[m] => Robin(d) <= Robin(c)
    <3>1. \A d \in ready : p[d] = p[m] => 255 - Robin(c) <= 255 - Robin(d)
      BY <2>1, <2>2, <2>3
    <3> HIDE DEF MinPriority, T
    <3>2. Robin(c) \in Int /\ \A d \in ready : Robin(d) \in Int
      BY <1>1, SMTT(60)
    <3> QED
      BY <3>1, <3>2
  <2> QED
    BY <2>3, <2>4
<1>5. \A d \in ready \ {b} : \/ p[d] < p[b]
                             \/ p[d] = p[b] /\ Robin(d) < Robin(b)
  <2> TAKE d \in ready \ {b}
  <2>1. p[d] \in Int /\ p[m] \in Int /\ Robin(d) \in Int /\ Robin(b) \in Int
    BY <1>1, SMTT(60)
  <2>2. Robin(d) # Robin(b)
    BY <1>2
  <2> HIDE DEF MinPriority
  <2> QED
    BY <1>3, <1>4, <2>1, <2>2
<1> QED
  BY <1>5 DEF Best

\* What SmartScheduleClient leaves behind, and that its choice comes before every
\* other ready client.
LEMMA ChoiceType ==
    ASSUME TypeOK, NEW ready \in SUBSET alive, ready # {}, SmartScheduleClient(ready)
    PROVE  /\ cur' \in ready /\ last' = cur' /\ lastIndex' = cur' /\ pc' = "chosen"
           /\ prio' \in [Clients -> MinPriority .. MaxPriority]
           /\ \A d \in ready \ {cur'} :
                 \/ prio'[d] < prio'[cur']
                 \/ prio'[d] = prio'[cur'] /\ Robin(d) < Robin(cur')
           /\ slice' \in Interval .. MaxSlice /\ lastAge' \in 0 .. Long + 1
           /\ passed' \in [Clients -> Nat]
<1> USE SmartAssumption DEF TypeOK
<1>1. Praised(ready) \in [Clients -> MinPriority .. MaxPriority]
  BY DEF Praised, MinPriority
<1>2. /\ prio' = Praised(ready) /\ cur' = Best(ready, prio')
      /\ last' = cur' /\ lastIndex' = cur' /\ pc' = "chosen"
  BY DEF SmartScheduleClient
<1>3. /\ cur' \in ready
      /\ \A d \in ready \ {cur'} :
            \/ prio'[d] < prio'[cur']
            \/ prio'[d] = prio'[cur'] /\ Robin(d) < Robin(cur')
  BY <1>1, <1>2, BestFinds, ZenonT(60)
<1>4. lastAge' \in 0 .. Long + 1
  BY DEF SmartScheduleClient
<1>5. slice' \in Interval .. MaxSlice
  BY DEF SmartScheduleClient, Slice
<1>6. passed' \in [Clients -> Nat]
  BY DEF SmartScheduleClient
<1> QED
  BY <1>1, <1>2, <1>3, <1>4, <1>5, <1>6

\* The variables keep their types, for every set of clients.
THEOREM TypeCorrect == Spec => []TypeOK
<1> USE SmartAssumption
<1>0. IdleCap \in Nat /\ \A n \in 0 .. IdleCap : Later(n, IdleCap) \in 0 .. IdleCap
  <2>1. IdleCap \in Nat
    BY ClientsFinite DEF IdleCap
  <2> QED
    BY <2>1 DEF Later
<1>1. Init => TypeOK
  <2> SUFFICES ASSUME Init PROVE TypeOK
    OBVIOUS
  <2>1. 0 \in MinPriority .. MaxPriority /\ 0 \in 0 .. IdleCap /\ "none" \in Waits
    BY <1>0 DEF MinPriority, Waits
  <2>2. /\ want \in [Clients -> Waits] /\ prio \in [Clients -> MinPriority .. MaxPriority]
        /\ idle \in [Clients -> 0 .. IdleCap] /\ passed \in [Clients -> Nat]
    BY <2>1 DEF Init
  <2>3. slice \in Interval .. MaxSlice /\ lastAge \in 0 .. Long + 1 /\ used \in 0 .. MaxSlice
    BY DEF Init
  <2> QED
    BY <2>2, <2>3 DEF Init, TypeOK
<1>2. TypeOK /\ [Next]_vars => TypeOK'
  <2> SUFFICES ASSUME TypeOK, [Next]_vars PROVE TypeOK'
    OBVIOUS
  <2>2. ASSUME NEW ready \in SUBSET alive, ready # {}, SmartScheduleClient(ready),
               UNCHANGED <<alive, want, idle, used, due>>
        PROVE  TypeOK'
    BY <2>2, ChoiceType, ZenonT(60) DEF TypeOK
  <2> USE DEF TypeOK, clientVars, lastVars
  <2>3. CASE TimerComes
    BY <2>3 DEF TimerComes
  <2>4. ASSUME NEW c \in Clients, Send(c) PROVE TypeOK'
    BY <2>4 DEF Send, Waits
  <2>5. ASSUME NEW c \in Clients, UserInput(c) PROVE TypeOK'
    BY <2>5 DEF UserInput, MinPriority
  <2>6. ASSUME NEW c \in Clients, CloseDownClient(c) PROVE TypeOK'
    BY <2>6 DEF CloseDownClient, Waits
  <2>7. ASSUME NEW c \in Clients, Connect(c) PROVE TypeOK'
    BY <1>0, <2>7 DEF Connect, MinPriority
  <2>8. CASE Tick
    BY <1>0, <2>8 DEF Tick, Later
  <2>9. CASE Poll
    BY <2>2, <2>9 DEF Poll, Buffered, Readable
  <2>10. CASE Hear
    BY <2>2, <2>10 DEF Hear, Readable
  <2>11. CASE Block \/ Wake \/ StartTurn
    <3>1. CASE Block
      BY <3>1 DEF Block
    <3>2. CASE Wake
      BY <3>2 DEF Wake
    <3>3. CASE StartTurn
      BY <3>3 DEF StartTurn
    <3> QED
      BY <2>11, <3>1, <3>2, <3>3
  <2>12. ASSUME EndTurn,
                prio' \in [Clients -> MinPriority .. MaxPriority],
                want' \in [Clients -> Waits]
         PROVE  TypeOK'
    <3>1. idle' \in [Clients -> 0 .. IdleCap]
      <4>1. idle \in [Clients -> 0 .. IdleCap] /\ idle' = [idle EXCEPT ![cur] = 0]
        BY <2>12 DEF EndTurn
      <4>2. 0 \in 0 .. IdleCap
        BY <1>0
      <4> QED
        BY <4>1, <4>2
    <3>2. used' \in 0 .. MaxSlice
      BY <2>12 DEF EndTurn
    <3>3. /\ UNCHANGED <<alive, slice, last, lastIndex, lastAge, due, passed>>
          /\ pc' = "wait" /\ cur' = 0
      BY <2>12 DEF EndTurn
    <3>4. /\ alive' \subseteq Clients /\ slice' \in Interval .. MaxSlice
          /\ last' \in alive' \cup {0} /\ lastIndex' \in Clients \cup {0}
          /\ (last' # 0 => lastIndex' = last') /\ lastAge' \in 0 .. Long + 1
      BY <3>3
    <3>5. due' \in BOOLEAN /\ passed' \in [Clients -> Nat]
      BY <3>3, Zenon
    <3>6. /\ cur' \in Clients \cup {0} /\ (pc' \in {"chosen", "run"} => cur' \in alive')
          /\ pc' \in {"wait", "select", "chosen", "run"}
      BY <3>3
    <3> QED
      BY <2>12, <3>1, <3>2, <3>4, <3>5, <3>6
  <2>13. CASE SliceOver
    BY <2>12, <2>13 DEF SliceOver, MinPriority
  <2>14. CASE Execute
    <3>1. want' \in [Clients -> Waits]
      BY <2>14 DEF Execute, Waits
    <3>2. CASE EndTurn /\ UNCHANGED prio
      BY <2>12, <3>1, <3>2
    <3>3. CASE UNCHANGED <<alive, prio, idle, lastVars, used, cur, pc, due, passed>>
      BY <3>1, <3>3
    <3> QED
      BY <2>14, <3>2, <3>3 DEF Execute
  <2>15. CASE NothingToRead
    BY <2>12, <2>15 DEF NothingToRead
  <2>16. CASE UNCHANGED vars
    BY <2>16 DEF vars
  <2> QED
    BY <2>3, <2>4, <2>5, <2>6, <2>7, <2>8, <2>9, <2>10, <2>11, <2>13, <2>14,
       <2>15, <2>16 DEF Next, World, Server
<1> QED
  BY <1>1, <1>2, PTL DEF Spec

-----------------------------------------------------------------------------
(* The robin.                                                              *)

\* The clients that may still be served before c: those the robin meets on
\* its way from the last one down to c.
Before(c) == {d \in Clients \ {c} : (d - c) % 256 < 256 - Robin(c)}

\* Every turn that passes a client by uses one of these up.
RobinInv == \A c \in Clients : passed[c] + Cardinality(Before(c)) < Cardinality(Clients)

\* Fewer clients than all may come before c.
LEMMA BeforeType ==
    ASSUME NEW c \in Clients
    PROVE  /\ IsFiniteSet(Before(c)) /\ Cardinality(Before(c)) \in Nat
           /\ Cardinality(Before(c)) < Cardinality(Clients)
<1>1. Before(c) \in SUBSET (Clients \ {c})
  BY DEF Before
<1>2. /\ IsFiniteSet(Clients \ {c})
      /\ Cardinality(Clients \ {c}) = Cardinality(Clients) - 1
  BY ClientsFinite, FS_RemoveElement
<1>3. /\ IsFiniteSet(Before(c))
      /\ Cardinality(Before(c)) <= Cardinality(Clients \ {c})
  BY <1>1, <1>2, FS_Subset
<1>4. Cardinality(Before(c)) \in Nat
  BY <1>3, FS_CardinalityType
<1> QED
  BY <1>2, <1>3, <1>4, ClientsFinite

\* A choice that prefers b to c of the same priority uses b up.
LEMMA PassedBy ==
    ASSUME NEW b \in Clients, NEW c \in Clients, lastIndex \in Clients \cup {0},
           lastIndex' = b, Robin(c) < Robin(b)
    PROVE  /\ b \in Before(c) /\ Before(c)' \subseteq Before(c) \ {b}
<1> USE SmartAssumption
<1>1. /\ Robin(c) = IF c >= lastIndex THEN c - lastIndex ELSE c - lastIndex + 256
      /\ Robin(b) = IF b >= lastIndex THEN b - lastIndex ELSE b - lastIndex + 256
      /\ Robin(c)' = IF c >= b THEN c - b ELSE c - b + 256
  BY ModDiff DEF Robin
<1>2. \A d \in Clients : (d - c) % 256 = IF d >= c THEN d - c ELSE d - c + 256
  BY ModDiff
<1>3. b # c
  BY <1>1
<1>4. b \in Before(c)
  BY <1>1, <1>2, <1>3 DEF Before
<1>5. ASSUME NEW d \in Before(c)' PROVE d \in Before(c) \ {b}
  <2>1. d \in Clients /\ d # c /\ (d - c) % 256 < 256 - Robin(c)'
    BY <1>5 DEF Before
  <2>2. d # b /\ (d - c) % 256 < 256 - Robin(c)
    BY <1>1, <1>2, <1>3, <2>1
  <2> QED
    BY <2>1, <2>2 DEF Before
<1> QED
  BY <1>4, <1>5

\* A choice passes a client by only by using up one that was before it.
LEMMA ChoiceKeepsRobin ==
    ASSUME TypeOK, RobinInv, NEW ready \in SUBSET alive, ready # {},
           SmartScheduleClient(ready)
    PROVE  RobinInv'
<1>1. /\ cur' \in ready /\ lastIndex' = cur'
      /\ \A d \in ready \ {cur'} :
            \/ prio'[d] < prio'[cur']
            \/ prio'[d] = prio'[cur'] /\ Robin(d) < Robin(cur')
      /\ prio' \in [Clients -> MinPriority .. MaxPriority]
  BY ChoiceType
<1> DEFINE b == cur'
<1>2. passed' = [c \in Clients |-> IF c \in ready \ {b} /\ prio'[c] = prio'[b]
                                   THEN passed[c] + 1 ELSE 0]
  BY DEF SmartScheduleClient
<1>3. b \in Clients /\ lastIndex \in Clients \cup {0} /\ lastIndex' \in Clients
      /\ passed \in [Clients -> Nat] /\ ready \subseteq Clients
  BY <1>1 DEF TypeOK
<1>4. ASSUME NEW c \in Clients
      PROVE  passed'[c] + Cardinality(Before(c)') < Cardinality(Clients)
  <2>1. CASE c \in ready \ {b} /\ prio'[c] = prio'[b]
    <3>1. Robin(c) < Robin(b)
      <4>1. ~(prio'[c] < prio'[b])
        BY <1>1, <1>3, <2>1, SmartAssumption DEF MinPriority
      <4> QED
        BY <1>1, <2>1, <4>1
    <3> HIDE DEF b
    <3>2. b \in Before(c) /\ Before(c)' \subseteq Before(c) \ {b}
      BY <1>1, <1>3, <3>1, PassedBy DEF b
    <3>3. /\ IsFiniteSet(Before(c) \ {b})
          /\ Cardinality(Before(c) \ {b}) = Cardinality(Before(c)) - 1
      BY <3>2, BeforeType, FS_RemoveElement
    <3>4. IsFiniteSet(Before(c)') /\ Cardinality(Before(c)') <= Cardinality(Before(c)) - 1
      BY <3>2, <3>3, FS_Subset
    <3>5. Cardinality(Before(c)') \in Nat
      BY <3>4, FS_CardinalityType
    <3>6. passed[c] + Cardinality(Before(c)) < Cardinality(Clients)
      BY DEF RobinInv
    <3>7. passed'[c] = passed[c] + 1
      BY <1>2, <2>1
    <3> QED
      BY <1>3, <3>4, <3>5, <3>6, <3>7, BeforeType, ClientsFinite
  <2>2. CASE ~(c \in ready \ {b} /\ prio'[c] = prio'[b])
    <3>1. passed'[c] = 0
      BY <1>2, <2>2
    <3>2. Before(c)' \in SUBSET (Clients \ {c})
      BY DEF Before
    <3>3. /\ IsFiniteSet(Clients \ {c})
          /\ Cardinality(Clients \ {c}) = Cardinality(Clients) - 1
      BY ClientsFinite, FS_RemoveElement
    <3>4. IsFiniteSet(Before(c)') /\ Cardinality(Before(c)') <= Cardinality(Clients) - 1
      BY <3>2, <3>3, FS_Subset
    <3>5. Cardinality(Before(c)') \in Nat
      BY <3>4, FS_CardinalityType
    <3> QED
      BY <3>1, <3>4, <3>5, ClientsFinite
  <2> QED
    BY <2>1, <2>2
<1> QED
  BY <1>4 DEF RobinInv

\* The turns that pass a client by and the clients that may still do so are
\* together fewer than all.
THEOREM RobinTurns == Spec => []RobinInv
<1>1. Init => RobinInv
  <2> SUFFICES ASSUME Init, NEW c \in Clients
               PROVE  passed[c] + Cardinality(Before(c)) < Cardinality(Clients)
    BY DEF RobinInv
  <2>1. passed[c] = 0
    BY DEF Init
  <2> QED
    BY <2>1, BeforeType
<1>2. TypeOK /\ RobinInv /\ [Next]_vars => RobinInv'
  <2> SUFFICES ASSUME TypeOK, RobinInv, [Next]_vars PROVE RobinInv'
    OBVIOUS
  <2>1. CASE UNCHANGED <<passed, lastIndex>>
    <3>1. \A c \in Clients : Before(c)' = Before(c)
      BY <2>1 DEF Before, Robin
    <3> QED
      BY <2>1, <3>1 DEF RobinInv
  <2>2. ASSUME NEW c \in Clients, CloseDownClient(c) PROVE RobinInv'
    <3>1. \A d \in Clients : Before(d)' = Before(d)
      BY <2>2 DEF Before, Robin, CloseDownClient
    <3>2. \A d \in Clients : passed'[d] = passed[d] \/ passed'[d] = 0
      BY <2>2 DEF CloseDownClient, TypeOK
    <3> QED
      BY <3>1, <3>2, BeforeType DEF RobinInv
  <2>3. CASE Poll
    BY <2>3, ChoiceKeepsRobin DEF Poll, Buffered, Readable
  <2>4. CASE Hear
    BY <2>4, ChoiceKeepsRobin DEF Hear, Readable
  <2>5. ASSUME NEW c \in Clients, Send(c) \/ UserInput(c) \/ Connect(c) PROVE RobinInv'
    BY <2>1, <2>5 DEF Send, UserInput, Connect, lastVars
  <2>6. CASE TimerComes \/ Tick \/ Block \/ Wake \/ StartTurn \/ SliceOver \/ Execute
             \/ NothingToRead \/ UNCHANGED vars
    BY <2>1, <2>6 DEF TimerComes, Tick, Block, Wake, StartTurn, SliceOver, Execute,
                      NothingToRead, EndTurn, vars, lastVars
  <2> QED
    BY <2>2, <2>3, <2>4, <2>5, <2>6 DEF Next, World, Server
<1> QED
  BY <1>1, <1>2, TypeCorrect, PTL DEF Spec

\* While a client is ready, others of its priority get fewer turns in a row
\* than there are clients.
THEOREM TurnsShared == Spec => []NotOvertaken
<1>1. TypeOK /\ RobinInv => NotOvertaken
  BY BeforeType, ClientsFinite DEF TypeOK, RobinInv, NotOvertaken
<1> QED
  BY <1>1, TypeCorrect, RobinTurns, PTL
=============================================================================
