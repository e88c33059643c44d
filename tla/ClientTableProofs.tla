-------------------------- MODULE ClientTableProofs --------------------------
(***************************************************************************)
(* Proofs about ClientTable, for every size of the table, every use of the *)
(* close-down modes and every dispatchExceptionAtReset, as long as nobody  *)
(* but the last client asks for a reset, and until a client is lost        *)
(* between its security check and its setup.                               *)
(***************************************************************************)
EXTENDS ClientTable, FiniteSetTheorems, WellFoundedInduction, TLAPS

-----------------------------------------------------------------------------
(* What the two searches of the table find.                                *)

\* A set of numbers has a least one.
LEMMA LeastNat ==
    ASSUME NEW T, T \subseteq Nat, T # {}
    PROVE  \E x \in T : \A y \in T : x <= y
<1>1. PICK R : IsWellFoundedOn(R, Nat) /\ \A x, y \in Nat : y < x => <<y, x>> \in R
  <2> DEFINE R == OpToRel(<, Nat)
  <2>1. IsWellFoundedOn(R, Nat)
    BY NatLessThanWellFounded
  <2>2. \A x, y \in Nat : y < x => <<y, x>> \in R
    BY DEF OpToRel
  <2> HIDE DEF R
  <2> QED
    BY <2>1, <2>2
<1>2. PICK x \in T : \A y \in T : <<y, x>> \notin R
    BY <1>1, WFMin, Zenon
<1>3. \A y \in T : ~(y < x)
    BY <1>1, <1>2
<1> QED
    BY <1>2, <1>3

\* CloseDownClient brings currentMaxClients down to the last slot in use.
LEMMA ShrunkFinds ==
    ASSUME NEW st, currentMax \in 1 .. MaxClients
    PROVE  /\ Shrunk(st) \in 1 .. currentMax
           /\ Shrunk(st) = 1 \/ st[Shrunk(st) - 1] # "free"
           /\ \A c \in Shrunk(st) .. currentMax - 1 : st[c] = "free"
<1> USE TableAssumption
<1> DEFINE T == {top \in 1 .. currentMax : \A c \in top .. currentMax - 1 : st[c] = "free"}
<1>1. T \subseteq Nat /\ currentMax \in T
    OBVIOUS
<1>2. PICK t \in T : \A top \in T : t <= top
    BY <1>1, LeastNat
<1>3. t = 1 \/ st[t - 1] # "free"
  <2> SUFFICES ASSUME t # 1, st[t - 1] = "free"
               PROVE  t - 1 \in T
    BY <1>2
  <2> QED
    OBVIOUS
<1>4. \E top \in 1 .. currentMax :
          /\ top = 1 \/ st[top - 1] # "free"
          /\ \A c \in top .. currentMax - 1 : st[c] = "free"
    BY <1>2, <1>3
<1> QED
    BY <1>4 DEF Shrunk

\* NextAvailableClient stops at the first slot that is free.
LEMMA NextFreeFinds ==
    ASSUME NEW st, nextFree \in 1 .. MaxClients
    PROVE  /\ NextFree(st) \in nextFree .. MaxClients
           /\ NextFree(st) = MaxClients \/ st[NextFree(st)] = "free"
           /\ \A c \in nextFree .. NextFree(st) - 1 : st[c] # "free"
<1> USE TableAssumption
<1> DEFINE T == {f \in nextFree .. MaxClients : f = MaxClients \/ st[f] = "free"}
<1>1. T \subseteq Nat /\ MaxClients \in T
    OBVIOUS
<1>2. PICK f \in T : \A g \in T : f <= g
    BY <1>1, LeastNat
<1>3. \A c \in nextFree .. f - 1 : st[c] # "free"
    BY <1>2
<1>4. \E g \in nextFree .. MaxClients :
          /\ g = MaxClients \/ st[g] = "free"
          /\ \A c \in nextFree .. g - 1 : st[c] # "free"
    BY <1>2, <1>3
<1> QED
    BY <1>4 DEF NextFree
-----------------------------------------------------------------------------
(* The invariant.                                                          *)

\* The condition: only the last client to leave brings a reset.
NoForcedReset == "reset" \notin Requests

\* Before its setup a client has the mode it was given.  A reset is due only
\* when nobody is past its setup, and no turn is given until it is done; what
\* the loop of KillAllClients has passed is free.
InSetupDestroy ==
    \A c \in Slots : state[c] \in {"initial", "checked"} => mode[c] = "destroy"

ResetInv ==
    /\ "reset" \in exception => nClients = 0 /\ pc \notin {"serve", "temp"}
    /\ InSetupDestroy
    /\ pc = "kill" => exception # {}
    /\ pc = "kill" /\ "terminate" \notin exception =>
           \A c \in Slots : c < i => state[c] = "free"
    /\ NothingSurvives
    /\ pc \in {"serve", "temp"} => cur \in Connected

IInv == TypeOK /\ lost = 0 /\ Counters /\ ResetInv

\* Sets of slots are finite, and count zero only when empty;
LEMMA SetsOfSlots ==
    ASSUME NEW S \in SUBSET Slots
    PROVE  /\ IsFiniteSet(S) /\ Cardinality(S) \in 0 .. MaxClients - 1
           /\ Cardinality(S) = 0 <=> S = {}
<1>1. IsFiniteSet(Slots) /\ Cardinality(Slots) = MaxClients - 1
    BY TableAssumption, FS_Interval DEF Slots
<1>2. IsFiniteSet(S) /\ Cardinality(S) <= Cardinality(Slots)
    BY <1>1, FS_Subset, Zenon
<1>3. Cardinality(S) \in Nat
    BY <1>2, FS_CardinalityType, Zenon
<1>4. Cardinality(S) = 0 <=> S = {}
    BY <1>2, FS_EmptySet, Zenon
<1> QED
    BY <1>1, <1>2, <1>3, <1>4, TableAssumption

\* so are the running clients.
LEMMA RunningFinite ==
    /\ IsFiniteSet(Running) /\ Cardinality(Running) \in 0 .. MaxClients - 1
    /\ Cardinality(Running) = 0 <=> Running = {}
<1>1. Running \in SUBSET Slots
    BY DEF Running
<1> QED
    BY <1>1, SetsOfSlots

LEMMA InitInv == Init => IInv
<1> SUFFICES ASSUME Init PROVE IInv
    OBVIOUS
<1> USE TableAssumption DEF Init
<1>1. TypeOK
    BY DEF TypeOK, States, Places, Slots
<1>2. Running = {} /\ Used = {}
    BY DEF Running, Used
<1>3. CountRight
    BY <1>2, RunningFinite DEF CountRight
<1>4. MinFree /\ AllBelowMax
    BY <1>2 DEF MinFree, AllBelowMax, Slots
<1>5. ResetInv
    BY DEF InSetupDestroy, ResetInv, NothingSurvives
<1> QED
    BY <1>1, <1>3, <1>4, <1>5 DEF IInv, Counters

\* A step that leaves the table and its counters alone keeps what they say.
LEMMA SameTable ==
    ASSUME Counters, UNCHANGED <<state, counters>>
    PROVE  Counters'
BY DEF Counters, MinFree, AllBelowMax, CountRight, Used, Running, counters

\* CloseDownClient keeps the table right, takes at most one off nClients, and
\* raises an exception only for the last client past its setup.
LEMMA CloseDownKeeps ==
    ASSUME TypeOK, Counters, NEW c \in Slots, state[c] # "free", CloseDownClient(c),
           lost = 0, lost' = 0
    PROVE  /\ Counters'
           /\ state' = [state EXCEPT ![c] = IF Keeps(c) THEN "retained" ELSE "free"]
           /\ mode' = mode
           /\ state' \in [Slots -> States]
           /\ nextFree' \in 1 .. MaxClients /\ currentMax' \in 1 .. currentMax
           /\ nClients' = 0 \/ exception' = exception
           /\ exception' \in {exception, exception \cup AtReset}
           /\ nClients' = IF c \in Running THEN nClients - 1 ELSE nClients
           /\ nClients' \in 0 .. nClients
<1> USE TableAssumption
<1> DEFINE left == IF c \in Running THEN nClients - 1 ELSE nClients
<1>0. CountedOff(c) <=> c \in Running
    BY DEF CloseDownClient, CountedOff, Connected, Running
<1>1. /\ nClients' = left /\ mode' = mode
      /\ state' = [state EXCEPT ![c] = IF Keeps(c) THEN "retained" ELSE "free"]
      /\ state' \in [Slots -> States]
    BY <1>0 DEF CloseDownClient, TypeOK, States
<1>2. Running' = Running \ {c}
    BY <1>1 DEF Running, TypeOK
<1>3. CountRight'
  <2>1. Cardinality(Running \ {c}) =
            IF c \in Running THEN Cardinality(Running) - 1 ELSE Cardinality(Running)
    BY RunningFinite, FS_RemoveElement, Zenon
  <2> QED
    BY <1>1, <1>2, <2>1 DEF Counters, CountRight
<1>4. left \in 0 .. nClients
  <2>1. Running # {} => nClients # 0
    BY RunningFinite DEF Counters, CountRight
  <2>2. nClients \in Nat
    BY RunningFinite DEF Counters, CountRight
  <2> QED
    BY <2>1, <2>2
<1>5. CASE Keeps(c)
  <2>1. UNCHANGED <<nextFree, currentMax, exception>>
    BY <1>5 DEF CloseDownClient
  <2>2. Used' = Used
    BY <1>1, <1>5 DEF Used, TypeOK
  <2>3. MinFree' /\ AllBelowMax'
    BY <1>1, <1>5, <2>1, <2>2 DEF Counters, MinFree, AllBelowMax, TypeOK, Used, Slots
  <2> QED
    BY <1>1, <1>3, <1>4, <2>1, <2>3 DEF Counters, TypeOK
<1>6. CASE ~Keeps(c)
  <2>1. /\ nextFree' = IF c < nextFree THEN c ELSE nextFree
        /\ currentMax' = Shrunk(state')
        /\ exception' = IF c \in Running /\ left = 0 THEN exception \cup AtReset ELSE exception
        /\ state' = [state EXCEPT ![c] = "free"]
    BY <1>0, <1>6 DEF CloseDownClient, FreeBelow
  <2>2. Used' = Used \ {c}
    BY <1>1, <2>1 DEF Used, TypeOK
  <2>3. MinFree' /\ nextFree' \in 1 .. MaxClients
    BY <2>1 DEF Counters, MinFree, TypeOK, Slots
  <2>4. /\ currentMax' \in 1 .. currentMax
        /\ currentMax' = 1 \/ state'[currentMax' - 1] # "free"
        /\ \A d \in currentMax' .. currentMax - 1 : state'[d] = "free"
    BY <2>1, ShrunkFinds DEF TypeOK
  <2>5. AllBelowMax'
    BY <2>2, <2>4 DEF Counters, AllBelowMax, TypeOK, Used, Slots
  <2> QED
    BY <1>1, <1>3, <1>4, <2>1, <2>3, <2>4, <2>5 DEF Counters, TypeOK
<1> QED
    BY <1>5, <1>6

-----------------------------------------------------------------------------
(* The steps.                                                              *)

\* NextAvailableClient gives out the least free slot and finds the next one.
LEMMA AcceptKeeps ==
    ASSUME IInv, Accept
    PROVE  IInv'
<1> USE TableAssumption
<1>1. /\ nextFree \in Slots /\ pc = "wait" /\ nextFree # MaxClients
      /\ state' = [state EXCEPT ![nextFree] = "initial"]
      /\ mode' = [mode EXCEPT ![nextFree] = "destroy"]
      /\ currentMax' = IF nextFree = currentMax THEN currentMax + 1 ELSE currentMax
      /\ nextFree' = NextFree(state')
      /\ UNCHANGED <<nClients, lost, exception, pc, cur, i>>
    BY DEF Accept, IInv, TypeOK, Slots
<1>2. state[nextFree] = "free"
    BY <1>1 DEF IInv, Counters, MinFree
<1>3. /\ nextFree' \in nextFree .. MaxClients
      /\ nextFree' = MaxClients \/ state'[nextFree'] = "free"
      /\ \A c \in nextFree .. nextFree' - 1 : state'[c] # "free"
    BY <1>1, NextFreeFinds DEF IInv, TypeOK
<1>4. nextFree <= currentMax
  <2>1. currentMax = MaxClients \/ state[currentMax] = "free"
    BY DEF IInv, TypeOK, Counters, AllBelowMax, Used, Slots
  <2> QED
    BY <2>1 DEF IInv, TypeOK, Counters, MinFree, Slots
<1>5. TypeOK'
    BY <1>1, <1>3, <1>4 DEF IInv, TypeOK, States, Slots
<1>6. Running' = Running /\ Used' = Used \cup {nextFree}
    BY <1>1, <1>2 DEF Running, Used, IInv, TypeOK
<1>7. MinFree'
  <2>1. ASSUME NEW c \in Slots, c < nextFree' PROVE state'[c] # "free"
    <3>1. CASE c < nextFree
      BY <1>1, <3>1 DEF IInv, TypeOK, Counters, MinFree
    <3>2. CASE c \in nextFree .. nextFree' - 1
      BY <1>3, <3>2
    <3> QED
      BY <1>1, <1>3, <2>1, <3>1, <3>2 DEF Slots
  <2> QED
    BY <1>3, <2>1 DEF MinFree
<1>8. AllBelowMax'
  <2>1. \A c \in Used' : c < currentMax'
    <3>1. \A c \in Used : c < currentMax /\ c \in Nat
      BY DEF IInv, Counters, AllBelowMax, Used, Slots
    <3> QED
      BY <1>1, <1>4, <1>6, <3>1 DEF IInv, TypeOK, Slots
  <2>2. currentMax' = 1 \/ state'[currentMax' - 1] # "free"
    <3>1. CASE nextFree = currentMax
      BY <1>1, <3>1 DEF IInv, TypeOK, Slots
    <3>2. CASE nextFree # currentMax /\ currentMax # 1
      <4>1. currentMax - 1 \in Slots /\ state[currentMax - 1] # "free"
        BY <3>2 DEF IInv, TypeOK, Counters, AllBelowMax, Slots
      <4> QED
        BY <1>1, <3>2, <4>1 DEF IInv, TypeOK
    <3> QED
      BY <1>1, <3>1, <3>2
  <2> QED
    BY <2>1, <2>2 DEF AllBelowMax
<1>9. CountRight'
    BY <1>1, <1>6 DEF IInv, Counters, CountRight
<1>10. ResetInv'
    BY <1>1 DEF IInv, InSetupDestroy, ResetInv, TypeOK, NothingSurvives
<1> QED
    BY <1>1, <1>5, <1>7, <1>8, <1>9, <1>10 DEF IInv, Counters

\* A client past its setup is counted.
LEMMA SetupKeeps ==
    ASSUME IInv, Setup
    PROVE  IInv'
<1> USE TableAssumption
<1>1. /\ pc = "serve" /\ cur \in Slots /\ state[cur] \in {"initial", "checked"}
      /\ state' = [state EXCEPT ![cur] = "running"] /\ nClients' = nClients + 1
      /\ UNCHANGED <<mode, nextFree, currentMax, lost, exception, pc, cur, i>>
    BY DEF Setup, IInv, TypeOK
<1>2. Running' = Running \cup {cur} /\ cur \notin Running /\ Used' = Used
    BY <1>1 DEF Running, Used, IInv, TypeOK
<1>3. CountRight'
  <2>1. Cardinality(Running \cup {cur}) = Cardinality(Running) + 1
    BY <1>2, RunningFinite, FS_AddElement, Zenon
  <2> QED
    BY <1>1, <1>2, <2>1 DEF IInv, Counters, CountRight
<1>4. TypeOK'
    BY <1>1 DEF IInv, TypeOK, States
<1>5. MinFree' /\ AllBelowMax'
    BY <1>1, <1>2 DEF IInv, TypeOK, Counters, MinFree, AllBelowMax, Slots
<1>6. ResetInv'
  <2>1. "reset" \notin exception'
    BY <1>1 DEF IInv, InSetupDestroy, ResetInv
  <2>2. InSetupDestroy'
    BY <1>1 DEF IInv, InSetupDestroy, ResetInv, TypeOK
  <2>3. cur' \in Connected'
    BY <1>1 DEF IInv, TypeOK, Connected
  <2> QED
    BY <1>1, <2>1, <2>2, <2>3 DEF ResetInv, NothingSurvives
<1> QED
    BY <1>1, <1>3, <1>4, <1>5, <1>6 DEF IInv, Counters

\* A client that asks for the security check is still before its setup.
LEMMA CheckKeeps ==
    ASSUME IInv, CheckSecurity
    PROVE  IInv'
<1>1. /\ pc = "serve" /\ cur \in Slots /\ state[cur] = "initial"
      /\ state' = [state EXCEPT ![cur] = "checked"]
      /\ UNCHANGED <<mode, nextFree, currentMax, nClients, lost, exception, pc, cur, i>>
    BY DEF CheckSecurity, counters, IInv, TypeOK
<1>2. Running' = Running /\ Used' = Used
    BY <1>1 DEF Running, Used, IInv, TypeOK
<1>3. TypeOK'
    BY <1>1 DEF IInv, TypeOK, States
<1>4. Counters'
    BY <1>1, <1>2 DEF IInv, TypeOK, Counters, CountRight, MinFree, AllBelowMax, Slots
<1>5. InSetupDestroy' /\ cur \in Connected'
    BY <1>1 DEF IInv, TypeOK, InSetupDestroy, ResetInv, Connected
<1>6. ResetInv'
    BY <1>1, <1>5 DEF IInv, ResetInv, NothingSurvives
<1> QED
    BY <1>1, <1>3, <1>4, <1>6 DEF IInv

\* The closings of single clients, in their turn, in another's, or outside.
LEMMA ClosingKeeps ==
    ASSUME IInv, lost' = 0,
           Die \/ \E c \in Slots : CloseOutside(c) \/ KillClient(c)
    PROVE  IInv'
<1> USE TableAssumption
<1>1. PICK c \in Slots : /\ state[c] # "free" /\ CloseDownClient(c)
                         /\ pc \in {"wait", "serve"} /\ UNCHANGED <<cur, i>>
                         /\ \/ pc = "wait" /\ pc' = "wait"
                            \/ pc = "serve" /\ pc' = "round"
                            \/ /\ pc = "serve" /\ pc' = "serve" /\ c # cur
                               /\ state[cur] = "running"
  <2>1. CASE Die
    BY <2>1 DEF Die, IInv, TypeOK, ResetInv, Connected
  <2>2. CASE \E c \in Slots : CloseOutside(c)
    BY <2>2 DEF CloseOutside, Connected
  <2>3. CASE \E c \in Slots : KillClient(c)
    BY <2>3 DEF KillClient
  <2> QED
    BY <2>1, <2>2, <2>3
<1>2. /\ Counters'
      /\ state' = [state EXCEPT ![c] = IF Keeps(c) THEN "retained" ELSE "free"]
      /\ mode' = mode /\ state' \in [Slots -> States]
      /\ nextFree' \in 1 .. MaxClients /\ currentMax' \in 1 .. currentMax
      /\ nClients' = 0 \/ exception' = exception
      /\ exception' \in {exception, exception \cup AtReset}
      /\ nClients' \in 0 .. nClients
    BY <1>1, CloseDownKeeps DEF IInv
<1>3. TypeOK'
    BY <1>1, <1>2 DEF IInv, TypeOK, Places
<1>4. pc' = "serve" => nClients' # 0
  <2> SUFFICES ASSUME pc' = "serve" PROVE cur \in Running'
    <3>1. Running' \in SUBSET Slots
      BY DEF Running
    <3>2. Cardinality(Running') = 0 <=> Running' = {}
      BY <3>1, SetsOfSlots
    <3> QED
      BY <1>2, <3>2 DEF Counters, CountRight
  <2> QED
    BY <1>1, <1>2 DEF Running, IInv, TypeOK
<1>5. ResetInv'
  <2>1. "reset" \in exception' => nClients' = 0 /\ pc' \notin {"serve", "temp"}
    BY <1>1, <1>2, <1>4 DEF IInv, InSetupDestroy, ResetInv, TypeOK
  <2>2. InSetupDestroy'
    BY <1>1, <1>2 DEF IInv, InSetupDestroy, ResetInv, TypeOK
  <2>3. pc' \in {"serve", "temp"} => cur' \in Connected'
    BY <1>1, <1>2 DEF IInv, InSetupDestroy, ResetInv, TypeOK, Connected
  <2> QED
    BY <1>1, <2>1, <2>2, <2>3 DEF ResetInv, NothingSurvives
<1> QED
    BY <1>2, <1>3, <1>5 DEF IInv

\* The loop over clients retained temporarily: nobody connected is closed,
\* so no exception can come of it.
LEMMA TempStepKeeps ==
    ASSUME IInv, TempStep, lost' = 0
    PROVE  IInv'
<1> USE TableAssumption
<1>1. pc = "temp" /\ pc' = "temp" /\ cur' = cur /\ i \in Slots /\ i' = i + 1
    BY DEF TempStep, IInv, TypeOK, Slots
<1>2. CASE UNCHANGED <<state, mode, counters, exception>>
  <2>1. TypeOK'
    BY <1>1, <1>2 DEF IInv, TypeOK, counters, Slots
  <2>2. Counters'
    BY <1>2, SameTable DEF IInv
  <2>3. ResetInv'
    BY <1>1, <1>2 DEF IInv, InSetupDestroy, ResetInv, NothingSurvives, Connected, counters
  <2> QED
    BY <2>1, <2>2, <2>3 DEF IInv
<1>3. CASE IsTemporary(i) /\ CloseDownClient(i)
  <2>1. state[i] \in {"retained", "stale"} /\ i \notin Running /\ ~Keeps(i)
    BY <1>3 DEF IsTemporary, Running, Keeps, Connected
  <2>2. /\ Counters'
        /\ state' = [state EXCEPT ![i] = "free"]
        /\ mode' = mode /\ state' \in [Slots -> States]
        /\ nextFree' \in 1 .. MaxClients /\ currentMax' \in 1 .. currentMax
        /\ nClients' = nClients /\ exception' \in {exception, exception \cup AtReset}
    BY <1>1, <1>3, <2>1, CloseDownKeeps DEF IInv
  <2>3. exception' = exception
    BY <1>3, <2>1 DEF CloseDownClient
  <2>4. TypeOK'
    BY <1>1, <2>2, <2>3 DEF IInv, TypeOK, Slots
  <2>5. cur \in Connected'
    BY <1>1, <2>1, <2>2 DEF IInv, InSetupDestroy, ResetInv, TypeOK, Connected
  <2>6. InSetupDestroy'
    BY <2>2 DEF IInv, InSetupDestroy, ResetInv, TypeOK
  <2>7. ResetInv'
    BY <1>1, <2>2, <2>3, <2>5, <2>6 DEF IInv, ResetInv, NothingSurvives
  <2> QED
    BY <2>2, <2>4, <2>7 DEF IInv
<1> QED
    BY <1>2, <1>3 DEF TempStep

\* The loop of KillAllClients: without a request to terminate, nobody keeps
\* anything, because nobody is past its setup.
LEMMA KillStepKeeps ==
    ASSUME IInv, KillStep, lost' = 0
    PROVE  IInv'
<1> USE TableAssumption
<1>1. pc = "kill" /\ pc' = "kill" /\ cur' = cur /\ i \in Slots /\ i' = i + 1
    BY DEF KillStep, IInv, TypeOK, Slots
<1>2. CASE state[i] = "free" /\ UNCHANGED <<state, mode, counters, exception>>
  <2>1. TypeOK'
    BY <1>1, <1>2 DEF IInv, TypeOK, counters, Slots
  <2>2. Counters'
    BY <1>2, SameTable DEF IInv
  <2>3. ResetInv'
    BY <1>1, <1>2 DEF IInv, InSetupDestroy, ResetInv, TypeOK, NothingSurvives, counters, Slots
  <2> QED
    BY <2>1, <2>2, <2>3 DEF IInv
<1>3. CASE state[i] # "free" /\ CloseDownClient(i)
  <2>1. /\ Counters'
        /\ state' = [state EXCEPT ![i] = IF Keeps(i) THEN "retained" ELSE "free"]
        /\ mode' = mode /\ state' \in [Slots -> States]
        /\ nextFree' \in 1 .. MaxClients /\ currentMax' \in 1 .. currentMax
        /\ nClients' = 0 \/ exception' = exception
        /\ exception' \in {exception, exception \cup AtReset}
        /\ nClients' \in 0 .. nClients
    BY <1>1, <1>3, CloseDownKeeps DEF IInv
  <2>2. TypeOK'
    BY <1>1, <2>1 DEF IInv, TypeOK, Slots
  <2>3. "terminate" \notin exception => ~Keeps(i)
    <3> SUFFICES ASSUME "terminate" \notin exception PROVE ~Keeps(i)
      OBVIOUS
    <3>1. nClients = 0
      BY <1>1 DEF IInv, TypeOK, InSetupDestroy, ResetInv, Exceptions
    <3>2. Running = {}
      BY <3>1, RunningFinite DEF IInv, Counters, CountRight
    <3> QED
      BY <1>1, <3>2 DEF Keeps, Connected, Running, IInv, ResetInv, InSetupDestroy
  <2>4. "terminate" \notin exception' => \A c \in Slots : c < i' => state'[c] = "free"
    BY <1>1, <2>1, <2>3 DEF IInv, TypeOK, InSetupDestroy, ResetInv, Slots
  <2>5. "reset" \in exception' => nClients' = 0
    BY <2>1 DEF IInv, InSetupDestroy, ResetInv, TypeOK
  <2>6. InSetupDestroy'
    BY <2>1 DEF IInv, InSetupDestroy, ResetInv, TypeOK
  <2>7. exception' # {}
    BY <1>1, <2>1 DEF IInv, InSetupDestroy, ResetInv
  <2>8. ResetInv'
    BY <1>1, <2>4, <2>5, <2>6, <2>7 DEF ResetInv, NothingSurvives
  <2> QED
    BY <2>1, <2>2, <2>8 DEF IInv
<1> QED
    BY <1>2, <1>3 DEF KillStep

\* The table starts anew, and right, because nothing is left in it.
LEMMA RestartKeeps ==
    ASSUME IInv, Restart
    PROVE  IInv'
<1> USE TableAssumption
<1>1. \A c \in Slots : state[c] = "free"
    BY DEF Restart, IInv, ResetInv, NothingSurvives, Used
<1>2. /\ state' = [c \in Slots |-> "free"]
      /\ currentMax' = 1 /\ nextFree' = 1 /\ nClients' = 0 /\ pc' = "top"
      /\ UNCHANGED <<mode, lost, exception, cur, i>>
    BY <1>1 DEF Restart
<1>3. TypeOK'
    BY <1>2 DEF IInv, TypeOK, States, Places
<1>4. Running' = {} /\ Used' = {}
    BY <1>2 DEF Running, Used
<1>5. CountRight'
    BY <1>2, <1>4, FS_EmptySet DEF CountRight
<1>6. MinFree' /\ AllBelowMax'
    BY <1>2, <1>4 DEF MinFree, AllBelowMax, Slots
<1>7. ResetInv'
    BY <1>2 DEF InSetupDestroy, ResetInv, NothingSurvives
<1> QED
    BY <1>2, <1>3, <1>5, <1>6, <1>7 DEF IInv, Counters

\* The steps that change neither the table nor its counters.
LEMMA QuietKeeps ==
    ASSUME NoForcedReset, IInv,
           \/ Loop \/ Ready \/ EndRound \/ KillAllTemporary \/ TempEnd \/ EndTurn
           \/ Leave \/ KillEnd \/ Exit
           \/ \E c \in Slots : Turn(c)
           \/ \E m \in Modes : ChangeCloseDownMode(m)
           \/ \E r \in Requests : Ask(r)
    PROVE  IInv'
<1> USE TableAssumption DEF counters
<1>1. UNCHANGED <<state, counters>>
    BY DEF Loop, Ready, EndRound, KillAllTemporary, TempEnd, EndTurn, Leave, KillEnd, Exit,
           Turn, ChangeCloseDownMode, Ask
<1>2. Counters'
    BY <1>1, SameTable DEF IInv
<1>3. TypeOK'
  <2>1. mode' \in [Slots -> Modes]
    BY DEF IInv, TypeOK, Loop, Ready, EndRound, KillAllTemporary, TempEnd, EndTurn, Leave,
           KillEnd, Exit, Turn, ChangeCloseDownMode, Ask
  <2>2. exception' \subseteq Exceptions /\ pc' \in Places
    BY DEF IInv, TypeOK, Places, Loop, Ready, EndRound, KillAllTemporary, TempEnd, EndTurn,
           Leave, KillEnd, Exit, Turn, ChangeCloseDownMode, Ask
  <2>3. cur' \in Slots /\ i' \in 1 .. MaxClients
    BY DEF IInv, TypeOK, Loop, Ready, EndRound, KillAllTemporary, TempEnd, EndTurn, Leave,
           KillEnd, Exit, Turn, ChangeCloseDownMode, Ask
  <2> QED
    BY <1>1, <2>1, <2>2, <2>3 DEF IInv, TypeOK
<1>4. InSetupDestroy'
    BY <1>1 DEF IInv, TypeOK, InSetupDestroy, ResetInv, Loop, Ready, EndRound, KillAllTemporary, TempEnd,
           EndTurn, Leave, KillEnd, Exit, Turn, ChangeCloseDownMode, Ask
<1>5. "reset" \in exception' => nClients' = 0 /\ pc' \notin {"serve", "temp"}
    BY <1>1 DEF IInv, InSetupDestroy, ResetInv, NoForcedReset, Loop, Ready, EndRound, KillAllTemporary, TempEnd,
           EndTurn, Leave, KillEnd, Exit, Turn, ChangeCloseDownMode, Ask
<1>6. pc' = "kill" => /\ exception' # {}
                      /\ "terminate" \notin exception' =>
                             \A c \in Slots : c < i' => state'[c] = "free"
    BY <1>1 DEF IInv, InSetupDestroy, ResetInv, Slots, Loop, Ready, EndRound, KillAllTemporary, TempEnd,
           EndTurn, Leave, KillEnd, Exit, Turn, ChangeCloseDownMode, Ask
<1>7. NothingSurvives'
  <2>1. CASE KillEnd
    <3> SUFFICES ASSUME "terminate" \notin exception PROVE \A c \in Slots : state[c] = "free"
      BY <1>1, <2>1 DEF KillEnd, NothingSurvives, Used
    <3>1. \A c \in Slots : c < i => state[c] = "free"
      BY <2>1 DEF KillEnd, IInv, ResetInv
    <3>2. \A c \in Slots : state[c] # "free" => c < currentMax
      BY DEF IInv, Counters, AllBelowMax, Used
    <3> QED
      BY <2>1, <3>1, <3>2 DEF KillEnd, IInv, TypeOK, Slots
  <2>2. CASE ~KillEnd
    BY <1>1, <2>2 DEF IInv, InSetupDestroy, ResetInv, NothingSurvives, Used, Loop, Ready, EndRound,
           KillAllTemporary, TempEnd, EndTurn, Leave, Exit, Turn, ChangeCloseDownMode, Ask
  <2> QED
    BY <2>1, <2>2
<1>8. pc' \in {"serve", "temp"} => cur' \in Connected'
    BY <1>1 DEF IInv, InSetupDestroy, ResetInv, Connected, Loop, Ready, EndRound, KillAllTemporary, TempEnd,
           EndTurn, Leave, KillEnd, Exit, Turn, ChangeCloseDownMode, Ask
<1> QED
    BY <1>1, <1>2, <1>3, <1>4, <1>5, <1>6, <1>7, <1>8 DEF IInv, ResetInv

\* The types hold whatever becomes of the counters, and no step forgets a
\* client that was lost.
LEMMA CloseDownTypes ==
    ASSUME TypeOK, NEW c \in Slots, CloseDownClient(c)
    PROVE  /\ state' \in [Slots -> States] /\ mode' = mode
           /\ nextFree' \in 1 .. MaxClients /\ currentMax' \in 1 .. currentMax
           /\ nClients' \in Int /\ lost' \in {lost, lost + 1}
           /\ exception' \subseteq Exceptions
<1> USE TableAssumption DEF TypeOK
<1>1. state' \in [Slots -> States] /\ mode' = mode
    BY DEF CloseDownClient, States
<1>2. nClients' \in Int /\ lost' \in {lost, lost + 1} /\ exception' \subseteq Exceptions
    BY DEF CloseDownClient
<1>3. nextFree' \in 1 .. MaxClients /\ currentMax' \in 1 .. currentMax
    BY ShrunkFinds DEF CloseDownClient, FreeBelow, Slots
<1> QED
    BY <1>1, <1>2, <1>3

LEMMA NextTypes ==
    ASSUME TypeOK, [Next]_vars
    PROVE  TypeOK' /\ lost' \in {lost, lost + 1}
<1> USE TableAssumption DEF TypeOK
<1>1. ASSUME NEW c \in Slots, CloseDownClient(c), pc' \in Places, cur' = cur,
             i' \in 1 .. MaxClients
      PROVE  TypeOK' /\ lost' \in {lost, lost + 1}
    BY <1>1, CloseDownTypes
<1>2. CASE Accept
  <2>1. NextFree(state') \in nextFree .. MaxClients
    BY NextFreeFinds
  <2> QED
    BY <1>2, <2>1 DEF Accept, States, Slots
<1>3. CASE CheckSecurity \/ Setup
    BY <1>3 DEF CheckSecurity, Setup, counters, States
<1>4. CASE Die \/ \E c \in Slots : CloseOutside(c) \/ KillClient(c)
    BY <1>1, <1>4 DEF Die, CloseOutside, KillClient, Places
<1>5. CASE TempStep \/ KillStep
  <2>1. i \in Slots /\ i' \in 1 .. MaxClients /\ pc' \in Places /\ cur' = cur
    BY <1>5 DEF TempStep, KillStep, Slots
  <2>2. CloseDownClient(i) \/ UNCHANGED <<state, mode, counters, exception>>
    BY <1>5 DEF TempStep, KillStep
  <2> QED
    BY <1>1, <2>1, <2>2 DEF counters
<1>6. CASE Restart
    BY <1>6 DEF Restart, States, Places
<1>7. CASE \/ Loop \/ Ready \/ EndRound \/ KillAllTemporary \/ TempEnd \/ EndTurn
           \/ Leave \/ KillEnd \/ Exit \/ UNCHANGED vars
           \/ \E c \in Slots : Turn(c)
           \/ \E m \in Modes : ChangeCloseDownMode(m)
           \/ \E r \in Requests : Ask(r)
  <2>1. UNCHANGED <<state, counters>>
    BY <1>7 DEF vars, Loop, Ready, EndRound, KillAllTemporary, TempEnd, EndTurn, Leave,
           KillEnd, Exit, Turn, ChangeCloseDownMode, Ask
  <2>2. mode' \in [Slots -> Modes]
    BY <1>7 DEF vars, Loop, Ready, EndRound, KillAllTemporary, TempEnd, EndTurn, Leave,
           KillEnd, Exit, Turn, ChangeCloseDownMode, Ask
  <2>3. exception' \subseteq Exceptions /\ pc' \in Places
    BY <1>7 DEF Places, vars, Loop, Ready, EndRound, KillAllTemporary, TempEnd, EndTurn,
           Leave, KillEnd, Exit, Turn, ChangeCloseDownMode, Ask
  <2>4. cur' \in Slots /\ i' \in 1 .. MaxClients
    BY <1>7 DEF vars, Loop, Ready, EndRound, KillAllTemporary, TempEnd, EndTurn, Leave,
           KillEnd, Exit, Turn, ChangeCloseDownMode, Ask
  <2> QED
    BY <2>1, <2>2, <2>3, <2>4 DEF counters
<1> QED
    BY <1>2, <1>3, <1>4, <1>5, <1>6, <1>7
       DEF Next, Waiting, Serving, Rounds, Resetting

LEMMA NextKeeps ==
    ASSUME NoForcedReset, IInv, lost' = 0, [Next]_vars
    PROVE  IInv'
<1>1. CASE UNCHANGED vars
    BY <1>1 DEF vars, counters, IInv, TypeOK, Counters, MinFree, AllBelowMax, CountRight,
                InSetupDestroy, ResetInv, NothingSurvives, Used, Running, Connected
<1>2. CASE Waiting
    BY <1>2, AcceptKeeps, QuietKeeps, ClosingKeeps DEF Waiting
<1>3. CASE Serving
    BY <1>3, CheckKeeps, SetupKeeps, QuietKeeps, ClosingKeeps, TempStepKeeps DEF Serving
<1>4. CASE Rounds
    BY <1>4, QuietKeeps DEF Rounds
<1>5. CASE Resetting
    BY <1>5, QuietKeeps, KillStepKeeps, RestartKeeps DEF Resetting
<1>6. CASE \E r \in Requests : Ask(r)
    BY <1>6, QuietKeeps
<1> QED
    BY <1>1, <1>2, <1>3, <1>4, <1>5, <1>6 DEF Next

-----------------------------------------------------------------------------
(* The theorems.                                                           *)

\* The invariant, until a client is lost in its security check.
Inv == TypeOK /\ (lost = 0 => IInv)

LEMMA Invariant ==
    ASSUME NoForcedReset
    PROVE  Spec => []Inv
<1>1. Init => Inv
    BY InitInv DEF Inv, IInv
<1>2. Inv /\ [Next]_vars => Inv'
  <2> SUFFICES ASSUME Inv, [Next]_vars PROVE Inv'
    OBVIOUS
  <2>1. TypeOK' /\ (lost' = 0 => lost = 0)
    BY NextTypes DEF Inv, TypeOK
  <2> QED
    BY <2>1, NextKeeps DEF Inv
<1> QED
    BY <1>1, <1>2, PTL DEF Spec

\* The table of clients[] and its three counters stay right through every
\* order of connections, closings, kills and resets by the last client, until
\* one is lost in its security check:
\* nextFreeClientID is the least free slot, every loop bounded by
\* currentMaxClients sees every client, and nClients counts those past setup.
THEOREM TableCorrect ==
    ASSUME NoForcedReset
    PROVE  Spec => []TableInv
<1>1. Inv => TableInv
    BY DEF Inv, IInv, TableInv
<1> QED
    BY <1>1, Invariant, PTL

\* KillAllClients, which keeps what a live client asked to retain, still
\* leaves nothing behind when the reset is the last client's doing and nClients
\* told which client was the last.
THEOREM ResetClean ==
    ASSUME NoForcedReset
    PROVE  Spec => []NothingSurvives
<1>1. Inv => NothingSurvives
    BY DEF Inv, IInv, ResetInv, NothingSurvives
<1> QED
    BY <1>1, Invariant, PTL

\* NextAvailableClient never hands out the slot of a client that still has
\* resources, so no two clients ever share a range of resource ids.
THEOREM SlotsNotShared ==
    ASSUME NoForcedReset
    PROVE  Spec => NoTakeover
<1>1. Inv /\ [Next]_vars =>
          [lost = 0 => \A c \in Used : state'[c] = "initial" => state[c] = "initial"]_vars
  <2> SUFFICES ASSUME IInv, Next, NEW c \in Used, state'[c] = "initial"
               PROVE  state[c] = "initial"
    BY DEF vars, Inv
  <2> USE DEF Used
  <2>1. c \in Slots /\ state[c] # "free" /\ state \in [Slots -> States]
    BY DEF IInv, TypeOK
  <2>2. ASSUME NEW d \in Slots, CloseDownClient(d)
        PROVE  state[c] = "initial"
    <3>1. state' = [state EXCEPT ![d] = "retained"] \/ state' = [state EXCEPT ![d] = "free"]
      BY <2>2 DEF CloseDownClient
    <3> QED
      BY <2>1, <3>1
  <2>3. CASE Accept
    <3>1. nextFree \in Slots /\ state[nextFree] = "free"
      BY <2>3, TableAssumption DEF Accept, IInv, TypeOK, Counters, MinFree, Slots
    <3> QED
      BY <2>1, <2>3, <3>1 DEF Accept
  <2>4. CASE Setup \/ CheckSecurity
    BY <2>1, <2>4 DEF Setup, CheckSecurity, IInv, TypeOK
  <2>5. CASE Restart
    BY <2>1, <2>5 DEF Restart
  <2>6. CASE TempStep
    <3>1. i \in Slots
      BY <2>6, TableAssumption DEF TempStep, IInv, TypeOK, Slots
    <3> QED
      BY <2>1, <2>2, <2>6, <3>1 DEF TempStep
  <2>7. CASE KillStep
    <3>1. i \in Slots
      BY <2>7, TableAssumption DEF KillStep, IInv, TypeOK, Slots
    <3> QED
      BY <2>1, <2>2, <2>7, <3>1 DEF KillStep
  <2>8. CASE Die
    BY <2>2, <2>8 DEF Die, IInv, TypeOK
  <2>9. CASE \E d \in Slots : CloseOutside(d) \/ KillClient(d)
    BY <2>2, <2>9 DEF CloseOutside, KillClient
  <2>10. CASE UNCHANGED state
    BY <2>10
  <2> QED
    BY <2>3, <2>4, <2>5, <2>6, <2>7, <2>8, <2>9, <2>10
       DEF Next, Waiting, Serving, Rounds, Resetting, Ready, Loop, EndRound, Turn,
           KillAllTemporary, EndTurn, ChangeCloseDownMode, TempEnd, Leave, KillEnd,
           Exit, Ask
<1> QED
    BY <1>1, Invariant, PTL DEF Spec, NoTakeover

\* The client that leaves last in the mode DestroyAll has the server reset or
\* terminate, since nClients then counts it alone, whatever was retained before.
THEOREM LastLeaverResets ==
    ASSUME NoForcedReset
    PROVE  Spec => LastOneResets
<1>1. Inv /\ [Next]_vars =>
          [lost = 0 /\ Running # {} /\ Running' = {}
            /\ (\A c \in Running : mode[c] = "destroy")
                => AtReset \subseteq exception']_vars
  <2> SUFFICES ASSUME IInv, Next, Running # {}, Running' = {},
                      \A c \in Running : mode[c] = "destroy"
               PROVE  AtReset \subseteq exception'
    BY DEF vars, Inv
  <2>1. PICK c \in Slots : state[c] = "running" /\ state'[c] # "running"
    BY DEF Running
  <2>2. ASSUME NEW d \in Slots, CloseDownClient(d)
        PROVE  AtReset \subseteq exception'
    <3>1. state' = [state EXCEPT ![d] = "retained"] \/ state' = [state EXCEPT ![d] = "free"]
      BY <2>2 DEF CloseDownClient
    <3>2. c = d /\ Running = {c}
      BY <2>1, <2>2, <3>1 DEF Running, IInv, TypeOK
    <3>3. nClients = 1
      BY <3>2, FS_Singleton DEF IInv, Counters, CountRight
    <3>4. CountedOff(c) /\ ~Keeps(c)
      BY <2>1, <3>2 DEF CountedOff, Keeps, Connected
    <3> QED
      BY <2>2, <3>2, <3>3, <3>4 DEF CloseDownClient
  <2>3. i < currentMax => i \in Slots
    BY TableAssumption DEF IInv, TypeOK, Slots
  <2>4. CASE TempStep \/ KillStep
    BY <2>1, <2>2, <2>3, <2>4 DEF TempStep, KillStep
  <2>5. CASE Die \/ \E d \in Slots : CloseOutside(d) \/ KillClient(d)
    BY <2>2, <2>5 DEF Die, CloseOutside, KillClient, IInv, TypeOK
  <2>6. CASE Accept
    <3>1. nextFree \in Slots /\ state[nextFree] = "free"
      BY <2>6, TableAssumption DEF Accept, IInv, TypeOK, Counters, MinFree, Slots
    <3> QED
      BY <2>1, <2>6, <3>1 DEF Accept, IInv, TypeOK
  <2>7. CASE Setup \/ CheckSecurity \/ Restart
    BY <2>1, <2>7 DEF Setup, CheckSecurity, Restart, IInv, TypeOK
  <2>8. CASE UNCHANGED state
    BY <2>1, <2>8
  <2> QED
    BY <2>4, <2>5, <2>6, <2>7, <2>8
       DEF Next, Waiting, Serving, Rounds, Resetting, Ready, Loop, EndRound, Turn,
           KillAllTemporary, EndTurn, ChangeCloseDownMode, TempEnd, Leave, KillEnd,
           Exit, Ask
<1> QED
    BY <1>1, Invariant, PTL DEF Spec, LastOneResets

=============================================================================
