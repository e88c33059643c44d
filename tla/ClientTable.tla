----------------------------- MODULE ClientTable -----------------------------
(***************************************************************************)
(* The table clients[] of dix/dispatch.c: how a slot is given to a new     *)
(* connection, what is left of a client whose close-down mode retains its  *)
(* resources, and how the table lives through a server reset (KillAll-     *)
(* Clients and the loop of dix/main.c).                                    *)
(*                                                                         *)
(* The loops over the table that close clients take a step per slot.  What *)
(* the sockets do is left to the choice of the steps; memory never runs    *)
(* out.  A client that Kerberos authenticates (ClientStateAuthenticating)  *)
(* is treated by all of this as one whose setup has not begun.             *)
(***************************************************************************)
EXTENDS Integers, FiniteSets

CONSTANTS
    MaxClients,   \* MAXCLIENTS: slot 0 is the server's own
    Modes,        \* the close-down modes the clients use
    MaxLost,      \* bound: clients lost in a security check
    Requests,     \* what a signal or XDMCP may ask: "reset", "terminate"
    AtReset       \* dispatchExceptionAtReset, as a set of these

Slots == 1 .. MaxClients - 1
Exceptions == {"reset", "terminate"}

ASSUME TableAssumption ==
    /\ MaxClients \in Nat /\ MaxClients > 1
    /\ {"destroy"} \subseteq Modes /\ Modes \subseteq {"destroy", "temporary", "permanent"}
    /\ MaxLost \in Nat
    /\ Requests \subseteq Exceptions
    /\ AtReset \subseteq Exceptions

VARIABLES
    state,       \* each slot: free, or the state of its client
    mode,        \* each slot: closeDownMode
    nextFree,    \* nextFreeClientID
    currentMax,  \* currentMaxClients
    nClients,    \* nClients
    exception,   \* dispatchException
    pc,          \* where the server stands
    cur,         \* the client served
    i,           \* the index of the loops over the table
    lost         \* history: clients closed between security check and setup

counters == <<nextFree, currentMax, nClients, lost>>
vars == <<state, mode, counters, exception, pc, cur, i>>

\* A checked client has asked for the security check of the firewall proxy
\* (ClientStateCheckedSecurity) and has its setup still before it.  A retained
\* one is gone but for its resources; a stale one is a record whose resources
\* a reset has freed.
States == {"free", "initial", "checked", "running", "retained", "stale"}

Places == {"top",     \* at the test of dispatchException in Dispatch
           "wait",    \* in WaitForSomething
           "round",   \* between two clients of a round
           "serve",   \* in the turn of cur
           "temp",    \* in CloseDownRetainedResources
           "kill",    \* in KillAllClients
           "main",    \* back in main
           "exit"}

TypeOK ==
    /\ state \in [Slots -> States] /\ mode \in [Slots -> Modes]
    /\ nextFree \in 1 .. MaxClients /\ currentMax \in 1 .. MaxClients
    /\ nClients \in Int /\ lost \in Nat
    /\ exception \subseteq Exceptions
    /\ pc \in Places /\ cur \in Slots /\ i \in 1 .. MaxClients

Init ==
    /\ state = [c \in Slots |-> "free"] /\ mode = [c \in Slots |-> "destroy"]
    /\ nextFree = 1 /\ currentMax = 1 /\ nClients = 0 /\ lost = 0
    /\ exception = {} /\ pc = "top" /\ cur = 1 /\ i = 1

Used == {c \in Slots : state[c] # "free"}
Connected == {c \in Slots : state[c] \in {"initial", "checked", "running"}}
Running == {c \in Slots : state[c] = "running"}

-----------------------------------------------------------------------------
(* CloseDownClient.                                                         *)

\* A connected client whose mode is not DestroyAll leaves its record behind.
Keeps(c) == c \in Connected /\ mode[c] # "destroy"

\* Mutant: a client killed once its connection is gone is counted off again.
CountedOff_Twice(c) == state[c] # "initial"

\* The test of clientState, made when the connection goes: not Initial.  A
\* checked client is counted off although no SendConnSetup counted it in.
CountedOff(c) == c \in Connected /\ state[c] # "initial"

\* Mutant: the freed slot is noted only when the table was full.
FreeBelow_WhenFull(c) == IF nextFree = MaxClients THEN c ELSE nextFree

FreeBelow(c) == IF c < nextFree THEN c ELSE nextFree

\* currentMaxClients comes down over the free slots; slot 0 stops it.
Shrunk(st) == CHOOSE top \in 1 .. currentMax :
                  /\ top = 1 \/ st[top - 1] # "free"
                  /\ \A c \in top .. currentMax - 1 : st[c] = "free"

CloseDownClient(c) ==
    LET left == IF CountedOff(c) THEN nClients - 1 ELSE nClients
    IN  /\ nClients' = left
        /\ lost' = IF state[c] = "checked" THEN lost + 1 ELSE lost
        /\ IF Keeps(c)
           THEN /\ state' = [state EXCEPT ![c] = "retained"]
                /\ UNCHANGED <<nextFree, currentMax, exception>>
           ELSE /\ state' = [state EXCEPT ![c] = "free"]
                /\ nextFree' = FreeBelow(c)
                /\ currentMax' = Shrunk(state')
                /\ exception' = IF c \in Running /\ left = 0
                                THEN exception \cup AtReset ELSE exception
        /\ UNCHANGED mode

-----------------------------------------------------------------------------
(* WaitForSomething: closings from outside the rounds, new connections.    *)

\* Dispatch goes round until it finds an exception.
Loop ==
    /\ pc = "top" /\ exception = {}
    /\ pc' = "wait"
    /\ UNCHANGED <<state, mode, counters, exception, cur, i>>

\* EstablishNewConnections kills stragglers, CheckConnections dead sockets.
CloseOutside(c) ==
    /\ pc = "wait" /\ c \in Connected
    /\ CloseDownClient(c)
    /\ UNCHANGED <<pc, cur, i>>

\* Mutant: after the slot given, the next one is taken to be free.
NextFree_Plus1(st) == nextFree + 1

NextFree(st) == CHOOSE f \in nextFree .. MaxClients :
                    /\ f = MaxClients \/ st[f] = "free"
                    /\ \A c \in nextFree .. f - 1 : st[c] # "free"

\* NextAvailableClient: without a free slot the connection is refused.
Accept ==
    /\ pc = "wait" /\ nextFree # MaxClients
    /\ state' = [state EXCEPT ![nextFree] = "initial"]
    /\ mode' = [mode EXCEPT ![nextFree] = "destroy"]
    /\ currentMax' = IF nextFree = currentMax THEN currentMax + 1 ELSE currentMax
    /\ nextFree' = NextFree(state')
    /\ UNCHANGED <<nClients, lost, exception, pc, cur, i>>

\* WaitForSomething returns, whether or not a client is ready.
Ready ==
    /\ pc = "wait"
    /\ pc' = "round"
    /\ UNCHANGED <<state, mode, counters, exception, cur, i>>

-----------------------------------------------------------------------------
(* The rounds of Dispatch.                                                 *)

\* Mutant: a round goes on although the server is to be reset.
Turn_Regardless(c) ==
    /\ pc = "round" /\ c \in Connected
    /\ cur' = c /\ pc' = "serve"
    /\ UNCHANGED <<state, mode, counters, exception, i>>

Turn(c) ==
    /\ pc = "round" /\ exception = {} /\ c \in Connected
    /\ cur' = c /\ pc' = "serve"
    /\ UNCHANGED <<state, mode, counters, exception, i>>

EndRound ==
    /\ pc = "round"
    /\ pc' = "top"
    /\ UNCHANGED <<state, mode, counters, exception, cur, i>>

Checked == {c \in Slots : state[c] = "checked"}

\* ClientAuthorized reaches AuthSecurityCheck, which puts a request before the
\* client's next one, so that its setup is tried again; once only.
CheckSecurity ==
    /\ pc = "serve" /\ state[cur] = "initial"
    /\ lost + Cardinality(Checked) < MaxLost
    /\ state' = [state EXCEPT ![cur] = "checked"]
    /\ UNCHANGED <<mode, counters, exception, pc, cur, i>>

\* SendConnSetup counts the client in.
Setup ==
    /\ pc = "serve" /\ state[cur] \in {"initial", "checked"}
    /\ state' = [state EXCEPT ![cur] = "running"]
    /\ nClients' = nClients + 1
    /\ UNCHANGED <<mode, nextFree, currentMax, lost, exception, pc, cur, i>>

ChangeCloseDownMode(m) ==
    /\ pc = "serve" /\ state[cur] = "running"
    /\ mode' = [mode EXCEPT ![cur] = m]
    /\ UNCHANGED <<state, counters, exception, pc, cur, i>>

\* The victim is found by a resource of its own, so it is past its setup,
\* and no reset has freed its resources.
KillClient(victim) ==
    /\ pc = "serve" /\ state[cur] = "running"
    /\ state[victim] \in {"running", "retained"}
    /\ CloseDownClient(victim)
    /\ pc' = IF victim = cur THEN "round" ELSE "serve"
    /\ UNCHANGED <<cur, i>>

\* KillClient(AllTemporary): CloseDownRetainedResources.
KillAllTemporary ==
    /\ pc = "serve" /\ state[cur] = "running"
    /\ pc' = "temp" /\ i' = 1
    /\ UNCHANGED <<state, mode, counters, exception, cur>>

IsTemporary(c) == mode[c] = "temporary" /\ state[c] \in {"retained", "stale"}

TempStep ==
    /\ pc = "temp" /\ i < currentMax
    /\ IF IsTemporary(i) THEN CloseDownClient(i)
       ELSE UNCHANGED <<state, mode, counters, exception>>
    /\ i' = i + 1
    /\ UNCHANGED <<pc, cur>>

TempEnd ==
    /\ pc = "temp" /\ i >= currentMax
    /\ pc' = "serve"
    /\ UNCHANGED <<state, mode, counters, exception, cur, i>>

\* End of file, a setup refused, or a write that failed.
Die ==
    /\ pc = "serve"
    /\ CloseDownClient(cur)
    /\ pc' = "round"
    /\ UNCHANGED <<cur, i>>

EndTurn ==
    /\ pc = "serve"
    /\ pc' = "round"
    /\ UNCHANGED <<state, mode, counters, exception, cur, i>>

-----------------------------------------------------------------------------
(* The end of Dispatch, and main.                                          *)

Leave ==
    /\ pc = "top" /\ exception # {}
    /\ pc' = "kill" /\ i' = 1
    /\ UNCHANGED <<state, mode, counters, exception, cur>>

\* KillAllClients: a client already gone is freed, a live one may be kept.
KillStep ==
    /\ pc = "kill" /\ i < currentMax
    /\ IF state[i] # "free" THEN CloseDownClient(i)
       ELSE UNCHANGED <<state, mode, counters, exception>>
    /\ i' = i + 1
    /\ UNCHANGED <<pc, cur>>

KillEnd ==
    /\ pc = "kill" /\ i >= currentMax
    /\ exception' = exception \ {"reset"}
    /\ pc' = "main"
    /\ UNCHANGED <<state, mode, counters, cur, i>>

\* Every resource below currentMaxClients is freed, the records are not.
Restart ==
    /\ pc = "main" /\ "terminate" \notin exception
    /\ state' = [c \in Slots |-> IF state[c] = "retained" /\ c < currentMax
                                 THEN "stale" ELSE state[c]]
    /\ currentMax' = 1 /\ nextFree' = 1 /\ nClients' = 0
    /\ pc' = "top"
    /\ UNCHANGED <<mode, lost, exception, cur, i>>

Exit ==
    /\ pc = "main" /\ "terminate" \in exception
    /\ pc' = "exit"
    /\ UNCHANGED <<state, mode, counters, exception, cur, i>>

\* SIGHUP, SIGTERM, or XDMCP whose session has ended.
Ask(r) ==
    /\ pc # "exit"
    /\ exception' = exception \cup {r}
    /\ UNCHANGED <<state, mode, counters, pc, cur, i>>

-----------------------------------------------------------------------------
Waiting == Accept \/ Ready \/ \E c \in Slots : CloseOutside(c)

Serving == \/ CheckSecurity \/ Setup \/ KillAllTemporary \/ Die \/ EndTurn
           \/ \E m \in Modes : ChangeCloseDownMode(m)
           \/ \E c \in Slots : KillClient(c)
           \/ TempStep \/ TempEnd

Rounds == Loop \/ EndRound \/ \E c \in Slots : Turn(c)

Resetting == Leave \/ KillStep \/ KillEnd \/ Restart \/ Exit

Next == Waiting \/ Serving \/ Rounds \/ Resetting \/ \E r \in Requests : Ask(r)

Spec == Init /\ [][Next]_vars

\* The server does not stop between its loops; a turn ends with its slice;
\* and WaitForSomething looks at dispatchException before it sleeps.
FairSpec == /\ Spec
            /\ WF_vars(Loop \/ EndRound \/ Resetting)
            /\ WF_vars(TempStep \/ TempEnd)
            /\ SF_vars(EndTurn)
            /\ WF_vars(Ready /\ "reset" \in exception)

-----------------------------------------------------------------------------
(* Properties.                                                             *)

\* nextFreeClientID is the least free slot, as its declaration says.
MinFree == /\ nextFree = MaxClients \/ state[nextFree] = "free"
           /\ \A c \in Slots : c < nextFree => state[c] # "free"

\* The loops over 1 .. currentMaxClients - 1 reach every client, and no
\* further than they must.
AllBelowMax == /\ \A c \in Used : c < currentMax
               /\ currentMax = 1 \/ state[currentMax - 1] # "free"

\* nClients, which decides when the last client has left, counts the
\* clients past their setup.
CountRight == nClients = Cardinality(Running)

Counters == MinFree /\ AllBelowMax /\ CountRight

\* The counters of the table are right, at the boundaries of MAXCLIENTS too,
\* as long as no reset is forced on clients that are still connected and no
\* client is lost between its security check and its setup: CloseDownClient
\* counts off that one, which was never counted in.
TableInv == TypeOK /\ (lost = 0 => Counters)

\* Before the server starts anew, every client is gone with all it retained,
\* unless a client lost in its security check made the reset come early.
NothingSurvives ==
    lost = 0 /\ pc = "main" /\ "terminate" \notin exception => Used = {}

\* A connection is never given the slot, and with it the resource ids, of a
\* client that still has resources; again with no client lost in its check.
NoTakeover ==
    [][lost = 0 => \A c \in Used : state'[c] = "initial" => state[c] = "initial"]_vars

\* When the last client past its setup leaves in the mode DestroyAll, whatever
\* others retained before, the server is told to reset or to terminate: as the
\* protocol has it, a client that retains its resources leaves without a reset.
LastOneResets ==
    [][lost = 0 /\ Running # {} /\ Running' = {}
        /\ (\A c \in Running : mode[c] = "destroy")
            => AtReset \subseteq exception']_vars

\* A reset that somebody was told to make is made: connections and rounds in
\* progress cannot put it off for ever.
ResetComes == "reset" \in exception ~> pc = "main"

\* nClients counts the clients past their setup also after others were lost
\* in theirs. dispatch.c:3569: "If it hasn't gotten to Running, nClients has
\* *not* been incremented, so *don't* decrement it."
UncountedStayOut == CountRight
=============================================================================
