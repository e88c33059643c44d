---------------------------- MODULE XdmcpProofs -----------------------------
(***************************************************************************)
(* Theorems about Xdmcp, for any number of sessions, any capacity of the   *)
(* network and any limits of retransmission.                               *)
(***************************************************************************)
EXTENDS Xdmcp, TLAPS

\* A session that has been offered has an ID, and the display gives up when,
\* and only when, it stops its timer.
Answered ==
    /\ state \in {"AWAIT_MANAGE_RESPONSE", "RUN_SESSION", "AWAIT_ALIVE_RESPONSE"}
         => SessionID \in IDs
    /\ state = "AWAIT_USER_INPUT" => timer = "off"

DisplayTypeOK ==
    /\ state \in States /\ SessionID \in IDs \cup {None}
    /\ timer \in {"off", "set", "due"} /\ timeOutRtx \in 0 .. XDM_RTX_LIMIT - 1
    /\ conns \subseteq IDs \cup {Local}
    /\ sessionSocket \in IDs \cup {Local, None}
    /\ dispatchException \in BOOLEAN

ManagerTypeOK ==
    /\ up \in BOOLEAN /\ proto \in IDs \cup {None}
    /\ globalSessionID \in 0 .. MaxSessions /\ managed \in IDs \cup {None}
    /\ child \in [IDs -> Processes]

DisplayInv == /\ DisplayTypeOK /\ net \subseteq Message
              /\ Answered /\ TimerRuns /\ SessionHasSocket

\* The manager's counter is ahead of every session it has begun.
Counted ==
    /\ \A i \in IDs : child[i] # "none" => i <= globalSessionID
    /\ proto # None => proto <= globalSessionID
    /\ ~up => proto = None /\ managed = None

ManagerInv == ManagerTypeOK /\ StartedOnce /\ Counted

-----------------------------------------------------------------------------
(***************************************************************************)
(* Datagrams.                                                              *)
(***************************************************************************)

\* Session numbers are numbers and none of them is None.
LEMMA IDsPositive == None \notin IDs /\ None \notin IDs \cup {Local} /\ IDs \subseteq Nat
BY XdmcpAssumption DEF IDs, None, Local

\* The packets the handlers send are messages,
LEMMA PacketIsMessage ==
    ASSUME NEW op, NEW id,
           \/ op \in {"QUERY", "REQUEST", "WILLING", "UNWILLING", "DECLINE"} /\ id = None
           \/ op \in {"MANAGE", "KEEPALIVE", "ACCEPT", "REFUSE", "FAILED", "ALIVE"}
              /\ id \in IDs
           \/ op = "ALIVE" /\ id = None
    PROVE  Packet(op, id) \in Message
BY DEF Packet, Message

\* also when they fly beside others.
LEMMA PutKeeps ==
    ASSUME NEW flying \in SUBSET Message, NEW m \in Message
    PROVE  Put(flying, m) \subseteq Message
BY DEF Put

\* What send_packet does in the states in which it is called.
LEMMA SendKeeps ==
    ASSUME NEW st \in {"QUERY", "START_CONNECTION", "MANAGE", "KEEPALIVE"},
           NEW flying \in SUBSET Message, send_packet(st, flying),
           st \in {"MANAGE", "KEEPALIVE"} => SessionID' \in IDs
    PROVE  /\ timer' = "set" /\ net' \subseteq Message
           /\ st = "QUERY" => state' = "COLLECT_QUERY"
           /\ st = "START_CONNECTION" =>
                state' \in {"START_CONNECTION", "AWAIT_REQUEST_RESPONSE"}
           /\ st = "MANAGE" => state' = "AWAIT_MANAGE_RESPONSE"
           /\ st = "KEEPALIVE" => state' = "AWAIT_ALIVE_RESPONSE"
<1>1. CASE st = "QUERY"
  BY <1>1, PacketIsMessage, PutKeeps DEF send_packet
<1>2. CASE st = "START_CONNECTION"
  BY <1>2, PacketIsMessage, PutKeeps DEF send_packet
<1>3. CASE st = "MANAGE"
  BY <1>3, PacketIsMessage, PutKeeps DEF send_packet
<1>4. CASE st = "KEEPALIVE"
  BY <1>4, PacketIsMessage, PutKeeps DEF send_packet
<1> QED
  BY <1>1, <1>2, <1>3, <1>4

-----------------------------------------------------------------------------
(***************************************************************************)
(* The display.                                                            *)
(***************************************************************************)

LEMMA InitDisplay == Init => DisplayInv
<1> SUFFICES ASSUME Init PROVE DisplayInv
  OBVIOUS
<1>1. net \subseteq Message
  BY PacketIsMessage DEF Init
<1>2. timeOutRtx \in 0 .. XDM_RTX_LIMIT - 1
  BY XdmcpAssumption DEF Init
<1> QED
  BY <1>1, <1>2 DEF Init, DisplayInv, DisplayTypeOK, Answered, TimerRuns,
     SessionHasSocket, InSession, States, Running

\* The display is in no session and its timer runs.
LEMMA OutOfSession ==
    ASSUME DisplayInv, timer' = "set", net' \subseteq Message,
           state' \in {"COLLECT_QUERY", "START_CONNECTION", "AWAIT_REQUEST_RESPONSE"},
           timeOutRtx' \in 0 .. XDM_RTX_LIMIT - 1, dispatchException' \in BOOLEAN,
           SessionID' = SessionID, conns' \subseteq conns,
           sessionSocket' = sessionSocket
    PROVE  DisplayInv'
BY DEF DisplayInv, DisplayTypeOK, Answered, TimerRuns, SessionHasSocket, InSession,
   States, Running

\* The display's half of the invariant through the packets it receives
LEMMA ReceiveKeeps ==
    ASSUME DisplayInv, NEW m \in net, receive_packet(m)
    PROVE  DisplayInv'
<1> DEFINE rest == net \ {m}
<1>1. /\ rest \subseteq Message /\ m \in Message /\ Running
      /\ timeOutRtx' = 0 /\ 0 \in 0 .. XDM_RTX_LIMIT - 1
      /\ UNCHANGED <<conns, sessionSocket>>
  BY XdmcpAssumption DEF DisplayInv, receive_packet
<1>2. CASE OutOfSequence(m) /\ Ignore(rest) /\ UNCHANGED SessionID
  BY <1>1, <1>2 DEF Ignore, DisplayInv, DisplayTypeOK, Answered, TimerRuns,
     SessionHasSocket, InSession, States, Running
<1>3. CASE m.op = "ACCEPT" /\ recv_accept_msg(m, rest)
  <2>1. m.id \in IDs
    BY <1>1, <1>3 DEF Message
  <2>2. SessionID' \in IDs /\ UNCHANGED dispatchException
    BY <1>3, <2>1 DEF recv_accept_msg
  <2>3. state' = "AWAIT_MANAGE_RESPONSE" /\ timer' = "set" /\ net' \subseteq Message
    BY <1>1, <1>3, <2>2, SendKeeps DEF recv_accept_msg
  <2> QED
    BY <1>1, <2>2, <2>3 DEF DisplayInv, DisplayTypeOK, Answered, TimerRuns,
       SessionHasSocket, InSession, States, Running
<1>4. CASE /\ m.op \in {"WILLING", "REFUSE"} /\ UNCHANGED SessionID
           /\ send_packet("START_CONNECTION", rest) /\ UNCHANGED dispatchException
  <2>1. /\ state' \in {"START_CONNECTION", "AWAIT_REQUEST_RESPONSE"}
        /\ timer' = "set" /\ net' \subseteq Message /\ dispatchException' \in BOOLEAN
    BY <1>1, <1>4, SendKeeps DEF DisplayInv, DisplayTypeOK
  <2> QED
    BY <1>1, <1>4, <2>1, OutOfSession
<1>5. CASE /\ XdmcpFatal /\ net' = rest
           /\ UNCHANGED <<SessionID, timer, dispatchException>>
  BY <1>1, <1>5 DEF XdmcpFatal, DisplayInv, DisplayTypeOK, Answered, TimerRuns,
     SessionHasSocket, InSession, States, Running
<1>6. CASE UNCHANGED SessionID /\ recv_alive_msg(m, rest)
  <2>1. CASE m.id = SessionID
    BY <1>1, <1>6, <2>1 DEF recv_alive_msg, DisplayInv, DisplayTypeOK, Answered,
       TimerRuns, SessionHasSocket, InSession, States, Running
  <2>2. CASE m.id # SessionID
    <3>1. /\ state' = "COLLECT_QUERY" /\ timer' = "set" /\ net' \subseteq Message
          /\ dispatchException' \in BOOLEAN
      BY <1>1, <1>6, <2>2, SendKeeps DEF recv_alive_msg, XdmcpDeadSession
    <3> QED
      BY <1>1, <1>6, <3>1, OutOfSession
  <2> QED
    BY <2>1, <2>2
<1> QED
  BY <1>2, <1>3, <1>4, <1>5, <1>6 DEF receive_packet

\* and through its timeouts.
LEMMA TimeoutKeeps ==
    ASSUME DisplayInv, timeout
    PROVE  DisplayInv'
<1>1. /\ Running /\ state # "RUN_SESSION" /\ timer # "off" /\ UNCHANGED SessionID
      /\ UNCHANGED <<conns, sessionSocket>>
      /\ net \subseteq Message /\ 0 \in 0 .. XDM_RTX_LIMIT - 1
      /\ dispatchException \in BOOLEAN
  BY XdmcpAssumption DEF timeout, DisplayInv, DisplayTypeOK
<1>2. CASE XdmcpDeadSession(net)
  <2>1. /\ state' = "COLLECT_QUERY" /\ timer' = "set" /\ net' \subseteq Message
        /\ dispatchException' \in BOOLEAN /\ timeOutRtx' = 0
    BY <1>1, <1>2, SendKeeps DEF XdmcpDeadSession
  <2> QED
    BY <1>1, <2>1, OutOfSession
<1>3. CASE GiveUp
  BY <1>1, <1>3 DEF GiveUp, DisplayInv, DisplayTypeOK, Answered, TimerRuns,
     SessionHasSocket, InSession, States, Running
<1>4. CASE /\ timeOutRtx + 1 < XDM_RTX_LIMIT /\ Retransmit(timeOutRtx + 1)
  <2>1. timeOutRtx' \in 0 .. XDM_RTX_LIMIT - 1 /\ UNCHANGED dispatchException
    BY <1>4, XdmcpAssumption DEF Retransmit, DisplayInv, DisplayTypeOK
  <2>2. state \in {"COLLECT_QUERY", "START_CONNECTION", "AWAIT_REQUEST_RESPONSE",
                   "AWAIT_MANAGE_RESPONSE", "AWAIT_ALIVE_RESPONSE", "QUERY"}
    BY <1>1 DEF Running, DisplayInv, DisplayTypeOK, States, Answered
  <2>3. CASE state \in {"COLLECT_QUERY", "START_CONNECTION", "AWAIT_REQUEST_RESPONSE",
                        "QUERY"}
    <3>1. Retry \in {"QUERY", "START_CONNECTION"} /\ send_packet(Retry, net)
      BY <1>4, <2>3 DEF Retransmit, Retry
    <3>2. /\ state' \in {"COLLECT_QUERY", "START_CONNECTION", "AWAIT_REQUEST_RESPONSE"}
          /\ timer' = "set" /\ net' \subseteq Message
      BY <1>1, <3>1, SendKeeps
    <3> QED
      BY <1>1, <2>1, <3>2, OutOfSession
  <2>4. CASE state \in {"AWAIT_MANAGE_RESPONSE", "AWAIT_ALIVE_RESPONSE"}
    <3>1. /\ Retry = IF state = "AWAIT_MANAGE_RESPONSE" THEN "MANAGE" ELSE "KEEPALIVE"
          /\ send_packet(Retry, net) /\ SessionID' \in IDs
      BY <1>1, <1>4, <2>4 DEF Retransmit, Retry, DisplayInv, Answered
    <3>2. state' = state /\ timer' = "set" /\ net' \subseteq Message
      BY <1>1, <2>4, <3>1, SendKeeps
    <3> QED
      BY <1>1, <2>1, <2>4, <3>1, <3>2 DEF DisplayInv, DisplayTypeOK, Answered,
         TimerRuns, SessionHasSocket, InSession, States, Running
  <2> QED
    BY <2>2, <2>3, <2>4
<1> QED
  BY <1>2, <1>3, <1>4, XdmcpAssumption DEF timeout, DisplayInv, DisplayTypeOK

\* The rest of the display's steps.
LEMMA DisplayKeeps ==
    ASSUME DisplayInv, Display
    PROVE  DisplayInv'
<1> USE DEF DisplayInv, DisplayTypeOK, Answered, TimerRuns, SessionHasSocket, InSession,
        States, Running
<1>1. CASE restart
  <2>1. state' = "COLLECT_QUERY" /\ timer' = "set" /\ net' \subseteq Message
    BY <1>1, SendKeeps DEF restart
  <2>2. timeOutRtx' \in 0 .. XDM_RTX_LIMIT - 1
    BY <1>1, XdmcpAssumption DEF restart
  <2> QED
    BY <1>1, <2>1, <2>2, OutOfSession DEF restart
<1>2. CASE Activity \/ Dormant
  BY <1>2 DEF Activity, Dormant
<1>3. CASE SendKeepalive
  <2>1. state' = "AWAIT_ALIVE_RESPONSE" /\ timer' = "set" /\ net' \subseteq Message
    BY <1>3, SendKeeps DEF SendKeepalive
  <2> QED
    BY <1>3, <2>1 DEF SendKeepalive
<1>4. ASSUME NEW k \in conns, CloseDownConnection(k) PROVE DisplayInv'
  BY <1>4 DEF CloseDownConnection, XdmcpCloseDisplay
<1>5. CASE XdmcpReset
  <2>1. state' = "COLLECT_QUERY" /\ timer' = "set" /\ net' \subseteq Message
    BY <1>5, SendKeeps DEF XdmcpReset
  <2>2. timeOutRtx' \in 0 .. XDM_RTX_LIMIT - 1
    BY <1>5, XdmcpAssumption DEF XdmcpReset
  <2> QED
    BY <1>5, <2>1, <2>2, OutOfSession DEF XdmcpReset
<1> QED
  BY <1>1, <1>2, <1>3, <1>4, <1>5, ReceiveKeeps, TimeoutKeeps DEF Display

\* A connection to the display.
LEMMA OpenKeeps ==
    ASSUME DisplayInv, NEW k \in IDs \cup {Local}, XdmcpOpenDisplay(k)
    PROVE  DisplayInv'
BY DEF XdmcpOpenDisplay, DisplayInv, DisplayTypeOK, Answered, TimerRuns,
   SessionHasSocket, InSession, States, Running

\* Nobody else touches the display; what the others send are messages.
LEMMA NetKeeps ==
    ASSUME DisplayInv, UNCHANGED displayVars, net' \subseteq Message
    PROVE  DisplayInv'
BY DEF displayVars, DisplayInv, DisplayTypeOK, Answered, TimerRuns, SessionHasSocket,
   InSession, States, Running

\* What the manager answers is a message.
LEMMA ReplyKeeps ==
    ASSUME net \subseteq Message, NEW m, NEW op, NEW id, Reply(m, op, id),
           Packet(op, id) \in Message
    PROVE  net' \subseteq Message
BY PutKeeps DEF Reply

LEMMA NextDisplay ==
    ASSUME DisplayInv, ManagerTypeOK, [Next]_vars
    PROVE  DisplayInv'
<1>0. net \subseteq Message
  BY DEF DisplayInv
<1>1. CASE UNCHANGED vars
  BY <1>0, <1>1, NetKeeps DEF vars
<1>2. CASE query_respond
  <2>1. PICK op \in {"WILLING", "UNWILLING"} : Reply(Packet("QUERY", None), op, None)
    BY <1>2 DEF query_respond
  <2> QED
    BY <1>0, <1>2, <2>1, ReplyKeeps, PacketIsMessage, NetKeeps DEF query_respond
<1>3. CASE request_respond
  <2>1. UNCHANGED displayVars
    BY <1>3 DEF request_respond
  <2>2. net' \subseteq Message
    <3> DEFINE m == Packet("REQUEST", None)
    <3>1. CASE proto # None /\ Reply(m, "ACCEPT", proto)
      BY <1>0, <3>1, ReplyKeeps, PacketIsMessage DEF ManagerTypeOK
    <3>2. CASE Reply(m, "DECLINE", None)
      BY <1>0, <3>2, ReplyKeeps, PacketIsMessage
    <3>3. CASE /\ globalSessionID < MaxSessions /\ proto' = globalSessionID + 1
               /\ Reply(m, "ACCEPT", proto')
      <4>1. proto' \in IDs
        BY <3>3, XdmcpAssumption DEF IDs, ManagerTypeOK
      <4> QED
        BY <1>0, <3>3, <4>1, ReplyKeeps, PacketIsMessage
    <3> QED
      BY <1>3, <3>1, <3>2, <3>3 DEF request_respond
  <2> QED
    BY <2>1, <2>2, NetKeeps
<1>4. ASSUME NEW id \in IDs, manage(id) \/ send_alive(id) \/ WaitForChild(id)
      PROVE  DisplayInv'
  <2>1. UNCHANGED displayVars
    BY <1>4 DEF manage, send_alive, WaitForChild
  <2>2. CASE manage(id)
    BY <1>0, <2>1, <2>2, ReplyKeeps, PacketIsMessage, NetKeeps DEF manage, StartSession
  <2>3. CASE send_alive(id)
    <3>1. Packet("ALIVE", IF managed = id THEN id ELSE None) \in Message
      BY PacketIsMessage
    <3> QED
      BY <1>0, <2>1, <2>3, <3>1, ReplyKeeps, NetKeeps DEF send_alive
  <2>4. CASE WaitForChild(id)
    BY <1>0, <2>1, <2>4, PutKeeps, PacketIsMessage, NetKeeps DEF WaitForChild
  <2> QED
    BY <1>4, <2>2, <2>3, <2>4
<1>5. ASSUME NEW id \in IDs, OpenDisplay(id) PROVE DisplayInv'
  BY <1>5, OpenKeeps DEF OpenDisplay
<1>6. CASE LocalClient
  BY <1>6, OpenKeeps DEF LocalClient
<1>7. CASE \/ TimeoutProtoDisplays \/ HostDown \/ HostUp \/ (\E m \in net : Lose(m))
           \/ (\E id \in IDs : Exit(id))
  BY <1>0, <1>7, NetKeeps DEF TimeoutProtoDisplays, HostDown, HostUp, Lose, Exit
<1> QED
  BY <1>1, <1>2, <1>3, <1>4, <1>5, <1>6, <1>7, DisplayKeeps DEF Next, Manager

-----------------------------------------------------------------------------
(***************************************************************************)
(* The manager.                                                            *)
(***************************************************************************)

LEMMA InitManager == Init => ManagerInv
BY IDsPositive, XdmcpAssumption
DEF Init, ManagerInv, ManagerTypeOK, StartedOnce, Counted, Processes, None

\* A session is begun: the one that ran is told to end.
LEMMA StartKeeps ==
    ASSUME ManagerInv, NEW id \in IDs, proto = id, up,
           StartSession(Packet("MANAGE", id)), UNCHANGED <<up, globalSessionID>>
    PROVE  ManagerInv'
<1>1. /\ managed' = id /\ proto' = None
      /\ child' = [Stopped(child) EXCEPT ![id] = "opening"]
  BY DEF StartSession, Packet
<1>2. Stopped(child) \in [IDs -> Processes]
  BY DEF Stopped, ManagerInv, ManagerTypeOK, Processes
<1>3. child' \in [IDs -> Processes]
  BY <1>1, <1>2 DEF Processes
<1>4. \A i \in IDs : child'[i] = "opening" => i = id
  <2> SUFFICES ASSUME NEW i \in IDs, i # id, child'[i] = "opening" PROVE FALSE
    OBVIOUS
  <2>1. Stopped(child)[i] = "opening"
    BY <1>1, <1>2
  <2>2. i # managed /\ child[i] = "opening"
    BY <2>1 DEF Stopped
  <2> QED
    BY <2>2 DEF ManagerInv, StartedOnce
<1>5. \A i \in IDs : child'[i] # "none" => i <= globalSessionID
  <2> SUFFICES ASSUME NEW i \in IDs, i # id, child'[i] # "none"
               PROVE  i <= globalSessionID
    BY IDsPositive DEF ManagerInv, Counted
  <2>1. Stopped(child)[i] # "none"
    BY <1>1, <1>2
  <2>2. child[i] # "none"
    BY <2>1 DEF Stopped
  <2> QED
    BY <2>2 DEF ManagerInv, Counted
<1> QED
  BY <1>1, <1>3, <1>4, <1>5 DEF ManagerInv, ManagerTypeOK, StartedOnce, Counted

LEMMA NextManager ==
    ASSUME ManagerInv, [Next]_vars
    PROVE  ManagerInv'
<1> USE DEF ManagerInv, ManagerTypeOK, StartedOnce, Counted
<1>1. CASE UNCHANGED managerVars
  BY <1>1 DEF managerVars
<1>2. CASE request_respond
  <2>1. CASE UNCHANGED <<proto, globalSessionID>>
    BY <1>2, <2>1 DEF request_respond
  <2>2. CASE /\ proto = None /\ globalSessionID < MaxSessions
             /\ globalSessionID' = globalSessionID + 1 /\ proto' = globalSessionID'
    <3>1. /\ proto' \in IDs /\ globalSessionID' \in 0 .. MaxSessions
          /\ globalSessionID < globalSessionID'
      BY <2>2, XdmcpAssumption DEF IDs
    <3>2. child[proto'] = "none"
      BY <2>2, <3>1 DEF IDs
    <3>3. \A i \in IDs : child[i] # "none" => i <= globalSessionID'
      BY <2>2, <3>1 DEF IDs
    <3> QED
      BY <1>2, <2>2, <3>1, <3>2, <3>3 DEF request_respond, Arrives
  <2> QED
    BY <1>2, <2>1, <2>2 DEF request_respond
<1>3. ASSUME NEW id \in IDs, manage(id) PROVE ManagerInv'
  <2>1. CASE proto = id /\ StartSession(Packet("MANAGE", id))
    BY <1>3, <2>1, StartKeeps DEF manage, Arrives
  <2>2. CASE UNCHANGED <<proto, managed, child>>
    BY <1>3, <2>2 DEF manage
  <2> QED
    BY <1>3, <2>1, <2>2 DEF manage
<1>4. ASSUME NEW id \in IDs, WaitForChild(id) PROVE ManagerInv'
  BY <1>4 DEF WaitForChild
<1>5. ASSUME NEW id \in IDs, OpenDisplay(id) \/ Exit(id) PROVE ManagerInv'
  <2>1. /\ child[id] \in {"opening", "doomed", "open"}
        /\ \E s \in {"open", "failed", "exited"} : child' = [child EXCEPT ![id] = s]
        /\ UNCHANGED <<up, proto, globalSessionID, managed>>
    BY <1>5 DEF OpenDisplay, Exit
  <2> QED
    BY <2>1 DEF Processes
<1>6. CASE TimeoutProtoDisplays
  BY <1>6 DEF TimeoutProtoDisplays
<1>7. CASE HostDown
  BY <1>7, IDsPositive DEF HostDown, Processes
<1>8. CASE HostUp
  BY <1>8 DEF HostUp
<1>9. CASE query_respond \/ (\E id \in IDs : send_alive(id)) \/ Display \/ LocalClient
           \/ (\E m \in net : Lose(m))
  <2>1. UNCHANGED managerVars
    BY <1>9 DEF query_respond, send_alive, LocalClient, Lose, Display, receive_packet,
       restart, Activity, Dormant, SendKeepalive, timeout, CloseDownConnection,
       XdmcpReset
  <2> QED
    BY <1>1, <2>1
<1>10. CASE UNCHANGED vars
  BY <1>1, <1>10 DEF vars
<1> QED
  BY <1>2, <1>3, <1>4, <1>5, <1>6, <1>7, <1>8, <1>9, <1>10 DEF Next, Manager

-----------------------------------------------------------------------------
(***************************************************************************)
(* The theorems.  Neither half of the invariant mentions what the other    *)
(* side knows: whatever datagrams are lost, late or out of date, display   *)
(* and manager each keep their own.                                        *)
(***************************************************************************)
Invariant == DisplayInv /\ ManagerInv

\* The two halves together.
LEMMA Invariance == Spec => []Invariant
<1>1. Init => Invariant
  BY InitDisplay, InitManager DEF Invariant
<1>2. Invariant /\ [Next]_vars => Invariant'
  BY NextDisplay, NextManager DEF Invariant, ManagerInv
<1> QED
  BY <1>1, <1>2, PTL DEF Spec

\* Type correctness: the count of retransmissions stays below its limit, and
\* what flies is a message, with the ID of a session that was offered.
THEOREM TypeCorrect == Spec => []TypeOK
<1>1. Invariant => TypeOK
  BY DEF Invariant, DisplayInv, ManagerInv, DisplayTypeOK, ManagerTypeOK, TypeOK
<1> QED
  BY <1>1, Invariance, PTL

\* The display waits without a timer only for its user.
THEOREM NeverStuck == Spec => []TimerRuns
<1>1. Invariant => TimerRuns
  BY DEF Invariant, DisplayInv
<1> QED
  BY <1>1, Invariance, PTL

\* While a session runs, the connection whose end will end it is still there.
THEOREM SocketKept == Spec => []SessionHasSocket
<1>1. Invariant => SessionHasSocket
  BY DEF Invariant, DisplayInv
<1> QED
  BY <1>1, Invariance, PTL

\* A session ID stands for one session, however often datagrams are repeated
\* and although the manager's host may crash.
THEOREM OneSession == Spec => []StartedOnce
<1>1. Invariant => StartedOnce
  BY DEF Invariant, ManagerInv
<1> QED
  BY <1>1, Invariance, PTL

=============================================================================
