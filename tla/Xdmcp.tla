------------------------------- MODULE Xdmcp --------------------------------
(***************************************************************************)
(* XDMCP: an X server without a user of its own (the display, os/xdmcp.c)  *)
(* asks a display manager on another host for a session (programs/xdm:     *)
(* xdmcp.c, protodpy.c, dm.c).  They negotiate by datagrams, which may be  *)
(* lost or overtake one another; the session itself begins when the        *)
(* manager opens a connection to the display, and ends when that           *)
(* connection is closed.                                                   *)
(*                                                                         *)
(* The display asks one manager (-query); with -broadcast and -indirect    *)
(* the automaton is the same.  A timeout may come at any time.             *)
(***************************************************************************)
EXTENDS Naturals, FiniteSets

CONSTANTS
    MaxSessions,     \* bound: the manager gives out 1 .. MaxSessions
    Capacity,        \* bound: datagrams in flight; a further one is lost
    XDM_RTX_LIMIT, XDM_KA_RTX_LIMIT

ASSUME XdmcpAssumption ==
    /\ MaxSessions \in Nat \ {0} /\ Capacity \in Nat \ {0}
    /\ XDM_RTX_LIMIT \in Nat \ {0} /\ XDM_KA_RTX_LIMIT \in 1 .. XDM_RTX_LIMIT

VARIABLES
    state,              \* of the display; "exited" after a fatal error
    SessionID,          \* of the display, 0 before the first Accept
    timer,              \* timeOutTime: "off" is 0, "due" has passed
    timeOutRtx,
    conns,              \* connections to the display
    sessionSocket,      \* the connection taken for the session's, or None
    dispatchException,  \* is a reset due?
    up,                 \* is the manager's host up?
    proto,              \* session ID of the ProtoDisplay, or None
    globalSessionID,
    managed,            \* session ID of the struct display, or None
    child,              \* the process of each session
    net                 \* datagrams in flight

displayVars == <<state, SessionID, timer, timeOutRtx, conns, sessionSocket,
                 dispatchException>>
managerVars == <<up, proto, globalSessionID, managed, child>>
vars == <<displayVars, managerVars, net>>

-----------------------------------------------------------------------------
IDs == 1 .. MaxSessions
None == 0
Local == MaxSessions + 1      \* a client that is no part of any session

\* An ALIVE that says that no such session runs has the ID None.
Message == [op : {"QUERY", "REQUEST", "WILLING", "UNWILLING", "DECLINE"},
            id : {None}]
           \cup [op : {"MANAGE", "KEEPALIVE", "ACCEPT", "REFUSE", "FAILED"},
                 id : IDs]
           \cup [op : {"ALIVE"}, id : IDs \cup {None}]
Packet(op, id) == [op |-> op, id |-> id]

States == {"COLLECT_QUERY", "START_CONNECTION", "AWAIT_REQUEST_RESPONSE",
           "AWAIT_MANAGE_RESPONSE", "RUN_SESSION", "AWAIT_ALIVE_RESPONSE",
           "AWAIT_USER_INPUT", "QUERY", "exited"}
InSession == state \in {"RUN_SESSION", "AWAIT_ALIVE_RESPONSE"}

\* "opening" and "doomed": about to open the display, the latter with SIGTERM
\* on its way; "failed" and "exited": to be waited for, after an attempt to open
\* that failed and otherwise; "gone": lost with its host.
Processes == {"none", "opening", "doomed", "open", "failed", "exited", "gone"}

Init ==
    /\ state = "COLLECT_QUERY" /\ SessionID = None /\ timer = "set"
    /\ timeOutRtx = 0 /\ conns = {} /\ sessionSocket = None
    /\ dispatchException = FALSE
    /\ up = TRUE /\ proto = None /\ globalSessionID = 0 /\ managed = None
    /\ child = [i \in IDs |-> "none"]
    /\ net = {Packet("QUERY", None)}

Put(flying, m) == IF Cardinality(flying) < Capacity THEN flying \cup {m}
                                                    ELSE flying

-----------------------------------------------------------------------------
(***************************************************************************)
(* The display.                                                            *)
(***************************************************************************)
Running == state # "exited" /\ ~dispatchException

\* send_packet in state st, with the datagrams flying around.
send_packet(st, flying) ==
    /\ timer' = "set"
    /\ CASE st = "QUERY" ->
              /\ state' = "COLLECT_QUERY"
              /\ net' = Put(flying, Packet("QUERY", None))
         [] st = "START_CONNECTION" ->
              \/ /\ state' = "AWAIT_REQUEST_RESPONSE"
                 /\ net' = Put(flying, Packet("REQUEST", None))
              \/ state' = st /\ net' = flying    \* XdmcpFlush fails
         [] st = "MANAGE" ->
              /\ state' = "AWAIT_MANAGE_RESPONSE"
              /\ net' = Put(flying, Packet("MANAGE", SessionID'))
         [] st = "KEEPALIVE" ->
              /\ state' = "AWAIT_ALIVE_RESPONSE"
              /\ net' = Put(flying, Packet("KEEPALIVE", SessionID'))

XdmcpDeadSession(flying) ==
    /\ dispatchException' = TRUE /\ timeOutRtx' = 0
    /\ send_packet("QUERY", flying)

XdmcpFatal == state' = "exited"

(***************************************************************************)
(* receive_packet and the recv_ functions; rest is what stays in flight.   *)
(* UNWILLING and DECLINE are fatal in whatever state.                      *)
(***************************************************************************)
Ignore(rest) ==
    /\ net' = rest /\ UNCHANGED <<state, dispatchException>>
    /\ timer' = IF state = "RUN_SESSION" /\ conns # {} THEN "set" ELSE timer

recv_accept_msg(m, rest) ==
    /\ state = "AWAIT_REQUEST_RESPONSE" /\ SessionID' = m.id
    /\ send_packet("MANAGE", rest)
    /\ UNCHANGED dispatchException

recv_alive_msg(m, rest) ==
    /\ state = "AWAIT_ALIVE_RESPONSE"
    /\ IF m.id = SessionID
       THEN /\ state' = "RUN_SESSION" /\ timer' = "set"
            /\ net' = rest /\ UNCHANGED dispatchException
       ELSE XdmcpDeadSession(rest)

\* The packets that state does not expect.
OutOfSequence(m) ==
    ~ \/ m.op = "WILLING" /\ state = "COLLECT_QUERY"
      \/ m.op = "ACCEPT" /\ state = "AWAIT_REQUEST_RESPONSE"
      \/ m.op \in {"REFUSE", "FAILED"} /\ state = "AWAIT_MANAGE_RESPONSE"
            /\ m.id = SessionID
      \/ m.op = "ALIVE" /\ state = "AWAIT_ALIVE_RESPONSE"
      \/ m.op \in {"UNWILLING", "DECLINE"}

receive_packet(m) ==
    LET rest == net \ {m}
    IN /\ m \in net /\ Running
       /\ m.op \in {"WILLING", "UNWILLING", "DECLINE", "ACCEPT", "REFUSE",
                    "FAILED", "ALIVE"}
       /\ timeOutRtx' = 0
       /\ \/ OutOfSequence(m) /\ Ignore(rest) /\ UNCHANGED SessionID
          \/ m.op = "ACCEPT" /\ recv_accept_msg(m, rest)
          \/ /\ ~OutOfSequence(m) /\ UNCHANGED SessionID
             /\ \/ /\ m.op \in {"WILLING", "REFUSE"}
                   /\ send_packet("START_CONNECTION", rest)
                   /\ UNCHANGED dispatchException
                \/ /\ m.op \in {"UNWILLING", "DECLINE", "FAILED"} /\ XdmcpFatal
                   /\ net' = rest /\ UNCHANGED <<timer, dispatchException>>
                \/ m.op = "ALIVE" /\ recv_alive_msg(m, rest)
       /\ UNCHANGED <<conns, sessionSocket, managerVars>>

(***************************************************************************)
(* XdmcpWakeupHandler when select() returned other descriptors: input of   *)
(* the user, or of any client, puts the keepalive off.                     *)
(***************************************************************************)
restart ==
    /\ Running /\ state = "AWAIT_USER_INPUT" /\ timeOutRtx' = 0
    /\ send_packet("QUERY", net)
    /\ UNCHANGED <<SessionID, conns, sessionSocket, dispatchException,
                   managerVars>>

Activity ==
    /\ Running /\ state = "RUN_SESSION" /\ conns # {} /\ timer' = "set"
    /\ UNCHANGED <<state, SessionID, timeOutRtx, conns, sessionSocket,
                   dispatchException, managerVars, net>>

\* The dormancy passes; in other states there is nothing that puts a timeout
\* off, so that "set" is as good as "due".
Dormant ==
    /\ Running /\ state = "RUN_SESSION" /\ timer = "set" /\ timer' = "due"
    /\ UNCHANGED <<state, SessionID, timeOutRtx, conns, sessionSocket,
                   dispatchException, managerVars, net>>

\* The state in which timeout sends again what state waits for.
Retry == CASE state = "COLLECT_QUERY"          -> "QUERY"
           [] state = "AWAIT_REQUEST_RESPONSE" -> "START_CONNECTION"
           [] state = "AWAIT_MANAGE_RESPONSE"  -> "MANAGE"
           [] state = "AWAIT_ALIVE_RESPONSE"   -> "KEEPALIVE"
           [] OTHER                            -> state

\* The wakeup handler when select() returned because of the timeout.
SendKeepalive ==
    /\ Running /\ state = "RUN_SESSION" /\ timer = "due"
    /\ UNCHANGED SessionID /\ send_packet("KEEPALIVE", net)
    /\ UNCHANGED <<timeOutRtx, conns, sessionSocket, dispatchException,
                   managerVars>>

GiveUp_Stays == /\ timer' = "off" /\ timeOutRtx' = 0
                /\ UNCHANGED <<state, dispatchException, net>>
GiveUp == /\ state' = "AWAIT_USER_INPUT" /\ timer' = "off" /\ timeOutRtx' = 0
          /\ UNCHANGED <<dispatchException, net>>

Retransmit(count) ==
    /\ timeOutRtx' = count /\ send_packet(Retry, net)
    /\ UNCHANGED dispatchException

timeout ==
    /\ Running /\ state # "RUN_SESSION" /\ timer # "off"
    /\ UNCHANGED SessionID
    /\ IF state = "AWAIT_ALIVE_RESPONSE" /\ timeOutRtx + 1 >= XDM_KA_RTX_LIMIT
       THEN XdmcpDeadSession(net)
       ELSE IF timeOutRtx + 1 >= XDM_RTX_LIMIT THEN GiveUp
       ELSE Retransmit(timeOutRtx + 1)
    /\ UNCHANGED <<conns, sessionSocket, managerVars>>

(***************************************************************************)
(* Connections.  Whoever connects first while the display waits for the    *)
(* manager is taken for the session.                                       *)
(***************************************************************************)
XdmcpOpenDisplay(k) ==
    /\ Running /\ k \notin conns /\ conns' = conns \cup {k}
    /\ IF state = "AWAIT_MANAGE_RESPONSE"
       THEN state' = "RUN_SESSION" /\ sessionSocket' = k
       ELSE UNCHANGED <<state, sessionSocket>>
    /\ UNCHANGED <<SessionID, timer, timeOutRtx, dispatchException, net>>

XdmcpCloseDisplay_Any(k) ==
    /\ k \in conns /\ conns' = conns \ {k}
    /\ IF InSession /\ conns' = {}
       THEN state' = "QUERY" /\ dispatchException' = TRUE
       ELSE UNCHANGED <<state, dispatchException>>
XdmcpCloseDisplay(k) ==
    /\ k \in conns /\ conns' = conns \ {k}
    /\ IF InSession /\ sessionSocket = k
       THEN state' = "QUERY" /\ dispatchException' = TRUE
       ELSE UNCHANGED <<state, dispatchException>>

CloseDownConnection(k) ==
    /\ Running /\ XdmcpCloseDisplay(k)
    /\ k # Local => child[k] \in {"failed", "exited"}
    /\ UNCHANGED <<SessionID, timer, timeOutRtx, sessionSocket, managerVars, net>>

\* The reset closes every connection and calls XdmcpReset.
XdmcpReset ==
    /\ dispatchException /\ dispatchException' = FALSE
    /\ conns' = {} /\ timeOutRtx' = 0
    /\ send_packet("QUERY", net)
    /\ UNCHANGED <<SessionID, sessionSocket, managerVars>>

-----------------------------------------------------------------------------
(***************************************************************************)
(* The manager: one action per packet that it answers.                     *)
(***************************************************************************)
Arrives(m) == up /\ m \in net
Reply(m, op, id) == net' = Put(net \ {m}, Packet(op, id))

query_respond ==
    LET m == Packet("QUERY", None)
    IN /\ Arrives(m)
       /\ \E op \in {"WILLING", "UNWILLING"} : Reply(m, op, None)
       /\ UNCHANGED <<displayVars, managerVars>>

\* A display that has asked before gets the session ID that it got then.
request_respond ==
    LET m == Packet("REQUEST", None)
    IN /\ Arrives(m)
       /\ \/ proto # None /\ Reply(m, "ACCEPT", proto)
             /\ UNCHANGED <<proto, globalSessionID>>
          \/ proto = None /\ Reply(m, "DECLINE", None)
             /\ UNCHANGED <<proto, globalSessionID>>
          \/ /\ proto = None /\ globalSessionID < MaxSessions
             /\ globalSessionID' = globalSessionID + 1 /\ proto' = globalSessionID'
             /\ Reply(m, "ACCEPT", proto')
       /\ UNCHANGED <<displayVars, up, managed, child>>

\* StopDisplay: the process of the session gets SIGTERM.
Stopped(c) == [i \in IDs |-> IF i # managed THEN c[i]
                             ELSE IF c[i] = "opening" THEN "doomed"
                             ELSE IF c[i] = "open" THEN "exited"
                             ELSE c[i]]

(***************************************************************************)
(* manage: the session is started, in place of one that is still running.  *)
(* A packet that comes again is ignored, but only while the display has no *)
(* ProtoDisplay of a later session.                                        *)
(***************************************************************************)
StartSession_Keep(m) == /\ managed' = m.id
                        /\ child' = [Stopped(child) EXCEPT ![m.id] = "opening"]
                        /\ net' = net \ {m} /\ UNCHANGED proto
StartSession(m) ==
    /\ managed' = m.id /\ proto' = None
    /\ child' = [Stopped(child) EXCEPT ![m.id] = "opening"]
    /\ net' = net \ {m}

manage(id) ==
    LET m == Packet("MANAGE", id)
    IN /\ Arrives(m)
       /\ \/ proto = id /\ StartSession(m)
          \/ /\ proto = None /\ managed = id /\ net' = net \ {m}
             /\ UNCHANGED <<proto, managed, child>>
          \/ /\ proto # id /\ ~(proto = None /\ managed = id)
             /\ Reply(m, "REFUSE", id) /\ UNCHANGED <<proto, managed, child>>
       /\ UNCHANGED <<displayVars, up, globalSessionID>>

send_alive_Blind(id) ==
    LET m == Packet("KEEPALIVE", id)
    IN /\ Arrives(m) /\ Reply(m, "ALIVE", id)
       /\ UNCHANGED <<displayVars, managerVars>>
send_alive(id) ==
    LET m == Packet("KEEPALIVE", id)
    IN /\ Arrives(m)
       /\ Reply(m, "ALIVE", IF managed = id THEN id ELSE None)
       /\ UNCHANGED <<displayVars, managerVars>>

\* A ProtoDisplay of which nothing was heard is forgotten.
TimeoutProtoDisplays ==
    /\ up /\ proto # None /\ proto' = None
    /\ UNCHANGED <<displayVars, up, globalSessionID, managed, child, net>>

(***************************************************************************)
(* The session's process: it opens the display or fails to, ends, and is   *)
(* waited for.                                                             *)
(***************************************************************************)
OpenDisplay(id) ==
    /\ up /\ child[id] \in {"opening", "doomed"} /\ XdmcpOpenDisplay(id)
    /\ child' = [child EXCEPT ![id] = IF @ = "opening" THEN "open" ELSE "exited"]
    /\ UNCHANGED <<up, proto, globalSessionID, managed>>

Exit(id) ==
    /\ up /\ child[id] \in {"opening", "doomed", "open"}
    /\ child' = [child EXCEPT ![id] = IF @ = "opening" THEN "failed"
                                                       ELSE "exited"]
    /\ UNCHANGED <<displayVars, up, proto, globalSessionID, managed, net>>

\* WaitForChild, for a process whose display is still in the list.
WaitForChild(id) ==
    /\ up /\ managed = id /\ child[id] \in {"failed", "exited"}
    /\ managed' = None
    /\ net' = IF child[id] = "failed" THEN Put(net, Packet("FAILED", id)) ELSE net
    /\ UNCHANGED <<displayVars, up, proto, globalSessionID, child>>

\* The manager's host crashes, and its connections are never closed.  It
\* comes back with session IDs that it did not give out before.
HostDown ==
    /\ up /\ up' = FALSE /\ proto' = None /\ managed' = None
    /\ child' = [i \in IDs |-> IF child[i] = "none" THEN "none" ELSE "gone"]
    /\ UNCHANGED <<displayVars, globalSessionID, net>>
HostUp == /\ ~up /\ up' = TRUE
          /\ UNCHANGED <<displayVars, proto, globalSessionID, managed, child, net>>

LocalClient == XdmcpOpenDisplay(Local) /\ UNCHANGED managerVars

Lose(m) == net' = net \ {m} /\ UNCHANGED <<displayVars, managerVars>>

-----------------------------------------------------------------------------
Display ==
    \/ (\E m \in net : receive_packet(m))
    \/ restart \/ Activity \/ Dormant \/ SendKeepalive \/ timeout
    \/ (\E k \in conns : CloseDownConnection(k)) \/ XdmcpReset

Manager ==
    \/ query_respond \/ request_respond \/ TimeoutProtoDisplays
    \/ (\E id \in IDs : manage(id) \/ send_alive(id) \/ Exit(id)
                        \/ WaitForChild(id) \/ OpenDisplay(id))

Next == Display \/ Manager \/ LocalClient \/ HostDown \/ HostUp
        \/ (\E m \in net : Lose(m))

Spec == Init /\ [][Next]_vars

(***************************************************************************)
(* The display goes on: a reset that is due is done, a timeout that has    *)
(* come and the end of a connection are noticed.  Nothing is assumed of    *)
(* the network or the manager.  BusySpec lets clients and the user put     *)
(* keepalives off for ever; FairSpec assumes that every now and then       *)
(* nobody does anything at the display for as long as the dormancy lasts.  *)
(***************************************************************************)
BusySpec ==
    /\ Spec /\ WF_vars(XdmcpReset \/ timeout \/ Dormant)
    /\ WF_vars(SendKeepalive)
    /\ WF_vars(\E id \in IDs : CloseDownConnection(id))
FairSpec == BusySpec /\ SF_vars(SendKeepalive)

-----------------------------------------------------------------------------
TypeOK ==
    /\ state \in States /\ SessionID \in IDs \cup {None}
    /\ timer \in {"off", "set", "due"} /\ timeOutRtx \in 0 .. XDM_RTX_LIMIT - 1
    /\ conns \subseteq IDs \cup {Local}
    /\ sessionSocket \in IDs \cup {Local, None}
    /\ dispatchException \in BOOLEAN
    /\ up \in BOOLEAN /\ proto \in IDs \cup {None}
    /\ globalSessionID \in 0 .. MaxSessions /\ managed \in IDs \cup {None}
    /\ child \in [IDs -> Processes]
    /\ net \subseteq Message

(***************************************************************************)
(* Whatever is lost, the display does not wait for ever without a timer:   *)
(* only for its user, after it has given up.                               *)
(***************************************************************************)
TimerRuns ==
    Running /\ timer = "off" => state = "AWAIT_USER_INPUT"

\* While a session runs, the connection whose end will end it is still there.
SessionHasSocket == InSession => sessionSocket \in conns

(***************************************************************************)
(* A session ID stands for one session: it is not offered again once its   *)
(* session was started, and no two sessions are managed on the display.    *)
(***************************************************************************)
StartedOnce ==
    /\ proto # None => child[proto] = "none"
    /\ \A i \in IDs : child[i] = "opening" => managed = i

(***************************************************************************)
(* A session that the manager does not run, be it that it crashed, ended   *)
(* it, runs another one or never began it, and one whose connection the    *)
(* display has taken for that of another session, is over for the display  *)
(* in the end or put right, although no datagram need arrive and a         *)
(* connection may stay open for ever.                                      *)
(***************************************************************************)
Agreed == /\ up /\ managed = SessionID
          /\ sessionSocket \in {SessionID, Local}
AgreementReached == (InSession /\ ~Agreed) ~> (~InSession \/ Agreed)

(***************************************************************************)
(* What is said elsewhere and does not hold.                               *)
(***************************************************************************)

\* The KEEPALIVEs of a session start with the shortest timeout, and the limit
\* is counted from there.
KeepalivesStartFresh == state = "RUN_SESSION" /\ timer = "due" => timeOutRtx = 0

\* A packet that is out of sequence is ignored; at least it is not fatal to a
\* session that runs.
SequenceKept == [][InSession => state' # "exited"]_vars

\* A MANAGE of the session that runs or is being started is not refused.
CurrentNotRefused == \A id \in IDs : Packet("REFUSE", id) \in net => managed # id
=============================================================================
