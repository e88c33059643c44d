----------------------------- MODULE ServerGrab -----------------------------
(***************************************************************************)
(* What the server promises of GrabServer and UngrabServer, without masks, *)
(* rounds or sleepers: while a client holds the server, no request of      *)
(* another connection is processed, except for the clients XTestGrab-      *)
(* Control made impervious; the hold ends with a request of the holder or  *)
(* with its connection; and no other connection is closed but by a request *)
(* of a client that is not shut out, or because it is late.                *)
(*                                                                         *)
(* Late are the connections the server can no longer write to and those    *)
(* still in their setup.  The core protocol makes no exception for them:   *)
(* "disables processing of requests and close-downs on all connections     *)
(* other than the one this request arrived on".                            *)
(***************************************************************************)
EXTENDS Naturals

CONSTANTS Clients, Connected, Exempt

VARIABLES
    connected,   \* the clients connected
    exempt,      \* the clients impervious to grabs
    late,        \* the clients the server may cut off at any time
    holder,      \* the client that holds the server, or 0
    turn         \* the client whose requests are being executed, or 0

vars == <<connected, exempt, late, holder, turn>>

Init == /\ connected = Connected /\ exempt = Exempt /\ late = {}
        /\ holder = 0 /\ turn = 0

\* A client that the hold of another shuts out.
ShutOut(c) == holder \notin {0, c} /\ c \notin exempt

Open(c) == /\ turn = 0 /\ c \notin connected
           /\ connected' = connected \cup {c} /\ late' = late \cup {c}
           /\ UNCHANGED <<exempt, holder, turn>>

\* The turn, or the next request of it, goes to a client that is not shut out.
Turn(c) == /\ turn = 0 /\ c \in connected /\ ~ShutOut(c)
           /\ turn' = c
           /\ UNCHANGED <<connected, exempt, late, holder>>

\* A request other than the ones below: it may end the turn.
Done == turn' = 0 /\ UNCHANGED <<connected, exempt, late, holder>>

\* The last of the requests that set a connection up.
Admit == /\ turn # 0
         /\ late' \in {late, late \ {turn}} /\ turn' \in {0, turn}
         /\ UNCHANGED <<connected, exempt, holder>>

\* A write to a client fails, in whatever turn.
Fail(c) == /\ turn # 0 /\ c \in connected
           /\ late' = late \cup {c}
           /\ UNCHANGED <<connected, exempt, holder, turn>>

Grab == /\ turn # 0 /\ holder \in {0, turn}
        /\ holder' = turn /\ turn' \in {0, turn}
        /\ UNCHANGED <<connected, exempt, late>>

Ungrab == /\ turn # 0 /\ holder = turn
          /\ holder' = 0 /\ turn' \in {0, turn}
          /\ UNCHANGED <<connected, exempt, late>>

\* XTestGrabControl: whom it shuts out has no more turn.
Control == /\ turn # 0
           /\ exempt' \in {exempt \cup {turn}, exempt \ {turn}}
           /\ turn' \in IF ShutOut(turn)' /\ turn \notin late THEN {0} ELSE {0, turn}
           /\ UNCHANGED <<connected, late, holder>>

\* A connection ends in a turn, its own or that of a client that kills it;
\* between the turns only if it is late or not shut out.
Close(c) == /\ c \in connected
            /\ turn # 0 \/ c \in late \/ ~ShutOut(c)
            /\ connected' = connected \ {c} /\ exempt' = exempt \ {c}
            /\ late' = late \ {c}
            /\ holder' = IF holder = c THEN 0 ELSE holder
            /\ turn' \in {0, turn}

Next == \/ \E c \in Clients : Open(c) \/ Turn(c) \/ Fail(c) \/ Close(c)
        \/ Done \/ Admit \/ Grab \/ Ungrab \/ Control

Spec == Init /\ [][Next]_vars
=============================================================================
