----------------------------- MODULE MCDispatch -----------------------------
(***************************************************************************)
(* What each client asks for in the runs of ClientDispatch.                *)
(***************************************************************************)
EXTENDS ClientDispatch

\* No client is ever exempt from grabs.
SmartOps == [c \in Clients |-> {"noop", "grab", "ungrab", "open", "delay", "kill"}]

\* Client 1 sleeps, and is exempt when it likes; client 2 sets priorities.
RoundsOps == [c \in Clients |->
    IF c = 1 THEN {"open", "grab", "ungrab", "impervious", "pervious"}
    ELSE {"grab", "ungrab", "priority"}]

\* The requests of the further configurations.
GrabOps == [c \in Clients |-> {"noop", "grab", "ungrab"}]
SleepOps == [c \in Clients |-> {"open", "grab", "ungrab"}]
PerviousOps == [c \in Clients |-> {"open", "grab", "ungrab", "pervious"}]
ControlOps == [c \in Clients |-> {"open", "grab", "ungrab", "impervious", "pervious"}]
KillOps == [c \in Clients |-> {"grab", "ungrab", "kill"}]
HoldOps == [c \in Clients |-> IF c = 1 THEN {"grab", "ungrab"} ELSE {"noop"}]
TwiceOps == [c \in Clients |-> {"open", "kill"}]
=============================================================================
