---------------------------- MODULE InputStream ----------------------------
(***************************************************************************)
(* What the server promises of device input on one screen, whatever the    *)
(* queue behind it looks like: an ordered stream of reports.  A report is  *)
(* dropped only when Capacity events wait, the one being handed over       *)
(* included.  Besides that only motions are lossy, and only in a run of    *)
(* motions: a newer one takes the place of the newest waiting one, or      *)
(* gives way to it.  position tells a report of motion from one of a key,  *)
(* the dropped ones too.                                                   *)
(***************************************************************************)
EXTENDS Naturals, Sequences

CONSTANT Capacity     \* waiting events the queue has room for

VARIABLES
    serial,           \* reports made so far
    position,         \* the serial of the last motion reported
    pending,          \* reports that wait, oldest first
    out               \* the last report delivered

sVars == <<serial, position, pending, out>>

Report(kind) == [kind |-> kind, serial |-> serial + 1]

\* The next report is made, and is of that kind.
Made(kind) ==
    /\ serial' = serial + 1
    /\ position' = IF kind = "motion" THEN serial + 1 ELSE position

Room == Len(pending) < Capacity
EndsInMotion == pending # << >> /\ pending[Len(pending)].kind = "motion"

Init ==
    /\ serial = 0 /\ position = 0
    /\ pending = << >>
    /\ out = [kind |-> "motion", serial |-> 0]

Accept(kind) ==
    /\ Made(kind)
    /\ pending' = Append(pending, Report(kind))
    /\ UNCHANGED out

\* Only a motion can be superseded, and only by the motion right after it.
Supersede ==
    /\ EndsInMotion
    /\ Made("motion")
    /\ pending' = [pending EXCEPT ![Len(pending)] = Report("motion")]
    /\ UNCHANGED out

DropMotion ==
    /\ Room => EndsInMotion
    /\ Made("motion")
    /\ UNCHANGED <<pending, out>>

DropKey ==
    /\ ~Room
    /\ Made("key")
    /\ UNCHANGED <<pending, out>>

Deliver ==
    /\ pending # << >>
    /\ out' = Head(pending)
    /\ pending' = Tail(pending)
    /\ UNCHANGED <<serial, position>>

Next ==
    \/ \E kind \in {"key", "motion"} : Accept(kind)
    \/ Supersede \/ DropMotion \/ DropKey
    \/ Deliver

Spec == Init /\ [][Next]_sVars
=============================================================================
