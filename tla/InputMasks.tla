----------------------------- MODULE InputMasks -----------------------------
(***************************************************************************)
(* The descriptor sets of os/connection.c that decide which clients        *)
(* WaitForSomething may return, and the functions that move a client       *)
(* between them.  A client stands for the descriptor of its connection,    *)
(* and 0 for no client, as in GrabInProgress.                              *)
(*                                                                         *)
(* The sets are one record, so a handler that calls several of these       *)
(* functions composes them.  AllSockets is left out: every function below  *)
(* moves the client descriptors of AllSockets with those of AllClients.    *)
(***************************************************************************)
EXTENDS Naturals

CONSTANT Clients   \* the indexes of clients[], without the server's own

ASSUME ClientsAssumption == Clients \subseteq Nat \ {0}

Masks == [all        : SUBSET Clients,      \* AllClients
          input      : SUBSET Clients,      \* ClientsWithInput
          savedAll   : SUBSET Clients,      \* SavedAllClients
          savedInput : SUBSET Clients,      \* SavedClientsWithInput
          ignored    : SUBSET Clients,      \* IgnoredClientsWithInput
          impervious : SUBSET Clients,      \* GrabImperviousClients
          grab       : Clients \cup {0}]    \* GrabInProgress

\* The masks of a server to which S is connected, E of them impervious.
Listening(S, E) == [all |-> S, input |-> {}, savedAll |-> {}, savedInput |-> {},
                    ignored |-> {}, impervious |-> E, grab |-> 0]

\* FD_SET and FD_CLR of one descriptor, decided by a condition.
Put(S, c, condition) == IF condition THEN S \cup {c} ELSE S \ {c}

\* Read leaves the mask bit of c set when a whole request is still buffered.
SetInput(m, c, more) == [m EXCEPT !.input = Put(m.input, c, more)]

OnlyListenTo(m, c) ==
    IF m.grab # 0 THEN m
    ELSE [m EXCEPT !.all = (m.all \cap m.impervious) \cup {c},
                   !.input = m.input \cap (m.impervious \cup {c}),
                   !.savedAll = m.all,
                   !.savedInput = m.input \ (m.impervious \cup {c}),
                   !.grab = c]

\* Mutant: the input put away by the grab is not taken back.
ListenToAll_ForgetsInput(m) ==
    IF m.grab = 0 THEN m
    ELSE [m EXCEPT !.all = m.all \cup m.savedAll, !.grab = 0]

ListenToAll(m) ==
    IF m.grab = 0 THEN m
    ELSE [m EXCEPT !.all = m.all \cup m.savedAll,
                   !.input = m.input \cup m.savedInput,
                   !.grab = 0]

\* Mutant: during a grab a client is always taken out of the saved masks.
Ignore_OnlySaved(m, c) ==
    IF m.grab = 0
    THEN [m EXCEPT !.ignored = Put(m.ignored, c, c \in m.input),
                   !.input = m.input \ {c},
                   !.all = m.all \ {c}]
    ELSE [m EXCEPT !.ignored = Put(m.ignored, c, c \in m.savedInput),
                   !.savedInput = m.savedInput \ {c},
                   !.savedAll = m.savedAll \ {c}]

Ignore(m, c) ==
    IF m.grab = 0 \/ c \in m.all
    THEN [m EXCEPT !.ignored = Put(m.ignored, c, c \in m.input),
                   !.input = m.input \ {c},
                   !.all = m.all \ {c}]
    ELSE [m EXCEPT !.ignored = Put(m.ignored, c, c \in m.savedInput),
                   !.savedInput = m.savedInput \ {c},
                   !.savedAll = m.savedAll \ {c}]

\* Mutant: a client woken during another's grab is not recorded.
Attend_OnlyNow(m, c) ==
    IF m.grab \in {0, c} \/ c \in m.impervious
    THEN [m EXCEPT !.all = m.all \cup {c},
                   !.input = Put(m.input, c, c \in m.ignored \cup m.input)]
    ELSE m

Attend(m, c) ==
    IF m.grab \in {0, c} \/ c \in m.impervious
    THEN [m EXCEPT !.all = m.all \cup {c},
                   !.input = Put(m.input, c, c \in m.ignored \cup m.input)]
    ELSE [m EXCEPT !.savedAll = m.savedAll \cup {c},
                   !.savedInput = Put(m.savedInput, c, c \in m.ignored \cup m.savedInput)]

MakeImpervious(m, c) == [m EXCEPT !.impervious = m.impervious \cup {c}]

\* Mutant: a client pervious again stays listened to during another's grab.
MakePervious_StaysHeard(m, c) == [m EXCEPT !.impervious = m.impervious \ {c}]

MakePervious(m, c) ==
    IF m.grab \in {0, c}
    THEN [m EXCEPT !.impervious = m.impervious \ {c}]
    ELSE [m EXCEPT !.impervious = m.impervious \ {c},
                   !.savedInput = Put(m.savedInput, c, c \in m.input \cup m.savedInput),
                   !.input = m.input \ {c},
                   !.all = m.all \ {c}]

\* Mutant: a new client is listened to although another holds the server.
Connect_Listens(m, c) == [m EXCEPT !.all = m.all \cup {c}]

\* AllocNewConnection: a client that connects during a grab is put away.
Connect(m, c) == IF m.grab = 0 THEN [m EXCEPT !.all = m.all \cup {c}]
                 ELSE [m EXCEPT !.savedAll = m.savedAll \cup {c}]

\* CloseDownFileDescriptor: the ignored set keeps the bit.
CloseFd(m, c) ==
    LET open == [m EXCEPT !.all = m.all \ {c}, !.input = m.input \ {c},
                          !.impervious = m.impervious \ {c}]
    IN  IF m.grab = 0 THEN open
        ELSE [open EXCEPT !.savedAll = m.savedAll \ {c},
                          !.savedInput = m.savedInput \ {c}]

\* ResetCurrentRequest: the request stays buffered, to be executed again.
Reset(m, c) == IF c \in m.all THEN [m EXCEPT !.input = m.input \cup {c}]
               ELSE [m EXCEPT !.ignored = m.ignored \cup {c}]
=============================================================================
