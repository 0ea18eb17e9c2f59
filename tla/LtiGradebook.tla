---------------------------- MODULE LtiGradebook ----------------------------
(***************************************************************************)
(* What a grade service promises to a tool, whatever protocol carries the  *)
(* results: a call enters the whole of its result for its learner at one   *)
(* moment, or nothing of it; it is answered accordingly; nothing else      *)
(* writes the book.                                                        *)
(***************************************************************************)
CONSTANTS Calls, Learners, Results, NoResult, None

VARIABLES
    book,    \* the result of each learner
    call     \* the calls being served

gvars == <<book, call>>

NoCall == [phase |-> "idle", learner |-> None, result |-> NoResult]

Phase(c, p) == call[c].phase = p
Move(c, p) == call' = [call EXCEPT ![c].phase = p]

Open(c) ==
    /\ Phase(c, "idle")
    /\ call'[c] \in [phase : {"open"}, learner : Learners, result : Results]
    /\ call' = [call EXCEPT ![c] = call'[c]]
    /\ UNCHANGED book

Enter(c) ==
    /\ Phase(c, "open") /\ Move(c, "entered")
    /\ book' = [book EXCEPT ![call[c].learner] = call[c].result]

Refuse(c) == Phase(c, "open") /\ Move(c, "refused") /\ UNCHANGED book

Close(c) ==
    /\ call[c].phase \in {"entered", "refused"}
    /\ call' = [call EXCEPT ![c] = NoCall]
    /\ UNCHANGED book

GInit ==
    /\ book = [u \in Learners |-> NoResult]
    /\ call = [c \in Calls |-> NoCall]

GNext ==
    \E c \in Calls : Open(c) \/ Enter(c) \/ Refuse(c) \/ Close(c)

GSpec == GInit /\ [][GNext]_gvars
=============================================================================
