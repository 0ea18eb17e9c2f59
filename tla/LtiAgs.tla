------------------------------- MODULE LtiAgs -------------------------------
(***************************************************************************)
(* The Assignment and Grade Services of LTI Advantage: line items and      *)
(* scores a tool writes over the REST API (LtiAgsLineItemViewset), the     *)
(* line item a declarative configuration makes for itself                  *)
(* (_setup_lti_1p3_ags), and the post_save handler that carries a score to *)
(* the gradebook (publish_grade_on_score_update).                          *)
(*                                                                         *)
(* A request is a few steps: it makes the consumer, reads, validates what  *)
(* it read, saves, and the handler publishes.  Without ATOMIC_REQUESTS the *)
(* save is committed before the handler runs (Atomic = FALSE); with it the *)
(* save and the grade are committed together or not at all.                *)
(***************************************************************************)
EXTENDS Integers, FiniteSets

CONSTANTS
    Tools,         \* configurations with LTI 1.3
    Blocks,        \* usage keys
    Location,      \* [Tools -> Blocks]: the block of each configuration
    Mode,          \* [Tools -> modes]: lti_advantage_ags_mode
    Graded,        \* blocks with has_score
    AcceptLate,    \* blocks with accept_grades_past_due
    Users,
    MaxPoints, MaxTime,    \* bounds of the numbers a score carries
    Reports,       \* the scores a tool may post
    MaxItems,      \* bound of the line items ever made
    Operations,    \* the kinds of request served
    Workers,       \* requests served at the same time
    Serial,        \* TRUE: a request starts only when no other is running
    Atomic,        \* TRUE: ATOMIC_REQUESTS
    MaxRequests, MaxEdits,    \* bounds
    None

ASSUME AgsAssumption ==
    /\ Location \in [Tools -> Blocks]
    /\ \A s, t \in Tools : Location[s] = Location[t] => s = t
    /\ Mode \in [Tools -> {"disabled", "declarative", "programmatic"}]
    /\ Graded \subseteq Blocks /\ AcceptLate \subseteq Blocks
    /\ Operations \subseteq {"launch", "create", "update", "destroy", "scores"}
    /\ MaxPoints \in Nat /\ MaxTime \in Nat /\ MaxItems \in Nat
    /\ MaxRequests \in Nat /\ MaxEdits \in Nat
    /\ Serial \in BOOLEAN /\ Atomic \in BOOLEAN
    /\ None \notin Tools /\ None \notin Blocks /\ None \notin Users
    /\ None \notin 0..MaxPoints /\ None \notin 1..MaxItems
    /\ None \notin {"launch", "create", "update", "destroy", "scores"}

ItemId == 1..MaxItems
Points == (0..MaxPoints) \cup {None}
LineItem == [tool : Tools, link : Blocks \cup {None}]
\* A score as a tool posts it.
Report == [ts : 1..MaxTime, given : Points, max : Points,
           progress : {"FullyGraded", "Pending"}]
\* ... and as it is stored; late is a history field.
ScoreRow == [ts : 1..MaxTime, given : Points, max : Points,
             progress : {"FullyGraded", "Pending"}, late : BOOLEAN]
Fraction == [num : 0..MaxPoints, den : 0..MaxPoints]

ASSUME ReportsAssumption == Reports \subseteq Report

VARIABLES
    item,        \* LtiAgsLineItem rows: tool is lti_configuration, link resource_link_id
    items,       \* primary keys handed out to line items
    score,       \* LtiAgsScore rows by (line_item, user_id)
    gradebook,   \* what the LMS holds for a user in a block
    pastDue,     \* blocks whose due date has passed
    req,         \* the requests being served
    requests, edits

vars == <<item, items, score, gradebook, pastDue, req, requests, edits>>

Idle == [pc |-> "idle", op |-> None, tool |-> None, item |-> None, link |-> None,
         user |-> None, new |-> FALSE, row |-> None]
Request == [pc : {"idle", "setup", "newitem", "handle", "denied", "save", "publish"},
            op : Operations \cup {None}, tool : Tools \cup {None},
            item : ItemId \cup {None}, link : Blocks \cup {None},
            user : Users \cup {None}, new : BOOLEAN, row : Report \cup {None}]

At(w, pc) == req[w].pc = pc
Set(w, r) == req' = [req EXCEPT ![w] = r]
Stop(w) == Set(w, Idle)
Quiet == Serial => \A w \in Workers : At(w, "idle")
ItemsOf(t) == {i \in ItemId : item[i] # None /\ item[i].tool = t}

---------------------------------------------------------------------------
(* Making the consumer: every launch and every call of the API *)

Begin(w, t, op) ==
    /\ At(w, "idle") /\ Quiet
    /\ requests < MaxRequests /\ requests' = requests + 1
    /\ Set(w, [Idle EXCEPT !.pc = "setup", !.op = op, !.tool = t])
    /\ UNCHANGED <<item, items, score, gradebook, pastDue, edits>>

\* LtiAgsPermissions: the scopes that let each action of the viewset through
PermissionScopes(action) ==
    IF action \in {"list", "retrieve"} THEN {"lineitem.readonly", "lineitem"}
    ELSE IF action \in {"create", "update", "partial_update", "delete"} THEN {"lineitem"}
    ELSE IF action = "results" THEN {"result.readonly"}
    ELSE IF action = "scores" THEN {"score"}
    ELSE {}

\* The token endpoint grants every scope it knows to whoever asks.
TokenScopes == {"lineitem.readonly", "lineitem", "result.readonly", "score"}

AfterSetup(w) ==
    LET op == req[w].op IN
    IF op = "launch" THEN Stop(w)
    ELSE IF PermissionScopes(op) \cap TokenScopes # {} THEN Set(w, [req[w] EXCEPT !.pc = "handle"])
    ELSE Set(w, [req[w] EXCEPT !.pc = "denied"])

NeedsItem(t) == Mode[t] = "declarative" /\ ItemsOf(t) = {}

SetupAgs(w) ==
    LET t == req[w].tool IN
    /\ At(w, "setup")
    /\ \/ NeedsItem(t) /\ Set(w, [req[w] EXCEPT !.pc = "newitem"])
       \/ ~NeedsItem(t) /\ AfterSetup(w)
    /\ UNCHANGED <<item, items, score, gradebook, pastDue, requests, edits>>

NewItem(t, link) ==
    /\ items < MaxItems /\ items' = items + 1
    /\ item' = [item EXCEPT ![items'] = [tool |-> t, link |-> link]]

CreateOwnItem(w) ==
    /\ At(w, "newitem")
    /\ NewItem(req[w].tool, Location[req[w].tool])
    /\ AfterSetup(w)
    /\ UNCHANGED <<score, gradebook, pastDue, requests, edits>>

Refuse(w) ==
    /\ At(w, "denied") /\ Stop(w)
    /\ UNCHANGED <<item, items, score, gradebook, pastDue, requests, edits>>

---------------------------------------------------------------------------
(* LtiAgsLineItemViewset *)

Handles(w, op) == At(w, "handle") /\ req[w].op = op

\* mutant: perform_create without the configuration
PostLooseItem(w, link) ==
    /\ Handles(w, "create") /\ NewItem(None, link) /\ Stop(w)
    /\ UNCHANGED <<score, gradebook, pastDue, requests, edits>>
\* A line item may name any block, or none.
PostLineItem(w, link) ==
    /\ Handles(w, "create") /\ NewItem(req[w].tool, link) /\ Stop(w)
    /\ UNCHANGED <<score, gradebook, pastDue, requests, edits>>

PutLineItem(w, i, link) ==
    /\ Handles(w, "update") /\ i \in ItemsOf(req[w].tool)
    /\ item' = [item EXCEPT ![i].link = link] /\ Stop(w)
    /\ UNCHANGED <<items, score, gradebook, pastDue, requests, edits>>

NotFound(w) ==
    /\ At(w, "handle") /\ req[w].op # "create" /\ ItemsOf(req[w].tool) = {}
    /\ Stop(w)
    /\ UNCHANGED <<item, items, score, gradebook, pastDue, requests, edits>>

ValidTimestamp(old, ts) == old # None => old.ts < ts

ValidMaximum(r) == r.given # None => r.max # None /\ r.max # 0

\* get_object, the existing score, and the serializer's checks against it
PostScore(w, i, u, r) ==
    LET old == score[i][u] IN
    /\ Handles(w, "scores") /\ i \in ItemsOf(req[w].tool)
    /\ IF ValidTimestamp(old, r.ts) /\ ValidMaximum(r)
       THEN Set(w, [req[w] EXCEPT !.pc = "save", !.item = i, !.link = item[i].link,
                                  !.user = u, !.new = (old = None), !.row = r])
       ELSE Stop(w)
    /\ UNCHANGED <<item, items, score, gradebook, pastDue, requests, edits>>

---------------------------------------------------------------------------
(* LtiAgsScore.save and its post_save handler *)

\* INSERT meets unique_together, UPDATE its own row, both the foreign key.
RowFits(r) ==
    /\ item[r.item] # None
    /\ r.new => score[r.item][r.user] = None

Saved(r) ==
    LET b == Location[r.tool]
        row == [ts |-> r.row.ts, given |-> r.row.given, max |-> r.row.max,
                progress |-> r.row.progress, late |-> b \in pastDue]
    IN [score EXCEPT ![r.item][r.user] = row]

InScopeAlways(r) == TRUE    \* mutant: no scope check
\* "Only save score if the line_item.resource_link_id is the same as
\* lti_configuration.location"
InScope(r) == r.link = Location[r.tool]

\* FullyGraded, linked, and `instance.score_given` true of the number
Final(r) ==
    /\ r.row.progress = "FullyGraded" /\ r.link # None
    /\ r.row.given # None /\ r.row.given # 0

TakesGrades(b) == b \in Graded /\ (b \notin pastDue \/ b \in AcceptLate)

Uncapped(row) == [num |-> row.given, den |-> row.max]    \* mutant: no min
Grade(row) == [num |-> IF row.given <= row.max THEN row.given ELSE row.max,
               den |-> row.max]

Published(r) ==
    IF InScope(r) /\ Final(r) /\ TakesGrades(r.link)
    THEN [gradebook EXCEPT ![r.link][r.user] = Grade(r.row)]
    ELSE gradebook

\* The block or the user cannot be loaded: the handler raises.
MayRaise(r) == InScope(r) /\ Final(r)

SaveScore(w) ==
    LET r == req[w] IN
    /\ At(w, "save") /\ ~Atomic
    /\ \/ RowFits(r) /\ score' = Saved(r) /\ Set(w, [r EXCEPT !.pc = "publish"])
       \/ ~RowFits(r) /\ Stop(w) /\ UNCHANGED score
    /\ UNCHANGED <<item, items, gradebook, pastDue, requests, edits>>

PublishScore(w) ==
    LET r == req[w] IN
    /\ At(w, "publish") /\ Stop(w)
    /\ \/ gradebook' = Published(r)
       \/ MayRaise(r) /\ UNCHANGED gradebook
    /\ UNCHANGED <<item, items, score, pastDue, requests, edits>>

\* mutant: the handler's exception is swallowed
SwallowAndCommit(w) ==
    LET r == req[w] IN
    /\ At(w, "save") /\ Atomic /\ Stop(w)
    /\ \/ RowFits(r) /\ score' = Saved(r) /\ gradebook' \in
            {Published(r), IF MayRaise(r) THEN gradebook ELSE Published(r)}
       \/ ~RowFits(r) /\ UNCHANGED <<score, gradebook>>
    /\ UNCHANGED <<item, items, pastDue, requests, edits>>
CommitScore(w) ==
    LET r == req[w] IN
    /\ At(w, "save") /\ Atomic /\ Stop(w)
    /\ \/ RowFits(r) /\ score' = Saved(r) /\ gradebook' = Published(r)
       \/ ~RowFits(r) /\ UNCHANGED <<score, gradebook>>
       \/ MayRaise(r) /\ UNCHANGED <<score, gradebook>>    \* rolled back
    /\ UNCHANGED <<item, items, pastDue, requests, edits>>

---------------------------------------------------------------------------
(* Authors, admins and the clock *)

Edit == Quiet /\ edits < MaxEdits /\ edits' = edits + 1

\* The due date passes, or an author moves it.
MoveDueDate(b) ==
    /\ Edit
    /\ pastDue' = IF b \in pastDue THEN pastDue \ {b} ELSE pastDue \cup {b}
    /\ UNCHANGED <<item, items, score, gradebook, req, requests>>

\* on_delete=CASCADE takes the scores with the line item.
AdminDeleteItem(i) ==
    /\ Edit /\ item[i] # None
    /\ item' = [item EXCEPT ![i] = None]
    /\ score' = [score EXCEPT ![i] = [u \in Users |-> None]]
    /\ UNCHANGED <<items, gradebook, pastDue, req, requests>>

---------------------------------------------------------------------------

Init ==
    /\ item = [i \in ItemId |-> None] /\ items = 0
    /\ score = [i \in ItemId |-> [u \in Users |-> None]]
    /\ gradebook = [b \in Blocks |-> [u \in Users |-> None]]
    /\ pastDue = {}
    /\ req = [w \in Workers |-> Idle]
    /\ requests = 0 /\ edits = 0

Next ==
    \/ \E w \in Workers :
        \/ \E t \in Tools, op \in Operations : Begin(w, t, op)
        \/ SetupAgs(w) \/ CreateOwnItem(w) \/ Refuse(w) \/ NotFound(w)
        \/ \E link \in Blocks \cup {None} :
            \/ PostLineItem(w, link)
            \/ \E i \in ItemId : PutLineItem(w, i, link)
        \/ \E i \in ItemId, u \in Users, r \in Reports : PostScore(w, i, u, r)
        \/ SaveScore(w) \/ PublishScore(w) \/ CommitScore(w)
    \/ \E b \in Blocks : MoveDueDate(b)
    \/ \E i \in ItemId : AdminDeleteItem(i)

Spec == Init /\ [][Next]_vars

---------------------------------------------------------------------------
(* Properties *)

AllIdle == \A w \in Workers : At(w, "idle")

\* The rows have the shape models.py gives them, also when requests that hold
\* rows an admin deletes go on to save.
TypeOK ==
    /\ item \in [ItemId -> LineItem \cup {None}] /\ items \in 0..MaxItems
    /\ score \in [ItemId -> [Users -> ScoreRow \cup {None}]]
    /\ gradebook \in [Blocks -> [Users -> Fraction \cup {None}]]
    /\ pastDue \subseteq Blocks
    /\ req \in [Workers -> Request]
    /\ requests \in 0..MaxRequests /\ edits \in 0..MaxEdits

\* No line item a tool makes or moves, at any point of a score request, lets
\* it change a grade in a block other than its own (signals.py:32-45).
ToolsGradeOwnBlock ==
    [][\A b \in Blocks : gradebook'[b] # gradebook[b] =>
          \E w \in Workers : /\ req[w].tool # None /\ Location[req[w].tool] = b
                             /\ req'[w] # req[w]]_vars

\* Every grade is a fraction of at most 1, and every saved score can be shown
\* as one: no division by zero in the handler, none in the results
\* (signals.py:64, serializers.py:223).
ScoresAreFractions ==
    /\ \A b \in Blocks, u \in Users : LET g == gradebook[b][u] IN
        g # None => g.den > 0 /\ g.num <= g.den
    /\ \A i \in ItemId, u \in Users : LET r == score[i][u] IN
        r # None /\ r.given # None => r.max # None /\ r.max > 0

\* "Score timestamp can only be updated to a later point in time"
\* (serializers.py:139).
TimestampsAdvance ==
    [][\A i \in ItemId, u \in Users :
          /\ score[i][u] # None /\ score'[i][u] # None
          /\ score'[i][u] # score[i][u]
          => score[i][u].ts < score'[i][u].ts]_vars

Due(i, r) ==
    LET b == Location[item[i].tool] IN
    /\ item[i].link = b /\ b \in Graded /\ (~r.late \/ b \in AcceptLate)
    /\ r.progress = "FullyGraded"

\* "Publish grade to xblock whenever score saved/updated and its
\* grading_progress is set to FullyGraded" (signals.py:23): between requests,
\* the gradebook holds the grade of every final score but zero.
GradebookFollowsScore ==
    AllIdle => \A i \in ItemId, u \in Users : LET r == score[i][u] IN
        r # None /\ Due(i, r) /\ r.given # None /\ r.given # 0
        => gradebook[item[i].link][u] = Grade(r)
============================================================================
