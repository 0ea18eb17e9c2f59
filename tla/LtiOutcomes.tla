----------------------------- MODULE LtiOutcomes -----------------------------
(***************************************************************************)
(* LTI 1.1 grades of one block: a launch hands the tool an identifier of   *)
(* the user; the tool sends results back to the outcome service (XML,      *)
(* replaceResult only) or to the result service (JSON: PUT, GET, DELETE).  *)
(* Both end in set_user_module_score, which publishes the grade and sets   *)
(* two fields of the user's module that are saved when the handler ends.   *)
(*                                                                         *)
(* A score is a number of parts out of Full; a module score is a score     *)
(* times the weight, in the same parts.  A handler runs in a transaction   *)
(* (ATOMIC_REQUESTS): the grade and the module are one row of the host, so *)
(* a second handler waits at it for the first to end, and a handler that   *)
(* dies has written nothing.                                               *)
(***************************************************************************)
EXTENDS Integers, FiniteSets

CONSTANTS
    Users, Workers,    \* learners, and requests served at the same time
    Full,              \* parts of a whole score
    MaxWeight,
    Secrets,           \* oauth secrets of the LTI passports of the course
    Comments, NoComment,
    Settings,          \* what authors may set the block to
    Posts,             \* what a tool may send about a user
    MaxTime, MaxRequests, MaxEdits,    \* bounds
    None

Kind == {"anonymous", "external"}
\* The last part of lis_result_sourcedid, and of the path of the result service.
Id == [kind : Kind, user : Users]
Score == (0..Full) \cup {None}
Points == (0..(Full * MaxWeight)) \cup {None}
\* weight is None when has_score is false; fine is false of a body that does not
\* parse, or whose score is out of range
Setting == [secret : Secrets, weight : (0..MaxWeight) \cup {None},
            late : BOOLEAN, due : 0..MaxTime]
Post == [op : {"replaceResult", "readResult", "PUT", "GET", "DELETE"},
         fine : BOOLEAN, score : Score, comment : Comments, secret : Secrets]

ASSUME OutcomesAssumption ==
    /\ Full \in Nat /\ MaxWeight \in Nat
    /\ MaxTime \in Nat /\ MaxRequests \in Nat /\ MaxEdits \in Nat
    /\ NoComment \in Comments
    /\ None \notin Int /\ None \notin Users
    /\ Settings \subseteq Setting /\ Posts \subseteq Post
    /\ \A p \in Posts : p.op # "PUT" => p.comment = NoComment

VARIABLES
    block,       \* the block's settings
    external,    \* enable_external_user_id_1p1_launches
    now,
    given,       \* identifiers that launches gave to the tool
    url,         \* the tool knows lis_outcome_service_url
    module,      \* module_score and score_comment of each user, as saved
    grade,       \* the gradebook of the host
    req,         \* the requests being served
    requests, edits

vars == <<block, external, now, given, url, module, grade, req, requests, edits>>

NoModule == [score |-> None, comment |-> NoComment]
NoGrade == [value |-> None, max |-> None]
Grade == [value : Points, max : (0..MaxWeight) \cup {None}]
Module == [score : Points, comment : Comments]

Idle == [pc |-> "idle", id |-> None, post |-> None, block |-> None, tardy |-> FALSE,
         was |-> NoGrade]
Request == [pc : {"idle", "arrived", "verified", "found", "published", "done", "refused"},
            id : Id \cup {None}, post : Post \cup {None},
            block : Setting \cup {None}, tardy : BOOLEAN, was : Grade]

At(w, pc) == req[w].pc = pc
Set(w, r) == req' = [req EXCEPT ![w] = r]
Go(w, pc) == Set(w, [req[w] EXCEPT !.pc = pc])

---------------------------------------------------------------------------
(* Launches, authors, time *)

\* get_lti_1p1_user_id: which identifier a launch sends, and a service looks up
SentKind == IF external THEN "external" ELSE "anonymous"

\* lis_result_sourcedid; its other parts are those of the block
SourcedId(u) == [kind |-> SentKind, user |-> u]

\* generate_launch_request: lis_result_sourcedid is always sent, the url of the
\* outcome service only of a block that has a score.
LaunchRequest(u) == [id |-> SourcedId(u), url |-> block.weight # None]

\* lti_launch_handler
Launch(u) ==
    /\ given' = given \cup {LaunchRequest(u).id}
    /\ url' = (url \/ LaunchRequest(u).url)
    /\ UNCHANGED <<block, external, now, module, grade, req, requests, edits>>

\* An author, the deadline extended or not; and the course's waffle flag
Author(s) ==
    /\ edits < MaxEdits /\ edits' = edits + 1
    /\ s # block /\ block' = s
    /\ UNCHANGED <<external, now, given, url, module, grade, req, requests>>

ToggleFlag ==
    /\ edits < MaxEdits /\ edits' = edits + 1
    /\ external' = ~external
    /\ UNCHANGED <<block, now, given, url, module, grade, req, requests>>

Tick ==
    /\ now < MaxTime /\ now' = now + 1
    /\ UNCHANGED <<block, external, given, url, module, grade, req, requests, edits>>

---------------------------------------------------------------------------
(* A request of the tool; one it sends twice arrives twice *)

\* The block is loaded, with the settings of that moment; tardy is a history field.
Arrive(w, id, p) ==
    /\ At(w, "idle") /\ url /\ id \in given
    /\ requests < MaxRequests /\ requests' = requests + 1
    /\ Set(w, [Idle EXCEPT !.pc = "arrived", !.id = id, !.post = p, !.block = block,
                           !.tardy = now > block.due /\ ~block.late])
    /\ UNCHANGED <<block, external, now, given, url, module, grade, edits>>

\* is_past_due(), of the due date that was loaded
PastDue(w) == now > req[w].block.due

\* verify_oauth_body_signature, with the secret of the block as it is now
Signed(w) == req[w].post.secret = block.secret

\* parse_grade_xml_body: every body needs a score, whatever it asks
ParsesXml(p) == p.fine /\ p.score # None

\* parse_result_json, of a PUT: a body without a score is a deletion
ParsesJson(p) == p.op = "PUT" => p.fine

\* OutcomeService.handle_request, until it looks for the user
VerifyOutcome(w) ==
    /\ At(w, "arrived") /\ req[w].post.op \in {"replaceResult", "readResult"}
    /\ \/ /\ req[w].block.late \/ ~PastDue(w)
          /\ ParsesXml(req[w].post) /\ Signed(w)
          /\ Go(w, "verified")
       \/ /\ \/ ~req[w].block.late /\ PastDue(w)
             \/ ~ParsesXml(req[w].post) \/ ~Signed(w)
          /\ Go(w, "refused")
    /\ UNCHANGED <<block, external, now, given, url, module, grade, requests, edits>>

\* mutant: accept_grades_past_due forgotten
AcceptsAnyTime(w) == TRUE
\* "self.is_past_due" is a method and not called here: always true
AcceptsInTime(w) == req[w].block.late

\* result_service_handler, until it looks for the user
VerifyResult(w) ==
    /\ At(w, "arrived") /\ req[w].post.op \in {"PUT", "GET", "DELETE"}
    /\ \/ AcceptsInTime(w) /\ Signed(w) /\ Go(w, "verified")
       \/ ~(AcceptsInTime(w) /\ Signed(w)) /\ Go(w, "refused")
    /\ UNCHANGED <<block, external, now, given, url, module, grade, requests, edits>>

\* get_lti_1p1_user_from_user_id: identifiers of the other kind find nobody.
\* A GET then answers; the outcome service refuses all but replaceResult, and the
\* result service parses what was put.
FindUser(w) ==
    /\ At(w, "verified")
    /\ Go(w, IF req[w].id.kind # SentKind THEN "refused"
             ELSE IF req[w].post.op = "GET" THEN "done"
             ELSE IF req[w].post.op = "readResult" \/ ~ParsesJson(req[w].post) THEN "refused"
             ELSE "found")
    /\ UNCHANGED <<block, external, now, given, url, module, grade, requests, edits>>

\* max_score, which a result without a score leaves out
MaxScore(p, s) == IF p.op = "DELETE" \/ p.score = None THEN None ELSE s.weight

\* mutant: the weight is applied to a score that has it already
ScaledTwice(p, s) ==
    IF MaxScore(p, s) = None THEN None ELSE p.score * MaxScore(p, s) * MaxScore(p, s)
\* set_user_module_score: of a block without a score, a result clears
Scaled(p, s) == IF MaxScore(p, s) = None THEN None ELSE p.score * MaxScore(p, s)

Published(w) ==
    [value |-> Scaled(req[w].post, req[w].block), max |-> MaxScore(req[w].post, req[w].block)]

\* The row of the user is taken until the handler ends.
Publish(w) ==
    LET u == req[w].id.user IN
    /\ At(w, "found")
    /\ \A v \in Workers : At(v, "published") => req[v].id.user # u
    /\ grade' = [grade EXCEPT ![u] = Published(w)]
    /\ Set(w, [req[w] EXCEPT !.pc = "published", !.was = grade[u]])
    /\ UNCHANGED <<block, external, now, given, url, module, requests, edits>>

\* _result_service_put; clear_user_module_score gives no comment, nor does the
\* outcome service.
CommentOf(p) == IF p.op = "PUT" /\ p.score # None THEN p.comment ELSE NoComment

\* mutant: a result without a comment keeps the comment of the last one
SaveKeepsComment(w) ==
    LET u == req[w].id.user  c == CommentOf(req[w].post) IN
    /\ At(w, "published")
    /\ module' = [module EXCEPT ![u] =
            [score |-> Scaled(req[w].post, req[w].block),
             comment |-> IF c = NoComment THEN @.comment ELSE c]]
    /\ Go(w, "done")
    /\ UNCHANGED <<block, external, now, given, url, grade, requests, edits>>
\* mutant: a cleared grade leaves the module score
SaveKeepsScore(w) ==
    LET u == req[w].id.user  n == Scaled(req[w].post, req[w].block) IN
    /\ At(w, "published")
    /\ module' = [module EXCEPT ![u] =
            [score |-> IF n = None THEN @.score ELSE n, comment |-> CommentOf(req[w].post)]]
    /\ Go(w, "done")
    /\ UNCHANGED <<block, external, now, given, url, grade, requests, edits>>
\* module_score and score_comment, saved when the handler has returned
Save(w) ==
    /\ At(w, "published")
    /\ module' = [module EXCEPT ![req[w].id.user] =
            [score |-> Scaled(req[w].post, req[w].block), comment |-> CommentOf(req[w].post)]]
    /\ Go(w, "done")
    /\ UNCHANGED <<block, external, now, given, url, grade, requests, edits>>

\* The handler dies, or its transaction fails: what it published is undone.  One
\* that dies earlier is as one that refuses.
Die(w) ==
    /\ At(w, "published") /\ Go(w, "refused")
    /\ grade' = [grade EXCEPT ![req[w].id.user] = req[w].was]
    /\ UNCHANGED <<block, external, now, given, url, module, requests, edits>>

Answer(w) ==
    /\ req[w].pc \in {"done", "refused"} /\ Set(w, Idle)
    /\ UNCHANGED <<block, external, now, given, url, module, grade, requests, edits>>

---------------------------------------------------------------------------

Init ==
    /\ block \in Settings /\ external = FALSE /\ now = 0
    /\ given = {} /\ url = FALSE
    /\ module = [u \in Users |-> NoModule] /\ grade = [u \in Users |-> NoGrade]
    /\ req = [w \in Workers |-> Idle]
    /\ requests = 0 /\ edits = 0

Next ==
    \/ \E u \in Users : Launch(u)
    \/ \E s \in Settings : Author(s)
    \/ ToggleFlag \/ Tick
    \/ \E w \in Workers :
        \/ \E id \in Id, p \in Posts : Arrive(w, id, p)
        \/ VerifyOutcome(w) \/ VerifyResult(w) \/ FindUser(w)
        \/ Publish(w) \/ Save(w) \/ Die(w) \/ Answer(w)

Spec == Init /\ [][Next]_vars

---------------------------------------------------------------------------
(* Properties *)

\* The fields and rows named in the header keep their shape; a module score is at
\* most the whole score times the greatest weight.
TypeOK ==
    /\ block \in Settings /\ external \in BOOLEAN /\ now \in 0..MaxTime
    /\ given \subseteq Id /\ url \in BOOLEAN
    /\ module \in [Users -> Module] /\ grade \in [Users -> Grade]
    /\ req \in [Workers -> Request]
    /\ requests \in 0..MaxRequests /\ edits \in 0..MaxEdits

\* The row of a user whose handler has published and not yet saved
Held(u) == {w \in Workers : At(w, "published") /\ req[w].id.user = u}

\* module_score is "duplicate of the published score in django DB"
\* (lti_xblock.py:504): whenever no handler is between its publication and its
\* save, whatever handlers have died and whatever settings have changed.
GradeIsDuplicated ==
    \A u \in Users : Held(u) = {} => grade[u].value = module[u].score

\* A request that arrives after the due date of a block that takes no late grades
\* (accept_grades_past_due) gets no further than the check of its service, even
\* when the date is extended while it is served.
LateIsRefused ==
    \A w \in Workers : req[w].tardy => req[w].pc \in {"arrived", "refused"}

\* What the gradebook shows for a user once the handlers under way are undone
Committed(u) ==
    IF Held(u) = {} THEN grade[u] ELSE req[CHOOSE w \in Held(u) : TRUE].was

CallOf(w) ==
    IF At(w, "idle") \/ req[w].post.op = "GET"
    THEN [phase |-> "idle", learner |-> None,
          result |-> [module |-> NoModule, grade |-> NoGrade]]
    ELSE [phase |-> CASE At(w, "done") -> "entered"
                      [] At(w, "refused") -> "refused"
                      [] OTHER -> "open",
          learner |-> req[w].id.user,
          result |-> [module |-> [score |-> Scaled(req[w].post, req[w].block),
                                  comment |-> CommentOf(req[w].post)],
                      grade |-> Published(w)]]

Ledger == INSTANCE LtiGradebook WITH
    Calls <- Workers, Learners <- Users,
    Results <- [module : Module, grade : Grade],
    NoResult <- [module |-> NoModule, grade |-> NoGrade],
    book <- [u \in Users |-> [module |-> module[u], grade |-> Committed(u)]],
    call <- [w \in Workers |-> CallOf(w)]

\* Both services keep the promise of LtiGradebook: score, comment and grade of one
\* result are entered together, for the learner whose launch gave the identifier
\* out, or not at all; and the answer says which.
KeepsGradebook == Ledger!GSpec
=============================================================================
