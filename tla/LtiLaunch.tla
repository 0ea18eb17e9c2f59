----------------------------- MODULE LtiLaunch -----------------------------
(***************************************************************************)
(* LTI 1.3 launches of one block.  A launch has two legs: a view caches    *)
(* the launch data and hands the browser a URL with the cache key; the     *)
(* tool comes back with the key to the launch gate, which reads the data   *)
(* and signs a message.  Deep linking adds a page of content items between *)
(* the legs, and the response that replaces the items; proctoring adds the *)
(* session data, the tool's StartAssessment and the end of an assessment.  *)
(*                                                                         *)
(* Every cache read or write, every query and every transaction is a step; *)
(* any number of them fall between two steps of one launch.  An entry may  *)
(* expire between any two steps.  Within one request a second read of a    *)
(* cache key sees what the first one saw (the request tier of              *)
(* TieredCache), so the gate's data are read once.  The tool is taken to   *)
(* return what it was given.                                               *)
(***************************************************************************)
EXTENDS Integers, FiniteSets

CONSTANTS
    Users,
    Instructors,   \* users whose launches carry the role instructor or staff
    GlobalStaff,   \* users whose launches carry the role global_staff
    Flows,         \* the launches of a behaviour
    Selections,    \* content items a tool may return: sets of [n, link]
    MaxBatches, MaxAttempts, MaxSessions,    \* bounds
    None

Batches == 0..MaxBatches
Numbers == UNION {{c.n : c \in s} : s \in Selections}
\* A content item's id: the deep linking response that saved it (0 is one
\* before the behaviour) and its number there.
ItemId == [batch : Batches, n : Numbers]
Item == [id : ItemId, link : BOOLEAN]

Message == {"LtiResourceLinkRequest", "LtiDeepLinkingRequest",
            "LtiStartProctoring", "LtiEndAssessment"}

NoAttempt == 0
LaunchData == [user : Users, type : Message, item : ItemId \cup {None},
               attempt : 0..MaxAttempts]
CacheKey == [user : Users, item : ItemId \cup {None}]

ASSUME LaunchAssumption ==
    /\ Instructors \subseteq Users /\ GlobalStaff \subseteq Users \ Instructors
    /\ MaxBatches \in Nat /\ MaxAttempts \in Nat /\ MaxSessions \in Nat
    /\ \A s \in Selections : \A c \in s : c.link \in BOOLEAN
    /\ None \notin ItemId /\ None \notin LaunchData /\ None \notin CacheKey

VARIABLES
    proctored,   \* the configuration: proctoring, or else deep linking
    cache,       \* launch data under their keys, None when absent or expired
    session,     \* session data of each user's proctoring launches, 0 when absent
    minted,      \* session data ever made for each user
    endReturn,   \* users with a cached request for an end message
    items,       \* the content items saved for the configuration
    batches,     \* deep linking responses saved
    attempt,     \* the host's current attempt of each user
    flow,        \* the launches
    asked,       \* history: users whose tool asked for an end message
    clash        \* history: two deep linking responses have overlapped

state == <<cache, session, minted, endReturn, items, batches, attempt, asked, clash>>
vars == <<proctored, state, flow>>

Steps == {"idle", "studio", "page", "render", "gate", "branch", "session", "launched",
          "answer", "started", "replace", "ended"}
Idle == [pc |-> "idle", wants |-> None, hint |-> None, data |-> None,
         session |-> 0, expects |-> NoAttempt, sees |-> {},
         alone |-> TRUE, late |-> FALSE]
Flow == [pc : Steps,
         wants : LaunchData \cup {None},   \* history: what was asked for
         hint : CacheKey \cup {None},      \* lti_message_hint or launch_data_key
         data : LaunchData \cup {None},    \* what this request read; once launched, what was sent
         session : 0..MaxSessions,         \* session data read, then sent
         expects : 0..MaxAttempts,         \* attempt an answer is checked against
         sees : SUBSET Item,               \* items this request read
         alone : BOOLEAN,    \* history: no other launch of the user was prepared since
         late : BOOLEAN]     \* history: the answer came in a later attempt

At(f, pc) == flow[f].pc = pc
Set(f, r) == flow' = [flow EXCEPT ![f] = r]
Fail(f) == Set(f, [flow[f] EXCEPT !.pc = "ended"])

---------------------------------------------------------------------------
(* The cache of launch data                                                *)

Data(u, type, item, n) == [user |-> u, type |-> type, item |-> item, attempt |-> n]

\* mutants: the key without the user, and without the content item
KeyWithoutUser(d) == [user |-> CHOOSE u \in Users : TRUE, item |-> d.item]
KeyWithoutItem(d) == [user |-> d.user, item |-> None]
LaunchDataKey(d) == [user |-> d.user, item |-> d.item]

\* mutant: an entry that is there is kept
CachedOnce(datas) ==
    [k \in CacheKey |->
        LET new == {d \in datas : LaunchDataKey(d) = k} IN
        IF new = {} \/ cache[k] # None THEN cache[k] ELSE CHOOSE d \in new : TRUE]
\* The cache once these data are in it, each replacing what its key held.
Cached(datas) ==
    [k \in CacheKey |->
        LET new == {d \in datas : LaunchDataKey(d) = k} IN
        IF new = {} THEN cache[k] ELSE CHOOSE d \in new : TRUE]

\* The launches of user u that are not at the gate yet are not alone any more,
\* but for f, which becomes r.
Prepare(f, u, r) ==
    flow' = [g \in Flows |->
        IF g = f THEN r
        ELSE IF /\ flow[g].wants # None /\ flow[g].wants.user = u
                /\ flow[g].pc \in {"page", "render", "gate"}
             THEN [flow[g] EXCEPT !.alone = FALSE]
             ELSE flow[g]]

\* mutant: the hint is the launch data, not their key
HintIsData(d, pc) == [Idle EXCEPT !.pc = pc, !.wants = d, !.hint = d]
Offer(d, pc) == [Idle EXCEPT !.pc = pc, !.wants = d, !.hint = LaunchDataKey(d)]

---------------------------------------------------------------------------
(* First leg                                                               *)

\* What a view of the block offers: the tool, the item if a launch is the only
\* one, or else the page of the items.
OnlyLaunch(shown) == \E i \in shown : shown = {i} /\ i.link
Place(shown) == IF shown = {} \/ OnlyLaunch(shown) THEN "gate" ELSE "page"
ContentOffer(u) ==
    Offer(Data(u, "LtiResourceLinkRequest",
               IF OnlyLaunch(items) THEN (CHOOSE i \in items : TRUE).id ELSE None, NoAttempt),
          Place(items))

DeepLinking(u) == Data(u, "LtiDeepLinkingRequest", None, NoAttempt)

StudentView(f, u) ==
    LET r == ContentOffer(u) IN
    /\ At(f, "idle")
    /\ cache' = Cached({r.wants})
    /\ Prepare(f, u, r)
    /\ UNCHANGED <<proctored, session, minted, endReturn, items, batches, attempt, asked, clash>>

\* The author's view offers the tool's configuration flow.
AuthorView(f, u) ==
    /\ At(f, "idle") /\ ~proctored
    /\ cache' = Cached({DeepLinking(u)})
    /\ Prepare(f, u, Offer(DeepLinking(u), "gate"))
    /\ UNCHANGED <<proctored, session, minted, endReturn, items, batches, attempt, asked, clash>>

\* The student's view in Studio shows global staff its own launch, prepared first, and
\* above it the author's, prepared then; the launch here is the student's.
StudioView(f, u) ==
    LET r == ContentOffer(u) IN
    /\ At(f, "idle") /\ ~proctored /\ u \in GlobalStaff
    /\ cache' = Cached({r.wants})
    /\ Prepare(f, u, [r EXCEPT !.pc = "studio", !.sees = items, !.alone = FALSE])
    /\ UNCHANGED <<proctored, session, minted, endReturn, items, batches, attempt, asked, clash>>

StudioAuthor(f) ==
    LET u == flow[f].wants.user IN
    /\ At(f, "studio")
    /\ cache' = Cached({DeepLinking(u)})
    /\ Prepare(f, u, [flow[f] EXCEPT !.pc = Place(flow[f].sees), !.sees = {}])
    /\ UNCHANGED <<proctored, session, minted, endReturn, items, batches, attempt, asked, clash>>

PageRead(f) ==
    LET d == cache[flow[f].hint] IN
    /\ At(f, "page")
    /\ IF d = None \/ items = {} THEN Fail(f)
       ELSE Set(f, [flow[f] EXCEPT !.pc = "render", !.data = d])
    /\ UNCHANGED <<proctored, state>>

\* The page prepares a launch of every item; the student takes one of them.
PageRender(f) ==
    LET d == flow[f].data
        launches == {i \in items : i.link} IN
    /\ At(f, "render")
    /\ cache' = Cached({[d EXCEPT !.item = i.id] : i \in launches})
    /\ \/ \E i \in launches :
            Prepare(f, d.user, [flow[f] EXCEPT !.pc = "gate", !.wants.item = i.id,
                                    !.hint = LaunchDataKey([d EXCEPT !.item = i.id])])
       \/ launches = {} /\ Fail(f)
    /\ UNCHANGED <<proctored, session, minted, endReturn, items, batches, attempt, asked, clash>>

\* The host (an exams service) begins a new attempt, or the current one again.
StartProctoring(f, u, n) ==
    LET d == Data(u, "LtiStartProctoring", None, n) IN
    /\ At(f, "idle") /\ proctored
    /\ n \in {attempt[u], attempt[u] + 1} /\ n # NoAttempt
    /\ attempt' = [attempt EXCEPT ![u] = n]
    /\ cache' = Cached({d})
    /\ Prepare(f, u, Offer(d, "gate"))
    /\ UNCHANGED <<proctored, session, minted, endReturn, items, batches, asked, clash>>

EndReturn(u) == u \in endReturn

EndAssessment(f, u) ==
    LET d == Data(u, "LtiEndAssessment", None, attempt[u]) IN
    /\ At(f, "idle") /\ proctored
    /\ attempt[u] # NoAttempt /\ EndReturn(u)
    /\ cache' = Cached({d})
    /\ Prepare(f, u, Offer(d, "gate"))
    /\ UNCHANGED <<proctored, session, minted, endReturn, items, batches, attempt, asked, clash>>

---------------------------------------------------------------------------
(* Second leg: the launch gate                                             *)

GateRead(f) ==
    LET d == cache[flow[f].hint] IN
    /\ At(f, "gate")
    /\ IF d = None THEN Fail(f)
       ELSE Set(f, [flow[f] EXCEPT !.pc = "branch", !.data = d])
    /\ UNCHANGED <<proctored, state>>

Launched(f, d) == [flow[f] EXCEPT !.pc = "launched", !.data = d]

\* A deep linking request is for instructors and goes to no item; an item has
\* to be there still; a start of proctoring needs session data.
GateBranch(f) ==
    LET d == flow[f].data IN
    /\ At(f, "branch")
    /\ \/ /\ d.type = "LtiDeepLinkingRequest" /\ d.user \in Instructors
          /\ Set(f, Launched(f, [d EXCEPT !.item = None]))
       \/ /\ d.type = "LtiResourceLinkRequest" /\ d.item \in {None} \cup {i.id : i \in items}
          /\ Set(f, Launched(f, d))
       \/ /\ d.type = "LtiStartProctoring"
          /\ Set(f, [flow[f] EXCEPT !.pc = "session", !.session = session[d.user]])
       \/ /\ d.type = "LtiEndAssessment"
          /\ Set(f, Launched(f, d))
       \/ /\ \/ d.type = "LtiDeepLinkingRequest" /\ d.user \notin Instructors
             \/ d.type = "LtiResourceLinkRequest" /\ d.item \notin {None} \cup {i.id : i \in items}
          /\ Fail(f)
    /\ UNCHANGED <<proctored, state>>

\* Session data that were there are used again, whoever has replaced them since.
GateSession(f) ==
    LET d == flow[f].data
        fresh == minted[d.user] + 1 IN
    /\ At(f, "session")
    /\ \/ /\ flow[f].session # 0
          /\ Set(f, Launched(f, d))
          /\ UNCHANGED <<session, minted>>
       \/ /\ flow[f].session = 0 /\ fresh <= MaxSessions
          /\ minted' = [minted EXCEPT ![d.user] = fresh]
          /\ session' = [session EXCEPT ![d.user] = fresh]
          /\ Set(f, [Launched(f, d) EXCEPT !.session = fresh])
    /\ UNCHANGED <<proctored, cache, endReturn, items, batches, attempt, asked, clash>>

---------------------------------------------------------------------------
(* The tool's answers                                                      *)

\* A deep linking response is one transaction: its delete sees the items
\* committed when it runs, and nobody sees it before it commits.
ReplaceRead(f) ==
    /\ At(f, "launched") /\ flow[f].data.type = "LtiDeepLinkingRequest"
    /\ Set(f, [flow[f] EXCEPT !.pc = "replace", !.sees = items])
    /\ clash' = (clash \/ \E g \in Flows : At(g, "replace"))
    /\ UNCHANGED <<proctored, cache, session, minted, endReturn, items, batches, attempt, asked>>

\* mutant: the older selection is not cleared
ReplaceAdds(f, s) ==
    /\ At(f, "replace") /\ batches < MaxBatches
    /\ batches' = batches + 1
    /\ items' = items \cup {[id |-> [batch |-> batches', n |-> c.n], link |-> c.link] : c \in s}
    /\ Set(f, [flow[f] EXCEPT !.pc = "ended", !.sees = {}])
    /\ UNCHANGED <<proctored, cache, session, minted, endReturn, attempt, asked, clash>>
ReplaceSave(f, s) ==
    /\ At(f, "replace") /\ batches < MaxBatches
    /\ batches' = batches + 1
    /\ items' = (items \ flow[f].sees)
                    \cup {[id |-> [batch |-> batches', n |-> c.n], link |-> c.link] : c \in s}
    /\ Set(f, [flow[f] EXCEPT !.pc = "ended", !.sees = {}])
    /\ UNCHANGED <<proctored, cache, session, minted, endReturn, attempt, asked, clash>>

\* An item that is not valid undoes the deletion.
ReplaceInvalid(f) ==
    /\ At(f, "replace")
    /\ Set(f, [flow[f] EXCEPT !.pc = "ended", !.sees = {}])
    /\ UNCHANGED <<proctored, state>>

\* The tool's StartAssessment comes: launch data with proctoring data have to be
\* there, and give the attempt it is checked against.
AnswerRead(f) ==
    LET sent == flow[f].data
        d == cache[[user |-> sent.user, item |-> None]] IN
    /\ At(f, "launched") /\ sent.type = "LtiStartProctoring"
    /\ IF d = None THEN Fail(f)
       ELSE IF d.attempt = NoAttempt THEN Fail(f)
       ELSE Set(f, [flow[f] EXCEPT !.pc = "answer", !.expects = d.attempt,
                        !.late = sent.attempt # attempt[sent.user]])
    /\ UNCHANGED <<proctored, state>>

\* mutant: the attempt number is not checked
AnswerOfAnyAttempt(f) == session[flow[f].data.user] \in {0, flow[f].session}
\* An expected value that is missing is not compared.
AnswerIsValid(f) ==
    /\ session[flow[f].data.user] \in {0, flow[f].session}
    /\ flow[f].expects = flow[f].data.attempt

AnswerCheck(f, asks) ==
    LET u == flow[f].data.user
        end == IF asks THEN {u} ELSE {} IN
    /\ At(f, "answer")
    /\ \/ /\ AnswerIsValid(f)
          /\ endReturn' = endReturn \cup end
          /\ asked' = asked \cup end
          /\ Set(f, [flow[f] EXCEPT !.pc = "started"])
       \/ /\ ~AnswerIsValid(f)
          /\ Fail(f)
          /\ UNCHANGED <<endReturn, asked>>
    /\ UNCHANGED <<proctored, cache, session, minted, items, batches, attempt, clash>>

---------------------------------------------------------------------------

\* An entry that nothing will read before it is written again is left alone:
\* its expiry makes no difference.
OfUse(k) == k.item = None \/ \E f \in Flows : flow[f].pc = "gate" /\ flow[f].hint = k

Expire ==
    /\ \/ /\ \E k \in CacheKey :
                cache[k] # None /\ OfUse(k) /\ cache' = [cache EXCEPT ![k] = None]
          /\ UNCHANGED <<session, endReturn>>
       \/ /\ \E u \in Users : session[u] # 0 /\ session' = [session EXCEPT ![u] = 0]
          /\ UNCHANGED <<cache, endReturn>>
       \/ /\ \E u \in endReturn : endReturn' = endReturn \ {u}
          /\ UNCHANGED <<cache, session>>
    /\ UNCHANGED <<proctored, minted, items, batches, attempt, asked, clash, flow>>

Init ==
    /\ proctored \in BOOLEAN
    /\ cache = [k \in CacheKey |-> None]
    /\ session = [u \in Users |-> 0]
    /\ minted = [u \in Users |-> 0]
    /\ endReturn = {}
    /\ items \in IF proctored THEN {{}}
                 ELSE {{[id |-> [batch |-> 0, n |-> c.n], link |-> c.link] : c \in s} :
                            s \in Selections}
    /\ batches = 0
    /\ attempt = [u \in Users |-> NoAttempt]
    /\ flow = [f \in Flows |-> Idle]
    /\ asked = {}
    /\ clash = FALSE

Next ==
    \/ \E f \in Flows, u \in Users :
        \/ StudentView(f, u) \/ AuthorView(f, u) \/ StudioView(f, u)
        \/ \E n \in 1..MaxAttempts : StartProctoring(f, u, n)
        \/ EndAssessment(f, u)
    \/ \E f \in Flows :
        \/ StudioAuthor(f) \/ PageRead(f) \/ PageRender(f)
        \/ GateRead(f) \/ GateBranch(f) \/ GateSession(f)
        \/ ReplaceRead(f) \/ ReplaceInvalid(f) \/ \E s \in Selections : ReplaceSave(f, s)
        \/ AnswerRead(f) \/ \E asks \in BOOLEAN : AnswerCheck(f, asks)
    \/ Expire

Spec == Init /\ [][Next]_vars

---------------------------------------------------------------------------
(* Properties                                                              *)

\* Every variable keeps its shape.
TypeOK ==
    /\ proctored \in BOOLEAN
    /\ cache \in [CacheKey -> LaunchData \cup {None}]
    /\ session \in [Users -> 0..MaxSessions]
    /\ minted \in [Users -> 0..MaxSessions]
    /\ endReturn \subseteq Users
    /\ items \subseteq Item
    /\ batches \in Batches
    /\ attempt \in [Users -> 0..MaxAttempts]
    /\ flow \in [Flows -> Flow]
    /\ asked \subseteq Users
    /\ clash \in BOOLEAN

Sent(f) == flow[f].pc \in {"launched", "answer", "started"}

\* A launch begun by one user never carries another's identity, whatever is
\* cached, expires or is prepared between its two legs: the key
\* (get_lti_1p3_launch_data_cache_key) names the user.
LaunchesStayWithUser == \A f \in Flows : Sent(f) => flow[f].data.user = flow[f].wants.user

\* A launch as a resource link shows the item the student took, or the tool
\* itself when there was none to take, although the page prepares the launches of
\* all items at once and from one cached entry.
ItemLaunchShowsItem ==
    \A f \in Flows :
        Sent(f) /\ flow[f].data.type = "LtiResourceLinkRequest"
            => flow[f].data.item = flow[f].wants.item

\* A launch whose user prepared no other one of the block before the tool came
\* back to the gate is sent as it was asked for, with its message type, item and
\* attempt, or fails: nothing left in the cache by earlier launches shows.
LaunchAloneIsAsAsked ==
    \A f \in Flows : Sent(f) /\ flow[f].alone => flow[f].data = flow[f].wants

\* The answer to a launch of an earlier attempt, coming when a later attempt has
\* been prepared, starts nothing, although both share their session data.
LateAnswerStartsNothing == \A f \in Flows : At(f, "started") => ~flow[f].late

\* An end message goes to the tool of a user only if that user's tool asked for
\* one (start_proctoring_assessment_endpoint, get_end_assessment_return).
EndWasAskedFor ==
    \A f \in Flows :
        Sent(f) /\ flow[f].data.type = "LtiEndAssessment" => flow[f].data.user \in asked

\* As long as no two deep linking responses have overlapped, the items shown
\* come from a single response: none of an earlier selection stays, also when
\* responses fail half way.
SelectionIsOneResponse ==
    ~clash => \A i, j \in items : i.id.batch = j.id.batch
=============================================================================
