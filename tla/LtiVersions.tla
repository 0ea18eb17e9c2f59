----------------------------- MODULE LtiVersions -----------------------------
(***************************************************************************)
(* Which LTI version a launch of a block uses.  The version is kept in     *)
(* three places: the block's lti_version field, the version key of a       *)
(* reusable external configuration, which a plugin serves through a filter *)
(* that may be down, and the version column of the block's                 *)
(* LtiConfiguration row, which every view writes from the other two.  A    *)
(* view, the 1.1 launch handler and the 1.3 launch gate each read them     *)
(* more than once, while authors and plugins edit them.                    *)
(*                                                                         *)
(* A flow is a user's view of the block and the launch from it: two        *)
(* requests, of several steps each.                                        *)
(***************************************************************************)
EXTENDS Integers, FiniteSets

CONSTANTS
    Flows,
    Blocks,        \* the settings an author may give the block
    Ids,           \* the external configurations
    MaxEdits,      \* bound on edits and outages
    None

Versions == {"lti_1p1", "lti_1p3"}
Types == {"new", "database", "external"}

ASSUME VersionsAssumption ==
    /\ MaxEdits \in Nat
    /\ Blocks \subseteq [type : Types, version : Versions, ext : Ids]
    /\ None \notin Ids /\ None \notin Versions /\ None \notin Blocks
    /\ None \notin {"view", "offer", "info", "handler", "gate"}
    /\ None \notin [store : Types, version : Versions, ext : Ids \cup {None}]

VARIABLES
    block,       \* the block's fields, as published
    registry,    \* external configuration -> its version, None without the key
    up,          \* whether the filter of the external configurations answers
    config,      \* the LtiConfiguration row, None before the first view
    flow,        \* what each flow is doing
    edits,
    calm,        \* history: flows that saw no edit, and no request older than one
    stale        \* history: requests that began before the last edit

settings == <<block, registry, up>>
vars == <<block, registry, up, config, flow, edits, calm, stale>>

Row == [store : Types, version : Versions, ext : Ids \cup {None}]
Blank == [store |-> "new", version |-> "lti_1p1", ext |-> None]

Idle == [pc |-> "idle", why |-> None, block |-> None, wants |-> None,
         row |-> None, consumer |-> None, offers |-> None, reply |-> FALSE]
Over == {"sent", "crashed", "refused"}
Between == Over \cup {"idle", "offered"}       \* no request is being served
Flow == [pc : Between \cup {"look", "load", "save", "fetch", "make", "url", "offer", "url13",
                             "info"},
         why : {"view", "offer", "info", "handler", "gate", None},
         block : Blocks \cup {None}, wants : Versions \cup {None}, row : Row \cup {None},
         consumer : Versions \cup {None}, offers : Versions \cup {None},
         reply : BOOLEAN]      \* the launch parameters are made, the page around them is not

---------------------------------------------------------------------------
(* The three readings of the version *)

Fails(type) == type = "external" /\ ~up

\* mutant: an external configuration without a version leaves the column empty
NoFallback(b) == IF b.type = "external" THEN registry[b.ext] ELSE b.version
\* What a request writes in the row: the external version, or else the block's
Wanted(b) ==
    IF b.type = "external" /\ registry[b.ext] # None THEN registry[b.ext] ELSE b.version

\* mutant: the block's own field, whatever the type of configuration
OwnVersion(b) == b.version
\* get_resolved_lti_version: the block's own field when the filter is down
Resolved(b) == IF Fails(b.type) THEN b.version ELSE Wanted(b)

\* get_effective_version: of a stored row
Effective(r) ==
    IF r.store = "external" /\ r.ext \in Ids /\ registry[r.ext] # None
    THEN registry[r.ext] ELSE r.version

---------------------------------------------------------------------------

At(f, pc) == flow[f].pc = pc
Go(f, r) ==
    /\ flow' = [flow EXCEPT ![f] = r]
    /\ stale' = IF r.pc \in Between THEN stale \ {f} ELSE stale
    /\ UNCHANGED <<settings, edits>>
Crash(f) == Go(f, [Idle EXCEPT !.pc = "crashed"]) /\ UNCHANGED <<config, calm>>
OnTo(f, pc) == Go(f, [flow[f] EXCEPT !.pc = pc]) /\ UNCHANGED <<config, calm>>

\* A flow begins: quiet so far if every older request has been answered
Start(f, r) ==
    /\ At(f, "idle")
    /\ Go(f, r)
    /\ calm' = IF stale = {} THEN calm \cup {f} ELSE calm \ {f}
    /\ UNCHANGED config

\* _get_context_for_template: only the types that store the configuration need a
\* consumer first
Viewing(b) == [Idle EXCEPT !.why = "view", !.block = b,
                           !.pc = IF b.type = "new" THEN "offer" ELSE "look"]
\* student_view
View(f) == Start(f, Viewing(block))
\* author_view: the launch of a 1.1 block, the tool's registration data of a 1.3 one
AuthorView(f) ==
    Start(f, IF Resolved(block) = "lti_1p1" THEN Viewing(block)
             ELSE [Idle EXCEPT !.why = "info", !.block = block, !.pc = "look"])

\* _get_lti_config_for_block, whose lookup nothing guards
LookUp(f) ==
    /\ At(f, "look")
    /\ IF Fails(flow[f].block.type) THEN Crash(f)
       ELSE /\ Go(f, [flow[f] EXCEPT !.pc = "load", !.wants = Wanted(flow[f].block)])
            /\ UNCHANGED <<config, calm>>

\* get_or_create
Load(f) ==
    /\ At(f, "load")
    /\ config' = IF config = None THEN Blank ELSE config
    /\ Go(f, [flow[f] EXCEPT !.pc = "save", !.row = config'])
    /\ UNCHANGED calm

Updates(f) == [store |-> flow[f].block.type, version |-> flow[f].wants, ext |-> flow[f].block.ext]

\* mutant: the version of an existing row is kept
KeepsVersion(f) ==
    LET new == [Updates(f) EXCEPT !.version = config.version] IN
    /\ At(f, "save")
    /\ config' = IF flow[f].row # new THEN new ELSE config
    /\ Go(f, [flow[f] EXCEPT !.pc = "fetch", !.row = None, !.wants = None])
    /\ UNCHANGED calm
\* The row is written only when it was not yet so when it was loaded
Save(f) ==
    /\ At(f, "save")
    /\ config' = IF flow[f].row # Updates(f) THEN Updates(f) ELSE config
    /\ Go(f, [flow[f] EXCEPT !.pc = "fetch", !.row = None, !.wants = None])
    /\ UNCHANGED calm

\* The row again, by its config_id; the gate refuses one that is not of 1.3
Fetch(f) ==
    /\ At(f, "fetch")
    /\ IF flow[f].why = "gate" /\ config.version # "lti_1p3"
       THEN Go(f, [Idle EXCEPT !.pc = "refused"])
       ELSE Go(f, [flow[f] EXCEPT !.pc = "make", !.row = config])
    /\ UNCHANGED <<config, calm>>

Suits(why, version) == CASE why = "handler" -> version = "lti_1p1"
                         [] why = "view" -> TRUE
                         [] OTHER -> version = "lti_1p3"
After(why) == CASE why = "view" -> "url" [] why = "offer" -> "url13"
                [] why = "info" -> "info" [] OTHER -> "sent"

\* The 1.1 handler, its launch made, puts the context of the block's page together
\* once more before it answers
Reply(f) ==
    [Viewing(flow[f].block) EXCEPT !.offers = flow[f].offers, !.reply = TRUE]

\* The consumer of the row's version, and what is asked of it at once: a consumer
\* of the other version has no such method
Make(f) ==
    LET r == flow[f].row  version == Effective(r)  why == flow[f].why IN
    /\ At(f, "make")
    /\ IF Fails(r.store) \/ ~Suits(why, version) THEN Crash(f)
       ELSE /\ Go(f, IF why = "handler"
                     THEN Reply(f)
                     ELSE [flow[f] EXCEPT !.pc = After(why),
                             !.row = IF why = "info" THEN @ ELSE None,
                             !.consumer = IF why = "view" THEN version ELSE @])
            /\ UNCHANGED <<config, calm>>

\* get_lti_1p3_launch_info asks the filter once more for the data it shows
Info(f) ==
    /\ At(f, "info")
    /\ IF Fails(flow[f].row.store) THEN Crash(f)
       ELSE Go(f, Idle) /\ UNCHANGED <<config, calm>>

\* _get_lti_launch_url: the attribute of a 1.1 consumer
Url(f) ==
    /\ At(f, "url")
    /\ IF Resolved(flow[f].block) = "lti_1p1" /\ flow[f].consumer # "lti_1p1"
       THEN Crash(f) ELSE OnTo(f, "offer")

\* _get_lti_block_launch_handler: the page launches through the 1.1 handler, or
\* starts the login of 1.3, for which the row is written and read once more.  In a
\* reply it changes nothing of the launch already made.
Offer(f) ==
    LET version == Resolved(flow[f].block)
        r == [flow[f] EXCEPT !.offers = IF flow[f].reply THEN @ ELSE version] IN
    /\ At(f, "offer")
    /\ Go(f, IF version = "lti_1p1" THEN [r EXCEPT !.pc = "url13"]
             ELSE [r EXCEPT !.why = "offer", !.pc = "look"])
    /\ UNCHANGED <<config, calm>>

\* _get_lti_1p3_launch_url: the attribute of a 1.3 consumer; then the page is sent,
\* or the launch
Url13(f) ==
    /\ At(f, "url13")
    /\ IF flow[f].consumer = "lti_1p1" /\ Resolved(flow[f].block) = "lti_1p3"
       THEN Crash(f)
       ELSE /\ Go(f, [Idle EXCEPT !.pc = IF flow[f].reply THEN "sent" ELSE "offered",
                                  !.offers = flow[f].offers])
            /\ UNCHANGED <<config, calm>>

\* The user launches: lti_launch_handler loads the block anew; the gate goes by
\* the config_id kept with the launch data
Click(f) ==
    /\ At(f, "offered")
    /\ Go(f, IF flow[f].offers = "lti_1p1"
             THEN [flow[f] EXCEPT !.why = "handler", !.block = block, !.pc = "look"]
             ELSE [flow[f] EXCEPT !.why = "gate", !.pc = "fetch"])
    /\ UNCHANGED <<config, calm>>

\* The user leaves the page, launched or not
Leave(f) ==
    /\ flow[f].pc \in Over \cup {"offered"}
    /\ Go(f, Idle)
    /\ calm' = calm \ {f} /\ UNCHANGED config

---------------------------------------------------------------------------

Edit ==
    /\ edits < MaxEdits /\ edits' = edits + 1
    /\ calm' = {} /\ stale' = {f \in Flows : flow[f].pc \notin Between}
    /\ UNCHANGED <<config, flow>>
EditBlock(b) == Edit /\ block' = b /\ UNCHANGED <<registry, up>>
EditExternal(id, v) ==
    Edit /\ registry' = [registry EXCEPT ![id] = v] /\ UNCHANGED <<block, up>>
FilterChanges == Edit /\ up' = ~up /\ UNCHANGED <<block, registry>>

Init ==
    /\ block \in Blocks /\ registry \in [Ids -> Versions \cup {None}] /\ up = TRUE
    /\ config = None /\ flow = [f \in Flows |-> Idle]
    /\ edits = 0 /\ calm = {} /\ stale = {}

\* What the server does of a request once it is begun
Proceed(f) ==
    \/ LookUp(f) \/ Load(f) \/ Save(f) \/ Fetch(f) \/ Make(f)
    \/ Info(f) \/ Url(f) \/ Offer(f) \/ Url13(f)

Next ==
    \/ \E f \in Flows : View(f) \/ AuthorView(f) \/ Proceed(f) \/ Click(f) \/ Leave(f)
    \/ \E b \in Blocks : EditBlock(b)
    \/ \E id \in Ids, v \in Versions \cup {None} : EditExternal(id, v)
    \/ FilterChanges

Spec == Init /\ [][Next]_vars

\* A request is served to its end and a page with an answer is left some day; no
\* user need launch, and nobody need edit.
Fairness == \A f \in Flows : WF_vars(Proceed(f)) /\ WF_vars(~At(f, "offered") /\ Leave(f))
FairSpec == Spec /\ Fairness

---------------------------------------------------------------------------
(* Properties *)

\* Settings, row and requests have the values the columns and the fields allow:
\* the row's version is never empty.
TypeOK ==
    /\ block \in Blocks /\ registry \in [Ids -> Versions \cup {None}] /\ up \in BOOLEAN
    /\ config \in Row \cup {None} /\ flow \in [Flows -> Flow]
    /\ edits \in 0..MaxEdits /\ calm \subseteq Flows /\ stale \subseteq Flows

\* A launch during which nobody edits, begun when every request older than the
\* last edit has been answered, is sent in the version the block resolves to,
\* whatever the row held and whoever else views the block: it neither asks the
\* other version's consumer for an attribute (lti_xblock.py:1728, 1853) nor is
\* turned away at the gate (views.py:321).  Only the filter can fail it.
QuietLaunchArrives ==
    \A f \in calm :
        /\ flow[f].pc = "sent" => flow[f].offers = Resolved(block)
        /\ flow[f].pc # "refused"
        /\ flow[f].pc = "crashed" => Fails(block.type)

\* Requests that began before an edit may write the old version back over the
\* new one, but not for ever: once the edits end, launches stop failing, unless
\* the block's external configurations cannot be read.
FailuresEnd ==
    <>[](\A f \in Flows : flow[f].pc \in {"crashed", "refused"} => Fails(block.type))
=============================================================================
