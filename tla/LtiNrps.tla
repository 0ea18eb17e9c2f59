------------------------------- MODULE LtiNrps -------------------------------
(***************************************************************************)
(* Names and Role Provisioning: a tool reads the members of a course page  *)
(* by page, following the links of the answers, while people join and      *)
(* leave, accounts are deleted, and the course's PII flag changes.         *)
(*                                                                         *)
(* Nothing is kept between two pages: every request fetches the members    *)
(* anew, sorts them by id and cuts its page out of them.  Users are their  *)
(* ids.  The flag is a ConfigurationModel: its latest row counts, a page   *)
(* reads it through a cache with a timeout (current()), saving a row drops *)
(* the cache's entry.  A view of a block that asks for personal data may   *)
(* enable it (lti_access_to_learners_editable), and reads the row.         *)
(***************************************************************************)
EXTENDS Integers, FiniteSets

CONSTANTS
    Users,
    Limits,         \* values of the limit parameter; None: absent or not a number
    MaxMembers,     \* members above which the LMS gives none (OverEnrollmentLimit)
    NamesDisallowed,    \* LTI_NRPS_DISALLOW_PII
    Views,          \* views of blocks served at the same time
    Deletable,      \* bound: the users whose accounts may be deleted
    None

ASSUME NrpsAssumption ==
    /\ Users \subseteq Nat /\ IsFiniteSet(Users)
    /\ Limits \subseteq Int \cup {None} /\ None \notin Int
    /\ None \notin BOOLEAN
    /\ MaxMembers \in Nat /\ NamesDisallowed \in BOOLEAN

VARIABLES
    members,    \* users the LMS lists for the course
    accounts,   \* users that exist
    tool,       \* the traversal: the request under way, and what was read
    joined, left,    \* history: since the first page was fetched
    flag,       \* the latest CourseAllowPIISharingInLTIFlag row, or None
    cached,     \* the cache's entry: what a row said, or None
    view,       \* the views being served
    decided     \* history: the latest row saved by an admin, or None if a view held
                \* what it had looked up then

hostvars == <<members, accounts, joined, left>>
piivars == <<flag, cached, view, decided>>
vars == <<hostvars, tool, piivars>>

\* unread, read and twice are history: the members of the beginning not yet listed,
\* those listed (forgotten at the end), and whether one was listed twice.  names:
\* what the page was told of the flag.
Tool == [pc : {"ask", "fetched", "attached", "looked", "failed", "page", "all", "refused"},
         limit : Limits, page : Nat \ {0}, data : SUBSET Users,
         unread : SUBSET Users, read : SUBSET Users, twice : BOOLEAN, names : BOOLEAN]

At(pc) == tool.pc = pc
Go(pc) == tool' = [tool EXCEPT !.pc = pc]

---------------------------------------------------------------------------
(* Roles, in a launch and in the list *)

CourseRoles == {"student", "staff", "instructor", "limited_staff", "beta_testers"}
ForumRoles == {"Community TA", "Group Moderator", "Moderator"}

\* The roles of LTI's vocabularies: in the context, and of a person elsewhere
ContextVocabulary == {"Administrator", "Instructor", "Learner", "TeachingAssistant"}
LTI_1P3_ROLE_BASE == {"system#None", "institution#None"}
AdministratorElsewhere == {"system#Administrator", "institution#Administrator",
    "institution#Staff", "institution#Faculty", "institution#Instructor"}

\* LTI_1P3_ROLE_MAP: what a launch sends for a role
LaunchRoles(role) ==
    CASE role = "global_staff" -> AdministratorElsewhere \cup {"Administrator", "Instructor"}
      [] role = "instructor" -> LTI_1P3_ROLE_BASE \cup {"Administrator", "Instructor"}
      [] role \in {"staff", "limited_staff"} -> LTI_1P3_ROLE_BASE \cup {"Instructor"}
      [] role \in {"Community TA", "Group Moderator"} ->
            LTI_1P3_ROLE_BASE \cup {"Learner", "TeachingAssistant"}
      [] OTHER -> LTI_1P3_ROLE_BASE \cup {"Learner"}

\* LTI_1P3_CONTEXT_ROLE_MAP: what the list shows for it
ContextRoles(role) ==
    CASE role \in {"global_staff", "instructor"} -> {"Administrator", "Instructor"}
      [] role \in {"staff", "limited_staff"} -> {"Instructor"}
      [] role \in {"Community TA", "Group Moderator"} -> {"Learner", "TeachingAssistant"}
      [] OTHER -> {"Learner"}

\* _select_supported_forum_role
SupportedForumRole(forum) ==
    IF "Group Moderator" \in forum THEN "Group Moderator"
    ELSE IF "Community TA" \in forum THEN "Community TA" ELSE None

\* The one role the LMS gives a launch for the roles of its user in the course
UserRole(roles) ==
    IF "instructor" \in roles THEN "instructor"
    ELSE IF roles \cap {"staff", "limited_staff"} # {} THEN "staff" ELSE "student"

\* _get_lti_1p3_user_role
LaunchRole(roles, forum, globalStaff) ==
    IF globalStaff THEN "global_staff"
    ELSE IF \/ UserRole(roles) \in {"staff", "instructor", "limited_staff"}
            \/ SupportedForumRole(forum) = None
    THEN UserRole(roles) ELSE SupportedForumRole(forum)

\* mutant: forum roles added whatever the course roles
MergedAlways(roles, forum) ==
    roles \cup (IF SupportedForumRole(forum) = None THEN {} ELSE {SupportedForumRole(forum)})
\* merge_course_forum_roles
Merged(roles, forum) ==
    IF \/ roles \cap {"staff", "instructor", "limited_staff"} # {}
       \/ SupportedForumRole(forum) = None
    THEN roles
    ELSE roles \cup {SupportedForumRole(forum)}

\* LtiNrpsContextMemberBasicSerializer.get_roles
ListedRoles(roles, forum) == UNION {ContextRoles(r) : r \in Merged(roles, forum)}

---------------------------------------------------------------------------
(* The membership request *)

\* get_course_members.  A course that is too large is refused as a whole, whatever
\* the limit.
Fetch ==
    /\ At("ask")
    /\ IF Cardinality(members) > MaxMembers THEN Go("refused")
       ELSE tool' = [tool EXCEPT !.pc = "fetched", !.data = members,
                        !.unread = IF tool.page = 1 THEN members ELSE @]
    /\ IF tool.page = 1
       THEN joined' = FALSE /\ left' = FALSE ELSE UNCHANGED <<joined, left>>
    /\ UNCHANGED <<members, accounts, piivars>>

\* attach_external_user_ids: one id per account.  A member whose account is gone
\* since they were fetched is a KeyError.
Attach ==
    /\ At("fetched")
    /\ Go(IF tool.data \subseteq accounts THEN "attached" ELSE "failed")
    /\ UNCHANGED <<hostvars, piivars>>

\* _parse_positive_int
PositiveInt(value) == IF value \in Nat \ {0} THEN value ELSE None

\* members[start:end] of the members sorted by id
Rank(u, data) == Cardinality({v \in data : v <= u})
\* mutant: one more
PageOverlaps(data, page, limit) ==
    {u \in data : limit # None =>
        /\ (page - 1) * limit <= Rank(u, data) /\ Rank(u, data) <= page * limit}
\* mutant: pages counted from zero
PageFromZero(data, page, limit) ==
    {u \in data : limit # None =>
        /\ page * limit < Rank(u, data) /\ Rank(u, data) <= (page + 1) * limit}
Page(data, page, limit) ==
    {u \in data : limit # None =>
        /\ (page - 1) * limit < Rank(u, data) /\ Rank(u, data) <= page * limit}
HasNext(data, page, limit) == limit # None /\ page * limit < Cardinality(data)

\* mutant: the link of the page before
PageBefore(page) == page - 1
\* mutant: the link carries the page it is on
SamePage(page) == page
NextPage(page) == page + 1

\* get_serializer_class, when the page has been cut: current() gives the entry of the
\* cache, or else the latest row (one that says no, if there is none) ...
ReadRow ==
    /\ At("attached") /\ ~NamesDisallowed /\ cached = None
    /\ tool' = [tool EXCEPT !.pc = "looked", !.names = (flag = TRUE)]
    /\ UNCHANGED <<hostvars, piivars>>

\* ... which it puts there, whatever was saved since.
NamesShared ==
    IF At("looked") THEN tool.names ELSE ~NamesDisallowed /\ cached = TRUE

Serve ==
    LET limit == PositiveInt(tool.limit)
        shown == Page(tool.data, tool.page, limit)
        more == HasNext(tool.data, tool.page, limit)
    IN
    /\ \/ At("looked")
       \/ At("attached") /\ (NamesDisallowed \/ cached # None)
    /\ tool' = [tool EXCEPT
            !.pc = IF more THEN "page" ELSE "all",
            !.page = IF more THEN NextPage(@) ELSE @,
            !.unread = @ \ shown, !.read = IF more THEN @ \cup shown ELSE {},
            !.twice = @ \/ tool.read \cap shown # {},
            !.names = NamesShared, !.data = {}]
    /\ cached' = IF At("looked") THEN tool.names ELSE cached
    /\ UNCHANGED <<hostvars, flag, view, decided>>

\* A tool follows the link, and asks again for a page it did not get.
Follow ==
    /\ tool.pc \in {"page", "failed"}
    /\ tool' = [tool EXCEPT !.pc = "ask", !.names = FALSE, !.data = {}]
    /\ UNCHANGED <<hostvars, piivars>>

---------------------------------------------------------------------------
(* The host *)

Join(u) ==
    /\ u \in accounts \ members /\ members' = members \cup {u}
    /\ joined' = TRUE
    /\ UNCHANGED <<accounts, left, tool, piivars>>

Leave(u) ==
    /\ u \in members /\ members' = members \ {u}
    /\ left' = TRUE
    /\ UNCHANGED <<accounts, joined, tool, piivars>>

DeleteAccount(u) ==
    /\ u \in accounts \cap Deletable /\ accounts' = accounts \ {u}
    /\ members' = members \ {u}
    /\ left' = TRUE
    /\ UNCHANGED <<joined, tool, piivars>>

---------------------------------------------------------------------------
(* The flag of the course *)

\* mutant: a row that says no is as good as none
LookUpEnabled(v) ==
    /\ view[v] = "idle"
    /\ view' = [view EXCEPT ![v] = IF flag = TRUE THEN "idle" ELSE "enable"]
    /\ UNCHANGED <<hostvars, tool, flag, cached, decided>>
\* lti_access_to_learners_editable of a block that asks for personal data: the
\* latest row of the course, if there is one
LookUp(v) ==
    /\ view[v] = "idle"
    /\ view' = [view EXCEPT ![v] = IF flag = None THEN "enable" ELSE "idle"]
    /\ UNCHANGED <<hostvars, tool, flag, cached, decided>>

\* A row saved: ConfigurationModel.save inserts it and drops the entry of the cache.
SaveRow(enabled) == flag' = enabled /\ cached' = None

\* ... and the row it creates when there was none
Enable(v) ==
    /\ view[v] = "enable" /\ view' = [view EXCEPT ![v] = "idle"]
    /\ SaveRow(TRUE)
    /\ UNCHANGED <<hostvars, tool, decided>>

AdminSaves(enabled) ==
    /\ SaveRow(enabled)
    /\ decided' = IF \E v \in Views : view[v] = "enable" THEN None ELSE enabled
    /\ UNCHANGED <<hostvars, tool, view>>

\* The entry's timeout
Expire ==
    /\ cached # None /\ cached' = None
    /\ UNCHANGED <<hostvars, tool, flag, view, decided>>

---------------------------------------------------------------------------

Init ==
    /\ members \in SUBSET Users /\ accounts = Users
    /\ joined = FALSE /\ left = FALSE
    /\ \E l \in Limits :
         tool = [pc |-> "ask", limit |-> l, page |-> 1, data |-> {}, unread |-> {},
                 read |-> {}, twice |-> FALSE, names |-> FALSE]
    /\ flag = None /\ cached = None /\ decided = None
    /\ view = [v \in Views |-> "idle"]

Next ==
    \/ Fetch \/ Attach \/ ReadRow \/ Serve \/ Follow
    \/ \E u \in Users : Join(u) \/ Leave(u) \/ DeleteAccount(u)
    \/ \E v \in Views : LookUp(v) \/ Enable(v)
    \/ \E b \in BOOLEAN : AdminSaves(b)
    \/ Expire

\* The server ends the request it has begun, the tool goes on reading, and an entry
\* that stays in the cache expires; nobody has to join, leave or decide anything.
Fairness ==
    /\ WF_vars(Fetch \/ Attach \/ ReadRow \/ Serve) /\ WF_vars(Follow)
    /\ WF_vars(Expire)

Spec == Init /\ [][Next]_vars /\ Fairness

---------------------------------------------------------------------------
(* Properties *)

\* The traversal, the flag and the views keep their shape.
TypeOK ==
    /\ members \subseteq accounts /\ accounts \subseteq Users
    /\ tool \in Tool /\ joined \in BOOLEAN /\ left \in BOOLEAN
    /\ {flag, cached, decided} \subseteq BOOLEAN \cup {None}
    /\ view \in [Views -> {"idle", "enable"}]

\* The pages a tool has read to the last one hold every member there was when it
\* began, whoever joined meanwhile, as long as nobody left (views.py:965).
PagesAreWhole == At("all") /\ ~left => tool.unread = {}

\* Nobody is listed on two pages, whoever left meanwhile, as long as nobody joined.
NobodyTwice == ~joined => ~tool.twice

\* A tool that follows the links comes to a last page, or to a refusal, whoever
\* joins and leaves for ever and whichever pages fail.
TraversalEnds == At("ask") ~> tool.pc \in {"all", "refused"}

\* What an admin has decided stands, unless a view had looked the flag up before
\* and enables it after (models.py:1048).
DecisionStands == decided # None => flag = decided

\* "If [the flag] is enabled for a course and subsequently disabled, then existing
\* sharing of PII via LTI will stop" (docs/decisions/0005-lti-pii-sharing-flag.rst):
\* pages may be served with names for a while, from the cache and from rows read
\* before the save; once the decision stands, no page is told to for ever.
SharingStops ==
    <>[](decided = FALSE) => <>[](~NamesDisallowed => cached # TRUE /\ flag # TRUE)

RolesAgree(roles, forum) ==
    LET launch == LaunchRoles(LaunchRole(roles, forum, FALSE)) \cap ContextVocabulary
        listed == ListedRoles(roles, forum)
    IN /\ "TeachingAssistant" \in launch <=> "TeachingAssistant" \in listed
       /\ roles # {} => launch \subseteq listed

\* Forum roles are merged "to match launch behavior" (compat.py:405): of members who
\* are not global staff, every page served shows a teaching assistant where a launch
\* does, and leaves out no context role a launch sends, whatever their roles, although
\* launch and list map them with tables of their own (constants.py:55 and 84).
RolesMatchLaunch ==
    tool.pc \in {"page", "all"} =>
        \A roles \in SUBSET CourseRoles, forum \in SUBSET ForumRoles : RolesAgree(roles, forum)
=============================================================================
