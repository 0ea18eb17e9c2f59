# LTI consumer XBlock: specifications in TLA+

The consumer XBlock embeds external learning tools in courses of an Open edX
platform. A *tool* is launched from a *block* of a course over LTI 1.1 or
LTI 1.3; with LTI 1.3 it may call back: ask for access tokens, read members,
write line items and scores, return content items, start a proctored assessment.

The code is a Django application and an XBlock. All of it runs in web requests of
several server processes at once, over a relational database, a cache that may drop
an entry at any time, and the course's block store (modulestore), which no
transaction covers. Nothing is locked (`select_for_update` occurs nowhere) and
nothing runs in the background. So what these specifications are about is:
requests interleaved statement by statement, instances saved after their row has
changed, three stores written one after another, cached data replaced or expired
between the two legs of a launch, and orders of legal calls nobody wrote a test for.

Paths below are relative to `src/lti_consumer/` unless they start with `src/`.

## 1. The system

### 1.1 Components

| Component | State | Operations | Talks to |
|---|---|---|---|
| Passport registry (`models.py:51-502`, `api.py:30-165`, `signals/signals.py:89-180`) | rows of `LtiConfiguration` and `Lti1p3Passport`; `lti_1p3_passport_id` and key settings of the block | view of a block, access by location, duplicate, paste, delete, synchronise with custom courses (CCX), admin's deletion | modulestore and Studio's events; read by every other LTI 1.3 component |
| Platform key pair (`models.py:96-152`) | `lti_1p3_internal_private_key`, its id, its public JWK in a passport row | generate on first access, sign, publish, rotate | keyset endpoint, launches, tokens |
| AGS (`plugin/views.py:768-890`, `models.py:576-634, 821-966`, `signals/signals.py:20-87`) | `LtiAgsLineItem`, `LtiAgsScore`; the host's gradebook | line item calls, score calls, the declarative line item, publication of grades | token scopes, gradebook, due dates |
| Launch and launch-data cache (`plugin/views.py:250-480`, `api.py:185-380`, `utils.py:284-337`) | cached launch data by user and resource link | views that prepare a launch, the launch gate | every view that makes a launch URL |
| Deep linking (`plugin/views.py:618-765`) | `LtiDlContentItem` rows | configuration launch, response, page of items | launch cache |
| Proctoring (`plugin/views.py:420-450, 1017-1134`, `lti_1p3/consumer.py:805-985`) | cached session data; cached wish for an end message | StartProctoring, the tool's StartAssessment, EndAssessment | launch cache; the host's exams service |
| Access tokens and tool keys (`plugin/views.py:172-245, 488-615`, `lti_1p3/consumer.py:424-560`, `lti_1p3/key_handlers.py`) | none (signed tokens) | token endpoint, scope checks | registry, key pair |
| Names and Roles (`plugin/views.py:893-1010`) | none | paged membership | host's enrolments |
| LTI 1.1 (`lti_1p1/`, `outcomes.py`, `lti_xblock.py:1388-1720`) | module score and comment of a user | launch, outcome service (XML), result service (JSON) | gradebook, due dates, the flag of external identifiers |
| PII flag (`models.py:1022-1075`, `api.py:317`) | one row per course | read, create on first use | launches, AGS results, membership |
| External configurations (`filters.py`, `models.py:745`) | none | a filter of the host answers every read | registry, views |
| XBlock views and fields (`lti_xblock.py:1113, 1328-1486, 1720-1905`, `api.py:94-185`) | fields of the block; the version column of the configuration | student and author view, launch handler; the version is resolved in each | registry, launch gate |
| Admin, migrations, tracking | none | forms, one-off changes | registry |

How they meet. A view of a block calls `config_id_for_block`, which makes the
registry's rows; the launch URL it shows carries a cache key; the tool's return to
the launch gate reads the data under the key and signs with the passport's key
pair; the tool then asks the token endpoint, found by the passport's id, for
tokens, and calls AGS or Names and Roles of the *configuration*; a saved score
runs a signal handler that writes a grade. Course edits reach the registry only through
signals (`pre_item_delete`, `XBLOCK_DELETED`, `XBLOCK_DUPLICATED`) and the next view.

### 1.2 What is hard, and what makes each component correct

* **Registry.** A view writes up to three stores in separate statements; a
  configuration, its copies and its CCX children share passports; cleanups delete
  what they selected a statement earlier; a killed view leaves what it has written.
  Right means: blocks share credentials only when copied from one another, a shared
  passport is split and not changed, deleted blocks leave nothing, a CCX follows its main
  course, and what one request left half done the next that runs alone puts right.
* **Key pair and tokens.** Every read of a key may save the whole row it loaded, and
  every token is checked with the key a request happened to load. Right means: the
  published key is the public half of the one that signs, a revoked pair stays
  revoked, a token is refused for a reason, and a tool that asks again is served.
* **AGS.** A score is validated against a row that was read earlier; the handler runs
  after the save; a tool may name any block in a line item. Right means: a tool grades its own
  block only, timestamps advance, the gradebook shows the final score, every
  published grade is a proper fraction.
* **Launch, deep linking, proctoring.** Two legs, one cache entry per user and
  item, expiry between any two steps, answers of an attempt that is over. Right means: a
  launch carries its own user, item, message type and attempt; an answer counts
  for its attempt only; a selection comes from one response.

* **LTI 1.1 outcomes.** Two services, one module score, a gradebook written before it;
  a due date that passes, settings and identifiers that change between the launch and the
  result. Right means: a result is entered whole, for the learner whose launch gave out
  the identifier, or not at all.
* **Names and Roles, PII flag.** Every page is cut out of a membership fetched anew. Right
  means: who stayed is listed, nobody twice, the last page is reached, and names stop
  when a course decides against them.
* **Versions.** The LTI version of a block is read from three places that change
  independently, by up to five reads of one launch. Right means: a launch that nothing
  disturbs arrives in the version the block resolves to, and disturbed ones stop failing.

The full list of hazards with their lines and the properties that cover each is in
`PROJECT.json`.

## 2. Modules

| Module | Models |
|---|---|
| `LtiPassports` | the registry |
| `LtiPassportsAlone` | the same, watching which requests have run alone so far: what handlers promise after any interleaving and any killed request |
| `LtiKeys` | one passport's key pair and the other columns saved with it |
| `LtiTokens` | extends `LtiKeys` with a tool: tokens asked for, granted, used, refused, renewed |
| `LtiAgs` | line items, scores, grades |
| `LtiLaunch` | launches of a block, with deep linking or with proctoring |
| `LtiGradebook` | what a grade service promises, whatever protocol carries the results |
| `LtiOutcomes` | the two LTI 1.1 services; implements `LtiGradebook` |
| `LtiNrps` | the membership service, the roles it lists, the PII flag |
| `LtiVersions` | the version of a block, from view to launch |
| `MCLti...` | the instances TLC checks: functional constants and symmetry |
| `Lti...Proofs` | theorems, each module extends the one it is about |

The components meet through few things, so the modules are separate, with one exception:
`LtiTokens` composes the key pair with the tool that depends on it, because
what hurts a tool there is what other requests do to the row. `LtiKeys` looks into
one row of `LtiPassports` (there the platform's keys are left out, except
that a key access saves the row it loaded); `LtiVersions` looks at the version column of
its configurations; `LtiAgs`, `LtiLaunch` and `LtiNrps` take configurations as fixed, and
that a request got past the scopes of `LtiTokens`.

Definitions marked `\* mutant` are wrong variants of the definition that follows them.
Substituting one breaks the property it is listed with in `PROJECT.json`, which shows that the
property depends on that line of the code. No specification uses them.

### 2.1 Conventions

*Grain of a step.* One step is one ORM statement, one modulestore call, one cache
access, or one explicit transaction; pure computation between them belongs to the
step before. Between two steps of a request any other request may run. A request is
a record in `req` (`flow` in `LtiLaunch`) with a program counter and the instances
it holds; `save()` writes all columns of an instance back, as Django does.

*Crashes.* A request may stop for ever after any step, except where fairness is stated (2.3).
What is committed stays, which is what a killed worker leaves behind. `Serial = TRUE`
starts a request, an edit or an admin's action only when no other request runs. There a killed request
is never idle again, so the properties about quiet states judge what requests leave that have
*ended*. What killed ones leave is judged in `passports_concurrent`, where one worker may stop
for ever while the other goes on: block and configuration may then disagree at rest
(section 4), and the `Lone...` properties say what the next view, link, cleanup or save makes of it.

*Coarser steps.* A few actions merge statements where what lies between them is not what the
properties are about:

* `LinkPassport` reads the block and gets or creates the passport in one step; the block is saved
  in a later one (`KeepLink`), and there requests that overlap do meet.
* `PutLineItem` and `PostScore` read the line item (and the score) in the step that validates;
  what is saved after is a step of its own (`SaveScore`), where it matters.
* `ContentOffer` reads the content items in the step that caches the launch, and `PageRender` caches
  the launches of a page in one step: each entry has a key of its own, so that a page rendered
  half way is one whose other entries are not asked for.
* `Make` of `LtiVersions` asks the filter once for the version and the values of the consumer.
* `VerifiesAssertion` of `LtiTokens` looks at one column for the tool's key. The token URL of a passport
  hands the key and the keyset's URL to its consumer (`plugin/views.py:537`), and an assertion that
  either verifies is taken: of a tool with both, the column stands for the one its key is in.
* Saving a row of the PII flag inserts it and drops the cache's entry in one step; the latest
  row is the one saved last, where the code orders by `change_date`.

*`ATOMIC_REQUESTS`.* The repository does not set it; whether a request is one
transaction is the host's choice. `LtiAgs` has it as the constant `Atomic`, for the score and
its grade; `LtiOutcomes` assumes it, since the gradebook and the module's state are rows
of the host, and models what a handler that dies undoes. The other modules commit every statement, the weaker
guarantee; their violated properties need two requests that read before either
writes, which a transaction per request at READ COMMITTED allows as well.

*External code*, taken from how the repository uses it and marked external in the map: the modulestore and
Studio's events (blocks vanish after `pre_item_delete` and before
`XBLOCK_DELETED`, `XBLOCK_DUPLICATED` follows the copy), export and paste, foreign keys and unique
columns, `ConfigurationModel` with its cache, the request tier of `TieredCache`, the host of proctoring (as
`src/docs/proctoring.rst` says), the tool (it returns what it was given).

*Bounds* are constants named `Max...`; each occurs in the guard of the action that
uses up the bounded supply. They are bounds of the checking, not of the code; the proofs hold for
every value of them.

### 2.2 State and actions

**`LtiPassports`.** `config` and `passport` are the rows, `block` the block's fields
(the passport id, the tool's key settings, the config store). Passport ids are the
number of the passport they were minted for, so that a row saved after its deletion keeps its id. `origin` is a history variable.
`Children` is the search by suffix of `sync_configurations`: `EndsAlike` gives the custom course
keys that end as a block's key does, its own among them, and those of other courses where ids repeat.

| Actions | Code |
|---|---|
| `StartView`, `ConfigFound`, `ConfigCreated` | `config_id_for_block`, `_get_or_create_local_lti_config` |
| `EnsurePassport`, `CountUsers`, `UpdateInPlace`, `SplitPassport`, `KeepSplit` | `_ensure_lti_passport`: compare the keys, count the users, change in place or mint, save the block |
| `SyncConfigurations`, `SaveConfig`, `LinkPassport`, `KeepLink`, `AttachPassport`, `Finish` | `LtiConfiguration.save`, `sync_configurations`, `get_or_create_lti_1p3_passport` |
| `StartAccess`, `StartKeys`, `SaveKeys` | access by location; reads of a key with the save at their end |
| `DuplicateBlock`, `ReadSource`, `CheckTarget`, `PasteBlock` | `XBLOCK_DUPLICATED` handler; export and import of a block |
| `StartDelete`, `DropConfigs`, `ScanOrphans`, `PurgeOrphans`, `RemoveBlocks` | `pre_item_delete` and `XBLOCK_DELETED` handlers around the removal |
| `EditTool`, `EditStore`, `AdminDeletePassport` | authors and admins |

Initial states: courses as migration 0021 leaves them (`Legacy`: configuration and passport with blank keys, no id on the block), and new blocks.

**`LtiPassportsAlone`** adds `alone`: the requests since whose beginning no other request,
author or admin has taken a step.

**`LtiKeys`.** The row is three columns: private key, JWK and the tool's
key (standing for all other columns). `Load`, `GenerateAndSave` (`_generate_lti_1p3_keys_if_missing`),
`SaveAgain` (the key id of the same instance), `Answer` (a signed launch or token, a token checked, or the
keyset), `WriteToolKey` (a view), `RotateKey` (the admin's form with the key emptied).

**`LtiTokens`.** The tool has one request under way. `Ask` and `Call` begin a request of
`LtiKeys` with the operations `"token"` and `"call"`; its consumer is built as for a launch
(`Build`); then `GrantToken` or `RefuseToken` (`access_token_endpoint`, `ToolKeyHandler`), or
`Authenticate`, and `Serve` or `Deny`: the token is decoded twice, by the authentication and
by the permission class, of one instance, and may expire in between (`Expire`). `Want`,
`ToolRotates` and `Expire` are external. A token is its key, its scopes and whether it is
fresh. `Arrive` and `Finish` are the requests of other clients.

**`LtiAgs`.** `Begin` and `SetupAgs` make the consumer, in a launch and in each call;
`CreateOwnItem` is the declarative line item; `PostLineItem`, `PutLineItem`,
`NotFound`, `Refuse` the viewset; `PostScore` reads and validates, then `SaveScore` and
`PublishScore` (or `CommitScore` under `Atomic`) save the row and run
`publish_grade_on_score_update`, which may raise. `MoveDueDate` and `AdminDeleteItem` come
from outside. Points are small numbers, zero, or missing.

**`LtiLaunch`.** First leg: `StudentView`, `AuthorView`, `StudioView` and `StudioAuthor`, `PageRead`,
`PageRender`, `StartProctoring`, `EndAssessment`. The two of Studio are one view by global staff: the
launch it offers is overwritten at once by a deep linking request, which the gate refuses to
whoever is no instructor (403). Second leg: `GateRead`, `GateBranch`,
`GateSession`. Answers: `ReplaceRead` and `ReplaceSave` or `ReplaceInvalid` (one transaction:
what it deletes is what was committed when it deletes), `AnswerRead`, `AnswerCheck`.
`Expire` drops any entry between any two steps, but leaves alone entries nothing will read
before they are written again, which changes no launch. Claims are abstracted to user, message type, item and attempt; one
constant of a behaviour, `proctored`, chooses the proctoring consumer or the Advantage
consumer with deep linking. History: `asked`, `clash`, and in each launch
`wants`, `alone`, `late`.

**`LtiOutcomes`.** `Launch` hands an identifier and the service's address to the
tool; `Arrive` loads the block with the settings of that moment; `VerifyOutcome` and
`VerifyResult` check due date, body and signature in the order of their service; `FindUser`
looks the identifier up under the flag as it is then; `Publish` writes the gradebook and
`Save` the module's score and comment when the handler returns; `Die` undoes. `Author`,
`ToggleFlag` and `Tick` change what was loaded or looked up. Parsing is whether a body
parses, signing whether the secret is the block's.

**`LtiGradebook`** has no services, due dates or settings: `Open`, `Enter`, `Refuse`, `Close`.
The mapping in `LtiOutcomes` (`Ledger`) takes as a learner's entry the saved module together
with the grade not under way (`Committed`), and as a call each request that writes.

**`LtiNrps`.** `Fetch`, `Attach`, `ReadRow` and `Serve` are the steps of one request (members, external
ids, the flag's row where the cache has no entry, the page and the entry); `Follow` is the tool. `Join`, `Leave`, `DeleteAccount` are the host. Users are
their ids, so that sorting is the order of numbers. `LookUp` and `Enable` are the two statements
of `lti_access_to_learners_editable`, `AdminSaves` the decision, `Expire` the cache's timeout. `LaunchRole` and `ListedRoles`
are the two computations of a user's roles, each with its own map (`LaunchRoles`, `ContextRoles`) and
its own list of privileged roles, compared over all sets of course and forum roles.

**`LtiVersions`.** A flow is a view of the block and the launch from it. `View` and
`AuthorView` load the block; `LookUp`, `Load`, `Save` are `_get_lti_config_for_block`; `Fetch`
and `Make` the consumer of the row; `Url`, `Offer`, `Url13` the three places of the page's
context that resolve the version once more; `Info` is the author's data of a 1.3 tool; `Click` is the 1.1 handler or the 1.3
gate. The handler, its launch made, puts the context of the page together again before it answers
(`Reply`), with every read and write of a view, and may still fail. `EditBlock`, `EditExternal` and `FilterChanges` come from outside. History: `calm`
holds the flows that saw no edit and began when no older request was under way.

### 2.3 Fairness and liveness

Three specifications state fairness, each only what the code's scheduling gives:

* `LtiTokens`: a request that was begun is finished (weak fairness for each worker: nothing
  blocks, and a server that stops serving altogether is no subject), and the tool keeps
  trying while it wants a call, which is what LTI expects of it. That tokens expire,
  keys rotate or other requests arrive is never required. `ToolIsServed` shows that a tool
  with a registered key recovers from expiry, rotation and the loss of its pair. It needs
  that the requests of *other* clients are finitely many (`MaxRequests`; the tool's own are
  not counted): two clients that for ever each load a row before the other saves it can
  keep two pairs alternating.
* `LtiNrps`: the request under way ends, the tool follows the link, and an entry of the cache that
  stays there expires (it has a timeout). `TraversalEnds` holds although members join and leave
  for ever, because the page number grows and the membership is bounded. `SharingStops` speaks
  of behaviours in which admins stop changing their minds; nothing requires them to.
* `LtiVersions`: a request is served to its end, and a page with an answer is left some day.
  `FailuresEnd` shows that stale views cannot keep a wrong version in the row once edits end.

All other specifications are `Init /\ [][Next]_vars`: a request may be killed at any step,
nothing retries, no background job repairs, and what a
user, tool or author does next is up to them. What
one would like to happen eventually is stated there as safety about quiet states
instead: once no request runs, the gradebook *has* followed the score
(`GradebookFollowsScore`), the orphans *are* gone (`NoOrphanPassports`), the block
*does* name the configuration's passport (`BlockFollowsConfig`). Their runs, and those of
`LtiTokens` and `LtiNrps`, set `CHECK_DEADLOCK FALSE`: with their requests and
edits used up, or the last page read, the models rightly stop. `versions` checks deadlock.

## 3. Runs

| Run | Instance | Checks and shows |
|---|---|---|
| `passports_serial` | block `a` (legacy), room for a copy `b`; both stores; 5 requests one at a time, 3 edits, 4 passports; 373 thousand states | `ViewSettles`, `BlockFollowsConfig`, `NoOrphanPassports`, `NoConfigWithoutBlock`, `SharedKeysStable`: splitting, copying, pasting, moving between stores and deleting keep passport, configuration and block together |
| `passports_concurrent` | `a` (legacy), its copy `b`, its custom course `c`, an unrelated `x`; both stores; 2 workers, 3 requests, one edit, 4 passports; 688 thousand states | `TypeOK`, `CredentialsStayInFamily`: no credentials cross to an unrelated block; `LoneViewSettles`, `LoneLinkFollowsBlock`, `LoneCleanupIsComplete`, `LoneSaveSynchronises`: what a request that runs alone makes of what interleaved and killed ones have left |
| `ags_ledger` | one declarative tool, 2 learners, 4 requests one at a time and atomic, 2 edits, timestamps 1..3, points 0..2 | `GradebookFollowsScore` |
| `ags_concurrent` | 2 tools in 2 blocks, one declarative, one programmatic; 2 workers, 4 requests, 1 edit, not atomic | `TypeOK`, `ToolsGradeOwnBlock`, `ScoresAreFractions` |
| `launch` | 2 users (an instructor, and global staff who is none), 3 launches, 2 attempts, 2 sessions, 2 deep linking responses, selections of none, one or two launches; 1.3 million states, to depth 26 | `TypeOK`, `LaunchesStayWithUser`, `ItemLaunchShowsItem`, `LaunchAloneIsAsAsked`, `LateAnswerStartsNothing`, `SelectionIsOneResponse` |
| `outcomes` | 2 learners, 2 requests at once, 9 kinds of body (each operation, with and without score and comment, ill signed, ill formed), 4 settings, one edit or toggle, one tick; 254 thousand states | `TypeOK`, `GradeIsDuplicated`, `LateIsRefused`, and `KeepsGradebook`: the refinement |
| `nrps` | 4 users, courses of up to 3 listed, limit absent (0 is not a limit) or 1, one account that may be deleted, one view; 585 thousand states | `TypeOK`, `PagesAreWhole`, `NobodyTwice`, `RolesMatchLaunch`, and the liveness of `TraversalEnds` and `SharingStops` |
| `tokens` | 2 workers, 2 requests of other clients, any number of the tool's, 4 key pairs, one fault, a service in scope and one without; 625 thousand states | `TypeOK`, `KeyPairMatches`, `ServedWithinScope`, `TokensAreHonoured`, `RevokedStaysRevoked`, and the liveness of `ToolIsServed` |
| `versions` | 2 flows, three settings of the block (one of each kind of configuration), an external version of each value or none, 2 edits or outages; 929 thousand states, to depth 76 | `TypeOK`, `QuietLaunchArrives`, and the liveness of `FailuresEnd` |
| `passports_shared_race` | two concurrent requests | `SharedKeysStable` fails (4.1) |
| `ags_late_score` | two concurrent scores | `TimestampsAdvance` fails (4.2) |
| `passports_rerun` | `a`, its custom course `c`, and `x`, the block of a re-run under the same block id; one request at a time | `SyncStaysInCourse` fails (4.3) |

Why these bounds are enough. A lost or stale write needs two requests, one holding an instance and one
that changes the row; a third, run to its end in between, can remove the
row. That is what the concurrent runs of the registry have; with three requests the first may be
killed, the second leave something too, and the third run alone. In `tokens` the two workers hold an
instance each, of the tool's unlimited requests and of two others: a rotation and a
stale save in either order; no behaviour of the instance needs a fifth pair.
In the serial runs the interesting sequences are copy, change, view, move back, delete: five
requests and three edits contain each order of them. Two learners show that
scores do not mix; three timestamps give an earlier, an equal and a later one; two
points give a score below, at and above the maximum and a zero. Three launches
let two overlap and a third leave its traces in the cache; two attempts make an
answer late; two responses replace or overlap. With pages of one, three members are the
first page, one in the middle and the last, and a fourth user joins before, between or
after them. Two edits are a change and its reversal, an
outage and its end, or one of each around two overlapping flows. Users, flows and workers are
symmetric where a cfg says so; those runs state safety only.

`SharedKeysStable` appears twice on purpose: it holds of
requests one at a time and fails of two at once, which locates the flaw in the missing lock.

## 4. Where code and documentation disagree

With a run each:

1. `api.py:33` promises that a passport is updated in place only "when safe". The users are counted
   in one statement and the passport written in a later one: a copy made in between shares the
   passport that is then changed (`passports_shared_race`).
2. `lti_1p3/extensions/rest_framework/serializers.py:139`: "Score timestamp can only be updated to a later point in time". Two
   requests that validate against the same row may be saved in either order (`ags_late_score`).
3. `models.py:376` speaks of "any children configuration". They are found by the suffix of the key
   (`models.py:391`), and a re-run of a course has the block ids of the original: saving the
   re-run's configuration writes the configurations of the original's custom courses, passport
   included (`passports_rerun`).

Met while modelling and visible in the models, without a run of their own:

* `models.py:125` says the save after a key access "doesn't do anything if
  model didn't change". It saves every column of the loaded instance: a concurrent
  update is undone, a deleted passport inserted again (`SaveKeys` of `LtiPassports`,
  `SaveAgain` of `LtiKeys`).
* `models.py:101` says rotation causes no issues because of the keyset endpoint. Two
  first accesses each generate a pair; the second save removes from the keyset the
  one that the first goes on to sign with. `TokensAreHonoured` therefore speaks of one pair,
  and `RevokedStaysRevoked` only of pairs that no request in flight holds.
* `models.py:899` and `signals/signals.py:50` count zero as a score; `and
  instance.score_given` does not publish it, and the earlier grade stays. `GradebookFollowsScore`
  leaves zero out.
* `lti_xblock.py:1568` tests `self.is_past_due`, a method, without calling it: a block that
  takes no grades after its due date takes none before it either, by the result service
  (`AcceptsInTime`). The field's help says "Enable this to allow the tool to send
  grades after the due date has passed" (`lti_xblock.py:521`); the outcome service does so.
* `lti_xblock.py:1620` reads a module score of zero as no result; the result service also
  answers with the module score, the score *times the weight*, where a PUT took the score.
* `lti_1p3/consumer.py:941` looks a scope up in a tuple whose first member is a list: the
  tokens of a proctored configuration carry none of the AGS or NRPS scopes, if the consumer is
  built from the configuration. The token URL of a passport builds a plain `LtiConsumer1p3`
  (`plugin/views.py:528`) and grants what is asked. In `LtiTokens` the scopes granted are the
  `TokenScopes`; the mutant `NoScope` is what happens to the tool of the first.
* `lti_xblock.py:1120` calls the block's own version "a safe fallback" when the filter of the
  external configurations fails. `_get_lti_config_for_block` (`api.py:146`) makes the same lookup unguarded,
  so the view fails all the same (`LookUp`), and so does every launch.
* An external configuration without a `version` is launched in the block's version
  (`lti_xblock.py:1144`, `models.py:745`), but its own keyset and token endpoints then refuse it
  (`plugin/views.py:216-232`).
* A keyset or token asked of a passport between the removal of its last configuration and
  its own is an `AttributeError` (`plugin/views.py:209`, `:526`).
* `src/docs/decisions/0005-lti-pii-sharing-flag.rst` says that sharing "will stop" once the flag
  is disabled. It does so after a while: a page reads the flag through a cache (`api.py:327`), and one
  that read the row before an admin's save may put it there after, for the entry's lifetime. And a
  view that looked the flag up before the decision may enable it after (`models.py:1053-1059`),
  for good. `SharingStops` leaves out a decision that such a view undoes.
* A global staff user is an administrator in a launch; the membership list does not know the
  role. `RolesMatchLaunch` is about the others, and about roles in the context: a launch sends
  two more, `None` of the system and of the institution, that no list shows.
* A view by global staff in Studio offers a launch and at once overwrites its data with a deep linking
  request (`lti_xblock.py:1374`); whoever is no instructor is then refused at the gate.
* `models.py:377` has the configurations of main and custom courses synchronised. A save does that
  (`LoneSaveSynchronises`), but `get_or_create_lti_1p3_passport` links a passport by
  `filter().update()`, which no save sees: with two custom courses of one block, made and viewed in
  turn, one may keep another passport than the main course at rest.
* A view killed between the save of the block and that of the configuration (`api.py:86-119`) leaves
  them naming different passports. The next view splits once more or, where the passport is not
  shared any more, changes it in place and leaves them so. A cleanup unlinks a configuration that was linked, after its selection, to a passport it
  deletes (`signals/signals.py:116-134`); the next access links it again.
* A split in a custom course is lost when the configuration is saved
  (`models.py:382`, `api.py:78-88`); every further view mints another passport.
* Two first launches of a declarative configuration may each make a line item (`models.py:591`),
  where `src/README.rst:234` has "a single fixed LineItem".
* A DELETE of a line item is always refused: the viewset's action is called `destroy`, the
  permission lists `delete` (`permissions.py:64`), while `src/README.rst:235` offers full management. `Refuse` models it.
* Two launches of one user and block that overlap share the cache entry; the later one's
  message type is sent by both (`utils.py:316`), and Studio's page alone prepares two.
  `LaunchAloneIsAsAsked` says what is left.
* Two deep linking responses that overlap may leave both selections (`plugin/views.py:647`).
* The wish for an end message lasts twelve hours and is inherited by later attempts
  (`plugin/views.py:1093`).

## 5. Proofs

All proofs are checked by tlapm with Z3, Zenon and LS4. They hold for every value of the constants
that satisfies the modules' named assumptions (shapes of functions, `None` outside
the data, naturals as bounds; for the registry, that a CCX block has the id and
family of its main block). What a theorem assumes beyond them stands before the colon in
the table; nothing else is assumed. Each of these hypotheses is one that instances of the runs
satisfy, and each is needed:

* `LoneSpec` in place of `Spec` is no hypothesis: it is `Spec` with the history variable `alone`.
* `Serial` (requests are served one at a time). `passports_shared_race` and `ags_late_score` refute
  `SharedKeysStable` and `TimestampsAdvance` without it, and with two requests at once TLC finds each of the other
  properties under it violated too: they
  speak of what the statements of one handler achieve together, which another
  handler between them undoes.
* `Ccx = {}` (no custom course). With two custom courses TLC finds each of the three properties
  violated even by requests one at a time: a synchronisation overwrites the
  configuration of a course whose block is not written with it (section 4).
* `ChildrenAreCopies` (the custom course blocks that the suffix of a key finds,
  `models.py:391`, are copies of the block with the key). A re-run's are: its blocks were copied.
  Ids that repeat in an unrelated course would carry a passport over. That a save writes its own
  custom courses only (`SyncStaysInCourse`) is no theorem, because it is not so (4.3).
* `Atomic`, `OwnItemsOnly` (`ATOMIC_REQUESTS`; the tool neither creates nor updates line items). Without
  the transaction, a publication that raises leaves a saved score that the gradebook has not got;
  and of two line items for one block the gradebook keeps the score that was published last.

| Module | Theorem | Establishes |
|---|---|---|
| `LtiPassportsProofs` | `TypeCorrect` | `Spec => []TypeOK` |
| | `CredentialsKeptInFamily` | `ChildrenAreCopies`: `Spec => []CredentialsStayInFamily` |
| `LtiPassportsSerialProofs` | `ConfigurationsHaveBlocks` | `Serial`: `Spec => []NoConfigWithoutBlock` |
| | `SharedKeysAreKept` | `Serial`: `Spec => SharedKeysStable` |
| | `ViewsSettle`, `BlocksFollowConfigurations`, `NoPassportIsOrphaned` | `Serial`, `Ccx = {}`: `ViewSettles`, `BlockFollowsConfig`, `NoOrphanPassports` |
| | `LoneViewsSettle`, `LoneLinksFollowBlocks`, `LoneCleanupsAreComplete`, `LoneSavesSynchronise` | of `LoneSpec`, in any interleaving: `LoneViewSettles`, `LoneLinkFollowsBlock`, `LoneCleanupIsComplete`, `LoneSaveSynchronises` |
| `LtiTokensProofs` | `KeysTypeCorrect`, `PublishedKeySigns` | of `LtiKeys`: `Spec => []TypeOK`, `Spec => []KeyPairMatches` |
| | `TokensImplementKeys` | `TSpec => Spec`: with a tool, the key pair behaves as `LtiKeys` says |
| | `PairMatchesWithTools`, `TokensTypeCorrect` | `KeyPairMatches` and `TokensTypeOK` of `TSpec` |
| | `ScopesAreKept` | `TSpec => []ServedWithinScope` |
| | `SinglePairIsHonoured`, `RevocationHolds` | `TSpec => TokensAreHonoured`, `TSpec => RevokedStaysRevoked` |
| `LtiLaunchProofs` | `LaunchTypeCorrect` | `Spec => []TypeOK` |
| | `UserIsKept`, `ItemIsKept`, `AloneIsAsAsked` | the three properties of what a launch carries |
| | `LateAnswersAreRefused`, `EndMessagesWereAskedFor`, `SelectionIsReplaced` | the properties of answers, end messages and selections |
| `LtiAgsProofs` | `AgsTypeCorrect`, `NoDivisionByZero` | `Spec => []TypeOK`, `Spec => []ScoresAreFractions` |
| | `GradesStayInOwnBlock` | `Spec => ToolsGradeOwnBlock` |
| | `ScoresGetLater` | `Serial`: `Spec => TimestampsAdvance` |
| | `GradebookFollows` | `Serial`, `Atomic`, `OwnItemsOnly`: `Spec => []GradebookFollowsScore` |
| `LtiOutcomesProofs` | `OutcomesTypeCorrect`, `DuplicateAgrees`, `LateNeverWrites` | `TypeOK`, `GradeIsDuplicated`, `LateIsRefused` |
| | `OutcomesImplementGradebook` | `Spec => KeepsGradebook`: every step is a step of `LtiGradebook` or a stutter |
| `LtiNrpsProofs` | `NrpsTypeCorrect` | `Spec => []TypeOK` |
| | `PagesHoldEveryone`, `NobodyIsListedTwice` | `PagesAreWhole` and `NobodyTwice`, for any limit and membership |
| | `DecisionsStand` | `Spec => []DecisionStands` |
| | `LaunchAndListAgree` | `Spec => []RolesMatchLaunch` |
| `LtiVersionsProofs` | `VersionsTypeCorrect`, `QuietLaunchesArrive` | `TypeOK`, `QuietLaunchArrives` |

**Registry.** `TypeOK` is not inductive: a step uses that a request at a given
place holds the instances that place needs (at `"save"` a configuration, at `"purge"` a set of passports). `TypeInv`
adds these shapes, place by place, and `RowsInv` what the foreign keys of the database give the code: no
configuration names a passport that is gone.

`CredentialsStayInFamily` is about links, but a link is written from what a
request holds: the id on a block it loaded, a configuration read before it was unlinked, a row about to be
inserted again. `FamilyInv` gives each passport id one family and says it of every
place an id can be: rows, blocks, exported blocks, and each instance in flight at
each place of a request. No action gives an id a second family, because a new id is minted for one block,
and a copy is of the family of what it copies.

**Registry, one request at a time.** `SerialInv` says that at most one request is away from `"idle"`, and
of that one, place by place, that what it holds is still what the rows and
blocks say (at `"inplace"`, that it is still the only user of the passport counted; in a deletion, that
the configurations of the subtree are gone). The two theorems under `Serial` alone follow from
it. The other three need `AloneInv`: at rest block and configuration agree on the passport and every passport has
a configuration (`AtRest`), and a request under way has broken that at most in its own block, in the way
its place says (`Solo`): a new passport nobody is linked to yet, a block that names it
before the configuration does. Both invariants hold in TLC's runs of the instance of
`passports_serial`.

**Registry, one request alone.** The `Lone...` theorems assume nothing of what went before. `LoneInv`
adds to `RowsInv`, place by place, what a request that has been alone so far knows: at
`"count"`, that the row it holds is the passport's; at `"purge"`, that its selection is exactly the
passports without a configuration; at `"attach"`, that the passport it got has the id its block
carries; at `"save"`, that the custom courses, or the main one, already say what it is going to
write. Nothing else has taken a step, so this survives to the step that needs it; whatever others
do ends it (`Watch`). The rows and blocks it starts from may be anything of the right shape.

**Key pair.** `IInv` says of the row and of each instance in flight that its
JWK, if any, is made from its private key. The property is about rows; a row is overwritten by any
instance ever loaded, so the instances have to be in the invariant.
What each operation makes of a sound instance is sound: generation clears the JWK
before deriving it, and the other writers carry both columns or empty the
private key.

**Tokens.** Every step of `LtiTokens` is a step of `LtiKeys` or leaves its variables alone
(`TokensImplementKeys`), so what is proved of the pair holds with tools. The other theorems add
what the tool's place says: a token held was signed with a pair that was made, and its scopes
are, while it is fresh, those asked for and granted; what was served was within them; and
while `made` is 1 every key anywhere is that one.

**Launches.** `LaunchInv` adds to `TypeOK`: each entry of the cache is kept under the
key of its own user and item, and is of the host's current attempt or of none
(`CacheOK`); a launch's hint is the key of what it
wants, its data, once read, are of that key, and while it is alone the entry it
hints at is its own or gone (`FlowsOK`); and the cached wishes for an end message were all asked for. Every step is one of three kinds: it prepares a launch
(writes the cache and tells the user's other launches they are not alone),
moves one launch on, or lets something expire. One lemma for each kind carries the
invariant; the actions are then cases of the kinds. `SelectionIsReplaced` has an invariant of its own (`ReplaceInv`): a response about to be
saved sees all the items there are, unless responses have overlapped.

**Scores.** A request under way has the tool it began with, and a row on its way to be saved
passed the serializer's checks (`Sound`). From that, what is saved has a maximum to divide
by (`SavedSound`), and what is published is a proper fraction in the tool's own block
(`PublishedSound`), with and without `ATOMIC_REQUESTS`.
One request at a time, the row that the serializer compared with is still there when the score is saved
(`SerialAgs`), which is all that `TimestampsAdvance` needs. For the gradebook `LedgerInv` adds that a block has
at most one line item, linked to it, that scores belong to items there are, and that
the gradebook holds the grade of each final score but zero; with `ATOMIC_REQUESTS` the two are
written in one step, so that no request is ever found between them.

**Outcomes.** The invariant says that at most one handler holds a learner's row, that what
it will restore is what was there, and that module and grade agree where no handler holds
them. The refinement then goes action by action: loading a block opens a call, the save
enters it, a refusal or a death refuses it, and publication alone is a stutter, because the
mapping shows the grade under way as not yet entered.

**Membership.** Whoever is still to be listed has a rank behind no page that was cut, whoever
was listed has a rank within the pages cut (`PagesInv`, `TwiceInv`). Joining only raises ranks and
leaving only lowers them (`RankGrows`), so each of the two directions survives the kind of
change its property allows. The last page is the one at which the number of
members leaves no rank behind it. `RolesMatchLaunch` has no state but quantifies over all sets of
course and forum roles; its proof is by cases on the role the launch picks, and compares the two maps there.

**Versions.** A request begun after the last edit has read the settings there are now
(`Fresh`), and a flow is calm only when no older request is under way; so whatever any request
writes while a flow is calm is what the block resolves to, and what the calm flow reads back
is that row (`Quiet`, place by place).

Only model-checked are the four liveness properties (`TraversalEnds`, `SharingStops`, `ToolIsServed`, `FailuresEnd`); every
other property of a passing run is stated by a theorem. `EndWasAskedFor`, `DecisionStands` and
`TokensTypeOK` are proved and not among the runs' properties. Out of the provers' reach are
the four liveness properties and `ENABLED`, and induction over data; no module uses
recursive operators.

## 6. Not modelled

* Of external configurations: all values but the version, and the keyset and token
  endpoints that take a configuration's own id (their outcome for one without a version is
  in section 4).
* Rendering, validation of fields, Studio's preview of a block and of its content items,
  tracking, translation, the admin's forms other than
  the deletions, the rotation and the flag above, and migrations (0021's outcome is an initial state):
  they report, or run once.
* Registry: an admin's edits of a configuration; blocks in libraries
  (`LIBRARY_BLOCK_DELETED` does as `XBLOCK_DELETED` does, for another key).
* AGS: list and result reads, labels and dates of line items, admin's edits of scores.
* Launches: deep linking switched off while items exist, kinds of content items that are not launched
  other than as "no launch", a block whose proctoring is switched.
* Tokens: the tool's keyset as such (it answers or it does not), claims other than
  the key, the scopes and the expiry.
* LTI 1.1: the OAuth signature as such, the parameters of a launch that carry no identifier.

## 7. What could follow

1. An abstract launch (a message is asked for, then sent once as asked for or refused), with a
   refinement mapping from `LtiLaunch` for launches alone, and `LtiAgs` for atomic requests
   against `LtiGradebook`.
2. The endpoints that read a passport (`plugin/views.py:172-245, 488-615`) over the registry of
   `LtiPassports` while it changes, instead of over one row.
