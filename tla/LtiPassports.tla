--------------------------- MODULE LtiPassports ---------------------------
(***************************************************************************)
(* The registry that ties a block of a course to its LTI 1.3 credentials:  *)
(* LtiConfiguration and Lti1p3Passport rows (models.py), the field         *)
(* lti_1p3_passport_id of the block in the modulestore, and the requests   *)
(* and signal handlers that keep the three together (api.py, signals.py).  *)
(*                                                                         *)
(* One step is one ORM statement, one modulestore call, or one explicit    *)
(* transaction (get_or_create's create runs in one, signals included):     *)
(* between two steps of a request any other request may run.  A request    *)
(* works on the INSTANCES it has read, kept in req[w]; save() writes every *)
(* column of an instance back.                                             *)
(***************************************************************************)
EXTENDS Integers, FiniteSets

CONSTANTS
    Locations,     \* usage keys
    Ccx,           \* those of custom courses (CCXBlockUsageLocator)
    MainOf,        \* [Ccx -> Locations \ Ccx]: to_block_locator()
    EndsAlike,     \* [Main -> SUBSET Ccx]: keys that end with what follows its last @
    Family,        \* [Locations -> names]: blocks copied from one another
    ToolSettings,  \* the key settings an author may type
    KeyTexts,      \* values of a key field, Blank among them
    Stores,        \* values of config_store in use
    Workers,       \* requests served at the same time
    Legacy,        \* locations configured before blocks kept a passport id
    Present,       \* locations (not Ccx) whose block exists at the start
    Serial,        \* TRUE: a request starts only when no other is running
    MaxPassports, MaxEdits, MaxRequests,    \* bounds
    None

ON_XBLOCK == "CONFIG_ON_XBLOCK"
Blank == ""
Main == Locations \ Ccx
PassportId == 1..MaxPassports
Settings == [mode : {"public_key", "keyset_url"}, pub : KeyTexts, url : KeyTexts]
NoSettings == [mode |-> "public_key", pub |-> Blank, url |-> Blank]

ASSUME LocationsAssumption ==
    /\ Ccx \subseteq Locations /\ MainOf \in [Ccx -> Main]
    /\ Legacy \subseteq Present /\ Present \subseteq Main
    /\ EndsAlike \in [Main -> SUBSET Ccx]
    /\ \A c \in Ccx : c \in EndsAlike[MainOf[c]]
    /\ \A c \in Ccx : Family[c] = Family[MainOf[c]]
ASSUME ValuesAssumption ==
    /\ Blank \in KeyTexts /\ ToolSettings \subseteq Settings
    /\ ON_XBLOCK \in Stores
    /\ Serial \in BOOLEAN
ASSUME BoundsAssumption ==
    /\ MaxPassports \in Nat /\ MaxEdits \in Nat /\ MaxRequests \in Nat
    /\ IsFiniteSet(Legacy) /\ Cardinality(Legacy) <= MaxPassports
ASSUME NoneAssumption ==
    /\ None \notin PassportId /\ None \notin Stores
    /\ None \notin [id : Nat, passport : PassportId \cup {None}, store : Stores]
    /\ None \notin [pid : PassportId, pub : KeyTexts, url : KeyTexts]
    /\ None \notin [pid : PassportId \cup {None}, tool : Settings, store : Stores]
    /\ None \notin {Family[l] : l \in Locations}
    /\ None \notin {"view", "access", "keys", "duplicate", "predelete", "delete"}

VARIABLES
    block,      \* modulestore: pid is lti_1p3_passport_id, tool the key fields
    config,     \* LtiConfiguration rows by location (unique)
    passport,   \* Lti1p3Passport rows by primary key; pid is passport_id
    minted,     \* primary keys handed out to passports
    ids,        \* primary keys handed out to configurations
    origin,     \* history: the family a passport was created for
    req,        \* the requests being served, with the instances they hold
    edits, requests    \* author and admin actions, requests begun

vars == <<block, config, passport, minted, ids, origin, req, edits, requests>>
db == <<config, passport, minted, ids, origin>>

BlockRow == [pid : PassportId \cup {None}, tool : Settings, store : Stores]
ConfigRow == [id : Nat, passport : PassportId \cup {None}, store : Stores]
PassportRow == [pid : PassportId, pub : KeyTexts, url : KeyTexts]

Idle == [pc |-> "idle", op |-> None, loc |-> None, blk |-> None, cfg |-> None,
         pk |-> None, row |-> None, locs |-> {}, doomed |-> {}]
Request ==
    [pc : {"idle", "config", "ensure", "count", "inplace", "split", "keepsplit",
           "sync", "save", "link", "keep", "attach", "returned", "keys",
           "again", "source", "target", "drop", "scan", "purge", "remove"},
     op : {None, "view", "access", "keys", "duplicate", "predelete", "delete"},
     loc : Locations \cup {None},
     blk : BlockRow \cup {None}, cfg : ConfigRow \cup {None},
     pk : PassportId \cup {None}, row : PassportRow \cup {None},
     locs : SUBSET Locations, doomed : SUBSET PassportId]

---------------------------------------------------------------------------
(* Rows *)

\* The block a usage key resolves to: a custom course shows its main course's.
Home(l) == IF l \in Ccx THEN MainOf[l] ELSE l

\* location__endswith the block id, location__startswith the CCX namespace: of
\* its own custom courses, and of every course with a block id that ends alike
Children(l) == IF l \in Ccx THEN {} ELSE EndsAlike[l]

Users(pk) == {l \in Locations : config[l] # None /\ config[l].passport = pk}
NamedAny(pid) == {p \in PassportId : passport[p] # None}  \* mutant: filter dropped
Named(pid) == {p \in PassportId : passport[p] # None /\ passport[p].pid = pid}

\* A foreign key must name an existing row.
ForeignKeyOK(pk) == pk # None => passport[pk] # None

\* mutant: the children are not updated
PushNothing(l, row) == config
\* child_configs.update(**fields of row): every child that exists
PushToChildren(l, row) ==
    [m \in Locations |->
        IF m \in Children(l) /\ config[m] # None
        THEN [row EXCEPT !.id = config[m].id] ELSE config[m]]

\* setattr of every field of the main configuration, if there is one
PullFromMain(l, row) ==
    IF config[MainOf[l]] = None THEN row
    ELSE [config[MainOf[l]] EXCEPT !.id = row.id]

\* Lti1p3Passport.objects.create with a given passport_id
Mint(pk, pid, pub, url, l) ==
    /\ minted < MaxPassports /\ pk = minted + 1
    /\ minted' = pk
    /\ passport' = [passport EXCEPT ![pk] = [pid |-> pid, pub |-> pub, url |-> url]]
    /\ origin' = [origin EXCEPT ![pk] = Family[l]]

\* Lti1p3Passport.objects.get_or_create(passport_id=pid)
GetOrCreatePassport(pk, pid, l) ==
    \/ /\ pk \in Named(pid)
       /\ UNCHANGED <<passport, minted, origin>>
    \/ /\ Named(pid) = {}
       /\ Mint(pk, pid, Blank, Blank, l)

\* passport.save(): UPDATE, or INSERT when the row is gone; passport_id is unique
SaveFits(pk, row) == Named(row.pid) \subseteq {pk}

---------------------------------------------------------------------------
(* Requests *)

Go(w, pc) == req' = [req EXCEPT ![w].pc = pc]
Set(w, r) == req' = [req EXCEPT ![w] = r]
Stop(w) == Set(w, Idle)
At(w, pc) == req[w].pc = pc
Return(w, r) == Set(w, IF r.op = "view" THEN [r EXCEPT !.pc = "returned"] ELSE Idle)

Quiet == Serial => \A w \in Workers : At(w, "idle")
Begin(w) ==
    /\ At(w, "idle") /\ Quiet
    /\ requests < MaxRequests /\ requests' = requests + 1

\* A block view: config_id_for_block(block), with the block already loaded.
StartView(w, l) ==
    /\ Begin(w)
    /\ block[Home(l)] # None
    /\ Set(w, [Idle EXCEPT !.pc = "config", !.op = "view", !.loc = l,
                           !.blk = block[Home(l)]])
    /\ UNCHANGED <<block, db, edits>>

ConfigFound(w) ==
    /\ At(w, "config") /\ config[req[w].loc] # None
    /\ Set(w, [req[w] EXCEPT !.pc = "ensure", !.cfg = config[req[w].loc]])
    /\ UNCHANGED <<block, db, edits, requests>>

\* The row objects.get_or_create(location=l) inserts: save() synchronises it.
NewConfig(l) ==
    LET row == [id |-> ids + 1, passport |-> None, store |-> ON_XBLOCK]
    IN IF l \in Ccx THEN PullFromMain(l, row) ELSE row

\* get_or_create's create, in one transaction with the post_save handler.
ConfigCreated(w) ==
    LET l == req[w].loc  row == NewConfig(l)  b == block[Home(l)]
        Insert(pk) ==
            /\ config' = [PushToChildren(l, row) EXCEPT ![l] = [row EXCEPT !.passport = pk]]
            /\ ids' = ids + 1
            /\ Set(w, [req[w] EXCEPT !.pc = "ensure", !.cfg = [row EXCEPT !.passport = pk]])
    IN  /\ At(w, "config") /\ config[l] = None
        /\ \/ /\ row.passport # None
              /\ Insert(row.passport)
              /\ UNCHANGED <<block, passport, minted, origin>>
           \/ /\ row.passport = None /\ b # None /\ b.pid # None
              /\ \E pk \in PassportId : GetOrCreatePassport(pk, b.pid, l) /\ Insert(pk)
              /\ UNCHANGED block
           \/ /\ row.passport = None /\ b # None /\ b.pid = None
              /\ \E pk \in PassportId :
                    /\ Mint(pk, pk, Blank, Blank, l) /\ Insert(pk)
                    /\ block' = [block EXCEPT ![Home(l)].pid = pk]
           \/ /\ row.passport = None /\ b = None    \* ItemNotFoundError: rolled back
              /\ Stop(w) /\ UNCHANGED <<block, db>>
        /\ UNCHANGED <<edits, requests>>

---------------------------------------------------------------------------
(* _ensure_lti_passport *)

\* lti_config.lti_1p3_passport: a SELECT by the key the instance holds
EnsurePassport(w) ==
    LET cfg == req[w].cfg IN
    /\ At(w, "ensure")
    /\ \/ /\ cfg.passport = None
          /\ Go(w, "sync")
       \/ /\ cfg.passport # None /\ passport[cfg.passport] = None    \* DoesNotExist
          /\ Stop(w)
       \/ /\ cfg.passport # None /\ passport[cfg.passport] # None
          /\ cfg.store # ON_XBLOCK
          /\ Set(w, [req[w] EXCEPT !.pc = "sync", !.pk = cfg.passport])
       \/ /\ cfg.passport # None /\ passport[cfg.passport] # None
          /\ cfg.store = ON_XBLOCK
          /\ Set(w, [req[w] EXCEPT !.pc = "count", !.pk = cfg.passport,
                                   !.row = passport[cfg.passport]])
    /\ UNCHANGED <<block, db, edits, requests>>

SameKeys(tool, row) == tool.pub = row.pub /\ tool.url = row.url
PublicKeyMismatch(tool, row) == row.pub # tool.pub    \* mutant: mode ignored
KeyMismatch(tool, row) ==
    \/ tool.mode = "public_key" /\ row.pub # tool.pub
    \/ tool.mode = "keyset_url" /\ row.url # tool.url
BlankKeys(row) == row.pub = Blank /\ row.url = Blank
UpdatesAlways(pk, row) == TRUE                \* mutant: sharing not counted
UpdatesBlankOnly(pk, row) == BlankKeys(row)   \* mutant: sole user not recognised
UpdatesInPlace(pk, row) == Cardinality(Users(pk)) = 1 \/ BlankKeys(row)

CountUsers(w) ==
    LET tool == req[w].blk.tool  row == req[w].row
        inPlace == UpdatesInPlace(req[w].pk, row)
    IN  /\ At(w, "count")
        /\ \/ inPlace /\ ~SameKeys(tool, row) /\ Go(w, "inplace")
           \/ inPlace /\ SameKeys(tool, row) /\ Go(w, "sync")
           \/ ~inPlace /\ KeyMismatch(tool, row) /\ Go(w, "split")
           \/ ~inPlace /\ ~KeyMismatch(tool, row) /\ Go(w, "sync")
        /\ UNCHANGED <<block, db, edits, requests>>

UpdateInPlace(w) ==
    LET pk == req[w].pk  tool == req[w].blk.tool
        row == [req[w].row EXCEPT !.pub = tool.pub, !.url = tool.url]
    IN  /\ At(w, "inplace")
        /\ \/ /\ SaveFits(pk, row)
              /\ passport' = [passport EXCEPT ![pk] = row]
              /\ Set(w, [req[w] EXCEPT !.pc = "sync", !.row = row])
           \/ /\ ~SaveFits(pk, row)    \* IntegrityError
              /\ Stop(w) /\ UNCHANGED passport
        /\ UNCHANGED <<block, config, minted, ids, origin, edits, requests>>

SplitPassport(w) ==
    /\ At(w, "split")
    /\ \E pk \in PassportId :
        /\ Mint(pk, pk, req[w].blk.tool.pub, req[w].blk.tool.url, req[w].loc)
        /\ Set(w, [req[w] EXCEPT !.pc = "keepsplit", !.pk = pk, !.blk.pid = pk])
    /\ UNCHANGED <<block, config, ids, edits, requests>>

\* save_xblock(block): the whole block the request loaded, with its new id
SaveBlock(w, pc) ==
    LET h == Home(req[w].loc) IN
    \/ block[h] # None /\ block' = [block EXCEPT ![h] = req[w].blk] /\ Go(w, pc)
    \/ block[h] = None /\ Stop(w) /\ UNCHANGED block

\* mutant: the block is not saved
KeepNothing(w) ==
    /\ At(w, "keepsplit") /\ Go(w, "sync")
    /\ UNCHANGED <<block, db, edits, requests>>
KeepSplit(w) ==
    /\ At(w, "keepsplit") /\ SaveBlock(w, "sync")
    /\ UNCHANGED <<db, edits, requests>>

---------------------------------------------------------------------------
(* LtiConfiguration.save *)

\* mutant: a configuration keeps the passport it has
StoreUpdated(r) ==
    [r.cfg EXCEPT !.store = IF r.op = "view" THEN r.blk.store ELSE @]
\* "Only save if changed": updates against the instance read earlier
Updated(r) ==
    [r.cfg EXCEPT !.store = IF r.op = "view" THEN r.blk.store ELSE @,
                  !.passport = IF r.pk = None THEN @ ELSE r.pk]

\* sync_configurations, the first half of save()
SyncConfigurations(w) ==
    LET r == req[w]  l == r.loc  new == Updated(r) IN
    /\ At(w, "sync")
    /\ \/ /\ r.op = "view" /\ new = r.cfg
          /\ Return(w, r) /\ UNCHANGED config
       \/ /\ r.op # "view" \/ new # r.cfg
          /\ l \in Ccx
          /\ Set(w, [r EXCEPT !.pc = "save", !.cfg = PullFromMain(l, new)])
          /\ UNCHANGED config
       \/ /\ r.op # "view" \/ new # r.cfg
          /\ l \notin Ccx
          /\ LET pushed == PushToChildren(l, new) IN
             \/ /\ pushed = config \/ ForeignKeyOK(new.passport)
                /\ config' = pushed
                /\ Set(w, [r EXCEPT !.pc = "save", !.cfg = new])
             \/ /\ pushed # config /\ ~ForeignKeyOK(new.passport)
                /\ Stop(w) /\ UNCHANGED config
    /\ UNCHANGED <<block, passport, minted, ids, origin, edits, requests>>

\* UPDATE by primary key, or INSERT when that row is gone; location is unique
RowFits(l, cfg) == config[l] # None => config[l].id = cfg.id

SaveConfig(w) ==
    LET r == req[w]  l == r.loc IN
    /\ At(w, "save")
    /\ \/ /\ RowFits(l, r.cfg) /\ ForeignKeyOK(r.cfg.passport)
          /\ config' = [config EXCEPT ![l] = r.cfg]
          /\ IF r.cfg.passport = None THEN Go(w, "link") ELSE Return(w, r)
       \/ /\ ~(RowFits(l, r.cfg) /\ ForeignKeyOK(r.cfg.passport))    \* IntegrityError
          /\ Stop(w) /\ UNCHANGED config
    /\ UNCHANGED <<block, passport, minted, ids, origin, edits, requests>>

---------------------------------------------------------------------------
(* get_or_create_lti_1p3_passport, outside a transaction *)

\* A launch, a keyset or a client id is asked of a configuration without passport.
StartAccess(w, l) ==
    /\ Begin(w)
    /\ config[l] # None /\ config[l].passport = None
    /\ Set(w, [Idle EXCEPT !.pc = "link", !.op = "access", !.loc = l, !.cfg = config[l]])
    /\ UNCHANGED <<block, db, edits>>

\* mutant: lti_1p3_passport_id is not tested
LinkAnyId(w) ==
    LET l == req[w].loc  b == block[Home(l)] IN
    /\ At(w, "link")
    /\ \/ /\ b = None
          /\ Stop(w) /\ UNCHANGED <<passport, minted, origin>>
       \/ /\ b # None
          /\ \E pk \in PassportId :
                /\ GetOrCreatePassport(pk, b.pid, l)
                /\ Set(w, [req[w] EXCEPT !.pc = "attach", !.pk = pk])
    /\ UNCHANGED <<block, config, ids, edits, requests>>
LinkPassport(w) ==
    LET l == req[w].loc  b == block[Home(l)] IN
    /\ At(w, "link")
    /\ \/ /\ b = None
          /\ Stop(w) /\ UNCHANGED <<passport, minted, origin>>
       \/ /\ b # None /\ b.pid # None
          /\ \E pk \in PassportId :
                /\ GetOrCreatePassport(pk, b.pid, l)
                /\ Set(w, [req[w] EXCEPT !.pc = "attach", !.pk = pk])
       \/ /\ b # None /\ b.pid = None
          /\ \E pk \in PassportId :
                /\ Mint(pk, pk, Blank, Blank, l)
                /\ Set(w, [req[w] EXCEPT !.pc = "keep", !.pk = pk,
                                         !.blk = [b EXCEPT !.pid = pk]])
    /\ UNCHANGED <<block, config, ids, edits, requests>>

\* mutant: the new id is not saved with the block
LinkUnsaved(w) ==
    /\ At(w, "keep") /\ Go(w, "attach")
    /\ UNCHANGED <<block, db, edits, requests>>
KeepLink(w) ==
    /\ At(w, "keep") /\ SaveBlock(w, "attach")
    /\ UNCHANGED <<db, edits, requests>>

\* filter(pk=self.pk).update(lti_1p3_passport=...), then refresh_from_db
AttachPassport(w) ==
    LET r == req[w]  l == r.loc IN
    /\ At(w, "attach")
    /\ \/ /\ config[l] # None /\ config[l].id = r.cfg.id /\ ForeignKeyOK(r.pk)
          /\ config' = [config EXCEPT ![l].passport = r.pk]
          /\ Return(w, [r EXCEPT !.cfg = config'[l]])
       \/ /\ ~(config[l] # None /\ config[l].id = r.cfg.id /\ ForeignKeyOK(r.pk))
          /\ Stop(w) /\ UNCHANGED config
    /\ UNCHANGED <<block, passport, minted, ids, origin, edits, requests>>

Finish(w) ==
    /\ At(w, "returned") /\ Stop(w)
    /\ UNCHANGED <<block, db, edits, requests>>

---------------------------------------------------------------------------
(* _generate_lti_1p3_keys_if_missing *)

\* A launch, a token or a keyset: the passport is read (its keys made) ...
StartKeys(w, p) ==
    /\ Begin(w)
    /\ passport[p] # None
    /\ Set(w, [Idle EXCEPT !.pc = "keys", !.op = "keys", !.pk = p, !.row = passport[p]])
    /\ UNCHANGED <<block, db, edits>>

\* ... and saved whole, whether or not a key was missing: once for a keyset,
\* and once more for the key id of a launch or a token.
AtKeys(w) == At(w, "keys") \/ At(w, "again")
SaveKeys(w) ==
    LET pk == req[w].pk  row == req[w].row IN
    /\ AtKeys(w)
    /\ \/ /\ SaveFits(pk, row)
          /\ passport' = [passport EXCEPT ![pk] = row]
          /\ Stop(w) \/ (At(w, "keys") /\ Go(w, "again"))
       \/ /\ ~SaveFits(pk, row)    \* IntegrityError
          /\ Stop(w) /\ UNCHANGED passport
    /\ UNCHANGED <<block, config, minted, ids, origin, edits, requests>>

---------------------------------------------------------------------------
(* XBLOCK_DUPLICATED *)

\* Studio copies the block, then sends the event.
DuplicateBlock(w, src, dst) ==
    /\ Begin(w)
    /\ Family[src] = Family[dst] /\ Children(dst) = {}
    /\ block[src] # None /\ block[dst] = None /\ config[dst] = None
    /\ block' = [block EXCEPT ![dst] = block[src]]
    /\ Set(w, [Idle EXCEPT !.pc = "source", !.op = "duplicate", !.loc = dst,
                           !.locs = {src}])
    /\ UNCHANGED <<db, edits>>

ReadSource(w) ==
    /\ At(w, "source")
    /\ \E src \in req[w].locs :
        \/ config[src] = None /\ Stop(w)
        \/ config[src] # None
           /\ Set(w, [req[w] EXCEPT !.pc = "target", !.cfg = config[src]])
    /\ UNCHANGED <<block, db, edits, requests>>

\* The copy is a new row with every other field of the source.
CheckTarget(w) ==
    /\ At(w, "target")
    /\ \/ /\ config[req[w].loc] # None
          /\ Stop(w) /\ UNCHANGED ids
       \/ /\ config[req[w].loc] = None
          /\ ids' = ids + 1
          /\ Set(w, [req[w] EXCEPT !.pc = "sync", !.cfg.id = ids'])
    /\ UNCHANGED <<block, config, passport, minted, origin, edits, requests>>

---------------------------------------------------------------------------
(* pre_item_delete, XBLOCK_DELETED and LIBRARY_BLOCK_DELETED *)

\* Studio deletes a subtree whose LTI blocks are S: one signal before the
\* blocks go, one after.
StartDelete(w, S) ==
    /\ Begin(w)
    /\ S # {} /\ \A l \in S : block[l] # None
    /\ Set(w, [Idle EXCEPT !.pc = "drop", !.op = "predelete", !.locs = S])
    /\ UNCHANGED <<block, db, edits>>

\* mutant: only XBLOCK_DELETED is handled
DropRootConfig(w) ==
    /\ At(w, "drop")
    /\ config' = [l \in Locations |->
                    IF req[w].op = "delete" /\ l \in req[w].locs THEN None ELSE config[l]]
    /\ Go(w, "scan")
    /\ UNCHANGED <<block, passport, minted, ids, origin, edits, requests>>
DropConfigs(w) ==
    /\ At(w, "drop")
    /\ config' = [l \in Locations |-> IF l \in req[w].locs THEN None ELSE config[l]]
    /\ Go(w, "scan")
    /\ UNCHANGED <<block, passport, minted, ids, origin, edits, requests>>

\* mutant: only the passports that the deleted blocks name
ScanNamed(w) ==
    /\ At(w, "scan")
    /\ Set(w, [req[w] EXCEPT !.pc = "purge",
            !.doomed = {p \in PassportId : passport[p] # None /\ Users(p) = {}
                          /\ \E l \in req[w].locs : block[l] # None /\ block[l].pid = passport[p].pid}])
    /\ UNCHANGED <<block, db, edits, requests>>
\* filter(lticonfiguration__isnull=True): the collector's SELECT ...
ScanOrphans(w) ==
    /\ At(w, "scan")
    /\ Set(w, [req[w] EXCEPT !.pc = "purge",
            !.doomed = {p \in PassportId : passport[p] # None /\ Users(p) = {}}])
    /\ UNCHANGED <<block, db, edits, requests>>

\* on_delete=SET_NULL, then DELETE, in one transaction
DeletePassports(P) ==
    /\ passport' = [p \in PassportId |-> IF p \in P THEN None ELSE passport[p]]
    /\ config' = [l \in Locations |->
                    IF config[l] # None /\ config[l].passport \in P
                    THEN [config[l] EXCEPT !.passport = None] ELSE config[l]]

\* ... and its DELETE of the rows it selected
PurgeOrphans(w) ==
    /\ At(w, "purge")
    /\ DeletePassports(req[w].doomed)
    /\ IF req[w].op = "predelete" THEN Set(w, [req[w] EXCEPT !.pc = "remove", !.doomed = {}])
       ELSE Stop(w)
    /\ UNCHANGED <<block, minted, ids, origin, edits, requests>>

\* The blocks leave the modulestore; XBLOCK_DELETED names the root alone.
RemoveBlocks(w) ==
    /\ At(w, "remove")
    /\ block' = [l \in Main |-> IF l \in req[w].locs THEN None ELSE block[l]]
    /\ Set(w, [req[w] EXCEPT !.pc = "drop", !.op = "delete",
                    !.locs = IF Cardinality(@) = 1 THEN @ ELSE {}])
    /\ UNCHANGED <<db, edits, requests>>

---------------------------------------------------------------------------
(* Authors and admins *)

Edit == Quiet /\ edits < MaxEdits /\ edits' = edits + 1

EditTool(l, t) ==
    /\ Edit /\ block[l] # None /\ block[l].tool # t
    /\ block' = [block EXCEPT ![l].tool = t]
    /\ UNCHANGED <<db, req, requests>>

EditStore(l, s) ==
    /\ Edit /\ block[l] # None /\ block[l].store # s
    /\ block' = [block EXCEPT ![l].store = s]
    /\ UNCHANGED <<db, req, requests>>

\* add_xml_to_node: an export carries the passport id the database knows.
ExportedPid(l) ==
    IF config[l] # None /\ config[l].passport # None
    THEN passport[config[l].passport].pid ELSE block[l].pid

PasteBlock(src, dst) ==
    /\ Edit /\ Family[src] = Family[dst] /\ Children(dst) = {}
    /\ block[src] # None /\ block[dst] = None /\ config[dst] = None
    /\ block' = [block EXCEPT ![dst] = [block[src] EXCEPT !.pid = ExportedPid(src)]]
    /\ UNCHANGED <<db, req, requests>>

AdminDeletePassport(p) ==
    /\ Edit /\ passport[p] # None
    /\ DeletePassports({p})
    /\ UNCHANGED <<block, minted, ids, origin, req, requests>>

---------------------------------------------------------------------------

\* The n-th legacy location got passport and configuration n (migration 0021).
LegacyNumbers == {f \in [Legacy -> 1..Cardinality(Legacy)] :
                    \A l, m \in Legacy : f[l] = f[m] => l = m}

Init ==
    \E f \in LegacyNumbers :
    /\ block = [l \in Main |-> IF l \in Present
                  THEN [pid |-> None, tool |-> NoSettings, store |-> ON_XBLOCK] ELSE None]
    /\ config = [l \in Locations |-> IF l \in Legacy
                  THEN [id |-> f[l], passport |-> f[l], store |-> ON_XBLOCK] ELSE None]
    /\ passport = [p \in PassportId |-> IF \E l \in Legacy : f[l] = p
                  THEN [pid |-> p, pub |-> Blank, url |-> Blank] ELSE None]
    /\ origin = [p \in PassportId |-> IF \E l \in Legacy : f[l] = p
                  THEN Family[CHOOSE l \in Legacy : f[l] = p] ELSE None]
    /\ minted = Cardinality(Legacy) /\ ids = Cardinality(Legacy)
    /\ req = [w \in Workers |-> Idle]
    /\ edits = 0 /\ requests = 0

Step(w) ==
    \/ ConfigFound(w) \/ ConfigCreated(w)
    \/ EnsurePassport(w) \/ CountUsers(w) \/ UpdateInPlace(w)
    \/ SplitPassport(w) \/ KeepSplit(w)
    \/ SyncConfigurations(w) \/ SaveConfig(w)
    \/ LinkPassport(w) \/ KeepLink(w) \/ AttachPassport(w) \/ Finish(w)
    \/ SaveKeys(w)
    \/ ReadSource(w) \/ CheckTarget(w)
    \/ DropConfigs(w) \/ ScanOrphans(w) \/ PurgeOrphans(w) \/ RemoveBlocks(w)

Next ==
    \/ \E w \in Workers :
        \/ Step(w)
        \/ \E l \in Locations : StartView(w, l) \/ StartAccess(w, l)
        \/ \E p \in PassportId : StartKeys(w, p)
        \/ \E src, dst \in Main : DuplicateBlock(w, src, dst)
        \/ \E S \in SUBSET Main : StartDelete(w, S)
    \/ \E l \in Main :
        \/ \E t \in ToolSettings : EditTool(l, t)
        \/ \E s \in Stores : EditStore(l, s)
    \/ \E src, dst \in Main : PasteBlock(src, dst)
    \/ \E p \in PassportId : AdminDeletePassport(p)

Spec == Init /\ [][Next]_vars

---------------------------------------------------------------------------
(* Properties *)

AllIdle == \A w \in Workers : At(w, "idle")
Linked(l) == config[l] # None /\ config[l].passport # None

\* The rows, the blocks and the instances in flight have the shape models.py
\* and data on the block give them.
TypeOK ==
    /\ block \in [Main -> BlockRow \cup {None}]
    /\ config \in [Locations -> ConfigRow \cup {None}]
    /\ passport \in [PassportId -> PassportRow \cup {None}]
    /\ minted \in 0..MaxPassports /\ ids \in Nat
    /\ origin \in [PassportId -> {Family[l] : l \in Locations} \cup {None}]
    /\ req \in [Workers -> Request]
    /\ edits \in 0..MaxEdits /\ requests \in 0..MaxRequests

\* Two blocks hold the same credentials only when one was copied from the
\* other: whatever the interleaving of views, copies, deletions and saves of
\* stale instances, no block ends up with an unrelated tool's passport.
CredentialsStayInFamily ==
    \A l, m \in Locations :
        Linked(l) /\ Linked(m) /\ config[l].passport = config[m].passport
        => Family[l] = Family[m]

\* A view that compared the keys of the block with those of its passport
\* (_ensure_lti_passport) leaves the block with a passport that carries the
\* key the block's mode selects.
ViewSettles ==
    \A w \in Workers :
        LET r == req[w]  l == r.loc IN
        At(w, "returned") /\ r.row # None =>
            /\ Linked(l)
            /\ LET row == passport[config[l].passport] IN
               IF r.blk.tool.mode = "public_key" THEN row.pub = r.blk.tool.pub
               ELSE row.url = r.blk.tool.url

\* "updates passport in place when safe, and splits to new passport when
\* current passport is shared" (api.py:33): the keys of a passport that two
\* configurations use, once set, are not changed by a view of one of them.
SharedKeysStable ==
    [][\A p \in PassportId :
          /\ passport[p] # None /\ passport'[p] # None
          /\ passport[p].pub # Blank \/ passport[p].url # Blank
          /\ Cardinality(Users(p)) > 1
          /\ \A w \in Workers : AtKeys(w) => req'[w] = req[w]
          => passport'[p] = passport[p]]_vars

\* Between requests, the passport id a block carries (and exports) is that of
\* the passport its configuration uses.
BlockFollowsConfig ==
    AllIdle => \A l \in Main :
        block[l] # None /\ block[l].pid # None /\ Linked(l)
        => passport[config[l].passport].pid = block[l].pid

\* Between requests every passport serves a configuration, unless an admin's
\* or a cleanup's deletion just unlinked it: splits and copies leak none.
NoOrphanPassports ==
    AllIdle => \A p \in PassportId : passport[p] # None => Users(p) # {}

\* Between requests, a block that was deleted has left no configuration.
NoConfigWithoutBlock ==
    AllIdle => \A l \in Main : config[l] # None => block[l] # None

\* Saving a configuration updates no configuration but its own children: "it
\* will try to query any children configuration and update their fields"
\* (models.py:376).
SyncStaysInCourse ==
    [][\A w \in Workers : At(w, "sync") \/ At(w, "config") =>
          \A l \in Locations \ {req[w].loc} : req'[w] # req[w] /\ config'[l] # config[l] =>
              l \in Ccx /\ MainOf[l] = req[w].loc]_vars
============================================================================
