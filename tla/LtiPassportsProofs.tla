------------------------ MODULE LtiPassportsProofs ------------------------
(***************************************************************************)
(* Proofs about LtiPassports, for any number of blocks, custom courses,    *)
(* workers and passports, and any interleaving of requests: the rows keep  *)
(* their shape, and credentials stay among the copies of their block.      *)
(***************************************************************************)
EXTENDS LtiPassports, FiniteSetTheorems, TLAPS

\* Which instances a request holds at each point.
Shape(r) ==
    /\ r.pc \notin {"idle", "keys", "again", "drop", "scan", "purge", "remove"} => r.loc \in Locations
    /\ r.pc \in {"config", "ensure", "count", "inplace", "split", "keepsplit", "keep"}
       => r.blk # None
    /\ r.op = "view" => r.blk # None
    /\ r.pc \in {"ensure", "count", "inplace", "split", "keepsplit", "sync", "save",
                 "link", "keep", "attach", "target"} => r.cfg # None
    /\ r.pc \in {"count", "inplace", "split", "keys", "again"} => r.row # None
    /\ r.pc \in {"count", "inplace", "split", "keepsplit", "keep", "attach",
                 "keys", "again"} => r.pk # None

ReqOK == req \in [Workers -> Request] /\ \A w \in Workers : Shape(req[w])
TypeInv == TypeOK /\ ReqOK

\* The foreign key: an export reads the passport that a configuration names.
NoDanglingPassport == \A l \in Locations : Linked(l) => passport[config[l].passport] # None

---------------------------------------------------------------------------

LEMMA IdleTyped == Idle \in Request /\ Shape(Idle)
BY NoneAssumption DEF Idle, Request, Shape

LEMMA SetTyped ==
    ASSUME ReqOK, NEW w \in Workers, NEW r \in Request, Shape(r), Set(w, r)
    PROVE  ReqOK'
BY DEF ReqOK, Set

LEMMA StopTyped ==
    ASSUME ReqOK, NEW w \in Workers, Stop(w)
    PROVE  ReqOK'
BY SetTyped, IdleTyped DEF Stop

LEMMA AtTyped ==
    ASSUME TypeInv, NEW w \in Workers, NEW pc, At(w, pc)
    PROVE  req[w] \in Request /\ Shape(req[w]) /\ req[w].pc = pc
BY DEF TypeInv, ReqOK, At

LEMMA HomeTyped == \A l \in Locations : Home(l) \in Main
BY LocationsAssumption DEF Home, Main

LEMMA PushTyped ==
    ASSUME TypeOK, NEW l \in Locations, NEW row \in ConfigRow
    PROVE  PushToChildren(l, row) \in [Locations -> ConfigRow \cup {None}]
BY DEF TypeOK, PushToChildren, ConfigRow

LEMMA PullTyped ==
    ASSUME TypeOK, NEW l \in Ccx, NEW row \in ConfigRow
    PROVE  PullFromMain(l, row) \in ConfigRow
BY LocationsAssumption DEF TypeOK, PullFromMain, ConfigRow, Main

LEMMA NewConfigTyped ==
    ASSUME TypeOK, NEW l \in Locations
    PROVE  NewConfig(l) \in ConfigRow
<1> DEFINE row == [id |-> ids + 1, passport |-> None, store |-> ON_XBLOCK]
<1>0. ids + 1 \in Nat /\ ON_XBLOCK \in Stores
  BY ValuesAssumption DEF TypeOK
<1>1. row \in ConfigRow
  BY <1>0 DEF ConfigRow
<1>2. l \in Ccx => PullFromMain(l, row) \in ConfigRow
  BY <1>1, PullTyped
<1>3. NewConfig(l) = IF l \in Ccx THEN PullFromMain(l, row) ELSE row
  BY DEF NewConfig
<1> QED BY <1>1, <1>2, <1>3

LEMMA MintTyped ==
    ASSUME TypeOK, NEW pk, NEW pid \in PassportId, NEW pub \in KeyTexts, NEW url \in KeyTexts,
           NEW l \in Locations, Mint(pk, pid, pub, url, l)
    PROVE  /\ pk \in PassportId /\ passport'[pk] # None
           /\ \A p \in PassportId : passport[p] # None => passport'[p] # None
           /\ passport' \in [PassportId -> PassportRow \cup {None}]
           /\ minted' \in 0..MaxPassports
           /\ origin' \in [PassportId -> {Family[m] : m \in Locations} \cup {None}]
<1>1. pk \in PassportId /\ minted' \in 0..MaxPassports
  BY BoundsAssumption DEF TypeOK, Mint, PassportId
<1>2. [pid |-> pid, pub |-> pub, url |-> url] \in PassportRow
  BY DEF PassportRow
<1>3. [pid |-> pid, pub |-> pub, url |-> url] # None
  BY NoneAssumption
<1> QED BY <1>1, <1>2, <1>3 DEF TypeOK, Mint

LEMMA GetOrCreateTyped ==
    ASSUME TypeOK, NEW pk, NEW pid \in PassportId, NEW l \in Locations,
           GetOrCreatePassport(pk, pid, l)
    PROVE  /\ pk \in PassportId /\ passport'[pk] # None
           /\ \A p \in PassportId : passport[p] # None => passport'[p] # None
           /\ passport' \in [PassportId -> PassportRow \cup {None}]
           /\ minted' \in 0..MaxPassports
           /\ origin' \in [PassportId -> {Family[m] : m \in Locations} \cup {None}]
<1>1. CASE pk \in Named(pid) /\ UNCHANGED <<passport, minted, origin>>
  BY <1>1 DEF Named, TypeOK
<1>2. CASE Mint(pk, pid, Blank, Blank, l)
  BY <1>2, MintTyped, ValuesAssumption
<1> QED BY <1>1, <1>2 DEF GetOrCreatePassport

---------------------------------------------------------------------------
(* Type correctness *)

LEMMA StartTyped ==
    ASSUME TypeInv, NEW w \in Workers, NEW l \in Locations,
           StartView(w, l) \/ StartAccess(w, l)
    PROVE  TypeInv'
<1> DEFINE view == [Idle EXCEPT !.pc = "config", !.op = "view", !.loc = l, !.blk = block[Home(l)]]
           access == [Idle EXCEPT !.pc = "link", !.op = "access", !.loc = l, !.cfg = config[l]]
<1>1. requests' \in 0..MaxRequests
  BY BoundsAssumption DEF StartView, StartAccess, Begin, TypeInv, TypeOK
<1>2. CASE StartView(w, l)
  <2>1. view \in Request /\ Shape(view)
    BY <1>2, HomeTyped, IdleTyped, NoneAssumption
       DEF StartView, TypeInv, TypeOK, Idle, Request, Shape
  <2>2. ReqOK'
    BY <1>2, <2>1, SetTyped DEF StartView, TypeInv
  <2> QED BY <1>1, <1>2, <2>2 DEF StartView, TypeInv, TypeOK, ReqOK, db
<1>3. CASE StartAccess(w, l)
  <2>1. config[l] \in ConfigRow /\ config[l] # None
    BY <1>3 DEF StartAccess, TypeInv, TypeOK
  <2>2. access \in Request
    BY <2>1, IdleTyped DEF Idle, Request
  <2>3. Shape(access)
    BY <2>1, NoneAssumption DEF Idle, Shape
  <2>4. ReqOK'
    BY <1>3, <2>2, <2>3, SetTyped DEF StartAccess, TypeInv
  <2> QED BY <1>1, <1>3, <2>4 DEF StartAccess, TypeInv, TypeOK, ReqOK, db
<1> QED BY <1>2, <1>3

LEMMA ConfigFoundTyped ==
    ASSUME TypeInv, NEW w \in Workers, ConfigFound(w)
    PROVE  TypeInv'
<1> DEFINE r == [req[w] EXCEPT !.pc = "ensure", !.cfg = config[req[w].loc]]
<1>1. req[w] \in Request /\ Shape(req[w]) /\ req[w].pc = "config"
  BY AtTyped DEF ConfigFound
<1>2. req[w].loc \in Locations /\ req[w].blk # None
  BY <1>1 DEF Shape
<1>3. config[req[w].loc] \in ConfigRow /\ config[req[w].loc] # None
  BY <1>2 DEF ConfigFound, TypeInv, TypeOK
<1>4. r \in Request
  BY <1>1, <1>3 DEF Request
<1>5. Shape(r)
  BY <1>1, <1>2, <1>3, <1>4 DEF Request, Shape
<1>6. ReqOK'
  BY <1>4, <1>5, SetTyped DEF ConfigFound, TypeInv
<1> QED BY <1>6 DEF ConfigFound, TypeInv, TypeOK, ReqOK, db

LEMMA ConfigCreatedTyped ==
    ASSUME TypeInv, NEW w \in Workers, ConfigCreated(w)
    PROVE  TypeInv'
<1> DEFINE l == req[w].loc
           row == NewConfig(l)
           b == block[Home(l)]
           Insert(pk) ==
            /\ config' = [PushToChildren(l, row) EXCEPT ![l] = [row EXCEPT !.passport = pk]]
            /\ ids' = ids + 1
            /\ Set(w, [req[w] EXCEPT !.pc = "ensure", !.cfg = [row EXCEPT !.passport = pk]])
<1>1. req[w] \in Request /\ Shape(req[w]) /\ req[w].pc = "config"
  BY AtTyped DEF ConfigCreated
<1>2. l \in Locations /\ req[w].blk # None
  BY <1>1 DEF Shape
<1>3. row \in ConfigRow /\ b \in BlockRow \cup {None}
  BY <1>2, NewConfigTyped, HomeTyped DEF TypeInv, TypeOK
<1>4. ASSUME NEW pk \in PassportId, Insert(pk)
      PROVE  /\ config' \in [Locations -> ConfigRow \cup {None}]
             /\ ids' \in Nat
             /\ ReqOK'
  <2> DEFINE cfg == [row EXCEPT !.passport = pk]
             r == [req[w] EXCEPT !.pc = "ensure", !.cfg = cfg]
  <2>1. cfg \in ConfigRow /\ cfg # None
    BY <1>3, NoneAssumption DEF ConfigRow
  <2>2. r \in Request
    BY <1>1, <2>1 DEF Request
  <2>3. Shape(r)
    BY <1>1, <1>2, <2>1, <2>2 DEF Request, Shape
  <2>4. ReqOK'
    BY <1>4, <2>2, <2>3, SetTyped DEF TypeInv
  <2>5. PushToChildren(l, row) \in [Locations -> ConfigRow \cup {None}]
    BY <1>2, <1>3, PushTyped DEF TypeInv
  <2>6. config' \in [Locations -> ConfigRow \cup {None}]
    BY <1>4, <2>1, <2>5
  <2>7. ids' \in Nat
    BY <1>4 DEF TypeInv, TypeOK
  <2> QED BY <2>4, <2>6, <2>7
<1>5. edits' \in 0..MaxEdits /\ requests' \in 0..MaxRequests
  BY DEF ConfigCreated, TypeInv, TypeOK
<1>6. CASE /\ row.passport # None /\ Insert(row.passport)
           /\ UNCHANGED <<block, passport, minted, origin>>
  <2>1. row.passport \in PassportId
    BY <1>3, <1>6 DEF ConfigRow
  <2> QED BY <1>4, <1>5, <1>6, <2>1 DEF TypeInv, TypeOK, ReqOK
<1>7. CASE /\ b # None /\ b.pid # None
           /\ \E pk \in PassportId : GetOrCreatePassport(pk, b.pid, l) /\ Insert(pk)
           /\ UNCHANGED block
  <2>1. b.pid \in PassportId
    BY <1>3, <1>7 DEF BlockRow
  <2>2. PICK pk \in PassportId : GetOrCreatePassport(pk, b.pid, l) /\ Insert(pk)
    BY <1>7
  <2>3. /\ passport' \in [PassportId -> PassportRow \cup {None}]
        /\ minted' \in 0..MaxPassports
        /\ origin' \in [PassportId -> {Family[m] : m \in Locations} \cup {None}]
    BY <1>2, <2>1, <2>2, GetOrCreateTyped DEF TypeInv
  <2>4. config' \in [Locations -> ConfigRow \cup {None}] /\ ids' \in Nat /\ ReqOK'
    BY <1>4, <2>2
  <2> QED BY <1>5, <1>7, <2>3, <2>4 DEF TypeInv, TypeOK, ReqOK
<1>8. CASE /\ b # None
           /\ \E pk \in PassportId :
                /\ Mint(pk, pk, Blank, Blank, l) /\ Insert(pk)
                /\ block' = [block EXCEPT ![Home(l)].pid = pk]
  <2>1. PICK pk \in PassportId :
                /\ Mint(pk, pk, Blank, Blank, l) /\ Insert(pk)
                /\ block' = [block EXCEPT ![Home(l)].pid = pk]
    BY <1>8
  <2>2. /\ passport' \in [PassportId -> PassportRow \cup {None}]
        /\ minted' \in 0..MaxPassports
        /\ origin' \in [PassportId -> {Family[m] : m \in Locations} \cup {None}]
    BY <1>2, <2>1, MintTyped, ValuesAssumption DEF TypeInv
  <2>3. config' \in [Locations -> ConfigRow \cup {None}] /\ ids' \in Nat /\ ReqOK'
    BY <1>4, <2>1
  <2>4. [b EXCEPT !.pid = pk] \in BlockRow
    BY <1>3, <1>8 DEF BlockRow
  <2>5. block' \in [Main -> BlockRow \cup {None}]
    BY <2>1, <2>4 DEF TypeInv, TypeOK
  <2> QED BY <1>5, <2>2, <2>3, <2>5 DEF TypeInv, TypeOK, ReqOK
<1>9. CASE Stop(w) /\ UNCHANGED <<block, db>>
  BY <1>5, <1>9, StopTyped DEF TypeInv, TypeOK, ReqOK, db
<1> QED BY <1>6, <1>7, <1>8, <1>9 DEF ConfigCreated

LEMMA EnsurePassportTyped ==
    ASSUME TypeInv, NEW w \in Workers, EnsurePassport(w)
    PROVE  TypeInv'
<1> DEFINE cfg == req[w].cfg
           found == [req[w] EXCEPT !.pc = "count", !.pk = cfg.passport,
                                   !.row = passport[cfg.passport]]
           stored == [req[w] EXCEPT !.pc = "sync", !.pk = cfg.passport]
           none == [req[w] EXCEPT !.pc = "sync"]
<1>1. req[w] \in Request /\ Shape(req[w]) /\ req[w].pc = "ensure"
  BY AtTyped DEF EnsurePassport
<1>2. req[w].loc \in Locations /\ req[w].blk # None /\ cfg \in ConfigRow /\ cfg # None
  BY <1>1 DEF Shape, Request
<1>3. none \in Request /\ Shape(none)
  BY <1>1, <1>2 DEF Request, Shape
<1>4. cfg.passport # None => cfg.passport \in PassportId
  BY <1>2 DEF ConfigRow
<1>5. cfg.passport # None => stored \in Request /\ Shape(stored)
  BY <1>1, <1>2, <1>4 DEF Request, Shape
<1>6. ASSUME cfg.passport # None, passport[cfg.passport] # None
      PROVE  found \in Request /\ Shape(found)
  <2>1. passport[cfg.passport] \in PassportRow
    BY <1>4, <1>6 DEF TypeInv, TypeOK
  <2>2. found \in Request
    BY <1>1, <1>4, <1>6, <2>1 DEF Request
  <2> QED BY <1>1, <1>2, <1>6, <2>2 DEF Request, Shape
<1>7. ReqOK'
  BY <1>3, <1>5, <1>6, SetTyped, StopTyped DEF EnsurePassport, TypeInv, Go, Set
<1> QED BY <1>7 DEF EnsurePassport, TypeInv, TypeOK, ReqOK, db

LEMMA CountUsersTyped ==
    ASSUME TypeInv, NEW w \in Workers, CountUsers(w)
    PROVE  TypeInv'
<1>1. req[w] \in Request /\ Shape(req[w]) /\ req[w].pc = "count"
  BY AtTyped DEF CountUsers
<1>2. \A pc \in {"inplace", "sync", "split"} :
        [req[w] EXCEPT !.pc = pc] \in Request /\ Shape([req[w] EXCEPT !.pc = pc])
  BY <1>1 DEF Request, Shape
<1>3. ReqOK'
  BY <1>2, SetTyped DEF CountUsers, TypeInv, Go, Set
<1> QED BY <1>3 DEF CountUsers, TypeInv, TypeOK, ReqOK, db

LEMMA UpdateInPlaceTyped ==
    ASSUME TypeInv, NEW w \in Workers, UpdateInPlace(w)
    PROVE  TypeInv'
<1> DEFINE pk == req[w].pk
           tool == req[w].blk.tool
           row == [req[w].row EXCEPT !.pub = tool.pub, !.url = tool.url]
           r == [req[w] EXCEPT !.pc = "sync", !.row = row]
<1>1. req[w] \in Request /\ Shape(req[w]) /\ req[w].pc = "inplace"
  BY AtTyped DEF UpdateInPlace
<1>2. req[w].row \in PassportRow /\ req[w].blk \in BlockRow /\ pk \in PassportId
  BY <1>1 DEF Request, Shape
<1>3. row \in PassportRow
  BY <1>2 DEF PassportRow, BlockRow, Settings
<1>4. r \in Request
  BY <1>1, <1>3 DEF Request
<1>5. Shape(r)
  BY <1>1, <1>4 DEF Request, Shape
<1>6. ReqOK'
  BY <1>4, <1>5, SetTyped, StopTyped DEF UpdateInPlace, TypeInv
<1>7. passport' \in [PassportId -> PassportRow \cup {None}]
  BY <1>3 DEF UpdateInPlace, TypeInv, TypeOK
<1> QED BY <1>6, <1>7 DEF UpdateInPlace, TypeInv, TypeOK, ReqOK

LEMMA SplitPassportTyped ==
    ASSUME TypeInv, NEW w \in Workers, SplitPassport(w)
    PROVE  TypeInv'
<1>1. req[w] \in Request /\ Shape(req[w]) /\ req[w].pc = "split"
  BY AtTyped DEF SplitPassport
<1>2. req[w].loc \in Locations /\ req[w].blk \in BlockRow /\ req[w].cfg # None
  BY <1>1 DEF Request, Shape
<1>3. req[w].blk.tool.pub \in KeyTexts /\ req[w].blk.tool.url \in KeyTexts
  BY <1>2 DEF BlockRow, Settings
<1>4. PICK pk \in PassportId :
        /\ Mint(pk, pk, req[w].blk.tool.pub, req[w].blk.tool.url, req[w].loc)
        /\ Set(w, [req[w] EXCEPT !.pc = "keepsplit", !.pk = pk, !.blk.pid = pk])
  BY DEF SplitPassport
<1> DEFINE r == [req[w] EXCEPT !.pc = "keepsplit", !.pk = pk, !.blk.pid = pk]
<1>5. [req[w].blk EXCEPT !.pid = pk] \in BlockRow /\ [req[w].blk EXCEPT !.pid = pk] # None
  BY <1>2, NoneAssumption DEF BlockRow
<1>6. r \in Request
  BY <1>1, <1>5 DEF Request
<1>7. Shape(r)
  BY <1>1, <1>2, <1>4, <1>5, NoneAssumption DEF Request, Shape
<1>8. ReqOK'
  BY <1>4, <1>6, <1>7, SetTyped DEF TypeInv
<1>9. /\ passport' \in [PassportId -> PassportRow \cup {None}]
      /\ minted' \in 0..MaxPassports
      /\ origin' \in [PassportId -> {Family[m] : m \in Locations} \cup {None}]
  BY <1>2, <1>3, <1>4, MintTyped DEF TypeInv
<1> QED BY <1>8, <1>9 DEF SplitPassport, TypeInv, TypeOK, ReqOK

LEMMA SaveBlockTyped ==
    ASSUME TypeInv, NEW w \in Workers, NEW pc,
           SaveBlock(w, pc), req[w].blk \in BlockRow,
           [req[w] EXCEPT !.pc = pc] \in Request, Shape([req[w] EXCEPT !.pc = pc])
    PROVE  ReqOK' /\ block' \in [Main -> BlockRow \cup {None}]
<1>1. ReqOK'
  BY SetTyped, StopTyped DEF SaveBlock, TypeInv, Go, Set
<1>2. block' \in [Main -> BlockRow \cup {None}]
  BY DEF SaveBlock, TypeInv, TypeOK
<1> QED BY <1>1, <1>2

LEMMA KeepTyped ==
    ASSUME TypeInv, NEW w \in Workers, KeepSplit(w) \/ KeepLink(w)
    PROVE  TypeInv'
<1>1. CASE KeepSplit(w)
  <2>1. req[w] \in Request /\ Shape(req[w]) /\ req[w].pc = "keepsplit"
    BY <1>1, AtTyped DEF KeepSplit
  <2>2. /\ req[w].blk \in BlockRow /\ [req[w] EXCEPT !.pc = "sync"] \in Request
        /\ Shape([req[w] EXCEPT !.pc = "sync"])
    BY <2>1 DEF Request, Shape
  <2>3. ReqOK' /\ block' \in [Main -> BlockRow \cup {None}]
    BY <1>1, <2>2, SaveBlockTyped DEF KeepSplit
  <2> QED BY <1>1, <2>3 DEF KeepSplit, TypeInv, TypeOK, ReqOK, db
<1>2. CASE KeepLink(w)
  <2>1. req[w] \in Request /\ Shape(req[w]) /\ req[w].pc = "keep"
    BY <1>2, AtTyped DEF KeepLink
  <2>2. /\ req[w].blk \in BlockRow /\ [req[w] EXCEPT !.pc = "attach"] \in Request
        /\ Shape([req[w] EXCEPT !.pc = "attach"])
    BY <2>1 DEF Request, Shape
  <2>3. ReqOK' /\ block' \in [Main -> BlockRow \cup {None}]
    BY <1>2, <2>2, SaveBlockTyped DEF KeepLink
  <2> QED BY <1>2, <2>3 DEF KeepLink, TypeInv, TypeOK, ReqOK, db
<1> QED BY <1>1, <1>2

LEMMA UpdatedTyped ==
    ASSUME NEW r \in Request, Shape(r), r.cfg # None
    PROVE  Updated(r) \in ConfigRow /\ Updated(r) # None
<1>1. r.cfg \in ConfigRow /\ r.pk \in PassportId \cup {None}
  BY DEF Request
<1>2. r.op = "view" => r.blk.store \in Stores
  BY DEF Request, Shape, BlockRow
<1>3. Updated(r) \in ConfigRow
  BY <1>1, <1>2 DEF Updated, ConfigRow
<1> QED BY <1>3, NoneAssumption DEF ConfigRow

LEMMA ReturnTyped ==
    ASSUME ReqOK, NEW w \in Workers, NEW r \in Request, Shape(r),
           r.loc \in Locations, Return(w, r)
    PROVE  ReqOK'
<1>1. [r EXCEPT !.pc = "returned"] \in Request /\ Shape([r EXCEPT !.pc = "returned"])
  BY DEF Request, Shape
<1> QED BY <1>1, SetTyped, IdleTyped DEF Return

LEMMA SyncConfigurationsTyped ==
    ASSUME TypeInv, NEW w \in Workers, SyncConfigurations(w)
    PROVE  TypeInv'
<1> DEFINE r == req[w]
           l == r.loc
           new == Updated(r)
<1>1. r \in Request /\ Shape(r) /\ r.pc = "sync"
  BY AtTyped DEF SyncConfigurations
<1>2. l \in Locations /\ r.cfg # None
  BY <1>1 DEF Shape
<1>3. new \in ConfigRow /\ new # None
  BY <1>1, <1>2, UpdatedTyped
<1>4. \A c \in ConfigRow : c # None =>
        [r EXCEPT !.pc = "save", !.cfg = c] \in Request
  BY <1>1 DEF Request
<1>5. \A c \in ConfigRow : c # None => Shape([r EXCEPT !.pc = "save", !.cfg = c])
  BY <1>1, <1>2, <1>4 DEF Request, Shape
<1>6. CASE Return(w, r) /\ UNCHANGED config
  BY <1>1, <1>2, <1>6, ReturnTyped DEF SyncConfigurations, TypeInv, TypeOK, ReqOK
<1>7. CASE /\ l \in Ccx /\ UNCHANGED config
           /\ Set(w, [r EXCEPT !.pc = "save", !.cfg = PullFromMain(l, new)])
  <2>1. PullFromMain(l, new) \in ConfigRow
    BY <1>3, <1>7, PullTyped DEF TypeInv
  <2>2. PullFromMain(l, new) # None
    BY <2>1, NoneAssumption DEF ConfigRow
  <2>3. ReqOK'
    BY <1>4, <1>5, <1>7, <2>1, <2>2, SetTyped DEF TypeInv
  <2> QED BY <1>7, <2>3 DEF SyncConfigurations, TypeInv, TypeOK, ReqOK
<1>8. CASE config' = PushToChildren(l, new) /\ Set(w, [r EXCEPT !.pc = "save", !.cfg = new])
  <2>1. ReqOK'
    BY <1>3, <1>4, <1>5, <1>8, SetTyped DEF TypeInv
  <2>2. config' \in [Locations -> ConfigRow \cup {None}]
    BY <1>2, <1>3, <1>8, PushTyped DEF TypeInv
  <2> QED BY <2>1, <2>2 DEF SyncConfigurations, TypeInv, TypeOK, ReqOK
<1>9. CASE Stop(w) /\ UNCHANGED config
  BY <1>9, StopTyped DEF SyncConfigurations, TypeInv, TypeOK, ReqOK
<1> QED BY <1>6, <1>7, <1>8, <1>9 DEF SyncConfigurations

LEMMA SaveConfigTyped ==
    ASSUME TypeInv, NEW w \in Workers, SaveConfig(w)
    PROVE  TypeInv'
<1>1. req[w] \in Request /\ Shape(req[w]) /\ req[w].pc = "save"
  BY AtTyped DEF SaveConfig
<1>2. req[w].loc \in Locations /\ req[w].cfg # None /\ req[w].cfg \in ConfigRow
  BY <1>1 DEF Shape, Request
<1>3. [req[w] EXCEPT !.pc = "link"] \in Request /\ Shape([req[w] EXCEPT !.pc = "link"])
  BY <1>1 DEF Request, Shape
<1>4. ReqOK'
  BY <1>1, <1>2, <1>3, SetTyped, StopTyped, ReturnTyped DEF SaveConfig, TypeInv, Go, Set
<1>5. config' \in [Locations -> ConfigRow \cup {None}]
  BY <1>2 DEF SaveConfig, TypeInv, TypeOK
<1> QED BY <1>4, <1>5 DEF SaveConfig, TypeInv, TypeOK, ReqOK

LEMMA LinkPassportTyped ==
    ASSUME TypeInv, NEW w \in Workers, LinkPassport(w)
    PROVE  TypeInv'
<1> DEFINE l == req[w].loc
           b == block[Home(l)]
           attach(pk) == [req[w] EXCEPT !.pc = "attach", !.pk = pk]
           keep(pk) == [req[w] EXCEPT !.pc = "keep", !.pk = pk, !.blk = [b EXCEPT !.pid = pk]]
           DbTyped == /\ passport \in [PassportId -> PassportRow \cup {None}]
                      /\ minted \in 0..MaxPassports
                      /\ origin \in [PassportId -> {Family[m] : m \in Locations} \cup {None}]
<1>1. req[w] \in Request /\ Shape(req[w]) /\ req[w].pc = "link"
  BY AtTyped DEF LinkPassport
<1>2. l \in Locations /\ req[w].cfg # None /\ b \in BlockRow \cup {None}
  BY <1>1, HomeTyped DEF Shape, TypeInv, TypeOK
<1>3. \A pk \in PassportId : attach(pk) \in Request /\ pk # None
  BY <1>1, NoneAssumption DEF Request
<1>4. \A pk \in PassportId : Shape(attach(pk))
  BY <1>1, <1>2, <1>3 DEF Request, Shape
<1>5. CASE b = None /\ Stop(w) /\ UNCHANGED <<passport, minted, origin>>
  BY <1>5, StopTyped DEF LinkPassport, TypeInv, TypeOK, ReqOK
<1>6. CASE /\ b # None /\ b.pid # None
           /\ \E pk \in PassportId :
                GetOrCreatePassport(pk, b.pid, l) /\ Set(w, attach(pk))
  <2>1. b.pid \in PassportId
    BY <1>2, <1>6 DEF BlockRow
  <2>2. PICK pk \in PassportId : GetOrCreatePassport(pk, b.pid, l) /\ Set(w, attach(pk))
    BY <1>6
  <2>3. DbTyped'
    BY <1>2, <2>1, <2>2, GetOrCreateTyped DEF TypeInv
  <2>4. ReqOK'
    BY <1>3, <1>4, <2>2, SetTyped DEF TypeInv
  <2> QED BY <2>3, <2>4 DEF LinkPassport, TypeInv, TypeOK, ReqOK
<1>7. CASE /\ b # None
           /\ \E pk \in PassportId : Mint(pk, pk, Blank, Blank, l) /\ Set(w, keep(pk))
  <2>1. PICK pk \in PassportId : Mint(pk, pk, Blank, Blank, l) /\ Set(w, keep(pk))
    BY <1>7
  <2>2. DbTyped'
    BY <1>2, <2>1, MintTyped, ValuesAssumption DEF TypeInv
  <2>3. [b EXCEPT !.pid = pk] \in BlockRow /\ [b EXCEPT !.pid = pk] # None
    BY <1>2, <1>7, NoneAssumption DEF BlockRow
  <2>4. keep(pk) \in Request
    BY <1>1, <2>3 DEF Request
  <2>5. Shape(keep(pk))
    <3>1. /\ keep(pk).pc = "keep" /\ keep(pk).loc = l /\ keep(pk).pk = pk
          /\ keep(pk).blk = [b EXCEPT !.pid = pk] /\ keep(pk).cfg = req[w].cfg
      BY <1>1 DEF Request
    <3> QED BY <1>2, <1>3, <2>3, <3>1 DEF Shape
  <2>6. ReqOK'
    BY <2>1, <2>4, <2>5, SetTyped DEF TypeInv
  <2> QED BY <2>2, <2>6 DEF LinkPassport, TypeInv, TypeOK, ReqOK
<1> QED BY <1>5, <1>6, <1>7 DEF LinkPassport

LEMMA AttachPassportTyped ==
    ASSUME TypeInv, NEW w \in Workers, AttachPassport(w)
    PROVE  TypeInv'
<1> DEFINE r == req[w]
           l == r.loc
           cfg == [config[l] EXCEPT !.passport = r.pk]
<1>1. r \in Request /\ Shape(r) /\ r.pc = "attach"
  BY AtTyped DEF AttachPassport
<1>2. l \in Locations /\ r.pk \in PassportId
  BY <1>1 DEF Shape, Request
<1>3. CASE /\ config[l] # None
           /\ config' = [config EXCEPT ![l].passport = r.pk]
           /\ Return(w, [r EXCEPT !.cfg = config'[l]])
  <2>1. cfg \in ConfigRow /\ cfg # None
    BY <1>2, <1>3, NoneAssumption DEF TypeInv, TypeOK, ConfigRow
  <2>2. config' = [config EXCEPT ![l] = cfg]
    BY <1>3
  <2>3. config' \in [Locations -> ConfigRow \cup {None}] /\ config'[l] = cfg
    BY <1>2, <2>1, <2>2 DEF TypeInv, TypeOK
  <2>4. [r EXCEPT !.cfg = cfg] \in Request /\ Shape([r EXCEPT !.cfg = cfg])
    BY <1>1, <2>1 DEF Request, Shape
  <2>5. Return(w, [r EXCEPT !.cfg = cfg])
    BY <1>3, <2>3
  <2>6. [r EXCEPT !.cfg = cfg].loc \in Locations
    BY <1>1, <1>2 DEF Request
  <2>7. ReqOK'
    BY <2>4, <2>5, <2>6, ReturnTyped DEF TypeInv
  <2> QED BY <2>3, <2>7 DEF AttachPassport, TypeInv, TypeOK, ReqOK
<1>4. CASE Stop(w) /\ UNCHANGED config
  BY <1>4, StopTyped DEF AttachPassport, TypeInv, TypeOK, ReqOK
<1> QED BY <1>3, <1>4 DEF AttachPassport

LEMMA FinishTyped ==
    ASSUME TypeInv, NEW w \in Workers, Finish(w)
    PROVE  TypeInv'
BY StopTyped DEF Finish, TypeInv, TypeOK, ReqOK, db

LEMMA DuplicateTyped ==
    ASSUME TypeInv, NEW w \in Workers, NEW src \in Main, NEW dst \in Main,
           DuplicateBlock(w, src, dst)
    PROVE  TypeInv'
<1> DEFINE r == [Idle EXCEPT !.pc = "source", !.op = "duplicate", !.loc = dst, !.locs = {src}]
<1>1. r \in Request
  BY IdleTyped DEF Idle, Request, Main
<1>2. Shape(r)
  BY DEF Idle, Shape, Main
<1>3. ReqOK'
  BY <1>1, <1>2, SetTyped DEF DuplicateBlock, TypeInv
<1>4. block' \in [Main -> BlockRow \cup {None}] /\ requests' \in 0..MaxRequests
  BY BoundsAssumption DEF DuplicateBlock, Begin, TypeInv, TypeOK
<1> QED BY <1>3, <1>4 DEF DuplicateBlock, TypeInv, TypeOK, ReqOK, db

LEMMA ReadSourceTyped ==
    ASSUME TypeInv, NEW w \in Workers, ReadSource(w)
    PROVE  TypeInv'
<1>1. req[w] \in Request /\ Shape(req[w]) /\ req[w].pc = "source"
  BY AtTyped DEF ReadSource
<1>2. req[w].locs \subseteq Locations
  BY <1>1 DEF Request
<1>3. ASSUME NEW src \in req[w].locs, config[src] # None
      PROVE  LET r == [req[w] EXCEPT !.pc = "target", !.cfg = config[src]]
             IN  r \in Request /\ Shape(r)
  <2> DEFINE r == [req[w] EXCEPT !.pc = "target", !.cfg = config[src]]
  <2>1. config[src] \in ConfigRow
    BY <1>2, <1>3 DEF TypeInv, TypeOK
  <2>2. r \in Request
    BY <1>1, <2>1 DEF Request
  <2>3. Shape(r)
    BY <1>1, <1>3, <2>2 DEF Request, Shape
  <2> QED BY <2>2, <2>3
<1>4. ReqOK'
  BY <1>3, SetTyped, StopTyped DEF ReadSource, TypeInv
<1> QED BY <1>4 DEF ReadSource, TypeInv, TypeOK, ReqOK, db

LEMMA CheckTargetTyped ==
    ASSUME TypeInv, NEW w \in Workers, CheckTarget(w)
    PROVE  TypeInv'
<1> DEFINE r == [req[w] EXCEPT !.pc = "sync", !.cfg.id = ids + 1]
<1>1. req[w] \in Request /\ Shape(req[w]) /\ req[w].pc = "target"
  BY AtTyped DEF CheckTarget
<1>2. req[w].cfg \in ConfigRow /\ ids + 1 \in Nat
  BY <1>1 DEF Request, Shape, TypeInv, TypeOK
<1>3. [req[w].cfg EXCEPT !.id = ids + 1] \in ConfigRow
  BY <1>2 DEF ConfigRow
<1>4. [req[w].cfg EXCEPT !.id = ids + 1] # None
  BY <1>3, NoneAssumption DEF ConfigRow
<1>5. r \in Request
  BY <1>1, <1>3 DEF Request
<1>6. Shape(r)
  BY <1>1, <1>4, <1>5 DEF Request, Shape
<1>7. CASE ids' = ids + 1 /\ Set(w, [req[w] EXCEPT !.pc = "sync", !.cfg.id = ids'])
  <2>1. ReqOK'
    BY <1>5, <1>6, <1>7, SetTyped DEF TypeInv
  <2> QED BY <1>2, <1>7, <2>1 DEF CheckTarget, TypeInv, TypeOK, ReqOK
<1>8. CASE Stop(w) /\ UNCHANGED ids
  BY <1>8, StopTyped DEF CheckTarget, TypeInv, TypeOK, ReqOK
<1> QED BY <1>7, <1>8 DEF CheckTarget

LEMMA KeysTyped ==
    ASSUME TypeInv, NEW w \in Workers,
           SaveKeys(w) \/ \E p \in PassportId : StartKeys(w, p)
    PROVE  TypeInv'
<1>1. CASE SaveKeys(w)
  <2>1. req[w] \in Request /\ Shape(req[w]) /\ req[w].pc \in {"keys", "again"}
    BY <1>1, AtTyped DEF SaveKeys, AtKeys
  <2>2. req[w].row \in PassportRow
    BY <2>1 DEF Request, Shape
  <2>3. passport' \in [PassportId -> PassportRow \cup {None}]
    BY <1>1, <2>2 DEF SaveKeys, TypeInv, TypeOK
  <2>4. ReqOK'
    <3> DEFINE r == [req[w] EXCEPT !.pc = "again"]
    <3>1. r \in Request /\ Shape(r)
      BY <2>1 DEF Request, Shape
    <3>2. Go(w, "again") => Set(w, r)
      BY DEF Go, Set, TypeInv, ReqOK
    <3> QED BY <1>1, <3>1, <3>2, SetTyped, StopTyped DEF SaveKeys, TypeInv
  <2> QED BY <1>1, <2>3, <2>4 DEF SaveKeys, TypeInv, TypeOK, ReqOK
<1>2. ASSUME NEW p \in PassportId, StartKeys(w, p) PROVE TypeInv'
  <2> DEFINE r == [Idle EXCEPT !.pc = "keys", !.op = "keys", !.pk = p, !.row = passport[p]]
  <2>1. passport[p] \in PassportRow /\ passport[p] # None
    BY <1>2 DEF StartKeys, TypeInv, TypeOK
  <2>2. r \in Request
    BY <2>1, IdleTyped DEF Idle, Request
  <2>3. Shape(r)
    BY <2>1, NoneAssumption DEF Idle, Shape, PassportId
  <2>4. ReqOK'
    BY <1>2, <2>2, <2>3, SetTyped DEF StartKeys, TypeInv
  <2>5. requests' \in 0..MaxRequests
    <3>1. requests < MaxRequests /\ requests' = requests + 1
      BY <1>2 DEF StartKeys, Begin
    <3> QED BY <3>1, BoundsAssumption DEF TypeInv, TypeOK
  <2> QED BY <1>2, <2>4, <2>5 DEF StartKeys, TypeInv, TypeOK, ReqOK, db
<1> QED BY <1>1, <1>2

LEMMA StartDeleteTyped ==
    ASSUME TypeInv, NEW w \in Workers, NEW S \in SUBSET Main, StartDelete(w, S)
    PROVE  TypeInv'
<1> DEFINE r == [Idle EXCEPT !.pc = "drop", !.op = "predelete", !.locs = S]
<1>1. r \in Request
  BY IdleTyped DEF Idle, Request, Main
<1>2. Shape(r)
  BY DEF Idle, Shape
<1>3. ReqOK'
  BY <1>1, <1>2, SetTyped DEF StartDelete, TypeInv
<1>4. requests' \in 0..MaxRequests
  BY BoundsAssumption DEF StartDelete, Begin, TypeInv, TypeOK
<1> QED BY <1>3, <1>4 DEF StartDelete, TypeInv, TypeOK, ReqOK, db

LEMMA DropConfigsTyped ==
    ASSUME TypeInv, NEW w \in Workers, DropConfigs(w)
    PROVE  TypeInv'
<1>1. req[w] \in Request /\ Shape(req[w]) /\ req[w].pc = "drop"
  BY AtTyped DEF DropConfigs
<1>2. [req[w] EXCEPT !.pc = "scan"] \in Request /\ Shape([req[w] EXCEPT !.pc = "scan"])
  BY <1>1 DEF Request, Shape
<1>3. ReqOK'
  BY <1>2, SetTyped DEF DropConfigs, TypeInv, Go, Set
<1>4. config' \in [Locations -> ConfigRow \cup {None}]
  BY DEF DropConfigs, TypeInv, TypeOK
<1> QED BY <1>3, <1>4 DEF DropConfigs, TypeInv, TypeOK, ReqOK

LEMMA ScanOrphansTyped ==
    ASSUME TypeInv, NEW w \in Workers, ScanOrphans(w)
    PROVE  TypeInv'
<1> DEFINE P == {p \in PassportId : passport[p] # None /\ Users(p) = {}}
           r == [req[w] EXCEPT !.pc = "purge", !.doomed = P]
<1>1. req[w] \in Request /\ Shape(req[w]) /\ req[w].pc = "scan"
  BY AtTyped DEF ScanOrphans
<1>2. P \subseteq PassportId
  OBVIOUS
<1>3. r \in Request
  BY <1>1, <1>2 DEF Request
<1>4. Shape(r)
  BY <1>1, <1>3 DEF Request, Shape
<1>5. ReqOK'
  BY <1>3, <1>4, SetTyped DEF ScanOrphans, TypeInv
<1> QED BY <1>5 DEF ScanOrphans, TypeInv, TypeOK, ReqOK, db

LEMMA DeletePassportsTyped ==
    ASSUME TypeOK, NEW P, DeletePassports(P)
    PROVE  /\ passport' \in [PassportId -> PassportRow \cup {None}]
           /\ config' \in [Locations -> ConfigRow \cup {None}]
<1>1. passport' \in [PassportId -> PassportRow \cup {None}]
  BY DEF DeletePassports, TypeOK
<1>2. \A l \in Locations : config[l] # None => [config[l] EXCEPT !.passport = None] \in ConfigRow
  BY DEF TypeOK, ConfigRow
<1>3. config' \in [Locations -> ConfigRow \cup {None}]
  BY <1>2 DEF DeletePassports, TypeOK
<1> QED BY <1>1, <1>3

LEMMA PurgeOrphansTyped ==
    ASSUME TypeInv, NEW w \in Workers, PurgeOrphans(w)
    PROVE  TypeInv'
<1> DEFINE r == [req[w] EXCEPT !.pc = "remove", !.doomed = {}]
<1>1. req[w] \in Request /\ Shape(req[w]) /\ req[w].pc = "purge"
  BY AtTyped DEF PurgeOrphans
<1>2. r \in Request
  BY <1>1 DEF Request
<1>3. Shape(r)
  BY <1>1, <1>2 DEF Request, Shape
<1>4. ReqOK'
  BY <1>2, <1>3, SetTyped, StopTyped DEF PurgeOrphans, TypeInv
<1> QED BY <1>4, DeletePassportsTyped DEF PurgeOrphans, TypeInv, TypeOK, ReqOK

LEMMA RemoveBlocksTyped ==
    ASSUME TypeInv, NEW w \in Workers, RemoveBlocks(w)
    PROVE  TypeInv'
<1> DEFINE locs == IF Cardinality(req[w].locs) = 1 THEN req[w].locs ELSE {}
           r == [req[w] EXCEPT !.pc = "drop", !.op = "delete", !.locs = locs]
<1>1. req[w] \in Request /\ Shape(req[w]) /\ req[w].pc = "remove"
  BY AtTyped DEF RemoveBlocks
<1>2. locs \subseteq Locations
  BY <1>1 DEF Request
<1> HIDE DEF locs
<1>3. r \in Request
  BY <1>1, <1>2 DEF Request
<1>4. Shape(r)
  BY <1>1, <1>3 DEF Request, Shape
<1>5. ReqOK'
  BY <1>3, <1>4, SetTyped DEF RemoveBlocks, TypeInv, locs
<1>6. block' \in [Main -> BlockRow \cup {None}]
  BY DEF RemoveBlocks, TypeInv, TypeOK
<1> QED BY <1>5, <1>6 DEF RemoveBlocks, TypeInv, TypeOK, ReqOK, db

LEMMA EditTyped ==
    ASSUME TypeInv, NEW l \in Main,
           \/ \E t \in ToolSettings : EditTool(l, t)
           \/ \E s \in Stores : EditStore(l, s)
    PROVE  TypeInv'
<1>1. edits' \in 0..MaxEdits
  BY BoundsAssumption DEF EditTool, EditStore, Edit, TypeInv, TypeOK
<1>2. block' \in [Main -> BlockRow \cup {None}]
  <2>1. block[l] # None => block[l] \in BlockRow
    BY DEF TypeInv, TypeOK
  <2>2. ASSUME block[l] # None, NEW t \in ToolSettings
        PROVE  [block[l] EXCEPT !.tool = t] \in BlockRow
    BY <2>1, <2>2, ValuesAssumption DEF BlockRow
  <2>3. ASSUME block[l] # None, NEW s \in Stores
        PROVE  [block[l] EXCEPT !.store = s] \in BlockRow
    BY <2>1, <2>3 DEF BlockRow
  <2> QED BY <2>2, <2>3 DEF EditTool, EditStore, TypeInv, TypeOK
<1> QED BY <1>1, <1>2 DEF EditTool, EditStore, TypeInv, TypeOK, ReqOK, db

LEMMA ExportedPidTyped ==
    ASSUME TypeInv, NoDanglingPassport, NEW l \in Main, block[l] # None
    PROVE  ExportedPid(l) \in PassportId \cup {None}
<1>1. block[l].pid \in PassportId \cup {None}
  BY DEF TypeInv, TypeOK, BlockRow
<1>2. CASE config[l] # None /\ config[l].passport # None
  <2>1. l \in Locations /\ config[l].passport \in PassportId
    BY <1>2 DEF Main, TypeInv, TypeOK, ConfigRow
  <2>2. passport[config[l].passport] \in PassportRow
    BY <1>2, <2>1 DEF NoDanglingPassport, Linked, TypeInv, TypeOK
  <2> QED BY <1>2, <2>2 DEF ExportedPid, PassportRow
<1> QED BY <1>1, <1>2 DEF ExportedPid

LEMMA PasteBlockTyped ==
    ASSUME TypeInv, NoDanglingPassport, NEW src \in Main, NEW dst \in Main,
           PasteBlock(src, dst)
    PROVE  TypeInv'
<1>1. edits' \in 0..MaxEdits
  BY BoundsAssumption DEF PasteBlock, Edit, TypeInv, TypeOK
<1>2. ExportedPid(src) \in PassportId \cup {None}
  BY ExportedPidTyped DEF PasteBlock
<1>3. [block[src] EXCEPT !.pid = ExportedPid(src)] \in BlockRow
  BY <1>2 DEF PasteBlock, TypeInv, TypeOK, BlockRow
<1>4. block' \in [Main -> BlockRow \cup {None}]
  BY <1>3 DEF PasteBlock, TypeInv, TypeOK
<1> QED BY <1>1, <1>4 DEF PasteBlock, TypeInv, TypeOK, ReqOK, db

LEMMA AdminDeleteTyped ==
    ASSUME TypeInv, NEW p \in PassportId, AdminDeletePassport(p)
    PROVE  TypeInv'
<1>1. edits' \in 0..MaxEdits
  BY BoundsAssumption DEF AdminDeletePassport, Edit, TypeInv, TypeOK
<1> QED BY <1>1, DeletePassportsTyped DEF AdminDeletePassport, TypeInv, TypeOK, ReqOK

---------------------------------------------------------------------------
(* No configuration names a passport that is gone *)

RowsInv == TypeInv /\ NoDanglingPassport

LEMMA RowsUnchanged ==
    ASSUME NoDanglingPassport, UNCHANGED <<config, passport>>
    PROVE  NoDanglingPassport'
BY DEF NoDanglingPassport, Linked

\* Passports are only added, and every changed configuration names one.
LEMMA RowsAdded ==
    ASSUME RowsInv,
           \A p \in PassportId : passport[p] # None => passport'[p] # None,
           \A l \in Locations :
               \/ config'[l] = config[l] \/ config'[l] = None
               \/ config'[l].passport = None
               \/ passport'[config'[l].passport] # None
    PROVE  NoDanglingPassport'
<1> SUFFICES ASSUME NEW l \in Locations, config'[l] # None, config'[l].passport # None
             PROVE  passport'[config'[l].passport] # None
  BY DEF NoDanglingPassport, Linked
<1>1. CASE config'[l] = config[l]
  <2>1. config[l].passport \in PassportId /\ passport[config[l].passport] # None
    BY <1>1 DEF RowsInv, TypeInv, TypeOK, ConfigRow, NoDanglingPassport, Linked
  <2> QED BY <1>1, <2>1
<1> QED BY <1>1

LEMMA ConfigCreatedRows ==
    ASSUME RowsInv, NEW w \in Workers, ConfigCreated(w)
    PROVE  NoDanglingPassport'
<1> DEFINE l == req[w].loc
           row == NewConfig(l)
           b == block[Home(l)]
           Inserted(pk) ==
            config' = [PushToChildren(l, row) EXCEPT ![l] = [row EXCEPT !.passport = pk]]
<1>0. Shape(req[w]) /\ req[w].pc = "config"
  BY AtTyped DEF ConfigCreated, RowsInv
<1>1. l \in Locations
  BY <1>0 DEF Shape
<1>2. row \in ConfigRow /\ b \in BlockRow \cup {None} /\ TypeOK
  BY <1>1, NewConfigTyped, HomeTyped DEF RowsInv, TypeInv, TypeOK
<1>3. l \notin Ccx => row.passport = None
  BY DEF NewConfig
<1>4. row.passport # None => passport[row.passport] # None
  <2>1. CASE l \in Ccx /\ config[MainOf[l]] # None
    <3>1. MainOf[l] \in Locations /\ config[MainOf[l]] \in ConfigRow
      BY <2>1, LocationsAssumption DEF RowsInv, TypeInv, TypeOK, Main
    <3>2. row.passport = config[MainOf[l]].passport
      BY <2>1, <3>1 DEF NewConfig, PullFromMain, ConfigRow
    <3> QED BY <2>1, <3>1, <3>2 DEF RowsInv, NoDanglingPassport, Linked
  <2>2. CASE l \in Ccx /\ config[MainOf[l]] = None
    BY <2>2 DEF NewConfig, PullFromMain
  <2> QED BY <1>3, <2>1, <2>2
<1>5. \A m \in Locations :
        PushToChildren(l, row)[m] = config[m] \/ PushToChildren(l, row)[m].passport = None
  BY <1>2, <1>3 DEF PushToChildren, Children, ConfigRow
<1>6. ASSUME NEW pk \in PassportId, Inserted(pk), passport'[pk] # None,
             \A p \in PassportId : passport[p] # None => passport'[p] # None
      PROVE  NoDanglingPassport'
  <2>1. [row EXCEPT !.passport = pk].passport = pk
    BY <1>2 DEF ConfigRow
  <2>2. PushToChildren(l, row) \in [Locations -> ConfigRow \cup {None}]
    BY <1>1, <1>2, PushTyped
  <2>3. \A m \in Locations : \/ config'[m] = config[m]
                              \/ config'[m].passport = None
                              \/ passport'[config'[m].passport] # None
    BY <1>1, <1>5, <1>6, <2>1, <2>2
  <2> QED BY <1>6, <2>3, RowsAdded
<1>7. CASE /\ row.passport # None /\ Inserted(row.passport)
           /\ UNCHANGED <<passport>>
  BY <1>2, <1>4, <1>6, <1>7 DEF ConfigRow
<1>8. CASE /\ b # None /\ b.pid # None
           /\ \E pk \in PassportId : GetOrCreatePassport(pk, b.pid, l) /\ Inserted(pk)
  BY <1>1, <1>2, <1>6, <1>8, GetOrCreateTyped DEF BlockRow
<1>9. CASE \E pk \in PassportId : Mint(pk, pk, Blank, Blank, l) /\ Inserted(pk)
  BY <1>1, <1>2, <1>6, <1>9, MintTyped, ValuesAssumption
<1>10. CASE UNCHANGED <<config, passport>>
  BY <1>10, RowsUnchanged DEF RowsInv
<1> QED BY <1>7, <1>8, <1>9, <1>10 DEF ConfigCreated, db

LEMMA MintRows ==
    ASSUME RowsInv, NEW w \in Workers, SplitPassport(w) \/ LinkPassport(w)
    PROVE  NoDanglingPassport'
<1>1. \A p \in PassportId : passport[p] # None => passport'[p] # None
  <2>1. CASE SplitPassport(w)
    <3>1. req[w].loc \in Locations /\ req[w].blk \in BlockRow
      BY <2>1, AtTyped DEF SplitPassport, RowsInv, Shape, Request
    <3>2. req[w].blk.tool.pub \in KeyTexts /\ req[w].blk.tool.url \in KeyTexts
      BY <3>1 DEF BlockRow, Settings
    <3> QED BY <2>1, <3>1, <3>2, MintTyped DEF SplitPassport, RowsInv, TypeInv
  <2>2. CASE LinkPassport(w)
    <3>0. Shape(req[w]) /\ req[w].pc = "link"
      BY <2>2, AtTyped DEF LinkPassport, RowsInv
    <3>1. req[w].loc \in Locations
      BY <3>0 DEF Shape
    <3>2. block[Home(req[w].loc)] \in BlockRow \cup {None}
      BY <3>1, HomeTyped DEF RowsInv, TypeInv, TypeOK
    <3>3. \A pk \in PassportId : Mint(pk, pk, Blank, Blank, req[w].loc) =>
            \A p \in PassportId : passport[p] # None => passport'[p] # None
      BY <3>1, MintTyped, ValuesAssumption DEF RowsInv, TypeInv
    <3>4. ASSUME NEW pk \in PassportId, NEW pid \in PassportId,
                 GetOrCreatePassport(pk, pid, req[w].loc)
          PROVE  \A p \in PassportId : passport[p] # None => passport'[p] # None
      BY <3>1, <3>4, GetOrCreateTyped DEF RowsInv, TypeInv
    <3> QED BY <2>2, <3>2, <3>3, <3>4 DEF LinkPassport, BlockRow
  <2> QED BY <2>1, <2>2
<1>2. UNCHANGED config
  BY DEF SplitPassport, LinkPassport
<1> QED BY <1>1, <1>2, RowsAdded

LEMMA UpdateInPlaceRows ==
    ASSUME RowsInv, NEW w \in Workers, UpdateInPlace(w)
    PROVE  NoDanglingPassport'
<1> DEFINE tool == req[w].blk.tool
           row == [req[w].row EXCEPT !.pub = tool.pub, !.url = tool.url]
<1>1. req[w].row \in PassportRow /\ req[w].blk \in BlockRow
  BY AtTyped DEF UpdateInPlace, RowsInv, Shape, Request
<1>2. row \in PassportRow
  BY <1>1 DEF PassportRow, BlockRow, Settings
<1>3. row # None
  BY <1>2, NoneAssumption DEF PassportRow
<1>4. \A p \in PassportId : passport[p] # None => passport'[p] # None
  BY <1>3 DEF UpdateInPlace, RowsInv, TypeInv, TypeOK
<1> QED BY <1>4, RowsAdded DEF UpdateInPlace

LEMMA SaveKeysRows ==
    ASSUME RowsInv, NEW w \in Workers, SaveKeys(w)
    PROVE  NoDanglingPassport'
<1>1. req[w].row # None
  BY AtTyped DEF SaveKeys, AtKeys, RowsInv, Shape
<1>2. \A p \in PassportId : passport[p] # None => passport'[p] # None
  BY <1>1 DEF SaveKeys, RowsInv, TypeInv, TypeOK
<1> QED BY <1>2, RowsAdded DEF SaveKeys

LEMMA SyncRows ==
    ASSUME RowsInv, NEW w \in Workers, SyncConfigurations(w)
    PROVE  NoDanglingPassport'
<1> DEFINE l == req[w].loc
           new == Updated(req[w])
<1>1. CASE UNCHANGED config
  BY <1>1, RowsUnchanged DEF SyncConfigurations, RowsInv
<1>2. CASE config' = PushToChildren(l, new) /\ ForeignKeyOK(new.passport)
  <2>1. req[w] \in Request /\ Shape(req[w]) /\ req[w].cfg # None
    BY AtTyped DEF SyncConfigurations, RowsInv, Shape
  <2>2. new \in ConfigRow
    BY <2>1, UpdatedTyped
  <2>3. \A m \in Locations : \/ config'[m] = config[m]
                              \/ config'[m].passport = new.passport
    BY <1>2, <2>2 DEF PushToChildren, ConfigRow
  <2>4. UNCHANGED passport
    BY DEF SyncConfigurations
  <2> QED BY <1>2, <2>3, <2>4, RowsAdded DEF ForeignKeyOK
<1> QED BY <1>1, <1>2 DEF SyncConfigurations

LEMMA SaveRows ==
    ASSUME RowsInv, NEW w \in Workers, SaveConfig(w) \/ AttachPassport(w)
    PROVE  NoDanglingPassport'
<1>1. \A l \in Locations : \/ config'[l] = config[l]
                            \/ config'[l].passport = None
                            \/ passport[config'[l].passport] # None
  <2>1. CASE SaveConfig(w)
    BY <2>1 DEF SaveConfig, ForeignKeyOK, RowsInv, TypeInv, TypeOK
  <2>2. CASE AttachPassport(w)
    BY <2>2 DEF AttachPassport, ForeignKeyOK, RowsInv, TypeInv, TypeOK, ConfigRow
  <2> QED BY <2>1, <2>2
<1>2. UNCHANGED passport
  BY DEF SaveConfig, AttachPassport
<1> QED BY <1>1, <1>2, RowsAdded

LEMMA DeleteRows ==
    ASSUME RowsInv, NEW P, DeletePassports(P)
    PROVE  NoDanglingPassport'
<1> SUFFICES ASSUME NEW l \in Locations, config'[l] # None, config'[l].passport # None
             PROVE  passport'[config'[l].passport] # None
  BY DEF NoDanglingPassport, Linked
<1>1. config[l] \in ConfigRow \cup {None}
  BY DEF RowsInv, TypeInv, TypeOK
<1>2. config[l] # None /\ config'[l] = config[l] /\ config[l].passport \notin P
  BY <1>1 DEF DeletePassports, ConfigRow
<1>3. config[l].passport \in PassportId /\ passport[config[l].passport] # None
  BY <1>1, <1>2 DEF RowsInv, NoDanglingPassport, Linked, ConfigRow
<1> QED BY <1>2, <1>3 DEF DeletePassports

LEMMA DropConfigsRows ==
    ASSUME RowsInv, NEW w \in Workers, DropConfigs(w)
    PROVE  NoDanglingPassport'
BY DEF DropConfigs, RowsInv, NoDanglingPassport, Linked

---------------------------------------------------------------------------

LEMMA LegacyNumbersTyped ==
    ASSUME NEW f \in LegacyNumbers
    PROVE  \A l \in Legacy : f[l] \in 1..MaxPassports
<1>1. Cardinality(Legacy) \in Nat
  BY FS_CardinalityType, BoundsAssumption
<1> QED BY <1>1, BoundsAssumption DEF LegacyNumbers

LEMMA RowsInit == Init => RowsInv
<1> SUFFICES ASSUME Init PROVE RowsInv
  OBVIOUS
<1>1. PICK f \in LegacyNumbers :
    /\ block = [l \in Main |-> IF l \in Present
                  THEN [pid |-> None, tool |-> NoSettings, store |-> ON_XBLOCK] ELSE None]
    /\ config = [l \in Locations |-> IF l \in Legacy
                  THEN [id |-> f[l], passport |-> f[l], store |-> ON_XBLOCK] ELSE None]
    /\ passport = [p \in PassportId |-> IF \E l \in Legacy : f[l] = p
                  THEN [pid |-> p, pub |-> Blank, url |-> Blank] ELSE None]
    /\ origin = [p \in PassportId |-> IF \E l \in Legacy : f[l] = p
                  THEN Family[CHOOSE l \in Legacy : f[l] = p] ELSE None]
    /\ minted = Cardinality(Legacy) /\ ids = Cardinality(Legacy)
    /\ req = [w \in Workers |-> Idle]
    /\ edits = 0 /\ requests = 0
  BY DEF Init
<1>2. Legacy \subseteq Locations /\ \A l \in Legacy : f[l] \in PassportId
  BY LegacyNumbersTyped, LocationsAssumption DEF Main, PassportId
<1>3. block \in [Main -> BlockRow \cup {None}]
  BY <1>1, ValuesAssumption DEF BlockRow, Settings, NoSettings
<1>4. config \in [Locations -> ConfigRow \cup {None}]
  <2>1. \A l \in Legacy : [id |-> f[l], passport |-> f[l], store |-> ON_XBLOCK] \in ConfigRow
    BY <1>2, ValuesAssumption DEF ConfigRow, PassportId
  <2> QED BY <1>1, <2>1
<1>5. passport \in [PassportId -> PassportRow \cup {None}]
  BY <1>1, ValuesAssumption DEF PassportRow
<1>6. origin \in [PassportId -> {Family[l] : l \in Locations} \cup {None}]
  <2>1. \A p \in PassportId : (\E l \in Legacy : f[l] = p)
            => (CHOOSE l \in Legacy : f[l] = p) \in Locations
    BY <1>2
  <2> QED BY <1>1, <2>1
<1>7. minted \in 0..MaxPassports /\ ids \in Nat
  BY <1>1, FS_CardinalityType, BoundsAssumption
<1>8. ReqOK
  BY <1>1, IdleTyped DEF ReqOK
<1>9. edits \in 0..MaxEdits /\ requests \in 0..MaxRequests
  BY <1>1, BoundsAssumption
<1>10. NoDanglingPassport
  <2> SUFFICES ASSUME NEW l \in Locations, Linked(l)
               PROVE  passport[config[l].passport] # None
    BY DEF NoDanglingPassport
  <2>1. l \in Legacy /\ config[l].passport = f[l]
    BY <1>1 DEF Linked
  <2>2. [pid |-> f[l], pub |-> Blank, url |-> Blank] # None
    BY <1>2, <2>1, NoneAssumption, ValuesAssumption
  <2> QED BY <1>1, <1>2, <2>1, <2>2
<1> QED BY <1>3, <1>4, <1>5, <1>6, <1>7, <1>8, <1>9, <1>10 DEF RowsInv, TypeInv, TypeOK, ReqOK

LEMMA RowsStep == RowsInv /\ [Next]_vars => RowsInv'
<1> SUFFICES ASSUME RowsInv, [Next]_vars PROVE RowsInv'
  OBVIOUS
<1> USE DEF RowsInv
<1>1. ASSUME NEW w \in Workers, Step(w) PROVE RowsInv'
  <2>1. CASE ConfigFound(w)
    BY <2>1, ConfigFoundTyped, RowsUnchanged DEF ConfigFound, db
  <2>2. CASE ConfigCreated(w)
    BY <2>2, ConfigCreatedTyped, ConfigCreatedRows
  <2>3. CASE EnsurePassport(w)
    BY <2>3, EnsurePassportTyped, RowsUnchanged DEF EnsurePassport, db
  <2>4. CASE CountUsers(w)
    BY <2>4, CountUsersTyped, RowsUnchanged DEF CountUsers, db
  <2>5. CASE UpdateInPlace(w)
    BY <2>5, UpdateInPlaceTyped, UpdateInPlaceRows
  <2>6. CASE SplitPassport(w)
    BY <2>6, SplitPassportTyped, MintRows
  <2>7. CASE KeepSplit(w)
    BY <2>7, KeepTyped, RowsUnchanged DEF KeepSplit, db
  <2>8. CASE SyncConfigurations(w)
    BY <2>8, SyncConfigurationsTyped, SyncRows
  <2>9. CASE SaveConfig(w)
    BY <2>9, SaveConfigTyped, SaveRows
  <2>10. CASE LinkPassport(w)
    BY <2>10, LinkPassportTyped, MintRows
  <2>11. CASE KeepLink(w)
    BY <2>11, KeepTyped, RowsUnchanged DEF KeepLink, db
  <2>12. CASE AttachPassport(w)
    BY <2>12, AttachPassportTyped, SaveRows
  <2>13. CASE Finish(w)
    BY <2>13, FinishTyped, RowsUnchanged DEF Finish, db
  <2>14. CASE ReadSource(w)
    BY <2>14, ReadSourceTyped, RowsUnchanged DEF ReadSource, db
  <2>15. CASE CheckTarget(w)
    BY <2>15, CheckTargetTyped, RowsUnchanged DEF CheckTarget
  <2>16. CASE DropConfigs(w)
    BY <2>16, DropConfigsTyped, DropConfigsRows
  <2>17. CASE ScanOrphans(w)
    BY <2>17, ScanOrphansTyped, RowsUnchanged DEF ScanOrphans, db
  <2>18. CASE PurgeOrphans(w)
    BY <2>18, PurgeOrphansTyped, DeleteRows DEF PurgeOrphans
  <2>19. CASE RemoveBlocks(w)
    BY <2>19, RemoveBlocksTyped, RowsUnchanged DEF RemoveBlocks, db
  <2>20. CASE SaveKeys(w)
    BY <2>20, KeysTyped, SaveKeysRows
  <2> QED BY <1>1, <2>1, <2>2, <2>3, <2>4, <2>5, <2>6, <2>7, <2>8, <2>9, <2>10, <2>11,
             <2>12, <2>13, <2>14, <2>15, <2>16, <2>17, <2>18, <2>19, <2>20 DEF Step
<1>2. ASSUME NEW w \in Workers, NEW l \in Locations, StartView(w, l) \/ StartAccess(w, l)
      PROVE  RowsInv'
  BY <1>2, StartTyped, RowsUnchanged DEF StartView, StartAccess, db
<1>3. ASSUME NEW w \in Workers, NEW src \in Main, NEW dst \in Main, DuplicateBlock(w, src, dst)
      PROVE  RowsInv'
  BY <1>3, DuplicateTyped, RowsUnchanged DEF DuplicateBlock, db
<1>4. ASSUME NEW w \in Workers, NEW S \in SUBSET Main, StartDelete(w, S)
      PROVE  RowsInv'
  BY <1>4, StartDeleteTyped, RowsUnchanged DEF StartDelete, db
<1>5. ASSUME NEW l \in Main,
             \/ \E t \in ToolSettings : EditTool(l, t)
             \/ \E s \in Stores : EditStore(l, s)
      PROVE  RowsInv'
  BY <1>5, EditTyped, RowsUnchanged DEF EditTool, EditStore, db
<1>6. ASSUME NEW src \in Main, NEW dst \in Main, PasteBlock(src, dst)
      PROVE  RowsInv'
  BY <1>6, PasteBlockTyped, RowsUnchanged DEF PasteBlock, db
<1>7. ASSUME NEW p \in PassportId, AdminDeletePassport(p)
      PROVE  RowsInv'
  BY <1>7, AdminDeleteTyped, DeleteRows DEF AdminDeletePassport
<1>8. ASSUME NEW w \in Workers, NEW p \in PassportId, StartKeys(w, p)
      PROVE  RowsInv'
  BY <1>8, KeysTyped, RowsUnchanged DEF StartKeys, db
<1>9. CASE UNCHANGED vars
  BY <1>9, RowsUnchanged DEF vars, TypeInv, TypeOK, ReqOK
<1> QED BY <1>1, <1>2, <1>3, <1>4, <1>5, <1>6, <1>7, <1>8, <1>9 DEF Next

LEMMA RowsAlways == Spec => []RowsInv
BY RowsInit, RowsStep, PTL DEF Spec

\* The rows, the blocks and the instances requests hold keep the shape the
\* models and fields declare, whatever the number of workers and blocks.
THEOREM TypeCorrect == Spec => []TypeOK
<1>1. RowsInv => TypeOK
  BY DEF RowsInv, TypeInv
<1> QED BY <1>1, RowsAlways, PTL

---------------------------------------------------------------------------
(* Credentials stay in the family they were made for *)

\* The custom course blocks that the suffix of a key finds (models.py:391) are
\* copies of the block with that key: the ids of blocks tell courses apart,
\* unless one course was made from the other.
ChildrenAreCopies == \A l \in Locations : \A c \in Children(l) : Family[c] = Family[l]

Of(o, p, f) == p # None => o[p] = f
RowOf(o, p, row) == o[p] # None /\ o[row.pid] = o[p]

\* A request for a block holds instances of the block's family; a deletion or a
\* key access has no block, and its row is of the family of its primary key.
BlockOf(o, r) ==
    /\ r.loc \in Locations
    /\ r.blk # None => Of(o, r.blk.pid, Family[r.loc])
    /\ r.cfg # None => Of(o, r.cfg.passport, Family[r.loc])
    /\ Of(o, r.pk, Family[r.loc])
NoBlock(r) ==
    /\ r.blk = None /\ r.cfg = None
    /\ r.pk # None => r.pc \in {"keys", "again"}
ReqOf(o, r) ==
    /\ BlockOf(o, r) \/ NoBlock(r)
    /\ r.row # None => r.pk # None /\ RowOf(o, r.pk, r.row)
    /\ r.pc = "source" => \A s \in r.locs : Family[s] = Family[r.loc]

\* origin is read as the family of a passport and of the passport id of that
\* number: rows, blocks, configurations and instances in flight agree with it.
FamiliesKept ==
    /\ \A p \in PassportId : p > minted => origin[p] = None
    /\ \A p \in PassportId : passport[p] # None => RowOf(origin, p, passport[p])
    /\ \A m \in Main : block[m] # None => Of(origin, block[m].pid, Family[m])
    /\ \A l \in Locations : config[l] # None => Of(origin, config[l].passport, Family[l])
    /\ \A w \in Workers : ReqOf(origin, req[w])
FamilyInv == RowsInv /\ FamiliesKept

\* A family, once given, is not taken back.
Grows(o, n) == \A p \in PassportId : o[p] # None => n[p] = o[p]

LEMMA FamilyNotNone == \A l \in Locations : Family[l] # None
BY NoneAssumption

LEMMA OfGrows ==
    ASSUME NEW o, NEW n, Grows(o, n), NEW p \in PassportId \cup {None},
           NEW l \in Locations, Of(o, p, Family[l])
    PROVE  Of(n, p, Family[l])
BY FamilyNotNone DEF Grows, Of

LEMMA RowOfGrows ==
    ASSUME NEW o, NEW n, Grows(o, n), NEW p \in PassportId,
           NEW row \in PassportRow, RowOf(o, p, row)
    PROVE  RowOf(n, p, row)
BY DEF Grows, RowOf, PassportRow

LEMMA BlockOfGrows ==
    ASSUME NEW o, NEW n, Grows(o, n), NEW r \in Request, BlockOf(o, r)
    PROVE  BlockOf(n, r)
<1>1. r.loc \in Locations /\ r.pk \in PassportId \cup {None}
  BY DEF Request, BlockOf
<1>2. r.blk # None => r.blk.pid \in PassportId \cup {None}
  BY DEF Request, BlockRow
<1>3. r.cfg # None => r.cfg.passport \in PassportId \cup {None}
  BY DEF Request, ConfigRow
<1> QED BY <1>1, <1>2, <1>3, OfGrows DEF BlockOf

LEMMA ReqOfGrows ==
    ASSUME NEW o, NEW n, Grows(o, n), NEW r \in Request, ReqOf(o, r)
    PROVE  ReqOf(n, r)
<1>1. ASSUME r.row # None, r.pk # None, RowOf(o, r.pk, r.row) PROVE RowOf(n, r.pk, r.row)
  BY <1>1, RowOfGrows DEF Request
<1> QED BY <1>1, BlockOfGrows DEF ReqOf

\* The parts of a request's step, put together
LEMMA FamilyTogether ==
    ASSUME FamilyInv, NEW w \in Workers, NEW r, Set(w, r), ReqOf(origin', r),
           Grows(origin, origin'), \A p \in PassportId : p > minted' => origin'[p] = None,
           \A p \in PassportId : passport'[p] # None /\ passport'[p] # passport[p]
                => RowOf(origin', p, passport'[p]),
           \A m \in Main : block'[m] # None /\ block'[m] # block[m]
                => Of(origin', block'[m].pid, Family[m]),
           \A l \in Locations : config'[l] # None /\ config'[l] # config[l]
                => Of(origin', config'[l].passport, Family[l])
    PROVE  FamiliesKept'
<1> USE DEF FamilyInv, RowsInv, TypeInv
<1>1. \A p \in PassportId : passport'[p] # None => RowOf(origin', p, passport'[p])
  <2>1. ASSUME NEW p \in PassportId, passport[p] # None PROVE RowOf(origin', p, passport[p])
    BY <2>1, RowOfGrows DEF TypeOK, FamiliesKept
  <2> QED BY <2>1
<1>2. \A m \in Main : block'[m] # None => Of(origin', block'[m].pid, Family[m])
  <2>1. ASSUME NEW m \in Main, block[m] # None PROVE Of(origin', block[m].pid, Family[m])
    BY <2>1, OfGrows DEF TypeOK, FamiliesKept, BlockRow, Main
  <2> QED BY <2>1
<1>3. \A l \in Locations : config'[l] # None => Of(origin', config'[l].passport, Family[l])
  <2>1. ASSUME NEW l \in Locations, config[l] # None PROVE Of(origin', config[l].passport, Family[l])
    BY <2>1, OfGrows DEF TypeOK, FamiliesKept, ConfigRow
  <2> QED BY <2>1
<1>4. \A v \in Workers : ReqOf(origin', req'[v])
  <2>1. \A v \in Workers : ReqOf(origin', req[v])
    BY ReqOfGrows DEF ReqOK, FamiliesKept
  <2> QED BY <2>1 DEF Set, ReqOK
<1> QED BY <1>1, <1>2, <1>3, <1>4 DEF FamiliesKept, RowOf, Of, ReqOf, BlockOf

\* A step that creates no passport and writes none
LEMMA FamilyKept ==
    ASSUME FamilyInv, NEW w \in Workers, NEW r, Set(w, r), ReqOf(origin, r),
           UNCHANGED <<passport, minted, origin>>,
           \A m \in Main : block'[m] # None /\ block'[m] # block[m]
                => Of(origin, block'[m].pid, Family[m]),
           \A l \in Locations : config'[l] # None /\ config'[l] # config[l]
                => Of(origin, config'[l].passport, Family[l])
    PROVE  FamiliesKept'
<1>1. Grows(origin, origin') /\ \A p \in PassportId : p > minted' => origin'[p] = None
  BY DEF Grows, FamilyInv, FamiliesKept
<1>2. ReqOf(origin', r)
  OBVIOUS
<1> QED BY <1>1, <1>2, FamilyTogether

LEMMA IdleOf == \A o : ReqOf(o, Idle)
BY DEF ReqOf, NoBlock, Idle

\* A request that moves on with what it holds
LEMMA SameOf ==
    ASSUME FamilyInv, NEW w \in Workers, NEW r, r.loc = req[w].loc, r.blk = req[w].blk,
           r.cfg = req[w].cfg, r.pk = req[w].pk, r.row = req[w].row,
           r.pc = "source" => req[w].pc = "source" /\ r.locs = req[w].locs,
           req[w].pc \in {"keys", "again"} => r.pc \in {"keys", "again"}
    PROVE  ReqOf(origin, r)
BY DEF FamilyInv, FamiliesKept, ReqOf, BlockOf, NoBlock

\* A request that holds a block or a configuration is one for a block.
LEMMA HolderOf ==
    ASSUME FamilyInv, NEW w \in Workers, req[w].blk # None \/ req[w].cfg # None
    PROVE  BlockOf(origin, req[w])
BY DEF FamilyInv, FamiliesKept, ReqOf, NoBlock

LEMMA HomeFamily == \A l \in Locations : Home(l) \in Main /\ Family[Home(l)] = Family[l]
BY HomeTyped, LocationsAssumption DEF Home

---------------------------------------------------------------------------

LEMMA MintFamily ==
    ASSUME FamilyInv, NEW pk, NEW pid \in PassportId, NEW pub \in KeyTexts,
           NEW url \in KeyTexts, NEW l \in Locations, Mint(pk, pid, pub, url, l),
           pid = pk \/ origin[pid] = Family[l]
    PROVE  /\ Grows(origin, origin') /\ pk \in PassportId /\ origin'[pk] = Family[l]
           /\ origin'[pid] = Family[l]
           /\ \A p \in PassportId : p > minted' => origin'[p] = None
           /\ \A p \in PassportId : passport'[p] # None /\ passport'[p] # passport[p]
                => RowOf(origin', p, passport'[p])
<1> USE DEF FamilyInv, RowsInv, TypeInv
<1>1. pk \in PassportId /\ pk = minted + 1 /\ minted' = pk /\ minted \in Nat
  <2>1. pk \in PassportId
    BY MintTyped
  <2> QED BY <2>1, BoundsAssumption DEF Mint, TypeOK
<1>2. origin[pk] = None
  BY <1>1 DEF FamiliesKept
<1>3. \A p \in PassportId : origin'[p] = IF p = pk THEN Family[l] ELSE origin[p]
  BY <1>1 DEF Mint, TypeOK
<1>4. Grows(origin, origin') /\ origin'[pk] = Family[l] /\ origin'[pid] = Family[l]
  BY <1>1, <1>2, <1>3 DEF Grows
<1>5. \A p \in PassportId : p > minted' => origin'[p] = None
  BY <1>1, <1>3 DEF FamiliesKept, PassportId
<1>6. \A p \in PassportId : passport'[p] = IF p = pk THEN [pid |-> pid, pub |-> pub, url |-> url]
                                            ELSE passport[p]
  BY <1>1 DEF Mint, TypeOK
<1>7. RowOf(origin', pk, [pid |-> pid, pub |-> pub, url |-> url])
  BY <1>4, FamilyNotNone DEF RowOf
<1> QED BY <1>1, <1>4, <1>5, <1>6, <1>7

LEMMA GetOrCreateFamily ==
    ASSUME FamilyInv, NEW pk, NEW pid \in PassportId, NEW l \in Locations,
           GetOrCreatePassport(pk, pid, l), origin[pid] = Family[l]
    PROVE  /\ Grows(origin, origin') /\ pk \in PassportId /\ origin'[pk] = Family[l]
           /\ \A p \in PassportId : p > minted' => origin'[p] = None
           /\ \A p \in PassportId : passport'[p] # None /\ passport'[p] # passport[p]
                => RowOf(origin', p, passport'[p])
<1>1. CASE pk \in Named(pid) /\ UNCHANGED <<passport, minted, origin>>
  <2>1. pk \in PassportId /\ passport[pk] # None /\ passport[pk].pid = pid
    BY <1>1 DEF Named
  <2>2. origin[pk] = Family[l]
    BY <2>1 DEF FamilyInv, FamiliesKept, RowOf
  <2> QED BY <1>1, <2>1, <2>2 DEF FamilyInv, FamiliesKept, Grows
<1>2. CASE Mint(pk, pid, Blank, Blank, l)
  BY <1>2, MintFamily, ValuesAssumption
<1> QED BY <1>1, <1>2 DEF GetOrCreatePassport

\* The steps that change no row and no block
LEMMA MoveFamily ==
    ASSUME FamilyInv, NEW w \in Workers,
           \/ ConfigFound(w) \/ EnsurePassport(w) \/ CountUsers(w) \/ Finish(w)
           \/ ReadSource(w) \/ CheckTarget(w) \/ ScanOrphans(w)
    PROVE  FamiliesKept'
<1> USE DEF FamilyInv, RowsInv
<1>1. req[w] \in Request /\ Shape(req[w])
  BY DEF TypeInv, ReqOK
<1>2. UNCHANGED <<block, config, passport, minted, origin>>
  BY DEF ConfigFound, EnsurePassport, CountUsers, Finish, ReadSource, CheckTarget,
         ScanOrphans, db
<1>3. ASSUME NEW r, Set(w, r), ReqOf(origin, r) PROVE FamiliesKept'
  BY <1>2, <1>3, FamilyKept
<1>4. Stop(w) => FamiliesKept'
  BY <1>3, IdleOf DEF Stop
<1>5. ASSUME NEW pc, Go(w, pc), pc # "source", req[w].pc \notin {"keys", "again"} PROVE FamiliesKept'
  <2> DEFINE r == [req[w] EXCEPT !.pc = pc]
  <2>1. r.loc = req[w].loc /\ r.blk = req[w].blk /\ r.cfg = req[w].cfg /\ r.pk = req[w].pk
        /\ r.row = req[w].row /\ r.pc = pc
    BY <1>1 DEF Request
  <2>2. ReqOf(origin, r)
    BY <1>5, <2>1, SameOf
  <2> QED BY <1>3, <1>5, <2>2 DEF Go, Set
<1>6. CASE ConfigFound(w)
  <2> DEFINE r == [req[w] EXCEPT !.pc = "ensure", !.cfg = config[req[w].loc]]
  <2>1. req[w].loc \in Locations /\ req[w].blk # None /\ config[req[w].loc] # None
        /\ req[w].pc = "config"
    BY <1>1, <1>6 DEF ConfigFound, At, Shape
  <2>2. BlockOf(origin, req[w]) /\ ReqOf(origin, req[w])
    BY <2>1, HolderOf DEF FamiliesKept
  <2>3. r.loc = req[w].loc /\ r.blk = req[w].blk /\ r.cfg = config[req[w].loc]
        /\ r.pk = req[w].pk /\ r.row = req[w].row /\ r.pc = "ensure"
    BY <1>1 DEF Request
  <2>4. ReqOf(origin, r)
    BY <2>1, <2>2, <2>3 DEF FamiliesKept, ReqOf, BlockOf
  <2> QED BY <1>3, <1>6, <2>4 DEF ConfigFound
<1>7. CASE EnsurePassport(w)
  <2> DEFINE cfg == req[w].cfg
             found == [req[w] EXCEPT !.pc = "count", !.pk = cfg.passport,
                                     !.row = passport[cfg.passport]]
             stored == [req[w] EXCEPT !.pc = "sync", !.pk = cfg.passport]
  <2>1. cfg # None /\ cfg \in ConfigRow /\ req[w].pc = "ensure"
    BY <1>1, <1>7 DEF EnsurePassport, At, Shape, Request
  <2>2. BlockOf(origin, req[w]) /\ ReqOf(origin, req[w])
    BY <2>1, HolderOf DEF FamiliesKept
  <2>3. /\ found.loc = req[w].loc /\ found.blk = req[w].blk /\ found.cfg = cfg
        /\ found.pk = cfg.passport /\ found.row = passport[cfg.passport] /\ found.pc = "count"
        /\ stored.loc = req[w].loc /\ stored.blk = req[w].blk /\ stored.cfg = cfg
        /\ stored.pk = cfg.passport /\ stored.row = req[w].row /\ stored.pc = "sync"
    BY <1>1 DEF Request
  <2>4. cfg.passport # None => cfg.passport \in PassportId
    BY <2>1 DEF ConfigRow
  <2>5. cfg.passport # None /\ passport[cfg.passport] # None => ReqOf(origin, found)
    BY <2>1, <2>2, <2>3, <2>4 DEF FamiliesKept, ReqOf, BlockOf
  <2>6. BlockOf(origin, stored)
    BY <2>1, <2>2, <2>3 DEF BlockOf
  <2>7. cfg.passport # None => ReqOf(origin, stored)
    <3> SUFFICES ASSUME cfg.passport # None, req[w].row # None
                 PROVE  RowOf(origin, cfg.passport, req[w].row)
      BY <2>3, <2>6 DEF ReqOf
    <3>1. req[w].pk # None /\ RowOf(origin, req[w].pk, req[w].row)
      BY <2>2 DEF ReqOf
    <3>2. origin[cfg.passport] = Family[req[w].loc] /\ origin[req[w].pk] = Family[req[w].loc]
      BY <2>1, <2>2, <3>1 DEF BlockOf, Of
    <3> QED BY <3>1, <3>2 DEF RowOf
  <2> QED BY <1>3, <1>4, <1>5, <1>7, <2>1, <2>5, <2>7 DEF EnsurePassport
<1>8. CASE CountUsers(w) BY <1>5, <1>8 DEF CountUsers, At
<1>9. CASE Finish(w) BY <1>4, <1>9 DEF Finish
<1>10. CASE ReadSource(w)
  <2> SUFFICES ASSUME NEW src \in req[w].locs, config[src] # None,
                      Set(w, [req[w] EXCEPT !.pc = "target", !.cfg = config[src]])
               PROVE  FamiliesKept'
    BY <1>4, <1>10 DEF ReadSource
  <2> DEFINE r == [req[w] EXCEPT !.pc = "target", !.cfg = config[src]]
  <2>1. req[w].pc = "source" /\ req[w].loc \in Locations /\ src \in Locations
    BY <1>1, <1>10 DEF ReadSource, At, Shape, Request
  <2>2. ReqOf(origin, req[w]) /\ Family[src] = Family[req[w].loc]
    BY <2>1 DEF FamiliesKept, ReqOf
  <2>3. /\ r.loc = req[w].loc /\ r.blk = req[w].blk /\ r.cfg = config[src]
        /\ r.pk = req[w].pk /\ r.row = req[w].row /\ r.pc = "target"
    BY <1>1 DEF Request
  <2>4. Of(origin, config[src].passport, Family[r.loc])
    BY <2>1, <2>2, <2>3 DEF FamiliesKept
  <2>5. BlockOf(origin, r)
    BY <2>1, <2>2, <2>3, <2>4 DEF ReqOf, BlockOf, NoBlock, Of
  <2> QED BY <1>3, <2>2, <2>3, <2>5 DEF ReqOf
<1>11. CASE CheckTarget(w)
  <2> DEFINE r == [req[w] EXCEPT !.pc = "sync", !.cfg.id = ids']
  <2>1. req[w].pc = "target" /\ req[w].cfg # None /\ req[w].cfg \in ConfigRow
    BY <1>1, <1>11 DEF CheckTarget, At, Shape, Request
  <2>2. BlockOf(origin, req[w]) /\ ReqOf(origin, req[w])
    BY <2>1, HolderOf DEF FamiliesKept
  <2>3. /\ r.loc = req[w].loc /\ r.blk = req[w].blk /\ r.cfg.passport = req[w].cfg.passport
        /\ r.pk = req[w].pk /\ r.row = req[w].row /\ r.pc = "sync"
    BY <1>1, <2>1 DEF Request, ConfigRow
  <2>4. ReqOf(origin, r)
    BY <2>1, <2>2, <2>3 DEF ReqOf, BlockOf
  <2> QED BY <1>3, <1>4, <1>11, <2>4 DEF CheckTarget
<1>12. CASE ScanOrphans(w)
  <2> DEFINE r == [req[w] EXCEPT !.pc = "purge",
                       !.doomed = {p \in PassportId : passport[p] # None /\ Users(p) = {}}]
  <2>1. r.loc = req[w].loc /\ r.blk = req[w].blk /\ r.cfg = req[w].cfg /\ r.pk = req[w].pk
        /\ r.row = req[w].row /\ r.pc = "purge" /\ req[w].pc = "scan"
    BY <1>1, <1>12 DEF Request, ScanOrphans, At
  <2>2. ReqOf(origin, r)
    BY <2>1, SameOf
  <2> QED BY <1>3, <1>12, <2>2 DEF ScanOrphans
<1> QED BY <1>6, <1>7, <1>8, <1>9, <1>10, <1>11, <1>12

\* The steps that change configurations
LEMMA DropsFamily ==
    ASSUME FamilyInv, NEW w \in Workers, NEW r, Set(w, r), ReqOf(origin, r),
           UNCHANGED <<minted, origin, block>>,
           \A p \in PassportId : passport'[p] \in {None, passport[p]},
           \A l \in Locations : \/ config'[l] \in {None, config[l]}
                                \/ config'[l].passport = None
    PROVE  FamiliesKept'
<1>1. Grows(origin, origin') /\ \A p \in PassportId : p > minted' => origin'[p] = None
  BY DEF Grows, FamilyInv, FamiliesKept
<1>2. \A l \in Locations : config'[l] # None /\ config'[l] # config[l]
            => Of(origin', config'[l].passport, Family[l])
  BY DEF Of
<1>3. ReqOf(origin', r)
  OBVIOUS
<1> QED BY <1>1, <1>2, <1>3, FamilyTogether

LEMMA DeleteFamily ==
    ASSUME FamilyInv, NEW w \in Workers, DropConfigs(w) \/ PurgeOrphans(w) \/ RemoveBlocks(w)
    PROVE  FamiliesKept'
<1> USE DEF FamilyInv, RowsInv
<1>1. req[w] \in Request /\ Shape(req[w])
  BY DEF TypeInv, ReqOK
<1>2. CASE DropConfigs(w)
  <2> DEFINE r == [req[w] EXCEPT !.pc = "scan"]
  <2>1. r.loc = req[w].loc /\ r.blk = req[w].blk /\ r.cfg = req[w].cfg /\ r.pk = req[w].pk
        /\ r.row = req[w].row /\ r.pc = "scan" /\ req[w].pc = "drop"
    BY <1>1, <1>2 DEF Request, DropConfigs, At
  <2>2. ReqOf(origin, r)
    BY <2>1, SameOf
  <2>3. Set(w, r)
    BY <1>2 DEF DropConfigs, Go, Set
  <2> QED BY <1>2, <2>2, <2>3, DropsFamily DEF DropConfigs
<1>3. CASE PurgeOrphans(w)
  <2> DEFINE r == [req[w] EXCEPT !.pc = "remove", !.doomed = {}]
  <2>1. r.loc = req[w].loc /\ r.blk = req[w].blk /\ r.cfg = req[w].cfg /\ r.pk = req[w].pk
        /\ r.row = req[w].row /\ r.pc = "remove" /\ req[w].pc = "purge"
    BY <1>1, <1>3 DEF Request, PurgeOrphans, At
  <2>2. ReqOf(origin, r)
    BY <2>1, SameOf
  <2>3. \E q : Set(w, q) /\ ReqOf(origin, q)
    BY <1>3, <2>2, IdleOf DEF PurgeOrphans, Stop
  <2>4. /\ \A p \in PassportId : passport'[p] \in {None, passport[p]}
        /\ \A l \in Locations : config'[l] \in {None, config[l]} \/ config'[l].passport = None
    BY <1>3 DEF PurgeOrphans, DeletePassports, TypeInv, TypeOK, ConfigRow
  <2> QED BY <1>3, <2>3, <2>4, DropsFamily DEF PurgeOrphans
<1>4. CASE RemoveBlocks(w)
  <2> DEFINE locs == IF Cardinality(req[w].locs) = 1 THEN req[w].locs ELSE {}
             r == [req[w] EXCEPT !.pc = "drop", !.op = "delete", !.locs = locs]
  <2>1. Set(w, r)
    BY <1>1, <1>4 DEF RemoveBlocks, Request
  <2> HIDE DEF locs
  <2>2. r.loc = req[w].loc /\ r.blk = req[w].blk /\ r.cfg = req[w].cfg /\ r.pk = req[w].pk
        /\ r.row = req[w].row /\ r.pc = "drop" /\ req[w].pc = "remove"
    BY <1>1, <1>4 DEF Request, RemoveBlocks, At
  <2>3. ReqOf(origin, r)
    BY <2>2, SameOf
  <2>4. \A m \in Main : block'[m] \in {None, block[m]}
    BY <1>4 DEF RemoveBlocks
  <2> QED BY <1>4, <2>1, <2>3, <2>4, FamilyKept DEF RemoveBlocks, db
<1> QED BY <1>2, <1>3, <1>4

LEMMA UpdatedFamily ==
    ASSUME FamilyInv, NEW w \in Workers, req[w].cfg # None
    PROVE  /\ Updated(req[w]) \in ConfigRow
           /\ Of(origin, Updated(req[w]).passport, Family[req[w].loc])
<1>1. req[w] \in Request /\ Shape(req[w]) /\ req[w].cfg \in ConfigRow
  BY DEF FamilyInv, RowsInv, TypeInv, ReqOK, Request
<1>2. BlockOf(origin, req[w])
  BY HolderOf
<1>3. Updated(req[w]).passport = IF req[w].pk = None THEN req[w].cfg.passport ELSE req[w].pk
  BY <1>1 DEF Updated, ConfigRow
<1> QED BY <1>1, <1>2, <1>3, UpdatedTyped DEF BlockOf

LEMMA PullFamily ==
    ASSUME FamilyInv, NEW l \in Ccx, NEW row \in ConfigRow, Of(origin, row.passport, Family[l])
    PROVE  Of(origin, PullFromMain(l, row).passport, Family[l])
<1>1. MainOf[l] \in Locations /\ Family[MainOf[l]] = Family[l]
  BY LocationsAssumption DEF Main
<1>2. CASE config[MainOf[l]] = None
  BY <1>2 DEF PullFromMain
<1>3. CASE config[MainOf[l]] # None
  <2>1. config[MainOf[l]] \in ConfigRow
    BY <1>1, <1>3 DEF FamilyInv, RowsInv, TypeInv, TypeOK
  <2>2. PullFromMain(l, row).passport = config[MainOf[l]].passport
    BY <1>3, <2>1 DEF PullFromMain, ConfigRow
  <2> QED BY <1>1, <1>3, <2>2 DEF FamilyInv, FamiliesKept
<1> QED BY <1>2, <1>3

LEMMA PushFamily ==
    ASSUME ChildrenAreCopies, FamilyInv, NEW l \in Locations, NEW row \in ConfigRow,
           Of(origin, row.passport, Family[l])
    PROVE  \A m \in Locations :
                PushToChildren(l, row)[m] # None /\ PushToChildren(l, row)[m] # config[m]
                => Of(origin, PushToChildren(l, row)[m].passport, Family[m])
<1> TAKE m \in Locations
<1>1. [row EXCEPT !.id = config[m].id].passport = row.passport
  BY DEF ConfigRow
<1>2. CASE m \in Children(l) /\ config[m] # None
  <2>1. PushToChildren(l, row)[m].passport = row.passport
    BY <1>1, <1>2 DEF PushToChildren
  <2>2. Family[m] = Family[l]
    BY <1>2 DEF ChildrenAreCopies
  <2> QED BY <2>1, <2>2
<1>3. CASE ~(m \in Children(l) /\ config[m] # None)
  BY <1>3 DEF PushToChildren
<1> QED BY <1>2, <1>3

LEMMA SyncFamily ==
    ASSUME ChildrenAreCopies, FamilyInv, NEW w \in Workers, SyncConfigurations(w)
    PROVE  FamiliesKept'
<1> DEFINE l == req[w].loc
           new == Updated(req[w])
           With(cfg) == [req[w] EXCEPT !.pc = "save", !.cfg = cfg]
<1>1. req[w] \in Request /\ Shape(req[w]) /\ req[w].pc = "sync"
  BY AtTyped DEF SyncConfigurations, FamilyInv, RowsInv
<1>2. l \in Locations /\ req[w].cfg # None
  BY <1>1 DEF Shape
<1>3. BlockOf(origin, req[w]) /\ ReqOf(origin, req[w])
  BY <1>2, HolderOf DEF FamilyInv, FamiliesKept
<1>4. new \in ConfigRow /\ Of(origin, new.passport, Family[l])
  BY <1>2, UpdatedFamily
<1>5. ASSUME NEW cfg \in ConfigRow, Of(origin, cfg.passport, Family[l])
      PROVE  ReqOf(origin, With(cfg))
  <2>1. With(cfg).loc = l /\ With(cfg).blk = req[w].blk /\ With(cfg).cfg = cfg
        /\ With(cfg).pk = req[w].pk /\ With(cfg).row = req[w].row /\ With(cfg).pc = "save"
    BY <1>1 DEF Request
  <2> QED BY <1>2, <1>3, <1>5, <2>1 DEF ReqOf, BlockOf
<1>6. UNCHANGED <<block, passport, minted, origin>>
  BY DEF SyncConfigurations
<1>7. CASE Return(w, req[w]) /\ UNCHANGED config
  <2> DEFINE r == [req[w] EXCEPT !.pc = "returned"]
  <2>1. r.loc = req[w].loc /\ r.blk = req[w].blk /\ r.cfg = req[w].cfg /\ r.pk = req[w].pk
        /\ r.row = req[w].row /\ r.pc = "returned"
    BY <1>1 DEF Request
  <2>2. ReqOf(origin, r)
    BY <1>1, <2>1, SameOf
  <2> QED BY <1>6, <1>7, <2>2, IdleOf, FamilyKept DEF Return
<1>8. CASE Stop(w) /\ UNCHANGED config
  BY <1>6, <1>8, IdleOf, FamilyKept DEF Stop
<1>9. CASE l \in Ccx /\ Set(w, With(PullFromMain(l, new))) /\ UNCHANGED config
  <2>1. PullFromMain(l, new) \in ConfigRow /\ Of(origin, PullFromMain(l, new).passport, Family[l])
    BY <1>4, <1>9, PullFamily, PullTyped DEF FamilyInv, RowsInv, TypeInv
  <2> QED BY <1>5, <1>6, <1>9, <2>1, FamilyKept
<1>10. CASE config' = PushToChildren(l, new) /\ Set(w, With(new))
  <2>1. ReqOf(origin, With(new))
    BY <1>4, <1>5
  <2> QED BY <1>2, <1>4, <1>6, <1>10, <2>1, PushFamily, FamilyKept
<1> QED BY <1>7, <1>8, <1>9, <1>10 DEF SyncConfigurations

LEMMA ReturnFamily ==
    ASSUME FamilyInv, NEW w \in Workers, NEW r \in Request, ReqOf(origin, r),
           Return(w, r), r.pc \notin {"keys", "again"}
    PROVE  \E q : Set(w, q) /\ ReqOf(origin, q)
<1> DEFINE q == [r EXCEPT !.pc = "returned"]
<1>1. q.loc = r.loc /\ q.blk = r.blk /\ q.cfg = r.cfg /\ q.pk = r.pk /\ q.row = r.row
      /\ q.pc = "returned"
  BY DEF Request
<1>2. ReqOf(origin, q)
  BY <1>1 DEF ReqOf, BlockOf, NoBlock
<1> QED BY <1>2, IdleOf DEF Return

LEMMA SaveFamily ==
    ASSUME FamilyInv, NEW w \in Workers, SaveConfig(w) \/ AttachPassport(w)
    PROVE  FamiliesKept'
<1> DEFINE l == req[w].loc
<1>1. req[w] \in Request /\ Shape(req[w]) /\ req[w].pc \in {"save", "attach"}
  BY AtTyped DEF SaveConfig, AttachPassport, FamilyInv, RowsInv
<1>2. l \in Locations /\ req[w].cfg # None
  BY <1>1 DEF Shape
<1>3. BlockOf(origin, req[w]) /\ ReqOf(origin, req[w])
  BY <1>2, HolderOf DEF FamilyInv, FamiliesKept
<1>4. UNCHANGED <<block, passport, minted, origin>>
  BY DEF SaveConfig, AttachPassport
<1>5. CASE Stop(w) /\ UNCHANGED config
  BY <1>4, <1>5, IdleOf, FamilyKept DEF Stop
<1>6. ASSUME config' = [config EXCEPT ![l] = req[w].cfg],
             NEW r, Set(w, r), ReqOf(origin, r)
      PROVE  FamiliesKept'
  <2>1. \A m \in Locations : config'[m] # None /\ config'[m] # config[m]
            => Of(origin, config'[m].passport, Family[m])
    BY <1>2, <1>3, <1>6 DEF BlockOf, FamilyInv, RowsInv, TypeInv, TypeOK
  <2> QED BY <1>4, <1>6, <2>1, FamilyKept
<1>7. CASE SaveConfig(w) /\ ~Stop(w)
  <2>1. CASE Go(w, "link")
    <3> DEFINE r == [req[w] EXCEPT !.pc = "link"]
    <3>1. r.loc = req[w].loc /\ r.blk = req[w].blk /\ r.cfg = req[w].cfg /\ r.pk = req[w].pk
          /\ r.row = req[w].row /\ r.pc = "link"
      BY <1>1 DEF Request
    <3>2. ReqOf(origin, r)
      BY <1>1, <3>1, SameOf
    <3> QED BY <1>5, <1>6, <1>7, <2>1, <3>2 DEF SaveConfig, Go, Set
  <2>2. CASE Return(w, req[w])
    BY <1>1, <1>3, <1>5, <1>6, <1>7, <2>2, ReturnFamily DEF SaveConfig
  <2> QED BY <1>7, <2>1, <2>2 DEF SaveConfig
<1>8. CASE SaveConfig(w) /\ Stop(w)
  BY <1>5, <1>6, <1>8, IdleOf DEF SaveConfig, Stop
<1>9. CASE AttachPassport(w) /\ config' = [config EXCEPT ![l].passport = req[w].pk]
           /\ config[l] # None /\ Return(w, [req[w] EXCEPT !.cfg = config'[l]])
  <2> DEFINE r == [req[w] EXCEPT !.cfg = config'[l]]
  <2>1. config[l] \in ConfigRow
    BY <1>2, <1>9 DEF FamilyInv, RowsInv, TypeInv, TypeOK
  <2>2. req[w].pk # None /\ req[w].pk \in PassportId
    BY <1>1, <1>9 DEF AttachPassport, At, Shape, Request
  <2>3. config'[l] = [config[l] EXCEPT !.passport = req[w].pk]
        /\ \A m \in Locations \ {l} : config'[m] = config[m]
    BY <1>2, <1>9 DEF FamilyInv, RowsInv, TypeInv, TypeOK
  <2>4. config'[l].passport = req[w].pk /\ config'[l] \in ConfigRow
    BY <2>1, <2>2, <2>3 DEF ConfigRow
  <2>5. r \in Request /\ r.loc = req[w].loc /\ r.blk = req[w].blk /\ r.cfg = config'[l]
        /\ r.pk = req[w].pk /\ r.row = req[w].row /\ r.pc = req[w].pc
    BY <1>1, <2>4 DEF Request
  <2>6. ReqOf(origin, r)
    BY <1>1, <1>3, <2>4, <2>5 DEF ReqOf, BlockOf
  <2>7. \A m \in Locations : config'[m] # None /\ config'[m] # config[m]
            => Of(origin, config'[m].passport, Family[m])
    BY <1>3, <2>3, <2>4 DEF BlockOf
  <2> QED BY <1>1, <1>4, <1>9, <2>5, <2>6, <2>7, ReturnFamily, FamilyKept
<1> QED BY <1>5, <1>7, <1>8, <1>9 DEF AttachPassport

\* The steps that create or write a passport
LEMMA UpdateInPlaceFamily ==
    ASSUME FamilyInv, NEW w \in Workers, UpdateInPlace(w)
    PROVE  FamiliesKept'
<1> DEFINE pk == req[w].pk
           tool == req[w].blk.tool
           row == [req[w].row EXCEPT !.pub = tool.pub, !.url = tool.url]
           r == [req[w] EXCEPT !.pc = "sync", !.row = row]
<1>1. req[w] \in Request /\ Shape(req[w]) /\ req[w].pc = "inplace"
  BY AtTyped DEF UpdateInPlace, FamilyInv, RowsInv
<1>2. req[w].row \in PassportRow /\ req[w].row # None /\ req[w].blk # None /\ pk \in PassportId
  BY <1>1 DEF Request, Shape
<1>3. BlockOf(origin, req[w]) /\ RowOf(origin, pk, req[w].row)
  BY <1>2, HolderOf DEF FamilyInv, FamiliesKept, ReqOf
<1>4. row.pid = req[w].row.pid
  BY <1>2 DEF PassportRow
<1>5. RowOf(origin, pk, row)
  BY <1>3, <1>4 DEF RowOf
<1> HIDE DEF row
<1>6. r.loc = req[w].loc /\ r.blk = req[w].blk /\ r.cfg = req[w].cfg /\ r.pk = pk
      /\ r.row = row /\ r.pc = "sync"
  BY <1>1 DEF Request
<1>7. ReqOf(origin, r)
  <2>1. BlockOf(origin, r) /\ r.pc # "source"
    BY <1>3, <1>6 DEF BlockOf
  <2>2. r.pk # None /\ RowOf(origin, r.pk, r.row)
    BY <1>1, <1>5, <1>6 DEF Shape
  <2> QED BY <2>1, <2>2 DEF ReqOf
<1>8. UNCHANGED <<block, config, minted, origin>>
  BY DEF UpdateInPlace
<1>9. CASE passport' = [passport EXCEPT ![pk] = row] /\ Set(w, r)
  <2>1. \A p \in PassportId : passport'[p] # passport[p] => p = pk /\ passport'[p] = row
    BY <1>2, <1>9 DEF FamilyInv, RowsInv, TypeInv, TypeOK
  <2>2. Grows(origin, origin') /\ \A p \in PassportId : p > minted' => origin'[p] = None
    BY <1>8 DEF Grows, FamilyInv, FamiliesKept
  <2>3. \A p \in PassportId : passport'[p] # None /\ passport'[p] # passport[p]
            => RowOf(origin', p, passport'[p])
    BY <1>5, <1>8, <2>1
  <2>4. ReqOf(origin', r)
    BY <1>7, <1>8
  <2> QED BY <1>8, <1>9, <2>2, <2>3, <2>4, FamilyTogether
<1>10. CASE Stop(w) /\ UNCHANGED passport
  BY <1>8, <1>10, IdleOf, FamilyKept DEF Stop
<1> QED BY <1>9, <1>10 DEF UpdateInPlace, row

LEMMA SaveKeysFamily ==
    ASSUME FamilyInv, NEW w \in Workers, SaveKeys(w)
    PROVE  FamiliesKept'
<1> DEFINE pk == req[w].pk
           row == req[w].row
           r == [req[w] EXCEPT !.pc = "again"]
<1>1. req[w] \in Request /\ Shape(req[w]) /\ req[w].pc \in {"keys", "again"}
  BY AtTyped DEF SaveKeys, AtKeys, FamilyInv, RowsInv
<1>2. row # None /\ pk \in PassportId
  BY <1>1 DEF Request, Shape
<1>3. ReqOf(origin, req[w]) /\ RowOf(origin, pk, row)
  BY <1>2 DEF FamilyInv, FamiliesKept, ReqOf
<1>4. r.loc = req[w].loc /\ r.blk = req[w].blk /\ r.cfg = req[w].cfg /\ r.pk = pk
      /\ r.row = row /\ r.pc = "again"
  BY <1>1 DEF Request
<1>5. ReqOf(origin, r)
  BY <1>4, SameOf
<1>6. \E q : Set(w, q) /\ ReqOf(origin, q)
  BY <1>5, IdleOf DEF SaveKeys, Stop, Go, Set
<1>7. UNCHANGED <<block, config, minted, origin>>
  BY DEF SaveKeys
<1>8. Grows(origin, origin') /\ \A p \in PassportId : p > minted' => origin'[p] = None
  BY <1>7 DEF Grows, FamilyInv, FamiliesKept
<1>9. \A p \in PassportId : passport'[p] # passport[p] => p = pk /\ passport'[p] = row
  BY <1>2 DEF SaveKeys, FamilyInv, RowsInv, TypeInv, TypeOK
<1>10. \A p \in PassportId : passport'[p] # None /\ passport'[p] # passport[p]
            => RowOf(origin', p, passport'[p])
  BY <1>3, <1>7, <1>9
<1> QED BY <1>6, <1>7, <1>8, <1>10, FamilyTogether

LEMMA SplitFamily ==
    ASSUME FamilyInv, NEW w \in Workers, SplitPassport(w)
    PROVE  FamiliesKept'
<1> DEFINE l == req[w].loc
<1>1. req[w] \in Request /\ Shape(req[w]) /\ req[w].pc = "split"
  BY AtTyped DEF SplitPassport, FamilyInv, RowsInv
<1>2. l \in Locations /\ req[w].blk \in BlockRow /\ req[w].blk # None /\ req[w].row # None
      /\ req[w].row \in PassportRow /\ req[w].pk \in PassportId
  BY <1>1 DEF Request, Shape
<1>3. req[w].blk.tool.pub \in KeyTexts /\ req[w].blk.tool.url \in KeyTexts
  BY <1>2 DEF BlockRow, Settings
<1>4. PICK pk \in PassportId :
        /\ Mint(pk, pk, req[w].blk.tool.pub, req[w].blk.tool.url, l)
        /\ Set(w, [req[w] EXCEPT !.pc = "keepsplit", !.pk = pk, !.blk.pid = pk])
  BY DEF SplitPassport
<1> DEFINE r == [req[w] EXCEPT !.pc = "keepsplit", !.pk = pk, !.blk.pid = pk]
<1>5. /\ Grows(origin, origin') /\ origin'[pk] = Family[l]
      /\ \A p \in PassportId : p > minted' => origin'[p] = None
      /\ \A p \in PassportId : passport'[p] # None /\ passport'[p] # passport[p]
                => RowOf(origin', p, passport'[p])
  BY <1>2, <1>3, <1>4, MintFamily
<1>6. BlockOf(origin, req[w]) /\ ReqOf(origin, req[w]) /\ RowOf(origin, req[w].pk, req[w].row)
  BY <1>2, HolderOf DEF FamilyInv, FamiliesKept, ReqOf
<1>7. BlockOf(origin', req[w]) /\ RowOf(origin', req[w].pk, req[w].row)
  BY <1>1, <1>2, <1>5, <1>6, BlockOfGrows, RowOfGrows
<1>8. r.loc = l /\ r.blk.pid = pk /\ r.cfg = req[w].cfg /\ r.pk = pk /\ r.row = req[w].row
      /\ r.pc = "keepsplit"
  BY <1>1, <1>2 DEF Request, BlockRow
<1>9. BlockOf(origin', r)
  BY <1>5, <1>7, <1>8 DEF BlockOf, Of
<1>10. RowOf(origin', pk, r.row)
  BY <1>2, <1>5, <1>7, <1>8, NoneAssumption DEF BlockOf, Of, RowOf
<1>11. ReqOf(origin', r)
  BY <1>4, <1>8, <1>9, <1>10, NoneAssumption DEF ReqOf
<1>12. UNCHANGED <<block, config>>
  BY DEF SplitPassport
<1> QED BY <1>4, <1>5, <1>11, <1>12, FamilyTogether

LEMMA KeepFamily ==
    ASSUME FamilyInv, NEW w \in Workers, KeepSplit(w) \/ KeepLink(w)
    PROVE  FamiliesKept'
<1>1. req[w] \in Request /\ Shape(req[w]) /\ req[w].pc \in {"keepsplit", "keep"}
  BY AtTyped DEF KeepSplit, KeepLink, FamilyInv, RowsInv
<1>2. req[w].loc \in Locations /\ req[w].blk # None
  BY <1>1 DEF Shape
<1>3. Of(origin, req[w].blk.pid, Family[Home(req[w].loc)])
  BY <1>2, HolderOf, HomeFamily DEF BlockOf
<1>4. PICK pc \in {"sync", "attach"} : SaveBlock(w, pc) /\ UNCHANGED db
  BY DEF KeepSplit, KeepLink
<1>5. \A m \in Main : block'[m] # None /\ block'[m] # block[m]
            => Of(origin, block'[m].pid, Family[m])
  BY <1>3, <1>4 DEF SaveBlock, FamilyInv, RowsInv, TypeInv, TypeOK
<1> DEFINE r == [req[w] EXCEPT !.pc = pc]
<1>6. r.loc = req[w].loc /\ r.blk = req[w].blk /\ r.cfg = req[w].cfg /\ r.pk = req[w].pk
      /\ r.row = req[w].row /\ r.pc = pc
  BY <1>1 DEF Request
<1>7. ReqOf(origin, r)
  BY <1>1, <1>4, <1>6, SameOf
<1>8. \E q : Set(w, q) /\ ReqOf(origin, q)
  BY <1>4, <1>7, IdleOf DEF SaveBlock, Go, Stop, Set
<1> QED BY <1>4, <1>5, <1>8, FamilyKept DEF db

LEMMA BlockFamily ==
    ASSUME FamilyInv, NEW l \in Locations, block[Home(l)] # None, block[Home(l)].pid # None
    PROVE  block[Home(l)].pid \in PassportId /\ origin[block[Home(l)].pid] = Family[l]
<1>1. Home(l) \in Main /\ Family[Home(l)] = Family[l]
  BY HomeFamily
<1> QED BY <1>1 DEF FamilyInv, FamiliesKept, Of, RowsInv, TypeInv, TypeOK, BlockRow

LEMMA LinkFamily ==
    ASSUME FamilyInv, NEW w \in Workers, LinkPassport(w)
    PROVE  FamiliesKept'
<1> DEFINE l == req[w].loc
           b == block[Home(l)]
<1>1. req[w] \in Request /\ Shape(req[w]) /\ req[w].pc = "link"
  BY AtTyped DEF LinkPassport, FamilyInv, RowsInv
<1>2. l \in Locations /\ req[w].cfg # None
  BY <1>1 DEF Shape
<1>3. BlockOf(origin, req[w]) /\ ReqOf(origin, req[w])
  BY <1>2, HolderOf DEF FamilyInv, FamiliesKept
<1>4. UNCHANGED <<block, config>>
  BY DEF LinkPassport
<1>5. CASE Stop(w) /\ UNCHANGED <<passport, minted, origin>>
  BY <1>4, <1>5, IdleOf, FamilyKept DEF Stop
<1>6. ASSUME Grows(origin, origin'), NEW pk \in PassportId, origin'[pk] = Family[l],
             NEW blk, NEW pc \in {"attach", "keep"},
             blk # None => Of(origin', blk.pid, Family[l]),
             NEW r, r.loc = l, r.blk = blk, r.cfg = req[w].cfg, r.pk = pk,
             r.row = req[w].row, r.pc = pc
      PROVE  ReqOf(origin', r)
  <2>1. BlockOf(origin', req[w])
    BY <1>1, <1>3, <1>6, BlockOfGrows
  <2>2. BlockOf(origin', r)
    BY <1>6, <2>1 DEF BlockOf, Of
  <2>3. ASSUME r.row # None PROVE RowOf(origin', pk, r.row)
    <3>1. req[w].pk \in PassportId /\ req[w].row \in PassportRow /\ req[w].pk # None
          /\ RowOf(origin, req[w].pk, req[w].row)
      BY <1>1, <1>3, <1>6, <2>3 DEF ReqOf, Request
    <3>2. RowOf(origin', req[w].pk, req[w].row)
      BY <1>6, <3>1, RowOfGrows
    <3>3. origin'[req[w].pk] = Family[l]
      BY <2>1, <3>1 DEF BlockOf, Of
    <3> QED BY <1>6, <3>2, <3>3 DEF RowOf
  <2> QED BY <1>6, <2>2, <2>3, NoneAssumption DEF ReqOf
<1>7. ASSUME b # None, b.pid # None, NEW pk \in PassportId,
             GetOrCreatePassport(pk, b.pid, l),
             Set(w, [req[w] EXCEPT !.pc = "attach", !.pk = pk])
      PROVE  FamiliesKept'
  <2> DEFINE r == [req[w] EXCEPT !.pc = "attach", !.pk = pk]
  <2>1. b.pid \in PassportId /\ origin[b.pid] = Family[l]
    BY <1>2, <1>7, BlockFamily
  <2>2. /\ Grows(origin, origin') /\ origin'[pk] = Family[l]
        /\ \A p \in PassportId : p > minted' => origin'[p] = None
        /\ \A p \in PassportId : passport'[p] # None /\ passport'[p] # passport[p]
                => RowOf(origin', p, passport'[p])
    BY <1>2, <1>7, <2>1, GetOrCreateFamily
  <2>3. r.loc = l /\ r.blk = req[w].blk /\ r.cfg = req[w].cfg /\ r.pk = pk
        /\ r.row = req[w].row /\ r.pc = "attach"
    BY <1>1 DEF Request
  <2>4. BlockOf(origin', req[w])
    BY <1>1, <1>3, <2>2, BlockOfGrows
  <2>5. req[w].blk # None => Of(origin', req[w].blk.pid, Family[l])
    BY <2>4 DEF BlockOf
  <2>6. ReqOf(origin', r)
    BY <1>6, <2>2, <2>3, <2>5
  <2> QED BY <1>4, <1>7, <2>2, <2>6, FamilyTogether
<1>8. ASSUME b # None, NEW pk \in PassportId, Mint(pk, pk, Blank, Blank, l),
             Set(w, [req[w] EXCEPT !.pc = "keep", !.pk = pk, !.blk = [b EXCEPT !.pid = pk]])
      PROVE  FamiliesKept'
  <2> DEFINE blk == [b EXCEPT !.pid = pk]
             r == [req[w] EXCEPT !.pc = "keep", !.pk = pk, !.blk = blk]
  <2>1. b \in BlockRow
    BY <1>2, <1>8, HomeTyped DEF FamilyInv, RowsInv, TypeInv, TypeOK
  <2>2. blk.pid = pk
    BY <2>1 DEF BlockRow
  <2>3. /\ Grows(origin, origin') /\ origin'[pk] = Family[l]
        /\ \A p \in PassportId : p > minted' => origin'[p] = None
        /\ \A p \in PassportId : passport'[p] # None /\ passport'[p] # passport[p]
                => RowOf(origin', p, passport'[p])
    BY <1>2, <1>8, MintFamily, ValuesAssumption
  <2>4. Of(origin', blk.pid, Family[l])
    BY <2>2, <2>3 DEF Of
  <2> HIDE DEF blk
  <2>5. r.loc = l /\ r.blk = blk /\ r.cfg = req[w].cfg /\ r.pk = pk
        /\ r.row = req[w].row /\ r.pc = "keep"
    BY <1>1 DEF Request
  <2>6. ReqOf(origin', r)
    BY <1>6, <2>3, <2>4, <2>5
  <2>7. Set(w, r)
    BY <1>8 DEF blk
  <2> QED BY <1>4, <2>3, <2>6, <2>7, FamilyTogether
<1> QED BY <1>5, <1>7, <1>8 DEF LinkPassport

LEMMA ConfigCreatedFamily ==
    ASSUME FamilyInv, NEW w \in Workers, ConfigCreated(w)
    PROVE  FamiliesKept'
<1> DEFINE l == req[w].loc
           row == NewConfig(l)
           b == block[Home(l)]
           Insert(pk) ==
            /\ config' = [PushToChildren(l, row) EXCEPT ![l] = [row EXCEPT !.passport = pk]]
            /\ Set(w, [req[w] EXCEPT !.pc = "ensure", !.cfg = [row EXCEPT !.passport = pk]])
<1>1. req[w] \in Request /\ Shape(req[w]) /\ req[w].pc = "config"
  BY AtTyped DEF ConfigCreated, FamilyInv, RowsInv
<1>2. l \in Locations /\ req[w].blk # None
  BY <1>1 DEF Shape
<1>3. BlockOf(origin, req[w]) /\ ReqOf(origin, req[w])
  BY <1>2, HolderOf DEF FamilyInv, FamiliesKept
<1>4. row \in ConfigRow
  BY <1>2, NewConfigTyped DEF FamilyInv, RowsInv, TypeInv
<1>5. l \notin Ccx => row.passport = None
  BY DEF NewConfig
<1>6. row.passport # None => row.passport \in PassportId /\ origin[row.passport] = Family[l]
  <2>1. CASE l \in Ccx
    <3> DEFINE new == [id |-> ids + 1, passport |-> None, store |-> ON_XBLOCK]
    <3>1. new \in ConfigRow /\ Of(origin, new.passport, Family[l])
      BY ValuesAssumption DEF ConfigRow, FamilyInv, RowsInv, TypeInv, TypeOK, Of
    <3>2. row = PullFromMain(l, new)
      BY <2>1 DEF NewConfig
    <3>3. Of(origin, row.passport, Family[l])
      BY <2>1, <3>1, <3>2, PullFamily
    <3> QED BY <1>4, <3>3 DEF Of, ConfigRow
  <2> QED BY <1>5, <2>1
<1>7. \A m \in Locations :
        PushToChildren(l, row)[m] = config[m] \/ PushToChildren(l, row)[m].passport = None
  BY <1>4, <1>5 DEF PushToChildren, Children, ConfigRow
<1>8. ASSUME NEW pk \in PassportId, Insert(pk), Grows(origin, origin'),
             origin'[pk] = Family[l],
             \A p \in PassportId : p > minted' => origin'[p] = None,
             \A p \in PassportId : passport'[p] # None /\ passport'[p] # passport[p]
                => RowOf(origin', p, passport'[p]),
             \A m \in Main : block'[m] # None /\ block'[m] # block[m]
                => Of(origin', block'[m].pid, Family[m])
      PROVE  FamiliesKept'
  <2> DEFINE cfg == [row EXCEPT !.passport = pk]
             r == [req[w] EXCEPT !.pc = "ensure", !.cfg = cfg]
  <2>1. cfg.passport = pk
    BY <1>4 DEF ConfigRow
  <2>2. r.loc = l /\ r.blk = req[w].blk /\ r.cfg = cfg /\ r.pk = req[w].pk
        /\ r.row = req[w].row /\ r.pc = "ensure"
    BY <1>1 DEF Request
  <2>3. ReqOf(origin', req[w]) /\ BlockOf(origin', req[w])
    BY <1>1, <1>3, <1>8, ReqOfGrows, BlockOfGrows
  <2>4. ReqOf(origin', r)
    BY <1>8, <2>1, <2>2, <2>3 DEF ReqOf, BlockOf, Of
  <2>5. PushToChildren(l, row) \in [Locations -> ConfigRow \cup {None}]
    BY <1>2, <1>4, PushTyped DEF FamilyInv, RowsInv, TypeInv
  <2>6. \A m \in Locations : config'[m] = IF m = l THEN cfg ELSE PushToChildren(l, row)[m]
    BY <1>8, <2>5
  <2>7. \A m \in Locations : config'[m] # None /\ config'[m] # config[m]
            => Of(origin', config'[m].passport, Family[m])
    BY <1>7, <1>8, <2>1, <2>6 DEF Of
  <2> QED BY <1>8, <2>4, <2>7, FamilyTogether
<1>9. CASE Insert(row.passport) /\ row.passport # None
           /\ UNCHANGED <<block, passport, minted, origin>>
  <2>1. Grows(origin, origin') /\ \A p \in PassportId : p > minted' => origin'[p] = None
    BY <1>9 DEF Grows, FamilyInv, FamiliesKept
  <2> QED BY <1>6, <1>8, <1>9, <2>1
<1>10. ASSUME b # None, b.pid # None, UNCHANGED block,
              NEW pk \in PassportId, GetOrCreatePassport(pk, b.pid, l), Insert(pk)
       PROVE  FamiliesKept'
  <2>1. b.pid \in PassportId /\ origin[b.pid] = Family[l]
    BY <1>2, <1>10, BlockFamily
  <2>2. /\ Grows(origin, origin') /\ origin'[pk] = Family[l]
        /\ \A p \in PassportId : p > minted' => origin'[p] = None
        /\ \A p \in PassportId : passport'[p] # None /\ passport'[p] # passport[p]
                => RowOf(origin', p, passport'[p])
    BY <1>2, <1>10, <2>1, GetOrCreateFamily
  <2> QED BY <1>8, <1>10, <2>2
<1>11. ASSUME b # None, NEW pk \in PassportId, Mint(pk, pk, Blank, Blank, l), Insert(pk),
              block' = [block EXCEPT ![Home(l)].pid = pk]
       PROVE  FamiliesKept'
  <2>1. /\ Grows(origin, origin') /\ origin'[pk] = Family[l]
        /\ \A p \in PassportId : p > minted' => origin'[p] = None
        /\ \A p \in PassportId : passport'[p] # None /\ passport'[p] # passport[p]
                => RowOf(origin', p, passport'[p])
    BY <1>2, <1>11, MintFamily, ValuesAssumption
  <2>2. Home(l) \in Main /\ Family[Home(l)] = Family[l]
    BY <1>2, HomeFamily
  <2>3. b \in BlockRow
    BY <1>11, <2>2 DEF FamilyInv, RowsInv, TypeInv, TypeOK
  <2>4. [b EXCEPT !.pid = pk].pid = pk
    BY <2>3 DEF BlockRow
  <2>5. \A m \in Main : block'[m] = IF m = Home(l) THEN [b EXCEPT !.pid = pk] ELSE block[m]
    BY <1>11, <2>2 DEF FamilyInv, RowsInv, TypeInv, TypeOK
  <2>6. \A m \in Main : block'[m] # None /\ block'[m] # block[m]
            => Of(origin', block'[m].pid, Family[m])
    BY <2>1, <2>2, <2>4, <2>5 DEF Of
  <2> QED BY <1>8, <1>11, <2>1, <2>6
<1>12. CASE Stop(w) /\ UNCHANGED <<block, db>>
  BY <1>12, IdleOf, FamilyKept DEF Stop, db
<1> QED BY <1>9, <1>10, <1>11, <1>12 DEF ConfigCreated

\* A request that starts, or an edit, and what it does to a block
LEMMA StartFamily ==
    ASSUME FamilyInv, NEW w \in Workers,
           \/ \E l \in Locations : StartView(w, l) \/ StartAccess(w, l)
           \/ \E p \in PassportId : StartKeys(w, p)
           \/ \E src, dst \in Main : DuplicateBlock(w, src, dst)
           \/ \E S \in SUBSET Main : StartDelete(w, S)
    PROVE  FamiliesKept'
<1>1. ASSUME NEW l \in Locations, StartView(w, l) PROVE FamiliesKept'
  <2> DEFINE r == [Idle EXCEPT !.pc = "config", !.op = "view", !.loc = l, !.blk = block[Home(l)]]
  <2>1. Of(origin, block[Home(l)].pid, Family[l])
    BY <1>1, HomeFamily DEF StartView, FamilyInv, FamiliesKept
  <2>2. r.loc = l /\ r.blk = block[Home(l)] /\ r.cfg = None /\ r.pk = None /\ r.row = None
        /\ r.pc = "config"
    BY DEF Idle
  <2>3. ReqOf(origin, r)
    BY <2>1, <2>2 DEF ReqOf, BlockOf, Of
  <2> QED BY <1>1, <2>3, FamilyKept DEF StartView, db
<1>2. ASSUME NEW l \in Locations, StartAccess(w, l) PROVE FamiliesKept'
  <2> DEFINE r == [Idle EXCEPT !.pc = "link", !.op = "access", !.loc = l, !.cfg = config[l]]
  <2>1. Of(origin, config[l].passport, Family[l])
    BY <1>2 DEF StartAccess, FamilyInv, FamiliesKept
  <2>2. r.loc = l /\ r.blk = None /\ r.cfg = config[l] /\ r.pk = None /\ r.row = None
        /\ r.pc = "link"
    BY DEF Idle
  <2>3. ReqOf(origin, r)
    BY <2>1, <2>2 DEF ReqOf, BlockOf, Of
  <2> QED BY <1>2, <2>3, FamilyKept DEF StartAccess, db
<1>3. ASSUME NEW src \in Main, NEW dst \in Main, DuplicateBlock(w, src, dst) PROVE FamiliesKept'
  <2> DEFINE r == [Idle EXCEPT !.pc = "source", !.op = "duplicate", !.loc = dst, !.locs = {src}]
  <2>1. r.loc = dst /\ r.blk = None /\ r.cfg = None /\ r.pk = None /\ r.row = None
        /\ r.locs = {src}
    BY DEF Idle
  <2>2. Family[src] = Family[dst] /\ block[src] # None
    BY <1>3 DEF DuplicateBlock
  <2>3. ReqOf(origin, r)
    BY <2>1, <2>2 DEF ReqOf, BlockOf, Of, Main
  <2>4. \A m \in Main : block'[m] # block[m] => m = dst /\ block'[m] = block[src]
    BY <1>3 DEF DuplicateBlock, FamilyInv, RowsInv, TypeInv, TypeOK
  <2>5. \A m \in Main : block'[m] # None /\ block'[m] # block[m]
            => Of(origin, block'[m].pid, Family[m])
    BY <2>2, <2>4 DEF FamilyInv, FamiliesKept
  <2> QED BY <1>3, <2>3, <2>5, FamilyKept DEF DuplicateBlock, db
<1>4. ASSUME NEW S \in SUBSET Main, StartDelete(w, S) PROVE FamiliesKept'
  <2> DEFINE r == [Idle EXCEPT !.pc = "drop", !.op = "predelete", !.locs = S]
  <2>1. ReqOf(origin, r)
    BY DEF Idle, ReqOf, NoBlock
  <2> QED BY <1>4, <2>1, FamilyKept DEF StartDelete, db
<1>5. ASSUME NEW p \in PassportId, StartKeys(w, p) PROVE FamiliesKept'
  <2> DEFINE r == [Idle EXCEPT !.pc = "keys", !.op = "keys", !.pk = p, !.row = passport[p]]
  <2>1. r.pc = "keys" /\ r.blk = None /\ r.cfg = None /\ r.pk = p /\ r.row = passport[p]
    BY DEF Idle
  <2>2. RowOf(origin, p, passport[p]) /\ p # None
    BY <1>5, NoneAssumption DEF StartKeys, FamilyInv, FamiliesKept
  <2>3. ReqOf(origin, r)
    BY <2>1, <2>2 DEF ReqOf, NoBlock
  <2> QED BY <1>5, <2>3, FamilyKept DEF StartKeys, db
<1> QED BY <1>1, <1>2, <1>3, <1>4, <1>5

LEMMA EditFamily ==
    ASSUME FamilyInv, UNCHANGED <<minted, origin, req>>,
           \A p \in PassportId : passport'[p] \in {None, passport[p]},
           \A l \in Locations : config'[l] = config[l] \/ config'[l].passport = None,
           \A m \in Main : block'[m] # None /\ block'[m] # block[m]
                => Of(origin, block'[m].pid, Family[m])
    PROVE  FamiliesKept'
<1>1. \A l \in Locations : config'[l] # None => Of(origin, config'[l].passport, Family[l])
  BY DEF FamilyInv, FamiliesKept, Of
<1>2. \A p \in PassportId : passport'[p] # None => RowOf(origin, p, passport'[p])
  BY DEF FamilyInv, FamiliesKept
<1>3. \A m \in Main : block'[m] # None => Of(origin, block'[m].pid, Family[m])
  BY DEF FamilyInv, FamiliesKept
<1> QED BY <1>1, <1>2, <1>3 DEF FamilyInv, FamiliesKept, RowOf, Of, ReqOf, BlockOf

LEMMA AuthorsFamily ==
    ASSUME FamilyInv, NEW m \in Main,
           \/ \E t \in ToolSettings : EditTool(m, t)
           \/ \E s \in Stores : EditStore(m, s)
    PROVE  FamiliesKept'
<1>1. block[m] \in BlockRow /\ block[m] # None
  BY DEF EditTool, EditStore, FamilyInv, RowsInv, TypeInv, TypeOK
<1>2. \A t, s : [block[m] EXCEPT !.tool = t].pid = block[m].pid
                /\ [block[m] EXCEPT !.store = s].pid = block[m].pid
  BY <1>1 DEF BlockRow
<1>3. \A n \in Main : block'[n] # block[n] => n = m /\ block'[n].pid = block[m].pid
  <2>1. ASSUME NEW t, EditTool(m, t)
        PROVE  \A n \in Main : block'[n] = IF n = m THEN [block[m] EXCEPT !.tool = t] ELSE block[n]
    BY <2>1 DEF EditTool, FamilyInv, RowsInv, TypeInv, TypeOK
  <2>2. ASSUME NEW s, EditStore(m, s)
        PROVE  \A n \in Main : block'[n] = IF n = m THEN [block[m] EXCEPT !.store = s] ELSE block[n]
    BY <2>2 DEF EditStore, FamilyInv, RowsInv, TypeInv, TypeOK
  <2> QED BY <1>2, <2>1, <2>2
<1>4. \A n \in Main : block'[n] # None /\ block'[n] # block[n]
            => Of(origin, block'[n].pid, Family[n])
  BY <1>1, <1>3 DEF FamilyInv, FamiliesKept, Of
<1> QED BY <1>4, EditFamily DEF EditTool, EditStore, db

LEMMA PasteFamily ==
    ASSUME FamilyInv, NEW src \in Main, NEW dst \in Main, PasteBlock(src, dst)
    PROVE  FamiliesKept'
<1> DEFINE pid == ExportedPid(src)
           b == [block[src] EXCEPT !.pid = pid]
<1> USE DEF FamilyInv, RowsInv, TypeInv
<1>1. block[src] \in BlockRow /\ block[src] # None /\ src \in Locations
  BY DEF PasteBlock, TypeOK, Main
<1>2. Of(origin, pid, Family[src])
  <2>1. CASE config[src] # None /\ config[src].passport # None
    <3>1. config[src].passport \in PassportId /\ passport[config[src].passport] # None
      BY <1>1, <2>1 DEF TypeOK, ConfigRow, NoDanglingPassport, Linked
    <3>2. RowOf(origin, config[src].passport, passport[config[src].passport])
          /\ origin[config[src].passport] = Family[src]
      BY <1>1, <2>1, <3>1 DEF FamiliesKept, Of
    <3> QED BY <2>1, <3>2 DEF ExportedPid, RowOf, Of
  <2>2. CASE ~(config[src] # None /\ config[src].passport # None)
    BY <1>1, <2>2 DEF ExportedPid, FamiliesKept
  <2> QED BY <2>1, <2>2
<1> HIDE DEF pid
<1>3. b.pid = pid
  BY <1>1 DEF BlockRow
<1>4. \A m \in Main : block'[m] # block[m] => m = dst /\ block'[m] = b
  BY DEF PasteBlock, TypeOK, pid
<1>5. Family[src] = Family[dst]
  BY DEF PasteBlock
<1> HIDE DEF b
<1>6. \A m \in Main : block'[m] # None /\ block'[m] # block[m]
            => Of(origin, block'[m].pid, Family[m])
  BY <1>2, <1>3, <1>4, <1>5
<1> QED BY <1>6, EditFamily DEF PasteBlock, db

LEMMA AdminFamily ==
    ASSUME FamilyInv, NEW p \in PassportId, AdminDeletePassport(p)
    PROVE  FamiliesKept'
<1>1. /\ \A q \in PassportId : passport'[q] \in {None, passport[q]}
      /\ \A l \in Locations : config'[l] = config[l] \/ config'[l].passport = None
  BY DEF AdminDeletePassport, DeletePassports, FamilyInv, RowsInv, TypeInv, TypeOK, ConfigRow
<1> QED BY <1>1, EditFamily DEF AdminDeletePassport

LEMMA FamilyInit == Init => FamilyInv
<1> SUFFICES ASSUME Init PROVE FamilyInv
  OBVIOUS
<1>1. PICK f \in LegacyNumbers :
    /\ block = [l \in Main |-> IF l \in Present
                  THEN [pid |-> None, tool |-> NoSettings, store |-> ON_XBLOCK] ELSE None]
    /\ config = [l \in Locations |-> IF l \in Legacy
                  THEN [id |-> f[l], passport |-> f[l], store |-> ON_XBLOCK] ELSE None]
    /\ passport = [p \in PassportId |-> IF \E l \in Legacy : f[l] = p
                  THEN [pid |-> p, pub |-> Blank, url |-> Blank] ELSE None]
    /\ origin = [p \in PassportId |-> IF \E l \in Legacy : f[l] = p
                  THEN Family[CHOOSE l \in Legacy : f[l] = p] ELSE None]
    /\ minted = Cardinality(Legacy)
    /\ req = [w \in Workers |-> Idle]
  BY DEF Init
<1>2. /\ Legacy \subseteq Locations /\ Cardinality(Legacy) \in Nat
      /\ \A l \in Legacy : f[l] \in PassportId /\ f[l] \in 1..minted
      /\ \A l, m \in Legacy : f[l] = f[m] => l = m
  BY <1>1, LegacyNumbersTyped, LocationsAssumption, BoundsAssumption, FS_CardinalityType
     DEF Main, PassportId, LegacyNumbers
<1>3. \A l \in Legacy : origin[f[l]] = Family[l]
  <2> TAKE l \in Legacy
  <2>1. (CHOOSE m \in Legacy : f[m] = f[l]) = l
    BY <1>2
  <2> QED BY <1>1, <1>2, <2>1
<1>4. \A p \in PassportId : p > minted => origin[p] = None
  BY <1>1, <1>2 DEF PassportId
<1>5. \A p \in PassportId : passport[p] # None => RowOf(origin, p, passport[p])
  <2> SUFFICES ASSUME NEW p \in PassportId, passport[p] # None PROVE RowOf(origin, p, passport[p])
    OBVIOUS
  <2>1. PICK l \in Legacy : f[l] = p
    BY <1>1
  <2>2. passport[p].pid = p
    BY <1>1, <2>1
  <2> QED BY <1>2, <1>3, <2>1, <2>2, FamilyNotNone DEF RowOf
<1>6. \A m \in Main : block[m] # None => block[m].pid = None
  BY <1>1
<1>7. \A l \in Locations : config[l] # None => Of(origin, config[l].passport, Family[l])
  BY <1>1, <1>3 DEF Of
<1> QED BY <1>1, <1>4, <1>5, <1>6, <1>7, RowsInit, IdleOf DEF FamilyInv, FamiliesKept, Of

LEMMA FamilyStep ==
    ASSUME ChildrenAreCopies, FamilyInv, [Next]_vars
    PROVE  FamilyInv'
<1>1. RowsInv'
  BY RowsStep DEF FamilyInv
<1>2. FamiliesKept'
  <2>1. ASSUME NEW w \in Workers, Step(w) PROVE FamiliesKept'
    BY <2>1, MoveFamily, ConfigCreatedFamily, UpdateInPlaceFamily, SplitFamily, KeepFamily,
       SyncFamily, SaveFamily, LinkFamily, SaveKeysFamily, DeleteFamily DEF Step
  <2>2. CASE UNCHANGED vars
    BY <2>2 DEF vars, FamilyInv, FamiliesKept, RowOf, Of, ReqOf, BlockOf
  <2> QED BY <2>1, <2>2, StartFamily, AuthorsFamily, PasteFamily, AdminFamily DEF Next
<1> QED BY <1>1, <1>2 DEF FamilyInv

\* Whatever the interleaving of views, copies, deletions, link accesses and
\* saves of stale instances, no two blocks of different families share a
\* passport, provided that the custom courses' copies a saved configuration is
\* pushed to (models.py:391, found by the suffix of the key) are of its block.
THEOREM CredentialsKeptInFamily ==
    ASSUME ChildrenAreCopies
    PROVE  Spec => []CredentialsStayInFamily
<1>1. FamilyInv => CredentialsStayInFamily
  BY DEF FamilyInv, FamiliesKept, Of, CredentialsStayInFamily, Linked
<1>2. FamilyInv /\ [Next]_vars => FamilyInv'
  BY FamilyStep
<1> QED BY <1>1, <1>2, FamilyInit, PTL DEF Spec

=============================================================================
