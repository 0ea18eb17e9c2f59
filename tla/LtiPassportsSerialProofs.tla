--------------------- MODULE LtiPassportsSerialProofs ---------------------
(***************************************************************************)
(* Proofs about LtiPassports when its requests are served one at a time,   *)
(* for any number of blocks, custom courses and passports: what the        *)
(* handlers promise when none runs between two statements of another.      *)
(* The last part is about LtiPassportsAlone: what they promise to a        *)
(* request that runs alone after any interleaving and any killed requests. *)
(***************************************************************************)
EXTENDS LtiPassportsProofs, LtiPassportsAlone

\* Only one request runs: no other is between two of its statements.
Lone == \A v, w \in Workers : At(v, "idle") \/ At(w, "idle") \/ v = w

\* The operation a request is of, by the place it is at
InOperation(r) ==
    /\ r.pc \in {"config", "ensure", "count", "inplace", "split", "keepsplit", "returned"}
       => r.op = "view"
    /\ r.pc \in {"source", "target"} => r.op = "duplicate"
    /\ r.pc \in {"sync", "save"} => r.op \in {"view", "duplicate"}
    /\ r.pc \in {"link", "keep", "attach"} => r.op \in {"view", "duplicate", "access"}
    /\ r.pc \in {"drop", "scan", "purge"} => r.op \in {"predelete", "delete"}
    /\ r.pc = "remove" => r.op = "predelete"
    /\ r.pc \in {"idle", "keys", "again"} => r.op \in {None, "keys"}

\* What a request read is still so when it acts on it.
Fresh(r) ==
    /\ r.pc \in {"count", "inplace", "split", "keys", "again"} => passport[r.pk] = r.row
    /\ r.pc = "inplace" => UpdatesInPlace(r.pk, r.row)
    /\ r.op \in {"view", "duplicate"} => block[Home(r.loc)] # None
    /\ r.pc \in {"scan", "purge", "remove"} /\ r.op = "predelete"
       => \A l \in r.locs : config[l] = None

SerialInv ==
    /\ RowsInv /\ Lone
    /\ \A p \in PassportId : passport[p] # None => p <= minted
    /\ \A l \in Main : config[l] # None => block[l] # None
    /\ \A w \in Workers : InOperation(req[w]) /\ Fresh(req[w])

---------------------------------------------------------------------------
(* ... of blocks that no custom course shows *)

\* The passport that a request is about to give its block
Target(r) == IF r.pk # None THEN r.pk ELSE r.cfg.passport
Agree(l) ==
    block[l] # None /\ block[l].pid # None /\ Linked(l)
    => passport[config[l].passport].pid = block[l].pid
Fits(p, l) == passport[p] # None /\ (block[l].pid # None => passport[p].pid = block[l].pid)
Settled(row, tool) == IF tool.mode = "public_key" THEN row.pub = tool.pub ELSE row.url = tool.url
SharedElsewhere(l) == \E m \in Locations \ {l} : Linked(m) /\ config[m].passport = config[l].passport
Unlinked(l, cfg) == config[l] # None /\ config[l].passport = None /\ config[l].id = cfg.id
Orphan(p) == passport[p] # None /\ Users(p) = {}

AtConfig(r) ==
    /\ r.pc \in {"ensure", "count", "inplace", "split", "keepsplit"} => config[r.loc] = r.cfg
    /\ r.pc = "sync" => config[r.loc] = IF r.op = "view" THEN r.cfg ELSE None
    /\ r.pc = "save" => IF r.op = "view"
                        THEN config[r.loc] # None /\ config[r.loc].id = r.cfg.id
                        ELSE config[r.loc] = None
    /\ r.pc \in {"link", "keep", "attach"} => Unlinked(r.loc, r.cfg) /\ block[r.loc] # None
AtPassport(r) ==
    /\ r.pc \in {"count", "inplace", "split"} => r.pk = r.cfg.passport
    /\ r.pc \in {"keepsplit", "keep"} => passport[r.pk] # None /\ passport[r.pk].pid = r.blk.pid
    /\ r.pc \in {"sync", "save", "target"} /\ Target(r) # None => Fits(Target(r), r.loc)
    /\ r.pc = "attach" => Fits(r.pk, r.loc)
    /\ r.pc = "save" => Target(r) = r.cfg.passport
    /\ r.pc = "split" => SharedElsewhere(r.loc)
    /\ r.pc \in {"keepsplit", "sync", "save"}
             /\ Linked(r.loc) /\ config[r.loc].passport # Target(r)
       => SharedElsewhere(r.loc)
    /\ r.pc = "source" => \A s \in r.locs : block[s] # None /\ block[s].pid = block[r.loc].pid
    /\ r.pc \in {"config", "ensure", "source", "target"} => r.pk = None
AtView(r) ==
    /\ r.pc \in {"config", "ensure", "source", "target", "link", "keep", "attach"} => r.row = None
    /\ r.pc \in {"keepsplit", "sync", "save"} /\ r.row # None
       => r.pk # None /\ Settled(passport[r.pk], r.blk.tool)
    /\ r.pc = "returned" /\ r.row # None
       => Linked(r.loc) /\ Settled(passport[config[r.loc].passport], r.blk.tool)
\* The orphans, and the blocks that disagree, are those a request is about to set
\* right.
Tends(r, p) ==
    \/ r.pc = "scan"
    \/ r.pc = "purge" /\ p \in r.doomed
    \/ r.pc \in {"keepsplit", "sync", "save", "keep", "attach"} /\ p = Target(r)
\* The request that runs, when all others are idle
Solo(w) ==
    /\ AtConfig(req[w]) /\ AtPassport(req[w]) /\ AtView(req[w])
    /\ \A p \in PassportId : Orphan(p) => Tends(req[w], p)
    /\ \A l \in Main : Agree(l) \/ (req[w].pc \in {"sync", "save"} /\ req[w].loc = l)
\* ... and between requests
AtRest == (\A p \in PassportId : ~Orphan(p)) /\ (\A l \in Main : Agree(l))
AloneInv ==
    /\ SerialInv
    /\ AllIdle => AtRest
    /\ \A w \in Workers : (\A v \in Workers \ {w} : At(v, "idle")) => Solo(w)


---------------------------------------------------------------------------

LEMMA GoMoves ==
    ASSUME ReqOK, NEW w \in Workers, NEW pc, Go(w, pc)
    PROVE  /\ req'[w].pc = pc /\ req'[w].op = req[w].op /\ req'[w].loc = req[w].loc
           /\ req'[w].blk = req[w].blk /\ req'[w].cfg = req[w].cfg /\ req'[w].pk = req[w].pk
           /\ req'[w].row = req[w].row /\ req'[w].locs = req[w].locs
           /\ req'[w].doomed = req[w].doomed
BY DEF ReqOK, Go, Request

LEMMA SetMoves ==
    ASSUME ReqOK, NEW w \in Workers, NEW r, Set(w, r)
    PROVE  req'[w] = r
BY DEF ReqOK, Set

LEMMA ReturnMoves ==
    ASSUME ReqOK, NEW w \in Workers, NEW r \in Request, Return(w, r)
    PROVE  \/ req'[w] = Idle /\ r.op # "view"
           \/ /\ req'[w].pc = "returned" /\ r.op = "view" /\ req'[w].op = r.op
              /\ req'[w].loc = r.loc /\ req'[w].blk = r.blk /\ req'[w].cfg = r.cfg
              /\ req'[w].pk = r.pk /\ req'[w].row = r.row
BY DEF ReqOK, Return, Set, Request

\* Only the request that takes a step moves.
LEMMA OthersStay ==
    ASSUME ReqOK, NEW w \in Workers,
           \/ Step(w)
           \/ \E l \in Locations : StartView(w, l) \/ StartAccess(w, l)
           \/ \E p \in PassportId : StartKeys(w, p)
           \/ \E src, dst \in Main : DuplicateBlock(w, src, dst)
           \/ \E S \in SUBSET Main : StartDelete(w, S)
    PROVE  \A v \in Workers \ {w} : req'[v] = req[v]
<1>1. \E r : Set(w, r)
  BY DEF Step, ConfigFound, ConfigCreated, EnsurePassport, CountUsers, UpdateInPlace,
         SplitPassport, KeepSplit, SyncConfigurations, SaveConfig, LinkPassport, KeepLink,
         AttachPassport, Finish, SaveKeys, ReadSource, CheckTarget, DropConfigs,
         ScanOrphans, PurgeOrphans, RemoveBlocks, SaveBlock, Return, Stop, Go, Set,
         StartView, StartAccess, StartKeys, DuplicateBlock, StartDelete
<1> QED BY <1>1 DEF Set, ReqOK

\* ... and under Serial, the others are idle.
LEMMA OthersIdle ==
    ASSUME Serial, SerialInv, NEW w \in Workers,
           \/ Step(w)
           \/ \E l \in Locations : StartView(w, l) \/ StartAccess(w, l)
           \/ \E p \in PassportId : StartKeys(w, p)
           \/ \E src, dst \in Main : DuplicateBlock(w, src, dst)
           \/ \E S \in SUBSET Main : StartDelete(w, S)
    PROVE  \A v \in Workers \ {w} : At(v, "idle")
<1>1. CASE Step(w)
  <2>1. ~At(w, "idle")
    BY <1>1 DEF Step, ConfigFound, ConfigCreated, EnsurePassport, CountUsers, UpdateInPlace,
         SplitPassport, KeepSplit, SyncConfigurations, SaveConfig, LinkPassport, KeepLink,
         AttachPassport, Finish, SaveKeys, AtKeys, ReadSource, CheckTarget, DropConfigs,
         ScanOrphans, PurgeOrphans, RemoveBlocks, At
  <2> QED BY <2>1 DEF SerialInv, Lone
<1>2. CASE ~Step(w)
  <2>1. Begin(w)
    BY <1>2 DEF StartView, StartAccess, StartKeys, DuplicateBlock, StartDelete
  <2> QED BY <2>1 DEF Begin, Quiet
<1> QED BY <1>1, <1>2

LEMMA IdleFresh ==
    ASSUME NEW w \in Workers, req'[w] = Idle
    PROVE  InOperation(req'[w]) /\ Fresh(req[w])'
BY NoneAssumption DEF Idle, InOperation, Fresh

\* What one step of a request does
Onward(w) ==
    /\ InOperation(req'[w]) /\ Fresh(req[w])'
    /\ \A p \in PassportId : passport'[p] # None => p <= minted'
    /\ \A l \in Main : config'[l] # None => block'[l] # None

LEMMA StoppedOnward ==
    ASSUME SerialInv, NEW w \in Workers, Stop(w), UNCHANGED <<passport, minted, config, block>>
    PROVE  Onward(w)
<1>1. req'[w] = Idle
  BY SetMoves DEF Stop, SerialInv, RowsInv, TypeInv
<1> QED BY <1>1, IdleFresh DEF Onward, SerialInv

\* The passports a step may add
LEMMA MintOnward ==
    ASSUME SerialInv, NEW pk, NEW pid, NEW pub, NEW url, NEW l, Mint(pk, pid, pub, url, l)
    PROVE  /\ \A p \in PassportId : passport'[p] # None => p <= minted'
           /\ \A p \in PassportId : passport[p] # None => passport'[p] = passport[p]
<1>1. minted \in Nat
  BY DEF SerialInv, RowsInv, TypeInv, TypeOK
<1>2. minted' = minted + 1 /\ pk = minted + 1
  BY DEF Mint
<1>3. \A p \in PassportId \ {pk} : passport'[p] = passport[p]
  BY DEF Mint, SerialInv, RowsInv, TypeInv, TypeOK
<1>4. \A p \in PassportId : passport[p] # None => p # pk
  BY <1>1, <1>2 DEF SerialInv, PassportId
<1> QED BY <1>1, <1>2, <1>3, <1>4 DEF SerialInv, PassportId

LEMMA GetOrCreateOnward ==
    ASSUME SerialInv, NEW pk, NEW pid, NEW l, GetOrCreatePassport(pk, pid, l)
    PROVE  /\ \A p \in PassportId : passport'[p] # None => p <= minted'
           /\ \A p \in PassportId : passport[p] # None => passport'[p] = passport[p]
BY MintOnward DEF GetOrCreatePassport, SerialInv

---------------------------------------------------------------------------

LEMMA ConfigFoundOnward ==
    ASSUME SerialInv, NEW w \in Workers, ConfigFound(w)
    PROVE  Onward(w)
<1>1. req[w] \in Request /\ Shape(req[w]) /\ req[w].pc = "config"
  BY AtTyped DEF ConfigFound, SerialInv, RowsInv
<1>2. req'[w] = [req[w] EXCEPT !.pc = "ensure", !.cfg = config[req[w].loc]]
  BY SetMoves DEF ConfigFound, SerialInv, RowsInv, TypeInv
<1>3. req'[w].pc = "ensure" /\ req'[w].op = "view" /\ req'[w].loc = req[w].loc
  BY <1>1, <1>2 DEF Request, SerialInv, InOperation
<1>4. block[Home(req[w].loc)] # None
  BY <1>1, <1>3 DEF SerialInv, Fresh, InOperation
<1> QED BY <1>3, <1>4 DEF ConfigFound, db, Onward, InOperation, Fresh, SerialInv

LEMMA ConfigCreatedOnward ==
    ASSUME SerialInv, NEW w \in Workers, ConfigCreated(w)
    PROVE  Onward(w)
<1> DEFINE l == req[w].loc
           row == NewConfig(l)
           b == block[Home(l)]
           Insert(pk) ==
            /\ config' = [PushToChildren(l, row) EXCEPT ![l] = [row EXCEPT !.passport = pk]]
            /\ Set(w, [req[w] EXCEPT !.pc = "ensure", !.cfg = [row EXCEPT !.passport = pk]])
<1>1. req[w] \in Request /\ Shape(req[w]) /\ req[w].pc = "config"
  BY AtTyped DEF ConfigCreated, SerialInv, RowsInv
<1>2. l \in Locations /\ req[w].op = "view" /\ b # None
  BY <1>1 DEF Shape, SerialInv, InOperation, Fresh
<1>3. ASSUME NEW pk, Insert(pk), block'[Home(l)] # None,
             \A m \in Main \ {Home(l)} : block'[m] = block[m],
             \A p \in PassportId : passport'[p] # None => p <= minted'
      PROVE  Onward(w)
  <2>1. req'[w] = [req[w] EXCEPT !.pc = "ensure", !.cfg = [row EXCEPT !.passport = pk]]
    BY <1>3, SetMoves DEF SerialInv, RowsInv, TypeInv
  <2>2. req'[w].pc = "ensure" /\ req'[w].op = "view" /\ req'[w].loc = l
    BY <1>1, <1>2, <2>1 DEF Request
  <2>3. \A m \in Main \ {l} : config'[m] # None => config[m] # None
    BY <1>3 DEF PushToChildren, Children, Main
  <2>4. l \in Main => Home(l) = l
    BY DEF Home, Main
  <2>5. \A m \in Main : config'[m] # None => block'[m] # None
    BY <1>3, <2>3, <2>4 DEF SerialInv
  <2> QED BY <1>3, <2>2, <2>5 DEF Onward, InOperation, Fresh
<1>4. CASE Insert(row.passport) /\ UNCHANGED <<block, passport, minted>>
  BY <1>2, <1>3, <1>4 DEF SerialInv
<1>5. ASSUME NEW pk, GetOrCreatePassport(pk, b.pid, l), Insert(pk), UNCHANGED block
      PROVE  Onward(w)
  BY <1>2, <1>3, <1>5, GetOrCreateOnward
<1>6. ASSUME NEW pk \in PassportId, Mint(pk, pk, Blank, Blank, l), Insert(pk),
             block' = [block EXCEPT ![Home(l)].pid = pk]
      PROVE  Onward(w)
  <2>1. Home(l) \in Main
    BY <1>2, HomeTyped
  <2>2. b \in BlockRow /\ [b EXCEPT !.pid = pk] \in BlockRow
    BY <1>2, <2>1 DEF SerialInv, RowsInv, TypeInv, TypeOK, BlockRow
  <2>3. [b EXCEPT !.pid = pk] # None
    BY <2>2, NoneAssumption DEF BlockRow
  <2>4. block'[Home(l)] = [b EXCEPT !.pid = pk]
    BY <1>6, <2>1 DEF SerialInv, RowsInv, TypeInv, TypeOK
  <2>5. \A m \in Main \ {Home(l)} : block'[m] = block[m]
    BY <1>6 DEF SerialInv, RowsInv, TypeInv, TypeOK
  <2> QED BY <1>3, <1>6, <2>3, <2>4, <2>5, MintOnward
<1> QED BY <1>2, <1>4, <1>5, <1>6 DEF ConfigCreated

LEMMA EnsureOnward ==
    ASSUME SerialInv, NEW w \in Workers, EnsurePassport(w)
    PROVE  Onward(w)
<1> DEFINE cfg == req[w].cfg
<1> USE DEF SerialInv, RowsInv, TypeInv
<1>1. req[w] \in Request /\ Shape(req[w]) /\ req[w].pc = "ensure"
  BY AtTyped DEF EnsurePassport
<1>2. req[w].op = "view" /\ block[Home(req[w].loc)] # None
  BY <1>1 DEF InOperation, Fresh
<1>3. UNCHANGED <<passport, minted, config, block>>
  BY DEF EnsurePassport, db
<1>4. ASSUME req'[w].pc \in {"sync", "count"}, req'[w].op = "view", req'[w].loc = req[w].loc,
             req'[w].pc = "count" => passport[req'[w].pk] = req'[w].row
      PROVE  Onward(w)
  BY <1>2, <1>3, <1>4 DEF Onward, InOperation, Fresh
<1>5. CASE Go(w, "sync")
  BY <1>2, <1>4, <1>5, GoMoves
<1>6. CASE Stop(w)
  BY <1>3, <1>6, StoppedOnward
<1>7. CASE Set(w, [req[w] EXCEPT !.pc = "sync", !.pk = cfg.passport])
  <2>1. req'[w] = [req[w] EXCEPT !.pc = "sync", !.pk = cfg.passport]
    BY <1>7, SetMoves
  <2>2. req'[w].pc = "sync" /\ req'[w].op = req[w].op /\ req'[w].loc = req[w].loc
    BY <1>1, <2>1 DEF Request
  <2> QED BY <1>2, <1>4, <2>2
<1>8. CASE Set(w, [req[w] EXCEPT !.pc = "count", !.pk = cfg.passport,
                                 !.row = passport[cfg.passport]])
  <2>1. req'[w] = [req[w] EXCEPT !.pc = "count", !.pk = cfg.passport,
                                 !.row = passport[cfg.passport]]
    BY <1>8, SetMoves
  <2>2. /\ req'[w].pc = "count" /\ req'[w].op = req[w].op /\ req'[w].loc = req[w].loc
        /\ req'[w].pk = cfg.passport /\ req'[w].row = passport[cfg.passport]
    BY <1>1, <2>1 DEF Request
  <2> QED BY <1>2, <1>4, <2>2
<1> QED BY <1>5, <1>6, <1>7, <1>8 DEF EnsurePassport

LEMMA CountOnward ==
    ASSUME SerialInv, NEW w \in Workers, CountUsers(w)
    PROVE  Onward(w)
<1> USE DEF SerialInv, RowsInv, TypeInv
<1>1. req[w] \in Request /\ Shape(req[w]) /\ req[w].pc = "count"
  BY AtTyped DEF CountUsers
<1>2. /\ req[w].op = "view" /\ block[Home(req[w].loc)] # None
      /\ passport[req[w].pk] = req[w].row
  BY <1>1 DEF InOperation, Fresh
<1>3. UNCHANGED <<passport, minted, config, block>>
  BY DEF CountUsers, db
<1>4. PICK pc \in {"inplace", "sync", "split"} :
        Go(w, pc) /\ (pc = "inplace" => UpdatesInPlace(req[w].pk, req[w].row))
  BY DEF CountUsers
<1>5. /\ req'[w].pc = pc /\ req'[w].op = "view" /\ req'[w].loc = req[w].loc
      /\ req'[w].pk = req[w].pk /\ req'[w].row = req[w].row
  BY <1>2, <1>4, GoMoves
<1>6. pc = "inplace" => UpdatesInPlace(req[w].pk, req[w].row)'
  BY <1>3, <1>4, <1>5 DEF UpdatesInPlace, Users, BlankKeys
<1>7. Fresh(req[w])'
  BY <1>2, <1>3, <1>4, <1>5, <1>6 DEF Fresh
<1> QED BY <1>3, <1>4, <1>5, <1>7 DEF Onward, InOperation

LEMMA UpdateOnward ==
    ASSUME SerialInv, NEW w \in Workers, UpdateInPlace(w)
    PROVE  Onward(w)
<1> DEFINE pk == req[w].pk
           tool == req[w].blk.tool
           row == [req[w].row EXCEPT !.pub = tool.pub, !.url = tool.url]
<1> USE DEF SerialInv, RowsInv, TypeInv
<1>1. req[w] \in Request /\ Shape(req[w]) /\ req[w].pc = "inplace"
  BY AtTyped DEF UpdateInPlace
<1>2. /\ req[w].op = "view" /\ block[Home(req[w].loc)] # None
      /\ passport[pk] = req[w].row /\ req[w].row # None /\ pk \in PassportId
  BY <1>1 DEF InOperation, Fresh, Shape, Request
<1>3. UNCHANGED <<minted, config, block>>
  BY DEF UpdateInPlace
<1>4. CASE Stop(w) /\ UNCHANGED passport
  BY <1>3, <1>4, StoppedOnward
<1>5. CASE /\ passport' = [passport EXCEPT ![pk] = row]
           /\ Set(w, [req[w] EXCEPT !.pc = "sync", !.row = row])
  <2>1. req'[w].pc = "sync" /\ req'[w].op = "view" /\ req'[w].loc = req[w].loc
    BY <1>1, <1>2, <1>5, SetMoves DEF Request
  <2>2. \A p \in PassportId : passport'[p] # None => p = pk \/ passport[p] # None
    BY <1>5 DEF TypeOK
  <2>3. \A p \in PassportId : passport'[p] # None => p <= minted'
    BY <1>2, <1>3, <2>2
  <2> QED BY <1>2, <1>3, <2>1, <2>3 DEF Onward, InOperation, Fresh
<1> QED BY <1>4, <1>5 DEF UpdateInPlace

LEMMA SplitOnward ==
    ASSUME SerialInv, NEW w \in Workers, SplitPassport(w)
    PROVE  Onward(w)
<1> USE DEF SerialInv, RowsInv, TypeInv
<1>1. req[w] \in Request /\ Shape(req[w]) /\ req[w].pc = "split"
  BY AtTyped DEF SplitPassport
<1>2. req[w].op = "view" /\ block[Home(req[w].loc)] # None
  BY <1>1 DEF InOperation, Fresh
<1>3. PICK pk \in PassportId :
        /\ Mint(pk, pk, req[w].blk.tool.pub, req[w].blk.tool.url, req[w].loc)
        /\ Set(w, [req[w] EXCEPT !.pc = "keepsplit", !.pk = pk, !.blk.pid = pk])
  BY DEF SplitPassport
<1>4. req'[w].pc = "keepsplit" /\ req'[w].op = "view" /\ req'[w].loc = req[w].loc
  <2>1. req'[w] = [req[w] EXCEPT !.pc = "keepsplit", !.pk = pk, !.blk.pid = pk]
    BY <1>3, SetMoves
  <2> QED BY <1>1, <1>2, <2>1 DEF Request
<1>5. \A p \in PassportId : passport'[p] # None => p <= minted'
  BY <1>3, MintOnward
<1> QED BY <1>2, <1>4, <1>5 DEF SplitPassport, Onward, InOperation, Fresh

LEMMA KeepOnward ==
    ASSUME SerialInv, NEW w \in Workers, KeepSplit(w) \/ KeepLink(w)
    PROVE  Onward(w)
<1> DEFINE h == Home(req[w].loc)
<1> USE DEF SerialInv, RowsInv, TypeInv
<1>1. req[w] \in Request /\ Shape(req[w]) /\ req[w].pc \in {"keepsplit", "keep"}
  BY AtTyped DEF KeepSplit, KeepLink
<1>2. req[w].blk # None /\ h \in Main
  BY <1>1, HomeTyped DEF Shape
<1>3. PICK pc \in {"sync", "attach"} :
        SaveBlock(w, pc) /\ UNCHANGED db /\ (pc = "sync" => req[w].pc = "keepsplit")
  BY <1>1 DEF KeepSplit, KeepLink, At
<1>4. CASE Stop(w) /\ UNCHANGED block
  BY <1>3, <1>4, StoppedOnward DEF db
<1>5. CASE block[h] # None /\ block' = [block EXCEPT ![h] = req[w].blk] /\ Go(w, pc)
  <2>1. \A m \in Main : block'[m] = IF m = h THEN req[w].blk ELSE block[m]
    BY <1>5 DEF TypeOK
  <2>2. req'[w].pc = pc /\ req'[w].op = req[w].op /\ req'[w].loc = req[w].loc
    BY <1>5, GoMoves
  <2>3. InOperation(req'[w])
    BY <1>1, <1>3, <2>2 DEF InOperation
  <2>4. Fresh(req[w])'
    BY <1>2, <2>1, <2>2 DEF Fresh
  <2> QED BY <1>2, <1>3, <2>1, <2>3, <2>4 DEF Onward, db
<1> QED BY <1>3, <1>4, <1>5 DEF SaveBlock

LEMMA SyncOnward ==
    ASSUME SerialInv, NEW w \in Workers, SyncConfigurations(w)
    PROVE  Onward(w)
<1> DEFINE l == req[w].loc
           new == Updated(req[w])
<1> USE DEF SerialInv, RowsInv, TypeInv
<1>1. req[w] \in Request /\ Shape(req[w]) /\ req[w].pc = "sync"
  BY AtTyped DEF SyncConfigurations
<1>2. l \in Locations /\ req[w].op \in {"view", "duplicate"} /\ block[Home(l)] # None
      /\ req[w].cfg # None
  BY <1>1 DEF InOperation, Fresh, Shape
<1>3. new \in ConfigRow
  BY <1>1, <1>2, UpdatedTyped DEF Request
<1>4. UNCHANGED <<passport, minted, block>>
  BY DEF SyncConfigurations
<1>5. ASSUME NEW cfg, Set(w, [req[w] EXCEPT !.pc = "save", !.cfg = cfg]),
             \A m \in Main : config'[m] # None => config[m] # None
      PROVE  Onward(w)
  <2>1. req'[w] = [req[w] EXCEPT !.pc = "save", !.cfg = cfg]
    BY <1>5, SetMoves
  <2>2. req'[w].pc = "save" /\ req'[w].op = req[w].op /\ req'[w].loc = l
    BY <1>1, <2>1 DEF Request
  <2> QED BY <1>2, <1>4, <1>5, <2>2 DEF Onward, InOperation, Fresh
<1>6. CASE Return(w, req[w]) /\ UNCHANGED config /\ req[w].op = "view"
  <2>1. req'[w].pc = "returned" /\ req'[w].op = "view" /\ req'[w].loc = l
    BY <1>1, <1>6, ReturnMoves
  <2> QED BY <1>2, <1>4, <1>6, <2>1 DEF Onward, InOperation, Fresh
<1>7. CASE Stop(w) /\ UNCHANGED config
  BY <1>4, <1>7, StoppedOnward
<1>8. CASE /\ UNCHANGED config
           /\ Set(w, [req[w] EXCEPT !.pc = "save", !.cfg = PullFromMain(l, new)])
  BY <1>5, <1>8
<1>9. CASE /\ config' = PushToChildren(l, new)
           /\ Set(w, [req[w] EXCEPT !.pc = "save", !.cfg = new])
  <2>1. \A m \in Main : config'[m] # None => config[m] # None
    BY <1>9 DEF PushToChildren, Main
  <2> QED BY <1>5, <1>9, <2>1
<1> QED BY <1>6, <1>7, <1>8, <1>9 DEF SyncConfigurations

\* A request that ends, or returns to its view, having written configurations
LEMMA ReturnOnward ==
    ASSUME SerialInv, NEW w \in Workers, NEW r \in Request, Return(w, r),
           r.op = req[w].op, r.loc = req[w].loc, UNCHANGED <<passport, minted, block>>,
           \A l \in Main : config'[l] # None => block[l] # None
    PROVE  Onward(w)
<1> USE DEF SerialInv, RowsInv, TypeInv
<1>1. CASE req'[w] = Idle
  BY <1>1, IdleFresh DEF Onward
<1>2. CASE req'[w].pc = "returned" /\ req'[w].op = r.op /\ r.op = "view" /\ req'[w].loc = r.loc
  BY <1>2 DEF Onward, InOperation, Fresh
<1> QED BY <1>1, <1>2, ReturnMoves

LEMMA SaveOnward ==
    ASSUME SerialInv, NEW w \in Workers, SaveConfig(w)
    PROVE  Onward(w)
<1> DEFINE l == req[w].loc
<1> USE DEF SerialInv, RowsInv, TypeInv
<1>1. req[w] \in Request /\ Shape(req[w]) /\ req[w].pc = "save"
  BY AtTyped DEF SaveConfig
<1>2. l \in Locations /\ req[w].op \in {"view", "duplicate"} /\ block[Home(l)] # None
  BY <1>1 DEF InOperation, Fresh, Shape
<1>3. UNCHANGED <<passport, minted, block>>
  BY DEF SaveConfig
<1>4. CASE Stop(w) /\ UNCHANGED config
  BY <1>3, <1>4, StoppedOnward
<1>5. CASE config' = [config EXCEPT ![l] = req[w].cfg]
  <2>1. \A m \in Main : config'[m] # None => block[m] # None
    BY <1>2, <1>5 DEF TypeOK, Home, Main
  <2>2. CASE Go(w, "link")
    <3>1. req'[w].pc = "link" /\ req'[w].op = req[w].op /\ req'[w].loc = l
      BY <2>2, GoMoves
    <3> QED BY <1>2, <1>3, <2>1, <3>1 DEF Onward, InOperation, Fresh
  <2>3. CASE Return(w, req[w])
    BY <1>1, <1>3, <2>1, <2>3, ReturnOnward
  <2> QED BY <1>5, <2>2, <2>3, <1>4 DEF SaveConfig
<1> QED BY <1>4, <1>5 DEF SaveConfig

LEMMA LinkOnward ==
    ASSUME SerialInv, NEW w \in Workers, LinkPassport(w)
    PROVE  Onward(w)
<1> DEFINE l == req[w].loc
           b == block[Home(l)]
<1> USE DEF SerialInv, RowsInv, TypeInv
<1>1. req[w] \in Request /\ Shape(req[w]) /\ req[w].pc = "link"
  BY AtTyped DEF LinkPassport
<1>2. /\ req[w].op \in {"view", "duplicate", "access"}
      /\ req[w].op \in {"view", "duplicate"} => b # None
  BY <1>1 DEF InOperation, Fresh
<1>3. UNCHANGED <<config, block>>
  BY DEF LinkPassport
<1>4. ASSUME NEW r, Set(w, r), r.pc \in {"attach", "keep"}, r.op = req[w].op, r.loc = l,
             \A p \in PassportId : passport'[p] # None => p <= minted'
      PROVE  Onward(w)
  <2>1. req'[w] = r
    BY <1>4, SetMoves
  <2> QED BY <1>2, <1>3, <1>4, <2>1 DEF Onward, InOperation, Fresh
<1>5. CASE Stop(w) /\ UNCHANGED <<passport, minted>>
  BY <1>3, <1>5, StoppedOnward
<1>6. ASSUME NEW pk, GetOrCreatePassport(pk, b.pid, l),
             Set(w, [req[w] EXCEPT !.pc = "attach", !.pk = pk])
      PROVE  Onward(w)
  <2> DEFINE r == [req[w] EXCEPT !.pc = "attach", !.pk = pk]
  <2>1. r.pc = "attach" /\ r.op = req[w].op /\ r.loc = l
    BY <1>1 DEF Request
  <2> HIDE DEF r
  <2>2. Set(w, r)
    BY <1>6 DEF r
  <2> QED BY <1>4, <1>6, <2>1, <2>2, GetOrCreateOnward
<1>7. ASSUME NEW pk, Mint(pk, pk, Blank, Blank, l),
             Set(w, [req[w] EXCEPT !.pc = "keep", !.pk = pk, !.blk = [b EXCEPT !.pid = pk]])
      PROVE  Onward(w)
  <2> DEFINE r == [req[w] EXCEPT !.pc = "keep", !.pk = pk, !.blk = [b EXCEPT !.pid = pk]]
  <2>1. r.pc = "keep" /\ r.op = req[w].op /\ r.loc = l
    BY <1>1 DEF Request
  <2> HIDE DEF r
  <2>2. Set(w, r)
    BY <1>7 DEF r
  <2> QED BY <1>4, <1>7, <2>1, <2>2, MintOnward
<1> QED BY <1>5, <1>6, <1>7 DEF LinkPassport

LEMMA AttachOnward ==
    ASSUME SerialInv, NEW w \in Workers, AttachPassport(w)
    PROVE  Onward(w)
<1> DEFINE l == req[w].loc
           r == [req[w] EXCEPT !.cfg = config'[l]]
<1> USE DEF SerialInv, RowsInv, TypeInv
<1>1. req[w] \in Request /\ Shape(req[w]) /\ req[w].pc = "attach"
  BY AtTyped DEF AttachPassport
<1>2. l \in Locations
  BY <1>1 DEF Shape
<1>3. UNCHANGED <<passport, minted, block>>
  BY DEF AttachPassport
<1>4. CASE Stop(w) /\ UNCHANGED config
  BY <1>3, <1>4, StoppedOnward
<1>5. CASE /\ config[l] # None /\ config' = [config EXCEPT ![l].passport = req[w].pk]
           /\ Return(w, r)
  <2>1. \A m \in Main : config'[m] # None => block[m] # None
    BY <1>2, <1>5 DEF TypeOK
  <2>2. config' \in [Locations -> ConfigRow \cup {None}]
    <3>1. TypeInv'
      BY AttachPassportTyped
    <3> QED BY <3>1 DEF TypeOK
  <2>3. r \in Request /\ r.op = req[w].op /\ r.loc = l
    BY <1>1, <1>2, <2>2 DEF Request
  <2> HIDE DEF r
  <2> QED BY <1>3, <1>5, <2>1, <2>3, ReturnOnward
<1> QED BY <1>4, <1>5 DEF AttachPassport

\* The steps that change no row
LEMMA MoveOnward ==
    ASSUME SerialInv, NEW w \in Workers,
           Finish(w) \/ ReadSource(w) \/ CheckTarget(w) \/ ScanOrphans(w)
    PROVE  Onward(w)
<1> USE DEF SerialInv, RowsInv, TypeInv
<1>1. req[w] \in Request
  BY DEF ReqOK
<1>2. UNCHANGED <<passport, minted, config, block>>
  BY DEF Finish, ReadSource, CheckTarget, ScanOrphans, db
<1>3. CASE Stop(w)
  BY <1>2, <1>3, StoppedOnward
<1>4. ASSUME NEW src, Set(w, [req[w] EXCEPT !.pc = "target", !.cfg = config[src]]),
             At(w, "source")
      PROVE  Onward(w)
  <2>1. req'[w] = [req[w] EXCEPT !.pc = "target", !.cfg = config[src]]
    BY <1>4, SetMoves
  <2>2. req'[w].pc = "target" /\ req'[w].op = req[w].op /\ req'[w].loc = req[w].loc
    BY <1>1, <2>1 DEF Request
  <2>3. req[w].op = "duplicate" /\ block[Home(req[w].loc)] # None
    BY <1>4 DEF At, InOperation, Fresh
  <2> QED BY <1>2, <2>2, <2>3 DEF Onward, InOperation, Fresh
<1>5. CASE Set(w, [req[w] EXCEPT !.pc = "sync", !.cfg.id = ids']) /\ At(w, "target")
  <2>1. req'[w] = [req[w] EXCEPT !.pc = "sync", !.cfg.id = ids']
    BY <1>5, SetMoves
  <2>2. req'[w].pc = "sync" /\ req'[w].op = req[w].op /\ req'[w].loc = req[w].loc
    BY <1>1, <2>1 DEF Request
  <2>3. req[w].op = "duplicate" /\ block[Home(req[w].loc)] # None
    BY <1>5 DEF At, InOperation, Fresh
  <2> QED BY <1>2, <2>2, <2>3 DEF Onward, InOperation, Fresh
<1>6. CASE ScanOrphans(w)
  <2>1. req'[w] = [req[w] EXCEPT !.pc = "purge",
                       !.doomed = {p \in PassportId : passport[p] # None /\ Users(p) = {}}]
    BY <1>6, SetMoves DEF ScanOrphans
  <2>2. req'[w].pc = "purge" /\ req'[w].op = req[w].op /\ req'[w].locs = req[w].locs
    BY <1>1, <2>1 DEF Request
  <2>3. /\ req[w].op \in {"predelete", "delete"}
        /\ req[w].op = "predelete" => \A l \in req[w].locs : config[l] = None
    BY <1>6 DEF ScanOrphans, At, InOperation, Fresh
  <2> QED BY <1>2, <2>2, <2>3 DEF Onward, InOperation, Fresh
<1> QED BY <1>3, <1>4, <1>5, <1>6 DEF Finish, ReadSource, CheckTarget

LEMMA DropOnward ==
    ASSUME SerialInv, NEW w \in Workers, DropConfigs(w)
    PROVE  Onward(w)
<1> USE DEF SerialInv, RowsInv, TypeInv
<1>1. req[w] \in Request /\ Shape(req[w]) /\ req[w].pc = "drop"
  BY AtTyped DEF DropConfigs
<1>2. req[w].op \in {"predelete", "delete"} /\ req[w].locs \subseteq Locations
  BY <1>1 DEF InOperation, Request
<1>3. req'[w].pc = "scan" /\ req'[w].op = req[w].op /\ req'[w].locs = req[w].locs
  BY GoMoves DEF DropConfigs
<1>4. \A l \in Locations : config'[l] = IF l \in req[w].locs THEN None ELSE config[l]
  BY DEF DropConfigs
<1>5. \A l \in Main : config'[l] # None => block[l] # None
  BY <1>4 DEF Main
<1> QED BY <1>2, <1>3, <1>4, <1>5 DEF DropConfigs, Onward, InOperation, Fresh

LEMMA DeleteOnward ==
    ASSUME SerialInv, NEW P, DeletePassports(P)
    PROVE  /\ \A p \in PassportId : passport'[p] \in {None, passport[p]}
           /\ \A l \in Locations : config'[l] # None <=> config[l] # None
<1>1. \A p \in PassportId : passport'[p] \in {None, passport[p]}
  BY DEF DeletePassports
<1>2. ASSUME NEW l \in Locations, config[l] # None PROVE [config[l] EXCEPT !.passport = None] # None
  <2>1. config[l] \in ConfigRow
    BY <1>2 DEF SerialInv, RowsInv, TypeInv, TypeOK
  <2>2. [config[l] EXCEPT !.passport = None] \in ConfigRow
    BY <2>1 DEF ConfigRow
  <2> QED BY <2>2, NoneAssumption DEF ConfigRow
<1>3. \A l \in Locations : config'[l] # None <=> config[l] # None
  BY <1>2 DEF DeletePassports
<1> QED BY <1>1, <1>3

LEMMA PurgeOnward ==
    ASSUME SerialInv, NEW w \in Workers, PurgeOrphans(w)
    PROVE  Onward(w)
<1> USE DEF SerialInv, RowsInv, TypeInv
<1>1. req[w] \in Request /\ Shape(req[w]) /\ req[w].pc = "purge"
  BY AtTyped DEF PurgeOrphans
<1>2. /\ \A p \in PassportId : passport'[p] \in {None, passport[p]}
      /\ \A l \in Locations : config'[l] # None <=> config[l] # None
  BY DeleteOnward DEF PurgeOrphans
<1>3. UNCHANGED <<block, minted>>
  BY DEF PurgeOrphans
<1>4. /\ \A p \in PassportId : passport'[p] # None => p <= minted'
      /\ \A l \in Main : config'[l] # None => block'[l] # None
  BY <1>2, <1>3 DEF Main
<1>5. CASE Stop(w)
  <2>1. req'[w] = Idle
    BY <1>5, SetMoves DEF Stop
  <2> QED BY <1>4, <2>1, IdleFresh DEF Onward
<1>6. CASE /\ req[w].op = "predelete"
           /\ Set(w, [req[w] EXCEPT !.pc = "remove", !.doomed = {}])
  <2>1. req'[w] = [req[w] EXCEPT !.pc = "remove", !.doomed = {}]
    BY <1>6, SetMoves
  <2>2. req'[w].pc = "remove" /\ req'[w].op = "predelete" /\ req'[w].locs = req[w].locs
    BY <1>1, <1>6, <2>1 DEF Request
  <2>3. \A l \in req[w].locs : config'[l] = None
    BY <1>1, <1>2, <1>6 DEF Fresh, Request
  <2> QED BY <1>4, <2>2, <2>3 DEF Onward, InOperation, Fresh
<1> QED BY <1>5, <1>6 DEF PurgeOrphans

LEMMA RemoveOnward ==
    ASSUME SerialInv, NEW w \in Workers, RemoveBlocks(w)
    PROVE  Onward(w)
<1> DEFINE locs == IF Cardinality(req[w].locs) = 1 THEN req[w].locs ELSE {}
<1> USE DEF SerialInv, RowsInv, TypeInv
<1>1. req[w] \in Request /\ Shape(req[w]) /\ req[w].pc = "remove"
  BY AtTyped DEF RemoveBlocks
<1>2. req'[w] = [req[w] EXCEPT !.pc = "drop", !.op = "delete", !.locs = locs]
  BY <1>1, SetMoves DEF RemoveBlocks, Request
<1> HIDE DEF locs
<1>3. req'[w].pc = "drop" /\ req'[w].op = "delete"
  BY <1>1, <1>2 DEF Request
<1>4. \A l \in req[w].locs : config[l] = None
  BY <1>1 DEF Fresh, InOperation
<1>5. \A m \in Main : config'[m] # None => block'[m] # None
  BY <1>4 DEF RemoveBlocks, db
<1> QED BY <1>3, <1>5 DEF RemoveBlocks, db, Onward, InOperation, Fresh

\* The key pair is saved as it was read: nothing changes.
LEMMA SaveKeysOnward ==
    ASSUME SerialInv, NEW w \in Workers, SaveKeys(w)
    PROVE  Onward(w) /\ UNCHANGED <<passport, block, config, minted, ids, origin>>
<1> USE DEF SerialInv, RowsInv, TypeInv
<1>1. req[w] \in Request /\ Shape(req[w]) /\ req[w].pc \in {"keys", "again"}
  BY AtTyped DEF SaveKeys, AtKeys
<1>2. passport[req[w].pk] = req[w].row /\ req[w].op \in {None, "keys"}
  BY <1>1 DEF InOperation, Fresh
<1>3. UNCHANGED <<passport, block, config, minted, ids, origin>>
  BY <1>2 DEF SaveKeys, TypeOK
<1>4. CASE Stop(w)
  BY <1>3, <1>4, StoppedOnward
<1>5. CASE Go(w, "again")
  <2>1. /\ req'[w].pc = "again" /\ req'[w].op = req[w].op /\ req'[w].pk = req[w].pk
        /\ req'[w].row = req[w].row
    BY <1>5, GoMoves
  <2> QED BY <1>2, <1>3, <2>1, NoneAssumption DEF Onward, InOperation, Fresh
<1> QED BY <1>3, <1>4, <1>5 DEF SaveKeys

LEMMA StartOnward ==
    ASSUME SerialInv, NEW w \in Workers,
           \/ \E l \in Locations : StartView(w, l) \/ StartAccess(w, l)
           \/ \E p \in PassportId : StartKeys(w, p)
           \/ \E src, dst \in Main : DuplicateBlock(w, src, dst)
           \/ \E S \in SUBSET Main : StartDelete(w, S)
    PROVE  Onward(w)
<1> USE DEF SerialInv, RowsInv, TypeInv
<1>1. UNCHANGED <<passport, config, minted>>
  BY DEF StartView, StartAccess, StartKeys, DuplicateBlock, StartDelete, db
<1>2. \A m \in Main : block[m] # None => block'[m] # None
  BY DEF StartView, StartAccess, StartKeys, DuplicateBlock, StartDelete, TypeOK
<1>3. ASSUME NEW r, Set(w, r), InOperation(r),
             r.pc \notin {"count", "inplace", "split", "scan", "purge", "remove", "save"},
             r.pc \in {"keys", "again"} => passport[r.pk] = r.row,
             r.op \in {"view", "duplicate"} => block'[Home(r.loc)] # None
      PROVE  Onward(w)
  <2>1. req'[w] = r
    BY <1>3, SetMoves
  <2> QED BY <1>1, <1>2, <1>3, <2>1 DEF Onward, Fresh
<1>4. ASSUME NEW l \in Locations, StartView(w, l) PROVE Onward(w)
  <2> DEFINE r == [Idle EXCEPT !.pc = "config", !.op = "view", !.loc = l, !.blk = block[Home(l)]]
  <2>1. r.pc = "config" /\ r.op = "view" /\ r.loc = l
    BY DEF Idle
  <2>2. block'[Home(l)] # None /\ Set(w, r)
    BY <1>4 DEF StartView
  <2> HIDE DEF r
  <2> QED BY <1>3, <2>1, <2>2 DEF InOperation
<1>5. ASSUME NEW l \in Locations, StartAccess(w, l) PROVE Onward(w)
  <2> DEFINE r == [Idle EXCEPT !.pc = "link", !.op = "access", !.loc = l, !.cfg = config[l]]
  <2>1. r.pc = "link" /\ r.op = "access" /\ r.loc = l
    BY DEF Idle
  <2>2. Set(w, r)
    BY <1>5 DEF StartAccess
  <2> HIDE DEF r
  <2> QED BY <1>3, <2>1, <2>2 DEF InOperation
<1>6. ASSUME NEW p \in PassportId, StartKeys(w, p) PROVE Onward(w)
  <2> DEFINE r == [Idle EXCEPT !.pc = "keys", !.op = "keys", !.pk = p, !.row = passport[p]]
  <2>1. r.pc = "keys" /\ r.op = "keys" /\ r.pk = p /\ r.row = passport[p]
    BY DEF Idle
  <2>2. Set(w, r)
    BY <1>6 DEF StartKeys
  <2> HIDE DEF r
  <2> QED BY <1>3, <2>1, <2>2 DEF InOperation
<1>7. ASSUME NEW src \in Main, NEW dst \in Main, DuplicateBlock(w, src, dst) PROVE Onward(w)
  <2> DEFINE r == [Idle EXCEPT !.pc = "source", !.op = "duplicate", !.loc = dst, !.locs = {src}]
  <2>1. r.pc = "source" /\ r.op = "duplicate" /\ r.loc = dst
    BY DEF Idle
  <2>2. block'[Home(dst)] # None /\ Set(w, r)
    BY <1>7 DEF DuplicateBlock, Home, Main, TypeOK
  <2> HIDE DEF r
  <2> QED BY <1>3, <2>1, <2>2 DEF InOperation
<1>8. ASSUME NEW S \in SUBSET Main, StartDelete(w, S) PROVE Onward(w)
  <2> DEFINE r == [Idle EXCEPT !.pc = "drop", !.op = "predelete", !.locs = S]
  <2>1. r.pc = "drop" /\ r.op = "predelete"
    BY DEF Idle
  <2>2. Set(w, r)
    BY <1>8 DEF StartDelete
  <2> HIDE DEF r
  <2> QED BY <1>3, <2>1, <2>2 DEF InOperation
<1> QED BY <1>4, <1>5, <1>6, <1>7, <1>8

LEMMA EditSerial ==
    ASSUME Serial, SerialInv,
           \/ \E l \in Main : \/ \E t \in ToolSettings : EditTool(l, t)
                              \/ \E s \in Stores : EditStore(l, s)
           \/ \E src, dst \in Main : PasteBlock(src, dst)
           \/ \E p \in PassportId : AdminDeletePassport(p)
    PROVE  SerialInv'
<1> USE DEF SerialInv
<1>1. RowsInv'
  BY RowsStep DEF Next
<1>2. UNCHANGED <<req, minted>> /\ AllIdle
  BY DEF EditTool, EditStore, PasteBlock, AdminDeletePassport, Edit, Quiet, AllIdle, db
<1>3. ASSUME NEW w \in Workers PROVE (InOperation(req[w]) /\ Fresh(req[w]))'
  <2>1. req'[w].pc = "idle" /\ req'[w].op \in {None, "keys"}
    BY <1>2 DEF AllIdle, At, InOperation
  <2> QED BY <2>1, NoneAssumption DEF InOperation, Fresh
<1>4. \A p \in PassportId : passport'[p] \in {None, passport[p]}
  BY DeleteOnward DEF EditTool, EditStore, PasteBlock, AdminDeletePassport, db
<1>5. \A l \in Locations : config'[l] # None <=> config[l] # None
  BY DeleteOnward DEF EditTool, EditStore, PasteBlock, AdminDeletePassport, db
<1>6. \A m \in Main : block[m] # None => block'[m] # None
  <2>1. ASSUME NEW l \in Main, NEW t \in ToolSettings, EditTool(l, t)
        PROVE  \A m \in Main : block[m] # None => block'[m] # None
    <3>1. [block[l] EXCEPT !.tool = t] \in BlockRow
      BY <2>1, ValuesAssumption DEF EditTool, BlockRow, RowsInv, TypeInv, TypeOK
    <3> QED BY <2>1, <3>1, NoneAssumption DEF EditTool, BlockRow, RowsInv, TypeInv, TypeOK
  <2>2. ASSUME NEW l \in Main, NEW s \in Stores, EditStore(l, s)
        PROVE  \A m \in Main : block[m] # None => block'[m] # None
    <3>1. [block[l] EXCEPT !.store = s] \in BlockRow
      BY <2>2 DEF EditStore, BlockRow, RowsInv, TypeInv, TypeOK
    <3> QED BY <2>2, <3>1, NoneAssumption DEF EditStore, BlockRow, RowsInv, TypeInv, TypeOK
  <2>3. ASSUME NEW src \in Main, NEW dst \in Main, PasteBlock(src, dst)
        PROVE  \A m \in Main : block[m] # None => block'[m] # None
    BY <2>3 DEF PasteBlock, RowsInv, TypeInv, TypeOK
  <2> QED BY <2>1, <2>2, <2>3 DEF AdminDeletePassport
<1>7. \A l \in Main : config'[l] # None => block'[l] # None
  BY <1>5, <1>6 DEF Main
<1> QED BY <1>1, <1>2, <1>3, <1>4, <1>7 DEF Lone, At

LEMMA SerialInit == Init => SerialInv
<1> SUFFICES ASSUME Init PROVE SerialInv
  OBVIOUS
<1>1. PICK f \in LegacyNumbers :
    /\ block = [l \in Main |-> IF l \in Present
                  THEN [pid |-> None, tool |-> NoSettings, store |-> ON_XBLOCK] ELSE None]
    /\ config = [l \in Locations |-> IF l \in Legacy
                  THEN [id |-> f[l], passport |-> f[l], store |-> ON_XBLOCK] ELSE None]
    /\ passport = [p \in PassportId |-> IF \E l \in Legacy : f[l] = p
                  THEN [pid |-> p, pub |-> Blank, url |-> Blank] ELSE None]
    /\ minted = Cardinality(Legacy)
    /\ req = [w \in Workers |-> Idle]
  BY DEF Init
<1>2. \A p \in PassportId : passport[p] # None => p <= minted
  BY <1>1 DEF LegacyNumbers, PassportId
<1>3. \A l \in Main : config[l] # None => block[l] # None
  <2>1. [pid |-> None, tool |-> NoSettings, store |-> ON_XBLOCK] \in BlockRow
    BY ValuesAssumption DEF BlockRow, NoSettings, Settings
  <2>2. [pid |-> None, tool |-> NoSettings, store |-> ON_XBLOCK] # None
    BY <2>1, NoneAssumption DEF BlockRow
  <2> QED BY <1>1, <2>2, LocationsAssumption DEF Main
<1>4. \A w \in Workers : InOperation(req[w]) /\ Fresh(req[w]) /\ At(w, "idle")
  BY <1>1, NoneAssumption DEF InOperation, Fresh, Idle, At
<1> QED BY <1>2, <1>3, <1>4, RowsInit DEF SerialInv, Lone

LEMMA SerialStep ==
    ASSUME Serial, SerialInv, [Next]_vars
    PROVE  SerialInv'
<1>1. RowsInv'
  BY RowsStep DEF SerialInv
<1>2. ASSUME NEW w \in Workers, Onward(w),
             \A v \in Workers \ {w} : At(v, "idle") /\ req'[v] = req[v]
      PROVE  SerialInv'
  <2>1. \A v \in Workers \ {w} : (InOperation(req[v]) /\ Fresh(req[v]))'
    <3> TAKE v \in Workers \ {w}
    <3>1. req'[v].pc = "idle" /\ req'[v].op \in {None, "keys"}
      BY <1>2 DEF At, SerialInv, InOperation
    <3> QED BY <3>1, NoneAssumption DEF InOperation, Fresh
  <2>2. Lone'
    BY <1>2 DEF Lone, At
  <2> QED BY <1>1, <1>2, <2>1, <2>2 DEF Onward, SerialInv
<1>3. ASSUME NEW w \in Workers, Step(w) PROVE SerialInv'
  <2>1. \A v \in Workers \ {w} : At(v, "idle") /\ req'[v] = req[v]
    BY <1>3, OthersIdle, OthersStay DEF SerialInv, RowsInv, TypeInv
  <2>2. Onward(w)
    BY <1>3, ConfigFoundOnward, ConfigCreatedOnward, EnsureOnward, CountOnward, UpdateOnward,
       SplitOnward, KeepOnward, SyncOnward, SaveOnward, LinkOnward, AttachOnward, MoveOnward,
       DropOnward, PurgeOnward, RemoveOnward, SaveKeysOnward DEF Step
  <2> QED BY <1>2, <2>1, <2>2
<1>4. ASSUME NEW w \in Workers,
             \/ \E l \in Locations : StartView(w, l) \/ StartAccess(w, l)
             \/ \E p \in PassportId : StartKeys(w, p)
             \/ \E src, dst \in Main : DuplicateBlock(w, src, dst)
             \/ \E S \in SUBSET Main : StartDelete(w, S)
      PROVE  SerialInv'
  BY <1>2, <1>4, StartOnward, OthersIdle, OthersStay DEF SerialInv, RowsInv, TypeInv
<1>5. CASE UNCHANGED vars
  <2>1. \A w \in Workers : (InOperation(req[w]) /\ Fresh(req[w]))'
    BY <1>5 DEF vars, SerialInv, InOperation, Fresh, UpdatesInPlace, Users, BlankKeys
  <2> QED BY <1>1, <1>5, <2>1 DEF vars, SerialInv, Lone, At
<1> QED BY <1>3, <1>4, <1>5, EditSerial DEF Next

LEMMA SerialAlways ==
    ASSUME Serial
    PROVE  Spec => []SerialInv
<1>1. SerialInv /\ [Next]_vars => SerialInv'
  BY SerialStep
<1> QED BY <1>1, SerialInit, PTL DEF Spec

\* Requests one at a time: pre_item_delete drops the configurations of the
\* whole subtree before its blocks go, and no handler brings one back, so that
\* a block of the modulestore stands behind every configuration.
THEOREM ConfigurationsHaveBlocks ==
    ASSUME Serial
    PROVE  Spec => []NoConfigWithoutBlock
<1>1. SerialInv => NoConfigWithoutBlock
  BY DEF SerialInv, NoConfigWithoutBlock
<1> QED BY <1>1, SerialAlways, PTL

\* The passport that is written is that of a view, whose users were counted.
LEMMA WriterCounted ==
    ASSUME Serial, SerialInv, [Next]_vars, NEW p \in PassportId,
           passport[p] # None, passport'[p] # None, passport'[p] # passport[p]
    PROVE  Cardinality(Users(p)) = 1 \/ BlankKeys(passport[p])
<1> USE DEF SerialInv, RowsInv, TypeInv
<1>1. ASSUME NEW w \in Workers, UpdateInPlace(w)
      PROVE  Cardinality(Users(p)) = 1 \/ BlankKeys(passport[p])
  <2>1. req[w].pc = "inplace" /\ p = req[w].pk
    BY <1>1 DEF UpdateInPlace, At, TypeOK
  <2> QED BY <2>1 DEF Fresh, UpdatesInPlace
<1>2. ASSUME NEW w \in Workers, ConfigCreated(w) \/ LinkPassport(w) \/ SplitPassport(w)
      PROVE  passport'[p] = passport[p]
  BY <1>2, MintOnward, GetOrCreateOnward DEF ConfigCreated, LinkPassport, SplitPassport, db
<1>3. ASSUME NEW w \in Workers, PurgeOrphans(w) PROVE passport'[p] \in {None, passport[p]}
  BY <1>3, DeleteOnward DEF PurgeOrphans
<1>4. ASSUME NEW q \in PassportId, AdminDeletePassport(q)
      PROVE  passport'[p] \in {None, passport[p]}
  BY <1>4, DeleteOnward DEF AdminDeletePassport
<1>5. ASSUME NEW w \in Workers, Step(w), ~UpdateInPlace(w) PROVE passport'[p] \in {None, passport[p]}
  BY <1>2, <1>3, <1>5, SaveKeysOnward
     DEF Step, ConfigFound, EnsurePassport, CountUsers, KeepSplit, SyncConfigurations, SaveConfig,
         KeepLink, AttachPassport, Finish, ReadSource, CheckTarget, DropConfigs,
         ScanOrphans, RemoveBlocks, db
<1> QED BY <1>1, <1>4, <1>5 DEF Next, vars, db, StartView, StartAccess, StartKeys, DuplicateBlock,
         StartDelete, EditTool, EditStore, PasteBlock

\* Requests one at a time: a view writes a passport with keys in place only
\* when its block is the sole user (_ensure_lti_passport), and every other
\* access saves the row it just read; an interleaving breaks this
\* (passports_shared_race).
THEOREM SharedKeysAreKept ==
    ASSUME Serial
    PROVE  Spec => SharedKeysStable
<1> DEFINE Keeps ==
       \A p \in PassportId :
          /\ passport[p] # None /\ passport'[p] # None
          /\ passport[p].pub # Blank \/ passport[p].url # Blank
          /\ Cardinality(Users(p)) > 1
          /\ \A w \in Workers : AtKeys(w) => req'[w] = req[w]
          => passport'[p] = passport[p]
<1>1. SerialInv /\ [Next]_vars => [Keeps]_vars
  BY WriterCounted DEF BlankKeys
<1> QED BY <1>1, SerialAlways, PTL DEF Spec, SharedKeysStable

---------------------------------------------------------------------------
(* Requests one at a time, and no custom course *)

LEMMA Plain ==
    ASSUME Ccx = {}, TypeOK
    PROVE  /\ Main = Locations
           /\ \A l \in Locations : Home(l) = l
           /\ \A l \in Locations : \A row : PushToChildren(l, row) = config
           /\ \A l \in Locations :
                NewConfig(l) = [id |-> ids + 1, passport |-> None, store |-> ON_XBLOCK]
<1>1. \A l \in Locations : Children(l) = {}
  BY LocationsAssumption DEF Main, Children
<1>2. \A l \in Locations : \A row : PushToChildren(l, row) = config
  BY <1>1 DEF PushToChildren, TypeOK
<1> QED BY <1>2 DEF Main, Home, NewConfig

\* A step that leaves passports, configurations and blocks as they are
LEMMA RowsStill ==
    ASSUME UNCHANGED <<passport, config, block>>
    PROVE  /\ \A p : Orphan(p)' <=> Orphan(p)
           /\ \A l : Agree(l)' <=> Agree(l)
           /\ \A p, l : Fits(p, l)' <=> Fits(p, l)
           /\ \A l : SharedElsewhere(l)' <=> SharedElsewhere(l)
           /\ \A l : Linked(l)' <=> Linked(l)
           /\ \A l, cfg : Unlinked(l, cfg)' <=> Unlinked(l, cfg)
BY DEF Orphan, Agree, Fits, SharedElsewhere, Linked, Unlinked, Users

\* ... and ends the request
LEMMA StoppedSolo ==
    ASSUME SerialInv, NEW w \in Workers, Solo(w), Stop(w),
           \A p \in PassportId : ~Orphan(p)', \A l \in Main : Agree(l)'
    PROVE  Solo(w)'
<1>1. req'[w] = Idle
  BY SetMoves DEF Stop, SerialInv, RowsInv, TypeInv
<1>2. req'[w].pc = "idle" /\ req'[w].row = None
  BY <1>1 DEF Idle
<1> QED BY <1>2 DEF Solo, AtConfig, AtPassport, AtView

LEMMA NothingToTend ==
    ASSUME NEW w \in Workers, Solo(w),
           req[w].pc \notin {"scan", "purge", "keepsplit", "sync", "save", "keep", "attach"}
    PROVE  (\A p \in PassportId : ~Orphan(p)) /\ (\A l \in Main : Agree(l))
BY DEF Solo, Tends

LEMMA ConfigFoundSolo ==
    ASSUME Ccx = {}, SerialInv, NEW w \in Workers, Solo(w), ConfigFound(w)
    PROVE  Solo(w)'
<1>1. req[w] \in Request /\ Shape(req[w]) /\ req[w].pc = "config"
  BY AtTyped DEF ConfigFound, SerialInv, RowsInv
<1>2. req'[w] = [req[w] EXCEPT !.pc = "ensure", !.cfg = config[req[w].loc]]
  BY SetMoves DEF ConfigFound, SerialInv, RowsInv, TypeInv
<1>3. /\ req'[w].pc = "ensure" /\ req'[w].loc = req[w].loc /\ req'[w].cfg = config[req[w].loc]
      /\ req'[w].pk = None /\ req'[w].row = None
  BY <1>1, <1>2 DEF Request, Solo, AtPassport, AtView
<1>4. UNCHANGED <<passport, config, block>>
  BY DEF ConfigFound, db
<1>5. (\A p \in PassportId : ~Orphan(p)') /\ (\A l \in Main : Agree(l)')
  BY <1>1, <1>4, NothingToTend, RowsStill
<1> QED BY <1>3, <1>4, <1>5 DEF Solo, AtConfig, AtPassport, AtView

LEMMA EnsureSolo ==
    ASSUME Ccx = {}, SerialInv, NEW w \in Workers, Solo(w), EnsurePassport(w)
    PROVE  Solo(w)'
<1> DEFINE l == req[w].loc
           cfg == req[w].cfg
<1> USE DEF SerialInv, RowsInv, TypeInv
<1>1. req[w] \in Request /\ Shape(req[w]) /\ req[w].pc = "ensure"
  BY AtTyped DEF EnsurePassport
<1>2. /\ l \in Locations /\ cfg # None /\ config[l] = cfg /\ req[w].op = "view"
      /\ req[w].pk = None /\ req[w].row = None /\ block[l] # None /\ l \in Main
  BY <1>1, Plain DEF Shape, Solo, AtConfig, AtPassport, AtView, InOperation, Fresh
<1>3. UNCHANGED <<passport, config, block>>
  BY DEF EnsurePassport, db
<1>4. (\A p \in PassportId : ~Orphan(p)') /\ (\A m \in Main : Agree(m)')
  BY <1>1, <1>3, NothingToTend, RowsStill
<1>5. cfg.passport # None => cfg.passport \in PassportId
  BY <1>1, <1>2 DEF Request, ConfigRow
<1>6. cfg.passport # None /\ passport[cfg.passport] # None => Fits(cfg.passport, l)
  BY <1>1, <1>2, NothingToTend DEF Fits, Agree, Linked
<1>7. CASE Go(w, "sync") /\ cfg.passport = None
  <2>1. /\ req'[w].pc = "sync" /\ req'[w].loc = l /\ req'[w].cfg = cfg /\ req'[w].pk = None
        /\ req'[w].row = None /\ req'[w].op = "view"
    BY <1>2, <1>7, GoMoves
  <2>2. Target(req'[w]) = None
    BY <1>7, <2>1 DEF Target
  <2>3. AtPassport(req[w])'
    BY <1>2, <1>3, <1>7, <2>1, <2>2 DEF AtPassport, Target, Linked
  <2> QED BY <1>2, <1>3, <1>4, <2>1, <2>3 DEF Solo, AtConfig, AtView
<1>8. CASE Stop(w)
  BY <1>4, <1>8, StoppedSolo
<1>9. CASE /\ cfg.passport # None /\ passport[cfg.passport] # None
           /\ Set(w, [req[w] EXCEPT !.pc = "sync", !.pk = cfg.passport])
  <2>1. req'[w] = [req[w] EXCEPT !.pc = "sync", !.pk = cfg.passport]
    BY <1>9, SetMoves
  <2>2. /\ req'[w].pc = "sync" /\ req'[w].loc = l /\ req'[w].cfg = cfg
        /\ req'[w].pk = cfg.passport /\ req'[w].row = None /\ req'[w].op = "view"
    BY <1>1, <1>2, <2>1 DEF Request
  <2>3. Target(req'[w]) = cfg.passport
    BY <2>2 DEF Target
  <2>4. AtPassport(req[w])'
    BY <1>2, <1>3, <1>6, <1>9, <2>2, <2>3, RowsStill DEF AtPassport, Target
  <2> QED BY <1>2, <1>3, <1>4, <2>2, <2>4 DEF Solo, AtConfig, AtView
<1>10. CASE /\ cfg.passport # None /\ passport[cfg.passport] # None
            /\ Set(w, [req[w] EXCEPT !.pc = "count", !.pk = cfg.passport,
                                     !.row = passport[cfg.passport]])
  <2>1. req'[w] = [req[w] EXCEPT !.pc = "count", !.pk = cfg.passport,
                                 !.row = passport[cfg.passport]]
    BY <1>10, SetMoves
  <2>2. /\ req'[w].pc = "count" /\ req'[w].loc = l /\ req'[w].cfg = cfg
        /\ req'[w].pk = cfg.passport
    BY <1>1, <1>2, <2>1 DEF Request
  <2>3. AtPassport(req[w])'
    BY <2>2 DEF AtPassport
  <2> QED BY <1>2, <1>3, <1>4, <2>2, <2>3 DEF Solo, AtConfig, AtView
<1> QED BY <1>7, <1>8, <1>9, <1>10 DEF EnsurePassport

LEMMA CountSolo ==
    ASSUME Ccx = {}, SerialInv, NEW w \in Workers, Solo(w), CountUsers(w)
    PROVE  Solo(w)'
<1> DEFINE l == req[w].loc
           cfg == req[w].cfg
           pk == req[w].pk
           tool == req[w].blk.tool
<1> USE DEF SerialInv, RowsInv, TypeInv
<1>1. req[w] \in Request /\ Shape(req[w]) /\ req[w].pc = "count"
  BY AtTyped DEF CountUsers
<1>2. /\ l \in Locations /\ cfg # None /\ config[l] = cfg /\ req[w].op = "view"
      /\ pk = cfg.passport /\ pk # None /\ passport[pk] = req[w].row /\ req[w].row # None
      /\ block[l] # None /\ l \in Main
  BY <1>1, Plain DEF Shape, Solo, AtConfig, AtPassport, AtView, InOperation, Fresh
<1>3. UNCHANGED <<passport, config, block>>
  BY DEF CountUsers, db
<1>4. (\A p \in PassportId : ~Orphan(p)') /\ (\A m \in Main : Agree(m)')
  BY <1>1, <1>3, NothingToTend, RowsStill
<1>5. ASSUME NEW pc, Go(w, pc)
      PROVE  /\ req'[w].pc = pc /\ req'[w].loc = l /\ req'[w].cfg = cfg /\ req'[w].pk = pk
             /\ req'[w].row = req[w].row /\ req'[w].op = "view" /\ req'[w].blk = req[w].blk
  BY <1>2, <1>5, GoMoves
<1>6. CASE Go(w, "inplace")
  <2>1. AtPassport(req[w])'
    BY <1>2, <1>5, <1>6 DEF AtPassport
  <2> QED BY <1>2, <1>3, <1>4, <1>5, <1>6, <2>1 DEF Solo, AtConfig, AtView
<1>7. CASE Go(w, "sync") /\ Settled(req[w].row, tool)
  <2>1. Target(req'[w]) = pk
    BY <1>2, <1>5, <1>7 DEF Target
  <2>2. Fits(pk, l)
    BY <1>1, <1>2, NothingToTend DEF Fits, Agree, Linked
  <2>3. AtPassport(req[w])'
    BY <1>2, <1>3, <1>5, <1>7, <2>1, <2>2, RowsStill DEF AtPassport, Target
  <2>4. AtView(req[w])'
    BY <1>2, <1>3, <1>5, <1>7 DEF AtView, Settled
  <2> QED BY <1>2, <1>3, <1>4, <1>5, <1>7, <2>3, <2>4 DEF Solo, AtConfig
<1>8. CASE Go(w, "split") /\ Cardinality(Users(pk)) # 1
  <2>1. l \in Users(pk)
    BY <1>2 DEF Users
  <2>2. Users(pk) # {l}
    BY <1>8, FS_Singleton
  <2>3. PICK m \in Users(pk) : m # l
    BY <2>1, <2>2
  <2>4. SharedElsewhere(l)
    BY <1>2, <2>3 DEF SharedElsewhere, Users, Linked
  <2>5. AtPassport(req[w])'
    BY <1>2, <1>3, <1>5, <1>8, <2>4, RowsStill DEF AtPassport
  <2> QED BY <1>2, <1>3, <1>4, <1>5, <1>8, <2>5 DEF Solo, AtConfig, AtView
<1>9. CASE Go(w, "sync") /\ SameKeys(tool, req[w].row)
  BY <1>7, <1>9 DEF SameKeys, Settled
<1>10. CASE Go(w, "sync") /\ ~KeyMismatch(tool, req[w].row)
  <2>1. tool.mode \in {"public_key", "keyset_url"}
    BY <1>1 DEF Shape, Request, BlockRow, Settings
  <2> QED BY <1>7, <1>10, <2>1 DEF KeyMismatch, Settled
<1>11. UpdatesInPlace(pk, req[w].row) \/ Cardinality(Users(pk)) # 1
  BY DEF UpdatesInPlace
<1> QED BY <1>6, <1>8, <1>9, <1>10, <1>11 DEF CountUsers

\* The passport a step obtains, and the ones it leaves alone
LEMMA Obtained ==
    ASSUME SerialInv, NEW pk \in PassportId, NEW pid \in PassportId,
           NEW pub \in KeyTexts, NEW url \in KeyTexts, NEW l \in Locations,
           GetOrCreatePassport(pk, pid, l) \/ Mint(pk, pid, pub, url, l)
    PROVE  /\ passport'[pk] # None /\ passport'[pk].pid = pid
           /\ \A p \in PassportId \ {pk} : passport'[p] = passport[p]
           /\ \A p \in PassportId : passport[p] # None => passport'[p] = passport[p]
           /\ Mint(pk, pid, pub, url, l) => passport'[pk].pub = pub /\ passport'[pk].url = url
<1> USE DEF SerialInv, RowsInv, TypeInv
<1>1. \A p \in PassportId : passport[p] # None => passport'[p] = passport[p]
  BY MintOnward, GetOrCreateOnward
<1>2. CASE pk \in Named(pid) /\ UNCHANGED passport /\ ~Mint(pk, pid, pub, url, l)
  BY <1>1, <1>2 DEF Named
<1>3. ASSUME NEW a \in KeyTexts, NEW b \in KeyTexts, Mint(pk, pid, a, b, l)
      PROVE  /\ passport'[pk] # None /\ passport'[pk].pid = pid
             /\ passport'[pk].pub = a /\ passport'[pk].url = b
             /\ \A p \in PassportId \ {pk} : passport'[p] = passport[p]
  BY <1>3, MintTyped DEF Mint, TypeOK
<1>4. CASE Mint(pk, pid, pub, url, l)
  BY <1>1, <1>3, <1>4
<1>5. CASE Mint(pk, pid, Blank, Blank, l) /\ ~Mint(pk, pid, pub, url, l)
  BY <1>1, <1>3, <1>5, ValuesAssumption
<1> QED BY <1>2, <1>4, <1>5 DEF GetOrCreatePassport

LEMMA OthersAgree ==
    ASSUME SerialInv, NEW l, \A m \in Locations \ {l} : config'[m] = config[m],
           \A m \in Main \ {l} : block'[m] = block[m],
           \A p \in PassportId : passport[p] # None => passport'[p] = passport[p]
    PROVE  \A m \in Main \ {l} : Agree(m) => Agree(m)'
<1> SUFFICES ASSUME NEW m \in Main \ {l}, Agree(m), Linked(m)' PROVE Agree(m)'
  BY DEF Agree
<1>1. m \in Locations /\ config'[m] = config[m] /\ block'[m] = block[m]
  BY DEF Main
<1>2. config[m].passport \in PassportId /\ passport[config[m].passport] # None
  BY <1>1 DEF Linked, SerialInv, RowsInv, NoDanglingPassport, TypeInv, TypeOK, ConfigRow
<1> QED BY <1>1, <1>2 DEF Agree, Linked

\* A configuration written with passport q orphans no other.
LEMMA NowLinked ==
    ASSUME SerialInv, NEW l \in Locations, NEW q,
           config'[l] # None, config'[l].passport = q,
           Linked(l) => config[l].passport = q \/ SharedElsewhere(l),
           \A m \in Locations \ {l} : config'[m] = config[m],
           \A p \in PassportId \ {q} : passport'[p] = passport[p]
    PROVE  \A p \in PassportId : Orphan(p)' => p # q /\ Orphan(p)
<1> SUFFICES ASSUME NEW p \in PassportId, Orphan(p)' PROVE p # q /\ Orphan(p)
  OBVIOUS
<1>1. p # None
  BY NoneAssumption
<1>2. p # q /\ passport[p] # None
  BY DEF Orphan, Users
<1>3. \A m \in Locations \ {l} : m \notin Users(p)
  BY DEF Orphan, Users
<1>4. ASSUME l \in Users(p) PROVE FALSE
  <2>1. Linked(l) /\ config[l].passport = p
    BY <1>1, <1>4 DEF Linked, Users
  <2>2. PICK m \in Locations \ {l} : Linked(m) /\ config[m].passport = p
    BY <1>2, <2>1 DEF SharedElsewhere
  <2> QED BY <1>3, <2>2 DEF Users, Linked
<1>5. Users(p) \subseteq Locations
  BY DEF Users
<1> QED BY <1>2, <1>3, <1>4, <1>5 DEF Orphan

LEMMA ConfigCreatedSolo ==
    ASSUME Ccx = {}, SerialInv, NEW w \in Workers, Solo(w), ConfigCreated(w)
    PROVE  Solo(w)'
<1> DEFINE l == req[w].loc
           b == block[l]
           row == [id |-> ids + 1, passport |-> None, store |-> ON_XBLOCK]
<1> USE DEF SerialInv, RowsInv, TypeInv
<1>1. req[w] \in Request /\ Shape(req[w]) /\ req[w].pc = "config"
  BY AtTyped DEF ConfigCreated
<1>2. /\ l \in Locations /\ l \in Main /\ Main = Locations /\ Home(l) = l /\ b # None
      /\ NewConfig(l) = row /\ PushToChildren(l, row) = config
      /\ req[w].pk = None /\ req[w].row = None
  BY <1>1, Plain DEF Shape, Solo, AtPassport, AtView, InOperation, Fresh
<1>3. config[l] = None /\ ~Linked(l) /\ b \in BlockRow
  BY <1>2 DEF ConfigCreated, Linked, TypeOK
<1>4. (\A p \in PassportId : ~Orphan(p)) /\ (\A m \in Main : Agree(m))
  BY <1>1, NothingToTend
<1>5. ASSUME NEW pk \in PassportId,
             config' = [config EXCEPT ![l] = [row EXCEPT !.passport = pk]],
             Set(w, [req[w] EXCEPT !.pc = "ensure", !.cfg = [row EXCEPT !.passport = pk]]),
             \A m \in Main \ {l} : block'[m] = block[m],
             passport'[pk].pid = block'[l].pid,
             \A p \in PassportId \ {pk} : passport'[p] = passport[p],
             \A p \in PassportId : passport[p] # None => passport'[p] = passport[p]
      PROVE  Solo(w)'
  <2> DEFINE cfg == [row EXCEPT !.passport = pk]
  <2>1. cfg \in ConfigRow /\ cfg # None /\ cfg.passport = pk
    <3>1. cfg \in ConfigRow /\ cfg.passport = pk
      BY ValuesAssumption DEF ConfigRow, TypeOK
    <3> QED BY <3>1, NoneAssumption DEF ConfigRow
  <2>2. req'[w] = [req[w] EXCEPT !.pc = "ensure", !.cfg = cfg]
    BY <1>5, SetMoves
  <2>3. /\ req'[w].pc = "ensure" /\ req'[w].loc = l /\ req'[w].cfg = cfg
        /\ req'[w].pk = None /\ req'[w].row = None
    BY <1>1, <1>2, <2>2 DEF Request
  <2>4. config'[l] = cfg /\ \A m \in Locations \ {l} : config'[m] = config[m]
    BY <1>2, <1>5 DEF TypeOK
  <2> HIDE DEF cfg
  <2>5. \A p \in PassportId : ~Orphan(p)'
    BY <1>2, <1>3, <1>4, <1>5, <2>1, <2>4, NowLinked
  <2>6. \A m \in Main \ {l} : Agree(m)'
    BY <1>4, <1>5, <2>4, OthersAgree
  <2>7. Agree(l)'
    BY <1>5, <2>1, <2>3, <2>4 DEF Agree
  <2> QED BY <2>3, <2>4, <2>5, <2>6, <2>7 DEF Solo, AtConfig, AtPassport, AtView
<1>6. ASSUME NEW pk \in PassportId, GetOrCreatePassport(pk, b.pid, l), UNCHANGED block,
             b.pid # None,
             config' = [config EXCEPT ![l] = [row EXCEPT !.passport = pk]],
             Set(w, [req[w] EXCEPT !.pc = "ensure", !.cfg = [row EXCEPT !.passport = pk]])
      PROVE  Solo(w)'
  <2>1. b.pid \in PassportId
    BY <1>2, <1>3, <1>6 DEF BlockRow
  <2>2. /\ passport'[pk].pid = b.pid
        /\ \A p \in PassportId \ {pk} : passport'[p] = passport[p]
        /\ \A p \in PassportId : passport[p] # None => passport'[p] = passport[p]
    BY <1>2, <1>6, <2>1, Obtained, ValuesAssumption
  <2>3. block'[l].pid = b.pid
    BY <1>6
  <2> QED BY <1>5, <1>6, <2>2, <2>3
<1>7. ASSUME NEW pk \in PassportId, Mint(pk, pk, Blank, Blank, l),
             block' = [block EXCEPT ![l].pid = pk],
             config' = [config EXCEPT ![l] = [row EXCEPT !.passport = pk]],
             Set(w, [req[w] EXCEPT !.pc = "ensure", !.cfg = [row EXCEPT !.passport = pk]])
      PROVE  Solo(w)'
  <2>1. block'[l].pid = pk
    BY <1>2, <1>3, <1>7 DEF TypeOK, BlockRow
  <2>2. \A m \in Main \ {l} : block'[m] = block[m]
    BY <1>7 DEF TypeOK
  <2>3. passport'[pk].pid = pk
    BY <1>2, <1>7, Obtained, ValuesAssumption
  <2>4. /\ \A p \in PassportId \ {pk} : passport'[p] = passport[p]
        /\ \A p \in PassportId : passport[p] # None => passport'[p] = passport[p]
    BY <1>2, <1>7, Obtained, ValuesAssumption
  <2>5. passport'[pk].pid = block'[l].pid
    BY <2>1, <2>3
  <2> QED BY <1>5, <1>7, <2>2, <2>4, <2>5
<1>8. NewConfig(l).passport = None
  BY <1>2
<1>9. \/ /\ b.pid # None /\ UNCHANGED block
         /\ \E pk \in PassportId :
               /\ GetOrCreatePassport(pk, b.pid, l)
               /\ config' = [config EXCEPT ![l] = [row EXCEPT !.passport = pk]]
               /\ Set(w, [req[w] EXCEPT !.pc = "ensure", !.cfg = [row EXCEPT !.passport = pk]])
      \/ \E pk \in PassportId :
               /\ Mint(pk, pk, Blank, Blank, l)
               /\ block' = [block EXCEPT ![l].pid = pk]
               /\ config' = [config EXCEPT ![l] = [row EXCEPT !.passport = pk]]
               /\ Set(w, [req[w] EXCEPT !.pc = "ensure", !.cfg = [row EXCEPT !.passport = pk]])
  <2> HIDE DEF row
  <2>1. NewConfig(l) = row /\ PushToChildren(l, row) = config
    BY <1>2 DEF row
  <2> QED BY <1>2, <1>8, <2>1 DEF ConfigCreated
<1> HIDE DEF row
<1> QED BY <1>6, <1>7, <1>9

LEMMA UpdateSolo ==
    ASSUME Ccx = {}, SerialInv, NEW w \in Workers, Solo(w), UpdateInPlace(w)
    PROVE  Solo(w)'
<1> DEFINE l == req[w].loc
           pk == req[w].pk
           tool == req[w].blk.tool
           row == [req[w].row EXCEPT !.pub = tool.pub, !.url = tool.url]
<1> USE DEF SerialInv, RowsInv, TypeInv
<1>1. req[w] \in Request /\ Shape(req[w]) /\ req[w].pc = "inplace"
  BY AtTyped DEF UpdateInPlace
<1>2. /\ l \in Locations /\ req[w].cfg # None /\ config[l] = req[w].cfg /\ req[w].op = "view"
      /\ pk = req[w].cfg.passport /\ pk \in PassportId /\ pk # None
      /\ passport[pk] = req[w].row /\ req[w].row # None /\ req[w].row \in PassportRow
      /\ req[w].blk \in BlockRow
  BY <1>1 DEF Shape, Request, Solo, AtConfig, AtPassport, InOperation, Fresh
<1>3. UNCHANGED <<config, block>>
  BY DEF UpdateInPlace
<1>4. (\A p \in PassportId : ~Orphan(p)) /\ (\A m \in Main : Agree(m))
  BY <1>1, NothingToTend
<1>5. CASE Stop(w) /\ UNCHANGED passport
  BY <1>3, <1>4, <1>5, StoppedSolo, RowsStill
<1>6. CASE /\ passport' = [passport EXCEPT ![pk] = row]
           /\ Set(w, [req[w] EXCEPT !.pc = "sync", !.row = row])
  <2>1. req'[w] = [req[w] EXCEPT !.pc = "sync", !.row = row]
    BY <1>6, SetMoves
  <2>2. /\ req'[w].pc = "sync" /\ req'[w].loc = l /\ req'[w].cfg = req[w].cfg
        /\ req'[w].pk = pk /\ req'[w].op = "view" /\ req'[w].blk = req[w].blk
    BY <1>1, <1>2, <2>1 DEF Request
  <2>3. row.pid = passport[pk].pid /\ row.pub = tool.pub /\ row.url = tool.url /\ row # None
    <3>1. row \in PassportRow /\ row.pid = passport[pk].pid /\ row.pub = tool.pub
          /\ row.url = tool.url
      BY <1>2 DEF PassportRow, BlockRow, Settings
    <3> QED BY <3>1, NoneAssumption DEF PassportRow
  <2>4. passport'[pk] = row /\ \A p \in PassportId \ {pk} : passport'[p] = passport[p]
    BY <1>2, <1>6 DEF TypeOK
  <2>5. \A p \in PassportId : passport[p] # None => passport'[p] # None /\ passport'[p].pid = passport[p].pid
    BY <2>3, <2>4
  <2>6. \A p \in PassportId : ~Orphan(p)'
    BY <1>2, <1>3, <1>4, <2>4 DEF Orphan, Users
  <2>7. ASSUME NEW m \in Main, Linked(m)' PROVE Agree(m)'
    <3>1. config[m].passport \in PassportId /\ passport[config[m].passport] # None
      BY <1>3, <2>7 DEF Linked, NoDanglingPassport, TypeOK, ConfigRow, Main
    <3> QED BY <1>3, <1>4, <2>5, <3>1 DEF Agree, Linked
  <2>8. Agree(l) /\ l \in Main
    BY <1>2, <1>4, Plain
  <2>9. Fits(pk, l)'
    BY <1>2, <1>3, <2>2, <2>3, <2>4, <2>8 DEF Fits, Agree, Linked
  <2>10. Target(req'[w]) = pk /\ Linked(l)'
    BY <1>2, <1>3, <2>2 DEF Target, Linked
  <2>11. AtPassport(req[w])'
    BY <1>2, <1>3, <2>2, <2>9, <2>10 DEF AtPassport, Target
  <2>12. AtView(req[w])'
    BY <1>2, <2>2, <2>3, <2>4 DEF AtView, Settled
  <2> QED BY <1>2, <1>3, <2>2, <2>6, <2>7, <2>11, <2>12 DEF Solo, AtConfig, Agree
<1> QED BY <1>5, <1>6 DEF UpdateInPlace

LEMMA SplitSolo ==
    ASSUME Ccx = {}, SerialInv, NEW w \in Workers, Solo(w), SplitPassport(w)
    PROVE  Solo(w)'
<1> DEFINE l == req[w].loc
           cfg == req[w].cfg
           tool == req[w].blk.tool
<1> USE DEF SerialInv, RowsInv, TypeInv
<1>1. req[w] \in Request /\ Shape(req[w]) /\ req[w].pc = "split"
  BY AtTyped DEF SplitPassport
<1>2. /\ l \in Locations /\ cfg # None /\ config[l] = cfg /\ req[w].op = "view"
      /\ req[w].blk \in BlockRow /\ SharedElsewhere(l)
      /\ tool.pub \in KeyTexts /\ tool.url \in KeyTexts
  BY <1>1 DEF Shape, Request, BlockRow, Settings, Solo, AtConfig, AtPassport, InOperation
<1>3. PICK pk \in PassportId :
        /\ Mint(pk, pk, tool.pub, tool.url, l)
        /\ Set(w, [req[w] EXCEPT !.pc = "keepsplit", !.pk = pk, !.blk.pid = pk])
  BY DEF SplitPassport
<1>4. UNCHANGED <<config, block>>
  BY DEF SplitPassport
<1>5. (\A p \in PassportId : ~Orphan(p)) /\ (\A m \in Main : Agree(m))
  BY <1>1, NothingToTend
<1>6. req'[w] = [req[w] EXCEPT !.pc = "keepsplit", !.pk = pk, !.blk.pid = pk]
  BY <1>3, SetMoves
<1>7. /\ req'[w].pc = "keepsplit" /\ req'[w].loc = l /\ req'[w].cfg = cfg /\ req'[w].pk = pk
      /\ req'[w].blk.pid = pk /\ req'[w].blk.tool = tool
  BY <1>1, <1>2, <1>6 DEF Request, BlockRow
<1>8. pk # None /\ Target(req'[w]) = pk
  BY <1>7, NoneAssumption DEF Target
<1>9. /\ passport'[pk] # None /\ passport'[pk].pid = pk
      /\ \A p \in PassportId \ {pk} : passport'[p] = passport[p]
      /\ \A p \in PassportId : passport[p] # None => passport'[p] = passport[p]
      /\ passport'[pk].pub = tool.pub /\ passport'[pk].url = tool.url
  BY <1>2, <1>3, Obtained
<1>10. SharedElsewhere(l) /\ UNCHANGED config => SharedElsewhere(req[w].loc)'
  BY <1>7 DEF SharedElsewhere, Linked
<1>11. AtPassport(req[w])'
  BY <1>2, <1>4, <1>7, <1>9, <1>10 DEF AtPassport
<1>12. AtView(req[w])'
  BY <1>7, <1>8, <1>9 DEF AtView, Settled
<1>13. \A p \in PassportId : Orphan(p)' => p = pk
  BY <1>4, <1>5, <1>9 DEF Orphan, Users
<1>14. \A m \in Main : Agree(m)'
  <2> SUFFICES ASSUME NEW m \in Main, Linked(m)' PROVE Agree(m)'
    BY DEF Agree
  <2>1. config[m].passport \in PassportId /\ passport[config[m].passport] # None
    BY <1>4 DEF Linked, NoDanglingPassport, TypeOK, ConfigRow, Main
  <2> QED BY <1>4, <1>5, <1>9, <2>1 DEF Agree, Linked
<1>15. AtConfig(req[w])'
  BY <1>2, <1>4, <1>7 DEF AtConfig
<1>16. \A p \in PassportId : Orphan(p)' => Tends(req'[w], p)
  BY <1>7, <1>8, <1>13 DEF Tends
<1> QED BY <1>11, <1>12, <1>14, <1>15, <1>16 DEF Solo, Tends, Target

LEMMA KeepSolo ==
    ASSUME Ccx = {}, SerialInv, NEW w \in Workers, Solo(w), KeepSplit(w) \/ KeepLink(w)
    PROVE  Solo(w)'
<1> DEFINE l == req[w].loc
           pk == req[w].pk
           blk == req[w].blk
<1> USE DEF SerialInv, RowsInv, TypeInv
<1>1. req[w] \in Request /\ Shape(req[w]) /\ req[w].pc \in {"keepsplit", "keep"}
  BY AtTyped DEF KeepSplit, KeepLink
<1>2. /\ l \in Locations /\ l \in Main /\ Home(l) = l /\ block[l] # None
      /\ pk \in PassportId /\ pk # None /\ blk \in BlockRow /\ blk # None
      /\ passport[pk] # None /\ passport[pk].pid = blk.pid
  BY <1>1, Plain, NoneAssumption DEF Shape, Request, Solo, AtConfig, AtPassport, InOperation, Fresh
<1>3. UNCHANGED <<config, passport>>
  BY DEF KeepSplit, KeepLink, db
<1>4. PICK pc : /\ Go(w, pc) /\ block' = [block EXCEPT ![l] = blk]
                /\ \/ pc = "sync" /\ req[w].pc = "keepsplit"
                   \/ pc = "attach" /\ req[w].pc = "keep"
  BY <1>1, <1>2 DEF KeepSplit, KeepLink, SaveBlock, At
<1>5. /\ req'[w].pc = pc /\ req'[w].loc = l /\ req'[w].cfg = req[w].cfg /\ req'[w].pk = pk
      /\ req'[w].row = req[w].row /\ req'[w].op = req[w].op /\ req'[w].blk = blk
  BY <1>4, GoMoves
<1>6. block'[l] = blk /\ \A m \in Main \ {l} : block'[m] = block[m]
  BY <1>2, <1>4 DEF TypeOK
<1>7. Target(req'[w]) = pk /\ Target(req[w]) = pk
  BY <1>2, <1>5 DEF Target
<1>8. \A p \in PassportId : Orphan(p)' => Tends(req'[w], p)
  <2>1. \A p \in PassportId : Orphan(p)' => Orphan(p)
    BY <1>3 DEF Orphan, Users
  <2>2. \A p \in PassportId : Orphan(p) => p = pk
    BY <1>1, <1>7 DEF Solo, Tends
  <2> QED BY <1>4, <1>5, <1>7, <2>1, <2>2 DEF Tends
<1>9. \A m \in Main \ {l} : Agree(m)'
  <2>1. \A m \in Main : Agree(m)
    BY <1>1 DEF Solo
  <2> QED BY <1>3, <1>6, <2>1, OthersAgree
<1>10. passport'[pk] # None /\ passport'[pk].pid = block'[l].pid
  BY <1>2, <1>3, <1>6
<1>11. CASE pc = "sync"
  <2>1. req[w].op = "view" /\ config[l] = req[w].cfg
    BY <1>1, <1>4, <1>11 DEF InOperation, Solo, AtConfig
  <2>2. AtConfig(req[w])'
    BY <1>3, <1>5, <1>11, <2>1 DEF AtConfig
  <2>3. Linked(l) /\ config[l].passport # pk => SharedElsewhere(l)
    BY <1>1, <1>4, <1>7, <1>11 DEF Solo, AtPassport
  <2>4. Linked(req[w].loc)' /\ config'[req'[w].loc].passport # pk => SharedElsewhere(req[w].loc)'
    BY <1>3, <1>5, <2>3 DEF Linked, SharedElsewhere
  <2>5. AtPassport(req[w])'
    BY <1>5, <1>7, <1>10, <1>11, <2>4 DEF AtPassport, Fits, Target
  <2>6. AtView(req[w])'
    BY <1>1, <1>3, <1>4, <1>5, <1>11 DEF AtView, Settled, Solo
  <2> QED BY <1>5, <1>8, <1>9, <1>11, <2>2, <2>5, <2>6 DEF Solo, Tends, Target
<1>12. CASE pc = "attach"
  <2>1. Unlinked(l, req[w].cfg) /\ req[w].row = None
    BY <1>1, <1>4, <1>12 DEF Solo, AtConfig, AtView
  <2>2. AtConfig(req[w])'
    BY <1>2, <1>3, <1>5, <1>6, <1>12, <2>1 DEF AtConfig, Unlinked
  <2>3. AtPassport(req[w])'
    BY <1>5, <1>10, <1>12 DEF AtPassport, Fits
  <2>4. AtView(req[w])'
    BY <1>5, <1>12, <2>1 DEF AtView
  <2>5. Agree(l)'
    BY <1>3, <1>5, <2>1 DEF Agree, Linked, Unlinked
  <2>6. \A m \in Main : Agree(m)'
    BY <1>5, <1>9, <2>5
  <2> QED BY <1>8, <2>2, <2>3, <2>4, <2>6 DEF Solo, Tends, Target
<1> QED BY <1>4, <1>11, <1>12

LEMMA SyncSolo ==
    ASSUME Ccx = {}, SerialInv, NEW w \in Workers, Solo(w), SyncConfigurations(w)
    PROVE  Solo(w)'
<1> DEFINE l == req[w].loc
           new == Updated(req[w])
<1> USE DEF SerialInv, RowsInv, TypeInv
<1>1. req[w] \in Request /\ Shape(req[w]) /\ req[w].pc = "sync"
  BY AtTyped DEF SyncConfigurations
<1>2. /\ l \in Locations /\ l \in Main /\ req[w].cfg # None /\ req[w].cfg \in ConfigRow
      /\ req[w].op \in {"view", "duplicate"}
      /\ config[l] = IF req[w].op = "view" THEN req[w].cfg ELSE None
  BY <1>1, Plain DEF Shape, Request, Solo, AtConfig, InOperation
<1>3. UNCHANGED <<passport, block, config>>
  BY <1>2, Plain DEF SyncConfigurations
<1>4. new \in ConfigRow /\ new # None
  BY <1>1, <1>2, UpdatedTyped
<1>5. new.passport = Target(req[w]) /\ new.id = req[w].cfg.id
  BY <1>2 DEF Updated, Target, ConfigRow
<1>6. \/ req[w].op = "view" /\ new = req[w].cfg /\ Return(w, req[w])
      \/ Set(w, [req[w] EXCEPT !.pc = "save", !.cfg = new])
  BY <1>2, Plain DEF SyncConfigurations
<1>7. Target(req[w]) # None => Fits(Target(req[w]), l)
  BY <1>1 DEF Solo, AtPassport
<1>8. \A m \in Main \ {l} : Agree(m)'
  BY <1>1, <1>3, RowsStill DEF Solo
<1>9. \A p \in PassportId : Orphan(p)' => Orphan(p) /\ p = Target(req[w])
  BY <1>1, <1>3, RowsStill DEF Solo, Tends
<1>10. CASE req[w].op = "view" /\ new = req[w].cfg /\ Return(w, req[w])
  <2>1. /\ req'[w].pc = "returned" /\ req'[w].loc = l /\ req'[w].blk = req[w].blk
        /\ req'[w].pk = req[w].pk /\ req'[w].row = req[w].row
    BY <1>1, <1>10, ReturnMoves
  <2>2. config[l] = req[w].cfg /\ config[l].passport = Target(req[w])
    BY <1>2, <1>5, <1>10
  <2>3. \A p \in PassportId : ~Orphan(p)'
    BY <1>2, <1>9, <2>2 DEF Orphan, Users
  <2>4. Agree(l)'
    BY <1>2, <1>3, <1>7, <2>1, <2>2 DEF Agree, Linked, Fits
  <2>5. req[w].row # None => req[w].pk # None /\ Settled(passport[req[w].pk], req[w].blk.tool)
    BY <1>1 DEF Solo, AtView
  <2>6. AtView(req[w])'
    BY <1>2, <1>3, <2>1, <2>2, <2>5 DEF AtView, Settled, Linked, Target
  <2>7. \A m \in Main : Agree(m)'
    BY <1>8, <2>1, <2>4
  <2> QED BY <2>1, <2>3, <2>6, <2>7 DEF Solo, AtConfig, AtPassport
<1>11. CASE Set(w, [req[w] EXCEPT !.pc = "save", !.cfg = new])
  <2>1. req'[w] = [req[w] EXCEPT !.pc = "save", !.cfg = new]
    BY <1>11, SetMoves
  <2>2. /\ req'[w].pc = "save" /\ req'[w].loc = l /\ req'[w].cfg = new
        /\ req'[w].pk = req[w].pk /\ req'[w].row = req[w].row /\ req'[w].op = req[w].op
        /\ req'[w].blk = req[w].blk
    BY <1>1, <2>1 DEF Request
  <2>3. Target(req'[w]) = Target(req[w])
    BY <1>5, <2>2 DEF Target
  <2>4. AtConfig(req[w])'
    BY <1>2, <1>3, <1>5, <2>2 DEF AtConfig
  <2>5. Linked(l) /\ config[l].passport # Target(req[w]) => SharedElsewhere(l)
    BY <1>1 DEF Solo, AtPassport
  <2>6. Linked(req[w].loc)' /\ config'[req'[w].loc].passport # Target(req'[w])
        => SharedElsewhere(req[w].loc)'
    BY <1>3, <2>2, <2>3, <2>5 DEF Linked, SharedElsewhere
  <2>7. Target(req'[w]) # None => Fits(Target(req[w]), req[w].loc)'
    BY <1>3, <1>7, <2>2, <2>3 DEF Fits, Target
  <2>8. AtPassport(req[w])'
    BY <1>5, <2>2, <2>3, <2>6, <2>7 DEF AtPassport, Target
  <2>9. AtView(req[w])'
    BY <1>1, <1>3, <2>2 DEF AtView, Solo, Settled
  <2>10. \A p \in PassportId : Orphan(p)' => Tends(req'[w], p)
    BY <1>9, <2>2, <2>3 DEF Tends
  <2> QED BY <1>8, <2>2, <2>4, <2>8, <2>9, <2>10 DEF Solo, Tends, Target
<1> QED BY <1>6, <1>10, <1>11

\* A request that has linked its block ends, or returns to the view.
LEMMA ReturnSolo ==
    ASSUME Ccx = {}, SerialInv, NEW w \in Workers, NEW r \in Request, Return(w, r),
           r.loc = req[w].loc, r.blk = req[w].blk, r.row = req[w].row,
           \A p \in PassportId : ~Orphan(p)', \A m \in Main : Agree(m)',
           r.op = "view" /\ r.row # None =>
               /\ Linked(req[w].loc)'
               /\ Settled(passport'[config'[r.loc].passport], r.blk.tool)
    PROVE  Solo(w)'
<1> USE DEF SerialInv, RowsInv, TypeInv
<1>1. CASE req'[w] = Idle
  BY <1>1, StoppedSolo DEF Solo, AtConfig, AtPassport, AtView, Idle
<1>2. CASE /\ req'[w].pc = "returned" /\ r.op = "view" /\ req'[w].loc = r.loc
           /\ req'[w].blk = r.blk /\ req'[w].row = r.row
  <2>1. AtView(req[w])'
    BY <1>2 DEF AtView, Linked
  <2> QED BY <1>2, <2>1 DEF Solo, AtConfig, AtPassport
<1> QED BY <1>1, <1>2, ReturnMoves

LEMMA SaveSolo ==
    ASSUME Ccx = {}, SerialInv, NEW w \in Workers, Solo(w), SaveConfig(w)
    PROVE  Solo(w)'
<1> DEFINE l == req[w].loc
           cfg == req[w].cfg
<1> USE DEF SerialInv, RowsInv, TypeInv
<1>1. req[w] \in Request /\ Shape(req[w]) /\ req[w].pc = "save"
  BY AtTyped DEF SaveConfig
<1>2. /\ l \in Locations /\ l \in Main /\ Home(l) = l /\ cfg # None /\ block[l] # None
      /\ req[w].op \in {"view", "duplicate"} /\ RowFits(l, cfg)
      /\ Target(req[w]) = cfg.passport
      /\ cfg.passport # None => Fits(cfg.passport, l)
  BY <1>1, Plain DEF Shape, Solo, AtConfig, AtPassport, InOperation, Fresh, RowFits
<1>3. ForeignKeyOK(cfg.passport)
  BY <1>2 DEF ForeignKeyOK, Fits
<1>4. /\ config' = [config EXCEPT ![l] = cfg]
      /\ IF cfg.passport = None THEN Go(w, "link") ELSE Return(w, req[w])
      /\ UNCHANGED <<passport, block>>
  BY <1>2, <1>3 DEF SaveConfig
<1>5. config'[l] = cfg /\ \A m \in Locations \ {l} : config'[m] = config[m]
  BY <1>2, <1>4 DEF TypeOK
<1>6. Linked(l) => config[l].passport = cfg.passport \/ SharedElsewhere(l)
  BY <1>1, <1>2 DEF Solo, AtPassport
<1>7. \A p \in PassportId : Orphan(p)' => p # cfg.passport /\ Orphan(p)
  BY <1>2, <1>4, <1>5, <1>6, NowLinked
<1>8. \A p \in PassportId : ~Orphan(p)'
  BY <1>1, <1>2, <1>7 DEF Solo, Tends
<1>9. \A m \in Main \ {l} : Agree(m)'
  <2>1. \A m \in Main \ {l} : Agree(m)
    BY <1>1 DEF Solo
  <2> QED BY <1>4, <1>5, <2>1, OthersAgree
<1>11. \A m \in Main : Agree(m)'
  <2> SUFFICES ASSUME NEW m \in Main, m = l PROVE Agree(m)'
    BY <1>9
  <2>1. config'[m] = cfg /\ (cfg.passport # None => Fits(cfg.passport, m))
    BY <1>2, <1>5
  <2> HIDE DEF l, cfg
  <2> QED BY <1>4, <2>1 DEF Agree, Linked, Fits
<1>12. CASE cfg.passport = None
  <2>1. /\ req'[w].pc = "link" /\ req'[w].loc = l /\ req'[w].cfg = cfg
        /\ req'[w].row = req[w].row
    BY <1>4, <1>12, GoMoves
  <2>2. req[w].row = None
    BY <1>1, <1>2, <1>12 DEF Solo, AtView, Target
  <2>3. AtConfig(req[w])'
    BY <1>2, <1>4, <1>5, <1>12, <2>1 DEF AtConfig, Unlinked
  <2>4. AtView(req[w])'
    BY <2>1, <2>2 DEF AtView
  <2>5. AtPassport(req[w])'
    BY <2>1 DEF AtPassport
  <2> QED BY <1>8, <1>11, <2>3, <2>4, <2>5 DEF Solo
<1>13. CASE cfg.passport # None
  <2>1. Return(w, req[w])
    BY <1>4, <1>13
  <2>2. req[w].row # None => req[w].pk # None /\ Settled(passport[req[w].pk], req[w].blk.tool)
    BY <1>1 DEF Solo, AtView
  <2>3. req[w].row # None => Settled(passport'[config'[l].passport], req[w].blk.tool)
    BY <1>2, <1>4, <1>5, <2>2 DEF Target
  <2>5. config'[l] # None /\ config'[l].passport # None
    BY <1>2, <1>5, <1>13
  <2>6. req'[w].loc = l \/ req[w].op # "view"
    BY <1>1, <2>1, ReturnMoves
  <2>7. req[w].op = "view" => Linked(req[w].loc)'
    BY <2>5, <2>6 DEF Linked
  <2> QED BY <1>1, <1>8, <1>11, <2>1, <2>3, <2>7, ReturnSolo
<1> QED BY <1>12, <1>13

LEMMA LinkSolo ==
    ASSUME Ccx = {}, SerialInv, NEW w \in Workers, Solo(w), LinkPassport(w)
    PROVE  Solo(w)'
<1> DEFINE l == req[w].loc
           b == block[l]
<1> USE DEF SerialInv, RowsInv, TypeInv
<1>1. req[w] \in Request /\ Shape(req[w]) /\ req[w].pc = "link"
  BY AtTyped DEF LinkPassport
<1>2. /\ l \in Locations /\ l \in Main /\ Home(l) = l /\ b # None /\ b \in BlockRow
      /\ Unlinked(l, req[w].cfg) /\ req[w].row = None
  BY <1>1, Plain DEF Shape, Solo, AtConfig, AtView, TypeOK
<1>3. UNCHANGED <<config, block>>
  BY DEF LinkPassport
<1>4. (\A p \in PassportId : ~Orphan(p)) /\ (\A m \in Main : Agree(m))
  BY <1>1, NothingToTend
<1>5. ASSUME NEW pk \in PassportId,
             req'[w].pc \in {"attach", "keep"}, req'[w].pk = pk, req'[w].loc = l,
             req'[w].cfg = req[w].cfg, req'[w].row = None,
             passport'[pk] # None,
             req'[w].pc = "attach" => (b.pid # None => passport'[pk].pid = b.pid),
             req'[w].pc = "keep" => passport'[pk].pid = req'[w].blk.pid,
             \A p \in PassportId \ {pk} : passport'[p] = passport[p],
             \A p \in PassportId : passport[p] # None => passport'[p] = passport[p]
      PROVE  Solo(w)'
  <2>1. pk # None /\ Target(req'[w]) = pk
    BY <1>5, NoneAssumption DEF Target
  <2>2. \A p \in PassportId : Orphan(p)' => p = pk
    BY <1>3, <1>4, <1>5 DEF Orphan, Users
  <2>3. \A m \in Main : Agree(m)'
    <3> SUFFICES ASSUME NEW m \in Main, Linked(m)' PROVE Agree(m)'
      BY DEF Agree
    <3>1. config[m].passport \in PassportId /\ passport[config[m].passport] # None
      BY <1>3 DEF Linked, NoDanglingPassport, TypeOK, ConfigRow, Main
    <3> QED BY <1>3, <1>4, <1>5, <3>1 DEF Agree, Linked
  <2>4. AtConfig(req[w])'
    BY <1>2, <1>3, <1>5 DEF AtConfig, Unlinked
  <2>5. AtPassport(req[w])'
    BY <1>3, <1>5 DEF AtPassport, Fits
  <2>6. AtView(req[w])'
    BY <1>5 DEF AtView
  <2>7. \A p \in PassportId : Orphan(p)' => Tends(req'[w], p)
    BY <1>5, <2>1, <2>2 DEF Tends
  <2> QED BY <2>3, <2>4, <2>5, <2>6, <2>7 DEF Solo, Tends, Target
<1>6. ASSUME NEW pk \in PassportId, b.pid # None, GetOrCreatePassport(pk, b.pid, l),
             Set(w, [req[w] EXCEPT !.pc = "attach", !.pk = pk])
      PROVE  Solo(w)'
  <2>1. b.pid \in PassportId
    BY <1>2, <1>6 DEF BlockRow
  <2>2. /\ passport'[pk] # None /\ passport'[pk].pid = b.pid
        /\ \A p \in PassportId \ {pk} : passport'[p] = passport[p]
        /\ \A p \in PassportId : passport[p] # None => passport'[p] = passport[p]
    BY <1>2, <1>6, <2>1, Obtained, ValuesAssumption
  <2>3. req'[w] = [req[w] EXCEPT !.pc = "attach", !.pk = pk]
    BY <1>6, SetMoves
  <2>4. /\ req'[w].pc = "attach" /\ req'[w].pk = pk /\ req'[w].loc = l
        /\ req'[w].cfg = req[w].cfg /\ req'[w].row = None
    BY <1>1, <1>2, <2>3 DEF Request
  <2> QED BY <1>5, <2>2, <2>4
<1>7. ASSUME NEW pk \in PassportId, Mint(pk, pk, Blank, Blank, l),
             Set(w, [req[w] EXCEPT !.pc = "keep", !.pk = pk, !.blk = [b EXCEPT !.pid = pk]])
      PROVE  Solo(w)'
  <2>1. /\ passport'[pk] # None /\ passport'[pk].pid = pk
        /\ \A p \in PassportId \ {pk} : passport'[p] = passport[p]
        /\ \A p \in PassportId : passport[p] # None => passport'[p] = passport[p]
    BY <1>2, <1>7, Obtained, ValuesAssumption
  <2>2. req'[w] = [req[w] EXCEPT !.pc = "keep", !.pk = pk, !.blk = [b EXCEPT !.pid = pk]]
    BY <1>7, SetMoves
  <2>3. /\ req'[w].pc = "keep" /\ req'[w].pk = pk /\ req'[w].loc = l
        /\ req'[w].cfg = req[w].cfg /\ req'[w].row = None /\ req'[w].blk = [b EXCEPT !.pid = pk]
    BY <1>1, <1>2, <2>2 DEF Request
  <2>4. req'[w].blk.pid = pk
    BY <1>2, <2>3 DEF BlockRow
  <2> QED BY <1>5, <2>1, <2>3, <2>4
<1> QED BY <1>2, <1>6, <1>7 DEF LinkPassport

LEMMA AttachSolo ==
    ASSUME Ccx = {}, SerialInv, NEW w \in Workers, Solo(w), AttachPassport(w)
    PROVE  Solo(w)'
<1> DEFINE l == req[w].loc
           pk == req[w].pk
           r == [req[w] EXCEPT !.cfg = config'[l]]
<1> USE DEF SerialInv, RowsInv, TypeInv
<1>1. req[w] \in Request /\ Shape(req[w]) /\ req[w].pc = "attach"
  BY AtTyped DEF AttachPassport
<1>2. /\ l \in Locations /\ l \in Main /\ Unlinked(l, req[w].cfg) /\ Fits(pk, l)
      /\ req[w].row = None /\ pk \in PassportId /\ pk # None
  BY <1>1, Plain, NoneAssumption DEF Shape, Request, Solo, AtConfig, AtPassport, AtView
<1>3. /\ config' = [config EXCEPT ![l].passport = pk] /\ Return(w, r)
      /\ UNCHANGED <<passport, block>>
  BY <1>2 DEF AttachPassport, Unlinked, Fits, ForeignKeyOK
<1>4. /\ config'[l] # None /\ config'[l].passport = pk
      /\ \A m \in Locations \ {l} : config'[m] = config[m]
  <2>1. config[l] \in ConfigRow
    BY <1>2 DEF Unlinked, TypeOK
  <2>2. [config[l] EXCEPT !.passport = pk] \in ConfigRow
    BY <1>2, <2>1 DEF ConfigRow
  <2>3. config'[l] = [config[l] EXCEPT !.passport = pk]
    BY <1>2, <1>3 DEF TypeOK
  <2>4. config'[l].passport = pk
    BY <2>1, <2>3 DEF ConfigRow
  <2>5. config'[l] # None
    BY <2>2, <2>3, NoneAssumption DEF ConfigRow
  <2> QED BY <1>3, <2>4, <2>5 DEF TypeOK
<1>5. ~Linked(l)
  BY <1>2 DEF Linked, Unlinked
<1>6. \A p \in PassportId : Orphan(p)' => p # pk /\ Orphan(p)
  BY <1>2, <1>3, <1>4, <1>5, NowLinked
<1>7. Target(req[w]) = pk
  BY <1>2 DEF Target
<1>8. \A p \in PassportId : ~Orphan(p)'
  BY <1>1, <1>6, <1>7 DEF Solo, Tends
<1>9. \A m \in Main : Agree(m)'
  <2>1. \A m \in Main : Agree(m)
    BY <1>1 DEF Solo
  <2>2. \A m \in Main \ {l} : Agree(m)'
    BY <1>3, <1>4, <2>1, OthersAgree
  <2> SUFFICES ASSUME NEW m \in Main, m = l PROVE Agree(m)'
    BY <2>2
  <2>3. config'[m].passport = pk /\ Fits(pk, m)
    BY <1>2, <1>4
  <2> HIDE DEF l, pk
  <2> QED BY <1>3, <2>3 DEF Agree, Fits
<1>10. r \in Request /\ r.loc = l /\ r.blk = req[w].blk /\ r.row = req[w].row
  <2>1. config' \in [Locations -> ConfigRow \cup {None}]
    <3>1. TypeInv'
      BY AttachPassportTyped
    <3> QED BY <3>1 DEF TypeOK
  <2> QED BY <1>1, <1>2, <2>1 DEF Request
<1> HIDE DEF r
<1> QED BY <1>2, <1>3, <1>8, <1>9, <1>10, ReturnSolo

\* The steps that change no passport, configuration or block
LEMMA MoveSolo ==
    ASSUME Ccx = {}, SerialInv, NEW w \in Workers, Solo(w),
           Finish(w) \/ ReadSource(w) \/ CheckTarget(w) \/ ScanOrphans(w) \/ SaveKeys(w)
    PROVE  Solo(w)'
<1> DEFINE l == req[w].loc
<1> USE DEF SerialInv, RowsInv, TypeInv
<1>1. req[w] \in Request /\ Shape(req[w])
  BY DEF ReqOK
<1>2. UNCHANGED <<passport, config, block>>
  BY SaveKeysOnward DEF Finish, ReadSource, CheckTarget, ScanOrphans, SaveKeys, db
<1>3. \A m \in Main : Agree(m)'
  BY <1>2, RowsStill DEF Solo, Finish, ReadSource, CheckTarget, ScanOrphans, SaveKeys, AtKeys, At
<1>4. ASSUME ~At(w, "scan") PROVE \A p \in PassportId : ~Orphan(p)'
  BY <1>2, <1>4, NothingToTend, RowsStill
     DEF Finish, ReadSource, CheckTarget, ScanOrphans, SaveKeys, AtKeys, At
<1>5. CASE Stop(w) /\ ~At(w, "scan")
  BY <1>3, <1>4, <1>5, StoppedSolo
<1>6. CASE AtKeys(w) /\ Go(w, "again")
  <2>1. req'[w].pc = "again"
    BY <1>6, GoMoves
  <2>2. \A p \in PassportId : ~Orphan(p)'
    BY <1>4, <1>6 DEF AtKeys, At
  <2> QED BY <1>3, <2>1, <2>2 DEF Solo, AtConfig, AtPassport, AtView
<1>7. ASSUME NEW src \in req[w].locs, At(w, "source"), config[src] # None,
             Set(w, [req[w] EXCEPT !.pc = "target", !.cfg = config[src]])
      PROVE  Solo(w)'
  <2>1. req'[w] = [req[w] EXCEPT !.pc = "target", !.cfg = config[src]]
    BY <1>7, SetMoves
  <2>2. /\ req'[w].pc = "target" /\ req'[w].loc = l /\ req'[w].cfg = config[src]
        /\ req'[w].pk = None /\ req'[w].row = None
    BY <1>1, <1>7, <2>1 DEF Request, At, Solo, AtPassport, AtView
  <2>3. /\ src \in Main /\ src \in Locations /\ block[src] # None /\ block[src].pid = block[l].pid
        /\ Agree(src) /\ Main = Locations
    BY <1>1, <1>7, Plain DEF Request, At, Solo, AtPassport
  <2>4. Target(req'[w]) = config[src].passport
    BY <2>2 DEF Target
  <2>5. config[src].passport # None =>
           /\ passport[config[src].passport] # None
           /\ block[l].pid # None => passport[config[src].passport].pid = block[l].pid
    BY <1>7, <2>3 DEF Agree, Linked, NoDanglingPassport
  <2>6. Target(req'[w]) # None => Fits(Target(req[w]), req[w].loc)'
    BY <1>2, <2>2, <2>4, <2>5 DEF Fits, Target
  <2>7. AtPassport(req[w])'
    BY <2>2, <2>6 DEF AtPassport, Target
  <2>8. \A p \in PassportId : ~Orphan(p)'
    BY <1>4, <1>7 DEF At
  <2> QED BY <1>3, <2>2, <2>7, <2>8 DEF Solo, AtConfig, AtView
<1>8. CASE /\ At(w, "target") /\ config[l] = None
           /\ Set(w, [req[w] EXCEPT !.pc = "sync", !.cfg.id = ids'])
  <2>1. req'[w] = [req[w] EXCEPT !.pc = "sync", !.cfg.id = ids']
    BY <1>8, SetMoves
  <2>2. req[w].cfg \in ConfigRow /\ req[w].op = "duplicate" /\ l \in Locations
    BY <1>1, <1>8 DEF Request, Shape, At, InOperation
  <2>3. /\ req'[w].pc = "sync" /\ req'[w].loc = l /\ req'[w].cfg.passport = req[w].cfg.passport
        /\ req'[w].pk = None /\ req'[w].row = None /\ req'[w].op = "duplicate"
    BY <1>1, <1>8, <2>1, <2>2 DEF Request, ConfigRow, At, Solo, AtPassport, AtView
  <2>4. req[w].cfg.passport # None => Fits(req[w].cfg.passport, l)
    BY <1>8 DEF At, Solo, AtPassport, Target
  <2>5. Target(req'[w]) = req[w].cfg.passport
    BY <2>3 DEF Target
  <2>6. Target(req'[w]) # None => Fits(Target(req[w]), req[w].loc)'
    BY <1>2, <2>3, <2>4, <2>5 DEF Fits, Target
  <2>7. ~Linked(req[w].loc)'
    BY <1>2, <1>8, <2>3 DEF Linked
  <2>8. AtPassport(req[w])'
    BY <2>3, <2>6, <2>7 DEF AtPassport, Target
  <2>9. \A p \in PassportId : ~Orphan(p)'
    BY <1>4, <1>8 DEF At
  <2>10. AtConfig(req[w])'
    BY <1>2, <1>8, <2>3 DEF AtConfig
  <2>11. AtView(req[w])'
    BY <2>3 DEF AtView
  <2> QED BY <1>3, <2>8, <2>9, <2>10, <2>11 DEF Solo
<1>9. CASE ScanOrphans(w)
  <2>1. req'[w] = [req[w] EXCEPT !.pc = "purge",
                       !.doomed = {p \in PassportId : passport[p] # None /\ Users(p) = {}}]
    BY <1>9, SetMoves DEF ScanOrphans
  <2>2. /\ req'[w].pc = "purge"
        /\ req'[w].doomed = {p \in PassportId : passport[p] # None /\ Users(p) = {}}
    BY <1>1, <2>1 DEF Request
  <2>3. \A p \in PassportId : Orphan(p)' => p \in req'[w].doomed
    BY <1>2, <2>2, RowsStill DEF Orphan
  <2>4. \A p \in PassportId : Orphan(p)' => Tends(req'[w], p)
    BY <2>2, <2>3 DEF Tends
  <2> QED BY <1>3, <2>2, <2>4 DEF Solo, AtConfig, AtPassport, AtView, Tends, Target
<1>10. CASE Stop(w) /\ At(w, "scan")
  BY <1>9, <1>10 DEF Finish, ReadSource, CheckTarget, SaveKeys, AtKeys, At
<1> QED BY <1>5, <1>6, <1>7, <1>8, <1>9, <1>10 DEF Finish, ReadSource, CheckTarget, SaveKeys, AtKeys

LEMMA DropSolo ==
    ASSUME Ccx = {}, SerialInv, NEW w \in Workers, Solo(w), DropConfigs(w)
    PROVE  Solo(w)'
<1> USE DEF SerialInv, RowsInv, TypeInv
<1>1. req'[w].pc = "scan"
  BY GoMoves DEF DropConfigs
<1>2. \A l \in Locations : config'[l] \in {None, config[l]}
  BY DEF DropConfigs
<1>3. \A l \in Main : Agree(l)
  BY DEF DropConfigs, At, Solo
<1>4. \A l \in Main : Agree(l)'
  BY <1>2, <1>3 DEF DropConfigs, Agree, Linked, Main
<1> QED BY <1>1, <1>4 DEF Solo, Tends, AtConfig, AtPassport, AtView

\* Deleting passports no configuration needs, or whose users lose them
LEMMA DeletedAgree ==
    ASSUME SerialInv, NEW P, DeletePassports(P), UNCHANGED block, \A l \in Main : Agree(l)
    PROVE  /\ \A l \in Main : Agree(l)'
           /\ \A p \in PassportId : Orphan(p)' => Orphan(p) /\ p \notin P
<1> USE DEF SerialInv, RowsInv, TypeInv
<1>1. ASSUME NEW l \in Locations, Linked(l)'
      PROVE  /\ config'[l] = config[l] /\ config[l].passport \in PassportId
             /\ passport'[config[l].passport] = passport[config[l].passport]
  <2>1. CASE config[l] # None /\ config[l].passport \in P
    <3>1. config'[l] = [config[l] EXCEPT !.passport = None] /\ config[l] \in ConfigRow
      BY <2>1 DEF DeletePassports, TypeOK
    <3>2. config'[l].passport = None
      BY <3>1 DEF ConfigRow
    <3> QED BY <1>1, <3>2 DEF Linked
  <2>2. CASE ~(config[l] # None /\ config[l].passport \in P)
    <3>1. config'[l] = config[l]
      BY <2>2 DEF DeletePassports
    <3>2. config[l].passport \in PassportId /\ config[l].passport \notin P
      BY <1>1, <2>2, <3>1 DEF Linked, TypeOK, ConfigRow
    <3> QED BY <3>1, <3>2 DEF DeletePassports
  <2> QED BY <2>1, <2>2
<1>2. ASSUME NEW l \in Main PROVE Agree(l)'
  BY <1>1, <1>2 DEF Agree, Linked, Main
<1>3. ASSUME NEW p \in PassportId, Orphan(p)' PROVE Orphan(p) /\ p \notin P
  <2>1. p \notin P /\ passport[p] # None
    BY <1>3 DEF Orphan, DeletePassports
  <2>2. \A l \in Locations : config[l] # None /\ config[l].passport = p => config'[l] = config[l]
    BY <2>1 DEF DeletePassports
  <2> QED BY <1>3, <2>1, <2>2 DEF Orphan, Users
<1> QED BY <1>2, <1>3

LEMMA PurgeSolo ==
    ASSUME Ccx = {}, SerialInv, NEW w \in Workers, Solo(w), PurgeOrphans(w)
    PROVE  Solo(w)'
<1> USE DEF SerialInv, RowsInv, TypeInv
<1>1. req[w] \in Request /\ Shape(req[w]) /\ req[w].pc = "purge"
  BY AtTyped DEF PurgeOrphans
<1>2. /\ \A l \in Main : Agree(l)'
      /\ \A p \in PassportId : Orphan(p)' => Orphan(p) /\ p \notin req[w].doomed
  BY <1>1, DeletedAgree DEF PurgeOrphans, Solo
<1>3. \A p \in PassportId : ~Orphan(p)'
  BY <1>1, <1>2 DEF Solo, Tends
<1>4. CASE Stop(w)
  BY <1>2, <1>3, <1>4, StoppedSolo
<1>5. CASE Set(w, [req[w] EXCEPT !.pc = "remove", !.doomed = {}])
  <2>1. req'[w] = [req[w] EXCEPT !.pc = "remove", !.doomed = {}]
    BY <1>5, SetMoves
  <2>2. req'[w].pc = "remove"
    BY <1>1, <2>1 DEF Request
  <2> QED BY <1>2, <1>3, <2>2 DEF Solo, AtConfig, AtPassport, AtView
<1> QED BY <1>4, <1>5 DEF PurgeOrphans

LEMMA RemoveSolo ==
    ASSUME Ccx = {}, SerialInv, NEW w \in Workers, Solo(w), RemoveBlocks(w)
    PROVE  Solo(w)'
<1> USE DEF SerialInv, RowsInv, TypeInv
<1>1. req[w] \in Request /\ Shape(req[w]) /\ req[w].pc = "remove"
  BY AtTyped DEF RemoveBlocks
<1>2. (\A p \in PassportId : ~Orphan(p)) /\ (\A m \in Main : Agree(m))
  BY <1>1, NothingToTend
<1>3. UNCHANGED <<passport, config>> /\ \A m \in Main : block'[m] \in {None, block[m]}
  BY DEF RemoveBlocks, db
<1>4. \A p \in PassportId : ~Orphan(p)'
  BY <1>2, <1>3 DEF Orphan, Users
<1>5. \A m \in Main : Agree(m)'
  BY <1>2, <1>3 DEF Agree, Linked
<1>6. req'[w].pc = "drop"
  BY <1>1, SetMoves DEF RemoveBlocks, Request
<1> QED BY <1>4, <1>5, <1>6 DEF Solo, AtConfig, AtPassport, AtView

---------------------------------------------------------------------------

LEMMA StartSolo ==
    ASSUME Ccx = {}, SerialInv, AtRest, NEW w \in Workers,
           \/ \E l \in Locations : StartView(w, l) \/ StartAccess(w, l)
           \/ \E p \in PassportId : StartKeys(w, p)
           \/ \E src, dst \in Main : DuplicateBlock(w, src, dst)
           \/ \E S \in SUBSET Main : StartDelete(w, S)
    PROVE  Solo(w)'
<1> USE DEF SerialInv, RowsInv, TypeInv
<1>1. UNCHANGED <<passport, config>>
  BY DEF StartView, StartAccess, StartKeys, DuplicateBlock, StartDelete, db
<1>2. \A p \in PassportId : ~Orphan(p)'
  BY <1>1 DEF AtRest, Orphan, Users
<1>3. ASSUME NEW r, Set(w, r), \A m \in Main : Agree(m)',
             \/ r.pc \in {"keys", "drop"}
             \/ r.pc = "config" /\ r.pk = None /\ r.row = None
             \/ r.pc = "link" /\ r.row = None /\ Unlinked(r.loc, r.cfg) /\ block'[r.loc] # None
             \/ /\ r.pc = "source" /\ r.pk = None /\ r.row = None
                /\ \A s \in r.locs : block'[s] # None /\ block'[s].pid = block'[r.loc].pid
      PROVE  Solo(w)'
  <2>1. req'[w] = r
    BY <1>3, SetMoves
  <2>2. AtConfig(req[w])'
    BY <1>1, <1>3, <2>1 DEF AtConfig, Unlinked
  <2>3. AtPassport(req[w])'
    BY <1>3, <2>1 DEF AtPassport
  <2>4. AtView(req[w])'
    BY <1>3, <2>1 DEF AtView
  <2> QED BY <1>2, <1>3, <2>2, <2>3, <2>4 DEF Solo
<1>4. UNCHANGED block => \A m \in Main : Agree(m)'
  BY <1>1, RowsStill DEF AtRest
<1>5. ASSUME NEW l \in Locations, StartView(w, l) PROVE Solo(w)'
  <2> DEFINE r == [Idle EXCEPT !.pc = "config", !.op = "view", !.loc = l, !.blk = block[Home(l)]]
  <2>1. r.pc = "config" /\ r.pk = None /\ r.row = None
    BY DEF Idle
  <2>2. Set(w, r) /\ UNCHANGED block
    BY <1>5 DEF StartView
  <2> HIDE DEF r
  <2> QED BY <1>3, <1>4, <2>1, <2>2
<1>6. ASSUME NEW l \in Locations, StartAccess(w, l) PROVE Solo(w)'
  <2> DEFINE r == [Idle EXCEPT !.pc = "link", !.op = "access", !.loc = l, !.cfg = config[l]]
  <2>1. r.pc = "link" /\ r.loc = l /\ r.cfg = config[l] /\ r.row = None
    BY DEF Idle
  <2>2. Set(w, r) /\ UNCHANGED block /\ Unlinked(l, config[l])
    BY <1>6 DEF StartAccess, Unlinked
  <2>3. l \in Main /\ block[l] # None
    BY <2>2, Plain DEF Unlinked
  <2> HIDE DEF r
  <2> QED BY <1>3, <1>4, <2>1, <2>2, <2>3
<1>7. ASSUME NEW p \in PassportId, StartKeys(w, p) PROVE Solo(w)'
  <2> DEFINE r == [Idle EXCEPT !.pc = "keys", !.op = "keys", !.pk = p, !.row = passport[p]]
  <2>1. r.pc = "keys"
    BY DEF Idle
  <2>2. Set(w, r) /\ UNCHANGED block
    BY <1>7 DEF StartKeys
  <2> HIDE DEF r
  <2> QED BY <1>3, <1>4, <2>1, <2>2
<1>8. ASSUME NEW src \in Main, NEW dst \in Main, DuplicateBlock(w, src, dst) PROVE Solo(w)'
  <2> DEFINE r == [Idle EXCEPT !.pc = "source", !.op = "duplicate", !.loc = dst, !.locs = {src}]
  <2>1. r.pc = "source" /\ r.loc = dst /\ r.locs = {src} /\ r.pk = None /\ r.row = None
    BY DEF Idle
  <2>2. /\ block'[src] # None /\ block'[dst] = block'[src] /\ Set(w, r) /\ config[dst] = None
        /\ \A m \in Main \ {dst} : block'[m] = block[m]
    BY <1>8 DEF DuplicateBlock, TypeOK
  <2>3. \A m \in Main : Agree(m)'
    BY <1>1, <2>2 DEF AtRest, Agree, Linked
  <2> HIDE DEF r
  <2> QED BY <1>3, <2>1, <2>2, <2>3
<1>9. ASSUME NEW S \in SUBSET Main, StartDelete(w, S) PROVE Solo(w)'
  <2> DEFINE r == [Idle EXCEPT !.pc = "drop", !.op = "predelete", !.locs = S]
  <2>1. r.pc = "drop"
    BY DEF Idle
  <2>2. Set(w, r) /\ UNCHANGED block
    BY <1>9 DEF StartDelete
  <2> HIDE DEF r
  <2> QED BY <1>3, <1>4, <2>1, <2>2
<1> QED BY <1>5, <1>6, <1>7, <1>8, <1>9

LEMMA EditRest ==
    ASSUME Ccx = {}, SerialInv, AtRest,
           \/ \E l \in Main : \/ \E t \in ToolSettings : EditTool(l, t)
                              \/ \E s \in Stores : EditStore(l, s)
           \/ \E src, dst \in Main : PasteBlock(src, dst)
           \/ \E p \in PassportId : AdminDeletePassport(p)
    PROVE  AtRest'
<1> USE DEF SerialInv, RowsInv, TypeInv
<1>1. ASSUME UNCHANGED <<passport, config>>,
             \A m \in Main : \/ block[m] # None /\ block'[m].pid = block[m].pid
                             \/ block'[m] = block[m] \/ config[m] = None
      PROVE  AtRest'
  BY <1>1 DEF AtRest, Orphan, Users, Agree, Linked
<1>2. ASSUME NEW l \in Main, NEW t \in ToolSettings, EditTool(l, t) PROVE AtRest'
  <2>1. \A m \in Main : block'[m] = IF m = l THEN [block[l] EXCEPT !.tool = t] ELSE block[m]
    BY <1>2 DEF EditTool, TypeOK
  <2>2. block[l] # None /\ block'[l].pid = block[l].pid
    BY <1>2, <2>1 DEF EditTool, TypeOK, BlockRow
  <2> QED BY <1>1, <1>2, <2>1, <2>2 DEF EditTool, db
<1>3. ASSUME NEW l \in Main, NEW s \in Stores, EditStore(l, s) PROVE AtRest'
  <2>1. \A m \in Main : block'[m] = IF m = l THEN [block[l] EXCEPT !.store = s] ELSE block[m]
    BY <1>3 DEF EditStore, TypeOK
  <2>2. block[l] # None /\ block'[l].pid = block[l].pid
    BY <1>3, <2>1 DEF EditStore, TypeOK, BlockRow
  <2> QED BY <1>1, <1>3, <2>1, <2>2 DEF EditStore, db
<1>4. ASSUME NEW src \in Main, NEW dst \in Main, PasteBlock(src, dst) PROVE AtRest'
  <2>1. \A m \in Main \ {dst} : block'[m] = block[m]
    BY <1>4 DEF PasteBlock, TypeOK
  <2> QED BY <1>1, <1>4, <2>1 DEF PasteBlock, db
<1>5. ASSUME NEW p \in PassportId, AdminDeletePassport(p) PROVE AtRest'
  BY <1>5, DeletedAgree DEF AdminDeletePassport, AtRest
<1> QED BY <1>2, <1>3, <1>4, <1>5

LEMMA IdleSolo ==
    ASSUME NEW w \in Workers
    PROVE  /\ AtRest /\ At(w, "idle") => Solo(w)
           /\ Solo(w) /\ At(w, "idle") => AtRest
BY DEF AtRest, Solo, At, AtConfig, AtPassport, AtView, Tends

LEMMA AloneInit == Init => AloneInv
<1> SUFFICES ASSUME Init PROVE AloneInv
  OBVIOUS
<1>1. PICK f \in LegacyNumbers :
    /\ block = [l \in Main |-> IF l \in Present
                  THEN [pid |-> None, tool |-> NoSettings, store |-> ON_XBLOCK] ELSE None]
    /\ config = [l \in Locations |-> IF l \in Legacy
                  THEN [id |-> f[l], passport |-> f[l], store |-> ON_XBLOCK] ELSE None]
    /\ passport = [p \in PassportId |-> IF \E l \in Legacy : f[l] = p
                  THEN [pid |-> p, pub |-> Blank, url |-> Blank] ELSE None]
    /\ req = [w \in Workers |-> Idle]
  BY DEF Init
<1>2. \A m \in Main : Agree(m)
  BY <1>1 DEF Agree
<1>3. ASSUME NEW p \in PassportId, passport[p] # None PROVE Users(p) # {}
  <2>1. PICK l \in Legacy : f[l] = p
    BY <1>1, <1>3
  <2>2. l \in Locations
    BY LocationsAssumption DEF Main
  <2>3. config \in [Locations -> ConfigRow \cup {None}]
    BY RowsInit DEF RowsInv, TypeInv, TypeOK
  <2>4. config[l] = [id |-> f[l], passport |-> p, store |-> ON_XBLOCK]
    BY <1>1, <2>1, <2>2
  <2>5. [id |-> f[l], passport |-> p, store |-> ON_XBLOCK] \in ConfigRow
    BY <2>1, ValuesAssumption DEF ConfigRow, LegacyNumbers, PassportId
  <2>6. config[l] # None /\ config[l].passport = p
    BY <2>4, <2>5, NoneAssumption DEF ConfigRow
  <2> QED BY <2>2, <2>6 DEF Users
<1>4. AtRest
  BY <1>2, <1>3 DEF AtRest, Orphan
<1>5. \A w \in Workers : At(w, "idle")
  BY <1>1 DEF At, Idle
<1> QED BY <1>4, <1>5, SerialInit, IdleSolo DEF AloneInv

LEMMA AloneStep ==
    ASSUME Serial, Ccx = {}, AloneInv, [Next]_vars
    PROVE  AloneInv'
<1>1. SerialInv /\ SerialInv' /\ ReqOK
  BY SerialStep DEF AloneInv, SerialInv, RowsInv, TypeInv
<1>2. ASSUME NEW w \in Workers, Solo(w)', \A v \in Workers \ {w} : At(v, "idle") /\ req'[v] = req[v]
      PROVE  AloneInv'
  <2>1. AllIdle' => AtRest'
    <3>1. Solo(w)' /\ At(w, "idle")' => AtRest'
      BY DEF AtRest, Solo, At, AtConfig, AtPassport, AtView, Tends
    <3> QED BY <1>2, <3>1 DEF AllIdle
  <2>2. ASSUME NEW v \in Workers, v # w, (\A u \in Workers \ {v} : At(u, "idle"))'
        PROVE  Solo(v)'
    <3>1. At(v, "idle")' /\ AllIdle'
      BY <1>2, <2>2 DEF At, AllIdle
    <3> QED BY <2>1, <3>1 DEF AtRest, Solo, At, AtConfig, AtPassport, AtView, Tends
  <2> QED BY <1>1, <1>2, <2>1, <2>2 DEF AloneInv
<1>3. ASSUME NEW w \in Workers, Step(w) PROVE AloneInv'
  <2>1. \A v \in Workers \ {w} : At(v, "idle") /\ req'[v] = req[v]
    BY <1>1, <1>3, OthersIdle, OthersStay
  <2>2. Solo(w)
    BY <2>1 DEF AloneInv
  <2>3. Solo(w)'
    BY <1>1, <1>3, <2>2, ConfigFoundSolo, ConfigCreatedSolo, EnsureSolo, CountSolo, UpdateSolo,
       SplitSolo, KeepSolo, SyncSolo, SaveSolo, LinkSolo, AttachSolo, MoveSolo,
       DropSolo, PurgeSolo, RemoveSolo DEF Step
  <2> QED BY <1>2, <2>1, <2>3
<1>4. ASSUME NEW w \in Workers,
             \/ \E l \in Locations : StartView(w, l) \/ StartAccess(w, l)
             \/ \E p \in PassportId : StartKeys(w, p)
             \/ \E src, dst \in Main : DuplicateBlock(w, src, dst)
             \/ \E S \in SUBSET Main : StartDelete(w, S)
      PROVE  AloneInv'
  <2>1. \A v \in Workers \ {w} : At(v, "idle") /\ req'[v] = req[v]
    BY <1>1, <1>4, OthersIdle, OthersStay
  <2>2. At(w, "idle")
    BY <1>4 DEF StartView, StartAccess, StartKeys, DuplicateBlock, StartDelete, Begin
  <2>3. AtRest
    BY <2>1, <2>2 DEF AloneInv, AllIdle
  <2>4. Solo(w)'
    BY <1>1, <1>4, <2>3, StartSolo
  <2> QED BY <1>2, <2>1, <2>4
<1>5. CASE \/ \E l \in Main : \/ \E t \in ToolSettings : EditTool(l, t)
                              \/ \E s \in Stores : EditStore(l, s)
           \/ \E src, dst \in Main : PasteBlock(src, dst)
           \/ \E p \in PassportId : AdminDeletePassport(p)
  <2>1. UNCHANGED req /\ AllIdle
    BY <1>5 DEF EditTool, EditStore, PasteBlock, AdminDeletePassport, Edit, Quiet, AllIdle
  <2>2. AtRest'
    BY <1>1, <1>5, <2>1, EditRest DEF AloneInv
  <2>3. ASSUME NEW w \in Workers PROVE Solo(w)'
    BY <2>1, <2>2 DEF AtRest, Solo, At, AllIdle, AtConfig, AtPassport, AtView, Tends
  <2> QED BY <1>1, <2>2, <2>3 DEF AloneInv
<1>6. CASE UNCHANGED vars
  <2>1. UNCHANGED <<passport, config, block, req>>
    BY <1>6 DEF vars
  <2>2. AtRest' <=> AtRest
    BY <2>1, RowsStill DEF AtRest
  <2>3. ASSUME NEW w \in Workers, Solo(w) PROVE Solo(w)'
    BY <2>1, <2>3 DEF Solo, AtConfig, AtPassport, AtView, Tends, Orphan, Agree, Users, Linked,
       Fits, Target, SharedElsewhere, Settled, Unlinked
  <2> QED BY <1>1, <2>1, <2>2, <2>3 DEF AloneInv, AllIdle, At
<1> QED BY <1>3, <1>4, <1>5, <1>6 DEF Next

LEMMA AloneAlways ==
    ASSUME Serial, Ccx = {}
    PROVE  Spec => []AloneInv
<1>1. AloneInv /\ [Next]_vars => AloneInv'
  BY AloneStep
<1> QED BY <1>1, AloneInit, PTL DEF Spec

\* Requests one at a time, blocks that no custom course shows: a view that
\* compared the keys leaves the block linked to a passport with the keys its
\* mode selects, whether it updated the passport in place, split it off or
\* found the keys in place (_ensure_lti_passport, api.py).
THEOREM ViewsSettle ==
    ASSUME Serial, Ccx = {}
    PROVE  Spec => []ViewSettles
<1>1. AloneInv => ViewSettles
  <2> SUFFICES ASSUME AloneInv, NEW w \in Workers, At(w, "returned"), req[w].row # None
               PROVE  /\ Linked(req[w].loc)
                      /\ Settled(passport[config[req[w].loc].passport], req[w].blk.tool)
    BY DEF ViewSettles, Settled
  <2>1. \A v \in Workers \ {w} : At(v, "idle")
    BY DEF AloneInv, SerialInv, Lone, At
  <2> QED BY <2>1 DEF AloneInv, Solo, AtView, At
<1> QED BY <1>1, AloneAlways, PTL

\* Requests one at a time, no custom course: the id that a block carries is
\* that of the passport its configuration uses, whenever no request runs,
\* although the block and the two rows are written by separate statements.
THEOREM BlocksFollowConfigurations ==
    ASSUME Serial, Ccx = {}
    PROVE  Spec => []BlockFollowsConfig
<1>1. AloneInv => BlockFollowsConfig
  BY DEF AloneInv, AtRest, Agree, BlockFollowsConfig
<1> QED BY <1>1, AloneAlways, PTL

\* Requests one at a time, no custom course: a split, a copy or a deletion
\* leaves no passport without a configuration (signals.py), whenever no
\* request runs.
THEOREM NoPassportIsOrphaned ==
    ASSUME Serial, Ccx = {}
    PROVE  Spec => []NoOrphanPassports
<1>1. AloneInv => NoOrphanPassports
  BY DEF AloneInv, AtRest, Orphan, NoOrphanPassports
<1> QED BY <1>1, AloneAlways, PTL

---------------------------------------------------------------------------
(* A request that runs alone, whatever the others have left *)

\* The configurations that a save is about to write agree with those it found.
Synchronised(r) ==
    \A c \in Ccx :
        /\ r.loc = c /\ config[MainOf[c]] # None => SameFields(r.cfg, config[MainOf[c]])
        /\ r.loc = MainOf[c] /\ config[c] # None => SameFields(config[c], r.cfg)

\* A view that compared keys ends with the passport it compared, or split.
Settles(r) == r.pk # None /\ passport[r.pk] # None /\ Settled(passport[r.pk], r.blk.tool)
LoneView(r) ==
    /\ r.pc \in {"config", "ensure", "source", "target"} => r.row = None
    /\ r.pc \in {"source", "target"} => r.op = "duplicate"
    /\ r.pc \in {"count", "inplace", "split"} => passport[r.pk] = r.row /\ r.cfg.passport = r.pk
    /\ \/ r.pc \in {"ensure", "count", "inplace", "split", "keepsplit"}
       \/ r.pc = "sync" /\ r.op = "view"
       => config[r.loc] = r.cfg
    /\ r.pc \in {"keepsplit", "sync", "save"} /\ r.row # None => Settles(r)
    /\ r.pc = "save" /\ r.row # None /\ r.loc \in Main => r.cfg.passport = r.pk
    /\ r.pc \in {"link", "keep", "attach"} /\ r.loc \in Main => r.row = None
    /\ r.pc = "returned" /\ r.row # None /\ r.loc \in Main
       => Linked(r.loc) /\ Settled(passport[config[r.loc].passport], r.blk.tool)
\* A link is to the passport of the block's id, for the row that was read.
LoneLink(r) ==
    /\ r.pc \in {"link", "keep", "attach"} => config[r.loc] # None /\ config[r.loc].id = r.cfg.id
    /\ r.pc = "keep" => passport[r.pk] # None /\ passport[r.pk].pid = r.blk.pid
    /\ r.pc = "attach" => /\ passport[r.pk] # None /\ block[Home(r.loc)] # None
                          /\ passport[r.pk].pid = block[Home(r.loc)].pid
LoneRest(r) ==
    /\ r.pc = "save" => Synchronised(r)
    /\ r.pc = "purge" => r.doomed = {p \in PassportId : Orphan(p)}
\* What a request that has run alone has read is still so.
Sees(r) == LoneView(r) /\ LoneLink(r) /\ LoneRest(r)

LoneInv ==
    /\ RowsInv /\ alone \in [Workers -> BOOLEAN]
    /\ \A w \in Workers : alone[w] => Sees(req[w])

\* Places at which nothing has been read
LEMMA NothingSeen ==
    ASSUME NEW w \in Workers, req'[w].pc \in {"idle", "drop", "scan", "remove", "keys", "again"}
    PROVE  Sees(req[w])'
BY DEF Sees, LoneView, LoneLink, LoneRest

LEMMA StopSees ==
    ASSUME ReqOK, NEW w \in Workers, Stop(w)
    PROVE  Sees(req[w])'
<1>1. req'[w].pc = "idle"
  BY SetMoves DEF Stop, Idle
<1> QED BY <1>1, NothingSeen

LEMMA FoundSees ==
    ASSUME RowsInv, NEW w \in Workers, Sees(req[w]), ConfigFound(w)
    PROVE  Sees(req[w])'
<1>1. req[w] \in Request /\ req[w].pc = "config" /\ req[w].row = None
  BY AtTyped DEF ConfigFound, RowsInv, Sees, LoneView
<1>2. req'[w] = [req[w] EXCEPT !.pc = "ensure", !.cfg = config[req[w].loc]]
  BY SetMoves DEF ConfigFound, RowsInv, TypeInv
<1>3. /\ req'[w].pc = "ensure" /\ req'[w].loc = req[w].loc /\ req'[w].row = None
      /\ req'[w].cfg = config[req[w].loc]
  BY <1>1, <1>2 DEF Request
<1> QED BY <1>3 DEF ConfigFound, db, Sees, LoneView, LoneLink, LoneRest

LEMMA CreatedSees ==
    ASSUME RowsInv, NEW w \in Workers, Sees(req[w]), ConfigCreated(w)
    PROVE  Sees(req[w])'
<1> DEFINE l == req[w].loc
           row == NewConfig(l)
           Insert(pk) ==
            /\ config' = [PushToChildren(l, row) EXCEPT ![l] = [row EXCEPT !.passport = pk]]
            /\ Set(w, [req[w] EXCEPT !.pc = "ensure", !.cfg = [row EXCEPT !.passport = pk]])
<1>1. req[w] \in Request /\ Shape(req[w]) /\ req[w].pc = "config" /\ req[w].row = None
  BY AtTyped DEF ConfigCreated, RowsInv, Sees, LoneView
<1>2. l \in Locations
  BY <1>1 DEF Shape
<1>3. ASSUME NEW pk, Insert(pk) PROVE Sees(req[w])'
  <2>1. req'[w] = [req[w] EXCEPT !.pc = "ensure", !.cfg = [row EXCEPT !.passport = pk]]
    BY <1>3, SetMoves DEF RowsInv, TypeInv
  <2>2. /\ req'[w].pc = "ensure" /\ req'[w].loc = l /\ req'[w].row = None
        /\ req'[w].cfg = [row EXCEPT !.passport = pk]
    BY <1>1, <2>1 DEF Request
  <2>3. config'[l] = [row EXCEPT !.passport = pk]
    BY <1>2, <1>3 DEF PushToChildren
  <2> QED BY <2>2, <2>3 DEF Sees, LoneView, LoneLink, LoneRest
<1>4. Stop(w) \/ \E pk : Insert(pk)
  BY DEF ConfigCreated
<1> QED BY <1>3, <1>4, StopSees DEF RowsInv, TypeInv

LEMMA EnsureSees ==
    ASSUME RowsInv, NEW w \in Workers, Sees(req[w]), EnsurePassport(w)
    PROVE  Sees(req[w])'
<1> DEFINE cfg == req[w].cfg
<1>1. /\ req[w] \in Request /\ req[w].pc = "ensure" /\ req[w].row = None
      /\ config[req[w].loc] = cfg
  BY AtTyped DEF EnsurePassport, RowsInv, Sees, LoneView
<1>2. UNCHANGED <<passport, config>>
  BY DEF EnsurePassport, db
<1>3. ASSUME req'[w].pc = "sync", req'[w].loc = req[w].loc, req'[w].row = None,
             req'[w].cfg = cfg
      PROVE  Sees(req[w])'
  BY <1>1, <1>2, <1>3 DEF Sees, LoneView, LoneLink, LoneRest
<1>4. CASE Go(w, "sync")
  BY <1>1, <1>3, <1>4, GoMoves DEF RowsInv, TypeInv
<1>5. CASE Set(w, [req[w] EXCEPT !.pc = "sync", !.pk = cfg.passport])
  <2>1. req'[w] = [req[w] EXCEPT !.pc = "sync", !.pk = cfg.passport]
    BY <1>5, SetMoves DEF RowsInv, TypeInv
  <2>2. req'[w].pc = "sync" /\ req'[w].loc = req[w].loc /\ req'[w].row = None /\ req'[w].cfg = cfg
    BY <1>1, <2>1 DEF Request
  <2> QED BY <1>3, <2>2
<1>6. CASE Set(w, [req[w] EXCEPT !.pc = "count", !.pk = cfg.passport,
                                 !.row = passport[cfg.passport]])
  <2>1. req'[w] = [req[w] EXCEPT !.pc = "count", !.pk = cfg.passport,
                                 !.row = passport[cfg.passport]]
    BY <1>6, SetMoves DEF RowsInv, TypeInv
  <2>2. /\ req'[w].pc = "count" /\ req'[w].loc = req[w].loc /\ req'[w].cfg = cfg
        /\ req'[w].pk = cfg.passport /\ req'[w].row = passport[cfg.passport]
    BY <1>1, <2>1 DEF Request
  <2> QED BY <1>1, <1>2, <2>2 DEF Sees, LoneView, LoneLink, LoneRest
<1> QED BY <1>4, <1>5, <1>6, StopSees DEF EnsurePassport, RowsInv, TypeInv

LEMMA CountSees ==
    ASSUME RowsInv, NEW w \in Workers, Sees(req[w]), CountUsers(w)
    PROVE  Sees(req[w])'
<1> DEFINE r == req[w]
<1>1. /\ r \in Request /\ Shape(r) /\ r.pc = "count" /\ config[r.loc] = r.cfg
      /\ passport[r.pk] = r.row /\ r.cfg.passport = r.pk
  BY AtTyped DEF CountUsers, RowsInv, Sees, LoneView
<1>2. UNCHANGED <<passport, config>>
  BY DEF CountUsers, db
<1>3. PICK pc \in {"inplace", "sync", "split"} :
        Go(w, pc) /\ (pc = "sync" => SameKeys(r.blk.tool, r.row) \/ ~KeyMismatch(r.blk.tool, r.row))
  BY DEF CountUsers
<1>4. /\ req'[w].pc = pc /\ req'[w].loc = r.loc /\ req'[w].cfg = r.cfg /\ req'[w].pk = r.pk
      /\ req'[w].row = r.row /\ req'[w].blk = r.blk /\ req'[w].op = r.op
  BY <1>3, GoMoves DEF RowsInv, TypeInv
<1>5. r.pk # None /\ r.row # None /\ r.blk.tool \in Settings
  BY <1>1 DEF Shape, Request, BlockRow
<1>6. pc = "sync" => Settled(r.row, r.blk.tool)
  BY <1>3, <1>5 DEF SameKeys, KeyMismatch, Settled, Settings
<1>7. pc = "sync" => Settles(r)
  BY <1>1, <1>5, <1>6 DEF Settles
<1>8. (pc = "sync" => Settles(req[w]))'
  BY <1>2, <1>4, <1>7 DEF Settles
<1> QED BY <1>1, <1>2, <1>4, <1>8 DEF Sees, LoneView, LoneLink, LoneRest

LEMMA UpdateSees ==
    ASSUME RowsInv, NEW w \in Workers, Sees(req[w]), UpdateInPlace(w)
    PROVE  Sees(req[w])'
<1> DEFINE r == req[w]
           row == [r.row EXCEPT !.pub = r.blk.tool.pub, !.url = r.blk.tool.url]
<1>1. r \in Request /\ Shape(r) /\ r.pc = "inplace" /\ config[r.loc] = r.cfg
  BY AtTyped DEF UpdateInPlace, RowsInv, Sees, LoneView
<1>2. r.pk \in PassportId /\ r.row \in PassportRow /\ r.blk.tool \in Settings /\ r.pk # None
  BY <1>1 DEF Shape, Request, BlockRow
<1>3. row \in PassportRow /\ Settled(row, r.blk.tool) /\ row # None
  BY <1>2, NoneAssumption DEF PassportRow, Settings, Settled
<1>4. CASE passport' = [passport EXCEPT ![r.pk] = row]
           /\ Set(w, [r EXCEPT !.pc = "sync", !.row = row])
  <2>1. req'[w] = [r EXCEPT !.pc = "sync", !.row = row]
    BY <1>4, SetMoves DEF RowsInv, TypeInv
  <2>2. /\ req'[w].pc = "sync" /\ req'[w].loc = r.loc /\ req'[w].cfg = r.cfg
        /\ req'[w].pk = r.pk /\ req'[w].blk = r.blk
    BY <1>1, <2>1 DEF Request
  <2>3. passport'[r.pk] = row
    BY <1>2, <1>4 DEF RowsInv, TypeInv, TypeOK
  <2>4. Settles(req[w])'
    BY <1>2, <1>3, <2>2, <2>3 DEF Settles
  <2> QED BY <1>1, <2>2, <2>4 DEF UpdateInPlace, Sees, LoneView, LoneLink, LoneRest
<1> QED BY <1>4, StopSees DEF UpdateInPlace, RowsInv, TypeInv

LEMMA SplitSees ==
    ASSUME RowsInv, NEW w \in Workers, Sees(req[w]), SplitPassport(w)
    PROVE  Sees(req[w])'
<1> DEFINE r == req[w]
<1>1. r \in Request /\ Shape(r) /\ r.pc = "split" /\ config[r.loc] = r.cfg
  BY AtTyped DEF SplitPassport, RowsInv, Sees, LoneView
<1>2. PICK pk \in PassportId :
        /\ Mint(pk, pk, r.blk.tool.pub, r.blk.tool.url, r.loc)
        /\ Set(w, [r EXCEPT !.pc = "keepsplit", !.pk = pk, !.blk.pid = pk])
  BY DEF SplitPassport
<1>3. req'[w] = [r EXCEPT !.pc = "keepsplit", !.pk = pk, !.blk.pid = pk]
  BY <1>2, SetMoves DEF RowsInv, TypeInv
<1>4. r.blk \in BlockRow
  BY <1>1 DEF Shape, Request
<1>5. /\ req'[w].pc = "keepsplit" /\ req'[w].loc = r.loc /\ req'[w].cfg = r.cfg
      /\ req'[w].pk = pk /\ req'[w].blk.tool = r.blk.tool
  BY <1>1, <1>3, <1>4 DEF Request, BlockRow
<1>6. passport'[pk] = [pid |-> pk, pub |-> r.blk.tool.pub, url |-> r.blk.tool.url]
  BY <1>2 DEF Mint, RowsInv, TypeInv, TypeOK
<1>7. passport'[pk] \in PassportRow /\ Settled(passport'[pk], r.blk.tool)
  BY <1>4, <1>6 DEF Settled, BlockRow, PassportRow, Settings
<1>8. Settles(req[w])'
  BY <1>5, <1>7, NoneAssumption DEF Settles, PassportRow
<1> QED BY <1>1, <1>5, <1>8 DEF SplitPassport, Sees, LoneView, LoneLink, LoneRest

LEMMA KeepSees ==
    ASSUME RowsInv, NEW w \in Workers, Sees(req[w]), KeepSplit(w) \/ KeepLink(w)
    PROVE  Sees(req[w])'
<1> DEFINE r == req[w]
           h == Home(r.loc)
<1>1. r \in Request /\ Shape(r) /\ r.pc \in {"keepsplit", "keep"}
  BY AtTyped DEF KeepSplit, KeepLink, RowsInv
<1>2. r.blk # None /\ h \in Main
  BY <1>1, HomeTyped DEF Shape
<1>3. PICK pc \in {"sync", "attach"} :
        /\ SaveBlock(w, pc) /\ UNCHANGED <<passport, config>>
        /\ r.pc = IF pc = "sync" THEN "keepsplit" ELSE "keep"
  BY <1>1 DEF KeepSplit, KeepLink, At, db
<1>4. CASE block[h] # None /\ block' = [block EXCEPT ![h] = r.blk] /\ Go(w, pc)
  <2>1. /\ req'[w].pc = pc /\ req'[w].loc = r.loc /\ req'[w].cfg = r.cfg /\ req'[w].pk = r.pk
        /\ req'[w].row = r.row /\ req'[w].blk = r.blk
    BY <1>4, GoMoves DEF RowsInv, TypeInv
  <2>2. block'[h] = r.blk
    BY <1>2, <1>4 DEF RowsInv, TypeInv, TypeOK
  <2>3. pc = "sync" /\ r.row # None => Settles(r)
    BY <1>3 DEF Sees, LoneView
  <2>4. (pc = "sync" /\ req[w].row # None => Settles(req[w]))'
    BY <1>3, <2>1, <2>3 DEF Settles
  <2>5. CASE pc = "sync"
    BY <1>3, <2>1, <2>4, <2>5 DEF Sees, LoneView, LoneLink, LoneRest
  <2>6. CASE pc = "attach"
    BY <1>2, <1>3, <2>1, <2>2, <2>6 DEF Sees, LoneView, LoneLink, LoneRest
  <2> QED BY <2>5, <2>6
<1> QED BY <1>3, <1>4, StopSees DEF SaveBlock, RowsInv, TypeInv

LEMMA SyncSees ==
    ASSUME RowsInv, NEW w \in Workers, Sees(req[w]), SyncConfigurations(w)
    PROVE  Sees(req[w])'
<1> DEFINE r == req[w]
           l == req[w].loc
           new == Updated(req[w])
<1>1. r \in Request /\ Shape(r) /\ r.pc = "sync"
  BY AtTyped DEF SyncConfigurations, RowsInv
<1>2. l \in Locations /\ r.cfg # None /\ r.cfg \in ConfigRow
  BY <1>1 DEF Shape, Request
<1>3. new \in ConfigRow /\ (r.pk # None => new.passport = r.pk)
  BY <1>1, <1>2, UpdatedTyped DEF Request, Updated, ConfigRow
<1>4. UNCHANGED <<passport, block>> /\ (r.row # None => Settles(r))
  BY <1>1 DEF SyncConfigurations, Sees, LoneView
<1>5. ASSUME NEW cfg, Set(w, [r EXCEPT !.pc = "save", !.cfg = cfg]),
             l \in Main /\ r.row # None => cfg.passport = r.pk,
             \A c \in Ccx :
                /\ l = c /\ config'[MainOf[c]] # None => SameFields(cfg, config'[MainOf[c]])
                /\ l = MainOf[c] /\ config'[c] # None => SameFields(config'[c], cfg)
      PROVE  Sees(req[w])'
  <2>1. req'[w] = [r EXCEPT !.pc = "save", !.cfg = cfg]
    BY <1>5, SetMoves DEF RowsInv, TypeInv
  <2>2. /\ req'[w].pc = "save" /\ req'[w].loc = l /\ req'[w].cfg = cfg /\ req'[w].pk = r.pk
        /\ req'[w].row = r.row /\ req'[w].blk = r.blk
    BY <1>1, <2>1 DEF Request
  <2>3. Synchronised(req[w])'
    BY <1>5, <2>2 DEF Synchronised
  <2>4. (req[w].row # None => Settles(req[w]))'
    BY <1>4, <2>2 DEF Settles
  <2> QED BY <1>5, <2>2, <2>3, <2>4 DEF Sees, LoneView, LoneLink, LoneRest
<1>6. CASE Return(w, r) /\ UNCHANGED config /\ r.op = "view" /\ new = r.cfg
  <2>1. /\ req'[w].pc = "returned" /\ req'[w].loc = l /\ req'[w].row = r.row
        /\ req'[w].blk = r.blk
    BY <1>1, <1>6, ReturnMoves DEF RowsInv, TypeInv
  <2>2. config[l] = r.cfg
    BY <1>1, <1>6 DEF Sees, LoneView
  <2>3. r.row # None => Linked(l) /\ Settled(passport[config[l].passport], r.blk.tool)
    BY <1>2, <1>3, <1>4, <1>6, <2>2 DEF Settles, Linked
  <2>4. r.row # None => config'[l] # None /\ config'[l].passport # None
                        /\ Settled(passport'[config'[l].passport], r.blk.tool)
    BY <1>4, <1>6, <2>3 DEF Linked
  <2> QED BY <2>1, <2>4 DEF Sees, LoneView, LoneLink, LoneRest, Linked
<1>7. CASE /\ l \in Ccx /\ UNCHANGED config
           /\ Set(w, [r EXCEPT !.pc = "save", !.cfg = PullFromMain(l, new)])
  <2>1. MainOf[l] \in Main
    BY <1>7, LocationsAssumption
  <2>2. config[MainOf[l]] # None => SameFields(PullFromMain(l, new), config[MainOf[l]])
    <3>1. config[MainOf[l]] \in ConfigRow \cup {None}
      BY <2>1 DEF RowsInv, TypeInv, TypeOK, Main
    <3> QED BY <3>1 DEF PullFromMain, SameFields, ConfigRow
  <2>3. \A c \in Ccx : l # MainOf[c]
    BY <1>7, LocationsAssumption DEF Main
  <2> QED BY <1>5, <1>7, <2>2, <2>3 DEF Main
<1>8. CASE /\ l \notin Ccx /\ config' = PushToChildren(l, new)
           /\ Set(w, [r EXCEPT !.pc = "save", !.cfg = new])
  <2>1. ASSUME NEW c \in Ccx, l = MainOf[c], config'[c] # None
        PROVE  SameFields(config'[c], new)
    <3>1. c \in Children(l) /\ c \in Locations
      BY <1>8, <2>1, LocationsAssumption DEF Children
    <3>2. config'[c] = [new EXCEPT !.id = config[c].id]
      BY <1>8, <2>1, <3>1 DEF PushToChildren
    <3> QED BY <1>3, <3>2 DEF SameFields, ConfigRow
  <2>2. r.row # None => new.passport = r.pk
    BY <1>3, <1>4 DEF Settles
  <2> QED BY <1>5, <1>8, <2>1, <2>2
<1> QED BY <1>6, <1>7, <1>8, StopSees DEF SyncConfigurations, RowsInv, TypeInv

LEMMA SaveSees ==
    ASSUME RowsInv, NEW w \in Workers, Sees(req[w]), SaveConfig(w)
    PROVE  Sees(req[w])'
<1> DEFINE r == req[w]
           l == req[w].loc
<1>1. r \in Request /\ Shape(r) /\ r.pc = "save"
  BY AtTyped DEF SaveConfig, RowsInv
<1>2. l \in Locations /\ r.cfg # None
  BY <1>1 DEF Shape
<1>3. r.row # None /\ l \in Main => Settles(r) /\ r.cfg.passport = r.pk
  BY <1>1 DEF Sees, LoneView
<1>4. UNCHANGED <<passport, block>>
  BY DEF SaveConfig
<1>5. CASE config' = [config EXCEPT ![l] = r.cfg]
  <2>1. config'[l] = r.cfg
    BY <1>2, <1>5 DEF RowsInv, TypeInv, TypeOK
  <2>2. CASE r.cfg.passport = None /\ Go(w, "link")
    <3>1. /\ req'[w].pc = "link" /\ req'[w].loc = l /\ req'[w].cfg = r.cfg
          /\ req'[w].row = r.row
      BY <2>2, GoMoves DEF RowsInv, TypeInv
    <3>2. l \in Main => r.row = None
      BY <1>3, <2>2 DEF Settles
    <3> QED BY <1>2, <2>1, <3>1, <3>2 DEF Sees, LoneView, LoneLink, LoneRest
  <2>3. CASE Return(w, r)
    <3>1. CASE req'[w].pc = "returned" /\ req'[w].loc = l /\ req'[w].row = r.row
               /\ req'[w].blk = r.blk
      <4>1. r.row # None /\ l \in Main =>
              /\ config'[l] # None /\ config'[l].passport # None
              /\ Settled(passport'[config'[l].passport], r.blk.tool)
        BY <1>2, <1>3, <1>4, <2>1 DEF Settles
      <4> QED BY <3>1, <4>1 DEF Sees, LoneView, LoneLink, LoneRest, Linked
    <3>2. CASE req'[w] = Idle
      BY <3>2, NothingSeen DEF Idle
    <3> QED BY <1>1, <2>3, <3>1, <3>2, ReturnMoves DEF RowsInv, TypeInv
  <2> QED BY <1>5, <2>2, <2>3, StopSees DEF SaveConfig, RowsInv, TypeInv
<1> QED BY <1>5, StopSees DEF SaveConfig, RowsInv, TypeInv

LEMMA LinkSees ==
    ASSUME RowsInv, NEW w \in Workers, Sees(req[w]), LinkPassport(w)
    PROVE  Sees(req[w])'
<1> DEFINE r == req[w]
           l == req[w].loc
           b == block[Home(l)]
<1>1. r \in Request /\ Shape(r) /\ r.pc = "link"
  BY AtTyped DEF LinkPassport, RowsInv
<1>2. /\ l \in Locations /\ config[l] # None /\ config[l].id = r.cfg.id
      /\ l \in Main => r.row = None
  BY <1>1 DEF Shape, Sees, LoneView, LoneLink
<1>3. UNCHANGED <<config, block>>
  BY DEF LinkPassport
<1>4. b \in BlockRow \cup {None} /\ TypeOK
  BY <1>2, HomeTyped DEF RowsInv, TypeInv, TypeOK
<1>5. ASSUME NEW pk, b # None, b.pid # None, GetOrCreatePassport(pk, b.pid, l),
             Set(w, [r EXCEPT !.pc = "attach", !.pk = pk])
      PROVE  Sees(req[w])'
  <2>1. req'[w] = [r EXCEPT !.pc = "attach", !.pk = pk]
    BY <1>5, SetMoves DEF RowsInv, TypeInv
  <2>2. /\ req'[w].pc = "attach" /\ req'[w].loc = l /\ req'[w].cfg = r.cfg
        /\ req'[w].pk = pk /\ req'[w].row = r.row
    BY <1>1, <2>1 DEF Request
  <2>3. b.pid \in PassportId
    BY <1>4, <1>5 DEF BlockRow
  <2>4. pk \in PassportId /\ passport'[pk] # None
    BY <1>2, <1>4, <1>5, <2>3, GetOrCreateTyped
  <2>5. passport'[pk].pid = b.pid
    BY <1>4, <1>5, <2>4 DEF GetOrCreatePassport, Mint, Named, TypeOK
  <2> QED BY <1>2, <1>3, <1>5, <2>2, <2>4, <2>5 DEF Sees, LoneView, LoneLink, LoneRest
<1>6. ASSUME NEW pk \in PassportId, Mint(pk, pk, Blank, Blank, l),
             Set(w, [r EXCEPT !.pc = "keep", !.pk = pk, !.blk = [b EXCEPT !.pid = pk]]),
             b # None
      PROVE  Sees(req[w])'
  <2>1. req'[w] = [r EXCEPT !.pc = "keep", !.pk = pk, !.blk = [b EXCEPT !.pid = pk]]
    BY <1>6, SetMoves DEF RowsInv, TypeInv
  <2>2. /\ req'[w].pc = "keep" /\ req'[w].loc = l /\ req'[w].cfg = r.cfg
        /\ req'[w].pk = pk /\ req'[w].row = r.row /\ req'[w].blk = [b EXCEPT !.pid = pk]
    BY <1>1, <2>1 DEF Request
  <2>3. passport'[pk] # None /\ passport'[pk].pid = pk
    BY <1>2, <1>4, <1>6, MintTyped, ValuesAssumption DEF Mint, TypeOK
  <2>4. [b EXCEPT !.pid = pk].pid = pk
    BY <1>4, <1>6 DEF BlockRow
  <2> QED BY <1>2, <1>3, <2>2, <2>3, <2>4 DEF Sees, LoneView, LoneLink, LoneRest
<1> QED BY <1>5, <1>6, StopSees DEF LinkPassport, RowsInv, TypeInv

LEMMA AttachSees ==
    ASSUME RowsInv, RowsInv', NEW w \in Workers, Sees(req[w]), AttachPassport(w)
    PROVE  Sees(req[w])'
<1> DEFINE l == req[w].loc
           r == [req[w] EXCEPT !.cfg = config'[l]]
<1>1. req[w] \in Request /\ Shape(req[w]) /\ req[w].pc = "attach"
  BY AtTyped DEF AttachPassport, RowsInv
<1>2. l \in Locations /\ (l \in Main => req[w].row = None)
  BY <1>1 DEF Shape, Sees, LoneView
<1>3. config'[l] \in ConfigRow \cup {None}
  BY <1>2 DEF RowsInv, TypeInv, TypeOK
<1>4. r \in Request /\ r.loc = l /\ r.row = req[w].row
  BY <1>1, <1>3 DEF Request
<1>5. CASE Return(w, r)
  <2> HIDE DEF r
  <2>1. req'[w] = Idle \/ (req'[w].pc = "returned" /\ req'[w].loc = l /\ req'[w].row = req[w].row)
    BY <1>4, <1>5, ReturnMoves DEF RowsInv, TypeInv
  <2>2. CASE req'[w] = Idle
    BY <2>2, NothingSeen DEF Idle
  <2>3. CASE req'[w].pc = "returned" /\ req'[w].loc = l /\ req'[w].row = req[w].row
    BY <1>2, <2>3 DEF Sees, LoneView, LoneLink, LoneRest
  <2> QED BY <2>1, <2>2, <2>3
<1> QED BY <1>5, StopSees DEF AttachPassport, RowsInv, TypeInv

LEMMA CopySees ==
    ASSUME RowsInv, NEW w \in Workers, Sees(req[w]), ReadSource(w) \/ CheckTarget(w)
    PROVE  Sees(req[w])'
<1> DEFINE r == req[w]
<1>1. r \in Request /\ r.pc \in {"source", "target"} /\ r.row = None /\ r.op = "duplicate"
  BY AtTyped DEF ReadSource, CheckTarget, RowsInv, Sees, LoneView
<1>2. ASSUME NEW cfg, Set(w, [r EXCEPT !.pc = "target", !.cfg = cfg]) PROVE Sees(req[w])'
  <2>1. req'[w] = [r EXCEPT !.pc = "target", !.cfg = cfg]
    BY <1>2, SetMoves DEF RowsInv, TypeInv
  <2>2. req'[w].pc = "target" /\ req'[w].row = None /\ req'[w].op = "duplicate"
    BY <1>1, <2>1 DEF Request
  <2> QED BY <2>2 DEF Sees, LoneView, LoneLink, LoneRest
<1>3. CASE Set(w, [r EXCEPT !.pc = "sync", !.cfg.id = ids'])
  <2>1. req'[w] = [r EXCEPT !.pc = "sync", !.cfg.id = ids']
    BY <1>3, SetMoves DEF RowsInv, TypeInv
  <2>2. req'[w].pc = "sync" /\ req'[w].row = None /\ req'[w].op = "duplicate"
    BY <1>1, <2>1 DEF Request
  <2> QED BY <2>2 DEF Sees, LoneView, LoneLink, LoneRest
<1> QED BY <1>2, <1>3, StopSees DEF ReadSource, CheckTarget, RowsInv, TypeInv

LEMMA CleanupSees ==
    ASSUME RowsInv, NEW w \in Workers, Sees(req[w]),
           \/ Finish(w) \/ SaveKeys(w)
           \/ DropConfigs(w) \/ ScanOrphans(w) \/ PurgeOrphans(w) \/ RemoveBlocks(w)
    PROVE  Sees(req[w])'
<1>1. req[w] \in Request
  BY DEF RowsInv, TypeInv, ReqOK
<1>2. CASE Finish(w) \/ SaveKeys(w)
  <2>1. Stop(w) \/ Go(w, "again")
    BY <1>2 DEF Finish, SaveKeys
  <2> QED BY <2>1, StopSees, GoMoves, NothingSeen DEF RowsInv, TypeInv
<1>3. CASE DropConfigs(w)
  BY <1>3, GoMoves, NothingSeen DEF DropConfigs, RowsInv, TypeInv
<1>4. CASE ScanOrphans(w)
  <2> DEFINE P == {p \in PassportId : passport[p] # None /\ Users(p) = {}}
  <2>1. req'[w] = [req[w] EXCEPT !.pc = "purge", !.doomed = P]
    BY <1>4, SetMoves DEF ScanOrphans, RowsInv, TypeInv
  <2>2. req'[w].pc = "purge" /\ req'[w].doomed = P
    BY <1>1, <2>1 DEF Request
  <2>3. P = {p \in PassportId : Orphan(p)}'
    BY <1>4 DEF ScanOrphans, db, Orphan, Users
  <2> QED BY <2>2, <2>3 DEF Sees, LoneView, LoneLink, LoneRest
<1>5. CASE PurgeOrphans(w)
  <2>1. CASE Set(w, [req[w] EXCEPT !.pc = "remove", !.doomed = {}])
    <3>1. req'[w] = [req[w] EXCEPT !.pc = "remove", !.doomed = {}]
      BY <2>1, SetMoves DEF RowsInv, TypeInv
    <3>2. req'[w].pc = "remove"
      BY <1>1, <3>1 DEF Request
    <3> QED BY <3>2, NothingSeen
  <2> QED BY <1>5, <2>1, StopSees DEF PurgeOrphans, RowsInv, TypeInv
<1>6. CASE RemoveBlocks(w)
  <2>1. PICK locs : Set(w, [req[w] EXCEPT !.pc = "drop", !.op = "delete", !.locs = locs])
    BY <1>6 DEF RemoveBlocks
  <2>2. req'[w] = [req[w] EXCEPT !.pc = "drop", !.op = "delete", !.locs = locs]
    BY <2>1, SetMoves DEF RowsInv, TypeInv
  <2>3. req'[w].pc = "drop"
    BY <1>1, <2>2 DEF Request
  <2> QED BY <2>3, NothingSeen
<1> QED BY <1>2, <1>3, <1>4, <1>5, <1>6

\* A request that begins has read at most the row it starts from.
LEMMA StartSees ==
    ASSUME RowsInv, NEW w \in Workers,
           \/ \E l \in Locations : StartView(w, l) \/ StartAccess(w, l)
           \/ \E p \in PassportId : StartKeys(w, p)
           \/ \E src, dst \in Main : DuplicateBlock(w, src, dst)
           \/ \E S \in SUBSET Main : StartDelete(w, S)
    PROVE  Sees(req[w])'
<1> USE DEF RowsInv, TypeInv
<1>1. ASSUME NEW l \in Locations, StartView(w, l) PROVE Sees(req[w])'
  <2>1. req'[w] = [Idle EXCEPT !.pc = "config", !.op = "view", !.loc = l, !.blk = block[Home(l)]]
    BY <1>1, SetMoves DEF StartView
  <2>2. req'[w].pc = "config" /\ req'[w].row = None
    BY <2>1 DEF Idle
  <2> QED BY <2>2 DEF Sees, LoneView, LoneLink, LoneRest
<1>2. ASSUME NEW l \in Locations, StartAccess(w, l) PROVE Sees(req[w])'
  <2>1. req'[w] = [Idle EXCEPT !.pc = "link", !.op = "access", !.loc = l, !.cfg = config[l]]
    BY <1>2, SetMoves DEF StartAccess
  <2>2. /\ req'[w].pc = "link" /\ req'[w].row = None /\ req'[w].loc = l
        /\ req'[w].cfg = config[l]
    BY <2>1 DEF Idle
  <2>3. config'[l] = config[l] /\ config[l] # None
    BY <1>2 DEF StartAccess, db
  <2> QED BY <2>2, <2>3 DEF Sees, LoneView, LoneLink, LoneRest
<1>3. ASSUME NEW p \in PassportId, StartKeys(w, p) PROVE Sees(req[w])'
  <2>1. req'[w] = [Idle EXCEPT !.pc = "keys", !.op = "keys", !.pk = p, !.row = passport[p]]
    BY <1>3, SetMoves DEF StartKeys
  <2>2. req'[w].pc = "keys"
    BY <2>1 DEF Idle
  <2> QED BY <2>2, NothingSeen
<1>4. ASSUME NEW src \in Main, NEW dst \in Main, DuplicateBlock(w, src, dst)
      PROVE  Sees(req[w])'
  <2>1. req'[w] = [Idle EXCEPT !.pc = "source", !.op = "duplicate", !.loc = dst, !.locs = {src}]
    BY <1>4, SetMoves DEF DuplicateBlock
  <2>2. req'[w].pc = "source" /\ req'[w].op = "duplicate" /\ req'[w].row = None
    BY <2>1 DEF Idle
  <2> QED BY <2>2 DEF Sees, LoneView, LoneLink, LoneRest
<1>5. ASSUME NEW S \in SUBSET Main, StartDelete(w, S) PROVE Sees(req[w])'
  <2>1. req'[w] = [Idle EXCEPT !.pc = "drop", !.op = "predelete", !.locs = S]
    BY <1>5, SetMoves DEF StartDelete
  <2>2. req'[w].pc = "drop"
    BY <2>1 DEF Idle
  <2> QED BY <2>2, NothingSeen
<1> QED BY <1>1, <1>2, <1>3, <1>4, <1>5

\* The request that moves is the one that takes the step.
Starts(w) ==
    \/ \E l \in Locations : StartView(w, l) \/ StartAccess(w, l)
    \/ \E p \in PassportId : StartKeys(w, p)
    \/ \E src, dst \in Main : DuplicateBlock(w, src, dst)
    \/ \E S \in SUBSET Main : StartDelete(w, S)

LEMMA MoverActs ==
    ASSUME ReqOK, [Next]_vars, NEW w \in Workers, req'[w] # req[w]
    PROVE  Step(w) \/ Starts(w)
<1>1. ASSUME NEW v \in Workers, v # w, Step(v) \/ Starts(v) PROVE FALSE
  BY <1>1, OthersStay DEF Starts
<1>2. ~(\/ \E l \in Main : \/ \E t \in ToolSettings : EditTool(l, t)
                           \/ \E s \in Stores : EditStore(l, s)
        \/ \E src, dst \in Main : PasteBlock(src, dst)
        \/ \E p \in PassportId : AdminDeletePassport(p)
        \/ UNCHANGED vars)
  BY DEF EditTool, EditStore, PasteBlock, AdminDeletePassport, vars
<1> QED BY <1>1, <1>2 DEF Next, Starts

LEMMA StepBegun ==
    ASSUME NEW w \in Workers, Step(w)
    PROVE  ~At(w, "idle")
BY DEF Step, ConfigFound, ConfigCreated, EnsurePassport, CountUsers, UpdateInPlace,
       SplitPassport, KeepSplit, SyncConfigurations, SaveConfig, LinkPassport, KeepLink,
       AttachPassport, Finish, SaveKeys, AtKeys, ReadSource, CheckTarget, DropConfigs,
       ScanOrphans, PurgeOrphans, RemoveBlocks, At

LEMMA LoneInitially == LoneInit => LoneInv
BY RowsInit DEF LoneInit, LoneInv

LEMMA LoneStep ==
    ASSUME LoneInv, [LoneNext]_loneVars
    PROVE  LoneInv'
<1>1. [Next]_vars
  BY DEF LoneNext, loneVars
<1>2. RowsInv /\ RowsInv'
  BY <1>1, RowsStep DEF LoneInv
<1>3. alone' \in [Workers -> BOOLEAN]
  <2>1. CASE Watch
    BY <2>1 DEF Watch, LoneInv, At
  <2> QED BY <2>1 DEF LoneNext, loneVars, LoneInv
<1>4. ASSUME NEW w \in Workers, alone'[w], Watch PROVE Sees(req[w])'
  <2>1. req'[w] # req[w] /\ (At(w, "idle") \/ alone[w])
    BY <1>4 DEF Watch
  <2>2. CASE Starts(w)
    BY <1>2, <2>2, StartSees DEF Starts
  <2>3. CASE Step(w)
    <3>1. Sees(req[w])
      BY <2>1, <2>3, StepBegun DEF LoneInv
    <3> QED BY <1>2, <2>3, <3>1, FoundSees, CreatedSees, EnsureSees, CountSees, UpdateSees,
               SplitSees, KeepSees, SyncSees, SaveSees, LinkSees, AttachSees, CopySees,
               CleanupSees DEF Step
  <2> QED BY <1>1, <1>2, <2>1, <2>2, <2>3, MoverActs DEF RowsInv, TypeInv
<1>5. ASSUME NEW w \in Workers, alone'[w], UNCHANGED loneVars PROVE Sees(req[w])'
  <2>1. Sees(req[w])
    BY <1>5 DEF LoneInv, loneVars
  <2> QED BY <1>5, <2>1 DEF loneVars, vars, Sees, LoneView, LoneLink, LoneRest, Settles, Settled,
                          Linked, Synchronised, SameFields, Orphan, Users
<1> QED BY <1>2, <1>3, <1>4, <1>5 DEF LoneNext, LoneInv

LEMMA LoneAlways == LoneSpec => []LoneInv
BY LoneInitially, LoneStep, PTL DEF LoneSpec

\* After any interleaving, and any requests killed between two of their stores
\* (_ensure_lti_passport, save_xblock), a view that runs alone leaves its block
\* with a passport that carries the key its mode selects.
THEOREM LoneViewsSettle == LoneSpec => []LoneViewSettles
<1>1. LoneInv => LoneViewSettles
  BY DEF LoneInv, Sees, LoneView, LoneViewSettles, Alone, At, Settled
<1> QED BY <1>1, LoneAlways, PTL

\* The one step of a request at a place
LEMMA LoneActs ==
    ASSUME LoneInv, [LoneNext]_loneVars, NEW w \in Workers, Steps(w), alone[w], ~At(w, "idle")
    PROVE  Step(w) /\ Sees(req[w])
<1>1. [Next]_vars
  BY DEF LoneNext, loneVars
<1>2. ~Starts(w)
  BY DEF Starts, StartView, StartAccess, StartKeys, DuplicateBlock, StartDelete, Begin
<1> QED BY <1>1, <1>2, MoverActs DEF LoneInv, RowsInv, TypeInv, Steps

\* After any interleaving, get_or_create_lti_1p3_passport running alone links a
\* configuration to the passport whose id is its block's.
THEOREM LoneLinksFollowBlocks == LoneSpec => LoneLinkFollowsBlock
<1> DEFINE Follows ==
       \A w \in Workers :
          LET l == req[w].loc IN
          Alone(w, "attach") /\ Steps(w) =>
              /\ config'[l] # None /\ config'[l].passport # None
              /\ passport'[config'[l].passport].pid = block'[Home(l)].pid
<1>1. LoneInv /\ [LoneNext]_loneVars => [Follows]_loneVars
  <2> SUFFICES ASSUME LoneInv, [LoneNext]_loneVars, NEW w \in Workers,
                      Alone(w, "attach"), Steps(w)
               PROVE  LET l == req[w].loc IN
                      /\ config'[l] # None /\ config'[l].passport # None
                      /\ passport'[config'[l].passport].pid = block'[Home(l)].pid
    OBVIOUS
  <2> DEFINE r == req[w]
             l == req[w].loc
  <2>1. Step(w) /\ Sees(r) /\ r.pc = "attach"
    BY LoneActs DEF Alone, At
  <2>2. AttachPassport(w)
    BY <2>1 DEF Step, ConfigFound, ConfigCreated, EnsurePassport, CountUsers, UpdateInPlace,
         SplitPassport, KeepSplit, SyncConfigurations, SaveConfig, LinkPassport, KeepLink,
         Finish, SaveKeys, AtKeys, ReadSource, CheckTarget, DropConfigs,
         ScanOrphans, PurgeOrphans, RemoveBlocks, At
  <2>3. r \in Request /\ Shape(r)
    BY <2>2, AtTyped DEF AttachPassport, LoneInv, RowsInv
  <2>4. l \in Locations /\ r.pk # None /\ r.pk \in PassportId
    BY <2>1, <2>3 DEF Shape, Request
  <2>5. /\ config[l] # None /\ config[l].id = r.cfg.id
        /\ passport[r.pk] # None /\ passport[r.pk].pid = block[Home(l)].pid
    BY <2>1 DEF Sees, LoneLink
  <2>6. config' = [config EXCEPT ![l].passport = r.pk] /\ UNCHANGED <<passport, block>>
    BY <2>2, <2>5 DEF AttachPassport, ForeignKeyOK
  <2>7. config'[l] = [config[l] EXCEPT !.passport = r.pk] /\ config[l] \in ConfigRow
    BY <2>4, <2>5, <2>6 DEF LoneInv, RowsInv, TypeInv, TypeOK
  <2>8. config'[l] \in ConfigRow /\ config'[l].passport = r.pk
    BY <2>4, <2>7 DEF ConfigRow
  <2>9. config'[l] # None
    BY <2>8, NoneAssumption DEF ConfigRow
  <2> QED BY <2>4, <2>5, <2>6, <2>8, <2>9
<1> QED BY <1>1, LoneAlways, PTL DEF LoneSpec, LoneLinkFollowsBlock

\* After any interleaving, a cleanup running alone leaves no passport without a
\* configuration (signals.py:116, 130): also those of killed splits are gone.
THEOREM LoneCleanupsAreComplete == LoneSpec => LoneCleanupIsComplete
<1> DEFINE Complete ==
       \A w \in Workers :
          Alone(w, "purge") /\ Steps(w) =>
              \A p \in PassportId : passport'[p] # None => Users(p)' # {}
<1>1. LoneInv /\ [LoneNext]_loneVars => [Complete]_loneVars
  <2> SUFFICES ASSUME LoneInv, [LoneNext]_loneVars, NEW w \in Workers,
                      Alone(w, "purge"), Steps(w), NEW p \in PassportId, passport'[p] # None
               PROVE  Users(p)' # {}
    OBVIOUS
  <2>1. Step(w) /\ Sees(req[w]) /\ req[w].pc = "purge"
    BY LoneActs DEF Alone, At
  <2>2. PurgeOrphans(w)
    BY <2>1 DEF Step, ConfigFound, ConfigCreated, EnsurePassport, CountUsers, UpdateInPlace,
         SplitPassport, KeepSplit, SyncConfigurations, SaveConfig, LinkPassport, KeepLink,
         AttachPassport, Finish, SaveKeys, AtKeys, ReadSource, CheckTarget, DropConfigs,
         ScanOrphans, RemoveBlocks, At
  <2>3. DeletePassports({q \in PassportId : Orphan(q)})
    BY <2>1, <2>2 DEF PurgeOrphans, Sees, LoneRest
  <2>4. passport[p] # None /\ ~Orphan(p)
    BY <2>3 DEF DeletePassports
  <2>5. PICK l \in Locations : config[l] # None /\ config[l].passport = p
    BY <2>4 DEF Orphan, Users
  <2>6. config'[l] = config[l]
    BY <2>3, <2>4, <2>5 DEF DeletePassports
  <2> QED BY <2>5, <2>6 DEF Users
<1> QED BY <1>1, LoneAlways, PTL DEF LoneSpec, LoneCleanupIsComplete

\* After any interleaving, a save running alone leaves the configurations of a
\* block and of its custom courses with the same fields (sync_configurations).
THEOREM LoneSavesSynchronise == LoneSpec => LoneSaveSynchronises
<1> DEFINE Agrees ==
       \A w \in Workers :
          LET l == req[w].loc IN
          Alone(w, "save") /\ Steps(w) /\ config'[l] = req[w].cfg =>
          \A c \in Ccx :
              l \in {c, MainOf[c]} /\ config'[c] # None /\ config'[MainOf[c]] # None
              => SameFields(config'[c], config'[MainOf[c]])
<1>1. LoneInv /\ [LoneNext]_loneVars => [Agrees]_loneVars
  <2> SUFFICES ASSUME LoneInv, [LoneNext]_loneVars, NEW w \in Workers,
                      Alone(w, "save"), Steps(w), config'[req[w].loc] = req[w].cfg,
                      NEW c \in Ccx, req[w].loc \in {c, MainOf[c]},
                      config'[c] # None, config'[MainOf[c]] # None
               PROVE  SameFields(config'[c], config'[MainOf[c]])
    OBVIOUS
  <2> DEFINE l == req[w].loc
  <2>1. Step(w) /\ Sees(req[w]) /\ req[w].pc = "save"
    BY LoneActs DEF Alone, At
  <2>2. SaveConfig(w)
    BY <2>1 DEF Step, ConfigFound, ConfigCreated, EnsurePassport, CountUsers, UpdateInPlace,
         SplitPassport, KeepSplit, SyncConfigurations, LinkPassport, KeepLink,
         AttachPassport, Finish, SaveKeys, AtKeys, ReadSource, CheckTarget, DropConfigs,
         ScanOrphans, PurgeOrphans, RemoveBlocks, At
  <2>3. Synchronised(req[w])
    BY <2>1 DEF Sees, LoneRest
  <2>4. \A m \in Locations \ {l} : config'[m] = config[m]
    BY <2>2 DEF SaveConfig, LoneInv, RowsInv, TypeInv, TypeOK
  <2>5. c \in Locations /\ MainOf[c] \in Locations /\ c # MainOf[c]
    BY LocationsAssumption DEF Main
  <2>6. CASE l = c
    BY <2>3, <2>4, <2>5, <2>6 DEF Synchronised
  <2>7. CASE l = MainOf[c]
    BY <2>3, <2>4, <2>5, <2>7 DEF Synchronised
  <2> QED BY <2>6, <2>7
<1> QED BY <1>1, LoneAlways, PTL DEF LoneSpec, LoneSaveSynchronises

=============================================================================
