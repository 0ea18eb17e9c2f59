-------------------------- MODULE LtiVersionsProofs --------------------------
(***************************************************************************)
(* Proofs about LtiVersions, for any number of flows, settings, external   *)
(* configurations and edits.                                               *)
(***************************************************************************)
EXTENDS LtiVersions, TLAPS

\* What a request that is up to date writes in the row
Due == [store |-> block.type, version |-> Wanted(block), ext |-> block.ext]

\* Steps that read the block's fields, as loaded, then or later
ReadsBlock(r) == \/ r.pc \in {"look", "load", "save", "url", "offer", "url13"}
                 \/ r.pc \in {"fetch", "make"} /\ r.why \in {"view", "offer", "handler"}

\* A request between two steps has what the next one reads.
Shape(r, c) ==
    /\ ReadsBlock(r) => r.block \in Blocks
    /\ r.pc \in {"load", "save"} => r.wants \in Versions
    /\ r.pc \in {"save", "make", "info"} => r.row \in Row
    /\ r.pc \in {"save", "fetch", "make"} => c # None
    /\ r.why = "offer" => (r.reply \/ r.offers = "lti_1p3") /\ r.pc \notin {"url", "offer"}
    /\ r.reply \/ r.why = "handler" => r.offers = "lti_1p1"
    /\ r.pc \in {"url13", "offered"} => r.offers # None
    /\ r.offers = "lti_1p3" /\ r.pc \in {"url13", "offered"} => c # None

\* A request begun after the last edit has read the settings there are now.
Fresh(r) ==
    /\ ReadsBlock(r) => r.block = block
    /\ r.pc \in {"load", "save"} => r.wants = Wanted(block)

\* A quiet flow: it wrote the row, or found it written, and it read it back.
Quiet(r, c) ==
    /\ r.pc \in {"idle", "look", "crashed"} \/ ~Fails(block.type)
    /\ r.pc = "save" /\ r.row = Due => c = Due
    /\ r.pc \in {"fetch", "make"} => c = Due
    /\ r.consumer # None => c = Due
    /\ r.offers = "lti_1p3" /\ r.pc \in {"url13", "offered"} => c = Due
    /\ r.pc = "make" => r.row = Due
    /\ r.consumer # None => r.consumer = Wanted(block)
    /\ r.pc = "url" => r.consumer # None
    /\ r.offers # None => r.offers = Wanted(block) /\ ~Fails(block.type)
    /\ r.pc \in {"url13", "offered", "sent"} => r.offers # None
    /\ r.why = "info" => Resolved(block) = "lti_1p3" /\ r.pc \notin {"url", "offer"}
    /\ r.pc = "info" => r.row = Due
    /\ r.why = "handler" => r.offers = "lti_1p1"
    /\ r.why \in {"offer", "gate"} => r.offers = "lti_1p3"
    /\ r.pc \in {"look", "load", "save", "fetch", "make"} => r.why # None
    /\ r.pc # "refused"
    /\ r.pc = "crashed" => Fails(block.type)

IInv ==
    /\ TypeOK
    /\ calm # {} => stale = {}
    /\ \A f \in Flows : Shape(flow[f], config)
    /\ \A f \in Flows \ stale : Fresh(flow[f])
    /\ \A f \in calm : Quiet(flow[f], config)

---------------------------------------------------------------------------

LEMMA SettingsTyped ==
    ASSUME TypeOK
    PROVE  /\ block \in Blocks /\ \A b \in Blocks :
                  /\ b.type \in Types /\ b.version \in Versions /\ b.ext \in Ids /\ b # None
                  /\ Wanted(b) \in Versions /\ Resolved(b) \in Versions
                  /\ ~Fails(b.type) => Resolved(b) = Wanted(b)
           /\ Due \in Row
           /\ \A r \in Row : Effective(r) \in Versions /\ r # None
           /\ \A v \in Versions : v # None
<1>1. \A b \in Blocks : b.type \in Types /\ b.version \in Versions /\ b.ext \in Ids /\ b # None
  BY VersionsAssumption
<1>2. \A b \in Blocks : Wanted(b) \in Versions
  BY <1>1 DEF Wanted, TypeOK
<1>3. \A b \in Blocks : Resolved(b) \in Versions /\ (~Fails(b.type) => Resolved(b) = Wanted(b))
  BY <1>1, <1>2 DEF Resolved
<1>4. block \in Blocks
  BY DEF TypeOK
<1>5. Due \in Row
  BY <1>1, <1>2, <1>4 DEF Due, Row
<1>6. \A r \in Row : Effective(r) \in Versions
  BY DEF Effective, TypeOK, Row
<1>7. \A r \in Row : r # None
  BY VersionsAssumption DEF Row
<1>8. \A v \in Versions : v # None
  BY VersionsAssumption
<1> QED BY <1>1, <1>2, <1>3, <1>4, <1>5, <1>6, <1>7, <1>8

\* Read back while the filter answers, the row that is due gives the version wanted.
LEMMA DueIsEffective == TypeOK => Effective(Due) = Wanted(block) /\ Due.store = block.type
<1> SUFFICES ASSUME TypeOK PROVE Effective(Due) = Wanted(block) /\ Due.store = block.type
  OBVIOUS
<1>1. Due.store = block.type /\ Due.version = Wanted(block) /\ Due.ext = block.ext /\ block.ext \in Ids
  BY SettingsTyped DEF Due
<1> QED BY <1>1 DEF Effective, Wanted

LEMMA IdleFits ==
    ASSUME NEW c, NEW pc \in {"idle", "crashed", "refused"}
    PROVE  LET r == [Idle EXCEPT !.pc = pc] IN
           /\ r \in Flow /\ r.pc = pc /\ Shape(r, c) /\ Fresh(r)
           /\ r.why = None /\ r.offers = None /\ r.consumer = None /\ ~r.reply
<1> DEFINE r == [Idle EXCEPT !.pc = pc]
<1>1. /\ r.pc = pc /\ r.why = None /\ r.block = None /\ r.wants = None /\ r.row = None
      /\ r.consumer = None /\ r.offers = None /\ ~r.reply
  BY DEF Idle
<1>2. r \in Flow
  BY DEF Idle, Flow, Between, Over
<1> QED BY <1>1, <1>2, VersionsAssumption DEF ReadsBlock, Shape, Fresh

LEMMA QuietCrash ==
    ASSUME TypeOK, Fails(block.type), NEW c
    PROVE  Quiet([Idle EXCEPT !.pc = "crashed"], c)
<1> DEFINE r == [Idle EXCEPT !.pc = "crashed"]
<1>1. r.pc = "crashed" /\ r.why = None /\ r.row = None /\ r.consumer = None /\ r.offers = None
  BY DEF Idle
<1> SUFFICES Quiet(r, c)
  OBVIOUS
<1> HIDE DEF r
<1> QED BY <1>1, VersionsAssumption DEF Quiet, Versions

---------------------------------------------------------------------------
(* One flow moves *)

LEMMA SettingsKept ==
    ASSUME UNCHANGED settings
    PROVE  /\ Wanted(block)' = Wanted(block) /\ Resolved(block)' = Resolved(block)
           /\ Due' = Due /\ block' = block
           /\ Fails(block.type)' = Fails(block.type)
BY DEF settings, Wanted, Resolved, Fails, Due

LEMMA FlowMoves ==
    ASSUME IInv, NEW f \in Flows, NEW r \in Flow, Go(f, r), Shape(r, config'),
           f \notin stale => Fresh(r),
           config' \in Row \cup {None}, config # None => config' # None,
           f \notin stale /\ config = Due => config' = Due,
           calm' \subseteq calm \cup {f}, calm' # {} => stale = {},
           f \in calm' => Quiet(r, config')
    PROVE  IInv'
<1>1. /\ UNCHANGED settings /\ UNCHANGED edits
      /\ flow' = [flow EXCEPT ![f] = r]
      /\ stale' = IF r.pc \in Between THEN stale \ {f} ELSE stale
  BY DEF Go
<1>2. /\ flow' \in [Flows -> Flow] /\ stale' \subseteq Flows /\ calm' \subseteq Flows
      /\ \A g \in Flows : flow'[g] = IF g = f THEN r ELSE flow[g]
  BY <1>1 DEF IInv, TypeOK
<1>3. TypeOK'
  BY <1>1, <1>2 DEF IInv, TypeOK, settings
<1>4. (calm # {} => stale = {})'
  BY <1>1
<1>5. \A g \in Flows : Shape(flow'[g], config')
  BY <1>2 DEF IInv, ReadsBlock, Shape
<1>6. \A g \in Flows \ stale' : Fresh(flow'[g])
  BY <1>1, <1>2 DEF IInv, Fresh, ReadsBlock, Between, Over
<1>7. ASSUME NEW g \in calm' PROVE Quiet(flow'[g], config')
  <2>1. CASE g = f
    BY <1>2, <1>7, <2>1
  <2>2. CASE g # f
    <3>1. g \in calm /\ g \in Flows /\ stale = {} /\ flow'[g] = flow[g] /\ Quiet(flow[g], config)
      BY <1>2, <1>7, <2>2 DEF IInv, TypeOK
    <3>2. config = Due => config' = Due
      BY <3>1
    <3> DEFINE x == flow[g]
    <3>3. Quiet(x, config) => Quiet(x, config')
      <4> HIDE DEF x
      <4> QED BY <3>2 DEF Quiet
    <3> QED BY <3>1, <3>3
  <2> QED BY <2>1, <2>2
<1>8. \A g \in Flows \ stale' : Fresh(flow[g])'
  BY <1>1, <1>6, SettingsKept DEF Fresh, ReadsBlock
<1>9. \A g \in Flows : Shape(flow[g], config)'
  BY <1>5 DEF ReadsBlock, Shape
<1>10. \A g \in calm' : Quiet(flow[g], config)'
  BY <1>1, <1>7, SettingsKept DEF Quiet
<1> QED BY <1>3, <1>4, <1>8, <1>9, <1>10 DEF IInv

LEMMA InvInit == Init => IInv
<1> SUFFICES ASSUME Init PROVE IInv
  OBVIOUS
<1>1. Idle \in Flow /\ Idle.pc = "idle" /\ Idle.why = None /\ ~Idle.reply
  BY DEF Idle, Flow, Between, Over
<1>2. TypeOK
  BY <1>1, VersionsAssumption DEF Init, TypeOK
<1> QED BY <1>1, <1>2, VersionsAssumption DEF Init, IInv, Shape, Fresh, ReadsBlock

\* An edit leaves nothing quiet, and every request it catches is older than it.
LEMMA EditKeeps ==
    ASSUME IInv, Edit, block' \in Blocks, registry' \in [Ids -> Versions \cup {None}], up' \in BOOLEAN
    PROVE  IInv'
<1>1. TypeOK'
  BY VersionsAssumption DEF IInv, Edit, TypeOK
<1>2. calm' = {} /\ flow' = flow /\ config' = config
  BY DEF Edit
<1>3. \A g \in Flows : Shape(flow[g], config)'
  BY <1>2 DEF IInv, ReadsBlock, Shape
<1>4. \A g \in Flows \ stale' : Fresh(flow[g])'
  BY <1>2 DEF Edit, Fresh, ReadsBlock, Between, Over
<1> QED BY <1>1, <1>2, <1>3, <1>4 DEF IInv

---------------------------------------------------------------------------
(* Each step *)

\* What is known of the flow that moves
LEMMA Known ==
    ASSUME IInv, NEW f \in Flows
    PROVE  /\ flow[f] \in Flow /\ Shape(flow[f], config)
           /\ f \notin stale => Fresh(flow[f])
           /\ f \in calm => f \notin stale /\ stale = {} /\ Quiet(flow[f], config)
           /\ calm # {} => stale = {}
           /\ config \in Row \cup {None} /\ TypeOK
BY DEF IInv, TypeOK

LEMMA CrashKeeps ==
    ASSUME IInv, NEW f \in Flows, Crash(f), f \in calm => Fails(block.type)
    PROVE  IInv'
<1> DEFINE r == [Idle EXCEPT !.pc = "crashed"]
<1>1. r \in Flow /\ Shape(r, config) /\ Fresh(r)
  BY IdleFits
<1>2. f \in calm => Quiet(r, config)
  BY Known, QuietCrash
<1>3. Go(f, r) /\ config' = config /\ calm' = calm
  BY DEF Crash
<1> HIDE DEF r
<1> QED BY <1>1, <1>2, <1>3, Known, FlowMoves

LEMMA StartKeeps ==
    ASSUME IInv, NEW f \in Flows, NEW r \in Flow, Start(f, r), Shape(r, config), Fresh(r),
           Quiet(r, config)
    PROVE  IInv'
<1>1. Go(f, r) /\ config' = config /\ calm' = (IF stale = {} THEN calm \cup {f} ELSE calm \ {f})
  BY DEF Start
<1>2. calm' \subseteq calm \cup {f} /\ (calm' # {} => stale = {})
  BY <1>1, Known
<1> QED BY <1>1, <1>2, Known, FlowMoves

LEMMA ViewKeeps ==
    ASSUME IInv, NEW f \in Flows, View(f) \/ AuthorView(f)
    PROVE  IInv'
<1> DEFINE info == [Idle EXCEPT !.why = "info", !.block = block, !.pc = "look"]
<1>1. block \in Blocks /\ block.type \in Types /\ Resolved(block) \in Versions
  BY Known, SettingsTyped
<1>2. /\ Viewing(block).pc \in {"look", "offer"}
      /\ Viewing(block).pc = "offer" => block.type = "new"
      /\ Viewing(block).why = "view" /\ Viewing(block).block = block /\ Viewing(block) \in Flow
      /\ Viewing(block).consumer = None /\ Viewing(block).offers = None /\ ~Viewing(block).reply
  BY <1>1 DEF Viewing, Idle, Flow, Between, Over
<1>3. /\ info.pc = "look" /\ info.why = "info" /\ info.block = block /\ info.consumer = None
      /\ info.offers = None /\ info \in Flow /\ ~info.reply
  BY <1>1 DEF Idle, Flow, Between, Over
<1>4. Start(f, Viewing(block)) \/ (Resolved(block) # "lti_1p1" /\ Start(f, info))
  BY DEF View, AuthorView
<1> HIDE DEF info
<1>5. CASE Start(f, Viewing(block))
  <2>1. Shape(Viewing(block), config) /\ Fresh(Viewing(block))
    BY <1>1, <1>2 DEF ReadsBlock, Shape, Fresh
  <2>2. Quiet(Viewing(block), config)
    BY <1>2, VersionsAssumption DEF Quiet, Versions, Fails
  <2> QED BY <1>2, <1>5, <2>1, <2>2, StartKeeps
<1>6. CASE Resolved(block) # "lti_1p1" /\ Start(f, info)
  <2>1. Shape(info, config) /\ Fresh(info)
    BY <1>1, <1>3 DEF ReadsBlock, Shape, Fresh
  <2>2. Resolved(block) = "lti_1p3"
    BY <1>1, <1>6 DEF Versions
  <2>3. Quiet(info, config)
    BY <1>3, <2>2, VersionsAssumption DEF Quiet, Versions
  <2> QED BY <1>3, <1>6, <2>1, <2>3, StartKeeps
<1> QED BY <1>4, <1>5, <1>6

LEMMA LeaveKeeps ==
    ASSUME IInv, NEW f \in Flows, Leave(f)
    PROVE  IInv'
<1>1. Idle \in Flow /\ Idle.pc = "idle" /\ Idle.why = None /\ ~Idle.reply
  BY DEF Idle, Flow, Between, Over
<1>2. Go(f, Idle) /\ config' = config /\ calm' = calm \ {f}
  BY DEF Leave
<1>3. Shape(Idle, config) /\ Fresh(Idle)
  BY <1>1, VersionsAssumption DEF ReadsBlock, Shape, Fresh
<1> QED BY <1>1, <1>2, <1>3, Known, FlowMoves

LEMMA LookUpKeeps ==
    ASSUME IInv, NEW f \in Flows, LookUp(f)
    PROVE  IInv'
<1> DEFINE q == flow[f]
           r == [q EXCEPT !.pc = "load", !.wants = Wanted(q.block)]
<1>1. q \in Flow /\ q.pc = "look" /\ q.block \in Blocks /\ (f \notin stale => q.block = block)
  BY Known DEF LookUp, At, Shape, Fresh, ReadsBlock
<1>4. Shape(q, config) /\ (f \notin stale => Fresh(q))
  BY Known
<1>2. CASE Fails(q.block.type)
  BY <1>1, <1>2, Known, CrashKeeps DEF LookUp
<1>3. CASE ~Fails(q.block.type)
  <2>1. Go(f, r) /\ config' = config /\ calm' = calm
    BY <1>3 DEF LookUp
  <2>2. Wanted(q.block) \in Versions
    BY <1>1, Known, SettingsTyped
  <2>3. /\ r \in Flow /\ r.pc = "load" /\ r.wants = Wanted(q.block) /\ r.block = q.block
        /\ r.why = q.why /\ r.consumer = q.consumer /\ r.offers = q.offers /\ r.reply = q.reply
    BY <1>1, <2>2 DEF Flow
  <2> HIDE DEF q, r
  <2>4. Shape(r, config) /\ (f \notin stale => Fresh(r))
    BY <1>1, <1>4, <2>2, <2>3 DEF ReadsBlock, Shape, Fresh
  <2>5. f \in calm => Quiet(q, config) /\ f \notin stale
    BY Known DEF q
  <2>6. f \in calm => Quiet(r, config)
    BY <1>1, <1>3, <2>3, <2>5 DEF Quiet
  <2> QED BY <2>1, <2>3, <2>4, <2>6, Known, FlowMoves
<1> QED BY <1>2, <1>3

LEMMA LoadKeeps ==
    ASSUME IInv, NEW f \in Flows, Load(f)
    PROVE  IInv'
<1> DEFINE q == flow[f]
           r == [q EXCEPT !.pc = "save", !.row = config']
<1>1. q \in Flow /\ q.pc = "load" /\ Shape(q, config) /\ (f \notin stale => Fresh(q))
  BY Known DEF Load, At
<1>2. Go(f, r) /\ calm' = calm /\ config' = (IF config = None THEN Blank ELSE config)
  BY DEF Load
<1>3. config' \in Row /\ config' # None /\ (config # None => config' = config)
  BY <1>2, Known, SettingsTyped DEF Blank, Row, Types, Versions
<1>4. /\ r \in Flow /\ r.pc = "save" /\ r.row = config' /\ r.wants = q.wants /\ r.block = q.block
      /\ r.why = q.why /\ r.consumer = q.consumer /\ r.offers = q.offers /\ r.reply = q.reply
  BY <1>1, <1>3 DEF Flow
<1>5. f \in calm => Quiet(q, config) /\ f \notin stale
  BY Known
<1>6. Due # None
  BY Known, SettingsTyped
<1>7. Go(f, r)
  BY <1>2
<1> HIDE DEF q, r
<1>8. Shape(r, config') /\ (f \notin stale => Fresh(r))
  BY <1>1, <1>3, <1>4 DEF ReadsBlock, Shape, Fresh
<1>9. f \in calm => Quiet(r, config')
  BY <1>1, <1>3, <1>4, <1>5, <1>6 DEF Quiet
<1> QED BY <1>2, <1>3, <1>4, <1>6, <1>7, <1>8, <1>9, Known, FlowMoves

LEMMA SaveKeeps ==
    ASSUME IInv, NEW f \in Flows, Save(f)
    PROVE  IInv'
<1> DEFINE q == flow[f]
           r == [q EXCEPT !.pc = "fetch", !.row = None, !.wants = None]
<1>1. q \in Flow /\ q.pc = "save" /\ Shape(q, config) /\ (f \notin stale => Fresh(q))
  BY Known DEF Save, At
<1>2. Go(f, r) /\ calm' = calm /\ config' = (IF q.row # Updates(f) THEN Updates(f) ELSE config)
  BY DEF Save
<1>3. Updates(f) = [store |-> q.block.type, version |-> q.wants, ext |-> q.block.ext]
  BY DEF Updates
<1>4. Updates(f) \in Row /\ Updates(f) # None /\ (f \notin stale => Updates(f) = Due)
  <2>1. q.block \in Blocks /\ q.wants \in Versions
    BY <1>1 DEF ReadsBlock, Shape
  <2>2. f \notin stale => q.block = block /\ q.wants = Wanted(block)
    BY <1>1 DEF Fresh, ReadsBlock
  <2> QED BY <1>3, <2>1, <2>2, Known, SettingsTyped DEF Row, Due
<1>5. /\ r \in Flow /\ r.pc = "fetch" /\ r.block = q.block
      /\ r.why = q.why /\ r.consumer = q.consumer /\ r.offers = q.offers /\ r.reply = q.reply
  BY <1>1 DEF Flow
<1>6. f \in calm => Quiet(q, config) /\ f \notin stale
  BY Known
<1> HIDE DEF q, r
<1>7. f \in calm => config' = Due
  BY <1>1, <1>2, <1>4, <1>6 DEF Quiet
<1>8. config' # None /\ config' \in Row \cup {None}
  <2>1. CASE q.row # Updates(f)
    BY <1>2, <1>4, <2>1
  <2>2. CASE q.row = Updates(f)
    BY <1>1, <1>2, <2>2, Known DEF ReadsBlock, Shape
  <2> QED BY <2>1, <2>2
<1>9. Shape(r, config') /\ (f \notin stale => Fresh(r))
  BY <1>1, <1>5, <1>8 DEF ReadsBlock, Shape, Fresh
<1>10. f \in calm => Quiet(r, config')
  BY <1>1, <1>5, <1>6, <1>7 DEF Quiet
<1>11. f \notin stale /\ config = Due => config' = Due
  BY <1>2, <1>4
<1> QED BY <1>2, <1>5, <1>8, <1>9, <1>10, <1>11, Known, FlowMoves

LEMMA FetchKeeps ==
    ASSUME IInv, NEW f \in Flows, Fetch(f)
    PROVE  IInv'
<1> DEFINE q == flow[f]
           no == [Idle EXCEPT !.pc = "refused"]
           r == [q EXCEPT !.pc = "make", !.row = config]
<1>1. q \in Flow /\ q.pc = "fetch" /\ config \in Row
  BY Known DEF Fetch, At, Shape
<1>2. f \in calm => Quiet(q, config)
  BY Known
<1>3. config' = config /\ calm' = calm
  BY DEF Fetch
<1>6. Shape(q, config) /\ (f \notin stale => Fresh(q))
  BY Known
<1>7. config # None
  BY <1>1, Known, SettingsTyped
<1>4. CASE q.why = "gate" /\ config.version # "lti_1p3"
  <2>1. Go(f, no)
    BY <1>4 DEF Fetch
  <2>2. no \in Flow /\ Shape(no, config) /\ Fresh(no)
    BY IdleFits
  <2>3. f \notin calm
    <3> SUFFICES ASSUME f \in calm PROVE FALSE
      OBVIOUS
    <3> HIDE DEF q
    <3>1. config = Due /\ Wanted(block) = "lti_1p3"
      BY <1>1, <1>2, <1>4, VersionsAssumption DEF Quiet, Versions
    <3> QED BY <1>4, <3>1 DEF Due
  <2> HIDE DEF no
  <2> QED BY <1>3, <2>1, <2>2, <2>3, Known, FlowMoves
<1>5. CASE ~(q.why = "gate" /\ config.version # "lti_1p3")
  <2>1. Go(f, r)
    BY <1>5 DEF Fetch
  <2>2. /\ r \in Flow /\ r.pc = "make" /\ r.row = config /\ r.block = q.block
        /\ r.why = q.why /\ r.consumer = q.consumer /\ r.offers = q.offers /\ r.reply = q.reply
    BY <1>1 DEF Flow
  <2> HIDE DEF q, r
  <2>3. Shape(r, config) /\ (f \notin stale => Fresh(r))
    BY <1>1, <1>6, <2>2, <1>7 DEF ReadsBlock, Shape, Fresh
  <2>4. f \in calm => Quiet(r, config)
    BY <1>1, <1>2, <2>2 DEF Quiet
  <2> QED BY <1>3, <2>1, <2>2, <2>3, <2>4, Known, FlowMoves
<1> QED BY <1>4, <1>5

LEMMA MakeKeeps ==
    ASSUME IInv, NEW f \in Flows, Make(f)
    PROVE  IInv'
<1> DEFINE q == flow[f]
           v == Effective(q.row)
           reply == [Viewing(q.block) EXCEPT !.offers = q.offers, !.reply = TRUE]
           row == IF q.why = "info" THEN q.row ELSE None
           consumer == IF q.why = "view" THEN v ELSE q.consumer
           r == [q EXCEPT !.pc = After(q.why), !.row = row, !.consumer = consumer]
<1>1. q \in Flow /\ q.pc = "make" /\ q.row \in Row
  BY Known DEF Make, At, Shape
<1>2. f \in calm => /\ Quiet(q, config) /\ config = Due /\ q.row = Due
                     /\ ~Fails(q.row.store) /\ v = Wanted(block) /\ ~Fails(block.type)
                     /\ q.why # None
  <2> SUFFICES ASSUME f \in calm
               PROVE  /\ Quiet(q, config) /\ config = Due /\ q.row = Due
                      /\ ~Fails(q.row.store) /\ v = Wanted(block) /\ ~Fails(block.type)
                      /\ q.why # None
    OBVIOUS
  <2>1. Quiet(q, config)
    BY Known
  <2>2. config = Due /\ q.row = Due /\ ~Fails(block.type) /\ q.why # None
    <3> HIDE DEF q
    <3> QED BY <1>1, <2>1 DEF Quiet
  <2>3. Effective(Due) = Wanted(block) /\ Due.store = block.type
    BY Known, DueIsEffective
  <2> QED BY <2>1, <2>2, <2>3
<1>3. f \in calm => Suits(q.why, v)
  <2> SUFFICES ASSUME f \in calm PROVE Suits(q.why, v)
    OBVIOUS
  <2>1. q.why = "handler" => v = "lti_1p1"
    BY <1>2, VersionsAssumption DEF Quiet, Versions
  <2>2. q.why \in {"offer", "gate"} => v = "lti_1p3"
    BY <1>2, VersionsAssumption DEF Quiet, Versions
  <2>3. q.why = "info" => v = "lti_1p3"
    BY <1>2, Known, SettingsTyped DEF Quiet
  <2>4. q.why \in {"handler", "offer", "gate", "info", "view"}
    BY <1>1, <1>2 DEF Flow
  <2> QED BY <2>1, <2>2, <2>3, <2>4 DEF Suits
<1>4. CASE Fails(q.row.store) \/ ~Suits(q.why, v)
  BY <1>2, <1>3, <1>4, CrashKeeps DEF Make
<1>5. CASE ~(Fails(q.row.store) \/ ~Suits(q.why, v)) /\ q.why = "handler"
  <2>1. Go(f, reply) /\ config' = config /\ calm' = calm
    BY <1>5 DEF Make, Reply
  <2>2. Shape(q, config) /\ (f \notin stale => Fresh(q)) /\ q.block \in Blocks /\ q.offers = "lti_1p1"
    BY <1>1, <1>5, Known DEF Shape, Fresh, ReadsBlock
  <2>3. /\ reply \in Flow /\ reply.pc \in {"look", "offer"} /\ reply.why = "view" /\ reply.reply
        /\ reply.pc = "offer" => q.block.type = "new"
        /\ reply.block = q.block /\ reply.consumer = None /\ reply.offers = q.offers
    BY <1>1, <2>2 DEF Viewing, Idle, Flow, Between, Over, Versions
  <2> HIDE DEF q, v, reply
  <2>4. Shape(reply, config) /\ (f \notin stale => Fresh(reply))
    BY <1>1, <1>5, <2>2, <2>3, VersionsAssumption DEF Shape, Fresh, ReadsBlock
  <2>5. f \in calm => Quiet(reply, config)
    BY <1>1, <1>2, <1>5, <2>2, <2>3, VersionsAssumption DEF Quiet, Versions
  <2> QED BY <2>1, <2>3, <2>4, <2>5, Known, FlowMoves
<1>6. CASE ~(Fails(q.row.store) \/ ~Suits(q.why, v)) /\ q.why # "handler"
  <2>1. Go(f, r) /\ config' = config /\ calm' = calm
    BY <1>6 DEF Make
  <2>2. v \in Versions
    BY <1>1, Known, SettingsTyped
  <2>3. After(q.why) \in {"url", "url13", "info", "sent"}
    BY DEF After
  <2>4. row \in Row \cup {None} /\ consumer \in Versions \cup {None}
    <3> HIDE DEF v
    <3> QED BY <1>1, <2>2 DEF Flow
  <2>5. /\ r \in Flow /\ r.pc = After(q.why) /\ r.why = q.why /\ r.offers = q.offers
        /\ r.row = row /\ r.block = q.block /\ r.consumer = consumer /\ r.reply = q.reply
    <3>1. After(q.why) \in Between \cup {"look", "load", "save", "fetch", "make", "url", "offer", "url13", "info"}
      BY <2>3 DEF Between, Over
    <3>2. q \in Flow
      BY <1>1
    <3>3. r = [q EXCEPT !.pc = After(q.why), !.row = row, !.consumer = consumer]
      OBVIOUS
    <3> HIDE DEF row, consumer, q, r
    <3> QED BY <2>4, <3>1, <3>2, <3>3 DEF Flow
  <2>6. Shape(q, config) /\ (f \notin stale => Fresh(q))
    BY Known
  <2>7. row = (IF q.why = "info" THEN q.row ELSE None)
        /\ consumer = (IF q.why = "view" THEN v ELSE q.consumer)
    OBVIOUS
  <2> HIDE DEF q, v, r, row, consumer
  <2>8. ReadsBlock(r) => q.why \in {"view", "offer"} /\ r.block = q.block
    BY <2>5 DEF ReadsBlock, After
  <2>9. Shape(r, config) /\ (f \notin stale => Fresh(r))
    BY <1>1, <2>3, <2>5, <2>6, <2>7, <2>8, VersionsAssumption DEF After, Shape, Fresh, ReadsBlock, Versions
  <2>10. f \in calm => Quiet(r, config)
    <3> SUFFICES ASSUME f \in calm PROVE Quiet(r, config)
      OBVIOUS
    <3>1. q.why \in {"view", "offer", "info", "gate"}
      BY <1>1, <1>2, <1>6 DEF Flow
    <3>2. /\ q.why = "view" => r.pc = "url" /\ r.consumer = v /\ v # None
          /\ q.why = "offer" => r.pc = "url13" /\ q.offers = "lti_1p3"
          /\ q.why = "info" => r.pc = "info" /\ r.row = q.row
          /\ q.why = "gate" => r.pc = "sent" /\ q.offers # None
      BY <1>2, <2>2, <2>5, <2>7, VersionsAssumption DEF After, Quiet, Versions
    <3> QED BY <1>2, <2>3, <2>5, <2>7, <3>1, <3>2, VersionsAssumption DEF Quiet, Versions
  <2> QED BY <2>1, <2>5, <2>9, <2>10, Known, FlowMoves
<1> QED BY <1>4, <1>5, <1>6

LEMMA InfoKeeps ==
    ASSUME IInv, NEW f \in Flows, Info(f)
    PROVE  IInv'
<1> DEFINE q == flow[f]
<1>1. q.pc = "info"
  BY DEF Info, At
<1>2. CASE Fails(q.row.store)
  <2>1. f \in calm => q.row = Due
    <3>1. f \in calm => Quiet(q, config)
      BY Known
    <3> HIDE DEF q
    <3> QED BY <1>1, <3>1 DEF Quiet
  <2>2. Due.store = block.type
    BY Known, DueIsEffective
  <2>3. Crash(f)
    BY <1>2 DEF Info
  <2> QED BY <1>2, <2>1, <2>2, <2>3, CrashKeeps
<1>3. CASE ~Fails(q.row.store)
  <2>1. Go(f, Idle) /\ config' = config /\ calm' = calm
    BY <1>3 DEF Info
  <2>2. /\ Idle \in Flow /\ Idle.pc = "idle" /\ Idle.why = None /\ ~Idle.reply
        /\ Idle.consumer = None /\ Idle.offers = None
    BY DEF Idle, Flow, Between, Over
  <2>3. Shape(Idle, config) /\ Fresh(Idle) /\ Quiet(Idle, config)
    BY <2>2, VersionsAssumption DEF ReadsBlock, Shape, Fresh, Quiet, Versions
  <2> QED BY <2>1, <2>2, <2>3, Known, FlowMoves
<1> QED BY <1>2, <1>3

LEMMA UrlKeeps ==
    ASSUME IInv, NEW f \in Flows, Url(f) \/ Url13(f)
    PROVE  IInv'
<1> DEFINE q == flow[f]
           r == [q EXCEPT !.pc = "offer"]
           page == [Idle EXCEPT !.pc = IF q.reply THEN "sent" ELSE "offered", !.offers = q.offers]
<1>1. q \in Flow /\ Shape(q, config) /\ (f \notin stale => Fresh(q))
  BY Known
<1>2. f \in calm => Quiet(q, config) /\ f \notin stale
  BY Known
<1>3. \A v \in Versions : v # None
  BY VersionsAssumption
<1>4. CASE Url(f)
  <2>1. q.pc = "url"
    BY <1>4 DEF Url, At
  <2>2. r \in Flow /\ r.pc = "offer" /\ r.why = q.why /\ r.block = q.block /\ r.row = q.row
        /\ r.consumer = q.consumer /\ r.offers = q.offers /\ r.reply = q.reply
    BY <1>1 DEF Flow
  <2>3. CASE Resolved(q.block) = "lti_1p1" /\ q.consumer # "lti_1p1"
    <3>1. Crash(f)
      BY <1>4, <2>3 DEF Url
    <3>2. ASSUME f \in calm PROVE FALSE
      <4>1. q.block = block
        BY <1>1, <1>2, <2>1, <3>2 DEF Fresh, ReadsBlock
      <4>2. Resolved(block) = Wanted(block)
        <5> HIDE DEF q
        <5> QED BY <1>2, <2>1, <3>2, Known, SettingsTyped DEF Quiet
      <4> HIDE DEF q
      <4>3. q.consumer = Wanted(block)
        BY <1>2, <2>1, <3>2 DEF Quiet
      <4> QED BY <2>3, <4>1, <4>2, <4>3
    <3> QED BY <3>1, <3>2, CrashKeeps
  <2>4. CASE ~(Resolved(q.block) = "lti_1p1" /\ q.consumer # "lti_1p1")
    <3>1. Go(f, r) /\ config' = config /\ calm' = calm
      BY <1>4, <2>4 DEF Url, OnTo
    <3> HIDE DEF q, r
    <3>2. Shape(r, config) /\ (f \notin stale => Fresh(r))
      BY <1>1, <2>1, <2>2 DEF Shape, Fresh, ReadsBlock
    <3>3. f \in calm => Quiet(r, config)
      BY <1>2, <2>1, <2>2 DEF Quiet
    <3> QED BY <2>2, <3>1, <3>2, <3>3, Known, FlowMoves
  <2> QED BY <2>3, <2>4
<1>5. CASE Url13(f)
  <2>1. q.pc = "url13"
    BY <1>5 DEF Url13, At
  <2>2. page \in Flow /\ page.pc \in {"offered", "sent"} /\ ~page.reply /\ page.why = None /\ page.row = None
        /\ page.consumer = None /\ page.offers = q.offers
    BY <1>1 DEF Idle, Flow, Between, Over
  <2>3. CASE q.consumer = "lti_1p1" /\ Resolved(q.block) = "lti_1p3"
    <3>1. Crash(f)
      BY <1>5, <2>3 DEF Url13
    <3>2. ASSUME f \in calm PROVE FALSE
      <4>1. q.block = block
        BY <1>1, <1>2, <2>1, <3>2 DEF Fresh, ReadsBlock
      <4>2. Resolved(block) = Wanted(block)
        <5> HIDE DEF q
        <5> QED BY <1>2, <2>1, <3>2, Known, SettingsTyped DEF Quiet
      <4> HIDE DEF q
      <4>3. q.consumer = Wanted(block)
        BY <1>2, <1>3, <2>3, <3>2 DEF Quiet, Versions
      <4> QED BY <2>3, <4>1, <4>2, <4>3
    <3> QED BY <3>1, <3>2, CrashKeeps
  <2>4. CASE ~(q.consumer = "lti_1p1" /\ Resolved(q.block) = "lti_1p3")
    <3>1. Go(f, page) /\ config' = config /\ calm' = calm
      BY <1>5, <2>4 DEF Url13
    <3> HIDE DEF q, page
    <3>2. Shape(page, config) /\ Fresh(page)
      BY <1>1, <2>1, <2>2, VersionsAssumption DEF Shape, Fresh, ReadsBlock
    <3>3. f \in calm => Quiet(page, config)
      BY <1>2, <2>1, <2>2, VersionsAssumption DEF Quiet
    <3> QED BY <2>2, <3>1, <3>2, <3>3, Known, FlowMoves
  <2> QED BY <2>3, <2>4
<1> QED BY <1>4, <1>5

LEMMA OfferKeeps ==
    ASSUME IInv, NEW f \in Flows, Offer(f)
    PROVE  IInv'
<1> DEFINE q == flow[f]
           v == Resolved(q.block)
           o == IF q.reply THEN q.offers ELSE v
           r1 == [q EXCEPT !.offers = o, !.pc = "url13"]
           r3 == [q EXCEPT !.offers = o, !.why = "offer", !.pc = "look"]
<1>1. q \in Flow /\ Shape(q, config) /\ (f \notin stale => Fresh(q)) /\ q.pc = "offer"
  BY Known DEF Offer, At
<1>2. f \in calm => Quiet(q, config) /\ f \notin stale
  BY Known
<1>3. v \in Versions /\ v # None
  BY <1>1, Known, SettingsTyped DEF Shape, ReadsBlock
<1>4. f \in calm => v = Wanted(block) /\ ~Fails(block.type)
  <2>1. f \in calm => q.block = block
    BY <1>1, <1>2 DEF Fresh, ReadsBlock
  <2>2. f \in calm => ~Fails(block.type)
    <3> HIDE DEF q
    <3> QED BY <1>1, <1>2 DEF Quiet
  <2> QED BY <2>1, <2>2, Known, SettingsTyped
<1>5. config' = config /\ calm' = calm
  BY DEF Offer
<1>8. o \in Versions /\ (q.reply => o = "lti_1p1") /\ (~q.reply => o = v)
  BY <1>1, <1>3 DEF Shape, Versions
<1>9. f \in calm => o = v
  <2> HIDE DEF q, v
  <2> QED BY <1>1, <1>2, <1>4, <1>8, VersionsAssumption DEF Quiet, Versions
<1>6. CASE v = "lti_1p1"
  <2>1. Go(f, r1)
    BY <1>6 DEF Offer
  <2>2. r1 \in Flow /\ r1.pc = "url13" /\ r1.offers = o /\ r1.why = q.why /\ r1.block = q.block
        /\ r1.row = q.row /\ r1.consumer = q.consumer /\ r1.reply = q.reply
    BY <1>1, <1>8 DEF Flow
  <2> HIDE DEF q, r1, v, o
  <2>3. f \in calm => q.why \notin {"offer", "gate"}
    BY <1>2, <1>4, <1>6, <1>3, VersionsAssumption DEF Quiet, Versions
  <2>4. q.why # "offer" => Shape(r1, config)
    BY <1>1, <1>3, <1>6, <1>8, <2>2, VersionsAssumption DEF Shape, ReadsBlock, Versions
  <2>5. f \notin stale => Fresh(r1)
    BY <1>1, <2>2 DEF Fresh, ReadsBlock
  <2>6. f \in calm => Quiet(r1, config)
    BY <1>1, <1>2, <1>3, <1>4, <1>6, <1>9, <2>2, <2>3 DEF Quiet
  <2> QED BY <1>1, <1>5, <2>1, <2>2, <2>4, <2>5, <2>6, Known, FlowMoves DEF Shape
<1>7. CASE v # "lti_1p1"
  <2>1. Go(f, r3) /\ v = "lti_1p3"
    BY <1>3, <1>7 DEF Offer, Versions
  <2>2. r3 \in Flow /\ r3.pc = "look" /\ r3.offers = o /\ r3.why = "offer" /\ r3.block = q.block
        /\ r3.row = q.row /\ r3.consumer = q.consumer /\ r3.reply = q.reply
    BY <1>1, <1>8 DEF Flow
  <2> HIDE DEF q, r3, v, o
  <2>3. Shape(r3, config) /\ (f \notin stale => Fresh(r3))
    BY <1>1, <1>8, <2>1, <2>2 DEF Shape, Fresh, ReadsBlock
  <2>4. f \in calm => Quiet(r3, config)
    BY <1>1, <1>2, <1>3, <1>4, <1>9, <2>1, <2>2, VersionsAssumption DEF Quiet
  <2> QED BY <1>5, <2>1, <2>2, <2>3, <2>4, Known, FlowMoves
<1> QED BY <1>6, <1>7

LEMMA ClickKeeps ==
    ASSUME IInv, NEW f \in Flows, Click(f)
    PROVE  IInv'
<1> DEFINE q == flow[f]
           r1 == [q EXCEPT !.why = "handler", !.block = block, !.pc = "look"]
           r3 == [q EXCEPT !.why = "gate", !.pc = "fetch"]
<1>1. q \in Flow /\ Shape(q, config) /\ q.pc = "offered" /\ block \in Blocks
  BY Known, SettingsTyped DEF Click, At
<1>2. f \in calm => Quiet(q, config)
  BY Known
<1>3. config' = config /\ calm' = calm
  BY DEF Click
<1>4. q.offers \in {"lti_1p1", "lti_1p3"}
  <2> HIDE DEF q
  <2> QED BY <1>1 DEF Shape, Flow, Versions
<1>5. CASE q.offers = "lti_1p1"
  <2>1. Go(f, r1)
    BY <1>5 DEF Click
  <2>2. r1 \in Flow /\ r1.pc = "look" /\ r1.why = "handler" /\ r1.block = block
        /\ r1.row = q.row /\ r1.consumer = q.consumer /\ r1.offers = q.offers /\ r1.reply = q.reply
    BY <1>1 DEF Flow
  <2> HIDE DEF q, r1
  <2>3. Shape(r1, config) /\ Fresh(r1)
    BY <1>1, <1>5, <2>2 DEF Shape, Fresh, ReadsBlock
  <2>4. f \in calm => Quiet(r1, config)
    BY <1>1, <1>2, <1>5, <2>2, VersionsAssumption DEF Quiet
  <2> QED BY <1>3, <2>1, <2>2, <2>3, <2>4, Known, FlowMoves
<1>6. CASE q.offers = "lti_1p3"
  <2>1. Go(f, r3)
    BY <1>6 DEF Click
  <2>2. r3 \in Flow /\ r3.pc = "fetch" /\ r3.why = "gate" /\ r3.block = q.block
        /\ r3.row = q.row /\ r3.consumer = q.consumer /\ r3.offers = q.offers /\ r3.reply = q.reply
    BY <1>1 DEF Flow
  <2> HIDE DEF q, r3
  <2>3. Shape(r3, config) /\ Fresh(r3)
    BY <1>1, <1>6, <2>2 DEF Shape, Fresh, ReadsBlock
  <2>4. f \in calm => Quiet(r3, config)
    BY <1>1, <1>2, <1>6, <2>2, VersionsAssumption DEF Quiet
  <2> QED BY <1>3, <2>1, <2>2, <2>3, <2>4, Known, FlowMoves
<1> QED BY <1>4, <1>5, <1>6

---------------------------------------------------------------------------

LEMMA InvStep == IInv /\ [Next]_vars => IInv'
<1> SUFFICES ASSUME IInv, [Next]_vars PROVE IInv'
  OBVIOUS
<1>1. ASSUME NEW f \in Flows, View(f) \/ AuthorView(f) \/ Click(f) \/ Leave(f) PROVE IInv'
  BY <1>1, ViewKeeps, ClickKeeps, LeaveKeeps
<1>2. ASSUME NEW f \in Flows, Proceed(f) PROVE IInv'
  BY <1>2, LookUpKeeps, LoadKeeps, SaveKeeps, FetchKeeps, MakeKeeps, InfoKeeps, UrlKeeps, OfferKeeps
     DEF Proceed
<1>3. ASSUME NEW b \in Blocks, EditBlock(b) PROVE IInv'
  BY <1>3, EditKeeps DEF EditBlock, IInv, TypeOK
<1>4. ASSUME NEW id \in Ids, NEW v \in Versions \cup {None}, EditExternal(id, v) PROVE IInv'
  BY <1>4, EditKeeps DEF EditExternal, IInv, TypeOK
<1>5. CASE FilterChanges
  BY <1>5, EditKeeps DEF FilterChanges, IInv, TypeOK
<1>6. CASE UNCHANGED vars
  <2>1. UNCHANGED settings /\ TypeOK'
    BY <1>6 DEF vars, settings, IInv, TypeOK
  <2> QED BY <1>6, <2>1, SettingsKept DEF vars, IInv, Shape, Fresh, Quiet, ReadsBlock
<1> QED BY <1>1, <1>2, <1>3, <1>4, <1>5, <1>6 DEF Next

LEMMA InvAlways == Spec => []IInv
BY InvInit, InvStep, PTL DEF Spec

\* The row's version is never empty, and a request always has what it reads next.
THEOREM VersionsTypeCorrect == Spec => []TypeOK
<1>1. IInv => TypeOK
  BY DEF IInv
<1> QED BY <1>1, InvAlways, PTL

\* A launch that no edit and no older request overlaps is never turned away at the
\* gate and never meets a consumer of the other version; it is sent in the
\* version the block resolves to.
THEOREM QuietLaunchesArrive == Spec => []QuietLaunchArrives
<1>1. IInv => QuietLaunchArrives
  <2> SUFFICES ASSUME IInv, NEW f \in calm
               PROVE  /\ flow[f].pc = "sent" => flow[f].offers = Resolved(block)
                      /\ flow[f].pc # "refused"
                      /\ flow[f].pc = "crashed" => Fails(block.type)
    BY DEF QuietLaunchArrives
  <2> DEFINE q == flow[f]
  <2>1. Quiet(q, config) /\ TypeOK
    BY DEF IInv
  <2>2. ~Fails(block.type) => Resolved(block) = Wanted(block)
    BY <2>1, SettingsTyped
  <2>3. /\ q.pc = "sent" => q.offers = Resolved(block)
        /\ q.pc # "refused"
        /\ q.pc = "crashed" => Fails(block.type)
    <3> HIDE DEF q
    <3> QED BY <2>1, <2>2 DEF Quiet
  <2> QED BY <2>3
<1> QED BY <1>1, InvAlways, PTL
=============================================================================
