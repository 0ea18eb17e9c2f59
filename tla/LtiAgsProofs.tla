---------------------------- MODULE LtiAgsProofs ----------------------------
(***************************************************************************)
(* Proofs about LtiAgs, for any number of tools, blocks, line items and    *)
(* requests served at once, with and without ATOMIC_REQUESTS: what a score *)
(* that passed the serializer stays on its way to the gradebook; and, for  *)
(* requests served one at a time, that scores advance and the gradebook    *)
(* follows them.                                                           *)
(***************************************************************************)
EXTENDS LtiAgs, TLAPS

\* A request under way has its tool; one that saves has a row that was validated.
Sound(r) ==
    /\ r.pc # "idle" => r.tool \in Tools
    /\ r.pc \in {"save", "publish"} =>
          r.item \in ItemId /\ r.user \in Users /\ r.row \in Report /\ ValidMaximum(r.row)

RequestsSound == \A w \in Workers : req[w] \in Request /\ Sound(req[w])

AgsInv == TypeOK /\ RequestsSound /\ ScoresAreFractions

---------------------------------------------------------------------------
(* Requests *)

LEMMA IdleSound == Idle \in Request /\ Sound(Idle) /\ Idle.pc = "idle"
<1>1. /\ Idle \in Request /\ Idle.pc = "idle"
  BY DEF Idle, Request
<1> QED BY <1>1 DEF Sound

\* A worker's request replaced by a sound one leaves all of them sound.
LEMMA SetKeeps ==
    ASSUME RequestsSound, req \in [Workers -> Request], NEW w \in Workers,
           NEW r \in Request, Sound(r), Set(w, r)
    PROVE  /\ req' \in [Workers -> Request] /\ RequestsSound'
           /\ req'[w] = r
<1>1. req' = [req EXCEPT ![w] = r]
  BY DEF Set
<1>2. \A v \in Workers : req'[v] = IF v = w THEN r ELSE req[v]
  BY <1>1
<1>3. RequestsSound'
  BY <1>2 DEF RequestsSound, Sound, ValidMaximum
<1> QED BY <1>1, <1>2, <1>3

LEMMA StopKeeps ==
    ASSUME RequestsSound, req \in [Workers -> Request], NEW w \in Workers, Stop(w)
    PROVE  req' \in [Workers -> Request] /\ RequestsSound' /\ req'[w] = Idle
BY IdleSound, SetKeeps DEF Stop

\* A request that goes on keeps its tool.
LEMMA PcKeeps ==
    ASSUME RequestsSound, req \in [Workers -> Request], NEW w \in Workers,
           NEW pc \in {"newitem", "handle", "denied"},
           req[w].pc # "idle", Set(w, [req[w] EXCEPT !.pc = pc])
    PROVE  req' \in [Workers -> Request] /\ RequestsSound'
<1> DEFINE r == [req[w] EXCEPT !.pc = pc]
<1>1. req[w] \in Request /\ req[w].tool \in Tools
  BY DEF RequestsSound, Sound
<1>2. r \in Request /\ r.pc = pc /\ r.tool \in Tools
  BY <1>1 DEF Request
<1>3. Sound(r)
  BY <1>2 DEF Sound
<1> QED BY <1>2, <1>3, SetKeeps

LEMMA AfterSetupKeeps ==
    ASSUME RequestsSound, req \in [Workers -> Request], NEW w \in Workers,
           req[w].pc # "idle", AfterSetup(w)
    PROVE  req' \in [Workers -> Request] /\ RequestsSound'
<1>1. \/ Stop(w)
      \/ Set(w, [req[w] EXCEPT !.pc = "handle"])
      \/ Set(w, [req[w] EXCEPT !.pc = "denied"])
  BY DEF AfterSetup
<1> QED BY <1>1, StopKeeps, PcKeeps

---------------------------------------------------------------------------
(* Rows *)

Items == [ItemId -> LineItem \cup {None}]
Scores == [ItemId -> [Users -> ScoreRow \cup {None}]]
Grades == [Blocks -> [Users -> Fraction \cup {None}]]

LEMMA NewItemTyped ==
    ASSUME TypeOK, NEW t \in Tools, NEW link \in Blocks \cup {None}, NewItem(t, link)
    PROVE  item' \in Items /\ items' \in 0..MaxItems
<1>1. items' \in 0..MaxItems /\ MaxItems \in Nat
  BY AgsAssumption DEF TypeOK, NewItem
<1>2. [tool |-> t, link |-> link] \in LineItem
  BY DEF LineItem
<1>3. item' = [item EXCEPT ![items'] = [tool |-> t, link |-> link]]
  BY DEF NewItem
<1>4. item' \in Items
  BY <1>2, <1>3 DEF Items, TypeOK
<1> QED BY <1>1, <1>4

\* What a sound request saves is a score row with a maximum to divide by ...
LEMMA SavedSound ==
    ASSUME TypeOK, ScoresAreFractions, NEW r \in Request, Sound(r), r.pc = "save",
           score' = Saved(r)
    PROVE  /\ score' \in Scores
           /\ \A i \in ItemId, u \in Users : LET s == score'[i][u] IN
                s # None /\ s.given # None => s.max # None /\ s.max > 0
<1> DEFINE row == [ts |-> r.row.ts, given |-> r.row.given, max |-> r.row.max,
                   progress |-> r.row.progress, late |-> Location[r.tool] \in pastDue]
<1>1. /\ r.item \in ItemId /\ r.user \in Users /\ r.row \in Report /\ ValidMaximum(r.row)
  BY DEF Sound
<1>2. row \in ScoreRow
  BY <1>1 DEF Report, ScoreRow
<1>3. row.given # None => row.max # None /\ row.max > 0
  <2>1. row.given = r.row.given /\ row.max = r.row.max /\ row.max \in Points
    BY <1>1 DEF Report
  <2> QED BY <1>1, <2>1, AgsAssumption DEF ValidMaximum, Points
<1>4. score' = [score EXCEPT ![r.item][r.user] = row]
  BY DEF Saved
<1> HIDE DEF row
<1>5. \A i \in ItemId, u \in Users :
        score'[i][u] = IF i = r.item /\ u = r.user THEN row ELSE score[i][u]
  BY <1>1, <1>4 DEF TypeOK
<1>6. score' \in Scores
  BY <1>1, <1>2, <1>4 DEF TypeOK, Scores
<1> QED BY <1>3, <1>5, <1>6 DEF ScoresAreFractions

\* ... and what it publishes, if anything, a proper fraction in the tool's own block.
LEMMA PublishedSound ==
    ASSUME TypeOK, ScoresAreFractions, NEW r \in Request, Sound(r),
           r.pc \in {"save", "publish"}, gradebook' = Published(r)
    PROVE  /\ gradebook' \in Grades
           /\ \A b \in Blocks, u \in Users : LET g == gradebook'[b][u] IN
                g # None => g.den > 0 /\ g.num <= g.den
           /\ \A b \in Blocks : gradebook'[b] # gradebook[b] => b = Location[r.tool]
<1>1. /\ r.tool \in Tools /\ r.user \in Users /\ r.row \in Report /\ ValidMaximum(r.row)
  BY DEF Sound
<1>2. CASE InScope(r) /\ Final(r) /\ TakesGrades(r.link)
  <2> DEFINE g == Grade(r.row)
  <2>1. r.link \in Blocks /\ r.link = Location[r.tool]
    BY <1>1, <1>2, AgsAssumption DEF InScope
  <2>2. r.row.given \in 0..MaxPoints /\ r.row.max \in 0..MaxPoints /\ r.row.max # 0
    BY <1>1, <1>2 DEF Final, ValidMaximum, Report, Points
  <2>3. g \in Fraction /\ g.den > 0 /\ g.num <= g.den
    BY <2>2, AgsAssumption DEF Grade, Fraction
  <2>4. gradebook' = [gradebook EXCEPT ![r.link][r.user] = g]
    BY <1>2 DEF Published
  <2> HIDE DEF g
  <2>5. gradebook' \in Grades
    BY <1>1, <2>1, <2>3, <2>4 DEF TypeOK, Grades
  <2>6. \A b \in Blocks, u \in Users :
          gradebook'[b][u] = IF b = r.link /\ u = r.user THEN g ELSE gradebook[b][u]
    BY <1>1, <2>1, <2>4 DEF TypeOK
  <2>7. \A b \in Blocks : b # r.link => gradebook'[b] = gradebook[b]
    BY <2>4 DEF TypeOK
  <2> QED BY <2>1, <2>3, <2>5, <2>6, <2>7 DEF ScoresAreFractions
<1>3. CASE ~(InScope(r) /\ Final(r) /\ TakesGrades(r.link))
  BY <1>3 DEF Published, TypeOK, Grades, ScoresAreFractions
<1> QED BY <1>2, <1>3

---------------------------------------------------------------------------
(* Steps *)

\* What a step of the requests, or of their tables, leaves alone keeps its type.
LEMMA RequestStepKeeps ==
    ASSUME AgsInv, req' \in [Workers -> Request], RequestsSound',
           UNCHANGED <<score, gradebook, pastDue, edits>>,
           item' \in Items, items' \in 0..MaxItems, requests' \in 0..MaxRequests
    PROVE  AgsInv'
BY DEF AgsInv, TypeOK, ScoresAreFractions, Items

LEMMA AgsStep ==
    ASSUME AgsInv, [Next]_vars
    PROVE  AgsInv'
<1>1. /\ TypeOK /\ RequestsSound /\ ScoresAreFractions /\ item \in Items
      /\ items \in 0..MaxItems /\ requests \in 0..MaxRequests
      /\ req \in [Workers -> Request]
  BY DEF AgsInv, TypeOK, Items
<1>2. ASSUME NEW w \in Workers, NEW t \in Tools, NEW op \in Operations, Begin(w, t, op)
      PROVE  AgsInv'
  <2> DEFINE r == [Idle EXCEPT !.pc = "setup", !.op = op, !.tool = t]
  <2>1. r \in Request /\ r.pc = "setup" /\ r.tool = t
    BY DEF Idle, Request
  <2>2. Sound(r)
    BY <2>1 DEF Sound
  <2>3. req' \in [Workers -> Request] /\ RequestsSound'
    BY <1>1, <1>2, <2>1, <2>2, SetKeeps DEF Begin
  <2>4. requests' \in 0..MaxRequests
    BY <1>1, <1>2, AgsAssumption DEF Begin
  <2> QED BY <1>1, <1>2, <2>3, <2>4, RequestStepKeeps DEF Begin
<1>3. ASSUME NEW w \in Workers, SetupAgs(w) PROVE AgsInv'
  <2>1. req' \in [Workers -> Request] /\ RequestsSound'
    BY <1>1, <1>3, PcKeeps, AfterSetupKeeps DEF SetupAgs, At
  <2> QED BY <1>1, <1>3, <2>1, RequestStepKeeps DEF SetupAgs
<1>4. ASSUME NEW w \in Workers, CreateOwnItem(w) PROVE AgsInv'
  <2>1. req' \in [Workers -> Request] /\ RequestsSound' /\ req[w].tool \in Tools
    BY <1>1, <1>4, AfterSetupKeeps DEF CreateOwnItem, At, RequestsSound, Sound
  <2>2. Location[req[w].tool] \in Blocks \cup {None}
    BY <2>1, AgsAssumption
  <2>3. item' \in Items /\ items' \in 0..MaxItems
    BY <1>1, <1>4, <2>1, <2>2, NewItemTyped DEF CreateOwnItem
  <2> QED BY <1>1, <1>4, <2>1, <2>3, RequestStepKeeps DEF CreateOwnItem
<1>5. ASSUME NEW w \in Workers, Refuse(w) \/ NotFound(w) PROVE AgsInv'
  <2>1. req' \in [Workers -> Request] /\ RequestsSound'
    BY <1>1, <1>5, StopKeeps DEF Refuse, NotFound
  <2> QED BY <1>1, <1>5, <2>1, RequestStepKeeps DEF Refuse, NotFound
<1>6. ASSUME NEW w \in Workers, NEW link \in Blocks \cup {None}, PostLineItem(w, link)
      PROVE  AgsInv'
  <2>1. req' \in [Workers -> Request] /\ RequestsSound' /\ req[w].tool \in Tools
    BY <1>1, <1>6, StopKeeps DEF PostLineItem, Handles, At, RequestsSound, Sound
  <2>2. item' \in Items /\ items' \in 0..MaxItems
    BY <1>1, <1>6, <2>1, NewItemTyped DEF PostLineItem
  <2> QED BY <1>1, <1>6, <2>1, <2>2, RequestStepKeeps DEF PostLineItem
<1>7. ASSUME NEW w \in Workers, NEW link \in Blocks \cup {None}, NEW i \in ItemId,
             PutLineItem(w, i, link)
      PROVE  AgsInv'
  <2>1. req' \in [Workers -> Request] /\ RequestsSound'
    BY <1>1, <1>7, StopKeeps DEF PutLineItem
  <2>2. item[i] \in LineItem
    BY <1>1, <1>7 DEF PutLineItem, ItemsOf, Items
  <2>3. [item[i] EXCEPT !.link = link] \in LineItem
    BY <2>2 DEF LineItem
  <2>4. item' \in Items
    BY <1>1, <1>7, <2>3 DEF PutLineItem, Items
  <2> QED BY <1>1, <1>7, <2>1, <2>4, RequestStepKeeps DEF PutLineItem
<1>8. ASSUME NEW w \in Workers, NEW i \in ItemId, NEW u \in Users, NEW r \in Reports,
             PostScore(w, i, u, r)
      PROVE  AgsInv'
  <2>1. req[w] \in Request /\ req[w].tool \in Tools /\ item[i] \in LineItem /\ r \in Report
    BY <1>1, <1>8, ReportsAssumption
       DEF PostScore, Handles, At, RequestsSound, Sound, ItemsOf, Items
  <2> DEFINE new == score[i][u] = None
             link == item[i].link
             s == [req[w] EXCEPT !.pc = "save", !.item = i, !.link = link, !.user = u,
                                 !.new = new, !.row = r]
  <2>2. new \in BOOLEAN /\ link \in Blocks \cup {None}
    BY <2>1 DEF LineItem
  <2>3. Stop(w) \/ (Set(w, s) /\ ValidMaximum(r))
    BY <1>8 DEF PostScore
  <2> HIDE DEF new, link
  <2>4. /\ s \in Request /\ s.pc = "save" /\ s.tool = req[w].tool /\ s.item = i
        /\ s.user = u /\ s.row = r
    BY <2>1, <2>2 DEF Request
  <2>5. ValidMaximum(r) => Sound(s)
    BY <2>1, <2>4 DEF Sound
  <2>6. req' \in [Workers -> Request] /\ RequestsSound'
    BY <1>1, <2>3, <2>4, <2>5, StopKeeps, SetKeeps
  <2> QED BY <1>1, <1>8, <2>6, RequestStepKeeps DEF PostScore
<1>9. ASSUME NEW w \in Workers, SaveScore(w) PROVE AgsInv'
  <2> DEFINE r == [req[w] EXCEPT !.pc = "publish"]
  <2>1. req[w] \in Request /\ Sound(req[w]) /\ req[w].pc = "save"
    BY <1>1, <1>9 DEF SaveScore, At, RequestsSound
  <2>2. /\ r \in Request /\ r.pc = "publish" /\ r.tool = req[w].tool
        /\ r.item = req[w].item /\ r.user = req[w].user /\ r.row = req[w].row
    BY <2>1 DEF Request
  <2>3. Sound(r)
    BY <2>1, <2>2 DEF Sound
  <2>4. req' \in [Workers -> Request] /\ RequestsSound'
    BY <1>1, <1>9, <2>2, <2>3, SetKeeps, StopKeeps DEF SaveScore
  <2>5. /\ score' \in Scores
        /\ \A i \in ItemId, u \in Users : LET s == score'[i][u] IN
             s # None /\ s.given # None => s.max # None /\ s.max > 0
    <3>1. CASE score' = Saved(req[w])
      BY <1>1, <2>1, <3>1, SavedSound
    <3>2. CASE UNCHANGED score
      BY <1>1, <3>2 DEF TypeOK, Scores, ScoresAreFractions
    <3> QED BY <1>9, <3>1, <3>2 DEF SaveScore
  <2> QED BY <1>1, <1>9, <2>4, <2>5
             DEF SaveScore, AgsInv, TypeOK, ScoresAreFractions, Scores
<1>10. ASSUME NEW w \in Workers, PublishScore(w) PROVE AgsInv'
  <2>1. req[w] \in Request /\ Sound(req[w]) /\ req[w].pc = "publish"
    BY <1>1, <1>10 DEF PublishScore, At, RequestsSound
  <2>2. req' \in [Workers -> Request] /\ RequestsSound'
    BY <1>1, <1>10, StopKeeps DEF PublishScore
  <2>3. /\ gradebook' \in Grades
        /\ \A b \in Blocks, u \in Users : LET g == gradebook'[b][u] IN
             g # None => g.den > 0 /\ g.num <= g.den
    <3>1. CASE gradebook' = Published(req[w])
      BY <1>1, <2>1, <3>1, PublishedSound
    <3>2. CASE UNCHANGED gradebook
      BY <1>1, <3>2 DEF TypeOK, Grades, ScoresAreFractions
    <3> QED BY <1>10, <3>1, <3>2 DEF PublishScore
  <2> QED BY <1>1, <1>10, <2>2, <2>3
             DEF PublishScore, AgsInv, TypeOK, ScoresAreFractions, Grades
<1>11. ASSUME NEW w \in Workers, CommitScore(w) PROVE AgsInv'
  <2>1. req[w] \in Request /\ Sound(req[w]) /\ req[w].pc = "save"
    BY <1>1, <1>11 DEF CommitScore, At, RequestsSound
  <2>2. req' \in [Workers -> Request] /\ RequestsSound'
    BY <1>1, <1>11, StopKeeps DEF CommitScore
  <2>3. CASE score' = Saved(req[w]) /\ gradebook' = Published(req[w])
    <3>1. /\ score' \in Scores
          /\ \A i \in ItemId, u \in Users : LET s == score'[i][u] IN
               s # None /\ s.given # None => s.max # None /\ s.max > 0
      BY <1>1, <2>1, <2>3, SavedSound
    <3>2. /\ gradebook' \in Grades
          /\ \A b \in Blocks, u \in Users : LET g == gradebook'[b][u] IN
               g # None => g.den > 0 /\ g.num <= g.den
      BY <1>1, <2>1, <2>3, PublishedSound
    <3> QED BY <1>1, <1>11, <2>2, <3>1, <3>2
               DEF CommitScore, AgsInv, TypeOK, ScoresAreFractions, Scores, Grades
  <2>4. CASE UNCHANGED <<score, gradebook>>
    BY <1>1, <1>11, <2>2, <2>4 DEF CommitScore, AgsInv, TypeOK, ScoresAreFractions
  <2> QED BY <1>11, <2>3, <2>4 DEF CommitScore
<1>12. ASSUME NEW b \in Blocks, MoveDueDate(b) PROVE AgsInv'
  <2>1. pastDue' \subseteq Blocks /\ edits' \in 0..MaxEdits
    BY <1>1, <1>12, AgsAssumption DEF MoveDueDate, Edit, TypeOK
  <2> QED BY <1>1, <1>12, <2>1
             DEF MoveDueDate, AgsInv, TypeOK, ScoresAreFractions, RequestsSound, Sound,
                 ValidMaximum
<1>13. ASSUME NEW i \in ItemId, AdminDeleteItem(i) PROVE AgsInv'
  <2>1. item' \in Items /\ score' \in Scores
    BY <1>1, <1>13 DEF AdminDeleteItem, TypeOK, Items, Scores
  <2>2. \A j \in ItemId, u \in Users : score'[j][u] = IF j = i THEN None ELSE score[j][u]
    BY <1>1, <1>13 DEF AdminDeleteItem, TypeOK
  <2>3. ScoresAreFractions'
    BY <1>1, <1>13, <2>2 DEF AdminDeleteItem, ScoresAreFractions
  <2>4. edits' \in 0..MaxEdits
    BY <1>1, <1>13, AgsAssumption DEF AdminDeleteItem, Edit, TypeOK
  <2>5. RequestsSound'
    BY <1>1, <1>13 DEF AdminDeleteItem, RequestsSound, Sound, ValidMaximum
  <2> QED BY <1>1, <1>13, <2>1, <2>3, <2>4, <2>5
             DEF AdminDeleteItem, AgsInv, TypeOK, Items, Scores
<1>14. CASE UNCHANGED vars
  BY <1>14 DEF vars, AgsInv, TypeOK, ScoresAreFractions, RequestsSound, Sound, ValidMaximum
<1> QED BY <1>2, <1>3, <1>4, <1>5, <1>6, <1>7, <1>8, <1>9, <1>10, <1>11, <1>12, <1>13, <1>14
           DEF Next

LEMMA AgsInit == Init => AgsInv
<1> SUFFICES ASSUME Init PROVE AgsInv
  OBVIOUS
<1>1. req \in [Workers -> Request] /\ RequestsSound
  BY IdleSound DEF Init, RequestsSound
<1>2. TypeOK
  BY <1>1, AgsAssumption DEF Init, TypeOK
<1>3. ScoresAreFractions
  BY DEF Init, ScoresAreFractions
<1> QED BY <1>1, <1>2, <1>3 DEF AgsInv

LEMMA AgsAlways == Spec => []AgsInv
BY AgsInit, AgsStep, PTL DEF Spec

\* The rows, the gradebook and the requests keep their types.
THEOREM AgsTypeCorrect == Spec => []TypeOK
<1>1. AgsInv => TypeOK
  BY DEF AgsInv
<1> QED BY <1>1, AgsAlways, PTL

\* Every grade published, and every score stored, is a fraction that can be shown.
THEOREM NoDivisionByZero == Spec => []ScoresAreFractions
<1>1. AgsInv => ScoresAreFractions
  BY DEF AgsInv
<1> QED BY <1>1, AgsAlways, PTL

\* Wherever its line items point, and whenever it moves them, a tool changes grades
\* in the block of its own configuration only.
THEOREM GradesStayInOwnBlock == Spec => ToolsGradeOwnBlock
<1> DEFINE Own(b) == \E w \in Workers : /\ req[w].tool # None /\ Location[req[w].tool] = b
                                        /\ req'[w] # req[w]
<1>1. ASSUME AgsInv, Next, NEW b \in Blocks, gradebook'[b] # gradebook[b]
      PROVE  Own(b)
  <2>1. PICK w \in Workers : \/ PublishScore(w) /\ gradebook' = Published(req[w])
                             \/ CommitScore(w) /\ gradebook' = Published(req[w])
    BY <1>1 DEF Next, Begin, SetupAgs, CreateOwnItem, Refuse, NotFound, PostLineItem,
                PutLineItem, PostScore, SaveScore, PublishScore, CommitScore, MoveDueDate,
                AdminDeleteItem
  <2>2. /\ req[w] \in Request /\ Sound(req[w]) /\ req[w].pc \in {"save", "publish"}
        /\ req \in [Workers -> Request] /\ RequestsSound
    BY <1>1, <2>1 DEF PublishScore, CommitScore, At, AgsInv, RequestsSound, TypeOK
  <2>3. req[w].tool \in Tools /\ b = Location[req[w].tool]
    BY <1>1, <2>1, <2>2, PublishedSound DEF AgsInv, Sound
  <2>4. Stop(w)
    BY <2>1 DEF PublishScore, CommitScore
  <2>5. req'[w] = Idle
    BY <2>2, <2>4, StopKeeps
  <2> QED BY <2>2, <2>3, <2>5, IdleSound, AgsAssumption
<1>2. AgsInv /\ [Next]_vars => [\A b \in Blocks : gradebook'[b] # gradebook[b] => Own(b)]_vars
  BY <1>1
<1> QED BY <1>2, AgsAlways, PTL DEF Spec, ToolsGradeOwnBlock

---------------------------------------------------------------------------
(* Requests served one at a time *)

\* A request that read a score still finds it when it saves its own.
LaterThanStored(r) ==
    r.pc = "save" /\ score[r.item][r.user] # None => score[r.item][r.user].ts < r.row.ts

SerialAgs ==
    /\ AgsInv
    /\ \A v, w \in Workers : At(v, "idle") \/ At(w, "idle") \/ v = w
    /\ \A w \in Workers : LaterThanStored(req[w])

\* The only line item of a tool is the one made for it, in its own block.
OneItemEach ==
    \A i, j \in ItemId : item[i] # None /\ item[j] # None /\ item[i].tool = item[j].tool
        => i = j
LinkedToOwnBlock == \A i \in ItemId : item[i] # None => item[i].link = Location[item[i].tool]
ScoresHaveItems ==
    \A i \in ItemId : /\ i > items => item[i] = None
                      /\ item[i] = None => \A u \in Users : score[i][u] = None
GradesFollow ==
    \A i \in ItemId, u \in Users : LET r == score[i][u] IN
        r # None /\ Due(i, r) /\ r.given # None /\ r.given # 0
        => gradebook[item[i].link][u] = Grade(r)
HoldsOwnItem(r) ==
    /\ r.pc # "publish"
    /\ r.pc = "newitem" => ItemsOf(r.tool) = {}
    /\ r.pc = "save" => item[r.item] # None /\ item[r.item].tool = r.tool
                        /\ item[r.item].link = r.link

LedgerInv ==
    /\ SerialAgs /\ OneItemEach /\ LinkedToOwnBlock /\ ScoresHaveItems /\ GradesFollow
    /\ \A w \in Workers : HoldsOwnItem(req[w])

\* What the requests do, and what authors, admins and the clock do
Serves(w) ==
    \/ \E t \in Tools, op \in Operations : Begin(w, t, op)
    \/ SetupAgs(w) \/ CreateOwnItem(w) \/ Refuse(w) \/ NotFound(w)
    \/ \E link \in Blocks \cup {None} :
        \/ PostLineItem(w, link)
        \/ \E i \in ItemId : PutLineItem(w, i, link)
    \/ \E i \in ItemId, u \in Users, r \in Reports : PostScore(w, i, u, r)
    \/ SaveScore(w) \/ PublishScore(w) \/ CommitScore(w)
Edits ==
    \/ \E b \in Blocks : MoveDueDate(b)
    \/ \E i \in ItemId : AdminDeleteItem(i)

LEMMA ServesOrEdits == Next <=> Edits \/ \E w \in Workers : Serves(w)
BY DEF Next, Serves, Edits

LEMMA OthersRest ==
    ASSUME Serial, SerialAgs, NEW w \in Workers, Serves(w)
    PROVE  \A v \in Workers \ {w} : At(v, "idle") /\ req'[v] = req[v]
<1>1. \E r : Set(w, r)
  BY DEF Serves, Begin, SetupAgs, CreateOwnItem, AfterSetup, Refuse, NotFound, PostLineItem,
         PutLineItem, PostScore, SaveScore, PublishScore, CommitScore, Stop
<1>2. \A v \in Workers \ {w} : req'[v] = req[v]
  BY <1>1 DEF Set, SerialAgs, AgsInv, TypeOK
<1>3. ~At(w, "idle") \/ \E t \in Tools, op \in Operations : Begin(w, t, op)
  BY DEF Serves, At, SetupAgs, CreateOwnItem, Refuse, NotFound, PostLineItem, PutLineItem,
         Handles, PostScore, SaveScore, PublishScore, CommitScore
<1>4. \A v \in Workers \ {w} : At(v, "idle")
  BY <1>3 DEF Begin, Quiet, SerialAgs
<1> QED BY <1>2, <1>4

\* Only a score request comes to the point of saving, and only after it found the
\* stored score older than its own.
LEMMA SaverRead ==
    ASSUME SerialAgs, NEW w \in Workers, Serves(w), req'[w].pc = "save"
    PROVE  /\ LaterThanStored(req[w])'
           /\ \E i \in ItemId, u \in Users, r \in Reports :
                PostScore(w, i, u, r) /\ req'[w].item = i /\ req'[w].link = item[i].link
                /\ req'[w].tool = req[w].tool
<1> USE DEF SerialAgs, AgsInv, TypeOK
<1>1. req[w] \in Request /\ RequestsSound
  BY DEF RequestsSound
<1>2. ASSUME Stop(w) PROVE FALSE
  BY <1>1, <1>2, StopKeeps, IdleSound
<1>3. ASSUME NEW pc \in {"newitem", "handle", "denied", "publish"}, Set(w, [req[w] EXCEPT !.pc = pc])
      PROVE  FALSE
  <2>1. req'[w].pc = pc
    BY <1>1, <1>3 DEF Set, Request
  <2> QED BY <2>1
<1>4. ASSUME NEW t, NEW op, Begin(w, t, op) PROVE FALSE
  <2>1. req'[w] = [Idle EXCEPT !.pc = "setup", !.op = op, !.tool = t]
    BY <1>4 DEF Begin, Set
  <2> QED BY <2>1 DEF Idle
<1>5. ~SetupAgs(w) /\ ~CreateOwnItem(w)
  BY <1>2, <1>3 DEF SetupAgs, CreateOwnItem, AfterSetup
<1>6. ~SaveScore(w) /\ ~PublishScore(w) /\ ~CommitScore(w) /\ ~Refuse(w) /\ ~NotFound(w)
  BY <1>2, <1>3 DEF SaveScore, PublishScore, CommitScore, Refuse, NotFound
<1>7. PICK i \in ItemId, u \in Users, r \in Reports : PostScore(w, i, u, r)
  BY <1>2, <1>4, <1>5, <1>6 DEF Serves, PostLineItem, PutLineItem
<1>8. /\ ValidTimestamp(score[i][u], r.ts)
      /\ Set(w, [req[w] EXCEPT !.pc = "save", !.item = i, !.link = item[i].link,
                               !.user = u, !.new = (score[i][u] = None), !.row = r])
  BY <1>2, <1>7 DEF PostScore
<1>9. req'[w] = [req[w] EXCEPT !.pc = "save", !.item = i, !.link = item[i].link,
                               !.user = u, !.new = (score[i][u] = None), !.row = r]
  BY <1>8 DEF Set
<1>10. /\ req'[w].item = i /\ req'[w].link = item[i].link /\ req'[w].tool = req[w].tool
       /\ req'[w].user = u /\ req'[w].row = r
  BY <1>1, <1>9 DEF Request
<1>11. UNCHANGED score
  BY <1>7 DEF PostScore
<1> QED BY <1>7, <1>8, <1>10, <1>11 DEF LaterThanStored, ValidTimestamp

LEMMA SerialAgsStep ==
    ASSUME Serial, SerialAgs, [Next]_vars
    PROVE  SerialAgs'
<1>1. AgsInv'
  BY AgsStep DEF SerialAgs
<1>2. ASSUME NEW w \in Workers, Serves(w) PROVE SerialAgs'
  <2>1. \A v \in Workers \ {w} : At(v, "idle") /\ req'[v] = req[v]
    BY <1>2, OthersRest
  <2>2. LaterThanStored(req[w])'
    BY <1>2, SaverRead DEF LaterThanStored
  <2>3. \A v \in Workers \ {w} : LaterThanStored(req[v])'
    BY <2>1 DEF LaterThanStored, At
  <2> QED BY <1>1, <2>1, <2>2, <2>3 DEF SerialAgs, At
<1>3. CASE Edits
  <2>1. UNCHANGED req /\ \A w \in Workers : At(w, "idle")
    BY <1>3 DEF Edits, MoveDueDate, AdminDeleteItem, Edit, Quiet
  <2> QED BY <1>1, <2>1 DEF SerialAgs, At, LaterThanStored
<1>4. CASE UNCHANGED vars
  BY <1>1, <1>4 DEF vars, SerialAgs, At, LaterThanStored
<1> QED BY <1>2, <1>3, <1>4, ServesOrEdits

LEMMA SerialAgsInit == Init => SerialAgs
BY AgsInit, IdleSound DEF Init, SerialAgs, At, LaterThanStored

LEMMA SerialAgsAlways ==
    ASSUME Serial
    PROVE  Spec => []SerialAgs
<1>1. SerialAgs /\ [Next]_vars => SerialAgs'
  BY SerialAgsStep
<1> QED BY <1>1, SerialAgsInit, PTL DEF Spec

\* What a request saves
LEMMA SavedRow ==
    ASSUME AgsInv, NEW w \in Workers, At(w, "save"), score' = Saved(req[w])
    PROVE  LET r == req[w] IN
           /\ r.item \in ItemId /\ r.user \in Users /\ r.row \in Report
           /\ score'[r.item][r.user].ts = r.row.ts
           /\ score'[r.item][r.user].given = r.row.given
           /\ score'[r.item][r.user].max = r.row.max
           /\ score'[r.item][r.user].progress = r.row.progress
           /\ score'[r.item][r.user].late = (Location[r.tool] \in pastDue)
           /\ \A i \in ItemId, u \in Users :
                i # r.item \/ u # r.user => score'[i][u] = score[i][u]
<1> DEFINE r == req[w]
           row == [ts |-> r.row.ts, given |-> r.row.given, max |-> r.row.max,
                   progress |-> r.row.progress, late |-> Location[r.tool] \in pastDue]
<1>1. r.item \in ItemId /\ r.user \in Users /\ r.row \in Report
  BY DEF At, AgsInv, RequestsSound, Sound
<1>2. score' = [score EXCEPT ![r.item][r.user] = row]
  BY DEF Saved
<1>3. /\ row.ts = r.row.ts /\ row.given = r.row.given /\ row.max = r.row.max
      /\ row.progress = r.row.progress /\ row.late = (Location[r.tool] \in pastDue)
  OBVIOUS
<1> HIDE DEF row
<1>4. \A i \in ItemId, u \in Users :
        score'[i][u] = IF i = r.item /\ u = r.user THEN row ELSE score[i][u]
  BY <1>1, <1>2 DEF AgsInv, TypeOK
<1> QED BY <1>1, <1>3, <1>4

\* Requests one at a time: whatever line items and scores a tool writes, with and
\* without ATOMIC_REQUESTS, a stored score is replaced by a later one only
\* (serializers.py:139); two requests at once break this (ags_late_score).
THEOREM ScoresGetLater ==
    ASSUME Serial
    PROVE  Spec => TimestampsAdvance
<1> DEFINE Advance ==
       \A i \in ItemId, u \in Users :
          /\ score[i][u] # None /\ score'[i][u] # None
          /\ score'[i][u] # score[i][u]
          => score[i][u].ts < score'[i][u].ts
<1>1. ASSUME SerialAgs, Next, NEW i \in ItemId, NEW u \in Users,
             score[i][u] # None, score'[i][u] # None, score'[i][u] # score[i][u]
      PROVE  score[i][u].ts < score'[i][u].ts
  <2>1. ASSUME NEW j \in ItemId, AdminDeleteItem(j) PROVE FALSE
    <3>1. score'[i] \in {score[i], [v \in Users |-> None]}
      BY <2>1, <1>1 DEF AdminDeleteItem, SerialAgs, AgsInv, TypeOK
    <3> QED BY <1>1, <3>1
  <2>2. PICK w \in Workers : At(w, "save") /\ score' = Saved(req[w])
    BY <1>1, <2>1 DEF Next, Begin, SetupAgs, CreateOwnItem, Refuse, NotFound, PostLineItem,
                PutLineItem, PostScore, SaveScore, PublishScore, CommitScore, MoveDueDate
  <2>3. AgsInv /\ LaterThanStored(req[w])
    BY <1>1 DEF SerialAgs
  <2> QED BY <1>1, <2>2, <2>3, SavedRow DEF LaterThanStored, At
<1>2. SerialAgs /\ [Next]_vars => [Advance]_vars
  BY <1>1
<1> QED BY <1>2, SerialAgsAlways, PTL DEF Spec, TimestampsAdvance

---------------------------------------------------------------------------
(* ... of tools that score the line item made for them *)

\* The tool neither makes line items nor moves them.
OwnItemsOnly == Operations \cap {"create", "update"} = {}

LEMMA NoItemCalls ==
    ASSUME OwnItemsOnly, AgsInv, NEW w \in Workers, NEW link, NEW i
    PROVE  ~PostLineItem(w, link) /\ ~PutLineItem(w, i, link)
<1>1. req[w].op \in Operations \cup {None}
  BY DEF AgsInv, RequestsSound, Request
<1> QED BY <1>1, AgsAssumption DEF OwnItemsOnly, PostLineItem, PutLineItem, Handles

\* Making the tool's own item, when it has none
LEMMA OwnItemMade ==
    ASSUME LedgerInv, NEW w \in Workers, CreateOwnItem(w)
    PROVE  OneItemEach' /\ LinkedToOwnBlock' /\ ScoresHaveItems' /\ GradesFollow'
<1> DEFINE t == req[w].tool
           new == [tool |-> t, link |-> Location[t]]
<1> USE DEF LedgerInv, SerialAgs, AgsInv
<1>1. t \in Tools /\ Location[t] \in Blocks /\ ItemsOf(t) = {}
  BY AgsAssumption DEF CreateOwnItem, At, RequestsSound, Sound, HoldsOwnItem
<1>2. items < MaxItems /\ items' = items + 1 /\ item' = [item EXCEPT ![items'] = new]
  BY DEF CreateOwnItem, NewItem
<1>3. items' \in ItemId /\ items \in Nat
  BY <1>2, AgsAssumption DEF TypeOK, ItemId
<1>4. new.tool = t /\ new.link = Location[t]
  OBVIOUS
<1> HIDE DEF new
<1>5. \A i \in ItemId : item'[i] = IF i = items' THEN new ELSE item[i]
  BY <1>2, <1>3 DEF TypeOK
<1>6. item[items'] = None /\ \A u \in Users : score[items'][u] = None
  BY <1>2, <1>3 DEF ScoresHaveItems
<1>7. UNCHANGED <<score, gradebook>>
  BY DEF CreateOwnItem
<1>8. \A i \in ItemId : item[i] # None => item[i].tool # t
  BY <1>1 DEF ItemsOf
<1>9. OneItemEach'
  BY <1>4, <1>5, <1>8 DEF OneItemEach
<1>10. LinkedToOwnBlock'
  BY <1>4, <1>5 DEF LinkedToOwnBlock
<1>11. ScoresHaveItems'
  BY <1>2, <1>3, <1>5, <1>6, <1>7 DEF ScoresHaveItems, ItemId
<1>12. GradesFollow'
  BY <1>5, <1>6, <1>7 DEF GradesFollow, Due
<1> QED BY <1>9, <1>10, <1>11, <1>12

\* The score is committed with its grade, or not at all.
LEMMA CommitFollows ==
    ASSUME LedgerInv, NEW w \in Workers, CommitScore(w)
    PROVE  ScoresHaveItems' /\ GradesFollow'
<1> DEFINE r == req[w]
<1> USE DEF LedgerInv, SerialAgs, AgsInv
<1>1. UNCHANGED <<item, items>> /\ r \in Request /\ Sound(r) /\ r.pc = "save" /\ HoldsOwnItem(r)
  BY DEF CommitScore, At, RequestsSound
<1>2. CASE UNCHANGED <<score, gradebook>>
  BY <1>1, <1>2 DEF ScoresHaveItems, GradesFollow, Due
<1>3. CASE score' = Saved(r) /\ gradebook' = Published(r)
  <2> DEFINE s == score'[r.item][r.user]
             b == Location[r.tool]
             final == b \in Graded /\ (b \notin pastDue \/ b \in AcceptLate)
                      /\ r.row.progress = "FullyGraded" /\ r.row.given # None /\ r.row.given # 0
  <2>1. /\ r.item \in ItemId /\ r.user \in Users /\ r.row \in Report
        /\ s.ts = r.row.ts /\ s.given = r.row.given /\ s.max = r.row.max
        /\ s.progress = r.row.progress /\ s.late = (b \in pastDue)
        /\ \A i \in ItemId, u \in Users :
             i # r.item \/ u # r.user => score'[i][u] = score[i][u]
    BY <1>1, <1>3, SavedRow DEF At
  <2>2. /\ item[r.item] # None /\ item[r.item].tool = r.tool /\ item[r.item].link = r.link
        /\ r.link = b /\ r.tool \in Tools /\ b \in Blocks /\ b # None
    BY <1>1, <2>1, AgsAssumption DEF HoldsOwnItem, LinkedToOwnBlock, Sound
  <2>3. \A i \in ItemId : item[i] # None /\ item[i].link = b => i = r.item
    BY <2>1, <2>2, AgsAssumption DEF LinkedToOwnBlock, OneItemEach, TypeOK, LineItem
  <2> HIDE DEF s, b
  <2>4. gradebook' = IF final THEN [gradebook EXCEPT ![b][r.user] = Grade(r.row)] ELSE gradebook
    BY <1>3, <2>2 DEF Published, InScope, Final, TakesGrades, b
  <2>5. \A c \in Blocks, u \in Users : c # b \/ u # r.user => gradebook'[c][u] = gradebook[c][u]
    BY <2>4 DEF TypeOK
  <2>6. final => gradebook'[b][r.user] = Grade(r.row)
    BY <2>1, <2>2, <2>4 DEF TypeOK
  <2>7. Grade(s) = Grade(r.row)
    BY <2>1 DEF Grade
  <2>8. ScoresHaveItems'
    BY <1>1, <2>1, <2>2 DEF ScoresHaveItems
  <2>9. ASSUME NEW i \in ItemId, NEW u \in Users, score'[i][u] # None, Due(i, score[i][u])',
               score'[i][u].given # None, score'[i][u].given # 0
        PROVE  gradebook'[item'[i].link][u] = Grade(score'[i][u])
    <3>1. CASE i = r.item /\ u = r.user
      <4>1. final
        BY <1>1, <2>1, <2>2, <2>9, <3>1 DEF Due, s, b
      <4> QED BY <1>1, <2>2, <2>6, <2>7, <3>1, <4>1 DEF s
    <3>2. CASE ~(i = r.item /\ u = r.user)
      <4>1. score'[i][u] = score[i][u]
        BY <2>1, <3>2
      <4>2. item[i] # None
        BY <2>9, <4>1 DEF ScoresHaveItems
      <4>3. Due(i, score[i][u])
        BY <1>1, <2>9, <4>1 DEF Due
      <4>4. gradebook[item[i].link][u] = Grade(score[i][u])
        BY <2>9, <4>1, <4>3 DEF GradesFollow
      <4>5. item[i].link \in Blocks /\ (item[i].link # b \/ u # r.user)
        BY <2>3, <3>2, <4>2, AgsAssumption DEF LinkedToOwnBlock, TypeOK, LineItem
      <4> QED BY <1>1, <2>5, <4>1, <4>4, <4>5
    <3> QED BY <3>1, <3>2
  <2> QED BY <2>8, <2>9 DEF GradesFollow
<1> QED BY <1>2, <1>3 DEF CommitScore

\* A deleted line item takes its scores with it.
LEMMA DeleteFollows ==
    ASSUME LedgerInv, NEW i \in ItemId, AdminDeleteItem(i)
    PROVE  OneItemEach' /\ LinkedToOwnBlock' /\ ScoresHaveItems' /\ GradesFollow'
<1> USE DEF LedgerInv, SerialAgs, AgsInv
<1>1. \A j \in ItemId : item'[j] = IF j = i THEN None ELSE item[j]
  BY DEF AdminDeleteItem, TypeOK
<1>2. \A j \in ItemId, u \in Users : score'[j][u] = IF j = i THEN None ELSE score[j][u]
  BY DEF AdminDeleteItem, TypeOK
<1>3. UNCHANGED <<items, gradebook>>
  BY DEF AdminDeleteItem
<1>4. OneItemEach' /\ LinkedToOwnBlock' /\ ScoresHaveItems'
  BY <1>1, <1>2, <1>3 DEF OneItemEach, LinkedToOwnBlock, ScoresHaveItems
<1>5. GradesFollow'
  BY <1>1, <1>2, <1>3 DEF GradesFollow, Due
<1> QED BY <1>4, <1>5

\* A request holds what it read of its own line item.
LEMMA HoldsOn ==
    ASSUME Atomic, LedgerInv, NEW w \in Workers, Serves(w), OwnItemsOnly
    PROVE  HoldsOwnItem(req[w])'
<1> USE DEF LedgerInv, SerialAgs, AgsInv
<1>1. req[w] \in Request /\ RequestsSound /\ Sound(req[w]) /\ req' \in [Workers -> Request]
  <2>1. AgsInv'
    BY AgsStep, ServesOrEdits
  <2> QED BY <2>1 DEF RequestsSound, TypeOK
<1>2. ASSUME req'[w].pc = "newitem" PROVE HoldsOwnItem(req[w])'
  <2>1. ~Stop(w)
    BY <1>1, <1>2, StopKeeps, IdleSound DEF TypeOK
  <2>2. ASSUME NEW r, r.pc # "newitem", Set(w, r) PROVE FALSE
    BY <1>2, <2>2 DEF Set, TypeOK
  <2>3. ~AfterSetup(w)
    <3>1. [req[w] EXCEPT !.pc = "handle"].pc = "handle" /\ [req[w] EXCEPT !.pc = "denied"].pc = "denied"
      BY <1>1 DEF Request
    <3> QED BY <2>1, <2>2, <3>1 DEF AfterSetup
  <2>4. \A t \in Tools, op \in Operations : ~Begin(w, t, op)
    <3>1. \A t, op : [Idle EXCEPT !.pc = "setup", !.op = op, !.tool = t].pc = "setup"
      BY DEF Idle
    <3> QED BY <2>2, <3>1 DEF Begin
  <2>5. ~SaveScore(w) /\ ~PublishScore(w) /\ ~CommitScore(w) /\ ~Refuse(w) /\ ~NotFound(w)
    BY <2>1 DEF SaveScore, PublishScore, CommitScore, Refuse, NotFound
  <2>6. ASSUME NEW i \in ItemId, NEW u \in Users, NEW r \in Reports, PostScore(w, i, u, r) PROVE FALSE
    <3>1. [req[w] EXCEPT !.pc = "save", !.item = i, !.link = item[i].link,
                         !.user = u, !.new = (score[i][u] = None), !.row = r].pc = "save"
      BY <1>1 DEF Request
    <3> QED BY <2>1, <2>2, <2>6, <3>1 DEF PostScore
  <2>7. SetupAgs(w) /\ NeedsItem(req[w].tool) /\ Set(w, [req[w] EXCEPT !.pc = "newitem"])
    BY <2>1, <2>3, <2>4, <2>5, <2>6 DEF Serves, SetupAgs, CreateOwnItem, PostLineItem, PutLineItem
  <2>8. req'[w] = [req[w] EXCEPT !.pc = "newitem"]
    BY <2>7 DEF Set, TypeOK
  <2>9. req'[w].tool = req[w].tool
    BY <1>1, <2>8 DEF Request
  <2> QED BY <1>2, <2>7, <2>9 DEF HoldsOwnItem, NeedsItem, ItemsOf, SetupAgs
<1>3. ASSUME req'[w].pc = "save" PROVE HoldsOwnItem(req[w])'
  <2>1. PICK i \in ItemId, u \in Users, r \in Reports :
            /\ PostScore(w, i, u, r) /\ req'[w].item = i /\ req'[w].link = item[i].link
            /\ req'[w].tool = req[w].tool
    BY <1>3, SaverRead
  <2>2. item[i] # None /\ item[i].tool = req[w].tool /\ UNCHANGED item
    BY <2>1 DEF PostScore, ItemsOf
  <2> QED BY <1>3, <2>1, <2>2 DEF HoldsOwnItem
<1>4. ASSUME req'[w].pc = "publish" PROVE FALSE
  <2>1. ASSUME NEW r, r.pc # "publish", Set(w, r) PROVE FALSE
    BY <1>4, <2>1 DEF Set, TypeOK
  <2>2. ~Stop(w)
    BY <2>1, IdleSound DEF Stop
  <2>3. \A pc \in {"newitem", "handle", "denied"} : [req[w] EXCEPT !.pc = pc].pc = pc
    BY <1>1 DEF Request
  <2>4. \A t, op : [Idle EXCEPT !.pc = "setup", !.op = op, !.tool = t].pc = "setup"
    BY DEF Idle
  <2>5. ASSUME NEW i \in ItemId, NEW u \in Users, NEW r \in Reports, PostScore(w, i, u, r) PROVE FALSE
    <3>1. [req[w] EXCEPT !.pc = "save", !.item = i, !.link = item[i].link,
                         !.user = u, !.new = (score[i][u] = None), !.row = r].pc = "save"
      BY <1>1 DEF Request
    <3> QED BY <2>1, <2>2, <2>5, <3>1 DEF PostScore
  <2>6. ~SetupAgs(w) /\ ~CreateOwnItem(w) /\ \A t \in Tools, op \in Operations : ~Begin(w, t, op)
    BY <2>1, <2>2, <2>3, <2>4 DEF SetupAgs, CreateOwnItem, AfterSetup, Begin
  <2> QED BY <2>2, <2>5, <2>6 DEF Serves, Refuse, NotFound, PostLineItem, PutLineItem,
                                  SaveScore, PublishScore, CommitScore
<1> QED BY <1>2, <1>3, <1>4 DEF HoldsOwnItem

LEMMA LedgerStep ==
    ASSUME Serial, Atomic, OwnItemsOnly, LedgerInv, [Next]_vars
    PROVE  LedgerInv'
<1> USE DEF LedgerInv
<1>1. SerialAgs'
  BY SerialAgsStep
<1>2. ASSUME NEW w \in Workers, Serves(w) PROVE LedgerInv'
  <2>1. HoldsOwnItem(req[w])'
    BY <1>2, HoldsOn
  <2>2. \A v \in Workers \ {w} : HoldsOwnItem(req[v])'
    BY <1>2, OthersRest DEF HoldsOwnItem, At
  <2>3. ~PublishScore(w) /\ ~SaveScore(w)
    BY DEF PublishScore, SaveScore, At, HoldsOwnItem
  <2>4. CASE CreateOwnItem(w)
    BY <1>1, <2>1, <2>2, <2>4, OwnItemMade
  <2>5. CASE CommitScore(w)
    <3>1. UNCHANGED item
      BY <2>5 DEF CommitScore
    <3> QED BY <1>1, <2>1, <2>2, <2>5, <3>1, CommitFollows DEF OneItemEach, LinkedToOwnBlock
  <2>6. CASE UNCHANGED <<item, items, score, gradebook>>
    BY <1>1, <2>1, <2>2, <2>6
       DEF OneItemEach, LinkedToOwnBlock, ScoresHaveItems, GradesFollow, Due
  <2> QED BY <1>2, <2>3, <2>4, <2>5, <2>6, NoItemCalls
          DEF Serves, SerialAgs, Begin, SetupAgs, Refuse, NotFound, PostScore
<1>3. CASE Edits
  <2>1. UNCHANGED req /\ \A w \in Workers : At(w, "idle")
    BY <1>3 DEF Edits, MoveDueDate, AdminDeleteItem, Edit, Quiet
  <2>2. \A w \in Workers : HoldsOwnItem(req[w])'
    BY <2>1 DEF HoldsOwnItem, At
  <2>3. CASE UNCHANGED <<item, items, score, gradebook>>
    BY <1>1, <2>2, <2>3 DEF OneItemEach, LinkedToOwnBlock, ScoresHaveItems, GradesFollow, Due
  <2> QED BY <1>1, <1>3, <2>2, <2>3, DeleteFollows DEF Edits, MoveDueDate
<1>4. CASE UNCHANGED vars
  BY <1>1, <1>4 DEF vars, OneItemEach, LinkedToOwnBlock, ScoresHaveItems, GradesFollow, Due,
                    HoldsOwnItem, ItemsOf
<1> QED BY <1>2, <1>3, <1>4, ServesOrEdits

LEMMA LedgerInit == Init => LedgerInv
<1> SUFFICES ASSUME Init PROVE LedgerInv
  OBVIOUS
<1>1. \A w \in Workers : HoldsOwnItem(req[w])
  BY IdleSound DEF Init, HoldsOwnItem
<1>2. \A i \in ItemId : item[i] = None /\ \A u \in Users : score[i][u] = None
  BY DEF Init
<1> QED BY <1>1, <1>2, SerialAgsInit
        DEF LedgerInv, OneItemEach, LinkedToOwnBlock, ScoresHaveItems, GradesFollow

\* Requests one at a time, each in one transaction (ATOMIC_REQUESTS): when a tool
\* scores the line item made for it, the gradebook holds the grade of each of its
\* final scores but zero, whatever the due dates were and whichever line items an
\* admin deletes (signals.py:23).
THEOREM GradebookFollows ==
    ASSUME Serial, Atomic, OwnItemsOnly
    PROVE  Spec => []GradebookFollowsScore
<1>1. LedgerInv /\ [Next]_vars => LedgerInv'
  BY LedgerStep
<1>2. LedgerInv => GradebookFollowsScore
  BY DEF LedgerInv, GradesFollow, GradebookFollowsScore
<1> QED BY <1>1, <1>2, LedgerInit, PTL DEF Spec

=============================================================================
