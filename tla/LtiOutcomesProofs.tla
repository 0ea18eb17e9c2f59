-------------------------- MODULE LtiOutcomesProofs --------------------------
(***************************************************************************)
(* Proofs about LtiOutcomes, for any number of learners and requests, any  *)
(* weights, scores and settings: what the book holds, who is refused, and  *)
(* that both services implement LtiGradebook.                              *)
(***************************************************************************)
EXTENDS LtiOutcomes, TLAPS

\* A request between two steps, at time n
Sound(r, n) ==
    /\ r.pc # "idle" => r.id \in Id /\ r.post \in Posts /\ r.block \in Settings
    /\ r.tardy => r.pc \in {"arrived", "refused"} /\ ~r.block.late /\ n > r.block.due
    /\ r.pc \in {"found", "published"} => r.post.op # "GET"

\* A handler that has published holds the row of its user alone: the grade is its
\* own, and what it replaced agrees with what is saved.
Holds(w) ==
    LET u == req[w].id.user IN
    /\ grade[u] = Published(w)
    /\ req[w].was.value = module[u].score
    /\ \A v \in Workers : At(v, "published") /\ req[v].id.user = u => v = w

IInv ==
    /\ TypeOK
    /\ \A w \in Workers : Sound(req[w], now)
    /\ \A w \in Workers : At(w, "published") => Holds(w)
    /\ GradeIsDuplicated

---------------------------------------------------------------------------
(* Scores *)

LEMMA Product ==
    ASSUME NEW F \in Nat, NEW M \in Nat, NEW a \in 0..F, NEW b \in 0..M
    PROVE  a * b \in 0..(F * M)
<1>1. a * b \in Nat /\ F * b \in Nat /\ F * M \in Nat
  OBVIOUS
<1>2. a * b <= F * b
  OBVIOUS
<1>3. F * b <= F * M
  OBVIOUS
<1> QED BY <1>1, <1>2, <1>3

\* A result is worth points that the gradebook and the module can hold.
LEMMA ScaledTyped ==
    ASSUME NEW p \in Post, NEW s \in Setting
    PROVE  /\ MaxScore(p, s) \in (0..MaxWeight) \cup {None} /\ Scaled(p, s) \in Points
           /\ CommentOf(p) \in Comments
<1>1. p.score \in Score /\ p.comment \in Comments /\ s.weight \in (0..MaxWeight) \cup {None}
  BY DEF Post, Setting
<1>2. MaxScore(p, s) \in (0..MaxWeight) \cup {None}
  BY <1>1 DEF MaxScore
<1>3. MaxScore(p, s) # None => p.score \in 0..Full /\ MaxScore(p, s) \in 0..MaxWeight
  BY <1>1 DEF MaxScore, Score
<1>4. MaxScore(p, s) # None => p.score * MaxScore(p, s) \in 0..(Full * MaxWeight)
  BY <1>3, Product, OutcomesAssumption
<1>5. Scaled(p, s) \in Points
  BY <1>4 DEF Scaled, Points
<1>6. CommentOf(p) \in Comments
  BY <1>1, OutcomesAssumption DEF CommentOf
<1> QED BY <1>2, <1>5, <1>6

LEMMA PublishedTyped ==
    ASSUME NEW w \in Workers, req[w].post \in Posts, req[w].block \in Settings
    PROVE  /\ Published(w) \in Grade
           /\ Published(w).value = Scaled(req[w].post, req[w].block)
           /\ [score |-> Scaled(req[w].post, req[w].block), comment |-> CommentOf(req[w].post)] \in Module
<1>1. req[w].post \in Post /\ req[w].block \in Setting
  BY OutcomesAssumption
<1> QED BY <1>1, ScaledTyped DEF Published, Grade, Module

---------------------------------------------------------------------------
(* The invariant *)

LEMMA Known ==
    ASSUME IInv, NEW w \in Workers
    PROVE  /\ req[w] \in Request /\ Sound(req[w], now) /\ TypeOK
           /\ req[w].pc # "idle" => /\ req[w].id \in Id /\ req[w].id.user \in Users
                                    /\ req[w].post \in Posts /\ req[w].post \in Post
                                    /\ req[w].block \in Settings /\ req[w].block \in Setting
BY OutcomesAssumption DEF IInv, TypeOK, Sound, Id

LEMMA IdleSound == Idle \in Request /\ Idle.pc = "idle" /\ \A n : Sound(Idle, n)
<1>1. Idle.pc = "idle" /\ Idle.tardy = FALSE /\ Idle.id = None /\ Idle.post = None
      /\ Idle.block = None /\ Idle.was = NoGrade
  BY DEF Idle
<1>2. NoGrade \in Grade
  BY DEF NoGrade, Grade, Points
<1>3. Idle \in Request
  BY <1>2 DEF Idle, Request
<1> QED BY <1>1, <1>3 DEF Sound

\* A request moves, and neither takes nor frees the row of its user.
LEMMA RequestMoves ==
    ASSUME IInv, NEW w \in Workers, NEW r \in Request, Set(w, r), Sound(r, now),
           ~At(w, "published"), r.pc # "published",
           UNCHANGED <<block, external, now, given, url, module, grade, edits>>,
           requests' \in 0..MaxRequests
    PROVE  IInv'
<1>1. /\ req' \in [Workers -> Request]
      /\ \A v \in Workers : req'[v] = IF v = w THEN r ELSE req[v]
  BY DEF Set, IInv, TypeOK
<1>2. TypeOK'
  BY <1>1 DEF IInv, TypeOK
<1>3. \A v \in Workers : Sound(req[v], now)'
  BY <1>1 DEF IInv, Sound
<1>4. \A v \in Workers : At(v, "published")' <=> At(v, "published")
  BY <1>1 DEF At
<1>5. \A v \in Workers : At(v, "published") => req'[v] = req[v]
  BY <1>1
<1>6. ASSUME NEW v \in Workers, At(v, "published")' PROVE Holds(v)'
  BY <1>4, <1>5, <1>6 DEF IInv, Holds, Published
<1>7. \A u \in Users : Held(u)' = Held(u)
  BY <1>4, <1>5 DEF Held
<1>8. GradeIsDuplicated'
  BY <1>7 DEF IInv, GradeIsDuplicated
<1> QED BY <1>2, <1>3, <1>6, <1>8 DEF IInv

\* Authors, flags, launches and time touch neither requests nor grades.
LEMMA OthersKeep ==
    ASSUME IInv, UNCHANGED <<module, grade, req, requests>>, TypeOK', now <= now'
    PROVE  IInv'
<1>1. \A w \in Workers : Sound(req[w], now)'
  <2> SUFFICES ASSUME NEW w \in Workers PROVE Sound(req[w], now')
    BY DEF Sound
  <2>1. Sound(req[w], now) /\ now \in Nat /\ now' \in Nat
    BY OutcomesAssumption DEF IInv, TypeOK
  <2>2. req[w].pc # "idle" => req[w].block.due \in Nat
    BY Known, OutcomesAssumption DEF Setting
  <2>3. req[w].tardy => req[w].pc # "idle"
    BY <2>1 DEF Sound
  <2> QED BY <2>1, <2>2, <2>3 DEF Sound
<1>2. \A w \in Workers : At(w, "published")' => Holds(w)'
  BY DEF IInv, Holds, Published, At
<1>3. GradeIsDuplicated'
  BY DEF IInv, GradeIsDuplicated, Held, At
<1> QED BY <1>1, <1>2, <1>3 DEF IInv

LEMMA InvInit == Init => IInv
<1> SUFFICES ASSUME Init PROVE IInv
  OBVIOUS
<1>1. NoModule \in Module /\ NoGrade \in Grade
  BY OutcomesAssumption DEF NoModule, NoGrade, Module, Grade, Points
<1>2. TypeOK
  <2>1. external \in BOOLEAN /\ url \in BOOLEAN
    BY DEF Init
  <2>2. /\ block \in Settings /\ now \in 0..MaxTime /\ given \subseteq Id
        /\ requests \in 0..MaxRequests /\ edits \in 0..MaxEdits
    BY OutcomesAssumption DEF Init
  <2>3. module \in [Users -> Module] /\ grade \in [Users -> Grade] /\ req \in [Workers -> Request]
    BY <1>1, IdleSound DEF Init
  <2> QED BY <2>1, <2>2, <2>3 DEF TypeOK
<1>3. \A w \in Workers : Sound(req[w], now) /\ ~At(w, "published")
  BY IdleSound DEF Init, At
<1>4. GradeIsDuplicated
  BY DEF Init, GradeIsDuplicated, NoGrade, NoModule
<1> QED BY <1>2, <1>3, <1>4 DEF IInv

LEMMA LaunchKeeps ==
    ASSUME IInv, \/ \E u \in Users : Launch(u)
                 \/ \E x \in Settings : Author(x)
                 \/ ToggleFlag \/ Tick
    PROVE  IInv'
<1>1. TypeOK /\ now \in Nat /\ edits \in Nat
  BY OutcomesAssumption DEF IInv, TypeOK
<1>2. ASSUME NEW u \in Users, Launch(u) PROVE IInv'
  <2>1. SourcedId(u) \in Id
    BY DEF SourcedId, SentKind, Id, Kind
  <2>2. given' \subseteq Id
    BY <1>1, <1>2, <2>1 DEF Launch, LaunchRequest, TypeOK
  <2>3. url' \in BOOLEAN
    BY <1>2 DEF Launch
  <2>4. TypeOK' /\ now' = now
    BY <1>1, <1>2, <2>2, <2>3 DEF Launch, TypeOK
  <2>5. now <= now'
    BY <1>1, <2>4
  <2> QED BY <1>2, <2>4, <2>5, OthersKeep DEF Launch
<1>3. ASSUME NEW x \in Settings, Author(x) PROVE IInv'
  <2>1. edits' \in 0..MaxEdits /\ block' \in Settings /\ now' = now /\ now <= now'
    BY <1>1, <1>3, OutcomesAssumption DEF Author
  <2>2. TypeOK'
    BY <1>1, <1>3, <2>1 DEF Author, TypeOK
  <2> QED BY <1>3, <2>1, <2>2, OthersKeep DEF Author
<1>4. CASE ToggleFlag
  <2>1. edits' \in 0..MaxEdits /\ now' = now /\ now <= now'
    BY <1>1, <1>4, OutcomesAssumption DEF ToggleFlag
  <2>2. external' \in BOOLEAN
    BY <1>4 DEF ToggleFlag
  <2>3. TypeOK'
    BY <1>1, <1>4, <2>1, <2>2 DEF ToggleFlag, TypeOK
  <2> QED BY <1>4, <2>1, <2>3, OthersKeep DEF ToggleFlag
<1>5. CASE Tick
  <2>1. now' \in 0..MaxTime /\ now <= now'
    BY <1>1, <1>5, OutcomesAssumption DEF Tick
  <2>2. TypeOK'
    BY <1>1, <1>5, <2>1 DEF Tick, TypeOK
  <2> QED BY <1>5, <2>1, <2>2, OthersKeep DEF Tick
<1> QED BY <1>2, <1>3, <1>4, <1>5

LEMMA ArriveKeeps ==
    ASSUME IInv, NEW w \in Workers, NEW id \in Id, NEW p \in Posts, Arrive(w, id, p)
    PROVE  IInv'
<1> DEFINE late == now > block.due /\ ~block.late
           r == [Idle EXCEPT !.pc = "arrived", !.id = id, !.post = p, !.block = block, !.tardy = late]
<1>1. block \in Settings /\ late \in BOOLEAN /\ requests \in Nat /\ p \in Post /\ block \in Setting
  BY OutcomesAssumption DEF IInv, TypeOK
<1>2. Set(w, r) /\ requests' \in 0..MaxRequests /\ ~At(w, "published")
      /\ UNCHANGED <<block, external, now, given, url, module, grade, edits>>
  BY <1>1, OutcomesAssumption DEF Arrive, At
<1>3. Idle \in Request
  BY IdleSound
<1>4. /\ r.pc = "arrived" /\ r.id = id /\ r.post = p /\ r.block = block /\ r.tardy = late
  BY <1>3 DEF Idle
<1> HIDE DEF late
<1>5. r \in Request
  BY <1>1, <1>3 DEF Request
<1>6. late => ~block.late /\ now > block.due
  BY DEF late
<1> HIDE DEF r
<1>7. Sound(r, now)
  BY <1>1, <1>4, <1>6 DEF Sound
<1> QED BY <1>2, <1>4, <1>5, <1>7, RequestMoves

\* The steps of a handler before and after it writes
LEMMA GoKeeps ==
    ASSUME IInv, NEW w \in Workers, NEW pc \in {"verified", "found", "done", "refused"},
           Go(w, pc), ~At(w, "idle"), ~At(w, "published"),
           req[w].tardy => pc = "refused", pc = "found" => req[w].post.op # "GET",
           UNCHANGED <<block, external, now, given, url, module, grade, requests, edits>>
    PROVE  IInv'
<1> DEFINE r == [req[w] EXCEPT !.pc = pc]
<1>1. req[w] \in Request /\ Sound(req[w], now) /\ req[w].pc # "idle" /\ requests \in 0..MaxRequests
  BY Known DEF At, TypeOK
<1>2. r \in Request /\ r.pc = pc /\ r.id = req[w].id /\ r.post = req[w].post
      /\ r.block = req[w].block /\ r.tardy = req[w].tardy
  BY <1>1 DEF Request
<1>3. Set(w, r)
  BY DEF Go
<1> HIDE DEF r
<1>4. Sound(r, now)
  BY <1>1, <1>2 DEF Sound
<1> QED BY <1>1, <1>2, <1>3, <1>4, RequestMoves

LEMMA HandlerKeeps ==
    ASSUME IInv, NEW w \in Workers,
           VerifyOutcome(w) \/ VerifyResult(w) \/ FindUser(w) \/ Answer(w)
    PROVE  IInv'
<1>1. req[w] \in Request /\ Sound(req[w], now) /\ requests \in 0..MaxRequests
  BY Known DEF TypeOK
<1>2. CASE VerifyOutcome(w)
  <2>1. req[w].tardy => ~req[w].block.late /\ PastDue(w)
    BY <1>1 DEF Sound, PastDue
  <2>2. PICK pc \in {"verified", "refused"} : Go(w, pc) /\ (req[w].tardy => pc = "refused")
    BY <1>2, <2>1 DEF VerifyOutcome
  <2> QED BY <1>2, <2>2, GoKeeps DEF VerifyOutcome, At
<1>3. CASE VerifyResult(w)
  <2>1. req[w].tardy => ~AcceptsInTime(w)
    BY <1>1 DEF Sound, AcceptsInTime
  <2>2. PICK pc \in {"verified", "refused"} : Go(w, pc) /\ (req[w].tardy => pc = "refused")
    BY <1>3, <2>1 DEF VerifyResult
  <2> QED BY <1>3, <2>2, GoKeeps DEF VerifyResult, At
<1>4. CASE FindUser(w)
  <2>1. ~req[w].tardy
    BY <1>1, <1>4 DEF Sound, FindUser, At
  <2>2. PICK pc \in {"found", "done", "refused"} : Go(w, pc) /\ (pc = "found" => req[w].post.op # "GET")
    BY <1>4 DEF FindUser
  <2> QED BY <1>4, <2>1, <2>2, GoKeeps DEF FindUser, At
<1>5. CASE Answer(w)
  BY <1>1, <1>5, IdleSound, RequestMoves DEF Answer, At
<1> QED BY <1>2, <1>3, <1>4, <1>5

---------------------------------------------------------------------------
(* The three steps that write *)

\* Handlers of other learners do not see the write.
LEMMA WriteKeeps ==
    ASSUME IInv, NEW w \in Workers, NEW r \in Request, Set(w, r), Sound(r, now),
           NEW u \in Users, req[w].id.user = u, r.pc = "published" => r.id.user = u,
           At(w, "published") \/ \A v \in Workers : At(v, "published") => req[v].id.user # u,
           grade' \in [Users -> Grade], module' \in [Users -> Module],
           \A x \in Users \ {u} : grade'[x] = grade[x] /\ module'[x] = module[x],
           UNCHANGED <<block, external, now, given, url, requests, edits>>,
           IF r.pc = "published" THEN grade'[u] = Published(w)' /\ r.was.value = module'[u].score
           ELSE grade'[u].value = module'[u].score
    PROVE  IInv'
<1>1. /\ req' \in [Workers -> Request]
      /\ \A v \in Workers : req'[v] = IF v = w THEN r ELSE req[v]
  BY DEF Set, IInv, TypeOK
<1>2. TypeOK'
  BY <1>1 DEF IInv, TypeOK
<1>3. \A v \in Workers : Sound(req[v], now)'
  BY <1>1 DEF IInv, Sound
<1>4. ASSUME NEW v \in Workers, v # w, At(v, "published") PROVE req[v].id.user \in Users \ {u}
  <2>1. req[v].id.user \in Users
    BY <1>4, Known DEF At
  <2>2. At(w, "published") => Holds(w)
    BY DEF IInv
  <2> QED BY <1>4, <2>1, <2>2 DEF Holds
<1>5. ASSUME NEW v \in Workers, At(v, "published")' PROVE Holds(v)'
  <2>1. CASE v = w
    <3>1. r.pc = "published" /\ req'[w] = r /\ r.id.user = u
      BY <1>1, <1>5, <2>1 DEF At
    <3>2. \A x \in Workers : At(x, "published")' /\ req'[x].id.user = u => x = w
      BY <1>1, <1>4 DEF At
    <3> QED BY <2>1, <3>1, <3>2 DEF Holds
  <2>2. CASE v # w
    <3>1. At(v, "published") /\ req'[v] = req[v] /\ Holds(v)
      BY <1>1, <1>5, <2>2 DEF At, IInv
    <3>2. req[v].id.user \in Users \ {u}
      BY <1>4, <2>2, <3>1
    <3>3. Published(v)' = Published(v)
      BY <3>1 DEF Published
    <3>4. \A x \in Workers : At(x, "published")' /\ req'[x].id.user = req[v].id.user => x = v
      BY <1>1, <3>1, <3>2 DEF At, Holds
    <3> QED BY <3>1, <3>2, <3>3, <3>4 DEF Holds
  <2> QED BY <2>1, <2>2
<1>6. ASSUME NEW x \in Users, Held(x)' = {} PROVE grade'[x].value = module'[x].score
  <2>1. CASE x = u
    <3>1. r.pc # "published"
      BY <1>1, <1>6, <2>1 DEF Held, At
    <3> QED BY <2>1, <3>1
  <2>2. CASE x # u
    <3>1. Held(x) = {}
      BY <1>1, <1>6, <2>2 DEF Held, At
    <3> QED BY <2>2, <3>1 DEF IInv, GradeIsDuplicated
  <2> QED BY <2>1, <2>2
<1> QED BY <1>2, <1>3, <1>5, <1>6 DEF IInv, GradeIsDuplicated

LEMMA PublishKeeps ==
    ASSUME IInv, NEW w \in Workers, Publish(w)
    PROVE  IInv'
<1> DEFINE q == req[w]
           u == q.id.user
           r == [q EXCEPT !.pc = "published", !.was = grade[u]]
<1>1. /\ q \in Request /\ Sound(q, now) /\ q.pc = "found" /\ u \in Users
      /\ q.post \in Posts /\ q.block \in Settings /\ grade \in [Users -> Grade]
      /\ module \in [Users -> Module]
  BY Known DEF Publish, At, TypeOK
<1>2. /\ Set(w, r) /\ grade' = [grade EXCEPT ![u] = Published(w)] /\ module' = module
      /\ \A v \in Workers : At(v, "published") => req[v].id.user # u
      /\ UNCHANGED <<block, external, now, given, url, requests, edits>>
  BY DEF Publish
<1>3. /\ r \in Request /\ r.pc = "published" /\ r.id = q.id /\ r.post = q.post /\ r.block = q.block
      /\ r.tardy = q.tardy /\ r.was = grade[u]
  BY <1>1 DEF Request
<1>4. Sound(r, now)
  <2> HIDE DEF q, r
  <2> QED BY <1>1, <1>3 DEF Sound
<1>5. Published(w) \in Grade
  BY <1>1, PublishedTyped
<1>6. Published(w)' = Published(w)
  <2>1. req'[w] = r
    BY <1>2 DEF Set, IInv, TypeOK
  <2> QED BY <1>3, <2>1 DEF Published
<1>7. grade[u].value = module[u].score
  <2>1. Held(u) = {}
    BY <1>2 DEF Held
  <2> QED BY <1>1, <2>1 DEF IInv, GradeIsDuplicated
<1> HIDE DEF r
<1>8. grade' \in [Users -> Grade] /\ grade'[u] = Published(w)
      /\ \A x \in Users \ {u} : grade'[x] = grade[x]
  BY <1>1, <1>2, <1>5
<1> QED BY <1>1, <1>2, <1>3, <1>4, <1>6, <1>7, <1>8, WriteKeeps

LEMMA SaveKeeps ==
    ASSUME IInv, NEW w \in Workers, Save(w) \/ Die(w)
    PROVE  IInv'
<1> DEFINE q == req[w]
           u == q.id.user
           m == [score |-> Scaled(q.post, q.block), comment |-> CommentOf(q.post)]
<1>1. /\ q \in Request /\ Sound(q, now) /\ q.pc = "published" /\ u \in Users /\ At(w, "published")
      /\ q.post \in Posts /\ q.block \in Settings /\ grade \in [Users -> Grade]
      /\ module \in [Users -> Module] /\ q.was \in Grade
  BY Known DEF Save, Die, At, TypeOK, Request
<1>2. Holds(w)
  BY <1>1 DEF IInv
<1>3. m \in Module /\ Published(w).value = m.score
  BY <1>1, PublishedTyped
<1>4. ASSUME NEW pc \in {"done", "refused"}
      PROVE  LET r == [q EXCEPT !.pc = pc] IN r \in Request /\ r.pc = pc /\ Sound(r, now)
  <2> DEFINE r == [q EXCEPT !.pc = pc]
  <2>1. /\ r \in Request /\ r.pc = pc /\ r.id = q.id /\ r.post = q.post /\ r.block = q.block
        /\ r.tardy = q.tardy
    BY <1>1 DEF Request
  <2>2. Sound(r, now)
    <3> HIDE DEF q, r
    <3> QED BY <1>1, <2>1 DEF Sound
  <2> QED BY <2>1, <2>2
<1>5. CASE Save(w)
  <2> DEFINE r == [q EXCEPT !.pc = "done"]
  <2>1. r \in Request /\ r.pc = "done" /\ Sound(r, now)
    BY <1>4
  <2>2. /\ Set(w, r) /\ module' = [module EXCEPT ![u] = m] /\ grade' = grade
        /\ UNCHANGED <<block, external, now, given, url, requests, edits>>
    BY <1>5 DEF Save, Go
  <2>3. grade[u] = Published(w)
    BY <1>2 DEF Holds
  <2> HIDE DEF r, m
  <2>4. /\ module' \in [Users -> Module] /\ module'[u] = m
        /\ \A x \in Users \ {u} : module'[x] = module[x]
    BY <1>1, <1>3, <2>2
  <2> QED BY <1>1, <1>3, <2>1, <2>2, <2>3, <2>4, WriteKeeps
<1>6. CASE Die(w)
  <2> DEFINE r == [q EXCEPT !.pc = "refused"]
  <2>1. r \in Request /\ r.pc = "refused" /\ Sound(r, now)
    BY <1>4
  <2>2. /\ Set(w, r) /\ grade' = [grade EXCEPT ![u] = q.was] /\ module' = module
        /\ UNCHANGED <<block, external, now, given, url, requests, edits>>
    BY <1>6 DEF Die, Go
  <2>3. q.was.value = module[u].score
    BY <1>2 DEF Holds
  <2> HIDE DEF r, m
  <2>4. /\ grade' \in [Users -> Grade] /\ grade'[u] = q.was
        /\ \A x \in Users \ {u} : grade'[x] = grade[x]
    BY <1>1, <2>2
  <2> QED BY <1>1, <2>1, <2>2, <2>3, <2>4, WriteKeeps
<1> QED BY <1>5, <1>6

LEMMA InvStep == IInv /\ [Next]_vars => IInv'
<1> SUFFICES ASSUME IInv, [Next]_vars PROVE IInv'
  OBVIOUS
<1>1. ASSUME NEW w \in Workers, \E id \in Id, p \in Posts : Arrive(w, id, p) PROVE IInv'
  BY <1>1, ArriveKeeps
<1>2. ASSUME NEW w \in Workers, VerifyOutcome(w) \/ VerifyResult(w) \/ FindUser(w) \/ Answer(w)
      PROVE  IInv'
  BY <1>2, HandlerKeeps
<1>3. ASSUME NEW w \in Workers, Publish(w) \/ Save(w) \/ Die(w) PROVE IInv'
  BY <1>3, PublishKeeps, SaveKeeps
<1>4. CASE \/ \E u \in Users : Launch(u)
           \/ \E x \in Settings : Author(x)
           \/ ToggleFlag \/ Tick
  BY <1>4, LaunchKeeps
<1>5. CASE UNCHANGED vars
  <2>1. TypeOK' /\ now' = now /\ now \in Nat
    BY <1>5, OutcomesAssumption DEF vars, IInv, TypeOK
  <2> QED BY <1>5, <2>1, OthersKeep DEF vars
<1> QED BY <1>1, <1>2, <1>3, <1>4, <1>5 DEF Next

LEMMA InvAlways == Spec => []IInv
BY InvInit, InvStep, PTL DEF Spec

\* Scores, comments and grades fit their columns, whatever the weight.
THEOREM OutcomesTypeCorrect == Spec => []TypeOK
<1>1. IInv => TypeOK
  BY DEF IInv
<1> QED BY <1>1, InvAlways, PTL

\* A published grade and the saved module score agree whenever no handler holds
\* the row between the two writes, whichever handlers died and what was edited.
THEOREM DuplicateAgrees == Spec => []GradeIsDuplicated
<1>1. IInv => GradeIsDuplicated
  BY DEF IInv
<1> QED BY <1>1, InvAlways, PTL

\* No result that arrives late gets past the check of its service.
THEOREM LateNeverWrites == Spec => []LateIsRefused
<1>1. IInv => LateIsRefused
  BY DEF IInv, Sound, LateIsRefused
<1> QED BY <1>1, InvAlways, PTL

---------------------------------------------------------------------------
(* Both services implement LtiGradebook *)

Book == [u \in Users |-> [module |-> module[u], grade |-> Committed(u)]]
Called == [w \in Workers |-> CallOf(w)]
Nothing == [module |-> NoModule, grade |-> NoGrade]
NoOne == [phase |-> "idle", learner |-> None, result |-> Nothing]

\* A row that is held shows what its holder replaced.
LEMMA HeldCommitted ==
    ASSUME IInv, NEW w \in Workers, At(w, "published"), NEW u, u = req[w].id.user
    PROVE  Committed(u) = req[w].was
<1>1. w \in Held(u)
  BY DEF Held
<1>2. \A v \in Held(u) : v = w
  BY DEF Held, IInv, Holds
<1> QED BY <1>1, <1>2 DEF Committed

LEMMA FreeCommitted ==
    ASSUME NEW u, \A w \in Workers : At(w, "published") => req[w].id.user # u
    PROVE  Committed(u) = grade[u]
BY DEF Held, Committed

PhaseOf(pc) == CASE pc = "done" -> "entered" [] pc = "refused" -> "refused" [] OTHER -> "open"
ResultOf(w) == [module |-> [score |-> Scaled(req[w].post, req[w].block),
                            comment |-> CommentOf(req[w].post)],
                grade |-> Published(w)]

\* A request moves with the same body: its call moves only in its phase.
LEMMA CallMoves ==
    ASSUME IInv, NEW w \in Workers, ~At(w, "idle"), NEW r, Set(w, r), r.pc # "idle",
           r.id = req[w].id, r.post = req[w].post, r.block = req[w].block
    PROVE  /\ \A v \in Workers \ {w} : CallOf(v)' = CallOf(v)
           /\ req[w].post.op = "GET" => CallOf(w)' = CallOf(w)
           /\ req[w].post.op # "GET" =>
                 /\ CallOf(w) = [phase |-> PhaseOf(req[w].pc), learner |-> req[w].id.user,
                                 result |-> ResultOf(w)]
                 /\ CallOf(w)' = [phase |-> PhaseOf(r.pc), learner |-> req[w].id.user,
                                  result |-> ResultOf(w)]
<1>1. /\ \A v \in Workers \ {w} : req'[v] = req[v]
      /\ req'[w] = r
  BY DEF IInv, TypeOK, Set
<1>2. \A v \in Workers \ {w} : CallOf(v)' = CallOf(v)
  BY <1>1 DEF CallOf, At, Published
<1>3. req[w].post.op = "GET" => CallOf(w)' = CallOf(w)
  BY <1>1 DEF CallOf
<1>4. ASSUME req[w].post.op # "GET"
      PROVE  CallOf(w) = [phase |-> PhaseOf(req[w].pc), learner |-> req[w].id.user,
                          result |-> ResultOf(w)]
  BY <1>4 DEF CallOf, At, PhaseOf, ResultOf
<1>5. ASSUME req[w].post.op # "GET"
      PROVE  CallOf(w)' = [phase |-> PhaseOf(r.pc), learner |-> req[w].id.user,
                           result |-> ResultOf(w)]
  <2>1. ResultOf(w)' = ResultOf(w)
    BY <1>1 DEF ResultOf, Published
  <2>2. CallOf(w)' = [phase |-> PhaseOf(r.pc), learner |-> req[w].id.user, result |-> ResultOf(w)']
    BY <1>1, <1>5 DEF CallOf, At, PhaseOf, ResultOf, Published
  <2> QED BY <2>1, <2>2
<1> QED BY <1>2, <1>3, <1>4, <1>5

LEMMA ChoiceStays ==
    ASSUME NEW u, Held(u)' = Held(u), \A v \in Held(u) : req'[v] = req[v], grade'[u] = grade[u]
    PROVE  Committed(u)' = Committed(u)
<1>1. CASE Held(u) = {}
  BY <1>1 DEF Committed
<1>2. CASE Held(u) # {}
  <2> DEFINE v == CHOOSE w \in Held(u) : TRUE
  <2>1. v \in Held(u)
    BY <1>2
  <2>2. Committed(u) = req[v].was
    BY <1>2 DEF Committed
  <2>3. Committed(u)' = req'[v].was
    BY <1>2 DEF Committed
  <2> QED BY <2>1, <2>2, <2>3
<1> QED BY <1>1, <1>2

\* Rows no handler takes or frees show the same book.
LEMMA BookStays ==
    ASSUME UNCHANGED <<module, grade>>,
           \A v \in Workers : At(v, "published")' <=> At(v, "published"),
           \A v \in Workers : At(v, "published") => req'[v] = req[v]
    PROVE  Book' = Book
<1>1. \A u \in Users : Held(u)' = Held(u)
  BY DEF Held
<1>2. ASSUME NEW u \in Users PROVE Committed(u)' = Committed(u)
  BY <1>1, ChoiceStays DEF Held
<1> QED BY <1>2 DEF Book

LEMMA OneCalled ==
    ASSUME NEW w \in Workers, \A v \in Workers \ {w} : CallOf(v)' = CallOf(v)
    PROVE  Called' = [Called EXCEPT ![w] = CallOf(w)'] /\ Called[w] = CallOf(w)
BY DEF Called

LEMMA PhaseMoves ==
    ASSUME NEW w \in Workers, \A v \in Workers \ {w} : CallOf(v)' = CallOf(v),
           NEW p, NEW q, NEW u, NEW x,
           CallOf(w) = [phase |-> p, learner |-> u, result |-> x],
           CallOf(w)' = [phase |-> q, learner |-> u, result |-> x]
    PROVE  /\ Called' = [Called EXCEPT ![w].phase = q]
           /\ Called[w].phase = p /\ Called[w].learner = u /\ Called[w].result = x
<1>1. [[phase |-> p, learner |-> u, result |-> x] EXCEPT !.phase = q] = [phase |-> q, learner |-> u, result |-> x]
  OBVIOUS
<1>2. Called' = [Called EXCEPT ![w] = CallOf(w)'] /\ Called[w] = CallOf(w)
  BY OneCalled
<1>3. Called' = [Called EXCEPT ![w] = [Called[w] EXCEPT !.phase = q]]
  BY <1>1, <1>2
<1>4. Called[w].phase = p /\ Called[w].learner = u /\ Called[w].result = x
  BY <1>2
<1>5. Called' = [Called EXCEPT ![w].phase = q]
  <2> HIDE DEF Called
  <2> QED BY <1>3
<1> QED BY <1>4, <1>5

LEMMA StutterRefines == Called' = Called /\ Book' = Book => [Ledger!GNext]_Ledger!gvars
BY DEF Called, Book, Ledger!gvars, Nothing

\* Steps of a handler that writes nothing: the call stays open, or is refused.
LEMMA GoRefines ==
    ASSUME IInv, NEW w \in Workers, NEW pc \in {"verified", "found", "done", "refused"},
           Go(w, pc), req[w].pc \in {"arrived", "verified"}, pc = "done" => req[w].post.op = "GET",
           UNCHANGED <<module, grade>>
    PROVE  [Ledger!GNext]_Ledger!gvars
<1> DEFINE r == [req[w] EXCEPT !.pc = pc]
<1>1. req[w] \in Request /\ Set(w, r) /\ ~At(w, "idle") /\ ~At(w, "published")
  BY Known DEF Go, At
<1>2. r.pc = pc /\ r.id = req[w].id /\ r.post = req[w].post /\ r.block = req[w].block
  BY <1>1 DEF Request
<1> HIDE DEF r
<1>3. /\ \A v \in Workers \ {w} : CallOf(v)' = CallOf(v)
      /\ req[w].post.op = "GET" => CallOf(w)' = CallOf(w)
      /\ req[w].post.op # "GET" =>
            /\ CallOf(w) = [phase |-> PhaseOf(req[w].pc), learner |-> req[w].id.user, result |-> ResultOf(w)]
            /\ CallOf(w)' = [phase |-> PhaseOf(pc), learner |-> req[w].id.user, result |-> ResultOf(w)]
  BY <1>1, <1>2, CallMoves
<1>4. \A v \in Workers : req'[v] = IF v = w THEN r ELSE req[v]
  BY <1>1 DEF Set, IInv, TypeOK
<1>5. Book' = Book
  BY <1>1, <1>2, <1>4, BookStays DEF At
<1>6. CASE req[w].post.op = "GET" \/ pc # "refused"
  <2>1. CallOf(w)' = CallOf(w)
    BY <1>3, <1>6 DEF PhaseOf
  <2>2. Called' = Called
    BY <1>3, <2>1 DEF Called
  <2> QED BY <1>5, <2>2, StutterRefines
<1>7. CASE req[w].post.op # "GET" /\ pc = "refused"
  <2>1. PhaseOf(req[w].pc) = "open" /\ PhaseOf(pc) = "refused"
    BY <1>7 DEF PhaseOf
  <2>2. Called' = [Called EXCEPT ![w].phase = "refused"] /\ Called[w].phase = "open"
    BY <1>3, <1>7, <2>1, PhaseMoves
  <2>3. Ledger!Refuse(w)
    BY <1>5, <2>2 DEF Ledger!Refuse, Ledger!Phase, Ledger!Move, Called, Book
  <2> QED BY <2>3 DEF Ledger!GNext
<1> QED BY <1>6, <1>7

LEMMA ArriveRefines ==
    ASSUME IInv, NEW w \in Workers, NEW id \in Id, NEW p \in Posts, Arrive(w, id, p)
    PROVE  [Ledger!GNext]_Ledger!gvars
<1> DEFINE r == [Idle EXCEPT !.pc = "arrived", !.id = id, !.post = p, !.block = block,
                             !.tardy = now > block.due /\ ~block.late]
<1>1. Set(w, r) /\ UNCHANGED <<module, grade>> /\ At(w, "idle")
  BY DEF Arrive
<1>2. r.pc = "arrived" /\ r.id = id /\ r.post = p /\ r.block = block
  BY DEF Idle
<1> HIDE DEF r
<1>3. \A v \in Workers : req'[v] = IF v = w THEN r ELSE req[v]
  BY <1>1 DEF Set, IInv, TypeOK
<1>4. Book' = Book
  BY <1>1, <1>2, <1>3, BookStays DEF At
<1>5. \A v \in Workers \ {w} : CallOf(v)' = CallOf(v)
  BY <1>3 DEF CallOf, At, Published
<1>6. CallOf(w) = NoOne
  BY <1>1 DEF CallOf, NoOne, Nothing
<1>7. CASE p.op = "GET"
  <2>1. CallOf(w)' = NoOne
    BY <1>2, <1>3, <1>7 DEF CallOf, NoOne, Nothing
  <2> QED BY <1>4, <1>5, <1>6, <2>1, StutterRefines DEF Called
<1>8. CASE p.op # "GET"
  <2>1. CallOf(w)' = [phase |-> "open", learner |-> id.user, result |-> ResultOf(w)']
    BY <1>2, <1>3, <1>8 DEF CallOf, At, ResultOf, Published
  <2>2. id.user \in Users
    BY DEF Id
  <2>3. ResultOf(w)' \in [module : Module, grade : Grade]
    <3>1. p \in Post /\ block \in Setting
      BY OutcomesAssumption DEF IInv, TypeOK
    <3>2. /\ [score |-> Scaled(p, block), comment |-> CommentOf(p)] \in Module
          /\ [value |-> Scaled(p, block), max |-> MaxScore(p, block)] \in Grade
      BY <3>1, ScaledTyped DEF Module, Grade
    <3>3. ResultOf(w)' = [module |-> [score |-> Scaled(p, block), comment |-> CommentOf(p)],
                          grade |-> [value |-> Scaled(p, block), max |-> MaxScore(p, block)]]
      BY <1>2, <1>3 DEF ResultOf, Published
    <3> QED BY <3>2, <3>3
  <2>4. Called[w].phase = "idle" /\ Called' = [Called EXCEPT ![w] = Called'[w]]
        /\ Called'[w] \in [phase : {"open"}, learner : Users, result : [module : Module, grade : Grade]]
    BY <1>5, <1>6, <2>1, <2>2, <2>3, OneCalled DEF NoOne, Called
  <2>5. Ledger!Open(w)
    BY <1>4, <2>4 DEF Ledger!Open, Ledger!Phase, Called, Book
  <2> QED BY <2>5 DEF Ledger!GNext
<1> QED BY <1>7, <1>8

\* Published, a grade is still undone by a crash: the book shows what it replaced.
LEMMA PublishRefines ==
    ASSUME IInv, NEW w \in Workers, Publish(w)
    PROVE  [Ledger!GNext]_Ledger!gvars
<1> DEFINE q == req[w]
           u == q.id.user
           r == [q EXCEPT !.pc = "published", !.was = grade[u]]
<1>1. /\ q \in Request /\ q.pc = "found" /\ u \in Users /\ ~At(w, "idle") /\ q.post.op # "GET"
      /\ grade \in [Users -> Grade]
  BY Known DEF Publish, At, TypeOK, Sound
<1>2. /\ Set(w, r) /\ grade' = [grade EXCEPT ![u] = Published(w)] /\ module' = module
      /\ \A v \in Workers : At(v, "published") => req[v].id.user # u
  BY DEF Publish
<1>3. r.pc = "published" /\ r.id = q.id /\ r.post = q.post /\ r.block = q.block /\ r.was = grade[u]
  BY <1>1 DEF Request
<1>4. /\ req' \in [Workers -> Request]
      /\ \A v \in Workers : req'[v] = IF v = w THEN r ELSE req[v]
  BY <1>1, <1>2 DEF Set, IInv, TypeOK, Request
<1>5. /\ \A v \in Workers \ {w} : CallOf(v)' = CallOf(v)
      /\ CallOf(w) = [phase |-> PhaseOf(q.pc), learner |-> u, result |-> ResultOf(w)]
      /\ CallOf(w)' = [phase |-> PhaseOf("published"), learner |-> u, result |-> ResultOf(w)]
  <2> HIDE DEF r
  <2> QED BY <1>1, <1>2, <1>3, CallMoves
<1>6. Called' = Called
  BY <1>1, <1>5 DEF Called, PhaseOf
<1> HIDE DEF r
<1>7. ASSUME NEW x \in Users PROVE Committed(x)' = Committed(x)
  <2>1. CASE x = u
    <3>1. Committed(u) = grade[u]
      BY <1>2, FreeCommitted
    <3>2. Held(u)' = {w}
      BY <1>2, <1>3, <1>4 DEF Held, At
    <3>3. Committed(u)' = req'[w].was
      BY <3>2 DEF Committed
    <3> QED BY <1>3, <1>4, <2>1, <3>1, <3>3
  <2>2. CASE x # u
    <3>1. Held(x)' = Held(x)
      BY <1>1, <1>3, <1>4, <2>2 DEF Held, At
    <3>2. \A v \in Held(x) : req'[v] = req[v]
      BY <1>1, <1>4 DEF Held, At
    <3>3. grade'[x] = grade[x]
      BY <1>1, <1>2, <2>2
    <3> QED BY <3>1, <3>2, <3>3, ChoiceStays
  <2> QED BY <2>1, <2>2
<1>8. Book' = Book
  BY <1>2, <1>7 DEF Book
<1> QED BY <1>6, <1>8, StutterRefines

LEMMA SaveRefines ==
    ASSUME IInv, NEW w \in Workers, Save(w) \/ Die(w)
    PROVE  [Ledger!GNext]_Ledger!gvars
<1> DEFINE q == req[w]
           m == [score |-> Scaled(q.post, q.block), comment |-> CommentOf(q.post)]
<1>0. PICK u \in Users : u = q.id.user
  BY Known DEF Save, Die, At
<1>1. /\ q \in Request /\ q.pc = "published" /\ ~At(w, "idle") /\ q.post.op # "GET"
      /\ grade \in [Users -> Grade] /\ module \in [Users -> Module] /\ Holds(w)
  BY Known DEF Save, Die, At, TypeOK, Sound, IInv
<1>2. PICK pc \in {"done", "refused"} :
          /\ Go(w, pc)
          /\ pc = "done" => grade' = grade /\ module' = [module EXCEPT ![u] = m]
          /\ pc = "refused" => module' = module /\ grade' = [grade EXCEPT ![u] = q.was]
  BY <1>0 DEF Save, Die
<1> DEFINE r == [q EXCEPT !.pc = pc]
<1>3. Set(w, r) /\ r.pc = pc /\ r.id = q.id /\ r.post = q.post /\ r.block = q.block
  BY <1>1, <1>2 DEF Request, Go
<1>4. \A v \in Workers : req'[v] = IF v = w THEN r ELSE req[v]
  BY <1>3 DEF Set, IInv, TypeOK
<1>5. /\ \A v \in Workers \ {w} : CallOf(v)' = CallOf(v)
      /\ CallOf(w) = [phase |-> PhaseOf(q.pc), learner |-> u, result |-> ResultOf(w)]
      /\ CallOf(w)' = [phase |-> PhaseOf(pc), learner |-> u, result |-> ResultOf(w)]
  <2> HIDE DEF r
  <2> QED BY <1>0, <1>1, <1>3, CallMoves
<1> HIDE DEF r
<1>6. PhaseOf(q.pc) = "open" /\ PhaseOf(pc) = IF pc = "done" THEN "entered" ELSE "refused"
  BY <1>1 DEF PhaseOf
<1>7. /\ Called' = [Called EXCEPT ![w].phase = IF pc = "done" THEN "entered" ELSE "refused"]
      /\ Called[w].phase = "open" /\ Called[w].learner = u /\ Called[w].result = ResultOf(w)
  BY <1>5, <1>6, PhaseMoves
<1>8. \A v \in Workers : At(v, "published") /\ req[v].id.user = u => v = w
  BY <1>0, <1>1 DEF Holds
<1>9. Committed(u) = q.was /\ Committed(u)' = grade'[u]
  <2>1. Committed(u) = q.was
    BY <1>0, <1>1, HeldCommitted DEF At
  <2>2. Held(u)' = {}
    BY <1>0, <1>3, <1>4, <1>8 DEF Held, At
  <2> QED BY <2>1, <2>2 DEF Committed
<1>10. ASSUME NEW x \in Users, x # u
       PROVE  Committed(x)' = Committed(x) /\ module'[x] = module[x]
  <2>1. Held(x)' = Held(x)
    BY <1>0, <1>3, <1>4, <1>10 DEF Held, At
  <2>2. \A v \in Held(x) : req'[v] = req[v]
    BY <1>0, <1>4, <1>10 DEF Held
  <2>3. grade'[x] = grade[x] /\ module'[x] = module[x]
    BY <1>1, <1>2, <1>10
  <2> QED BY <2>1, <2>2, <2>3, ChoiceStays
<1>13. \A x \in Users \ {u} : [module |-> module[x], grade |-> Committed(x)]'
                               = [module |-> module[x], grade |-> Committed(x)]
  BY <1>10
<1>14. \A y : /\ [module |-> module[u], grade |-> Committed(u)]' = y
              => Book' = [Book EXCEPT ![u] = y]
  BY <1>1, <1>13 DEF Book
<1>11. CASE pc = "done"
  <2>1. grade'[u] = Published(w) /\ module'[u] = m
    BY <1>1, <1>0, <1>2, <1>11 DEF Holds
  <2>2. [module |-> module'[u], grade |-> Committed(u)'] = ResultOf(w)
    BY <1>9, <2>1 DEF ResultOf
  <2>3. Book' = [Book EXCEPT ![u] = ResultOf(w)]
    BY <1>14, <2>2
  <2>4. Ledger!Enter(w)
    BY <1>7, <1>11, <2>3 DEF Ledger!Enter, Ledger!Phase, Ledger!Move, Called, Book
  <2> QED BY <2>4 DEF Ledger!GNext
<1>12. CASE pc = "refused"
  <2>1. Committed(u)' = Committed(u) /\ module' = module
    BY <1>1, <1>2, <1>9, <1>12
  <2>2. Book' = Book
    BY <1>13, <2>1 DEF Book
  <2>3. Ledger!Refuse(w)
    BY <1>7, <1>12, <2>2 DEF Ledger!Refuse, Ledger!Phase, Ledger!Move, Called, Book
  <2> QED BY <2>3 DEF Ledger!GNext
<1> QED BY <1>11, <1>12

LEMMA AnswerRefines ==
    ASSUME IInv, NEW w \in Workers, Answer(w)
    PROVE  [Ledger!GNext]_Ledger!gvars
<1>1. req[w].pc \in {"done", "refused"} /\ Set(w, Idle) /\ UNCHANGED <<module, grade>>
  BY DEF Answer
<1>2. /\ \A v \in Workers : req'[v] = IF v = w THEN Idle ELSE req[v]
      /\ Idle.pc = "idle"
  BY <1>1, IdleSound DEF Set, IInv, TypeOK
<1>3. Book' = Book
  BY <1>1, <1>2, BookStays DEF At
<1>4. \A v \in Workers \ {w} : CallOf(v)' = CallOf(v)
  BY <1>2 DEF CallOf, At, Published
<1>5. CallOf(w)' = NoOne
  BY <1>2 DEF CallOf, At, NoOne, Nothing
<1>6. CASE req[w].post.op = "GET"
  <2>1. CallOf(w) = NoOne
    BY <1>6 DEF CallOf, NoOne, Nothing
  <2> QED BY <1>3, <1>4, <1>5, <2>1, StutterRefines DEF Called
<1>7. CASE req[w].post.op # "GET"
  <2>1. CallOf(w).phase \in {"entered", "refused"}
    BY <1>1, <1>7 DEF CallOf, At
  <2>2. Called[w].phase \in {"entered", "refused"} /\ Called' = [Called EXCEPT ![w] = NoOne]
    BY <1>4, <1>5, <2>1, OneCalled
  <2>3. Ledger!Close(w)
    BY <1>3, <2>2 DEF Ledger!Close, Ledger!NoCall, NoOne, Nothing, Called, Book
  <2> QED BY <2>3 DEF Ledger!GNext
<1> QED BY <1>6, <1>7

LEMMA StepRefines == IInv /\ [Next]_vars => [Ledger!GNext]_Ledger!gvars
<1> SUFFICES ASSUME IInv, [Next]_vars PROVE [Ledger!GNext]_Ledger!gvars
  OBVIOUS
<1>1. ASSUME NEW w \in Workers, \E id \in Id, p \in Posts : Arrive(w, id, p)
      PROVE  [Ledger!GNext]_Ledger!gvars
  BY <1>1, ArriveRefines
<1>2. ASSUME NEW w \in Workers, VerifyOutcome(w) \/ VerifyResult(w)
      PROVE  [Ledger!GNext]_Ledger!gvars
  <2>1. /\ \E pc \in {"verified", "refused"} : Go(w, pc)
        /\ req[w].pc = "arrived" /\ UNCHANGED <<module, grade>>
    BY <1>2 DEF VerifyOutcome, VerifyResult, At
  <2> QED BY <2>1, GoRefines
<1>3. ASSUME NEW w \in Workers, FindUser(w) PROVE [Ledger!GNext]_Ledger!gvars
  <2>1. PICK pc \in {"found", "done", "refused"} : Go(w, pc) /\ (pc = "done" => req[w].post.op = "GET")
    BY <1>3 DEF FindUser
  <2>2. req[w].pc = "verified" /\ UNCHANGED <<module, grade>>
    BY <1>3 DEF FindUser, At
  <2> QED BY <2>1, <2>2, GoRefines
<1>4. ASSUME NEW w \in Workers, Publish(w) \/ Save(w) \/ Die(w) \/ Answer(w)
      PROVE  [Ledger!GNext]_Ledger!gvars
  BY <1>4, PublishRefines, SaveRefines, AnswerRefines
<1>5. ASSUME UNCHANGED <<module, grade, req>> PROVE [Ledger!GNext]_Ledger!gvars
  <2>1. Called' = Called
    BY <1>5 DEF Called, CallOf, At, Published
  <2>2. Book' = Book
    BY <1>5, BookStays DEF At
  <2> QED BY <2>1, <2>2, StutterRefines
<1>6. CASE (\E u \in Users : Launch(u)) \/ (\E x \in Settings : Author(x)) \/ ToggleFlag \/ Tick
  BY <1>5, <1>6 DEF Launch, Author, ToggleFlag, Tick
<1>7. CASE UNCHANGED vars
  BY <1>5, <1>7 DEF vars
<1> QED BY <1>1, <1>2, <1>3, <1>4, <1>6, <1>7 DEF Next

\* A result of either service is entered whole, module score, comment and grade at
\* one moment, for the learner whose launch gave the identifier out, or not at all,
\* and is answered accordingly, with any number of requests at once.
THEOREM OutcomesImplementGradebook == Spec => KeepsGradebook
<1>1. Init => Ledger!GInit
  <2> SUFFICES ASSUME Init PROVE Ledger!GInit
    OBVIOUS
  <2>1. \A w \in Workers : ~At(w, "published") /\ At(w, "idle")
    BY IdleSound DEF Init, At
  <2>2. \A u \in Users : module[u] = NoModule /\ Committed(u) = NoGrade
    BY <2>1 DEF Init, Committed, Held
  <2>3. \A w \in Workers : CallOf(w) = NoOne
    BY <2>1 DEF CallOf, NoOne, Nothing
  <2> QED BY <2>2, <2>3 DEF Ledger!GInit, Ledger!NoCall, NoOne, Nothing
<1>2. IInv /\ [Next]_vars => [Ledger!GNext]_Ledger!gvars
  BY StepRefines
<1> QED BY <1>1, <1>2, InvAlways, PTL DEF Spec, KeepsGradebook, Ledger!GSpec
=============================================================================
