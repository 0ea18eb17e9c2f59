--------------------------- MODULE LtiLaunchProofs ---------------------------
(***************************************************************************)
(* Proofs about LtiLaunch, for any number of users, launches, content      *)
(* items, attempts and session data.                                       *)
(***************************************************************************)
EXTENDS LtiLaunch, TLAPS

\* Where a launch has read its data.
HasData == {"render", "branch", "session", "launched", "answer", "started", "replace"}

\* Data a tool may be sent: an end message was asked for; a configuration flow
\* goes to no item.
Fair(d, as) == d.type = "LtiEndAssessment" => d.user \in as

\* An entry is under its own key, and without an item it is of the current
\* attempt, or of none.
EntryOK(k, d, att, as) ==
    /\ LaunchDataKey(d) = k /\ Fair(d, as)
    /\ k.item = None => d.attempt \in {NoAttempt, att[k.user]}
CacheOK == \A k \in CacheKey : cache[k] # None => EntryOK(k, cache[k], attempt, asked)

\* A launch in flight, given what the cache holds.
Pending(r, c) ==
    r.pc \in {"page", "gate"} =>
        /\ r.wants # None /\ r.hint = LaunchDataKey(r.wants)
        /\ r.alone => c[r.hint] \in {None, r.wants}
Wants(r) ==
    /\ r.pc = "studio" => r.wants # None /\ r.hint = LaunchDataKey(r.wants) /\ ~r.alone
    /\ r.pc \in {"studio", "page", "render"} => r.wants # None /\ r.wants.type = "LtiResourceLinkRequest"
    /\ r.wants # None /\ r.wants.type = "LtiDeepLinkingRequest" => r.wants.item = None
Holds(r, as) ==
    r.pc \in HasData =>
        /\ r.wants # None /\ r.data # None
        /\ r.data.user = r.wants.user /\ Fair(r.data, as)
        /\ r.pc # "render" /\ r.data.type = "LtiResourceLinkRequest"
           => r.data.item = r.wants.item
        /\ r.alone => r.data = r.wants
Answers(r) ==
    /\ r.pc = "answer" /\ r.late => r.expects # r.data.attempt
    /\ r.pc = "started" => ~r.late
FlowOK(r, c, as) == Pending(r, c) /\ Wants(r) /\ Holds(r, as) /\ Answers(r)
FlowsOK == \A f \in Flows : FlowOK(flow[f], cache, asked)

\* The inductive invariant of the launches.
LaunchInv == TypeOK /\ CacheOK /\ FlowsOK /\ endReturn \subseteq asked

\* A response in its transaction knows all the items, and is the only one.
ReplaceInv ==
    ~clash => /\ \A f, g \in Flows : At(f, "replace") /\ At(g, "replace") => f = g
              /\ \A f \in Flows : At(f, "replace") => flow[f].sees = items
              /\ SelectionIsOneResponse

---------------------------------------------------------------------------
(* Records and keys                                                        *)

LEMMA DataTyped ==
    ASSUME NEW u \in Users, NEW t \in Message, NEW i \in ItemId \cup {None},
           NEW n \in 0..MaxAttempts
    PROVE  Data(u, t, i, n) \in LaunchData
BY DEF Data, LaunchData

LEMMA NoneApart ==
    /\ \A d \in LaunchData : d # None
    /\ \A k \in CacheKey : k # None
    /\ \A i \in ItemId : i # None
BY LaunchAssumption

LEMMA KeyTyped == \A d \in LaunchData : LaunchDataKey(d) \in CacheKey
BY DEF LaunchDataKey, LaunchData, CacheKey

LEMMA IdleTyped == Idle \in Flow
BY LaunchAssumption DEF Idle, Flow, Steps, NoAttempt

LEMMA OfferTyped ==
    ASSUME NEW d \in LaunchData, NEW pc \in {"page", "gate"}
    PROVE  /\ Offer(d, pc) \in Flow
           /\ Offer(d, pc).pc = pc /\ Offer(d, pc).wants = d
           /\ Offer(d, pc).hint = LaunchDataKey(d) /\ Offer(d, pc).alone
BY IdleTyped, KeyTyped DEF Offer, Idle, Flow, Steps

\* Putting data in the cache changes only their keys' entries.
LEMMA CachedWrites ==
    ASSUME TypeOK, NEW D, D \subseteq LaunchData
    PROVE  /\ Cached(D) \in [CacheKey -> LaunchData \cup {None}]
           /\ \A k \in CacheKey :
                 \/ Cached(D)[k] = cache[k] /\ \A d \in D : LaunchDataKey(d) # k
                 \/ Cached(D)[k] \in D /\ LaunchDataKey(Cached(D)[k]) = k
<1>1. ASSUME NEW k \in CacheKey
      PROVE  /\ Cached(D)[k] \in LaunchData \cup {None}
             /\ \/ Cached(D)[k] = cache[k] /\ \A d \in D : LaunchDataKey(d) # k
                \/ Cached(D)[k] \in D /\ LaunchDataKey(Cached(D)[k]) = k
  <2> DEFINE new == {d \in D : LaunchDataKey(d) = k}
  <2>1. CASE new = {}
    <3>1. Cached(D)[k] = cache[k]
      BY <2>1 DEF Cached
    <3> QED BY <2>1, <3>1 DEF TypeOK
  <2>2. CASE new # {}
    <3>1. Cached(D)[k] = CHOOSE d \in new : TRUE
      BY <2>2 DEF Cached
    <3>2. Cached(D)[k] \in new
      BY <2>2, <3>1
    <3> QED BY <3>2
  <2> QED BY <2>1, <2>2
<1>2. Cached(D) = [k \in CacheKey |-> Cached(D)[k]]
  BY DEF Cached
<1> QED BY <1>1, <1>2

---------------------------------------------------------------------------
(* The three shapes of a step                                              *)

\* A launch is prepared: the entries written are those of its user, whose other
\* launches are not alone any more.
LEMMA PrepareStep ==
    ASSUME LaunchInv, NEW f \in Flows, NEW u \in Users, NEW r \in Flow,
           Prepare(f, u, r), FlowOK(r, cache', asked),
           cache' \in [CacheKey -> LaunchData \cup {None}],
           \A k \in CacheKey :
              \/ /\ cache'[k] = cache[k]
                 /\ k.item = None /\ cache[k] # None => attempt'[k.user] = attempt[k.user]
              \/ k.user = u /\ cache'[k] # None /\ EntryOK(k, cache'[k], attempt', asked),
           attempt' \in [Users -> 0..MaxAttempts],
           UNCHANGED <<proctored, session, minted, endReturn, items, batches, asked, clash>>
    PROVE  LaunchInv'
<1>1. \A g \in Flows :
        /\ flow[g] \in Flow /\ flow'[g] \in Flow
        /\ \/ g = f /\ flow'[g] = r
           \/ flow'[g] = [flow[g] EXCEPT !.alone = FALSE]
           \/ /\ flow'[g] = flow[g]
              /\ ~(/\ flow[g].wants # None /\ flow[g].wants.user = u
                   /\ flow[g].pc \in {"page", "render", "gate"})
  BY DEF LaunchInv, TypeOK, Prepare, Flow
<1>2. TypeOK'
  BY <1>1 DEF LaunchInv, TypeOK, Prepare
<1>3. CacheOK'
  BY DEF LaunchInv, CacheOK, EntryOK
<1>4. ASSUME NEW g \in Flows PROVE FlowOK(flow'[g], cache', asked)
  <2>0. FlowOK(flow[g], cache, asked) /\ flow[g] \in Flow
    BY <1>1 DEF LaunchInv, FlowsOK
  <2>1. CASE flow'[g] = r
    BY <2>1
  <2>2. CASE flow'[g] = [flow[g] EXCEPT !.alone = FALSE]
    <3>1. /\ flow'[g].pc = flow[g].pc /\ flow'[g].wants = flow[g].wants
          /\ flow'[g].hint = flow[g].hint /\ flow'[g].data = flow[g].data
          /\ flow'[g].expects = flow[g].expects /\ flow'[g].late = flow[g].late
          /\ ~flow'[g].alone
      BY <2>0, <2>2 DEF Flow
    <3> QED BY <2>0, <3>1 DEF FlowOK, Pending, Wants, Holds, Answers
  <2>3. CASE /\ flow'[g] = flow[g]
             /\ ~(/\ flow[g].wants # None /\ flow[g].wants.user = u
                  /\ flow[g].pc \in {"page", "render", "gate"})
    <3>1. ASSUME flow[g].pc \in {"page", "gate"}
          PROVE  cache'[flow[g].hint] = cache[flow[g].hint]
      <4>1. /\ flow[g].wants \in LaunchData /\ flow[g].hint = LaunchDataKey(flow[g].wants)
        BY <2>0, <3>1 DEF FlowOK, Pending, Flow
      <4>2. flow[g].hint \in CacheKey /\ flow[g].hint.user # u
        BY <2>3, <3>1, <4>1, KeyTyped, NoneApart DEF LaunchDataKey
      <4> QED BY <4>2
    <3>2. Pending(flow[g], cache')
      BY <2>0, <3>1 DEF FlowOK, Pending
    <3> QED BY <2>0, <2>3, <3>2 DEF FlowOK
  <2> QED BY <1>1, <2>1, <2>2, <2>3
<1> QED BY <1>2, <1>3, <1>4 DEF LaunchInv, FlowsOK

\* One launch goes on; the cache of launch data and the attempts stay.
LEMMA SetStep ==
    ASSUME LaunchInv, NEW f \in Flows, NEW r \in Flow, Set(f, r),
           FlowOK(r, cache, asked'), asked \subseteq asked', asked' \subseteq Users,
           session' \in [Users -> 0..MaxSessions], minted' \in [Users -> 0..MaxSessions],
           endReturn' \subseteq asked', items' \subseteq Item, batches' \in Batches,
           clash' \in BOOLEAN, UNCHANGED <<proctored, cache, attempt>>
    PROVE  LaunchInv'
<1>1. \A g \in Flows : flow'[g] = IF g = f THEN r ELSE flow[g]
  BY DEF LaunchInv, TypeOK, Set
<1>2. TypeOK'
  BY DEF LaunchInv, TypeOK, Set
<1>3. CacheOK'
  BY DEF LaunchInv, CacheOK, EntryOK, Fair
<1>4. FlowsOK'
  BY <1>1 DEF LaunchInv, FlowsOK, FlowOK, Pending, Wants, Holds, Answers, Fair
<1> QED BY <1>2, <1>3, <1>4 DEF LaunchInv

---------------------------------------------------------------------------
(* First leg                                                               *)

LEMMA OfferOK ==
    ASSUME NEW d \in LaunchData, Fair(d, asked),
           d.type = "LtiDeepLinkingRequest" => d.item = None,
           NEW pc \in {"page", "gate"}, pc = "page" => d.type = "LtiResourceLinkRequest",
           NEW c, c[LaunchDataKey(d)] \in {None, d}
    PROVE  FlowOK(Offer(d, pc), c, asked)
BY OfferTyped, NoneApart DEF FlowOK, Pending, Wants, Holds, Answers, HasData

\* One launch's data are cached, and a launch of that user goes on.
LEMMA WriteStep ==
    ASSUME LaunchInv, NEW f \in Flows, NEW u \in Users, NEW d \in LaunchData,
           d.user = u, Fair(d, asked), cache' = Cached({d}),
           NEW r \in Flow, Prepare(f, u, r), FlowOK(r, cache', asked),
           d.item = None => d.attempt \in {NoAttempt, attempt'[u]},
           attempt' \in [Users -> 0..MaxAttempts],
           \A v \in Users : v # u => attempt'[v] = attempt[v],
           attempt'[u] = attempt[u] \/ d.item = None,
           UNCHANGED <<proctored, session, minted, endReturn, items, batches, asked, clash>>
    PROVE  LaunchInv'
<1>1. {d} \subseteq LaunchData /\ TypeOK
  BY DEF LaunchInv
<1>2. /\ cache' \in [CacheKey -> LaunchData \cup {None}]
      /\ \A k \in CacheKey :
            \/ cache'[k] = cache[k] /\ LaunchDataKey(d) # k
            \/ cache'[k] = d /\ LaunchDataKey(d) = k
  BY <1>1, CachedWrites
<1>3. ASSUME NEW k \in CacheKey
      PROVE  \/ /\ cache'[k] = cache[k]
                /\ k.item = None /\ cache[k] # None => attempt'[k.user] = attempt[k.user]
             \/ k.user = u /\ cache'[k] # None /\ EntryOK(k, cache'[k], attempt', asked)
  <2>1. CASE cache'[k] = d /\ LaunchDataKey(d) = k
    <3>1. k.user = u /\ k.item = d.item
      BY <2>1 DEF LaunchDataKey
    <3> QED BY <2>1, <3>1, NoneApart DEF EntryOK
  <2>2. CASE cache'[k] = cache[k] /\ LaunchDataKey(d) # k
    <3>1. k.user \in Users /\ (k.item = None /\ d.item = None => k.user # u)
      BY <2>2 DEF LaunchDataKey, CacheKey
    <3> QED BY <2>2, <3>1
  <2> QED BY <1>2, <2>1, <2>2
<1> QED BY <1>2, <1>3, PrepareStep

\* A view or the host caches one launch's data and offers that launch.
LEMMA OfferStep ==
    ASSUME LaunchInv, NEW f \in Flows, NEW u \in Users, NEW d \in LaunchData,
           d.user = u, Fair(d, asked), d.type = "LtiDeepLinkingRequest" => d.item = None,
           NEW pc \in {"page", "gate"}, pc = "page" => d.type = "LtiResourceLinkRequest",
           cache' = Cached({d}), Prepare(f, u, Offer(d, pc)),
           d.item = None => d.attempt \in {NoAttempt, attempt'[u]},
           attempt' \in [Users -> 0..MaxAttempts],
           \A v \in Users : v # u => attempt'[v] = attempt[v],
           attempt'[u] = attempt[u] \/ d.item = None,
           UNCHANGED <<proctored, session, minted, endReturn, items, batches, asked, clash>>
    PROVE  LaunchInv'
<1>1. {d} \subseteq LaunchData /\ TypeOK
  BY DEF LaunchInv
<1>2. cache'[LaunchDataKey(d)] = d
  BY <1>1, CachedWrites, KeyTyped
<1>3. FlowOK(Offer(d, pc), cache', asked)
  BY <1>2, OfferOK
<1>4. Offer(d, pc) \in Flow
  BY OfferTyped
<1> QED BY <1>3, <1>4, WriteStep

LEMMA ContentOfferTyped ==
    ASSUME TypeOK, NEW u \in Users
    PROVE  \E i \in ItemId \cup {None}, pc \in {"page", "gate"} :
              ContentOffer(u) = Offer(Data(u, "LtiResourceLinkRequest", i, NoAttempt), pc)
<1> DEFINE i == IF OnlyLaunch(items) THEN (CHOOSE j \in items : TRUE).id ELSE None
<1>1. i \in ItemId \cup {None}
  <2>1. OnlyLaunch(items) => (CHOOSE j \in items : TRUE) \in items
    BY DEF OnlyLaunch
  <2> QED BY <2>1 DEF TypeOK, Item
<1>2. Place(items) \in {"page", "gate"}
  BY DEF Place
<1>3. ContentOffer(u) = Offer(Data(u, "LtiResourceLinkRequest", i, NoAttempt), Place(items))
  BY DEF ContentOffer
<1> QED BY <1>1, <1>2, <1>3

LEMMA DataFields ==
    ASSUME NEW u, NEW t, NEW i, NEW n
    PROVE  /\ Data(u, t, i, n).user = u /\ Data(u, t, i, n).type = t
           /\ Data(u, t, i, n).item = i /\ Data(u, t, i, n).attempt = n
BY DEF Data

LEMMA StudentViewOK ==
    ASSUME LaunchInv, NEW f \in Flows, NEW u \in Users, StudentView(f, u)
    PROVE  LaunchInv'
<1>1. PICK i \in ItemId \cup {None}, pc \in {"page", "gate"} :
        ContentOffer(u) = Offer(Data(u, "LtiResourceLinkRequest", i, NoAttempt), pc)
  BY ContentOfferTyped DEF LaunchInv
<1> DEFINE d == Data(u, "LtiResourceLinkRequest", i, NoAttempt)
<1>2. d \in LaunchData
  BY LaunchAssumption, DataTyped DEF Message, NoAttempt
<1>3. Offer(d, pc).wants = d
  BY <1>2, OfferTyped
<1>4. /\ cache' = Cached({d}) /\ Prepare(f, u, Offer(d, pc))
      /\ UNCHANGED <<proctored, session, minted, endReturn, items, batches, attempt, asked, clash>>
  BY <1>1, <1>3 DEF StudentView
<1>5. /\ d.user = u /\ d.type = "LtiResourceLinkRequest" /\ d.attempt = NoAttempt
  BY DataFields
<1>6. attempt' \in [Users -> 0..MaxAttempts] /\ attempt' = attempt
  BY <1>4 DEF LaunchInv, TypeOK
<1> HIDE DEF d
<1> QED BY <1>2, <1>4, <1>5, <1>6, OfferStep DEF Fair

LEMMA AuthorViewOK ==
    ASSUME LaunchInv, NEW f \in Flows, NEW u \in Users, AuthorView(f, u)
    PROVE  LaunchInv'
<1> DEFINE d == DeepLinking(u)
<1>1. /\ d.user = u /\ d.type = "LtiDeepLinkingRequest" /\ d.item = None
      /\ d.attempt = NoAttempt
  BY DataFields DEF DeepLinking
<1>2. d \in LaunchData
  BY LaunchAssumption, DataTyped DEF DeepLinking, Message, NoAttempt
<1>3. /\ cache' = Cached({d}) /\ Prepare(f, u, Offer(d, "gate"))
      /\ UNCHANGED <<proctored, session, minted, endReturn, items, batches, attempt, asked, clash>>
  BY DEF AuthorView
<1>4. attempt' \in [Users -> 0..MaxAttempts] /\ attempt' = attempt
  BY <1>3 DEF LaunchInv, TypeOK
<1> HIDE DEF d
<1> QED BY <1>1, <1>2, <1>3, <1>4, OfferStep DEF Fair

LEMMA StartProctoringOK ==
    ASSUME LaunchInv, NEW f \in Flows, NEW u \in Users, NEW n \in 1..MaxAttempts,
           StartProctoring(f, u, n)
    PROVE  LaunchInv'
<1> DEFINE d == Data(u, "LtiStartProctoring", None, n)
<1>1. d.user = u /\ d.type = "LtiStartProctoring" /\ d.item = None /\ d.attempt = n
  BY DataFields
<1>2. d \in LaunchData
  BY DataTyped DEF Message
<1>3. /\ cache' = Cached({d}) /\ Prepare(f, u, Offer(d, "gate"))
      /\ attempt' = [attempt EXCEPT ![u] = n]
      /\ UNCHANGED <<proctored, session, minted, endReturn, items, batches, asked, clash>>
  BY DEF StartProctoring
<1>4. /\ attempt' \in [Users -> 0..MaxAttempts] /\ attempt'[u] = n
      /\ \A v \in Users : v # u => attempt'[v] = attempt[v]
  BY <1>3 DEF LaunchInv, TypeOK
<1> HIDE DEF d
<1> QED BY <1>1, <1>2, <1>3, <1>4, OfferStep DEF Fair

LEMMA EndAssessmentOK ==
    ASSUME LaunchInv, NEW f \in Flows, NEW u \in Users, EndAssessment(f, u)
    PROVE  LaunchInv'
<1> DEFINE d == Data(u, "LtiEndAssessment", None, attempt[u])
<1>1. d.user = u /\ d.type = "LtiEndAssessment" /\ d.item = None /\ d.attempt = attempt[u]
  BY DataFields
<1>2. d \in LaunchData
  BY DataTyped DEF Message, LaunchInv, TypeOK
<1>3. /\ cache' = Cached({d}) /\ Prepare(f, u, Offer(d, "gate")) /\ u \in endReturn
      /\ UNCHANGED <<proctored, session, minted, endReturn, items, batches, attempt, asked, clash>>
  BY DEF EndAssessment, EndReturn
<1>4. attempt' \in [Users -> 0..MaxAttempts] /\ attempt' = attempt
  BY <1>3 DEF LaunchInv, TypeOK
<1>5. Fair(d, asked)
  BY <1>1, <1>3 DEF LaunchInv, Fair
<1> HIDE DEF d
<1> QED BY <1>1, <1>2, <1>3, <1>4, <1>5, OfferStep

LEMMA StudioViewOK ==
    ASSUME LaunchInv, NEW f \in Flows, NEW u \in Users, StudioView(f, u)
    PROVE  LaunchInv'
<1>1. PICK i \in ItemId \cup {None}, pc \in {"page", "gate"} :
        ContentOffer(u) = Offer(Data(u, "LtiResourceLinkRequest", i, NoAttempt), pc)
  BY ContentOfferTyped DEF LaunchInv
<1> DEFINE d == Data(u, "LtiResourceLinkRequest", i, NoAttempt)
           r == [Offer(d, pc) EXCEPT !.pc = "studio", !.sees = items, !.alone = FALSE]
<1>2. /\ d.user = u /\ d.type = "LtiResourceLinkRequest" /\ d.attempt = NoAttempt
  BY DataFields
<1>3. d \in LaunchData
  BY LaunchAssumption, DataTyped DEF Message, NoAttempt
<1>4. /\ Offer(d, pc) \in Flow /\ Offer(d, pc).wants = d
      /\ Offer(d, pc).hint = LaunchDataKey(d)
  BY <1>3, OfferTyped
<1>5. /\ cache' = Cached({d}) /\ Prepare(f, u, r)
      /\ UNCHANGED <<proctored, session, minted, endReturn, items, batches, attempt, asked, clash>>
  BY <1>1, <1>4 DEF StudioView
<1>6. items \subseteq Item
  BY DEF LaunchInv, TypeOK
<1>7. /\ r \in Flow /\ r.pc = "studio" /\ r.wants = d /\ r.hint = LaunchDataKey(d) /\ ~r.alone
  BY <1>4, <1>6 DEF Flow, Steps
<1>8. attempt' \in [Users -> 0..MaxAttempts] /\ attempt' = attempt
  BY <1>5 DEF LaunchInv, TypeOK
<1> HIDE DEF d, r
<1>9. FlowOK(r, cache', asked)
  BY <1>2, <1>3, <1>7, NoneApart DEF FlowOK, Pending, Wants, Holds, Answers, HasData
<1>10. Fair(d, asked)
  BY <1>2 DEF Fair
<1> QED BY <1>2, <1>3, <1>5, <1>7, <1>8, <1>9, <1>10, WriteStep

\* What every step of one launch knows of it.
LEMMA FlowTyped ==
    ASSUME LaunchInv, NEW f \in Flows
    PROVE  flow[f] \in Flow /\ FlowOK(flow[f], cache, asked)
BY DEF LaunchInv, TypeOK, FlowsOK

LEMMA StudioAuthorOK ==
    ASSUME LaunchInv, NEW f \in Flows, StudioAuthor(f)
    PROVE  LaunchInv'
<1> DEFINE w == flow[f].wants
           d == DeepLinking(w.user)
           r == [flow[f] EXCEPT !.pc = Place(flow[f].sees), !.sees = {}]
<1>1. /\ flow[f] \in Flow /\ flow[f].pc = "studio" /\ FlowOK(flow[f], cache, asked)
      /\ w \in LaunchData /\ w.user \in Users /\ w.type = "LtiResourceLinkRequest"
      /\ flow[f].hint = LaunchDataKey(w) /\ ~flow[f].alone
  BY FlowTyped DEF StudioAuthor, At, FlowOK, Wants, Flow, LaunchData
<1>2. /\ d.user = w.user /\ d.type = "LtiDeepLinkingRequest" /\ d.item = None
      /\ d.attempt = NoAttempt
  BY DataFields DEF DeepLinking
<1>3. d \in LaunchData
  BY <1>1, LaunchAssumption, DataTyped DEF DeepLinking, Message, NoAttempt
<1>4. /\ cache' = Cached({d}) /\ Prepare(f, w.user, r)
      /\ UNCHANGED <<proctored, session, minted, endReturn, items, batches, attempt, asked, clash>>
  BY DEF StudioAuthor
<1>5. Place(flow[f].sees) \in {"page", "gate"}
  BY DEF Place
<1>6. /\ r \in Flow /\ r.pc \in {"page", "gate"} /\ r.wants = w
      /\ r.hint = LaunchDataKey(w) /\ ~r.alone
  BY <1>1, <1>5 DEF Flow, Steps
<1>7. attempt' \in [Users -> 0..MaxAttempts] /\ attempt' = attempt
  BY <1>4 DEF LaunchInv, TypeOK
<1> HIDE DEF d, r, w
<1>8. FlowOK(r, cache', asked)
  BY <1>1, <1>6, NoneApart DEF FlowOK, Pending, Wants, Holds, Answers, HasData
<1>9. Fair(d, asked)
  BY <1>2 DEF Fair
<1> QED BY <1>1, <1>2, <1>3, <1>4, <1>6, <1>7, <1>8, <1>9, WriteStep

\* A launch that has read the entry its hint names.
LEMMA ReadOK ==
    ASSUME LaunchInv, NEW f \in Flows, flow[f].pc \in {"page", "gate"},
           cache[flow[f].hint] # None
    PROVE  LET d == cache[flow[f].hint] IN
           /\ d \in LaunchData /\ d.user = flow[f].wants.user /\ d.item = flow[f].wants.item
           /\ Fair(d, asked) /\ (flow[f].alone => d = flow[f].wants)
           /\ flow[f].wants # None
<1>1. /\ flow[f].wants \in LaunchData /\ flow[f].hint = LaunchDataKey(flow[f].wants)
      /\ flow[f].alone => cache[flow[f].hint] \in {None, flow[f].wants}
  BY FlowTyped DEF FlowOK, Pending, Flow
<1>2. flow[f].hint \in CacheKey
  BY <1>1, KeyTyped
<1>3. EntryOK(flow[f].hint, cache[flow[f].hint], attempt, asked)
  BY <1>2 DEF LaunchInv, CacheOK
<1>4. cache[flow[f].hint] \in LaunchData
  BY <1>2 DEF LaunchInv, TypeOK
<1> QED BY <1>1, <1>3, <1>4, NoneApart DEF EntryOK, LaunchDataKey

LEMMA FailOK ==
    ASSUME LaunchInv, NEW f \in Flows, Fail(f),
           UNCHANGED <<proctored, state>>
    PROVE  LaunchInv'
<1> DEFINE r == [flow[f] EXCEPT !.pc = "ended"]
<1>1. r \in Flow /\ r.pc = "ended" /\ r.wants = flow[f].wants
  BY FlowTyped DEF Flow, Steps
<1>2. FlowOK(r, cache, asked)
  BY <1>1, FlowTyped DEF FlowOK, Pending, Wants, Holds, Answers, HasData
<1>3. Set(f, r)
  BY DEF Fail
<1> HIDE DEF r
<1> QED BY <1>1, <1>2, <1>3, SetStep DEF state, LaunchInv, TypeOK

LEMMA QuietSetOK ==
    ASSUME LaunchInv, NEW f \in Flows, NEW r \in Flow, Set(f, r),
           FlowOK(r, cache, asked), UNCHANGED <<proctored, state>>
    PROVE  LaunchInv'
BY SetStep DEF state, LaunchInv, TypeOK

LEMMA PageReadOK ==
    ASSUME LaunchInv, NEW f \in Flows, PageRead(f)
    PROVE  LaunchInv'
<1> DEFINE d == cache[flow[f].hint]
           r == [flow[f] EXCEPT !.pc = "render", !.data = d]
<1>1. flow[f].pc = "page" /\ UNCHANGED <<proctored, state>>
  BY DEF PageRead, At
<1>2. CASE d # None /\ Set(f, r)
  <2>1. /\ d \in LaunchData /\ d.user = flow[f].wants.user /\ flow[f].wants # None
        /\ Fair(d, asked) /\ (flow[f].alone => d = flow[f].wants)
    BY <1>1, <1>2, ReadOK
  <2>2. /\ r \in Flow /\ r.pc = "render" /\ r.wants = flow[f].wants /\ r.data = d
        /\ r.alone = flow[f].alone
    BY <2>1, FlowTyped DEF Flow, Steps
  <2>3. FlowOK(r, cache, asked)
    BY <1>1, <1>2, <2>1, <2>2, FlowTyped DEF FlowOK, Pending, Wants, Holds, Answers, HasData
  <2> QED BY <1>1, <1>2, <2>2, <2>3, QuietSetOK
<1>3. CASE Fail(f)
  BY <1>1, <1>3, FailOK
<1> QED BY <1>2, <1>3 DEF PageRead

LEMMA GateReadOK ==
    ASSUME LaunchInv, NEW f \in Flows, GateRead(f)
    PROVE  LaunchInv'
<1> DEFINE d == cache[flow[f].hint]
           r == [flow[f] EXCEPT !.pc = "branch", !.data = d]
<1>1. flow[f].pc = "gate" /\ UNCHANGED <<proctored, state>>
  BY DEF GateRead, At
<1>2. CASE d # None /\ Set(f, r)
  <2>1. /\ d \in LaunchData /\ d.user = flow[f].wants.user /\ flow[f].wants # None
        /\ d.item = flow[f].wants.item
        /\ Fair(d, asked) /\ (flow[f].alone => d = flow[f].wants)
    BY <1>1, <1>2, ReadOK
  <2>2. /\ r \in Flow /\ r.pc = "branch" /\ r.wants = flow[f].wants /\ r.data = d
        /\ r.alone = flow[f].alone
    BY <2>1, FlowTyped DEF Flow, Steps
  <2>3. FlowOK(r, cache, asked)
    BY <1>1, <1>2, <2>1, <2>2, FlowTyped DEF FlowOK, Pending, Wants, Holds, Answers, HasData
  <2> QED BY <1>1, <1>2, <2>2, <2>3, QuietSetOK
<1>3. CASE Fail(f)
  BY <1>1, <1>3, FailOK
<1> QED BY <1>2, <1>3 DEF GateRead

\* The page caches, for every item, its reader's data with that item.
LEMMA PageRenderOK ==
    ASSUME LaunchInv, NEW f \in Flows, PageRender(f)
    PROVE  LaunchInv'
<1> DEFINE d == flow[f].data
           launches == {i \in items : i.link}
           D == {[d EXCEPT !.item = i.id] : i \in launches}
<1>1. /\ flow[f].pc = "render" /\ cache' = Cached(D)
      /\ UNCHANGED <<proctored, session, minted, endReturn, items, batches, attempt, asked, clash>>
  BY DEF PageRender, At
<1>2. /\ d \in LaunchData /\ flow[f].wants \in LaunchData /\ d.user = flow[f].wants.user
      /\ flow[f].wants.type = "LtiResourceLinkRequest"
      /\ Fair(d, asked) /\ (flow[f].alone => d = flow[f].wants)
  BY <1>1, FlowTyped DEF FlowOK, Wants, Holds, HasData, Flow
<1>3. \A i \in launches :
        LET e == [d EXCEPT !.item = i.id] IN
        /\ e \in LaunchData /\ e.user = d.user /\ e.type = d.type /\ e.attempt = d.attempt
        /\ e.item = i.id /\ i.id \in ItemId
  BY <1>2 DEF LaunchInv, TypeOK, Item, LaunchData
<1>4. D \subseteq LaunchData
  BY <1>3
<1>5. /\ cache' \in [CacheKey -> LaunchData \cup {None}]
      /\ \A k \in CacheKey :
            \/ cache'[k] = cache[k] /\ \A e \in D : LaunchDataKey(e) # k
            \/ cache'[k] \in D /\ LaunchDataKey(cache'[k]) = k
  BY <1>1, <1>4, CachedWrites DEF LaunchInv
<1>6. CASE launches = {} /\ Fail(f)
  <2>1. cache' = cache
    <3>1. \A k \in CacheKey : cache'[k] = cache[k]
      BY <1>5, <1>6
    <3> QED BY <1>5, <3>1 DEF LaunchInv, TypeOK
  <2> QED BY <1>1, <1>6, <2>1, FailOK DEF state
<1>7. ASSUME NEW i \in launches,
             Prepare(f, d.user, [flow[f] EXCEPT !.pc = "gate", !.wants.item = i.id,
                                    !.hint = LaunchDataKey([d EXCEPT !.item = i.id])])
      PROVE  LaunchInv'
  <2> DEFINE e == [d EXCEPT !.item = i.id]
             w == [flow[f].wants EXCEPT !.item = i.id]
             r == [flow[f] EXCEPT !.pc = "gate", !.wants.item = i.id, !.hint = LaunchDataKey(e)]
  <2>1. e \in LaunchData /\ e.user = d.user /\ e.item = i.id /\ e \in D /\ i.id \in ItemId
    BY <1>3
  <2>2. w \in LaunchData /\ w.user = d.user /\ w.item = i.id /\ w.type = "LtiResourceLinkRequest"
    BY <1>2, <2>1 DEF LaunchData
  <2>3. LaunchDataKey(e) \in CacheKey /\ LaunchDataKey(w) = LaunchDataKey(e)
    BY <2>1, <2>2, KeyTyped DEF LaunchDataKey
  <2>4. /\ r \in Flow /\ r.pc = "gate" /\ r.wants = w /\ r.hint = LaunchDataKey(e)
        /\ r.alone = flow[f].alone
    BY <2>2, <2>3, FlowTyped DEF Flow, Steps
  <2>5. \A c \in D : LaunchDataKey(c) = LaunchDataKey(e) => c = e
    BY <1>2, <1>3 DEF LaunchDataKey
  <2>6. cache'[LaunchDataKey(e)] = e
    BY <1>5, <2>1, <2>3, <2>5
  <2>7. flow[f].alone => e = w
    BY <1>2
  <2>8. FlowOK(r, cache', asked)
    BY <2>2, <2>3, <2>4, <2>6, <2>7, NoneApart DEF FlowOK, Pending, Wants, Holds, Answers, HasData
  <2>9. ASSUME NEW k \in CacheKey
        PROVE  \/ cache'[k] = cache[k]
               \/ k.user = d.user /\ cache'[k] # None /\ EntryOK(k, cache'[k], attempt', asked)
    <3>1. CASE cache'[k] \in D /\ LaunchDataKey(cache'[k]) = k
      <4>1. PICK j \in launches : cache'[k] = [d EXCEPT !.item = j.id]
        BY <3>1
      <4>2. /\ cache'[k] \in LaunchData /\ cache'[k].user = d.user
            /\ cache'[k].type = d.type /\ cache'[k].item # None
        BY <1>3, <4>1, NoneApart
      <4>3. k.user = d.user /\ k.item # None
        BY <3>1, <4>2 DEF LaunchDataKey
      <4> QED BY <1>2, <3>1, <4>2, <4>3, NoneApart DEF EntryOK, Fair
    <3> QED BY <1>5, <3>1
  <2>10. d.user \in Users /\ attempt' = attempt /\ attempt' \in [Users -> 0..MaxAttempts]
    BY <1>1, <1>2 DEF LaunchData, LaunchInv, TypeOK
  <2>11. Prepare(f, d.user, r)
    BY <1>7
  <2> HIDE DEF r
  <2> QED BY <1>1, <1>5, <2>4, <2>8, <2>9, <2>10, <2>11, PrepareStep
<1> QED BY <1>6, <1>7 DEF PageRender

---------------------------------------------------------------------------
(* Second leg and answers                                                  *)

\* A launch past the gate's read goes on with its data.
LEMMA GoesOn ==
    ASSUME LaunchInv, NEW f \in Flows, flow[f].pc \in HasData \ {"render"},
           NEW r \in Flow, Answers(r), r.pc \in (HasData \ {"render"}) \cup {"ended"},
           r.wants = flow[f].wants, r.data = flow[f].data, r.alone = flow[f].alone,
           NEW as, asked \subseteq as
    PROVE  FlowOK(r, cache, as)
BY FlowTyped DEF FlowOK, Pending, Wants, Holds, Fair, HasData

LEMMA GateBranchOK ==
    ASSUME LaunchInv, NEW f \in Flows, GateBranch(f)
    PROVE  LaunchInv'
<1> DEFINE d == flow[f].data
<1>1. flow[f].pc = "branch" /\ UNCHANGED <<proctored, state>>
  BY DEF GateBranch, At
<1>2. /\ flow[f] \in Flow /\ FlowOK(flow[f], cache, asked)
      /\ d \in LaunchData /\ flow[f].wants \in LaunchData
  BY <1>1, FlowTyped DEF FlowOK, Holds, HasData, Flow
<1>3. CASE Set(f, Launched(f, d))
  <2> DEFINE r == Launched(f, d)
  <2>1. /\ r \in Flow /\ r.pc = "launched" /\ r.wants = flow[f].wants /\ r.data = d
        /\ r.alone = flow[f].alone
    BY <1>2 DEF Launched, Flow, Steps
  <2>2. FlowOK(r, cache, asked)
    BY <1>1, <2>1, GoesOn DEF HasData, Answers
  <2> QED BY <1>1, <1>3, <2>1, <2>2, QuietSetOK
<1>4. CASE d.type = "LtiDeepLinkingRequest" /\ Set(f, Launched(f, [d EXCEPT !.item = None]))
  <2> DEFINE e == [d EXCEPT !.item = None]
             r == Launched(f, e)
  <2>1. e \in LaunchData /\ e.user = d.user /\ e.type = d.type
    BY <1>2 DEF LaunchData
  <2>2. d.item = None => e = d
    BY <1>2 DEF LaunchData
  <2>3. /\ r \in Flow /\ r.pc = "launched" /\ r.wants = flow[f].wants /\ r.data = e
        /\ r.alone = flow[f].alone
    BY <1>2, <2>1 DEF Launched, Flow, Steps
  <2>4. Holds(r, asked)
    BY <1>1, <1>2, <1>4, <2>1, <2>2, <2>3, NoneApart
       DEF FlowOK, Wants, Holds, HasData, Fair
  <2>5. FlowOK(r, cache, asked)
    BY <1>2, <2>3, <2>4 DEF FlowOK, Pending, Wants, Answers
  <2> QED BY <1>1, <1>4, <2>3, <2>5, QuietSetOK
<1>5. CASE Set(f, [flow[f] EXCEPT !.pc = "session", !.session = session[d.user]])
  <2> DEFINE r == [flow[f] EXCEPT !.pc = "session", !.session = session[d.user]]
  <2>1. session[d.user] \in 0..MaxSessions
    BY <1>2 DEF LaunchInv, TypeOK, LaunchData
  <2>2. /\ r \in Flow /\ r.pc = "session" /\ r.wants = flow[f].wants /\ r.data = d
        /\ r.alone = flow[f].alone
    BY <1>2, <2>1 DEF Flow, Steps
  <2>3. FlowOK(r, cache, asked)
    BY <1>1, <2>2, GoesOn DEF HasData, Answers
  <2> QED BY <1>1, <1>5, <2>2, <2>3, QuietSetOK
<1>6. CASE Fail(f)
  BY <1>1, <1>6, FailOK
<1> QED BY <1>3, <1>4, <1>5, <1>6 DEF GateBranch

LEMMA GateSessionOK ==
    ASSUME LaunchInv, NEW f \in Flows, GateSession(f)
    PROVE  LaunchInv'
<1> DEFINE d == flow[f].data
           fresh == minted[d.user] + 1
<1>1. /\ flow[f].pc = "session"
      /\ UNCHANGED <<proctored, cache, endReturn, items, batches, attempt, asked, clash>>
  BY DEF GateSession, At
<1>2. /\ flow[f] \in Flow /\ d \in LaunchData
  BY <1>1, FlowTyped DEF FlowOK, Holds, HasData, Flow
<1>3. CASE Set(f, Launched(f, d)) /\ UNCHANGED <<session, minted>>
  <2> DEFINE r == Launched(f, d)
  <2>1. /\ r \in Flow /\ r.pc = "launched" /\ r.wants = flow[f].wants /\ r.data = d
        /\ r.alone = flow[f].alone
    BY <1>2 DEF Launched, Flow, Steps
  <2>2. FlowOK(r, cache, asked)
    BY <1>1, <2>1, GoesOn DEF HasData, Answers
  <2> QED BY <1>1, <1>3, <2>1, <2>2, QuietSetOK DEF state
<1>4. CASE /\ fresh <= MaxSessions /\ minted' = [minted EXCEPT ![d.user] = fresh]
           /\ session' = [session EXCEPT ![d.user] = fresh]
           /\ Set(f, [Launched(f, d) EXCEPT !.session = fresh])
  <2> DEFINE r == [Launched(f, d) EXCEPT !.session = fresh]
  <2>1. d.user \in Users /\ fresh \in 0..MaxSessions
    BY <1>2, <1>4, LaunchAssumption DEF LaunchInv, TypeOK, LaunchData
  <2>2. /\ r \in Flow /\ r.pc = "launched" /\ r.wants = flow[f].wants /\ r.data = d
        /\ r.alone = flow[f].alone
    BY <1>2, <2>1 DEF Launched, Flow, Steps
  <2>3. FlowOK(r, cache, asked)
    BY <1>1, <2>2, GoesOn DEF HasData, Answers
  <2>4. session' \in [Users -> 0..MaxSessions] /\ minted' \in [Users -> 0..MaxSessions]
    BY <1>4, <2>1 DEF LaunchInv, TypeOK
  <2>5. Set(f, r)
    BY <1>4
  <2> HIDE DEF r
  <2> QED BY <1>1, <2>2, <2>3, <2>4, <2>5, SetStep DEF LaunchInv, TypeOK
<1> QED BY <1>3, <1>4 DEF GateSession

LEMMA ReplaceReadOK ==
    ASSUME LaunchInv, NEW f \in Flows, ReplaceRead(f)
    PROVE  LaunchInv'
<1> DEFINE r == [flow[f] EXCEPT !.pc = "replace", !.sees = items]
<1>1. /\ flow[f].pc = "launched" /\ Set(f, r) /\ clash' \in BOOLEAN
      /\ UNCHANGED <<proctored, cache, session, minted, endReturn, items, batches, attempt, asked>>
  BY DEF ReplaceRead, At, LaunchInv, TypeOK
<1>2. items \in SUBSET Item
  BY DEF LaunchInv, TypeOK
<1>3. /\ r \in Flow /\ r.pc = "replace" /\ r.wants = flow[f].wants /\ r.data = flow[f].data
      /\ r.alone = flow[f].alone
  BY <1>2, FlowTyped DEF Flow, Steps
<1>4. FlowOK(r, cache, asked)
  BY <1>1, <1>3, GoesOn DEF HasData, Answers
<1> HIDE DEF r
<1> QED BY <1>1, <1>3, <1>4, SetStep DEF LaunchInv, TypeOK

LEMMA NewItemsTyped ==
    ASSUME NEW s \in Selections, NEW b \in Batches
    PROVE  {[id |-> [batch |-> b, n |-> c.n], link |-> c.link] : c \in s} \subseteq Item
<1>1. \A c \in s : c.n \in Numbers /\ c.link \in BOOLEAN
  BY LaunchAssumption DEF Numbers
<1> QED BY <1>1 DEF Item, ItemId

LEMMA ReplaceSaveOK ==
    ASSUME LaunchInv, NEW f \in Flows, NEW s \in Selections, ReplaceSave(f, s)
    PROVE  LaunchInv'
<1> DEFINE r == [flow[f] EXCEPT !.pc = "ended", !.sees = {}]
<1>1. /\ flow[f].pc = "replace" /\ Set(f, r) /\ batches < MaxBatches /\ batches' = batches + 1
      /\ items' = (items \ flow[f].sees)
            \cup {[id |-> [batch |-> batches', n |-> c.n], link |-> c.link] : c \in s}
      /\ UNCHANGED <<proctored, cache, session, minted, endReturn, attempt, asked, clash>>
  BY DEF ReplaceSave, At
<1>2. batches' \in Batches
  BY <1>1, LaunchAssumption DEF LaunchInv, TypeOK, Batches
<1>3. items' \subseteq Item
  BY <1>1, <1>2, NewItemsTyped DEF LaunchInv, TypeOK
<1>4. /\ r \in Flow /\ r.pc = "ended" /\ r.wants = flow[f].wants /\ r.data = flow[f].data
      /\ r.alone = flow[f].alone
  BY FlowTyped DEF Flow, Steps
<1>5. FlowOK(r, cache, asked)
  BY <1>1, <1>4, GoesOn DEF HasData, Answers
<1> HIDE DEF r
<1> QED BY <1>1, <1>2, <1>3, <1>4, <1>5, SetStep DEF LaunchInv, TypeOK

LEMMA ReplaceInvalidOK ==
    ASSUME LaunchInv, NEW f \in Flows, ReplaceInvalid(f)
    PROVE  LaunchInv'
<1> DEFINE r == [flow[f] EXCEPT !.pc = "ended", !.sees = {}]
<1>1. flow[f].pc = "replace" /\ Set(f, r) /\ UNCHANGED <<proctored, state>>
  BY DEF ReplaceInvalid, At
<1>2. /\ r \in Flow /\ r.pc = "ended" /\ r.wants = flow[f].wants /\ r.data = flow[f].data
      /\ r.alone = flow[f].alone
  BY FlowTyped DEF Flow, Steps
<1>3. FlowOK(r, cache, asked)
  BY <1>1, <1>2, GoesOn DEF HasData, Answers
<1> QED BY <1>1, <1>2, <1>3, QuietSetOK

\* Between its launch and the answer, a flow's data name the attempt sent; what
\* the answer is checked against is the current attempt, if there is any.
LEMMA AnswerReadOK ==
    ASSUME LaunchInv, NEW f \in Flows, AnswerRead(f)
    PROVE  LaunchInv'
<1> DEFINE sent == flow[f].data
           k == [user |-> sent.user, item |-> None]
           d == cache[k]
           r == [flow[f] EXCEPT !.pc = "answer", !.expects = d.attempt,
                                !.late = sent.attempt # attempt[sent.user]]
<1>1. flow[f].pc = "launched" /\ UNCHANGED <<proctored, state>>
  BY DEF AnswerRead, At
<1>2. flow[f] \in Flow /\ sent \in LaunchData /\ k \in CacheKey /\ k.item = None
      /\ k.user = sent.user
  BY <1>1, FlowTyped DEF FlowOK, Holds, HasData, Flow, LaunchData, CacheKey
<1>3. CASE d # None /\ d.attempt # NoAttempt /\ Set(f, r)
  <2>1. d \in LaunchData /\ d.attempt = attempt[sent.user] /\ d.attempt \in 0..MaxAttempts
    BY <1>2, <1>3 DEF LaunchInv, TypeOK, CacheOK, EntryOK, LaunchData
  <2>2. /\ r \in Flow /\ r.pc = "answer" /\ r.wants = flow[f].wants /\ r.data = sent
        /\ r.alone = flow[f].alone /\ r.expects = d.attempt
        /\ r.late = (sent.attempt # attempt[sent.user])
    BY <1>2, <2>1 DEF Flow, Steps
  <2>3. Answers(r)
    BY <2>1, <2>2 DEF Answers
  <2>4. FlowOK(r, cache, asked)
    BY <1>1, <2>2, <2>3, GoesOn DEF HasData
  <2> QED BY <1>1, <1>3, <2>2, <2>4, QuietSetOK
<1>4. CASE Fail(f)
  BY <1>1, <1>4, FailOK
<1> QED BY <1>3, <1>4 DEF AnswerRead

LEMMA AnswerCheckOK ==
    ASSUME LaunchInv, NEW f \in Flows, NEW asks \in BOOLEAN, AnswerCheck(f, asks)
    PROVE  LaunchInv'
<1> DEFINE u == flow[f].data.user
           end == IF asks THEN {u} ELSE {}
           r == [flow[f] EXCEPT !.pc = "started"]
<1>1. /\ flow[f].pc = "answer"
      /\ UNCHANGED <<proctored, cache, session, minted, items, batches, attempt, clash>>
  BY DEF AnswerCheck, At
<1>2. flow[f] \in Flow /\ flow[f].data \in LaunchData /\ Answers(flow[f])
  BY <1>1, FlowTyped DEF FlowOK, Holds, HasData, Flow
<1>3. CASE /\ AnswerIsValid(f) /\ Set(f, r)
           /\ endReturn' = endReturn \cup end /\ asked' = asked \cup end
  <2>1. u \in Users /\ end \subseteq Users
    BY <1>2 DEF LaunchData
  <2>2. /\ r \in Flow /\ r.pc = "started" /\ r.wants = flow[f].wants
        /\ r.data = flow[f].data /\ r.alone = flow[f].alone /\ r.late = flow[f].late
    BY <1>2 DEF Flow, Steps
  <2>3. Answers(r)
    BY <1>1, <1>2, <1>3, <2>2 DEF Answers, AnswerIsValid
  <2>4. asked \subseteq asked' /\ asked' \subseteq Users /\ endReturn' \subseteq asked'
    BY <1>3, <2>1 DEF LaunchInv, TypeOK
  <2>5. FlowOK(r, cache, asked')
    BY <1>1, <2>2, <2>3, <2>4, GoesOn DEF HasData
  <2>6. Set(f, r)
    BY <1>3
  <2> HIDE DEF r, end
  <2> QED BY <1>1, <2>2, <2>4, <2>5, <2>6, SetStep DEF LaunchInv, TypeOK
<1>4. CASE Fail(f) /\ UNCHANGED <<endReturn, asked>>
  BY <1>1, <1>4, FailOK DEF state
<1> QED BY <1>3, <1>4 DEF AnswerCheck

LEMMA ExpireOK ==
    ASSUME LaunchInv, Expire
    PROVE  LaunchInv'
<1>1. /\ cache' \in [CacheKey -> LaunchData \cup {None}]
      /\ \A k \in CacheKey : cache'[k] \in {None, cache[k]}
      /\ session' \in [Users -> 0..MaxSessions]
      /\ endReturn' \subseteq endReturn
      /\ UNCHANGED <<proctored, minted, items, batches, attempt, asked, clash, flow>>
  BY LaunchAssumption DEF Expire, LaunchInv, TypeOK
<1>2. TypeOK' /\ CacheOK' /\ endReturn' \subseteq asked'
  BY <1>1 DEF LaunchInv, TypeOK, CacheOK, EntryOK
<1>3. ASSUME NEW f \in Flows PROVE FlowOK(flow[f], cache', asked)
  <2>1. flow[f] \in Flow /\ FlowOK(flow[f], cache, asked)
    BY FlowTyped
  <2>2. Pending(flow[f], cache')
    <3>1. flow[f].pc \in {"page", "gate"} => flow[f].hint \in CacheKey
      BY <2>1, KeyTyped DEF FlowOK, Pending, Flow
    <3> QED BY <1>1, <2>1, <3>1 DEF FlowOK, Pending
  <2> QED BY <2>1, <2>2 DEF FlowOK
<1> QED BY <1>1, <1>2, <1>3 DEF LaunchInv, FlowsOK

---------------------------------------------------------------------------
(* The launches                                                            *)

LEMMA LaunchInit == Init => LaunchInv
<1> SUFFICES ASSUME Init PROVE LaunchInv
  OBVIOUS
<1>1. 0 \in Batches /\ 0 \in 0..MaxSessions /\ 0 \in 0..MaxAttempts
  BY LaunchAssumption DEF Batches
<1>2. items \subseteq Item
  <2>1. CASE proctored
    BY <2>1 DEF Init
  <2>2. CASE ~proctored
    <3>1. PICK s \in Selections :
            items = {[id |-> [batch |-> 0, n |-> c.n], link |-> c.link] : c \in s}
      BY <2>2 DEF Init
    <3> QED BY <1>1, <3>1, NewItemsTyped
  <2> QED BY <2>1, <2>2
<1>3. TypeOK
  BY <1>1, <1>2, IdleTyped DEF Init, TypeOK, NoAttempt
<1>4. CacheOK
  BY DEF Init, CacheOK
<1>5. FlowOK(Idle, cache, asked)
  BY DEF FlowOK, Pending, Wants, Holds, Answers, Idle, HasData
<1>6. FlowsOK
  BY <1>5 DEF Init, FlowsOK
<1> QED BY <1>3, <1>4, <1>6 DEF Init, LaunchInv

LEMMA LaunchStep == LaunchInv /\ [Next]_vars => LaunchInv'
<1> SUFFICES ASSUME LaunchInv, [Next]_vars PROVE LaunchInv'
  OBVIOUS
<1>1. CASE UNCHANGED vars
  BY <1>1 DEF vars, state, LaunchInv, TypeOK, CacheOK, FlowsOK
<1>2. CASE Expire
  BY <1>2, ExpireOK
<1>3. CASE \E f \in Flows, u \in Users :
            \/ StudentView(f, u) \/ AuthorView(f, u) \/ StudioView(f, u)
            \/ \E n \in 1..MaxAttempts : StartProctoring(f, u, n)
            \/ EndAssessment(f, u)
  BY <1>3, StudentViewOK, AuthorViewOK, StudioViewOK, StartProctoringOK, EndAssessmentOK
<1>4. CASE \E f \in Flows :
            \/ StudioAuthor(f) \/ PageRead(f) \/ PageRender(f)
            \/ GateRead(f) \/ GateBranch(f) \/ GateSession(f)
  BY <1>4, StudioAuthorOK, PageReadOK, PageRenderOK, GateReadOK, GateBranchOK, GateSessionOK
<1>5. CASE \E f \in Flows :
            \/ ReplaceRead(f) \/ ReplaceInvalid(f) \/ \E s \in Selections : ReplaceSave(f, s)
            \/ AnswerRead(f) \/ \E asks \in BOOLEAN : AnswerCheck(f, asks)
  BY <1>5, ReplaceReadOK, ReplaceInvalidOK, ReplaceSaveOK, AnswerReadOK, AnswerCheckOK
<1> QED BY <1>1, <1>2, <1>3, <1>4, <1>5 DEF Next

LEMMA LaunchInvariant == Spec => []LaunchInv
<1>1. Init => LaunchInv
  BY LaunchInit
<1>2. LaunchInv /\ [Next]_vars => LaunchInv'
  BY LaunchStep
<1> QED BY <1>1, <1>2, PTL DEF Spec

\* Launch data, cache and launches keep their shape, for any number of users,
\* launches, items, attempts and session data.
THEOREM LaunchTypeCorrect == Spec => []TypeOK
<1>1. LaunchInv => TypeOK
  BY DEF LaunchInv
<1> QED BY <1>1, LaunchInvariant, PTL

\* Whatever interleaves with a launch, it carries its own user.
THEOREM UserIsKept == Spec => []LaunchesStayWithUser
<1>1. LaunchInv => LaunchesStayWithUser
  BY DEF LaunchInv, FlowsOK, FlowOK, Holds, HasData, LaunchesStayWithUser, Sent
<1> QED BY <1>1, LaunchInvariant, PTL

\* A resource link launch shows the item taken, however many items the page has.
THEOREM ItemIsKept == Spec => []ItemLaunchShowsItem
<1>1. LaunchInv => ItemLaunchShowsItem
  BY DEF LaunchInv, FlowsOK, FlowOK, Holds, HasData, ItemLaunchShowsItem, Sent
<1> QED BY <1>1, LaunchInvariant, PTL

\* A launch not overtaken by another of its user is sent as asked for, however
\* many launches of anybody were made before.
THEOREM AloneIsAsAsked == Spec => []LaunchAloneIsAsAsked
<1>1. LaunchInv => LaunchAloneIsAsAsked
  BY DEF LaunchInv, FlowsOK, FlowOK, Holds, HasData, LaunchAloneIsAsAsked, Sent
<1> QED BY <1>1, LaunchInvariant, PTL

\* No answer to an earlier attempt starts an assessment.
THEOREM LateAnswersAreRefused == Spec => []LateAnswerStartsNothing
<1>1. LaunchInv => LateAnswerStartsNothing
  BY DEF LaunchInv, FlowsOK, FlowOK, Answers, LateAnswerStartsNothing, At
<1> QED BY <1>1, LaunchInvariant, PTL

\* End messages go to users whose tool asked.
THEOREM EndMessagesWereAskedFor == Spec => []EndWasAskedFor
<1>1. LaunchInv => EndWasAskedFor
  BY DEF LaunchInv, FlowsOK, FlowOK, Holds, HasData, Fair, EndWasAskedFor, Sent
<1> QED BY <1>1, LaunchInvariant, PTL

---------------------------------------------------------------------------
(* The selection                                                           *)

\* Steps of launches that are not answering a deep linking request.
LEMMA OthersKeepSelection ==
    ASSUME ReplaceInv, UNCHANGED <<items, clash>>,
           \A f \in Flows : At(f, "replace")' =>
                At(f, "replace") /\ flow'[f].sees = flow[f].sees
    PROVE  ReplaceInv'
BY DEF ReplaceInv, SelectionIsOneResponse, At

LEMMA SetKeepsSelection ==
    ASSUME LaunchInv, ReplaceInv, NEW f \in Flows, NEW r, Set(f, r), r.pc # "replace",
           UNCHANGED <<items, clash>>
    PROVE  ReplaceInv'
BY OthersKeepSelection DEF LaunchInv, TypeOK, Set, At

LEMMA PrepareKeepsSelection ==
    ASSUME LaunchInv, ReplaceInv, NEW f \in Flows, NEW u \in Users, NEW r, r.pc # "replace",
           Prepare(f, u, r), UNCHANGED <<items, clash>>
    PROVE  ReplaceInv'
<1>1. ASSUME NEW g \in Flows, At(g, "replace")'
      PROVE  At(g, "replace") /\ flow'[g].sees = flow[g].sees
  <2>1. flow[g] \in Flow
    BY DEF LaunchInv, TypeOK
  <2>2. flow'[g] # r
    BY <1>1 DEF At
  <2>3. flow'[g] \in {flow[g], [flow[g] EXCEPT !.alone = FALSE]}
    BY <2>2 DEF Prepare
  <2> QED BY <1>1, <2>1, <2>3 DEF At, Flow
<1> QED BY <1>1, OthersKeepSelection

LEMMA OfferStarts ==
    ASSUME NEW d, NEW pc \in {"page", "gate"}
    PROVE  Offer(d, pc).pc = pc
BY DEF Offer, Idle

LEMMA ContentOfferStarts ==
    ASSUME NEW u
    PROVE  /\ ContentOffer(u).pc # "replace"
           /\ [ContentOffer(u) EXCEPT !.pc = "studio", !.sees = items, !.alone = FALSE].pc
                # "replace"
BY OfferStarts DEF ContentOffer, Place, Offer, Idle

\* Only responses touch the selection.
LEMMA FirstLegKeepsSelection ==
    ASSUME LaunchInv, ReplaceInv, NEW f \in Flows, NEW u \in Users,
           \/ StudentView(f, u) \/ AuthorView(f, u) \/ StudioView(f, u)
           \/ \E n \in 1..MaxAttempts : StartProctoring(f, u, n)
           \/ EndAssessment(f, u)
    PROVE  ReplaceInv'
<1>1. CASE StudentView(f, u)
  BY <1>1, ContentOfferStarts, PrepareKeepsSelection DEF StudentView
<1>2. CASE StudioView(f, u)
  BY <1>2, ContentOfferStarts, PrepareKeepsSelection DEF StudioView
<1>3. CASE AuthorView(f, u)
  BY <1>3, OfferStarts, PrepareKeepsSelection DEF AuthorView
<1>4. CASE \E n \in 1..MaxAttempts : StartProctoring(f, u, n)
  BY <1>4, OfferStarts, PrepareKeepsSelection DEF StartProctoring
<1>5. CASE EndAssessment(f, u)
  BY <1>5, OfferStarts, PrepareKeepsSelection DEF EndAssessment
<1> QED BY <1>1, <1>2, <1>3, <1>4, <1>5

\* A step that moves one launch to another point than the response.
LEMMA MoveKeepsSelection ==
    ASSUME LaunchInv, ReplaceInv, NEW f \in Flows, flow'[f].pc # "replace",
           \A g \in Flows \ {f} : flow'[g] = flow[g], UNCHANGED <<items, clash>>
    PROVE  ReplaceInv'
BY OthersKeepSelection DEF At

LEMMA OneFlowKeepsSelection ==
    ASSUME LaunchInv, ReplaceInv, NEW f \in Flows,
           \/ PageRead(f) \/ GateRead(f) \/ GateBranch(f) \/ GateSession(f)
           \/ ReplaceInvalid(f) \/ AnswerRead(f)
           \/ \E asks \in BOOLEAN : AnswerCheck(f, asks)
    PROVE  ReplaceInv'
<1>1. flow[f] \in Flow /\ flow \in [Flows -> Flow]
  BY FlowTyped DEF LaunchInv, TypeOK
<1>2. \A g \in Flows \ {f} : flow'[g] = flow[g]
  BY <1>1 DEF PageRead, GateRead, GateBranch, GateSession, ReplaceInvalid, AnswerRead,
              AnswerCheck, Fail, Set
<1>3. UNCHANGED <<items, clash>>
  BY DEF PageRead, GateRead, GateBranch, GateSession, ReplaceInvalid, AnswerRead,
         AnswerCheck, state
<1>4. flow'[f].pc # "replace"
  <2>1. CASE PageRead(f)
    BY <1>1, <2>1 DEF PageRead, Fail, Set, Flow
  <2>2. CASE GateRead(f)
    BY <1>1, <2>2 DEF GateRead, Fail, Set, Flow
  <2>3. CASE GateBranch(f)
    BY <1>1, <2>3 DEF GateBranch, Launched, Fail, Set, Flow
  <2>4. CASE GateSession(f)
    <3> DEFINE r == Launched(f, flow[f].data)
    <3>1. r.pc = "launched" /\ \A n : [r EXCEPT !.session = n].pc = "launched"
      BY <1>1 DEF Launched, Flow
    <3>2. flow'[f] = r \/ \E n : flow'[f] = [r EXCEPT !.session = n]
      BY <1>1, <2>4 DEF GateSession, Set
    <3> QED BY <3>1, <3>2
  <2>5. CASE ReplaceInvalid(f)
    BY <1>1, <2>5 DEF ReplaceInvalid, Set, Flow
  <2>6. CASE AnswerRead(f)
    BY <1>1, <2>6 DEF AnswerRead, Fail, Set, Flow
  <2>7. CASE \E asks \in BOOLEAN : AnswerCheck(f, asks)
    BY <1>1, <2>7 DEF AnswerCheck, Fail, Set, Flow
  <2> QED BY <2>1, <2>2, <2>3, <2>4, <2>5, <2>6, <2>7
<1> QED BY <1>2, <1>3, <1>4, MoveKeepsSelection

LEMMA PageRenderKeepsSelection ==
    ASSUME LaunchInv, ReplaceInv, NEW f \in Flows, PageRender(f)
    PROVE  ReplaceInv'
<1>1. flow[f] \in Flow /\ flow \in [Flows -> Flow] /\ UNCHANGED <<items, clash>>
  BY FlowTyped DEF LaunchInv, TypeOK, PageRender
<1>2. CASE Fail(f)
  <2>1. flow'[f].pc # "replace" /\ \A g \in Flows \ {f} : flow'[g] = flow[g]
    BY <1>1, <1>2 DEF Fail, Set, Flow
  <2> QED BY <1>1, <2>1, MoveKeepsSelection
<1>3. ASSUME NEW i \in items, NEW k,
             Prepare(f, flow[f].data.user,
                     [flow[f] EXCEPT !.pc = "gate", !.wants.item = i.id, !.hint = k])
      PROVE  ReplaceInv'
  <2>1. flow[f].data.user \in Users
    BY FlowTyped DEF PageRender, At, FlowOK, Holds, HasData, Flow, LaunchData
  <2>2. [flow[f] EXCEPT !.pc = "gate", !.wants.item = i.id, !.hint = k].pc = "gate"
    BY <1>1 DEF Flow
  <2> QED BY <1>1, <1>3, <2>1, <2>2, PrepareKeepsSelection
<1> QED BY <1>2, <1>3 DEF PageRender

LEMMA StudioAuthorKeepsSelection ==
    ASSUME LaunchInv, ReplaceInv, NEW f \in Flows, StudioAuthor(f)
    PROVE  ReplaceInv'
<1> DEFINE r == [flow[f] EXCEPT !.pc = Place(flow[f].sees), !.sees = {}]
<1>1. flow[f] \in Flow /\ flow[f].wants.user \in Users
  BY FlowTyped DEF StudioAuthor, At, FlowOK, Wants, Flow, LaunchData
<1>2. r.pc # "replace"
  BY <1>1 DEF Place, Flow
<1> QED BY <1>1, <1>2, PrepareKeepsSelection DEF StudioAuthor

\* A response that begins while none is under way sees what it will replace.
LEMMA ReplaceReadKeepsSelection ==
    ASSUME LaunchInv, ReplaceInv, NEW f \in Flows, ReplaceRead(f)
    PROVE  ReplaceInv'
<1>1. flow[f] \in Flow /\ flow \in [Flows -> Flow]
  BY FlowTyped DEF LaunchInv, TypeOK
<1>2. /\ flow'[f].pc = "replace" /\ flow'[f].sees = items
      /\ \A g \in Flows \ {f} : flow'[g] = flow[g]
      /\ items' = items /\ (~clash' => ~clash /\ \A g \in Flows : flow[g].pc # "replace")
  BY <1>1 DEF ReplaceRead, Set, At, Flow
<1> QED BY <1>2 DEF ReplaceInv, SelectionIsOneResponse, At

LEMMA ReplaceSaveKeepsSelection ==
    ASSUME LaunchInv, ReplaceInv, NEW f \in Flows, NEW s \in Selections, ReplaceSave(f, s)
    PROVE  ReplaceInv'
<1>1. flow[f] \in Flow /\ flow \in [Flows -> Flow]
  BY FlowTyped DEF LaunchInv, TypeOK
<1> DEFINE new == {[id |-> [batch |-> batches', n |-> c.n], link |-> c.link] : c \in s}
<1>2. /\ flow[f].pc = "replace" /\ flow'[f].pc = "ended"
      /\ \A g \in Flows \ {f} : flow'[g] = flow[g]
      /\ items' = (items \ flow[f].sees) \cup new /\ clash' = clash
  BY <1>1 DEF ReplaceSave, Set, At, Flow
<1>3. \A i \in new : i.id.batch = batches'
  OBVIOUS
<1>4. ~clash => items' = new
  BY <1>2 DEF ReplaceInv, At
<1> HIDE DEF new
<1> QED BY <1>2, <1>3, <1>4 DEF ReplaceInv, SelectionIsOneResponse, At

\* One response at a time, no item of an earlier selection stays.
THEOREM SelectionIsReplaced == Spec => []SelectionIsOneResponse
<1>1. Init => ReplaceInv
  <2> SUFFICES ASSUME Init PROVE ReplaceInv
    OBVIOUS
  <2>1. \A f \in Flows : ~At(f, "replace")
    BY DEF Init, At, Idle
  <2>2. \A i \in items : i.id.batch = 0
    BY DEF Init
  <2> QED BY <2>1, <2>2 DEF ReplaceInv, SelectionIsOneResponse
<1>2. LaunchInv /\ ReplaceInv /\ [Next]_vars => ReplaceInv'
  <2> SUFFICES ASSUME LaunchInv, ReplaceInv, [Next]_vars PROVE ReplaceInv'
    OBVIOUS
  <2>1. CASE UNCHANGED vars
    BY <2>1, OthersKeepSelection DEF vars, state, At
  <2>2. CASE Expire
    BY <2>2, OthersKeepSelection DEF Expire, At
  <2>3. CASE \E f \in Flows, u \in Users :
              \/ StudentView(f, u) \/ AuthorView(f, u) \/ StudioView(f, u)
              \/ \E n \in 1..MaxAttempts : StartProctoring(f, u, n)
              \/ EndAssessment(f, u)
    BY <2>3, FirstLegKeepsSelection
  <2>4. CASE \E f \in Flows :
              \/ StudioAuthor(f) \/ PageRead(f) \/ PageRender(f)
              \/ GateRead(f) \/ GateBranch(f) \/ GateSession(f)
              \/ ReplaceRead(f) \/ ReplaceInvalid(f) \/ \E s \in Selections : ReplaceSave(f, s)
              \/ AnswerRead(f) \/ \E asks \in BOOLEAN : AnswerCheck(f, asks)
    BY <2>4, OneFlowKeepsSelection, StudioAuthorKeepsSelection, PageRenderKeepsSelection, ReplaceReadKeepsSelection,
       ReplaceSaveKeepsSelection
  <2> QED BY <2>1, <2>2, <2>3, <2>4 DEF Next
<1>3. ReplaceInv /\ ~clash => SelectionIsOneResponse
  BY DEF ReplaceInv
<1>4. ReplaceInv => SelectionIsOneResponse
  BY <1>3 DEF SelectionIsOneResponse
<1> QED BY <1>1, <1>2, <1>4, LaunchInvariant, PTL DEF Spec
=============================================================================
