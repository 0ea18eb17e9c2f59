---------------------------- MODULE LtiTokensProofs ----------------------------
(***************************************************************************)
(* Proofs about LtiKeys and LtiTokens, for any number of workers, keys,    *)
(* scopes and services.  A step of LtiTokens is a step of LtiKeys or       *)
(* leaves its variables alone, so that what the first part proves of the   *)
(* keys holds in the second.                                               *)
(***************************************************************************)
EXTENDS LtiTokens, TLAPS

---------------------------------------------------------------------------
(* The key pair *)

Matches(p) == p.key # Blank /\ p.jwk # Blank => p.jwk = p.key

\* A row or an instance: columns in range, of the first n pairs, that match
Sound(p, n) == p \in Passport /\ p.key <= n /\ p.jwk <= n /\ Matches(p)

\* A request past its SELECT holds an instance; one about to sign, a key.
Holds(r, n) == /\ r.pc \in {"keys", "again", "answer", "write"} => Sound(r.mine, n)
               /\ r.pc \in {"again", "answer"} => r.mine.key # Blank
               /\ r.mine # None => Sound(r.mine, n)

\* The inductive invariant: every instance in flight, not the row alone, holds
\* a matching pair, for any of them may be the next one saved.
IInv == TypeOK /\ Sound(row, made) /\ \A w \in Workers : Holds(req[w], made)

---------------------------------------------------------------------------

LEMMA PassportNotNone == \A p \in Passport : p # None
BY KeysAssumption DEF Passport

LEMMA SoundGrows ==
    ASSUME NEW p, NEW m \in Nat, NEW n \in Nat, m <= n, Sound(p, m)
    PROVE  Sound(p, n)
<1>1. p.key \in Nat /\ p.jwk \in Nat
  BY KeysAssumption DEF Sound, Passport, Key, Blank
<1> QED BY <1>1 DEF Sound

LEMMA HoldsGrows ==
    ASSUME NEW r, NEW m \in Nat, NEW n \in Nat, m <= n, Holds(r, m)
    PROVE  Holds(r, n)
BY SoundGrows DEF Holds

\* _generate_lti_1p3_keys_if_missing leaves a matching pair and no empty key.
LEMMA GeneratedSound ==
    ASSUME NEW p, Sound(p, made), made \in 0..MaxKeys,
           NEW n, n = IF Generated(p).key > made THEN Generated(p).key ELSE made, n <= MaxKeys
    PROVE  Sound(Generated(p), n) /\ Generated(p).key # Blank /\ n \in 0..MaxKeys /\ made <= n
<1>1. p \in Passport /\ p.key \in 0..MaxKeys /\ p.jwk \in 0..MaxKeys /\ p.tool \in ToolKeys
  BY KeysAssumption DEF Sound, Passport, Key, Blank
<1> DEFINE new == [p EXCEPT !.key = made + 1, !.jwk = made + 1]
           pub == [p EXCEPT !.jwk = p.key]
<1>2. CASE p.key = Blank
  <2>1. Generated(p) = new /\ new.key = made + 1 /\ new.jwk = made + 1 /\ new.tool = p.tool
    BY <1>1, <1>2 DEF Generated, Passport
  <2>2. n = made + 1 /\ made + 1 \in Key
    BY <2>1, KeysAssumption DEF Key
  <2>3. new \in Passport
    BY <1>1, <2>2 DEF Passport
  <2>4. made + 1 # Blank /\ made + 1 <= made + 1
    BY <2>2 DEF Key, Blank
  <2> HIDE DEF new
  <2>5. Sound(new, n)
    BY <2>1, <2>2, <2>3, <2>4 DEF Sound, Matches
  <2> QED BY <2>1, <2>2, <2>4, <2>5, KeysAssumption DEF Key
<1>3. CASE p.key # Blank
  <2>1. Generated(p).key = p.key
    BY <1>1, <1>3 DEF Generated, Passport
  <2>2. n = made /\ p.key \in Key
    BY <1>1, <1>3, <2>1 DEF Key, Blank, Sound
  <2>3. CASE p.jwk = Blank
    <3>1. Generated(p) = pub /\ pub.key = p.key /\ pub.jwk = p.key /\ pub.tool = p.tool
      BY <1>1, <1>3, <2>3 DEF Generated, Passport
    <3>2. pub \in Passport
      BY <1>1, <2>2 DEF Passport
    <3> HIDE DEF pub
    <3>3. Sound(pub, n)
      BY <2>2, <3>1, <3>2 DEF Sound, Matches
    <3> QED BY <1>3, <2>1, <2>2, <3>1, <3>3
  <2>4. CASE p.jwk # Blank
    BY <1>3, <2>2, <2>4 DEF Generated
  <2> QED BY <2>3, <2>4
<1> QED BY <1>2, <1>3

---------------------------------------------------------------------------

LEMMA InvInit == Init => IInv
<1> SUFFICES ASSUME Init PROVE IInv
  OBVIOUS
<1>1. made = 0 /\ requests = 0 /\ req = [w \in Workers |-> Idle]
  BY DEF Init
<1>2. row \in Passport /\ row.key = Blank /\ row.jwk = Blank
  BY DEF Init, Passport
<1>3. Idle \in Request /\ Idle.mine = None /\ Idle.pc = "idle"
  BY DEF Idle, Request
<1>4. TypeOK
  BY <1>1, <1>2, <1>3, KeysAssumption DEF TypeOK, At, Idle
<1>5. Sound(row, made)
  BY <1>1, <1>2 DEF Sound, Matches, Blank
<1>6. \A w \in Workers : Holds(req[w], made)
  BY <1>1, <1>3 DEF Holds
<1> QED BY <1>4, <1>5, <1>6 DEF IInv

\* One request moves: the row and its instance are sound, the others were.
LEMMA Together ==
    ASSUME IInv, NEW w \in Workers, NEW r \in Request, Set(w, r), Holds(r, made'),
           Sound(row', made'), made' \in 0..MaxKeys, made <= made', requests' \in 0..MaxRequests
    PROVE  IInv'
<1>1. req' \in [Workers -> Request]
  BY DEF Set, IInv, TypeOK
<1>2. made \in Nat /\ made' \in Nat
  BY KeysAssumption DEF IInv, TypeOK
<1>3. \A v \in Workers : Holds(req[v], made')
  BY <1>2, HoldsGrows DEF IInv
<1>4. \A v \in Workers : Holds(req'[v], made')
  BY <1>3 DEF Set, IInv, TypeOK
<1>5. \A v \in Workers : At(v, "answer")' => req'[v].mine.key # Blank
  BY <1>4 DEF At, Holds, Blank
<1> QED BY <1>1, <1>4, <1>5 DEF IInv, TypeOK, Sound, Matches, Blank

LEMMA IdleHolds == Idle \in Request /\ \A n : Holds(Idle, n)
BY DEF Idle, Request, Holds

LEMMA InvStep ==
    ASSUME IInv, NEW w \in Workers,
           \/ \E op \in Operations : Begin(w, op)
           \/ Load(w) \/ GenerateAndSave(w) \/ SaveAgain(w) \/ Answer(w)
           \/ \E t \in ToolKeys : WriteToolKey(w, t)
           \/ RotateKey(w)
    PROVE  IInv'
<1> DEFINE q == req[w]
<1>0. /\ q \in Request /\ Holds(q, made) /\ Sound(row, made) /\ row \in Passport
      /\ made \in 0..MaxKeys /\ made <= made
      /\ requests \in 0..MaxRequests
  BY KeysAssumption DEF IInv, TypeOK
<1>1. ASSUME NEW op \in Operations, Begin(w, op) PROVE IInv'
  <2> DEFINE r == [Idle EXCEPT !.pc = "load", !.op = op]
  <2>1. r \in Request /\ Holds(r, made)
    BY DEF Idle, Request, Holds
  <2>2. requests' \in 0..MaxRequests
    <3>1. requests' = requests \/ (requests < MaxRequests /\ requests' = requests + 1)
      BY <1>1 DEF Begin
    <3> QED BY <1>0, <3>1, KeysAssumption
  <2> QED BY <1>0, <1>1, <2>1, <2>2, Together DEF Begin
<1>2. CASE Load(w)
  <2> DEFINE pc == IF q.op \in {"view", "rotate"} THEN "write" ELSE "keys"
             r == [q EXCEPT !.mine = row, !.pc = pc]
  <2>1. r \in Request /\ r.pc \in {"keys", "write"} /\ r.mine = row
    BY <1>0 DEF Request
  <2>2. Holds(r, made)
    BY <1>0, <2>1 DEF Holds
  <2>3. Set(w, r)
    BY <1>2 DEF Load
  <2> QED BY <1>0, <1>2, <2>1, <2>2, <2>3, Together DEF Load
<1>3. CASE GenerateAndSave(w)
  <2> DEFINE p == Generated(q.mine)
             r == [q EXCEPT !.mine = p, !.pc = IF BuildsConsumer(q.op) THEN "again" ELSE "answer"]
  <2>1. Sound(q.mine, made)
    BY <1>0, <1>3 DEF GenerateAndSave, At, Holds
  <2>2. made' = (IF p.key > made THEN p.key ELSE made) /\ made' <= MaxKeys /\ row' = p /\ Set(w, r)
    BY <1>3 DEF GenerateAndSave
  <2>3. Sound(p, made') /\ p.key # Blank /\ made' \in 0..MaxKeys /\ made <= made'
    BY <1>0, <2>1, <2>2, GeneratedSound
  <2> HIDE DEF p
  <2>4. r \in Request /\ r.mine = p
    BY <1>0, <2>3 DEF Request, Sound
  <2>5. Holds(r, made')
    BY <2>3, <2>4 DEF Holds
  <2>6. requests' \in 0..MaxRequests
    BY <1>0, <1>3, <2>3, KeysAssumption DEF GenerateAndSave
  <2> QED BY <2>2, <2>3, <2>4, <2>5, <2>6, Together
<1>4. CASE SaveAgain(w)
  <2> DEFINE r == [q EXCEPT !.pc = "answer"]
  <2>1. Sound(q.mine, made) /\ q.mine.key # Blank
    BY <1>0, <1>4 DEF SaveAgain, At, Holds
  <2>2. r \in Request /\ r.mine = q.mine
    BY <1>0 DEF Request
  <2>3. Holds(r, made)
    BY <2>1, <2>2 DEF Holds
  <2> QED BY <1>0, <1>4, <2>1, <2>2, <2>3, Together DEF SaveAgain
<1>5. CASE Answer(w)
  BY <1>0, <1>5, IdleHolds, Together DEF Answer
<1>6. ASSUME NEW t \in ToolKeys, WriteToolKey(w, t) PROVE IInv'
  <2>1. Sound(q.mine, made)
    BY <1>0, <1>6 DEF WriteToolKey, At, Holds
  <2>2. Sound([q.mine EXCEPT !.tool = t], made)
    BY <2>1 DEF Sound, Matches, Passport
  <2>3. Sound(row', made)
    BY <1>0, <1>6, <2>2 DEF WriteToolKey
  <2> QED BY <1>0, <1>6, <2>3, IdleHolds, Together DEF WriteToolKey
<1>7. CASE RotateKey(w)
  <2>1. Sound(q.mine, made)
    BY <1>0, <1>7 DEF RotateKey, At, Holds
  <2>2. Sound([q.mine EXCEPT !.key = Blank], made)
    BY <1>0, <2>1, KeysAssumption DEF Sound, Matches, Passport, Blank
  <2> QED BY <1>0, <1>7, <2>2, IdleHolds, Together DEF RotateKey
<1> QED BY <1>1, <1>2, <1>3, <1>4, <1>5, <1>6, <1>7

LEMMA InvAlways == Spec => []IInv
<1>1. IInv /\ [Next]_vars => IInv'
  <2> SUFFICES ASSUME IInv, [Next]_vars PROVE IInv'
    OBVIOUS
  <2>1. CASE Next
    BY <2>1, InvStep DEF Next
  <2>2. CASE UNCHANGED vars
    BY <2>2 DEF vars, IInv, TypeOK, Sound, Matches, Holds, At
  <2> QED BY <2>1, <2>2
<1> QED BY <1>1, InvInit, PTL DEF Spec

\* The columns keep their types, and nothing is ever answered with an empty key.
THEOREM KeysTypeCorrect == Spec => []TypeOK
<1>1. IInv => TypeOK
  BY DEF IInv
<1> QED BY <1>1, InvAlways, PTL

\* However the whole-row saves of key accesses, views and admin forms overwrite
\* one another, the published JWK belongs to the private key that signs.
THEOREM PublishedKeySigns == Spec => []KeyPairMatches
<1>1. IInv => KeyPairMatches
  BY DEF IInv, Sound, Matches, Holds, KeyPairMatches
<1> QED BY <1>1, InvAlways, PTL

---------------------------------------------------------------------------
(* Tokens *)

\* A fresh token carries what was asked and is supported, as signed with a pair
\* that was made.
TokenInv ==
    /\ TokensTypeOK
    /\ tool.token # None /\ tool.token.fresh =>
          tool.token.scopes = tool.asks \cap TokenScopes

TInv == IInv /\ TokenInv /\ ServedWithinScope

---------------------------------------------------------------------------

LEMMA TokenNotNone == \A t \in Token : t # None
BY TokensAssumption DEF Token

\* The requests of the tool and of the others are requests of LtiKeys, begun
\* only for the operations it knows.
LEMMA StepOfKeys ==
    ASSUME TNext
    PROVE  [Next]_vars
<1>1. ASSUME NEW w \in Workers, Arrive(w) \/ Build(w) \/ Finish(w) \/ Respond(w) PROVE [Next]_vars
  <2>1. CASE Arrive(w)
    BY <2>1 DEF Arrive, Next
  <2>2. CASE Build(w)
    BY <2>2 DEF Build, Next
  <2>3. CASE Finish(w)
    BY <2>3 DEF Finish, Next
  <2>4. CASE Respond(w)
    BY <2>4 DEF Respond, GrantToken, RefuseToken, Authenticate, Serve, Deny, Platform, Next
  <2> QED BY <1>1, <2>1, <2>2, <2>3, <2>4
<1>2. ASSUME NEW w \in Workers, Renew(w) \/ Call(w) PROVE [Next]_vars
  BY <1>2, TokensAssumption DEF Renew, Ask, Call, Next
<1>3. CASE \E e \in Endpoints : Want(e)
  BY <1>3 DEF Want, Platform
<1>4. CASE \E k \in SigningKeys : ToolRotates(k)
  BY <1>4 DEF ToolRotates, Platform
<1>5. CASE Expire
  BY <1>5 DEF Expire, Platform
<1> QED BY <1>1, <1>2, <1>3, <1>4, <1>5 DEF TNext

LEMMA KeysInvKept == IInv /\ [Next]_vars => IInv'
<1> SUFFICES ASSUME IInv, [Next]_vars PROVE IInv'
  OBVIOUS
<1>1. CASE Next
  BY <1>1, InvStep DEF Next
<1>2. CASE UNCHANGED vars
  BY <1>2 DEF vars, IInv, TypeOK, Sound, Matches, Holds, At
<1> QED BY <1>1, <1>2

\* A request about to be answered holds a pair that was made.
LEMMA AnswersWithPair ==
    ASSUME IInv, NEW w \in Workers, At(w, "answer")
    PROVE  req[w].mine.key \in 1..made /\ req[w].mine.key \in Key
<1>1. Sound(req[w].mine, made) /\ req[w].mine.key # Blank
  BY DEF IInv, Holds, At
<1>2. made \in 0..MaxKeys
  BY DEF IInv, TypeOK
<1> QED BY <1>1, <1>2, KeysAssumption DEF Sound, Passport, Key, Blank

LEMMA MadeGrows ==
    ASSUME IInv, [Next]_vars
    PROVE  made \in Nat /\ made' \in Nat /\ made <= made'
<1>1. made \in Nat /\ made <= made
  BY KeysAssumption DEF IInv, TypeOK
<1>2. made' \in Nat
  BY KeysInvKept, KeysAssumption DEF IInv, TypeOK
<1>3. CASE UNCHANGED vars
  BY <1>1, <1>3 DEF vars
<1>4. ASSUME NEW w \in Workers, GenerateAndSave(w) PROVE made <= made'
  <2>1. made' = (IF Generated(req[w].mine).key > made THEN Generated(req[w].mine).key ELSE made)
    BY <1>4 DEF GenerateAndSave
  <2> HIDE DEF Generated
  <2>2. Sound(req[w].mine, made) /\ made \in 0..MaxKeys /\ made' <= MaxKeys
    BY <1>4 DEF GenerateAndSave, IInv, TypeOK, At, Holds
  <2> QED BY <2>1, <2>2, GeneratedSound
<1>5. ASSUME NEW w \in Workers,
             \/ \E op \in Operations : Begin(w, op)
             \/ Load(w) \/ SaveAgain(w) \/ Answer(w)
             \/ \E t \in ToolKeys : WriteToolKey(w, t)
             \/ RotateKey(w)
      PROVE made' = made
  BY <1>5 DEF Begin, Load, SaveAgain, Answer, WriteToolKey, RotateKey
<1> QED BY <1>1, <1>2, <1>3, <1>4, <1>5 DEF Next

---------------------------------------------------------------------------
(* The token of the tool *)

LEMMA TokenStep ==
    ASSUME TInv, TNext, [Next]_vars
    PROVE  TokenInv' /\ ServedWithinScope'
<1>0. /\ tool \in Tool /\ faults \in 0..MaxFaults
      /\ made \in Nat /\ made' \in Nat /\ made <= made'
      /\ tool.token # None => tool.token \in Token /\ tool.token.key <= made /\ tool.token.key \in Nat
      /\ tool.token # None /\ tool.token.fresh => tool.token.scopes = tool.asks \cap TokenScopes
      /\ tool.pc \in {"calling", "permitted"} => tool.token # None
  BY MadeGrows DEF TInv, TokenInv, TokensTypeOK, Tool, Token, Key
<1> DEFINE Same == tool' = tool /\ faults' = faults
<1>1. ASSUME Same PROVE TokenInv' /\ ServedWithinScope'
  BY <1>0, <1>1 DEF TInv, TokenInv, TokensTypeOK, ServedWithinScope, ToolAt
<1>2. ASSUME NEW w \in Workers, Arrive(w) \/ Build(w) \/ Finish(w) PROVE Same
  BY <1>2 DEF Arrive, Build, Finish, Quiet
<1>3. ASSUME Fault \/ UNCHANGED faults PROVE faults' \in 0..MaxFaults
  BY <1>0, <1>3, TokensAssumption DEF Fault
<1>4. ASSUME NEW w \in Workers, GrantToken(w) PROVE TokenInv' /\ ServedWithinScope'
  <2> DEFINE t == [key |-> req[w].mine.key, scopes |-> ValidScopes(tool.asks), fresh |-> TRUE]
  <2>1. req[w].mine.key \in 1..made /\ req[w].mine.key \in Key
    BY <1>4, AnswersWithPair DEF GrantToken, Answering, TInv
  <2>2. tool' = [tool EXCEPT !.pc = "ready", !.token = t] /\ faults' = faults
    BY <1>4 DEF GrantToken
  <2>3. t \in Token /\ t.key <= made' /\ t.scopes = tool.asks \cap TokenScopes /\ t.fresh
    BY <1>0, <2>1, TokensAssumption DEF Token, ValidScopes, Tool
  <2> HIDE DEF t
  <2>4. tool' \in Tool /\ tool'.token = t /\ tool'.pc = "ready" /\ tool'.asks = tool.asks
    BY <1>0, <2>2, <2>3 DEF Tool
  <2> QED BY <1>0, <2>2, <2>3, <2>4 DEF TokenInv, TokensTypeOK, ServedWithinScope, ToolAt
<1>5. ASSUME NEW w \in Workers, RefuseToken(w) PROVE TokenInv' /\ ServedWithinScope'
  <2>1. tool' = [tool EXCEPT !.pc = "ready"] /\ faults' \in 0..MaxFaults
    BY <1>3, <1>5 DEF RefuseToken
  <2>2. tool' \in Tool /\ tool'.token = tool.token /\ tool'.pc = "ready" /\ tool'.asks = tool.asks
    BY <1>0, <2>1 DEF Tool
  <2> QED BY <1>0, <2>1, <2>2 DEF TokenInv, TokensTypeOK, ServedWithinScope, ToolAt
<1>6. ASSUME NEW w \in Workers, Authenticate(w) PROVE TokenInv' /\ ServedWithinScope'
  <2>1. tool' = [tool EXCEPT !.pc = "permitted"] /\ faults' = faults /\ tool.pc = "calling"
    BY <1>6 DEF Authenticate, ToolAt
  <2>2. tool' \in Tool /\ tool'.token = tool.token /\ tool'.pc = "permitted" /\ tool'.asks = tool.asks
    BY <1>0, <2>1 DEF Tool
  <2> QED BY <1>0, <2>1, <2>2 DEF TokenInv, TokensTypeOK, ServedWithinScope, ToolAt
<1>7. ASSUME NEW w \in Workers, Serve(w) PROVE TokenInv' /\ ServedWithinScope'
  <2>1. /\ tool' = [tool EXCEPT !.pc = "served"] /\ faults' = faults /\ tool.pc = "permitted"
        /\ tool.token.fresh /\ tool.token.scopes \cap tool.wants # {}
    BY <1>7 DEF Serve, ToolAt, Validates, Permitted
  <2>2. /\ tool' \in Tool /\ tool'.token = tool.token /\ tool'.pc = "served"
        /\ tool'.asks = tool.asks /\ tool'.wants = tool.wants
    BY <1>0, <2>1 DEF Tool
  <2>3. tool.asks \cap TokenScopes \cap tool.wants # {}
    BY <1>0, <2>1
  <2> QED BY <1>0, <2>1, <2>2, <2>3 DEF TokenInv, TokensTypeOK, ServedWithinScope, ToolAt
<1>8. ASSUME NEW w \in Workers, Deny(w) PROVE TokenInv' /\ ServedWithinScope'
  <2>1. tool' = [tool EXCEPT !.pc = "ready", !.token = None] /\ faults' = faults
    BY <1>8 DEF Deny
  <2>2. tool' \in Tool /\ tool'.token = None /\ tool'.pc = "ready"
    BY <1>0, <2>1 DEF Tool
  <2> QED BY <1>0, <2>1, <2>2 DEF TokenInv, TokensTypeOK, ServedWithinScope, ToolAt
<1>9. ASSUME NEW w \in Workers, NEW asked \in SUBSET Scopes, Ask(w, asked)
      PROVE TokenInv' /\ ServedWithinScope'
  <2>1. /\ tool' = [tool EXCEPT !.pc = "asking", !.asks = asked] /\ faults' = faults
        /\ tool.token # None => ~tool.token.fresh
    BY <1>9 DEF Ask
  <2>2. tool' \in Tool /\ tool'.token = tool.token /\ tool'.pc = "asking"
    BY <1>0, <2>1 DEF Tool
  <2> QED BY <1>0, <2>1, <2>2 DEF TokenInv, TokensTypeOK, ServedWithinScope, ToolAt
<1>10. ASSUME NEW w \in Workers, Call(w) PROVE TokenInv' /\ ServedWithinScope'
  <2>1. tool' = [tool EXCEPT !.pc = "calling"] /\ faults' = faults /\ tool.token # None
    BY <1>10 DEF Call
  <2>2. tool' \in Tool /\ tool'.token = tool.token /\ tool'.pc = "calling" /\ tool'.asks = tool.asks
    BY <1>0, <2>1 DEF Tool
  <2> QED BY <1>0, <2>1, <2>2 DEF TokenInv, TokensTypeOK, ServedWithinScope, ToolAt
<1>11. ASSUME NEW e \in Endpoints, Want(e) PROVE TokenInv' /\ ServedWithinScope'
  <2>1. tool' = [tool EXCEPT !.pc = "ready", !.wants = e] /\ faults' = faults
    BY <1>11 DEF Want
  <2>2. tool' \in Tool /\ tool'.token = tool.token /\ tool'.pc = "ready" /\ tool'.asks = tool.asks
    BY <1>0, <2>1 DEF Tool
  <2> QED BY <1>0, <2>1, <2>2 DEF TokenInv, TokensTypeOK, ServedWithinScope, ToolAt
<1>12. ASSUME NEW k \in SigningKeys, ToolRotates(k) PROVE TokenInv' /\ ServedWithinScope'
  <2>1. tool' = [tool EXCEPT !.key = k] /\ faults' = faults
    BY <1>12 DEF ToolRotates
  <2>2. /\ tool' \in Tool /\ tool'.token = tool.token /\ tool'.pc = tool.pc
        /\ tool'.asks = tool.asks /\ tool'.wants = tool.wants
    BY <1>0, <2>1 DEF Tool
  <2> QED BY <1>0, <2>1, <2>2 DEF TInv, TokenInv, TokensTypeOK, ServedWithinScope, ToolAt
<1>13. CASE Expire
  <2> DEFINE t == [tool.token EXCEPT !.fresh = FALSE]
  <2>1. tool' = [tool EXCEPT !.token = t] /\ faults' \in 0..MaxFaults /\ tool.token \in Token
    BY <1>0, <1>3, <1>13 DEF Expire
  <2>2. t \in Token /\ t.key = tool.token.key /\ ~t.fresh /\ t # None
    BY <2>1, TokenNotNone DEF Token
  <2> HIDE DEF t
  <2>3. /\ tool' \in Tool /\ tool'.token = t /\ tool'.pc = tool.pc
        /\ tool'.asks = tool.asks /\ tool'.wants = tool.wants
    BY <1>0, <2>1, <2>2 DEF Tool
  <2>4. t.key <= made'
    BY <1>0, <1>13, <2>2 DEF Expire
  <2> QED BY <1>0, <2>1, <2>2, <2>3, <2>4 DEF TInv, TokenInv, TokensTypeOK, ServedWithinScope, ToolAt
<1> QED BY <1>1, <1>2, <1>4, <1>5, <1>6, <1>7, <1>8, <1>9, <1>10, <1>11, <1>12, <1>13
        DEF TNext, Respond, Renew

LEMMA TInvInit == TInit => TInv
<1> SUFFICES ASSUME TInit PROVE TInv
  OBVIOUS
<1>1. IInv
  BY InvInit DEF TInit
<1>2. tool \in Tool /\ tool.token = None /\ tool.pc = "ready" /\ faults = 0
  BY DEF TInit, Tool
<1> QED BY <1>1, <1>2, TokensAssumption
        DEF TInv, TokenInv, TokensTypeOK, ServedWithinScope, ToolAt

LEMMA TInvStep == TInv /\ [TNext]_tvars => TInv'
<1> SUFFICES ASSUME TInv, [TNext]_tvars PROVE TInv'
  OBVIOUS
<1>1. CASE TNext
  <2>1. [Next]_vars
    BY <1>1, StepOfKeys
  <2>2. IInv'
    BY <2>1, KeysInvKept DEF TInv
  <2> QED BY <1>1, <2>1, <2>2, TokenStep DEF TInv
<1>2. CASE UNCHANGED tvars
  <2>1. UNCHANGED vars /\ UNCHANGED <<tool, faults>>
    BY <1>2 DEF tvars, vars
  <2>2. IInv'
    BY <2>1, KeysInvKept DEF TInv
  <2> QED BY <2>1, <2>2
          DEF TInv, TokenInv, TokensTypeOK, ServedWithinScope, ToolAt, vars
<1> QED BY <1>1, <1>2

LEMMA TInvAlways == TSpec => []TInv
BY TInvInit, TInvStep, PTL DEF TSpec

---------------------------------------------------------------------------
(* Pairs that are gone *)

LEMMA GoneStays ==
    ASSUME IInv, [Next]_vars, NEW k \in 1..made, Gone(k)
    PROVE  Gone(k)'
<1>0. /\ made \in 0..MaxKeys /\ MaxKeys \in Nat /\ req \in [Workers -> Request] /\ row.key # k
      /\ \A v \in Workers : req[v].mine # None => req[v].mine.key # k
      /\ k \in Nat /\ k # Blank /\ k <= made
  BY KeysAssumption DEF IInv, TypeOK, Gone, Blank
<1>1. CASE UNCHANGED vars
  BY <1>1 DEF vars, Gone
<1>2. ASSUME NEW w \in Workers, NEW r, Set(w, r), r.mine # None => r.mine.key # k, row'.key # k
      PROVE  Gone(k)'
  BY <1>0, <1>2 DEF Set, Gone
<1>3. Idle.mine = None
  BY DEF Idle
<1>4. ASSUME NEW w \in Workers, NEW op \in Operations, Begin(w, op) PROVE Gone(k)'
  <2>1. [Idle EXCEPT !.pc = "load", !.op = op].mine = None
    BY DEF Idle
  <2> QED BY <1>0, <1>2, <1>4, <2>1 DEF Begin
<1>5. ASSUME NEW w \in Workers, Load(w) PROVE Gone(k)'
  <2> DEFINE pc == IF req[w].op \in {"view", "rotate"} THEN "write" ELSE "keys"
             r == [req[w] EXCEPT !.mine = row, !.pc = pc]
  <2>1. r.mine = row
    BY <1>0 DEF Request
  <2> HIDE DEF pc
  <2>2. Set(w, r) /\ row' = row
    BY <1>5 DEF Load, pc
  <2> HIDE DEF r
  <2> QED BY <1>0, <1>2, <2>1, <2>2
<1>6. ASSUME NEW w \in Workers, GenerateAndSave(w) PROVE Gone(k)'
  <2> DEFINE p == Generated(req[w].mine)
             pc == IF BuildsConsumer(req[w].op) THEN "again" ELSE "answer"
             r == [req[w] EXCEPT !.mine = p, !.pc = pc]
  <2>1. Sound(req[w].mine, made)
    BY <1>6 DEF GenerateAndSave, IInv, At, Holds
  <2>2. p.key # k
    <3>1. req[w].mine \in Passport /\ req[w].mine # None
      BY <2>1, PassportNotNone DEF Sound
    <3>2. CASE req[w].mine.key = Blank
      BY <1>0, <3>1, <3>2 DEF Generated, Passport
    <3>3. CASE req[w].mine.key # Blank
      BY <1>0, <3>1, <3>3 DEF Generated, Passport
    <3> QED BY <3>2, <3>3
  <2> HIDE DEF p
  <2>3. r.mine = p
    BY <1>0 DEF Request
  <2> HIDE DEF pc
  <2>4. Set(w, r) /\ row' = p
    BY <1>6 DEF GenerateAndSave, p, pc
  <2> HIDE DEF r
  <2> QED BY <1>2, <2>2, <2>3, <2>4
<1>7. ASSUME NEW w \in Workers, SaveAgain(w) PROVE Gone(k)'
  <2> DEFINE r == [req[w] EXCEPT !.pc = "answer"]
  <2>1. Sound(req[w].mine, made)
    BY <1>7 DEF SaveAgain, IInv, At, Holds
  <2>2. req[w].mine # None
    BY <2>1, PassportNotNone DEF Sound
  <2>3. r.mine = req[w].mine /\ Set(w, r) /\ row' = req[w].mine
    BY <1>0, <1>7 DEF SaveAgain, Request
  <2> HIDE DEF r
  <2> QED BY <1>0, <1>2, <2>2, <2>3
<1>8. ASSUME NEW w \in Workers, Answer(w) PROVE Gone(k)'
  BY <1>0, <1>2, <1>3, <1>8 DEF Answer
<1>9. ASSUME NEW w \in Workers, NEW t \in ToolKeys, WriteToolKey(w, t) PROVE Gone(k)'
  <2>1. Sound(req[w].mine, made)
    BY <1>9 DEF WriteToolKey, IInv, At, Holds
  <2>2. req[w].mine # None /\ [req[w].mine EXCEPT !.tool = t].key = req[w].mine.key
    BY <2>1, PassportNotNone DEF Sound, Passport
  <2> QED BY <1>0, <1>2, <1>3, <1>9, <2>2 DEF WriteToolKey
<1>10. ASSUME NEW w \in Workers, RotateKey(w) PROVE Gone(k)'
  <2>1. Sound(req[w].mine, made)
    BY <1>10 DEF RotateKey, IInv, At, Holds
  <2>2. [req[w].mine EXCEPT !.key = Blank].key = Blank
    BY <2>1 DEF Sound, Passport
  <2> QED BY <1>0, <1>2, <1>3, <1>10, <2>2 DEF RotateKey
<1> QED BY <1>1, <1>4, <1>5, <1>6, <1>7, <1>8, <1>9, <1>10 DEF Next

---------------------------------------------------------------------------

\* What tools and services do to the passport is what LtiKeys allows.
THEOREM TokensImplementKeys == TSpec => Spec
<1>1. TInit => Init
  BY DEF TInit
<1>2. [TNext]_tvars => [Next]_vars
  <2>1. UNCHANGED tvars => UNCHANGED vars
    BY DEF tvars, vars
  <2> QED BY <2>1, StepOfKeys
<1> QED BY <1>1, <1>2, PTL DEF TSpec, Spec

\* The key pair stays whole, whatever tokens are asked for and checked meanwhile.
THEOREM PairMatchesWithTools == TSpec => []KeyPairMatches
BY TokensImplementKeys, PublishedKeySigns, PTL

\* The tool and its token keep their shape; the token's pair was made.
THEOREM TokensTypeCorrect == TSpec => []TokensTypeOK
<1>1. TInv => TokensTypeOK
  BY DEF TInv, TokenInv
<1> QED BY <1>1, TInvAlways, PTL

\* No service answers a tool that did not ask for one of its supported scopes.
THEOREM ScopesAreKept == TSpec => []ServedWithinScope
<1>1. TInv => ServedWithinScope
  BY DEF TInv
<1> QED BY <1>1, TInvAlways, PTL

\* With a single pair no fresh token of the right scope is refused.
THEOREM SinglePairIsHonoured == TSpec => TokensAreHonoured
<1> DEFINE Cause == \A w \in Workers : Deny(w) =>
                      \/ ~tool.token.fresh \/ made > 1
                      \/ tool.asks \cap TokenScopes \cap tool.wants = {}
<1>1. TInv => Cause
  <2> SUFFICES ASSUME TInv, NEW w \in Workers, Deny(w), tool.token.fresh, ~(made > 1)
               PROVE  tool.asks \cap TokenScopes \cap tool.wants = {}
    OBVIOUS
  <2>1. tool.token # None
    BY DEF Deny, ToolAt, TInv, TokenInv, TokensTypeOK
  <2>2. /\ tool.token.key \in Nat \ {0} /\ tool.token.key <= made
        /\ tool.token.scopes = tool.asks \cap TokenScopes
    BY <2>1 DEF TInv, TokenInv, TokensTypeOK, Tool, Token, Key
  <2>3. req[w].mine.key \in 1..made /\ made \in Nat
    BY AnswersWithPair, KeysAssumption DEF Deny, Answering, TInv, IInv, TypeOK
  <2>4. Validates(w)
    BY <2>2, <2>3 DEF Validates
  <2>5. ~Permitted(tool.wants)
    BY <2>4 DEF Deny
  <2> QED BY <2>2, <2>5 DEF Permitted
<1>2. TInv /\ [TNext]_tvars => [Cause]_tvars
  BY <1>1
<1> QED BY <1>2, TInvAlways, PTL DEF TSpec, TokensAreHonoured

\* A pair nobody holds any more is never used again.
THEOREM RevocationHolds == TSpec => RevokedStaysRevoked
<1> DEFINE Stays == \A k \in 1..made : Gone(k) => Gone(k)'
<1>1. TInv /\ [TNext]_tvars => [Stays]_tvars
  <2> SUFFICES ASSUME TInv, TNext PROVE Stays
    OBVIOUS
  <2>1. [Next]_vars
    BY StepOfKeys
  <2> QED BY <2>1, GoneStays DEF TInv
<1> QED BY <1>1, TInvAlways, PTL DEF TSpec, RevokedStaysRevoked
=============================================================================
