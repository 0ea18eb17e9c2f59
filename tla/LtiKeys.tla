------------------------------ MODULE LtiKeys ------------------------------
(***************************************************************************)
(* The platform's own key pair on one Lti1p3Passport: made the first time  *)
(* a request reads it (_generate_lti_1p3_keys_if_missing), used to sign    *)
(* launches and access tokens and to check the tokens tools call with,     *)
(* published by the keyset endpoint.  LtiTokens composes it with a tool.   *)
(*                                                                         *)
(* A key pair and its kid are one number; Blank is an empty column.  Every *)
(* save() writes the whole instance the request loaded, so the view that   *)
(* writes the tool's key and the admin's form write the key columns too.   *)
(***************************************************************************)
EXTENDS Integers, FiniteSets

CONSTANTS
    Workers,       \* requests served at the same time
    Operations,    \* the kinds of request served
    Retried,       \* those the bound on requests does not count
    ToolKeys,      \* what an author may write in the tool's key columns
    MaxKeys, MaxRequests,    \* bounds
    None

Blank == 0
Key == 1..MaxKeys

ASSUME KeysAssumption ==
    /\ MaxKeys \in Nat /\ MaxRequests \in Nat
    /\ Operations \subseteq {"launch", "token", "call", "keyset", "view", "rotate"}
    /\ None \notin Operations
    /\ None \notin [key : Key \cup {Blank}, jwk : Key \cup {Blank}, tool : ToolKeys]

VARIABLES
    row,         \* the passport: key and jwk of the platform, tool of the tool
    made,        \* key pairs ever generated
    req,         \* the requests being served, with the instance they hold
    requests

vars == <<row, made, req, requests>>

Passport == [key : Key \cup {Blank}, jwk : Key \cup {Blank}, tool : ToolKeys]
Idle == [pc |-> "idle", op |-> None, mine |-> None]
Request == [pc : {"idle", "load", "keys", "again", "answer", "write"},
            op : Operations \cup {None}, mine : Passport \cup {None}]

At(w, pc) == req[w].pc = pc
Set(w, r) == req' = [req EXCEPT ![w] = r]

---------------------------------------------------------------------------

\* Requests that build the LTI 1.3 consumer, with the private key and its id
BuildsConsumer(op) == op \in {"launch", "token", "call"}

\* A launch, a token asked for or checked in a call of the services, a keyset, a
\* view of the block that writes the tool's key, or an admin who clears the
\* key in the passport's form.
Begin(w, op) ==
    /\ At(w, "idle")
    /\ IF op \in Retried THEN UNCHANGED requests
       ELSE requests < MaxRequests /\ requests' = requests + 1
    /\ Set(w, [Idle EXCEPT !.pc = "load", !.op = op])
    /\ UNCHANGED <<row, made>>

\* mutant: the consumer takes the column instead of the property
LoadColumn(w) ==
    /\ At(w, "load")
    /\ Set(w, [req[w] EXCEPT !.mine = row,
            !.pc = IF req[w].op \in {"view", "rotate"} THEN "write" ELSE "answer"])
    /\ UNCHANGED <<row, made, requests>>
Load(w) ==
    /\ At(w, "load")
    /\ Set(w, [req[w] EXCEPT !.mine = row,
            !.pc = IF req[w].op \in {"view", "rotate"} THEN "write" ELSE "keys"])
    /\ UNCHANGED <<row, made, requests>>

\* mutant: a pair derived from the passport instead of generated
Derived(p) == IF p.key = Blank THEN [p EXCEPT !.key = 1, !.jwk = 1] ELSE p
\* mutant: "Clear public key if any" left out
KeepsOldJwk(p) ==
    [p EXCEPT !.key = IF p.key = Blank THEN made + 1 ELSE @,
              !.jwk = IF p.jwk # Blank THEN @ ELSE IF p.key = Blank THEN made + 1 ELSE p.key]
\* A new pair clears the public key, which is then made from the private one.
Generated(p) ==
    IF p.key = Blank THEN [p EXCEPT !.key = made + 1, !.jwk = made + 1]
    ELSE IF p.jwk = Blank THEN [p EXCEPT !.jwk = p.key] ELSE p

GenerateAndSave(w) ==
    LET p == Generated(req[w].mine) IN
    /\ At(w, "keys")
    /\ made' = (IF p.key > made THEN p.key ELSE made) /\ made' <= MaxKeys
    /\ row' = p
    /\ Set(w, [req[w] EXCEPT !.mine = p,
            !.pc = IF BuildsConsumer(req[w].op) THEN "again" ELSE "answer"])
    /\ UNCHANGED requests

\* lti_1p3_private_key_id, of the same instance
SaveAgain(w) ==
    /\ At(w, "again")
    /\ row' = req[w].mine
    /\ Set(w, [req[w] EXCEPT !.pc = "answer"])
    /\ UNCHANGED <<made, requests>>

\* The message or the token is signed, or the token checked, with the key of the
\* instance; or the keyset is sent
Answer(w) ==
    /\ At(w, "answer") /\ Set(w, Idle)
    /\ UNCHANGED <<row, made, requests>>

\* passport.save() of a view (_ensure_lti_passport): the tool's key, and the
\* platform's as it was loaded
WriteToolKey(w, t) ==
    /\ At(w, "write") /\ req[w].op = "view"
    /\ row' = IF req[w].mine.tool # t THEN [req[w].mine EXCEPT !.tool = t] ELSE row
    /\ Set(w, Idle)
    /\ UNCHANGED <<made, requests>>

\* The form's private key emptied, its other columns as the form showed them
RotateKey(w) ==
    /\ At(w, "write") /\ req[w].op = "rotate"
    /\ row' = [req[w].mine EXCEPT !.key = Blank]
    /\ Set(w, Idle)
    /\ UNCHANGED <<made, requests>>

---------------------------------------------------------------------------

Init ==
    /\ row \in [key : {Blank}, jwk : {Blank}, tool : ToolKeys] /\ made = 0
    /\ req = [w \in Workers |-> Idle]
    /\ requests = 0

Next ==
    \E w \in Workers :
        \/ \E op \in Operations : Begin(w, op)
        \/ Load(w) \/ GenerateAndSave(w) \/ SaveAgain(w) \/ Answer(w)
        \/ \E t \in ToolKeys : WriteToolKey(w, t)
        \/ RotateKey(w)

Spec == Init /\ [][Next]_vars

---------------------------------------------------------------------------
(* Properties *)

\* The row and the instances in flight have the columns of Lti1p3Passport, and an
\* instance that answers has a key.
TypeOK ==
    /\ row \in Passport /\ made \in 0..MaxKeys
    /\ req \in [Workers -> Request]
    /\ requests \in 0..MaxRequests
    /\ \A w \in Workers : At(w, "answer") => req[w].mine.key # Blank

\* The published JWK is the public half of the private key that signs
\* (models.py:112-123), in the row and in every instance in flight, however
\* views, forms and key accesses overwrite one another's columns.
KeyPairMatches ==
    LET Matches(p) == p.key # Blank /\ p.jwk # Blank => p.jwk = p.key IN
    /\ Matches(row)
    /\ \A w \in Workers : req[w].mine # None => Matches(req[w].mine)
=============================================================================
