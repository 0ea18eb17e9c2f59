----------------------------- MODULE LtiTokens -----------------------------
(***************************************************************************)
(* A tool that calls the services of one passport: it asks the token       *)
(* endpoint for an access token, calls with it, and asks again when it is  *)
(* refused.  Each request builds the LTI 1.3 consumer from the passport as *)
(* LtiKeys has it, among the launches, keysets, views and rotations of     *)
(* other clients; a token is good only for the pair that signed it.        *)
(*                                                                         *)
(* The tool has one request under way at a time.  It is external, like the *)
(* passing of time, and so is what its keyset URL answers.                 *)
(***************************************************************************)
EXTENDS LtiKeys

CONSTANTS
    Scopes,        \* scopes a tool may ask for
    TokenScopes,   \* LTI_1P3_ACCESS_TOKEN_SCOPES
    Endpoints,     \* each the set of scopes its permission class allows
    SigningKeys,   \* keys the tool may sign its assertions with
    KeysetUrl,     \* the tool key columns that hold a URL, not a key
    MaxFaults      \* bound: tokens that expire, keysets that cannot be fetched

ASSUME TokensAssumption ==
    /\ {"token", "call"} \subseteq Operations
    /\ TokenScopes \subseteq Scopes /\ Endpoints \subseteq SUBSET Scopes
    /\ KeysetUrl \notin SigningKeys /\ MaxFaults \in Nat
    /\ None \notin [key : Key, scopes : SUBSET Scopes, fresh : BOOLEAN]

VARIABLES
    tool,      \* the tool: its signing key, its token, the call it wants to make
    faults

tvars == <<row, made, req, requests, tool, faults>>

Token == [key : Key, scopes : SUBSET Scopes, fresh : BOOLEAN]
Tool == [pc : {"ready", "asking", "calling", "permitted", "served"},
         key : SigningKeys, token : Token \cup {None},
         asks : SUBSET Scopes, wants : Endpoints]

ToolAt(pc) == tool.pc = pc
Fault == faults < MaxFaults /\ faults' = faults + 1
Answering(w, op) == At(w, "answer") /\ req[w].op = op
Quiet == UNCHANGED <<tool, faults>>
Platform == UNCHANGED vars

---------------------------------------------------------------------------
(* The tool, external *)

\* It asks for scopes it can use when it has no token or knows it expired.
Ask(w, asked) ==
    /\ ToolAt("ready") /\ (tool.token # None => ~tool.token.fresh)
    /\ tool.wants \cap TokenScopes # {} => asked \cap tool.wants \cap TokenScopes # {}
    /\ tool' = [tool EXCEPT !.pc = "asking", !.asks = asked]
    /\ Begin(w, "token")
    /\ UNCHANGED faults

\* The clock of the tool may be late: an expired token is tried as well.
Call(w) ==
    /\ ToolAt("ready") /\ tool.token # None
    /\ tool' = [tool EXCEPT !.pc = "calling"]
    /\ Begin(w, "call")
    /\ UNCHANGED faults

Want(e) == ToolAt("served") /\ tool' = [tool EXCEPT !.pc = "ready", !.wants = e]
           /\ Platform /\ UNCHANGED faults

\* Assertions under way are still signed with a key the tool publishes.
ToolRotates(k) ==
    /\ tool.pc \in {"ready", "served"}
    /\ tool' = [tool EXCEPT !.key = k] /\ Platform /\ UNCHANGED faults

\* An hour passes, perhaps between the two checks of one call.
Expire ==
    /\ tool.token # None /\ tool.token.fresh /\ Fault
    /\ tool' = [tool EXCEPT !.token.fresh = FALSE] /\ Platform

---------------------------------------------------------------------------
(* The token endpoint *)

\* mutant: a scope looked up in a tuple that holds the list
NoScope(scopes) == {}
\* _check_if_scope_is_valid: unsupported scopes are dropped, without an error
ValidScopes(scopes) == scopes \cap TokenScopes

\* ToolKeyHandler: the keys behind the URL, or the key of the column
VerifiesAssertion(columns) == columns \in {KeysetUrl, tool.key}

GrantToken(w) ==
    /\ Answering(w, "token") /\ VerifiesAssertion(req[w].mine.tool)
    /\ Answer(w)
    /\ tool' = [tool EXCEPT !.pc = "ready",
           !.token = [key |-> req[w].mine.key, scopes |-> ValidScopes(tool.asks), fresh |-> TRUE]]
    /\ UNCHANGED faults

\* invalid_client: the assertion's key is not registered, or the keys behind the
\* URL cannot be had
RefuseToken(w) ==
    /\ Answering(w, "token")
    /\ IF VerifiesAssertion(req[w].mine.tool) THEN req[w].mine.tool = KeysetUrl /\ Fault
       ELSE UNCHANGED faults
    /\ Answer(w)
    /\ tool' = [tool EXCEPT !.pc = "ready"]

---------------------------------------------------------------------------
(* The calls of the services *)

Validates(w) == tool.token.fresh /\ tool.token.key = req[w].mine.key

\* Lti1p3ApiAuthentication: signature and expiry, with the key of the consumer
Authenticate(w) ==
    /\ ToolAt("calling") /\ Answering(w, "call")
    /\ Validates(w)
    /\ tool' = [tool EXCEPT !.pc = "permitted"]
    /\ Platform /\ UNCHANGED faults

\* mutant: a valid token will do
AnyToken(e) == TRUE
\* has_permission: any scope of the token among those of the action
Permitted(e) == tool.token.scopes \cap e # {}

\* has_permission decodes the token again, of the same instance, before the view
Serve(w) ==
    /\ ToolAt("permitted") /\ Answering(w, "call")
    /\ Validates(w) /\ Permitted(tool.wants)
    /\ Answer(w)
    /\ tool' = [tool EXCEPT !.pc = "served"]
    /\ UNCHANGED faults

\* 401 of the authentication, 403 of the permission, or the error that a token
\* which expired in between raises: the tool drops its token.
Deny(w) ==
    /\ Answering(w, "call")
    /\ \/ ToolAt("calling") /\ ~Validates(w)
       \/ ToolAt("permitted") /\ ~(Validates(w) /\ Permitted(tool.wants))
    /\ Answer(w)
    /\ tool' = [tool EXCEPT !.pc = "ready", !.token = None]
    /\ UNCHANGED faults

---------------------------------------------------------------------------

TInit ==
    /\ Init
    /\ tool \in [pc : {"ready"}, key : SigningKeys, token : {None},
                 asks : {{}}, wants : Endpoints]
    /\ faults = 0

\* Requests of other clients: launches, keysets, views and rotations
Arrive(w) == Quiet /\ \E op \in Operations \ {"token", "call"} : Begin(w, op)
Finish(w) ==
    /\ Quiet
    /\ \/ req[w].op \notin {"token", "call"} /\ Answer(w)
       \/ \E t \in ToolKeys : WriteToolKey(w, t)
       \/ RotateKey(w)

\* Loading the passport and reading its keys, in any request
Build(w) == Quiet /\ (Load(w) \/ GenerateAndSave(w) \/ SaveAgain(w))

Respond(w) == GrantToken(w) \/ RefuseToken(w) \/ Authenticate(w) \/ Serve(w) \/ Deny(w)
Renew(w) == \E asked \in SUBSET Scopes : Ask(w, asked)

TNext ==
    \/ \E w \in Workers : Arrive(w) \/ Build(w) \/ Finish(w) \/ Respond(w)
    \/ \E w \in Workers : Renew(w) \/ Call(w)
    \/ \E e \in Endpoints : Want(e)
    \/ \E k \in SigningKeys : ToolRotates(k)
    \/ Expire

TSpec == TInit /\ [][TNext]_tvars

\* A request that was begun is finished; the tool tries again as long as it wants
\* the call.  Nothing else need ever happen.
Fairness ==
    /\ \A w \in Workers : WF_tvars(Build(w) \/ Finish(w) \/ Respond(w))
    /\ WF_tvars(\E w \in Workers : Renew(w)) /\ WF_tvars(\E w \in Workers : Call(w))

FairTSpec == TSpec /\ Fairness

---------------------------------------------------------------------------
(* Properties *)

\* The tool keeps its shape, one request of its at a time is served, and a
\* token was signed with a pair that was generated.
TokensTypeOK ==
    /\ tool \in Tool /\ faults \in 0..MaxFaults
    /\ tool.token # None => tool.token.key <= made
    /\ tool.pc \in {"calling", "permitted"} => tool.token # None

\* A service answers only a tool that asked for one of the scopes of the action
\* (permissions.py:19-29) and was granted it: no other scope of the tool's
\* opens it, and an action without scopes is never served.
ServedWithinScope ==
    ToolAt("served") => tool.asks \cap TokenScopes \cap tool.wants # {}

\* As long as no second pair was made, however requests overlap, a call is refused
\* for its scopes or for its age and never for its signature.
TokensAreHonoured ==
    [][\A w \in Workers : Deny(w) =>
         \/ ~tool.token.fresh \/ made > 1
         \/ tool.asks \cap TokenScopes \cap tool.wants = {}]_tvars

\* A pair that neither the row nor a request under way holds does not come
\* back: what a rotation revokes stays revoked, once the requests that overlap
\* it are over.
Gone(k) == row.key # k /\ \A w \in Workers : req[w].mine # None => req[w].mine.key # k
RevokedStaysRevoked == [][\A k \in 1..made : Gone(k) => Gone(k)']_tvars

\* A tool whose key is registered and whose call is within the scopes it can be
\* granted is served again and again: by asking for a new token it recovers
\* from expiry, from rotations and from the loss of the pair that signed.
ToolIsServed ==
    <>[](VerifiesAssertion(row.tool) /\ tool.wants \cap TokenScopes # {})
        => []<>ToolAt("served")
=============================================================================
