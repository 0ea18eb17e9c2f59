------------------------- MODULE LtiPassportsAlone -------------------------
(***************************************************************************)
(* LtiPassports with a history variable that tells which requests have run *)
(* alone so far: no other request, author or admin has taken a step since  *)
(* they began.  Requests that were killed, or are still waiting, may have  *)
(* left rows and blocks in any state, and may go on later: what the        *)
(* handlers promise to a request that nothing disturbs holds after all of  *)
(* that.                                                                   *)
(***************************************************************************)
EXTENDS LtiPassports

VARIABLE alone

loneVars == <<vars, alone>>

\* A step of a request keeps it alone, and ends that of every other.
Watch ==
    alone' = [w \in Workers |->
                /\ req'[w] # req[w] /\ req'[w] # Idle
                /\ At(w, "idle") \/ alone[w]]

LoneInit == Init /\ alone = [w \in Workers |-> FALSE]
LoneNext == Next /\ Watch
LoneSpec == LoneInit /\ [][LoneNext]_loneVars

---------------------------------------------------------------------------
(* Properties *)

\* What w does next, when it is at pc and has run alone
Alone(w, pc) == alone[w] /\ At(w, pc)
Steps(w) == req'[w] # req[w]
SameFields(x, y) == x.passport = y.passport /\ x.store = y.store

\* A view that runs alone and compares the keys of its block with those of its
\* passport (_ensure_lti_passport) leaves the block with a passport that carries
\* the key its mode selects, whatever views, splits and links were killed before
\* it between two of their three stores.
LoneViewSettles ==
    \A w \in Workers :
        LET r == req[w]  l == r.loc IN
        Alone(w, "returned") /\ l \in Main /\ r.row # None =>
            /\ Linked(l)
            /\ LET row == passport[config[l].passport] IN
               IF r.blk.tool.mode = "public_key" THEN row.pub = r.blk.tool.pub
               ELSE row.url = r.blk.tool.url

\* A configuration that is linked by a request running alone gets the passport
\* whose id its block carries (get_or_create_lti_1p3_passport), although the
\* row may have lost its passport to a purge or an admin, and the passport with
\* that id may be gone, or be another's copy.
LoneLinkFollowsBlock ==
    [][\A w \in Workers :
          LET l == req[w].loc IN
          Alone(w, "attach") /\ Steps(w) =>
              /\ config'[l] # None /\ config'[l].passport # None
              /\ passport'[config'[l].passport].pid = block'[Home(l)].pid]_loneVars

\* A cleanup that runs alone leaves no passport without a configuration: it
\* collects also what killed views and splits left behind (signals.py:116, 130).
LoneCleanupIsComplete ==
    [][\A w \in Workers :
          Alone(w, "purge") /\ Steps(w) =>
              \A p \in PassportId : passport'[p] # None => Users(p)' # {}]_loneVars

\* A save that runs alone leaves the configurations of a block and of its
\* custom courses with the same fields ("syncronize main/children configuration
\* variables", models.py:377), in whichever order and state it finds them.
LoneSaveSynchronises ==
    [][\A w \in Workers :
          LET l == req[w].loc IN
          Alone(w, "save") /\ Steps(w) /\ config'[l] = req[w].cfg =>
          \A c \in Ccx :
              l \in {c, MainOf[c]} /\ config'[c] # None /\ config'[MainOf[c]] # None
              => SameFields(config'[c], config'[MainOf[c]])]_loneVars
============================================================================
