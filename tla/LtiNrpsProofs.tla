---------------------------- MODULE LtiNrpsProofs ----------------------------
(***************************************************************************)
(* Proofs about LtiNrps, for any number of members, any limit and any      *)
(* number of views: what the pages of a traversal hold together, that      *)
(* what an admin decided about names stands, and that the roles of a       *)
(* launch and of the list agree.                                           *)
(***************************************************************************)
EXTENDS LtiNrps, FiniteSetTheorems, TLAPS

Limit == PositiveInt(tool.limit)
Behind == (tool.page - 1) * Limit      \* members on the pages before the next one

\* Who is still to be listed is behind no page that was cut, ...
AllAhead(data) ==
    /\ tool.unread \subseteq data
    /\ Limit # None => \A u \in tool.unread : Rank(u, data) > Behind

\* ... and who was listed is behind one.
AllBehind(data) ==
    \A u \in tool.read \cap data : Limit # None /\ Rank(u, data) <= Behind

InHand == tool.pc \in {"fetched", "attached", "looked"}

PagesInv ==
    /\ ~left /\ ~At("refused") => AllAhead(members)
    /\ InHand /\ ~left => AllAhead(tool.data) /\ tool.data \subseteq members
    /\ At("all") /\ ~left => tool.unread = {}

TwiceInv ==
    /\ tool.page = 1 => tool.read = {} /\ ~tool.twice
    /\ Limit = None => tool.read = {}
    /\ ~joined => AllBehind(members) /\ ~tool.twice
    /\ ~joined /\ InHand => AllBehind(tool.data) /\ members \subseteq tool.data

---------------------------------------------------------------------------
(* Ranks *)

LEMMA FiniteUsers == \A S \in SUBSET Users : IsFiniteSet(S) /\ Cardinality(S) \in Nat
BY NrpsAssumption, FS_Subset, FS_CardinalityType

\* A member's rank is at least one, at most the number of members, and grows with them.
LEMMA RankBounds ==
    ASSUME NEW S \in SUBSET Users, NEW u \in S
    PROVE  Rank(u, S) \in Nat /\ 1 <= Rank(u, S) /\ Rank(u, S) <= Cardinality(S)
<1> DEFINE R == {v \in S : v <= u}
<1>1. R \in SUBSET Users /\ R \subseteq S /\ u \in R /\ {u} \subseteq R
  BY NrpsAssumption
<1>2. Cardinality(R) <= Cardinality(S) /\ Cardinality(R) \in Nat
  BY <1>1, FiniteUsers, FS_Subset
<1>3. Cardinality({u}) = 1 /\ Cardinality({u}) <= Cardinality(R)
  BY <1>1, FiniteUsers, FS_Subset, FS_Singleton
<1> QED BY <1>2, <1>3 DEF Rank

LEMMA RankGrows ==
    ASSUME NEW S \in SUBSET Users, NEW T \in SUBSET Users, S \subseteq T, NEW u
    PROVE  Rank(u, S) \in Nat /\ Rank(u, T) \in Nat /\ Rank(u, S) <= Rank(u, T)
<1> DEFINE R == {v \in S : v <= u}
           Q == {v \in T : v <= u}
<1>1. R \in SUBSET Users /\ Q \in SUBSET Users /\ R \subseteq Q
  OBVIOUS
<1>2. Cardinality(R) <= Cardinality(Q) /\ Cardinality(R) \in Nat /\ Cardinality(Q) \in Nat
  BY <1>1, FiniteUsers, FS_Subset
<1> QED BY <1>2 DEF Rank

LEMMA LimitTyped ==
    ASSUME TypeOK
    PROVE  /\ Limit = None \/ Limit \in Nat \ {0}
           /\ Limit # None => Limit \in Nat \ {0} /\ Behind \in Nat /\ tool.page * Limit \in Nat
           /\ tool.page \in Nat \ {0}
<1>1. tool.page \in Nat \ {0}
  BY DEF TypeOK, Tool
<1>2. Limit = None \/ Limit \in Nat \ {0}
  BY DEF Limit, PositiveInt
<1>3. Limit # None => Behind \in Nat /\ tool.page * Limit \in Nat
  BY <1>1, <1>2 DEF Behind
<1> QED BY <1>1, <1>2, <1>3

---------------------------------------------------------------------------
(* Types *)

\* What a page leaves of the traversal, ...
LEMMA ServeFields ==
    ASSUME TypeOK, Serve,
           NEW shown, shown = Page(tool.data, tool.page, Limit),
           NEW more, more = HasNext(tool.data, tool.page, Limit)
    PROVE  /\ tool' \in Tool
           /\ tool'.limit = tool.limit /\ tool'.data = {}
           /\ tool'.pc = (IF more THEN "page" ELSE "all")
           /\ tool'.page = (IF more THEN tool.page + 1 ELSE tool.page)
           /\ tool'.unread = tool.unread \ shown
           /\ tool'.read = (IF more THEN tool.read \cup shown ELSE {})
           /\ tool'.twice = (tool.twice \/ tool.read \cap shown # {})
           /\ shown \in SUBSET tool.data /\ more \in BOOLEAN
<1>1. shown \in SUBSET tool.data /\ more \in BOOLEAN
  BY DEF Page, HasNext
<1>2. /\ tool \in Tool /\ tool.page \in Nat \ {0} /\ tool.read \in SUBSET Users
      /\ tool.unread \in SUBSET Users /\ tool.data \in SUBSET Users
      /\ tool.twice \in BOOLEAN
  BY DEF TypeOK, Tool
<1> DEFINE pc == IF more THEN "page" ELSE "all"
           page == IF more THEN tool.page + 1 ELSE tool.page
           unread == tool.unread \ shown
           read == IF more THEN tool.read \cup shown ELSE {}
           twice == tool.twice \/ tool.read \cap shown # {}
           names == NamesShared
<1>3. tool' = [tool EXCEPT !.pc = pc, !.page = page, !.unread = unread, !.read = read,
                           !.twice = twice, !.names = names, !.data = {}]
  BY DEF Serve, NextPage, Limit
<1>4. /\ pc \in {"page", "all"} /\ page \in Nat \ {0} /\ unread \in SUBSET Users
      /\ read \in SUBSET Users
  BY <1>1, <1>2
<1>5. twice \in BOOLEAN /\ names \in BOOLEAN
  BY DEF NamesShared, TypeOK, Tool
<1> HIDE DEF pc, page, unread, read, twice, names
<1>6. /\ tool' \in Tool
      /\ tool'.limit = tool.limit /\ tool'.data = {} /\ tool'.pc = pc /\ tool'.page = page
      /\ tool'.unread = unread /\ tool'.read = read /\ tool'.twice = twice
  BY <1>2, <1>3, <1>4, <1>5 DEF Tool
<1> QED BY <1>1, <1>6 DEF pc, page, unread, read, twice

\* ... and what the members fetched do.
LEMMA FetchFields ==
    ASSUME TypeOK, Fetch, Cardinality(members) <= MaxMembers
    PROVE  /\ tool' \in Tool
           /\ tool'.limit = tool.limit /\ tool'.pc = "fetched" /\ tool'.page = tool.page
           /\ tool'.data = members /\ tool'.read = tool.read /\ tool'.twice = tool.twice
           /\ tool'.unread = (IF tool.page = 1 THEN members ELSE tool.unread)
<1> DEFINE unread == IF tool.page = 1 THEN members ELSE tool.unread
<1>1. tool \in Tool /\ members \in SUBSET Users /\ tool.unread \in SUBSET Users
  BY DEF TypeOK, Tool
<1>2. ~(Cardinality(members) > MaxMembers)
  BY <1>1, FiniteUsers, NrpsAssumption
<1>3. tool' = [tool EXCEPT !.pc = "fetched", !.data = members, !.unread = unread]
  BY <1>2 DEF Fetch
<1>4. unread \in SUBSET Users
  BY <1>1
<1> HIDE DEF unread
<1>5. /\ tool' \in Tool /\ tool'.unread = unread
      /\ tool'.limit = tool.limit /\ tool'.pc = "fetched" /\ tool'.page = tool.page
      /\ tool'.data = members /\ tool'.read = tool.read /\ tool'.twice = tool.twice
  BY <1>1, <1>3, <1>4 DEF Tool
<1> QED BY <1>5 DEF unread

LEMMA TypeStep ==
    ASSUME TypeOK, [Next]_vars
    PROVE  TypeOK'
<1> USE DEF TypeOK
<1>1. CASE Fetch
  <2>0. members \in SUBSET Users /\ Cardinality(members) \in Nat /\ MaxMembers \in Nat
    BY FiniteUsers, NrpsAssumption
  <2>1. ASSUME Cardinality(members) <= MaxMembers PROVE tool' \in Tool
    BY <1>1, <2>1, FetchFields
  <2>3. ASSUME Cardinality(members) > MaxMembers PROVE tool' \in Tool
    <3>1. tool' = [tool EXCEPT !.pc = "refused"]
      BY <1>1, <2>3 DEF Fetch, Go
    <3> QED BY <3>1 DEF Tool
  <2>4. tool' \in Tool
    BY <2>0, <2>1, <2>3
  <2>2. joined' \in BOOLEAN /\ left' \in BOOLEAN
    BY <1>1 DEF Fetch
  <2> QED BY <1>1, <2>2, <2>4 DEF Fetch, piivars
<1>2. CASE Attach
  <2>1. tool' \in Tool
    BY <1>2 DEF Attach, Go, Tool
  <2> QED BY <1>2, <2>1 DEF Attach, hostvars, piivars
<1>3. CASE Serve
  <2>5. tool' \in Tool
    BY <1>3, ServeFields
  <2>6. cached' \in BOOLEAN \cup {None}
    BY <1>3 DEF Serve, Tool
  <2> QED BY <1>3, <2>5, <2>6 DEF Serve, hostvars
<1>4. CASE Follow
  <2>1. tool' \in Tool
    BY <1>4 DEF Follow, Tool
  <2> QED BY <1>4, <2>1 DEF Follow, hostvars, piivars
<1>9. CASE ReadRow
  <2>1. tool' \in Tool
    BY <1>9 DEF ReadRow, Tool
  <2> QED BY <1>9, <2>1 DEF ReadRow, hostvars, piivars
<1>5. ASSUME NEW u \in Users, Join(u) \/ Leave(u) \/ DeleteAccount(u) PROVE TypeOK'
  <2>1. joined' \in BOOLEAN /\ left' \in BOOLEAN /\ tool' = tool
    BY <1>5 DEF Join, Leave, DeleteAccount
  <2>2. members' \subseteq accounts' /\ accounts' \subseteq Users
    BY <1>5 DEF Join, Leave, DeleteAccount
  <2>3. UNCHANGED piivars
    BY <1>5 DEF Join, Leave, DeleteAccount
  <2> QED BY <2>1, <2>2, <2>3 DEF piivars
<1>6. ASSUME NEW v \in Views, LookUp(v) \/ Enable(v) PROVE TypeOK'
  <2>1. {flag, cached, decided}' \subseteq BOOLEAN \cup {None}
        /\ view' \in [Views -> {"idle", "enable"}]
    BY <1>6 DEF LookUp, Enable, SaveRow
  <2> QED BY <1>6, <2>1 DEF LookUp, Enable, hostvars
<1>7. ASSUME NEW b \in BOOLEAN, AdminSaves(b) PROVE TypeOK'
  <2>1. {flag, cached, decided}' \subseteq BOOLEAN \cup {None}
    BY <1>7 DEF AdminSaves, SaveRow
  <2> QED BY <1>7, <2>1 DEF AdminSaves, hostvars
<1>10. CASE Expire
  BY <1>10 DEF Expire, hostvars
<1>8. CASE UNCHANGED vars
  BY <1>8 DEF vars, hostvars, piivars
<1> QED BY <1>1, <1>2, <1>3, <1>4, <1>5, <1>6, <1>7, <1>8, <1>9, <1>10 DEF Next

LEMMA TypeInit == Init => TypeOK
<1> SUFFICES ASSUME Init PROVE TypeOK
  OBVIOUS
<1>1. tool \in Tool
  BY DEF Init, Tool
<1>2. joined \in BOOLEAN /\ left \in BOOLEAN
  BY DEF Init
<1> QED BY <1>1, <1>2 DEF Init, TypeOK

LEMMA TypeAlways == Init /\ [][Next]_vars => []TypeOK
BY TypeInit, TypeStep, PTL

\* The course, the traversal and the flag keep their types.
THEOREM NrpsTypeCorrect == Spec => []TypeOK
BY TypeAlways, PTL DEF Spec

---------------------------------------------------------------------------
(* What was decided stands *)

\* A decision that no view has missed leaves no view that would enable the flag.
FlagInv == decided # None => flag = decided /\ \A v \in Views : view[v] # "enable"

LEMMA FlagInit == Init => FlagInv
BY DEF Init, FlagInv

LEMMA FlagStep ==
    ASSUME TypeOK, FlagInv, [Next]_vars
    PROVE  FlagInv'
<1>1. ASSUME UNCHANGED piivars PROVE FlagInv'
  BY <1>1 DEF FlagInv, piivars
<1>2. CASE Fetch \/ Attach \/ ReadRow \/ Serve \/ Follow \/ Expire
  BY <1>2 DEF Fetch, Attach, ReadRow, Serve, Follow, Expire, FlagInv, piivars
<1>3. ASSUME NEW u \in Users, Join(u) \/ Leave(u) \/ DeleteAccount(u) PROVE FlagInv'
  BY <1>1, <1>3 DEF Join, Leave, DeleteAccount
<1>4. ASSUME NEW v \in Views, LookUp(v) PROVE FlagInv'
  BY <1>4 DEF LookUp, FlagInv, TypeOK
<1>5. ASSUME NEW v \in Views, Enable(v) PROVE FlagInv'
  BY <1>5 DEF Enable, FlagInv, TypeOK
<1>6. ASSUME NEW b \in BOOLEAN, AdminSaves(b) PROVE FlagInv'
  BY <1>6 DEF AdminSaves, SaveRow, FlagInv, TypeOK
<1>7. CASE UNCHANGED vars
  BY <1>1, <1>7 DEF vars
<1> QED BY <1>2, <1>3, <1>4, <1>5, <1>6, <1>7 DEF Next

LEMMA FlagAlways == Spec => []FlagInv
BY TypeAlways, FlagInit, FlagStep, PTL DEF Spec

\* Only a view that had looked the flag up before a decision can undo it.
THEOREM DecisionsStand == Spec => []DecisionStands
<1>1. FlagInv => DecisionStands
  BY DEF FlagInv, DecisionStands
<1> QED BY <1>1, FlagAlways, PTL

---------------------------------------------------------------------------
(* What the pages hold together *)

\* A page ends where the next one begins.
LEMMA PageEnds ==
    ASSUME NEW p \in Nat \ {0}, NEW l \in Nat \ {0}
    PROVE  /\ p * l \in Nat /\ (p - 1) * l \in Nat
           /\ p * l = (p - 1) * l + l /\ (p + 1 - 1) * l = p * l
OBVIOUS

\* Ahead of more members, as they only grow; ...
LEMMA AheadGrows ==
    ASSUME TypeOK, NEW S \in SUBSET Users, NEW T \in SUBSET Users, S \subseteq T, AllAhead(S)
    PROVE  AllAhead(T)
<1>1. ASSUME NEW u \in tool.unread, Limit # None PROVE Rank(u, T) > Behind
  <2>1. Rank(u, S) > Behind /\ Behind \in Nat
    BY <1>1, LimitTyped DEF AllAhead
  <2> QED BY <2>1, RankGrows
<1> QED BY <1>1 DEF AllAhead

\* ... behind fewer, as they only shrink.
LEMMA BehindShrinks ==
    ASSUME TypeOK, NEW S \in SUBSET Users, NEW T \in SUBSET Users, T \subseteq S, AllBehind(S)
    PROVE  AllBehind(T)
<1>1. ASSUME NEW u \in tool.read \cap T PROVE Limit # None /\ Rank(u, T) <= Behind
  <2>1. Limit # None /\ Rank(u, S) <= Behind /\ Behind \in Nat
    BY <1>1, LimitTyped DEF AllBehind
  <2> QED BY <2>1, RankGrows
<1> QED BY <1>1 DEF AllBehind

\* The traversal's own part of the invariants reads only these.
LEMMA SameTraversal ==
    ASSUME tool'.limit = tool.limit, tool'.page = tool.page
    PROVE  /\ Limit' = Limit /\ Behind' = Behind
           /\ tool'.unread = tool.unread => \A S : AllAhead(S)' <=> AllAhead(S)
           /\ tool'.read = tool.read => \A S : AllBehind(S)' <=> AllBehind(S)
BY DEF Limit, Behind, AllAhead, AllBehind

\* Members fetched: the first page starts anew, the others go on.
LEMMA FetchKeeps ==
    ASSUME TypeOK, PagesInv, TwiceInv, Fetch
    PROVE  PagesInv' /\ TwiceInv'
<1>1. /\ members \in SUBSET Users /\ Cardinality(members) \in Nat /\ MaxMembers \in Nat
      /\ members' = members /\ At("ask")
  BY FiniteUsers, NrpsAssumption DEF TypeOK, Fetch
<1>2. /\ tool.page = 1 => ~joined' /\ ~left'
      /\ tool.page # 1 => joined' = joined /\ left' = left
  BY DEF Fetch
<1>3. ASSUME Cardinality(members) > MaxMembers PROVE PagesInv' /\ TwiceInv'
  <2>1. tool' = [tool EXCEPT !.pc = "refused"]
    BY <1>3 DEF Fetch, Go
  <2>2. /\ tool'.pc = "refused" /\ tool'.page = tool.page /\ tool'.read = tool.read
        /\ tool'.twice = tool.twice /\ tool'.limit = tool.limit
    BY <2>1 DEF TypeOK, Tool
  <2>3. PagesInv'
    BY <2>2 DEF PagesInv, InHand, At
  <2>4. Limit' = Limit /\ \A S : AllBehind(S)' <=> AllBehind(S)
    BY <2>2, SameTraversal
  <2>5. tool.page = 1 => AllBehind(members)
    BY DEF TwiceInv, AllBehind
  <2>6. TwiceInv'
    BY <1>1, <1>2, <2>2, <2>4, <2>5 DEF TwiceInv, InHand
  <2> QED BY <2>3, <2>6
<1>4. ASSUME Cardinality(members) <= MaxMembers PROVE PagesInv' /\ TwiceInv'
  <2>1. /\ tool'.limit = tool.limit /\ tool'.pc = "fetched" /\ tool'.page = tool.page
        /\ tool'.data = members /\ tool'.read = tool.read /\ tool'.twice = tool.twice
        /\ tool'.unread = (IF tool.page = 1 THEN members ELSE tool.unread)
    BY <1>4, FetchFields
  <2>2. Limit' = Limit /\ Behind' = Behind /\ \A S : AllBehind(S)' <=> AllBehind(S)
    BY <2>1, SameTraversal
  <2>3. CASE tool.page = 1
    <3>1. Limit # None => Behind = 0
      BY <2>3, LimitTyped DEF Behind
    <3>2. AllAhead(members)'
      <4>1. \A u \in members : Rank(u, members) > 0
        BY <1>1, RankBounds
      <4> QED BY <1>1, <2>1, <2>2, <2>3, <3>1, <4>1 DEF AllAhead
    <3>3. PagesInv'
      BY <1>1, <2>1, <3>2 DEF PagesInv, InHand, At
    <3>4. AllBehind(members)
      BY <2>3 DEF TwiceInv, AllBehind
    <3>5. TwiceInv'
      BY <1>1, <2>1, <2>2, <2>3, <3>4 DEF TwiceInv, InHand
    <3> QED BY <3>3, <3>5
  <2>4. CASE tool.page # 1
    <3>1. \A S : AllAhead(S)' <=> AllAhead(S)
      BY <2>1, <2>4, SameTraversal
    <3>2. PagesInv'
      BY <1>1, <1>2, <2>1, <2>4, <3>1 DEF PagesInv, InHand, At
    <3>3. TwiceInv'
      BY <1>1, <1>2, <2>1, <2>2, <2>4 DEF TwiceInv, InHand
    <3> QED BY <3>2, <3>3
  <2> QED BY <2>3, <2>4
<1> QED BY <1>1, <1>3, <1>4

\* A page cut: who is left is ahead of the next one, and nobody on it was listed.
LEMMA ServeKeeps ==
    ASSUME TypeOK, PagesInv, TwiceInv, Serve
    PROVE  PagesInv' /\ TwiceInv'
<1> DEFINE shown == Page(tool.data, tool.page, Limit)
           more == HasNext(tool.data, tool.page, Limit)
<1>1. /\ tool'.limit = tool.limit /\ tool'.data = {}
      /\ tool'.pc = (IF more THEN "page" ELSE "all")
      /\ tool'.page = (IF more THEN tool.page + 1 ELSE tool.page)
      /\ tool'.unread = tool.unread \ shown
      /\ tool'.read = (IF more THEN tool.read \cup shown ELSE {})
      /\ tool'.twice = (tool.twice \/ tool.read \cap shown # {})
      /\ shown \in SUBSET tool.data /\ more \in BOOLEAN
  BY ServeFields
<1>2. /\ UNCHANGED <<members, joined, left>> /\ InHand /\ Limit' = Limit
      /\ members \in SUBSET Users /\ tool.data \in SUBSET Users
      /\ Cardinality(tool.data) \in Nat
  BY <1>1, FiniteUsers DEF Serve, hostvars, InHand, At, Limit, TypeOK, Tool
<1>3. /\ tool.page \in Nat \ {0} /\ (Limit = None \/ Limit \in Nat \ {0})
      /\ Limit # None => /\ Behind \in Nat /\ tool.page * Limit \in Nat
                         /\ Behind <= tool.page * Limit
  BY LimitTyped, PageEnds DEF Behind
<1>4. more => Limit # None /\ Behind' = tool.page * Limit /\ tool'.page # 1
  BY <1>1, <1>2, <1>3, PageEnds DEF Behind, HasNext
<1>5. \A u \in tool.data : Rank(u, tool.data) \in Nat /\ Rank(u, tool.data) <= Cardinality(tool.data)
  BY <1>2, RankBounds
<1>6. \A u \in tool.data :
        u \in shown <=> (Limit = None \/ (Behind < Rank(u, tool.data)
                                        /\ Rank(u, tool.data) <= tool.page * Limit))
  BY DEF Page, Behind
<1> HIDE DEF shown, more
<1>7. PagesInv'
  <2> SUFFICES ASSUME ~left PROVE AllAhead(members)' /\ (~more => tool'.unread = {})
    BY <1>1, <1>2 DEF PagesInv, InHand, At
  <2>1. tool.unread \subseteq tool.data /\ tool.data \subseteq members
    BY <1>2 DEF PagesInv, AllAhead
  <2>2. ASSUME NEW u \in tool'.unread
        PROVE  Limit # None /\ Rank(u, tool.data) > tool.page * Limit /\ u \in tool.data
    <3>1. Limit # None => Rank(u, tool.data) > Behind
      BY <1>1, <1>2, <2>2 DEF PagesInv, AllAhead
    <3> QED BY <1>1, <1>3, <1>5, <1>6, <2>1, <2>2, <3>1
  <2>3. ~more => tool'.unread = {}
    <3>1. ~more /\ Limit # None => tool.page * Limit >= Cardinality(tool.data)
      BY <1>2, <1>3 DEF more, HasNext
    <3> QED BY <1>2, <1>3, <1>5, <2>2, <3>1
  <2>4. ASSUME more, NEW u \in tool'.unread PROVE Rank(u, members) > Behind'
    <3>1. Rank(u, tool.data) <= Rank(u, members) /\ Rank(u, members) \in Nat
      BY <1>2, <2>1, RankGrows
    <3> QED BY <1>3, <1>4, <1>5, <2>2, <2>4, <3>1
  <2>5. AllAhead(members)'
    BY <1>1, <1>2, <2>1, <2>3, <2>4 DEF AllAhead
  <2> QED BY <2>3, <2>5
<1>8. ~joined => ~tool'.twice
  <2> SUFFICES ASSUME ~joined PROVE tool.read \cap shown = {} /\ ~tool.twice
    BY <1>1
  <2>1. ASSUME NEW u \in tool.read \cap shown PROVE FALSE
    <3>1. u \in tool.read \cap tool.data
      BY <1>1, <2>1
    <3>2. Limit # None /\ Rank(u, tool.data) <= Behind
      BY <1>2, <3>1 DEF TwiceInv, AllBehind
    <3> QED BY <1>3, <1>5, <1>6, <2>1, <3>1, <3>2
  <2> QED BY <2>1 DEF TwiceInv
<1>9. ~joined => AllBehind(members)'
  <2> SUFFICES ASSUME ~joined, NEW u \in tool'.read \cap members
               PROVE  Limit # None /\ Rank(u, members) <= Behind'
    BY <1>2 DEF AllBehind
  <2>1. more /\ u \in tool.read \cup shown
    BY <1>1
  <2>2. u \in tool.data /\ members \subseteq tool.data
    BY <1>2 DEF TwiceInv
  <2>3. Rank(u, members) <= Rank(u, tool.data) /\ Rank(u, members) \in Nat
    BY <1>2, <2>2, RankGrows
  <2>4. Rank(u, tool.data) <= tool.page * Limit
    <3>1. u \in tool.read => Rank(u, tool.data) <= Behind
      BY <1>2, <2>2 DEF TwiceInv, AllBehind
    <3> QED BY <1>3, <1>4, <1>5, <1>6, <2>1, <2>2, <3>1
  <2> QED BY <1>3, <1>4, <1>5, <2>1, <2>2, <2>3, <2>4
<1>10. TwiceInv'
  <2>1. tool'.page = 1 => tool'.read = {} /\ ~tool'.twice
    BY <1>1, <1>4 DEF TwiceInv
  <2>2. Limit = None => tool'.read = {}
    BY <1>1, <1>4
  <2>3. ~InHand'
    BY <1>1 DEF InHand
  <2> QED BY <1>2, <1>8, <1>9, <2>1, <2>2, <2>3 DEF TwiceInv
<1> QED BY <1>7, <1>10

LEMMA PagesStep ==
    ASSUME TypeOK, PagesInv, TwiceInv, [Next]_vars
    PROVE  PagesInv' /\ TwiceInv'
<1>1. CASE Fetch
  BY <1>1, FetchKeeps
<1>2. CASE Serve
  BY <1>2, ServeKeeps
<1>3. ASSUME Attach \/ ReadRow \/ Follow PROVE PagesInv' /\ TwiceInv'
  <2>1. /\ UNCHANGED <<members, joined, left>> /\ tool'.limit = tool.limit
        /\ tool'.page = tool.page /\ tool'.read = tool.read /\ tool'.twice = tool.twice
        /\ tool'.unread = tool.unread /\ ~At("refused") /\ tool'.pc \notin {"all", "refused"}
        /\ InHand' => InHand /\ tool'.data = tool.data
    <3>1. tool \in Tool
      BY DEF TypeOK
    <3>2. CASE Attach
      <4>1. \E pc \in {"attached", "failed"} : tool' = [tool EXCEPT !.pc = pc]
        BY <3>2 DEF Attach, Go
      <4> QED BY <3>1, <3>2, <4>1 DEF Attach, hostvars, Tool, InHand, At
    <3>4. CASE ReadRow
      BY <3>1, <3>4 DEF ReadRow, hostvars, Tool, InHand, At
    <3>3. CASE Follow
      BY <3>1, <3>3 DEF Follow, hostvars, Tool, InHand, At
    <3> QED BY <1>3, <3>2, <3>3, <3>4
  <2>2. /\ Limit' = Limit /\ \A S : AllAhead(S)' <=> AllAhead(S)
        /\ \A S : AllBehind(S)' <=> AllBehind(S)
    BY <2>1, SameTraversal
  <2>3. PagesInv'
    BY <2>1, <2>2 DEF PagesInv, At
  <2>4. TwiceInv'
    BY <2>1, <2>2 DEF TwiceInv
  <2> QED BY <2>3, <2>4
<1>4. ASSUME NEW u \in Users, Join(u) PROVE PagesInv' /\ TwiceInv'
  <2>1. /\ tool' = tool /\ left' = left /\ joined' = TRUE /\ members' = members \cup {u}
        /\ members \in SUBSET Users /\ members' \in SUBSET Users
    BY <1>4 DEF Join, TypeOK
  <2>2. /\ Limit' = Limit /\ \A S : AllAhead(S)' <=> AllAhead(S)
    BY <2>1, SameTraversal
  <2>3. AllAhead(members) => AllAhead(members')
    BY <2>1, AheadGrows
  <2>4. PagesInv'
    BY <2>1, <2>2, <2>3 DEF PagesInv, InHand, At
  <2>5. TwiceInv'
    BY <2>1, <2>2 DEF TwiceInv
  <2> QED BY <2>4, <2>5
<1>5. ASSUME NEW u \in Users, Leave(u) \/ DeleteAccount(u) PROVE PagesInv' /\ TwiceInv'
  <2>1. /\ tool' = tool /\ left' = TRUE /\ joined' = joined /\ members' \subseteq members
        /\ members \in SUBSET Users /\ members' \in SUBSET Users
    BY <1>5 DEF Leave, DeleteAccount, TypeOK
  <2>2. /\ Limit' = Limit /\ \A S : AllBehind(S)' <=> AllBehind(S)
    BY <2>1, SameTraversal
  <2>3. AllBehind(members) => AllBehind(members')
    BY <2>1, BehindShrinks
  <2>4. PagesInv'
    BY <2>1 DEF PagesInv
  <2>5. TwiceInv'
    BY <2>1, <2>2, <2>3 DEF TwiceInv, InHand
  <2> QED BY <2>4, <2>5
<1>6. ASSUME UNCHANGED <<hostvars, tool>> PROVE PagesInv' /\ TwiceInv'
  <2>1. UNCHANGED <<members, joined, left, tool>>
    BY <1>6 DEF hostvars
  <2>2. /\ Limit' = Limit /\ \A S : AllAhead(S)' <=> AllAhead(S)
        /\ \A S : AllBehind(S)' <=> AllBehind(S)
    BY <2>1, SameTraversal
  <2> QED BY <2>1, <2>2 DEF PagesInv, TwiceInv, InHand, At
<1>7. ASSUME NEW v \in Views, LookUp(v) \/ Enable(v) PROVE PagesInv' /\ TwiceInv'
  BY <1>6, <1>7 DEF LookUp, Enable
<1>8. ASSUME NEW b \in BOOLEAN, AdminSaves(b) PROVE PagesInv' /\ TwiceInv'
  BY <1>6, <1>8 DEF AdminSaves
<1>9. CASE UNCHANGED vars
  BY <1>6, <1>9 DEF vars
<1>10. CASE Expire
  BY <1>6, <1>10 DEF Expire
<1> QED BY <1>1, <1>2, <1>3, <1>4, <1>5, <1>7, <1>8, <1>9, <1>10 DEF Next

LEMMA PagesInit == Init => PagesInv /\ TwiceInv
<1> SUFFICES ASSUME Init PROVE PagesInv /\ TwiceInv
  OBVIOUS
<1>1. tool.pc = "ask" /\ tool.unread = {} /\ tool.read = {} /\ ~tool.twice
  BY DEF Init
<1> QED BY <1>1 DEF PagesInv, TwiceInv, AllAhead, AllBehind, InHand, At

LEMMA PagesAlways == Spec => [](PagesInv /\ TwiceInv)
BY TypeAlways, PagesInit, PagesStep, PTL DEF Spec

\* Whatever the limit, and whoever joined meanwhile, the pages up to the last one
\* hold every member there was at the beginning, if nobody left.
THEOREM PagesHoldEveryone == Spec => []PagesAreWhole
<1>1. PagesInv => PagesAreWhole
  BY DEF PagesInv, PagesAreWhole
<1> QED BY <1>1, PagesAlways, PTL

\* Whoever left meanwhile, nobody is on two pages, if nobody joined.
THEOREM NobodyIsListedTwice == Spec => []NobodyTwice
<1>1. TwiceInv => NobodyTwice
  BY DEF TwiceInv, NobodyTwice
<1> QED BY <1>1, PagesAlways, PTL

---------------------------------------------------------------------------
(* Roles *)

\* LTI_1P3_CONTEXT_ROLE_MAP, read by role
LEMMA RoleMap ==
    /\ ContextRoles("instructor") = {"Administrator", "Instructor"}
    /\ ContextRoles("staff") = {"Instructor"} /\ ContextRoles("limited_staff") = {"Instructor"}
    /\ ContextRoles("student") = {"Learner"} /\ ContextRoles("beta_testers") = {"Learner"}
    /\ ContextRoles("Group Moderator") = {"Learner", "TeachingAssistant"}
    /\ ContextRoles("Community TA") = {"Learner", "TeachingAssistant"}
BY DEF ContextRoles

\* The context roles of LTI_1P3_ROLE_MAP, for the roles a launch may carry
Sent(role) == LaunchRoles(role) \cap ContextVocabulary
LEMMA LaunchMap ==
    /\ Sent("instructor") = {"Administrator", "Instructor"}
    /\ Sent("staff") = {"Instructor"} /\ Sent("student") = {"Learner"}
    /\ Sent("Group Moderator") = {"Learner", "TeachingAssistant"}
    /\ Sent("Community TA") = {"Learner", "TeachingAssistant"}
BY DEF Sent, LaunchRoles, ContextVocabulary, LTI_1P3_ROLE_BASE

\* A course role makes nobody a teaching assistant.
LEMMA CourseRolesAssistNobody ==
    ASSUME NEW roles \in SUBSET CourseRoles
    PROVE  "TeachingAssistant" \notin UNION {ContextRoles(r) : r \in roles}
<1> SUFFICES ASSUME NEW r \in CourseRoles
             PROVE  "TeachingAssistant" \notin ContextRoles(r)
  OBVIOUS
<1>1. CASE r = "instructor"
  BY <1>1, RoleMap
<1>2. CASE r \in {"staff", "limited_staff"}
  <2>1. ContextRoles(r) = {"Instructor"}
    BY <1>2, RoleMap
  <2> QED BY <2>1
<1>3. CASE r \in {"student", "beta_testers"}
  <2>1. ContextRoles(r) = {"Learner"}
    BY <1>3, RoleMap
  <2> QED BY <2>1
<1> QED BY <1>1, <1>2, <1>3 DEF CourseRoles

\* The list shows what each of the merged roles maps to.
LEMMA Listed ==
    ASSUME NEW S, NEW r \in S
    PROVE  ContextRoles(r) \subseteq UNION {ContextRoles(s) : s \in S}
OBVIOUS

Privileged == {"staff", "instructor", "limited_staff"}

\* The role of a launch and the roles of the list agree, case by case.
LEMMA PrivilegedAgree ==
    ASSUME NEW roles \in SUBSET CourseRoles, NEW forum, roles \cap Privileged # {}
    PROVE  RolesAgree(roles, forum)
<1> DEFINE launch == Sent(LaunchRole(roles, forum, FALSE))
           listed == ListedRoles(roles, forum)
<1>1. listed = UNION {ContextRoles(r) : r \in roles}
  BY DEF ListedRoles, Merged, Privileged
<1>2. CASE "instructor" \in roles
  <2>1. LaunchRole(roles, forum, FALSE) = "instructor"
    BY <1>2 DEF LaunchRole, UserRole, Privileged
  <2>2. launch = {"Administrator", "Instructor"} /\ launch \subseteq listed
    BY <1>1, <1>2, <2>1, RoleMap, LaunchMap, Listed
  <2> QED BY <1>1, <2>2, CourseRolesAssistNobody DEF RolesAgree, Sent
<1>3. CASE "instructor" \notin roles
  <2>1. PICK r \in {"staff", "limited_staff"} : r \in roles
    BY <1>3 DEF Privileged
  <2>2. LaunchRole(roles, forum, FALSE) = "staff"
    BY <1>3, <2>1 DEF LaunchRole, UserRole, Privileged
  <2>3. ContextRoles(r) = {"Instructor"} /\ ContextRoles(r) \subseteq listed
    BY <1>1, <2>1, RoleMap, Listed
  <2>4. launch = {"Instructor"} /\ launch \subseteq listed
    BY <2>2, <2>3, LaunchMap
  <2> QED BY <1>1, <2>4, CourseRolesAssistNobody DEF RolesAgree, Sent
<1> QED BY <1>2, <1>3

LEMMA OthersAgreeToo ==
    ASSUME NEW roles \in SUBSET CourseRoles, NEW forum, roles \cap Privileged = {}
    PROVE  RolesAgree(roles, forum)
<1> DEFINE s == SupportedForumRole(forum)
           launch == Sent(LaunchRole(roles, forum, FALSE))
           listed == ListedRoles(roles, forum)
<1>1. UserRole(roles) = "student" /\ "student" \notin Privileged
  BY DEF UserRole, Privileged
<1>2. CASE s = None
  <2>1. LaunchRole(roles, forum, FALSE) = "student" /\ Merged(roles, forum) = roles
    BY <1>1, <1>2 DEF LaunchRole, Merged, Privileged
  <2>2. launch = {"Learner"} /\ listed = UNION {ContextRoles(r) : r \in roles}
    BY <2>1, LaunchMap DEF ListedRoles
  <2>3. ASSUME NEW r \in roles PROVE launch \subseteq listed
    <3>1. r \in {"student", "beta_testers"}
      BY DEF CourseRoles, Privileged
    <3> QED BY <2>2, <3>1, RoleMap, Listed
  <2> QED BY <2>2, <2>3, CourseRolesAssistNobody DEF RolesAgree, Sent
<1>3. CASE s # None
  <2>1. s \in {"Group Moderator", "Community TA"}
    BY <1>3 DEF SupportedForumRole
  <2>2. LaunchRole(roles, forum, FALSE) = s /\ s \in Merged(roles, forum)
    BY <1>1, <1>3 DEF LaunchRole, Merged, Privileged
  <2>3. launch = {"Learner", "TeachingAssistant"}
    BY <2>1, <2>2, LaunchMap
  <2>4. launch \subseteq listed
    BY <2>1, <2>2, <2>3, RoleMap, Listed DEF ListedRoles
  <2> QED BY <2>3, <2>4 DEF RolesAgree, Sent
<1> QED BY <1>2, <1>3

\* Whatever course and forum roles a member has, short of global staff, every page
\* of the list shows a teaching assistant exactly where a launch does, and shows
\* every context role a launch sends (merge_course_forum_roles, compat.py:405).
THEOREM LaunchAndListAgree == Spec => []RolesMatchLaunch
<1>1. RolesMatchLaunch
  BY PrivilegedAgree, OthersAgreeToo DEF RolesMatchLaunch
<1> QED BY <1>1, PTL

=============================================================================
