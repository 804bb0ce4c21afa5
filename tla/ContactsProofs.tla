--------------------------- MODULE ContactsProofs ---------------------------
(***************************************************************************)
(* Proofs about Contacts, for any people, groups and bounds: its type      *)
(* invariant, that the copies of the contact list agree, that a login      *)
(* shows the server's list, and that a buddy is shown as authorized when   *)
(* the server said so last.                                                *)
(***************************************************************************)
EXTENDS Contacts, FiniteSetTheorems, TLAPS

(* The answers that put somebody into the list.                            *)
Adds(m) == m.type = "answer" /\ m.to.type \in {"add", "accept"} /\ m.ok

ServerInv ==
  /\ IsTable(srv, Users, Contact)
  /\ srv_groups \in SUBSET (Groups \ {Default})
  /\ changed \in BOOLEAN /\ told \in [Users -> BOOLEAN]
  /\ Consistent(srv, srv_groups)

(* The requests whose answers the process looks at.                        *)
Answerable == {"add", "accept", "get_info"}

(* Somebody who is being added makes the server's list another one.        *)
WireInv ==
  /\ inbox \in Seq(Message) /\ asked \in SUBSET Request
  /\ \A i \in DOMAIN inbox :
       inbox[i].type = "answer" => inbox[i].to.type \in Answerable
  /\ \A i \in DOMAIN inbox : Adds(inbox[i]) => changed
  /\ DefaultProtected

(* Nothing is left of an account that is closed but handles and the tree.  *)
Idle ==
  /\ inbox = <<>> /\ asked = {}
  /\ Known = {} /\ Shown = {} /\ DOMAIN group_list = {}

SessionInv ==
  /\ tp \in BOOLEAN /\ connected \in BOOLEAN /\ crashed \in BOOLEAN
  /\ logins \in 0 .. MaxLogins /\ calls \in 0 .. MaxCalls
  /\ pushes \in 0 .. MaxPushes
  /\ connected => tp /\ ~crashed
  /\ ~connected => Idle

TablesType ==
  /\ ac_buddies \in [Users -> Seq(FetionBuddy)]
  /\ IsTable(group_list, Groups, HybridGroup)
  /\ IsTable(buddy_list, Users, HybridBuddy)
  /\ contacts \in SUBSET Users
  /\ tree \in [groups : SUBSET Groups, buddies : SUBSET BuddyNode]

TablesInv ==
  /\ TablesType
  /\ KnownShown /\ CountsMatch /\ StatesAgree /\ OnlineNamed
  /\ ContactsResolve /\ TreeMatches
  /\ \A g \in DOMAIN group_list : group_list[g].renamable => g # Default

(* The tree a login starts from is that of the list on the server, unless  *)
(* the list has changed.                                                   *)
TreeInv ==
  /\ \A n \in tree.buddies : n.group \in tree.groups
  /\ ~changed /\ ~crashed =>
       /\ {n.user : n \in tree.buddies} = DOMAIN srv
       /\ \A n \in tree.buddies : n.group = srv[n.user].group
       /\ Default \in tree.groups => \E u \in DOMAIN srv : srv[u].group = Default

IInv == ServerInv /\ WireInv /\ SessionInv /\ TablesInv /\ TreeInv
-----------------------------------------------------------------------------
(* Tables.                                                                 *)

LEMMA TableSet ==
  ASSUME NEW t, NEW S, NEW T, IsTable(t, S, T), NEW x \in DOMAIN t,
         NEW v \in T, NEW r, r = [t EXCEPT ![x] = v]
  PROVE  /\ IsTable(r, S, T) /\ DOMAIN r = DOMAIN t
         /\ r[x] = v /\ \A y \in DOMAIN t : y # x => r[y] = t[y]
BY DEF IsTable

LEMMA TableAdd ==
  ASSUME NEW t, NEW S, NEW T, IsTable(t, S, T), NEW x \in S, NEW v \in T,
         NEW r, r = [y \in DOMAIN t \cup {x} |-> IF y = x THEN v ELSE t[y]]
  PROVE  /\ IsTable(r, S, T) /\ DOMAIN r = DOMAIN t \cup {x}
         /\ r[x] = v /\ \A y \in DOMAIN t : y # x => r[y] = t[y]
BY DEF IsTable

LEMMA CountType ==
  ASSUME NEW D, D \subseteq Users
  PROVE  IsFiniteSet(D) /\ Cardinality(D) \in Nat
BY UsersAssumption, FS_Subset, FS_CardinalityType

LEMMA CountAdd ==
  ASSUME NEW D, NEW x \in Users, D \subseteq Users, x \notin D
  PROVE  Cardinality(D \cup {x}) = Cardinality(D) + 1
BY CountType, FS_AddElement

LEMMA CountRemove ==
  ASSUME NEW D, NEW x \in D, D \subseteq Users
  PROVE  Cardinality(D \ {x}) = Cardinality(D) - 1
BY CountType, FS_RemoveElement

Online(g) == {u \in InGroup(g) : buddy_list[u].state # "offline"}

LEMMA CountsAre ==
  CountsMatch <=>
    \A g \in DOMAIN group_list :
      /\ group_list[g].buddy_count = Cardinality(InGroup(g))
      /\ group_list[g].online_count = Cardinality(Online(g))
BY DEF CountsMatch, Online

LEMMA OnlineStepIs ==
  ASSUME NEW old \in States, NEW new \in States
  PROVE  OnlineStep(old, new) =
           IF old = "offline" /\ new # "offline" THEN 1
           ELSE IF old # "offline" /\ new = "offline" THEN -1 ELSE 0
BY DEF OnlineStep

(* A new state of u counts in its group and in no other.                   *)
LEMMA CountsOfState ==
  ASSUME CountsMatch, IsTable(group_list, Groups, HybridGroup),
         NEW u \in Shown, NEW s \in States, Shown \subseteq Users,
         buddy_list[u].state \in States,
         buddy_list[u].group \in DOMAIN group_list,
         Shown' = Shown, buddy_list'[u].state = s,
         buddy_list'[u].group = buddy_list[u].group,
         \A v \in Shown : v # u => buddy_list'[v] = buddy_list[v],
         group_list' = [group_list EXCEPT
                         ![buddy_list[u].group].online_count =
                           @ + OnlineStep(buddy_list[u].state, s)]
  PROVE  /\ CountsMatch' /\ IsTable(group_list', Groups, HybridGroup)
         /\ DOMAIN group_list' = DOMAIN group_list
         /\ \A g \in DOMAIN group_list :
              group_list'[g].renamable = group_list[g].renamable
<1> DEFINE G == buddy_list[u].group
           entry == group_list[G]
           step == OnlineStep(buddy_list[u].state, s)
           new == [entry EXCEPT !.online_count = @ + step]
<1>1. /\ G \in Groups /\ entry \in HybridGroup
      /\ entry.buddy_count \in Nat /\ entry.online_count \in Nat
  BY DEF IsTable, HybridGroup
<1>2. \A g \in Groups : InGroup(g)' = InGroup(g) /\ InGroup(g) \subseteq Users
  BY DEF InGroup
<1>3. \A g \in Groups : g # G => Online(g)' = Online(g)
  BY <1>2 DEF Online, InGroup
<1>4. u \in InGroup(G) /\ InGroup(G) \subseteq Users
  BY DEF InGroup
<1>5. Online(G)' = IF s = "offline" THEN Online(G) \ {u} ELSE Online(G) \cup {u}
  BY <1>1, <1>2, <1>4 DEF Online, InGroup
<1>6. u \in Online(G) <=> buddy_list[u].state # "offline"
  BY <1>4 DEF Online
<1>7. entry.online_count = Cardinality(Online(G))
      /\ entry.buddy_count = Cardinality(InGroup(G))
  BY CountsAre
<1>8. Online(G) \subseteq Users /\ u \in Users
  BY <1>4 DEF Online
<1>9. Cardinality(Online(G)') = entry.online_count + step
      /\ Cardinality(Online(G)') \in Nat
  <2>1. CASE s = "offline" /\ buddy_list[u].state # "offline"
    <3>1. Cardinality(Online(G) \ {u}) = Cardinality(Online(G)) - 1
      BY <1>6, <1>8, <2>1, CountRemove
    <3> QED
      BY <1>1, <1>5, <1>7, <1>8, <2>1, <3>1, CountType, OnlineStepIs
  <2>2. CASE s # "offline" /\ buddy_list[u].state = "offline"
    <3>1. Cardinality(Online(G) \cup {u}) = Cardinality(Online(G)) + 1
      BY <1>6, <1>8, <2>2, CountAdd
    <3> QED
      BY <1>1, <1>5, <1>7, <1>8, <2>2, <3>1, OnlineStepIs
  <2>3. CASE s = "offline" <=> buddy_list[u].state = "offline"
    <3>1. Online(G)' = Online(G)
      BY <1>5, <1>6, <2>3
    <3> QED
      BY <1>1, <1>7, <2>3, <3>1, OnlineStepIs
  <2> QED
    BY <2>1, <2>2, <2>3
<1>10. /\ new \in HybridGroup /\ new.buddy_count = entry.buddy_count
       /\ new.online_count = entry.online_count + step
       /\ new.renamable = entry.renamable
  <2>1. entry.online_count + step \in Nat
    BY <1>9
  <2> QED
    BY <1>1, <2>1 DEF HybridGroup
<1>11. group_list' = [group_list EXCEPT ![G] = new]
  BY <1>1 DEF IsTable
<1> HIDE DEF new
<1>12. /\ IsTable(group_list', Groups, HybridGroup)
       /\ DOMAIN group_list' = DOMAIN group_list /\ group_list'[G] = new
       /\ \A g \in DOMAIN group_list : g # G => group_list'[g] = group_list[g]
  <2>1. G \in DOMAIN group_list /\ new \in HybridGroup
    BY <1>10
  <2> HIDE DEF G
  <2> QED
    BY <1>11, <2>1 DEF IsTable
<1>13. \A g \in DOMAIN group_list' :
         /\ group_list'[g].buddy_count = Cardinality(InGroup(g)')
         /\ group_list'[g].online_count = Cardinality(Online(g)')
  <2> TAKE g \in DOMAIN group_list'
  <2>1. g \in Groups /\ g \in DOMAIN group_list
    BY <1>12 DEF IsTable
  <2>2. CASE g = G
    BY <1>2, <1>7, <1>9, <1>10, <1>12, <2>1, <2>2
  <2>3. CASE g # G
    BY <1>2, <1>3, <1>12, <2>1, <2>3, CountsAre
  <2> QED
    BY <2>2, <2>3
<1>14. CountsMatch'
  BY <1>13 DEF CountsMatch, Online
<1> QED
  BY <1>10, <1>12, <1>14

(* What hybrid_blist_buddy_to_cache does to the tree of a connected        *)
(* account.                                                                *)
LEMMA TreeFollows ==
  ASSUME connected, TreeMatches, NEW u \in Users, Shown \subseteq Users,
         tree \in [groups : SUBSET Groups, buddies : SUBSET BuddyNode],
         Shown' = Shown \cup {u}, buddy_list'[u] \in HybridBuddy,
         u \in Shown => buddy_list'[u].group = buddy_list[u].group,
         \A v \in Shown : v # u => buddy_list'[v] = buddy_list[v],
         tree' = Cached(tree, u, buddy_list'[u]),
         DOMAIN group_list' = DOMAIN group_list
  PROVE  /\ TreeMatches'
         /\ tree' \in [groups : SUBSET Groups, buddies : SUBSET BuddyNode]
<1> DEFINE Node(v, b) == [user |-> v, group |-> b.group,
                          authorized |-> b.authorized, name |-> b.name]
           B == buddy_list'[u]
           kept == {n \in tree.buddies : ~(n.user = u /\ n.group = B.group)}
<1>1. tree'.groups = tree.groups /\ tree'.buddies = kept \cup {Node(u, B)}
  BY DEF Cached
<1>2. tree' = [groups |-> tree.groups, buddies |-> kept \cup {Node(u, B)}]
  BY DEF Cached
<1>3. Node(u, B) \in BuddyNode
  BY DEF HybridBuddy, BuddyNode
<1>4. tree.groups = DOMAIN group_list
      /\ tree.buddies = {Node(v, buddy_list[v]) : v \in Shown}
  BY DEF TreeMatches
<1>5. kept = {Node(v, buddy_list[v]) : v \in Shown \ {u}}
  BY <1>4
<1>6. tree'.buddies = {Node(v, buddy_list'[v]) : v \in Shown'}
  <2>1. \A v \in Shown \ {u} : Node(v, buddy_list'[v]) = Node(v, buddy_list[v])
    OBVIOUS
  <2>2. {Node(v, buddy_list'[v]) : v \in Shown'} =
          {Node(v, buddy_list'[v]) : v \in Shown \ {u}} \cup {Node(u, B)}
    OBVIOUS
  <2> QED
    BY <1>1, <1>5, <2>1, <2>2
<1> QED
  BY <1>1, <1>2, <1>3, <1>4, <1>6 DEF TreeMatches

(* What the tree of a connected account says of what is shown.             *)
NodesOf(list) ==
  {[user |-> v, group |-> list[v].group, authorized |-> list[v].authorized,
    name |-> list[v].name] : v \in DOMAIN list}

LEMMA TreeOfShown ==
  ASSUME NEW t, NEW list, NEW D, t.groups = D, t.buddies = NodesOf(list),
         \A v \in DOMAIN list : list[v].group \in D
  PROVE  /\ \A n \in t.buddies :
              /\ n.group \in t.groups
              /\ n.user \in DOMAIN list /\ n.group = list[n.user].group
         /\ \A v \in DOMAIN list : \E n \in t.buddies : n.user = v
<1> DEFINE Node(v) == [user |-> v, group |-> list[v].group,
                       authorized |-> list[v].authorized, name |-> list[v].name]
<1>1. t.buddies = {Node(v) : v \in DOMAIN list}
  BY DEF NodesOf
<1>2. \A n \in t.buddies :
        n.user \in DOMAIN list /\ n.group = list[n.user].group
  BY <1>1
<1>3. \A v \in DOMAIN list : \E n \in t.buddies : n.user = v
  <2>1. \A v \in DOMAIN list : Node(v) \in t.buddies /\ Node(v).user = v
    BY <1>1
  <2> QED
    BY <2>1
<1> HIDE DEF Node
<1> QED
  BY <1>2, <1>3

LEMMA HeadIs ==
  ASSUME TablesType, NEW u \in Known
  PROVE  /\ u \in Users /\ ac_buddies[u] \in Seq(FetionBuddy)
         /\ Find(u) = ac_buddies[u][1] /\ Find(u) \in FetionBuddy
         /\ Find(u).state \in States /\ Find(u).name \in BOOLEAN
<1>1. u \in Users /\ ac_buddies[u] \in Seq(FetionBuddy) /\ ac_buddies[u] # <<>>
  BY DEF TablesType, Known
<1>2. Find(u) = ac_buddies[u][1] /\ ac_buddies[u][1] \in FetionBuddy
  <2> DEFINE S == ac_buddies[u]
  <2>1. S \in Seq(FetionBuddy) /\ S # <<>>
    BY <1>1
  <2> HIDE DEF S
  <2>2. Len(S) >= 1 /\ Head(S) = S[1] /\ S[1] \in FetionBuddy
    BY <2>1
  <2> QED
    BY <2>2 DEF Find, S
<1> QED
  BY <1>1, <1>2 DEF FetionBuddy

(* hybrid_blist_set_buddy_state and _name, with what they mean for the     *)
(* entry in ac->buddies.                                                   *)
LEMMA StateAndNameKeeps ==
  ASSUME TablesInv, connected, NEW u \in Shown, NEW s \in States,
         NEW n \in BOOLEAN, SetStateAndName(u, s, n),
         ac_buddies' \in [Users -> Seq(FetionBuddy)], Known' = Known,
         \A v \in Known : v # u => Find(v)' = Find(v),
         Find(u)'.state = s,
         Find(u)'.name => n
  PROVE  /\ TablesInv' /\ Shown' = Shown
         /\ \A v \in Shown : buddy_list'[v].group = buddy_list[v].group
         /\ \A v \in Shown :
              buddy_list'[v].authorized = buddy_list[v].authorized
         /\ DOMAIN group_list' = DOMAIN group_list
         /\ n => buddy_list'[u].name
<1> DEFINE old == buddy_list[u]
           b == [old EXCEPT !.state = s, !.name = @ \/ n]
<1>1. /\ IsTable(buddy_list, Users, HybridBuddy)
      /\ IsTable(group_list, Groups, HybridGroup) /\ Shown \subseteq Users
      /\ tree \in [groups : SUBSET Groups, buddies : SUBSET BuddyNode]
      /\ CountsMatch /\ KnownShown /\ StatesAgree /\ OnlineNamed
      /\ ContactsResolve /\ TreeMatches
  BY DEF TablesInv, TablesType, IsTable, Shown
<1>2. /\ old \in HybridBuddy /\ old.group \in DOMAIN group_list
      /\ old.state \in States /\ old.name \in BOOLEAN
  BY <1>1 DEF IsTable, KnownShown, HybridBuddy, Shown
<1>3. /\ b \in HybridBuddy /\ b.group = old.group /\ b.state = s
      /\ b.authorized = old.authorized /\ b.name = (old.name \/ n)
  BY <1>2 DEF HybridBuddy
<1>4. /\ buddy_list' = [buddy_list EXCEPT ![u] = b]
      /\ group_list' = [group_list EXCEPT
           ![old.group].online_count = @ + OnlineStep(old.state, s)]
      /\ tree' = Cached(tree, u, b) /\ contacts' = contacts
  BY DEF SetStateAndName
<1> HIDE DEF b
<1>5. /\ IsTable(buddy_list', Users, HybridBuddy) /\ Shown' = Shown
      /\ buddy_list'[u] = b
      /\ \A v \in Shown : v # u => buddy_list'[v] = buddy_list[v]
  BY <1>1, <1>3, <1>4 DEF IsTable, Shown
<1>6. /\ CountsMatch' /\ IsTable(group_list', Groups, HybridGroup)
      /\ DOMAIN group_list' = DOMAIN group_list
      /\ \A g \in DOMAIN group_list :
           group_list'[g].renamable = group_list[g].renamable
  BY <1>1, <1>2, <1>3, <1>4, <1>5, CountsOfState
<1>7. /\ TreeMatches'
      /\ tree' \in [groups : SUBSET Groups, buddies : SUBSET BuddyNode]
  BY <1>1, <1>3, <1>4, <1>5, <1>6, TreeFollows
<1>8. TablesType'
  BY <1>4, <1>5, <1>6, <1>7 DEF TablesInv, TablesType
<1>9. KnownShown'
  BY <1>1, <1>3, <1>5, <1>6 DEF KnownShown
<1>10. StatesAgree'
  BY <1>1, <1>3, <1>5 DEF StatesAgree
<1>11. OnlineNamed'
  <2> SUFFICES ASSUME NEW v \in Known \cap Shown,
                      buddy_list'[v].state # "offline", Find(v)'.name
               PROVE  buddy_list'[v].name
    BY <1>5 DEF OnlineNamed
  <2>1. CASE v = u
    BY <1>3, <1>5, <2>1
  <2>2. CASE v # u
    BY <1>1, <1>5, <2>2 DEF OnlineNamed
  <2> QED
    BY <2>1, <2>2
<1>12. ContactsResolve'
  BY <1>1, <1>4, <1>5 DEF ContactsResolve
<1>13. \A g \in DOMAIN group_list' : group_list'[g].renamable => g # Default
  BY <1>6 DEF TablesInv
<1>14. TablesInv'
  BY <1>6, <1>7, <1>8, <1>9, <1>10, <1>11, <1>12, <1>13 DEF TablesInv
<1>15. n => buddy_list'[u].name
  BY <1>3, <1>5
<1> QED
  BY <1>3, <1>5, <1>6, <1>14, <1>15

(* The type of ac->buddies with a new entry, and whom it finds.            *)
LEMMA EntryAdded ==
  ASSUME TablesType, NEW u \in Users, NEW e \in FetionBuddy,
         ac_buddies' = [ac_buddies EXCEPT ![u] = WithEntry(@, e)]
  PROVE  /\ ac_buddies' \in [Users -> Seq(FetionBuddy)]
         /\ Known' = Known \cup {u}
         /\ \A v \in Known : Find(v)' = Find(v)
         /\ u \notin Known => Find(u)' = e
<1>1. /\ ac_buddies \in [Users -> Seq(FetionBuddy)]
      /\ ac_buddies[u] \in Seq(FetionBuddy)
  BY DEF TablesType
<1>2. PICK S \in Seq(FetionBuddy) : S = ac_buddies[u]
  BY <1>1
<1>3. /\ Append(S, e) \in Seq(FetionBuddy) /\ Append(S, e) # <<>>
      /\ S # <<>> => Head(Append(S, e)) = Head(S)
      /\ S = <<>> => Head(Append(S, e)) = e
  <2>1. /\ Append(S, e) \in Seq(FetionBuddy) /\ Len(Append(S, e)) = Len(S) + 1
        /\ Append(S, e)[Len(S) + 1] = e
        /\ S # <<>> => Len(S) >= 1 /\ Append(S, e)[1] = S[1]
        /\ S = <<>> => Len(S) = 0
    OBVIOUS
  <2>2. /\ Append(S, e) # <<>> /\ Head(Append(S, e)) = Append(S, e)[1]
        /\ S # <<>> => Head(S) = S[1]
    BY <2>1
  <2> QED
    BY <2>1, <2>2
<1>4. /\ ac_buddies'[u] = Append(S, e)
      /\ \A v \in Users : v # u => ac_buddies'[v] = ac_buddies[v]
      /\ ac_buddies' \in [Users -> Seq(FetionBuddy)]
  BY <1>1, <1>2, <1>3 DEF WithEntry
<1> QED
  BY <1>2, <1>3, <1>4 DEF Known, Find

LEMMA SetStatusKeeps ==
  ASSUME TablesInv, connected, NEW u \in Shown, NEW a \in BOOLEAN,
         SetStatus(u, a),
         ac_buddies' \in [Users -> Seq(FetionBuddy)], Known' = Known,
         \A v \in Known : Find(v)' = Find(v)
  PROVE  /\ TablesInv' /\ Shown' = Shown
         /\ \A v \in Shown : buddy_list'[v].group = buddy_list[v].group
         /\ DOMAIN group_list' = DOMAIN group_list
         /\ buddy_list'[u].authorized = a
         /\ \A v \in Shown : v # u => buddy_list'[v] = buddy_list[v]
<1> DEFINE old == buddy_list[u]
           b == [old EXCEPT !.authorized = a]
<1>1. /\ IsTable(buddy_list, Users, HybridBuddy)
      /\ IsTable(group_list, Groups, HybridGroup) /\ Shown \subseteq Users
      /\ tree \in [groups : SUBSET Groups, buddies : SUBSET BuddyNode]
      /\ CountsMatch /\ KnownShown /\ StatesAgree /\ OnlineNamed
      /\ ContactsResolve /\ TreeMatches
  BY DEF TablesInv, TablesType, IsTable, Shown
<1>2. old \in HybridBuddy
  BY <1>1 DEF IsTable, Shown
<1>3. /\ b \in HybridBuddy /\ b.group = old.group /\ b.state = old.state
      /\ b.authorized = a /\ b.name = old.name
  BY <1>2 DEF HybridBuddy
<1>4. /\ buddy_list' = [buddy_list EXCEPT ![u] = b]
      /\ group_list' = group_list /\ contacts' = contacts
      /\ tree' = Cached(tree, u, buddy_list'[u])
  BY DEF SetStatus
<1> HIDE DEF b
<1>5. /\ IsTable(buddy_list', Users, HybridBuddy) /\ Shown' = Shown
      /\ buddy_list'[u] = b
      /\ \A v \in Shown : v # u => buddy_list'[v] = buddy_list[v]
  BY <1>1, <1>3, <1>4 DEF IsTable, Shown
<1>6. \A v \in Shown : /\ buddy_list'[v].group = buddy_list[v].group
                       /\ buddy_list'[v].state = buddy_list[v].state
                       /\ buddy_list'[v].name = buddy_list[v].name
  BY <1>3, <1>5
<1>7. CountsMatch'
  <2>1. \A g \in DOMAIN group_list :
          InGroup(g)' = InGroup(g) /\ Online(g)' = Online(g)
    BY <1>5, <1>6 DEF InGroup, Online
  <2> QED
    BY <1>1, <1>4, <2>1, CountsAre DEF CountsMatch, Online
<1>8. /\ TreeMatches'
      /\ tree' \in [groups : SUBSET Groups, buddies : SUBSET BuddyNode]
  BY <1>1, <1>3, <1>4, <1>5, TreeFollows
<1>9. TablesType'
  BY <1>4, <1>5, <1>8 DEF TablesInv, TablesType
<1>10. KnownShown' /\ StatesAgree' /\ OnlineNamed' /\ ContactsResolve'
  BY <1>1, <1>4, <1>5, <1>6
     DEF KnownShown, StatesAgree, OnlineNamed, ContactsResolve
<1>11. TablesInv'
  BY <1>4, <1>7, <1>8, <1>9, <1>10 DEF TablesInv
<1> QED
  BY <1>3, <1>4, <1>5, <1>6, <1>11

(* A buddy that is not there yet: one more in its group, offline.          *)
LEMMA NewBuddyKeeps ==
  ASSUME TablesInv, connected, NEW u \in Users, u \notin Shown,
         NEW g \in DOMAIN group_list, NEW a \in BOOLEAN, AddBuddy(u, g, a),
         ac_buddies' = [ac_buddies EXCEPT
           ![u] = WithEntry(@, [state |-> "offline", name |-> FALSE])]
  PROVE  /\ TablesInv' /\ Shown' = Shown \cup {u}
         /\ DOMAIN group_list' = DOMAIN group_list
         /\ buddy_list'[u].authorized = a
         /\ \A v \in Shown : v # u => buddy_list'[v] = buddy_list[v]
<1> DEFINE b == [group |-> g, state |-> "offline", authorized |-> a,
                 name |-> FALSE]
           entry == group_list[g]
           new == [entry EXCEPT !.buddy_count = @ + 1]
           e == [state |-> "offline", name |-> FALSE]
<1>1. /\ IsTable(buddy_list, Users, HybridBuddy)
      /\ IsTable(group_list, Groups, HybridGroup) /\ Shown \subseteq Users
      /\ tree \in [groups : SUBSET Groups, buddies : SUBSET BuddyNode]
      /\ CountsMatch /\ KnownShown /\ StatesAgree /\ OnlineNamed
      /\ ContactsResolve /\ TreeMatches /\ TablesType
  BY DEF TablesInv, TablesType, IsTable, Shown
<1>2. g \in Groups /\ entry \in HybridGroup
  BY <1>1 DEF IsTable
<1>3. b \in HybridBuddy /\ e \in FetionBuddy
  BY <1>2 DEF HybridBuddy, FetionBuddy, States
<1>4. /\ buddy_list' = [v \in Shown \cup {u} |->
                          IF v = u THEN b ELSE buddy_list[v]]
      /\ contacts' = contacts \cup {u} /\ tree' = Cached(tree, u, b)
      /\ group_list' = [group_list EXCEPT ![g].buddy_count = @ + 1]
  BY DEF AddBuddy
<1>5. /\ IsTable(buddy_list', Users, HybridBuddy) /\ Shown' = Shown \cup {u}
      /\ buddy_list'[u] = b
      /\ \A v \in Shown : buddy_list'[v] = buddy_list[v]
  BY <1>1, <1>3, <1>4 DEF IsTable, Shown
<1>6. /\ ac_buddies' \in [Users -> Seq(FetionBuddy)]
      /\ Known' = Known \cup {u} /\ \A v \in Known : Find(v)' = Find(v)
      /\ Find(u)' = e
  BY <1>1, <1>3, EntryAdded DEF KnownShown
<1>7. /\ new \in HybridGroup /\ new.buddy_count = entry.buddy_count + 1
      /\ new.online_count = entry.online_count
      /\ new.renamable = entry.renamable
  BY <1>2 DEF HybridGroup
<1> HIDE DEF new
<1>8. /\ IsTable(group_list', Groups, HybridGroup)
      /\ DOMAIN group_list' = DOMAIN group_list /\ group_list'[g] = new
      /\ \A h \in DOMAIN group_list : h # g => group_list'[h] = group_list[h]
  <2>1. group_list' = [group_list EXCEPT ![g] = new]
    BY <1>1, <1>4 DEF IsTable, new
  <2> QED
    BY <1>1, <1>7, <2>1 DEF IsTable
<1>9. /\ InGroup(g)' = InGroup(g) \cup {u}
      /\ \A h \in DOMAIN group_list : h # g => InGroup(h)' = InGroup(h)
      /\ \A h \in DOMAIN group_list : Online(h)' = Online(h)
  BY <1>5 DEF InGroup, Online
<1>10. Cardinality(InGroup(g)') = entry.buddy_count + 1
  <2>1. InGroup(g) \subseteq Users /\ u \notin InGroup(g)
    BY <1>1 DEF InGroup
  <2> QED
    BY <1>1, <1>9, <2>1, CountAdd, CountsAre
<1>11. CountsMatch'
  <2> SUFFICES ASSUME NEW h \in DOMAIN group_list
               PROVE  /\ group_list'[h].buddy_count = Cardinality(InGroup(h)')
                      /\ group_list'[h].online_count = Cardinality(Online(h)')
    BY <1>8 DEF CountsMatch, Online
  <2> QED
    BY <1>1, <1>7, <1>8, <1>9, <1>10, CountsAre
<1>12. /\ TreeMatches'
       /\ tree' \in [groups : SUBSET Groups, buddies : SUBSET BuddyNode]
  BY <1>1, <1>3, <1>4, <1>5, <1>8, TreeFollows
<1>13. TablesType'
  BY <1>1, <1>4, <1>5, <1>6, <1>8, <1>12 DEF TablesType
<1>14. KnownShown' /\ StatesAgree' /\ OnlineNamed'
  BY <1>1, <1>5, <1>6, <1>8 DEF KnownShown, StatesAgree, OnlineNamed
<1>15. ContactsResolve'
  BY <1>1, <1>4, <1>5 DEF ContactsResolve
<1>16. \A h \in DOMAIN group_list' : group_list'[h].renamable => h # Default
  BY <1>7, <1>8 DEF TablesInv
<1>17. TablesInv'
  BY <1>11, <1>12, <1>13, <1>14, <1>15, <1>16 DEF TablesInv
<1> QED
  BY <1>5, <1>8, <1>17

(* buddy_add_cb and handle_request_cb, for a buddy that is there or not.   *)
LEMMA AddedKeeps ==
  ASSUME TablesInv, connected, NEW u \in Users,
         NEW g \in DOMAIN group_list, NEW a \in BOOLEAN, AddBuddy(u, g, a),
         ac_buddies' = [ac_buddies EXCEPT
           ![u] = WithEntry(@, [state |-> "offline", name |-> FALSE])]
  PROVE  /\ TablesInv' /\ Shown' = Shown \cup {u}
         /\ DOMAIN group_list' = DOMAIN group_list
         /\ buddy_list'[u].authorized = a
         /\ \A v \in Shown : v # u => buddy_list'[v] = buddy_list[v]
<1>1. CASE u \in Shown
  <2>1. SetStatus(u, a)
    BY <1>1 DEF AddBuddy
  <2>2. PICK e \in FetionBuddy : e = [state |-> "offline", name |-> FALSE]
    BY DEF FetionBuddy, States
  <2>3. u \in Known /\ TablesType
    BY <1>1 DEF TablesInv, KnownShown
  <2>4. /\ ac_buddies' \in [Users -> Seq(FetionBuddy)]
        /\ Known' = Known /\ \A v \in Known : Find(v)' = Find(v)
    <3>1. ac_buddies' = [ac_buddies EXCEPT ![u] = WithEntry(@, e)]
      BY <2>2
    <3>2. Known' = Known \cup {u}
      BY <2>3, <3>1, EntryAdded
    <3> QED
      BY <2>3, <3>1, <3>2, EntryAdded
  <2>5. /\ TablesInv' /\ Shown' = Shown
        /\ DOMAIN group_list' = DOMAIN group_list
        /\ buddy_list'[u].authorized = a
        /\ \A v \in Shown : v # u => buddy_list'[v] = buddy_list[v]
    BY <1>1, <2>1, <2>4, SetStatusKeeps
  <2> QED
    BY <1>1, <2>5
<1>2. CASE u \notin Shown
  BY <1>2, NewBuddyKeeps
<1> QED
  BY <1>1, <1>2
-----------------------------------------------------------------------------
(* Messages and requests.                                                  *)

LEMMA RequestFields ==
  ASSUME NEW r \in Request
  PROVE  /\ r.type \in {"add", "accept", "get_info", "remove", "rename",
                        "move", "remove_group", "rename_group"}
         /\ r.type \in {"add", "accept", "get_info", "remove", "rename"}
              => r.user \in Users
         /\ r.type = "move" => r.user \in Users /\ r.group \in Groups
BY DEF Request, BuddyRequest, GroupRequest

LEMMA MessageFields ==
  ASSUME NEW m \in Message
  PROVE  /\ m.type \in {"presence", "sync", "application", "answer"}
         /\ m.type = "presence" =>
              /\ m.user \in Users /\ m.state \in States \cup {"none"}
              /\ m.name \in BOOLEAN
         /\ m.type = "sync" => m.user \in Users /\ m.relation \in Relations
         /\ m.type = "application" => m.user \in Users
         /\ m.type = "answer" =>
              /\ m.to \in Request /\ m.ok \in BOOLEAN
              /\ m.group \in Groups /\ m.relation \in Relations
BY DEF Message, Presence, Sync, Application, Reply

LEMMA Appended ==
  ASSUME NEW S, NEW s \in Seq(S), NEW m \in S
  PROVE  /\ Append(s, m) \in Seq(S)
         /\ \A i \in DOMAIN Append(s, m) :
              \/ Append(s, m)[i] = m
              \/ i \in DOMAIN s /\ Append(s, m)[i] = s[i]
OBVIOUS

LEMMA Tailed ==
  ASSUME NEW S, NEW s \in Seq(S), s # <<>>
  PROVE  /\ Tail(s) \in Seq(S) /\ Head(s) \in S /\ Head(s) = s[1]
         /\ 1 \in DOMAIN s
         /\ \A i \in DOMAIN Tail(s) : i + 1 \in DOMAIN s /\ Tail(s)[i] = s[i + 1]
OBVIOUS

-----------------------------------------------------------------------------
(* Closing.                                                                *)

(* Without tables, what is said of the tables holds.                       *)
LEMMA NoTables ==
  ASSUME ac_buddies' = [u \in Users |-> <<>>],
         group_list' = Empty, buddy_list' = Empty, contacts' \in SUBSET Users,
         tree' \in [groups : SUBSET Groups, buddies : SUBSET BuddyNode],
         ~connected'
  PROVE  /\ TablesInv' /\ Known' = {} /\ Shown' = {}
         /\ DOMAIN group_list' = {}
<1>1. DOMAIN group_list' = {} /\ DOMAIN buddy_list' = {}
  BY DEF Empty
<1>2. Known' = {} /\ Shown' = {}
  BY <1>1 DEF Known, Shown
<1>3. ac_buddies' \in [Users -> Seq(FetionBuddy)]
  <2>1. <<>> \in Seq(FetionBuddy)
    OBVIOUS
  <2> QED
    BY <2>1
<1>4. IsTable(group_list', Groups, HybridGroup)
      /\ IsTable(buddy_list', Users, HybridBuddy)
  BY DEF IsTable, Empty
<1>5. TablesType'
  BY <1>3, <1>4 DEF TablesType
<1>6. KnownShown' /\ CountsMatch' /\ StatesAgree' /\ OnlineNamed'
  BY <1>1, <1>2 DEF KnownShown, CountsMatch, StatesAgree, OnlineNamed
<1>7. ContactsResolve' /\ TreeMatches'
  BY DEF ContactsResolve, TreeMatches
<1> QED
  BY <1>1, <1>2, <1>5, <1>6, <1>7 DEF TablesInv

LEMMA NothingOnTheWay ==
  ASSUME inbox' = <<>>, asked' = {}
  PROVE  WireInv'
<1>1. <<>> \in Seq(Message) /\ DOMAIN <<>> = {}
  OBVIOUS
<1> QED
  BY <1>1 DEF WireInv, DefaultProtected

LEMMA CloseKeeps ==
  ASSUME IInv, Close, UNCHANGED <<serverVars, crashed, boundVars>>,
         tp' \in BOOLEAN
  PROVE  IInv'
<1>1. /\ ~connected' /\ inbox' = <<>> /\ asked' = {}
      /\ contacts' = contacts /\ tree' = tree
      /\ ac_buddies' = [u \in Users |-> <<>>]
      /\ group_list' = Empty /\ buddy_list' = Empty
  BY DEF Close
<1>2. contacts \in SUBSET Users
      /\ tree \in [groups : SUBSET Groups, buddies : SUBSET BuddyNode]
  BY DEF IInv, TablesInv, TablesType
<1>3. /\ TablesInv' /\ Known' = {} /\ Shown' = {}
      /\ DOMAIN group_list' = {}
  BY <1>1, <1>2, NoTables
<1>4. WireInv'
  BY <1>1, NothingOnTheWay
<1>5. ServerInv'
  BY DEF IInv, ServerInv, serverVars, Consistent
<1>6. SessionInv'
  BY <1>1, <1>3 DEF IInv, SessionInv, Idle, boundVars, Close
<1>7. TreeInv'
  BY <1>1 DEF IInv, TreeInv, serverVars
<1> QED
  BY <1>3, <1>4, <1>5, <1>6, <1>7 DEF IInv

LEMMA DieKeeps ==
  ASSUME IInv, Die, UNCHANGED <<serverVars, logins, pushes>>,
         calls' \in 0 .. MaxCalls
  PROVE  IInv'
<1>1. /\ ~connected' /\ inbox' = <<>> /\ asked' = {} /\ crashed' = TRUE
      /\ connected' = FALSE /\ tp' = FALSE
      /\ contacts' = {} /\ tree' = EmptyTree
      /\ ac_buddies' = [u \in Users |-> <<>>]
      /\ group_list' = Empty /\ buddy_list' = Empty
  BY DEF Die
<1>2. EmptyTree \in [groups : SUBSET Groups, buddies : SUBSET BuddyNode]
  BY DEF EmptyTree
<1>3. /\ TablesInv' /\ Known' = {} /\ Shown' = {}
      /\ DOMAIN group_list' = {}
  BY <1>1, <1>2, NoTables
<1>4. WireInv'
  BY <1>1, NothingOnTheWay
<1>5. ServerInv'
  BY DEF IInv, ServerInv, serverVars, Consistent
<1>6. SessionInv'
  BY <1>1, <1>3 DEF IInv, SessionInv, Idle
<1>7. TreeInv'
  BY <1>1 DEF TreeInv, EmptyTree
<1> QED
  BY <1>3, <1>4, <1>5, <1>6, <1>7 DEF IInv

LEMMA Start == Init => IInv
<1> SUFFICES ASSUME Init PROVE IInv
  OBVIOUS
<1>1. /\ inbox = <<>> /\ asked = {} /\ ~connected /\ ~crashed /\ ~tp
      /\ tp = FALSE /\ connected = FALSE /\ crashed = FALSE
      /\ logins = 0 /\ calls = 0 /\ pushes = 0
      /\ ac_buddies = [u \in Users |-> <<>>] /\ contacts = {}
      /\ group_list = Empty /\ buddy_list = Empty /\ tree = EmptyTree
      /\ changed = TRUE /\ told = [u \in Users |-> FALSE]
      /\ srv_groups \in SUBSET (Groups \ {Default})
      /\ Consistent(srv, srv_groups)
  BY DEF Init
<1>2. IsTable(srv, Users, Contact)
  <2>1. PICK named \in BOOLEAN, D \in SUBSET Users :
          srv \in [D -> [group : Groups, relation : 0 .. 1, name : {named}]]
    BY DEF Init, Table
  <2> QED
    BY <2>1 DEF IsTable, Contact, Relations
<1>3. ServerInv
  BY <1>1, <1>2 DEF ServerInv
<1>4. WireInv
  <2>1. <<>> \in Seq(Message) /\ DOMAIN <<>> = {}
    OBVIOUS
  <2> QED
    BY <1>1, <2>1 DEF WireInv, DefaultProtected
<1>5. DOMAIN group_list = {} /\ Shown = {} /\ Known = {}
  BY <1>1 DEF Empty, Shown, Known
<1>6. SessionInv
  <2>1. 0 \in 0 .. MaxLogins /\ 0 \in 0 .. MaxCalls /\ 0 \in 0 .. MaxPushes
    BY BoundAssumption
  <2>2. Idle
    BY <1>1, <1>5 DEF Idle
  <2> QED
    BY <1>1, <2>1, <2>2 DEF SessionInv
<1>7. TablesInv
  <2>1. ac_buddies \in [Users -> Seq(FetionBuddy)]
    <3>1. <<>> \in Seq(FetionBuddy)
      OBVIOUS
    <3> QED
      BY <1>1, <3>1
  <2>2. TablesType
    BY <1>1, <2>1 DEF TablesType, IsTable, Empty, EmptyTree
  <2>3. KnownShown /\ CountsMatch /\ StatesAgree /\ OnlineNamed
    BY <1>5 DEF KnownShown, CountsMatch, StatesAgree, OnlineNamed
  <2> QED
    BY <1>1, <1>5, <2>2, <2>3 DEF TablesInv, ContactsResolve, TreeMatches
<1>8. TreeInv
  BY <1>1 DEF TreeInv, EmptyTree
<1> QED
  BY <1>3, <1>4, <1>6, <1>7, <1>8 DEF IInv

-----------------------------------------------------------------------------
(* A login.                                                                *)

(* Whatever it is taken from, the list of a login is the server's.         *)
LEMMA LoginExact ==
  ASSUME IInv, ~crashed
  PROVE  /\ ShownAtLogin = DOMAIN srv
         /\ \A u \in DOMAIN srv :
              /\ BuddyAtLogin(u) \in HybridBuddy
              /\ BuddyAtLogin(u).group = srv[u].group
              /\ BuddyAtLogin(u).state = "offline"
              /\ BuddyAtLogin(u).authorized = (srv[u].relation = 1)
         /\ GroupsAtLogin \in SUBSET Groups
         /\ \A u \in DOMAIN srv : srv[u].group \in GroupsAtLogin
<1>1. /\ IsTable(srv, Users, Contact) /\ Consistent(srv, srv_groups)
      /\ srv_groups \in SUBSET (Groups \ {Default}) /\ changed \in BOOLEAN
      /\ tree \in [groups : SUBSET Groups, buddies : SUBSET BuddyNode]
  BY DEF IInv, ServerInv, TablesInv, TablesType
<1>2. /\ LoadedTree.groups \in SUBSET Groups
      /\ LoadedTree.buddies \in SUBSET BuddyNode
  BY <1>1 DEF LoadedTree, EmptyTree
<1>3. {n.user : n \in LoadedTree.buddies} \subseteq DOMAIN srv
  BY DEF IInv, TreeInv, LoadedTree, EmptyTree
<1>4. ShownAtLogin = DOMAIN srv
  BY <1>3 DEF ShownAtLogin
<1>5. ASSUME NEW u \in DOMAIN srv
      PROVE  /\ BuddyAtLogin(u) \in HybridBuddy
             /\ BuddyAtLogin(u).group = srv[u].group
             /\ BuddyAtLogin(u).state = "offline"
             /\ BuddyAtLogin(u).authorized = (srv[u].relation = 1)
  <2>1. srv[u] \in Contact
    BY <1>1 DEF IsTable
  <2>2. srv[u].group \in Groups /\ srv[u].name \in BOOLEAN
    BY <2>1 DEF Contact
  <2> DEFINE node == CHOOSE n \in Nodes(u) : TRUE
  <2>3. Nodes(u) # {} =>
          /\ node \in BuddyNode /\ node.group = srv[u].group
          /\ node.name \in BOOLEAN
    <3> SUFFICES ASSUME Nodes(u) # {}
                 PROVE  /\ node \in BuddyNode /\ node.group = srv[u].group
                        /\ node.name \in BOOLEAN
      OBVIOUS
    <3>1. node \in Nodes(u)
      OBVIOUS
    <3> HIDE DEF node
    <3>2. node \in LoadedTree.buddies /\ node.user = u
      BY <3>1 DEF Nodes
    <3>3. ~changed /\ node \in tree.buddies
      BY <3>2 DEF LoadedTree, EmptyTree
    <3>4. node \in BuddyNode
      BY <1>2, <3>2
    <3> QED
      BY <3>2, <3>3, <3>4 DEF IInv, TreeInv, BuddyNode
  <2> DEFINE load == Nodes(u) # {}
             b == [group |-> IF load THEN node.group ELSE srv[u].group,
                   state |-> "offline",
                   authorized |-> srv[u].relation = 1,
                   name |-> IF load THEN node.name ELSE srv[u].name]
  <2>4. BuddyAtLogin(u) = b
    BY DEF BuddyAtLogin
  <2> HIDE DEF node
  <2> QED
    BY <2>2, <2>3, <2>4 DEF HybridBuddy, States
<1>6. GroupsAtLogin \in SUBSET Groups
  BY <1>1, <1>2, GroupAssumption DEF GroupsAtLogin, ListGroups
<1>7. \A u \in DOMAIN srv : srv[u].group \in GroupsAtLogin
  BY <1>1 DEF GroupsAtLogin, ListGroups, Consistent
<1> QED
  BY <1>4, <1>5, <1>6, <1>7

(* The tree a login starts from has "Ungrouped" only if the list has.      *)
LEMMA UngroupedIsListed ==
  ASSUME IInv, ~crashed
  PROVE  /\ Default \in GroupsAtLogin => Default \in ListGroups
         /\ Default \in ListGroups => \E u \in DOMAIN srv : srv[u].group = Default
<1>1. Default \notin srv_groups
  BY DEF IInv, ServerInv
<1>2. Default \in ListGroups <=> \E u \in DOMAIN srv : srv[u].group = Default
  BY <1>1 DEF ListGroups
<1>3. Default \in LoadedTree.groups => Default \in ListGroups
  <2>1. CASE changed
    BY <2>1 DEF LoadedTree, EmptyTree
  <2>2. CASE ~changed
    BY <2>2, <1>2 DEF LoadedTree, IInv, TreeInv
  <2> QED
    BY <2>1, <2>2
<1> QED
  BY <1>2, <1>3 DEF GroupsAtLogin

LEMMA LoginKeeps ==
  ASSUME IInv, Login
  PROVE  /\ IInv'
         /\ DOMAIN buddy_list' = DOMAIN srv
         /\ \A u \in DOMAIN srv :
              /\ buddy_list'[u].group = srv[u].group
              /\ buddy_list'[u].authorized = (srv[u].relation = 1)
<1> DEFINE list == [u \in ShownAtLogin |-> BuddyAtLogin(u)]
           Node(u) == [user |-> u, group |-> list[u].group,
                       authorized |-> list[u].authorized,
                       name |-> list[u].name]
           Of(g) == {u \in ShownAtLogin : list[u].group = g}
<1>1. /\ ~tp /\ ~crashed /\ logins < MaxLogins /\ logins' = logins + 1
      /\ tp' = TRUE /\ connected' = TRUE /\ changed' = FALSE
      /\ told' = [u \in Users |-> u \in DOMAIN srv /\ srv[u].relation = 1]
      /\ ac_buddies' =
           [u \in Users |->
              IF u \in DOMAIN srv
              THEN <<[state |-> "offline", name |-> srv[u].name]>> ELSE <<>>]
      /\ buddy_list' = list
      /\ contacts' = {} \cup ShownAtLogin
      /\ group_list' =
           [g \in GroupsAtLogin |->
              [buddy_count |-> Cardinality(Of(g)), online_count |-> 0,
               renamable |-> Renamable(g)]]
      /\ tree' = [groups |-> GroupsAtLogin,
                  buddies |-> {Node(u) : u \in ShownAtLogin}]
      /\ srv' = srv /\ srv_groups' = srv_groups /\ crashed' = crashed
      /\ inbox' = inbox /\ asked' = asked
      /\ calls' = calls /\ pushes' = pushes
  BY DEF Login, HandlesAtStart, wireVars
<1>2. /\ ShownAtLogin = DOMAIN srv
      /\ \A u \in DOMAIN srv :
           /\ list[u] \in HybridBuddy
           /\ list[u].group = srv[u].group
           /\ list[u].state = "offline"
           /\ list[u].authorized = (srv[u].relation = 1)
      /\ GroupsAtLogin \in SUBSET Groups
      /\ \A u \in DOMAIN srv : srv[u].group \in GroupsAtLogin
      /\ DOMAIN list = DOMAIN srv
  BY <1>1, LoginExact
<1> HIDE DEF list
<1>3. /\ IsTable(srv, Users, Contact) /\ DOMAIN srv \subseteq Users
      /\ \A u \in DOMAIN srv : srv[u].name \in BOOLEAN
  BY DEF IInv, ServerInv, IsTable, Contact
<1>4. /\ inbox = <<>> /\ asked = {}
  BY <1>1 DEF IInv, SessionInv, Idle
<1>5. /\ ac_buddies' \in [Users -> Seq(FetionBuddy)] /\ Known' = DOMAIN srv
      /\ \A u \in DOMAIN srv : Find(u)'.state = "offline"
  <2> DEFINE e(u) == [state |-> "offline", name |-> srv[u].name]
  <2>1. \A u \in DOMAIN srv : e(u) \in FetionBuddy /\ e(u).state = "offline"
    BY <1>3 DEF FetionBuddy, States
  <2>2. ac_buddies' = [u \in Users |-> IF u \in DOMAIN srv
                                      THEN <<e(u)>> ELSE <<>>]
    BY <1>1
  <2> HIDE DEF e
  <2>3. \A u \in DOMAIN srv : <<e(u)>> \in Seq(FetionBuddy) /\ <<e(u)>> # <<>>
                              /\ Head(<<e(u)>>) = e(u)
    BY <2>1
  <2>4. <<>> \in Seq(FetionBuddy)
    OBVIOUS
  <2>5. ac_buddies' \in [Users -> Seq(FetionBuddy)]
    BY <2>2, <2>3, <2>4
  <2>6. \A u \in DOMAIN srv : Find(u)' = e(u)
    BY <1>3, <2>2, <2>3 DEF Find
  <2>7. Known' = DOMAIN srv
    BY <1>3, <2>2, <2>3 DEF Known
  <2> QED
    BY <2>1, <2>5, <2>6, <2>7
<1>6. Shown' = DOMAIN srv /\ DOMAIN buddy_list' = DOMAIN srv
      /\ DOMAIN group_list' = GroupsAtLogin
  BY <1>1, <1>2 DEF Shown
<1>7. \A g : InGroup(g)' = Of(g) /\ Of(g) \subseteq Users /\ Online(g)' = {}
  BY <1>1, <1>2, <1>3, <1>6 DEF InGroup, Online
<1>8. /\ Cardinality({}) = 0
      /\ \A g \in GroupsAtLogin : Cardinality(Of(g)) \in Nat
  BY <1>7, CountType, FS_EmptySet
<1> HIDE DEF Of
<1>9. CountsMatch'
  BY <1>1, <1>6, <1>7, <1>8 DEF CountsMatch, Online
<1>10. IsTable(group_list', Groups, HybridGroup)
  BY <1>1, <1>2, <1>8 DEF IsTable, HybridGroup, Renamable
<1>11. \A u \in DOMAIN srv : Node(u) \in BuddyNode
  BY <1>2, <1>3 DEF BuddyNode, HybridBuddy
<1>12. IsTable(buddy_list', Users, HybridBuddy)
  BY <1>1, <1>2, <1>3 DEF IsTable, list
<1>13. TablesType'
  <2>1. tree' \in [groups : SUBSET Groups, buddies : SUBSET BuddyNode]
    BY <1>1, <1>2, <1>11
  <2> HIDE DEF Node
  <2> QED
    BY <1>1, <1>2, <1>3, <1>5, <1>10, <1>12, <2>1 DEF TablesType
<1>14. KnownShown' /\ StatesAgree' /\ OnlineNamed' /\ ContactsResolve'
  BY <1>1, <1>2, <1>5, <1>6
     DEF KnownShown, StatesAgree, OnlineNamed, ContactsResolve
<1>15. TreeMatches'
  BY <1>1, <1>2, <1>6 DEF TreeMatches
<1>16. \A g \in DOMAIN group_list' : group_list'[g].renamable => g # Default
  <2>1. Default \in GroupsAtLogin => Default \in ListGroups
    BY <1>1, UngroupedIsListed
  <2> QED
    BY <1>1, <2>1 DEF Renamable
<1>17. TablesInv'
  BY <1>9, <1>13, <1>14, <1>15, <1>16 DEF TablesInv
<1>18. TreeInv'
  <2>1. /\ tree'.groups = GroupsAtLogin
        /\ tree'.buddies = NodesOf(list)
        /\ \A u \in DOMAIN list : list[u].group \in GroupsAtLogin
    BY <1>1, <1>2 DEF NodesOf
  <2>2. /\ \A n \in tree'.buddies :
             /\ n.group \in tree'.groups
             /\ n.user \in DOMAIN list /\ n.group = list[n.user].group
        /\ \A v \in DOMAIN list : \E n \in tree'.buddies : n.user = v
    BY <2>1, TreeOfShown
  <2>3. {n.user : n \in tree'.buddies} = DOMAIN srv
    <3>1. /\ \A n \in tree'.buddies : n.user \in DOMAIN srv
          /\ \A v \in DOMAIN srv : \E n \in tree'.buddies : n.user = v
      BY <1>2, <2>2
    <3> QED
      BY <3>1
  <2>4. \A n \in tree'.buddies : n.group = srv[n.user].group
    BY <1>2, <2>2
  <2>5. Default \in tree'.groups => \E u \in DOMAIN srv : srv[u].group = Default
    BY <1>1, <2>1, UngroupedIsListed
  <2> QED
    BY <1>1, <2>2, <2>3, <2>4, <2>5 DEF TreeInv
<1>19. ServerInv'
  BY <1>1, <1>3 DEF IInv, ServerInv, Consistent
<1>20. WireInv'
  BY <1>1, <1>4, NothingOnTheWay
<1>21. SessionInv'
  <2>1. logins' \in 0 .. MaxLogins
    BY <1>1, BoundAssumption DEF IInv, SessionInv
  <2> QED
    BY <1>1, <2>1 DEF IInv, SessionInv
<1> QED
  BY <1>1, <1>2, <1>6, <1>17, <1>18, <1>19, <1>20, <1>21 DEF IInv

-----------------------------------------------------------------------------
(* The server.                                                             *)

LEMMA TablesSame ==
  ASSUME TablesInv, UNCHANGED <<connected, ac_buddies, shownVars>>
  PROVE  TablesInv'
<1>1. /\ connected' = connected /\ ac_buddies' = ac_buddies
      /\ group_list' = group_list /\ buddy_list' = buddy_list
      /\ contacts' = contacts /\ tree' = tree
  BY DEF shownVars
<1>2. TablesType'
  BY <1>1 DEF TablesInv, TablesType, IsTable
<1>3. /\ Known' = Known /\ Shown' = Shown
      /\ \A u \in Known : Find(u)' = Find(u)
      /\ \A g \in Groups : InGroup(g)' = InGroup(g) /\ Online(g)' = Online(g)
  BY <1>1 DEF Known, Shown, Find, InGroup, Online
<1>4. KnownShown' /\ StatesAgree' /\ OnlineNamed'
  BY <1>1, <1>3 DEF TablesInv, KnownShown, StatesAgree, OnlineNamed
<1>5. CountsMatch'
  BY <1>1, <1>3, CountsAre
     DEF TablesInv, TablesType, IsTable, CountsMatch, Online
<1>6. ContactsResolve' /\ TreeMatches'
  BY <1>1, <1>3 DEF TablesInv, ContactsResolve, TreeMatches
<1> QED
  BY <1>1, <1>2, <1>4, <1>5, <1>6 DEF TablesInv

(* A message the server may send.                                          *)
Pushed ==
  \E m \in Message :
    /\ inbox' = Append(inbox, m)
    /\ m.type = "answer" => m.to.type \in Answerable
    /\ Adds(m) => changed'

LEMMA PushedKeeps ==
  ASSUME WireInv, Pushed, asked' \subseteq asked, changed => changed'
  PROVE  WireInv'
<1>1. PICK m \in Message :
        /\ inbox' = Append(inbox, m)
        /\ m.type = "answer" => m.to.type \in Answerable
        /\ Adds(m) => changed'
  BY DEF Pushed
<1>2. /\ inbox' \in Seq(Message)
      /\ \A i \in DOMAIN inbox' :
           inbox'[i] = m \/ (i \in DOMAIN inbox /\ inbox'[i] = inbox[i])
  BY <1>1, Appended DEF WireInv
<1>3. \A i \in DOMAIN inbox' :
        inbox'[i].type = "answer" => inbox'[i].to.type \in Answerable
  BY <1>1, <1>2 DEF WireInv
<1>4. \A i \in DOMAIN inbox' : Adds(inbox'[i]) => changed'
  BY <1>1, <1>2 DEF WireInv
<1>5. asked' \in SUBSET Request /\ DefaultProtected'
  BY DEF WireInv, DefaultProtected
<1> QED
  BY <1>2, <1>3, <1>4, <1>5 DEF WireInv, Adds

LEMMA ServerKeeps ==
  ASSUME IInv, UNCHANGED <<tp, connected, ac_buddies, shownVars, crashed,
                           logins, calls>>,
         pushes' \in 0 .. MaxPushes, asked' \subseteq asked, ServerInv',
         changed' = TRUE \/ UNCHANGED <<srv, changed>>,
         UNCHANGED inbox \/ (connected /\ Pushed)
  PROVE  IInv'
<1>1. TablesInv'
  BY TablesSame DEF IInv
<1>2. WireInv'
  <2>1. CASE UNCHANGED inbox
    BY <2>1 DEF IInv, WireInv, DefaultProtected, Adds
  <2>2. CASE Pushed
    BY <2>2, PushedKeeps DEF IInv, ServerInv
  <2> QED
    BY <2>1, <2>2
<1>3. ~connected' => Idle'
  BY DEF IInv, SessionInv, Idle, Known, Shown, shownVars
<1>4. SessionInv'
  BY <1>3 DEF IInv, SessionInv
<1>5. TreeInv'
  BY DEF IInv, TreeInv, shownVars
<1> QED
  BY <1>1, <1>2, <1>4, <1>5 DEF IInv

LEMMA AnswerIsPushed ==
  ASSUME NEW r \in Request, r.type \in Answerable, NEW ok \in BOOLEAN,
         NEW g \in Groups, NEW relation \in Relations,
         AnswerWith(r, ok, g, relation),
         ok = FALSE \/ r.type = "get_info" \/ changed'
  PROVE  Pushed
<1> DEFINE m == [type |-> "answer", to |-> r, ok |-> ok, group |-> g,
                 relation |-> relation]
<1>1. m \in Message /\ m.type = "answer" /\ m.to = r /\ m.ok = ok
  BY DEF Message, Reply
<1>2. inbox' = Append(inbox, m)
  BY DEF AnswerWith, Push
<1> HIDE DEF m
<1> QED
  BY <1>1, <1>2 DEF Pushed, Adds, Answerable

LEMMA GrantIs ==
  ASSUME IInv, NEW r \in Request, Grant(r)
  PROVE  /\ ServerInv'
         /\ changed' = TRUE \/ UNCHANGED <<srv, changed>>
         /\ UNCHANGED inbox \/ Pushed
<1>1. /\ IsTable(srv, Users, Contact) /\ Consistent(srv, srv_groups)
      /\ srv_groups \in SUBSET (Groups \ {Default}) /\ changed \in BOOLEAN
      /\ told \in [Users -> BOOLEAN]
      /\ \A u \in DOMAIN srv :
           srv[u] \in Contact /\ srv[u].group \in srv_groups \cup {Default}
  BY DEF IInv, ServerInv, Consistent, IsTable
<1>2. CASE r.type = "add"
  <2> DEFINE c == [group |-> Default, relation |-> 0, name |-> FALSE]
  <2>1. /\ Listed(r.user, c) /\ AnswerWith(r, TRUE, Default, 0)
        /\ told' = [told EXCEPT ![r.user] = FALSE]
        /\ changed' = TRUE /\ srv_groups' = srv_groups
    BY <1>2 DEF Grant
  <2>2. c \in Contact /\ r.user \in Users /\ c.group = Default
    BY <1>2, RequestFields, GroupAssumption DEF Contact, Relations
  <2> HIDE DEF c
  <2>3. /\ IsTable(srv', Users, Contact) /\ Consistent(srv', srv_groups)
    BY <1>1, <2>1, <2>2 DEF Listed, IsTable, Consistent
  <2>4. Pushed
    <3>1. r.type \in Answerable /\ 0 \in Relations /\ Default \in Groups
      BY <1>2, GroupAssumption DEF Answerable, Relations
    <3> QED
      BY <2>1, <3>1, AnswerIsPushed, Zenon
  <2> QED
    BY <1>1, <2>1, <2>3, <2>4 DEF ServerInv
<1>3. CASE r.type = "accept"
  <2> DEFINE c == IF r.user \in DOMAIN srv
                  THEN [srv[r.user] EXCEPT !.relation = 1]
                  ELSE [group |-> Default, relation |-> 1, name |-> FALSE]
  <2>1. /\ Listed(r.user, c) /\ AnswerWith(r, TRUE, c.group, 1)
        /\ told' = [told EXCEPT ![r.user] = TRUE]
        /\ changed' = TRUE /\ srv_groups' = srv_groups
    BY <1>3 DEF Grant
  <2>2. c \in Contact /\ r.user \in Users
        /\ c.group \in srv_groups \cup {Default} /\ c.group \in Groups
    BY <1>1, <1>3, RequestFields, GroupAssumption DEF Contact, Relations
  <2> HIDE DEF c
  <2>3. /\ IsTable(srv', Users, Contact) /\ Consistent(srv', srv_groups)
    BY <1>1, <2>1, <2>2 DEF Listed, IsTable, Consistent
  <2>4. Pushed
    <3>1. r.type \in Answerable /\ 1 \in Relations
      BY <1>3 DEF Answerable, Relations
    <3> QED
      BY <2>1, <2>2, <3>1, AnswerIsPushed, Zenon
  <2> QED
    BY <1>1, <2>1, <2>3, <2>4 DEF ServerInv
<1>4. CASE r.type = "get_info"
  <2>1. AnswerWith(r, TRUE, Default, 0) /\ UNCHANGED serverVars
    BY <1>4 DEF Grant
  <2>2. Pushed
    <3>1. r.type \in Answerable /\ 0 \in Relations /\ Default \in Groups
      BY <1>4, GroupAssumption DEF Answerable, Relations
    <3> QED
      BY <1>4, <2>1, <3>1, AnswerIsPushed, Zenon
  <2> QED
    BY <1>1, <2>1, <2>2 DEF ServerInv, serverVars
<1>5. CASE r.type = "remove"
  <2>1. /\ srv' = [u \in DOMAIN srv \ {r.user} |-> srv[u]]
        /\ changed' = TRUE /\ UNCHANGED <<srv_groups, told, inbox>>
    BY <1>5 DEF Grant
  <2> QED
    BY <1>1, <2>1 DEF ServerInv, IsTable, Consistent
<1>6. CASE r.type = "rename"
  <2>1. /\ r.user \in DOMAIN srv
        /\ srv' = [srv EXCEPT ![r.user].name = TRUE]
        /\ changed' = TRUE /\ UNCHANGED <<srv_groups, told, inbox>>
    BY <1>6 DEF Grant
  <2> DEFINE c == [srv[r.user] EXCEPT !.name = TRUE]
  <2>2. c \in Contact /\ c.group = srv[r.user].group
    BY <1>1, <2>1 DEF Contact
  <2>3. srv' = [srv EXCEPT ![r.user] = c]
    BY <1>1, <2>1 DEF IsTable
  <2> HIDE DEF c
  <2>4. IsTable(srv', Users, Contact) /\ DOMAIN srv' = DOMAIN srv
    <3>1. PICK x \in DOMAIN srv : x = r.user
      BY <2>1
    <3>2. srv' = [srv EXCEPT ![x] = c]
      BY <2>3, <3>1
    <3> QED
      BY <1>1, <2>2, <3>2, TableSet
  <2>5. Consistent(srv', srv_groups)
    BY <1>1, <2>1, <2>2, <2>3, <2>4 DEF Consistent
  <2> QED
    BY <1>1, <2>1, <2>4, <2>5 DEF ServerInv
<1>7. CASE r.type = "move"
  <2>1. /\ r.user \in DOMAIN srv /\ r.group \in srv_groups \cup {Default}
        /\ srv' = [srv EXCEPT ![r.user].group = r.group]
        /\ changed' = TRUE /\ UNCHANGED <<srv_groups, told, inbox>>
    BY <1>7 DEF Grant
  <2> DEFINE c == [srv[r.user] EXCEPT !.group = r.group]
  <2>2. c \in Contact /\ c.group = r.group
    BY <1>1, <1>7, <2>1, RequestFields DEF Contact
  <2>3. srv' = [srv EXCEPT ![r.user] = c]
    BY <1>1, <2>1 DEF IsTable
  <2> HIDE DEF c
  <2> QED
    BY <1>1, <2>1, <2>2, <2>3 DEF ServerInv, IsTable, Consistent
<1>8. CASE r.type = "remove_group"
  <2>1. /\ \A u \in DOMAIN srv : srv[u].group # r.group
        /\ srv_groups' = srv_groups \ {r.group}
        /\ changed' = TRUE /\ UNCHANGED <<srv, told, inbox>>
    BY <1>8 DEF Grant
  <2> QED
    BY <1>1, <2>1 DEF ServerInv, Consistent
<1>9. CASE r.type = "rename_group"
  <2>1. changed' = TRUE /\ UNCHANGED <<srv, srv_groups, told, inbox>>
    BY <1>9 DEF Grant
  <2> QED
    BY <1>1, <2>1 DEF ServerInv, Consistent
<1> QED
  BY <1>2, <1>3, <1>4, <1>5, <1>6, <1>7, <1>8, <1>9, RequestFields

LEMMA AnswerKeeps ==
  ASSUME IInv, NEW r \in asked, Answer(r)
  PROVE  IInv'
<1>1. r \in Request /\ connected
  BY DEF IInv, WireInv, SessionInv, Idle
<1>2. /\ UNCHANGED <<tp, connected, ac_buddies, shownVars, crashed,
                     logins, calls, pushes>>
      /\ asked' \subseteq asked /\ pushes' \in 0 .. MaxPushes
  BY DEF Answer, boundVars, IInv, SessionInv
<1>3. CASE Refuse(r)
  <2>1. Pushed
    <3>1. r.type \in Answerable /\ 0 \in Relations /\ Default \in Groups
      BY <1>3, GroupAssumption DEF Refuse, Answerable, Relations
    <3>2. AnswerWith(r, FALSE, Default, 0)
      BY <1>3, Zenon DEF Refuse
    <3> QED
      BY <1>1, <3>1, <3>2, AnswerIsPushed, Zenon
  <2>2. ServerInv' /\ UNCHANGED <<srv, changed>>
    BY <1>3 DEF Refuse, serverVars, IInv, ServerInv, Consistent
  <2> QED
    BY <1>1, <1>2, <2>1, <2>2, ServerKeeps
<1>4. CASE Grant(r)
  BY <1>1, <1>2, <1>4, GrantIs, ServerKeeps
<1> QED
  BY <1>3, <1>4 DEF Answer

LEMMA StepFrame ==
  ASSUME IInv, ServerStep
  PROVE  /\ UNCHANGED <<tp, connected, ac_buddies, shownVars, crashed,
                        logins, calls>>
         /\ asked' \subseteq asked /\ pushes' \in 0 .. MaxPushes
<1>1. pushes' \in 0 .. MaxPushes
  BY BoundAssumption DEF ServerStep, IInv, SessionInv
<1> QED
  BY <1>1 DEF ServerStep

LEMMA ServerInvKeeps ==
  ASSUME IInv, Server
  PROVE  IInv'
<1>1. /\ IsTable(srv, Users, Contact) /\ Consistent(srv, srv_groups)
      /\ srv_groups \in SUBSET (Groups \ {Default}) /\ changed \in BOOLEAN
      /\ told \in [Users -> BOOLEAN]
  BY DEF IInv, ServerInv
<1>2. ASSUME NEW u \in Users, NEW g \in Groups, NEW r \in 0 .. 1,
             OtherClientAdds(u, g, r)
      PROVE  IInv'
  <2> DEFINE c == [group |-> g, relation |-> r, name |-> FALSE]
  <2>1. /\ ServerStep /\ u \notin DOMAIN srv
        /\ srv' = [v \in DOMAIN srv \cup {u} |-> IF v = u THEN c ELSE srv[v]]
        /\ srv_groups' = srv_groups \cup ({g} \ {Default})
        /\ changed' = TRUE /\ told' = told /\ inbox' = inbox
    BY <1>2 DEF OtherClientAdds
  <2>2. c \in Contact /\ c.group = g
    BY DEF Contact, Relations
  <2> HIDE DEF c
  <2>3. IsTable(srv', Users, Contact) /\ Consistent(srv', srv_groups')
    BY <1>1, <2>1, <2>2 DEF IsTable, Consistent
  <2>4. ServerInv'
    BY <1>1, <2>1, <2>3 DEF ServerInv
  <2> QED
    BY <2>1, <2>4, StepFrame, ServerKeeps
<1>3. ASSUME NEW u \in Users, OtherClientRemoves(u) PROVE IInv'
  <2>1. /\ ServerStep /\ srv' = [v \in DOMAIN srv \ {u} |-> srv[v]]
        /\ changed' = TRUE
        /\ srv_groups' = srv_groups /\ told' = told /\ inbox' = inbox
    BY <1>3 DEF OtherClientRemoves
  <2>2. ServerInv'
    BY <1>1, <2>1 DEF ServerInv, IsTable, Consistent
  <2> QED
    BY <2>1, <2>2, StepFrame, ServerKeeps
<1>4. ASSUME NEW u \in Users, NEW r \in Relations, RelationChanges(u, r)
      PROVE  IInv'
  <2> DEFINE c == [srv[u] EXCEPT !.relation = r]
             m == [type |-> "sync", user |-> u, relation |-> r]
  <2>1. /\ ServerStep /\ u \in DOMAIN srv
        /\ srv' = [srv EXCEPT ![u].relation = r]
        /\ changed' = TRUE /\ srv_groups' = srv_groups
        /\ \/ /\ connected /\ inbox' = Append(inbox, m)
              /\ \E b : told' = [told EXCEPT ![u] = b]
                        /\ b = IF r = 0 THEN told[u] ELSE r = 1
           \/ inbox' = inbox /\ told' = told
    BY <1>4 DEF RelationChanges, Push
  <2>2. c \in Contact /\ c.group = srv[u].group
    BY <1>1, <2>1 DEF IsTable, Contact
  <2>3. srv' = [srv EXCEPT ![u] = c]
    BY <1>1, <2>1 DEF IsTable
  <2>4. m \in Message /\ m.type = "sync"
    BY DEF Message, Sync
  <2> HIDE DEF c, m
  <2>5. IsTable(srv', Users, Contact) /\ DOMAIN srv' = DOMAIN srv
        /\ Consistent(srv', srv_groups)
    <3>1. /\ IsTable(srv', Users, Contact) /\ DOMAIN srv' = DOMAIN srv
          /\ srv'[u] = c /\ \A v \in DOMAIN srv : v # u => srv'[v] = srv[v]
      <4>1. PICK x \in DOMAIN srv : x = u
        BY <2>1
      <4>2. srv' = [srv EXCEPT ![x] = c]
        BY <2>3, <4>1
      <4> QED
        BY <1>1, <2>2, <4>1, <4>2, TableSet
    <3> QED
      BY <1>1, <2>1, <2>2, <3>1 DEF Consistent
  <2>6. told' \in [Users -> BOOLEAN]
    BY <1>1, <2>1
  <2>7. UNCHANGED inbox \/ (connected /\ Pushed)
    BY <2>1, <2>4 DEF Pushed, Adds
  <2>8. ServerInv'
    BY <1>1, <2>1, <2>5, <2>6 DEF ServerInv
  <2> QED
    BY <2>1, <2>7, <2>8, StepFrame, ServerKeeps
<1>5. ASSUME NEW u \in Users, NEW s \in States \cup {"none"},
             NEW n \in BOOLEAN, PushPresence(u, s, n)
      PROVE  IInv'
  <2> DEFINE m == [type |-> "presence", user |-> u, state |-> s, name |-> n]
  <2>1. /\ ServerStep /\ connected /\ inbox' = Append(inbox, m)
        /\ UNCHANGED serverVars
    BY <1>5 DEF PushPresence, Push
  <2>2. m \in Message /\ m.type = "presence"
    BY DEF Message, Presence
  <2> HIDE DEF m
  <2>3. Pushed
    BY <2>1, <2>2 DEF Pushed, Adds
  <2>4. ServerInv' /\ UNCHANGED <<srv, changed>>
    BY <2>1 DEF serverVars, IInv, ServerInv, Consistent
  <2> QED
    BY <2>1, <2>3, <2>4, StepFrame, ServerKeeps
<1>6. ASSUME NEW u \in Users, PushApplication(u) PROVE IInv'
  <2> DEFINE m == [type |-> "application", user |-> u]
  <2>1. /\ ServerStep /\ connected /\ inbox' = Append(inbox, m)
        /\ UNCHANGED serverVars
    BY <1>6 DEF PushApplication, Push
  <2>2. m \in Message /\ m.type = "application"
    BY DEF Message, Application
  <2> HIDE DEF m
  <2>3. Pushed
    BY <2>1, <2>2 DEF Pushed, Adds
  <2>4. ServerInv' /\ UNCHANGED <<srv, changed>>
    BY <2>1 DEF serverVars, IInv, ServerInv, Consistent
  <2> QED
    BY <2>1, <2>3, <2>4, StepFrame, ServerKeeps
<1> QED
  BY <1>2, <1>3, <1>4, <1>5, <1>6, AnswerKeeps DEF Server

-----------------------------------------------------------------------------
(* Who is authorized.                                                      *)

(* The messages that say whether v accepted, unless they cannot be         *)
(* followed, and what they say.                                            *)
Tells(m, v) ==
  \/ m.type = "sync" /\ m.user = v /\ m.relation # 0
  \/ Adds(m) /\ m.to.user = v

Accepted(m) == m.relation = 1

Telling(v) == {i \in DOMAIN inbox : Tells(inbox[i], v)}

(* The last message about v that is not read, or else what is shown of v,  *)
(* is what the server told last.                                           *)
Settled(v) ==
  /\ \A i \in Telling(v) :
       (\A j \in Telling(v) : j <= i) => Accepted(inbox[i]) = told[v]
  /\ Telling(v) = {} /\ v \in Shown => buddy_list[v].authorized = told[v]

(* Requests rest on groups that are there.                                 *)
Backed(r) ==
  /\ r.type \in {"add", "accept"} => Default \in DOMAIN group_list
  /\ r.type = "remove_group" => r.group \in DOMAIN group_list

(* A group of the server that is not known here stays so: only then can an *)
(* answer not be followed.                                                 *)
TellInv ==
  /\ \A r \in asked : Backed(r)
  /\ \A i \in DOMAIN inbox :
       Adds(inbox[i]) => inbox[i].group \in DOMAIN group_list \cup srv_groups
  /\ srv_groups \subseteq DOMAIN group_list => \A v \in Users : Settled(v)

(* What reading m does, if the process does not die of it.                 *)
Taken(m) ==
  /\ inbox' = Tail(inbox) /\ DOMAIN group_list' = DOMAIN group_list
  /\ \A r \in asked' : r \in asked \/ r.type = "get_info"
                      \/ (r.type = "accept" /\ Default \in DOMAIN group_list)
  /\ \A v \in Shown' :
       /\ Tells(m, v) /\ (Adds(m) => m.group \in DOMAIN group_list)
            => buddy_list'[v].authorized = Accepted(m)
       /\ ~Tells(m, v) =>
            v \in Shown /\ buddy_list'[v].authorized = buddy_list[v].authorized

-----------------------------------------------------------------------------
(* What is read.                                                           *)

(* While the server's list is that of the last login, it is shown.         *)
ShownExact ==
  ~changed =>
    /\ Shown = DOMAIN srv
    /\ \A u \in Shown : buddy_list[u].group = srv[u].group

LEMMA ShownIsExact ==
  ASSUME IInv, connected
  PROVE  ShownExact
<1>1. /\ tree.groups = DOMAIN group_list /\ tree.buddies = NodesOf(buddy_list)
      /\ \A v \in DOMAIN buddy_list : buddy_list[v].group \in DOMAIN group_list
  BY DEF IInv, TablesInv, TreeMatches, KnownShown, NodesOf, Shown
<1>2. /\ \A n \in tree.buddies :
           n.user \in DOMAIN buddy_list /\ n.group = buddy_list[n.user].group
      /\ \A v \in DOMAIN buddy_list : \E n \in tree.buddies : n.user = v
  BY <1>1, TreeOfShown
<1> SUFFICES ASSUME ~changed
             PROVE  /\ Shown = DOMAIN srv
                    /\ \A u \in Shown : buddy_list[u].group = srv[u].group
  BY DEF ShownExact
<1>3. /\ {n.user : n \in tree.buddies} = DOMAIN srv
      /\ \A n \in tree.buddies : n.group = srv[n.user].group
  BY DEF IInv, TreeInv, SessionInv
<1>4. \A n \in tree.buddies : n.user \in DOMAIN srv
  BY <1>3
<1>5. \A v \in DOMAIN srv : \E n \in tree.buddies : n.user = v
  BY <1>3
<1>6. Shown = DOMAIN srv
  BY <1>2, <1>4, <1>5 DEF Shown
<1>7. ASSUME NEW u \in Shown PROVE buddy_list[u].group = srv[u].group
  <2>1. PICK n \in tree.buddies : n.user = u
    BY <1>2 DEF Shown
  <2> QED
    BY <1>2, <1>3, <2>1
<1> QED
  BY <1>6, <1>7

LEMMA ReadKeeps ==
  ASSUME IInv, inbox # <<>>, Read, UNCHANGED <<serverVars, boundVars>>,
         NEW R \in SUBSET Request, \A r \in R : r.type \in Answerable,
         asked' = asked \cup R, TablesInv', ShownExact',
         DOMAIN group_list' = DOMAIN group_list
  PROVE  IInv'
<1>1. connected /\ ~crashed /\ connected' /\ ~crashed'
  BY DEF IInv, SessionInv, Idle, Read
<1>2. ServerInv'
  BY DEF IInv, ServerInv, serverVars, Consistent
<1>3. WireInv'
  <2>1. /\ inbox' \in Seq(Message)
        /\ \A i \in DOMAIN inbox' :
             i + 1 \in DOMAIN inbox /\ inbox'[i] = inbox[i + 1]
    BY Tailed DEF Read, IInv, WireInv
  <2>2. \A i \in DOMAIN inbox' :
          inbox'[i].type = "answer" => inbox'[i].to.type \in Answerable
    BY <2>1 DEF IInv, WireInv
  <2>3. \A i \in DOMAIN inbox' : Adds(inbox'[i]) => changed'
    BY <2>1 DEF IInv, WireInv, serverVars
  <2>4. asked' \in SUBSET Request /\ DefaultProtected'
    BY DEF IInv, WireInv, DefaultProtected, Answerable
  <2> QED
    BY <2>1, <2>2, <2>3, <2>4 DEF WireInv, Adds
<1>4. SessionInv'
  BY <1>1 DEF IInv, SessionInv, Read, boundVars
<1>5. TreeInv'
  <2>1. /\ tree'.groups = DOMAIN group_list'
        /\ tree'.buddies = NodesOf(buddy_list')
        /\ \A v \in DOMAIN buddy_list' :
             buddy_list'[v].group \in DOMAIN group_list'
    BY <1>1 DEF TablesInv, TreeMatches, KnownShown, NodesOf, Shown
  <2>2. /\ \A n \in tree'.buddies :
             /\ n.group \in tree'.groups
             /\ n.user \in DOMAIN buddy_list'
             /\ n.group = buddy_list'[n.user].group
        /\ \A v \in DOMAIN buddy_list' : \E n \in tree'.buddies : n.user = v
    BY <2>1, TreeOfShown
  <2>3. ASSUME ~changed'
        PROVE  /\ {n.user : n \in tree'.buddies} = DOMAIN srv'
               /\ \A n \in tree'.buddies : n.group = srv'[n.user].group
    <3>1. /\ \A n \in tree'.buddies :
               n.user \in DOMAIN srv' /\ n.group = srv'[n.user].group
          /\ \A v \in DOMAIN srv' : \E n \in tree'.buddies : n.user = v
      BY <2>2, <2>3 DEF ShownExact, Shown
    <3> QED
      BY <3>1
  <2>4. ASSUME ~changed', Default \in tree'.groups
        PROVE  \E v \in DOMAIN srv' : srv'[v].group = Default
    <3>1. tree.groups = DOMAIN group_list
      BY <1>1 DEF IInv, TablesInv, TreeMatches
    <3>2. srv' = srv /\ changed' = changed
      BY DEF serverVars
    <3> QED
      BY <1>1, <2>1, <2>4, <3>1, <3>2 DEF IInv, TreeInv
  <2> QED
    BY <2>2, <2>3, <2>4 DEF TreeInv
<1> QED
  BY <1>2, <1>3, <1>4, <1>5 DEF IInv

(* The first entry of somebody in ac->buddies is another one.              *)
LEMMA EntryChanged ==
  ASSUME TablesType, NEW u \in Known, NEW e \in FetionBuddy,
         ac_buddies' = [ac_buddies EXCEPT ![u][1] = e]
  PROVE  /\ ac_buddies' \in [Users -> Seq(FetionBuddy)] /\ Known' = Known
         /\ Find(u)' = e /\ \A v \in Known : v # u => Find(v)' = Find(v)
<1>1. /\ ac_buddies \in [Users -> Seq(FetionBuddy)] /\ u \in Users
      /\ ac_buddies[u] \in Seq(FetionBuddy) /\ ac_buddies[u] # <<>>
  BY DEF TablesType, Known
<1>2. PICK S \in Seq(FetionBuddy) : S = ac_buddies[u] /\ S # <<>>
  BY <1>1
<1>3. PICK T : T = [S EXCEPT ![1] = e]
  OBVIOUS
<1>4. T \in Seq(FetionBuddy) /\ T # <<>> /\ Head(T) = e
  <2>1. Len(S) \in Nat /\ Len(S) >= 1 /\ DOMAIN S = 1 .. Len(S)
    BY <1>2
  <2>2. T \in [1 .. Len(S) -> FetionBuddy] /\ T[1] = e
    BY <1>3, <2>1
  <2>3. T \in Seq(FetionBuddy) /\ Len(T) = Len(S)
    BY <2>1, <2>2
  <2>4. T # <<>> /\ Head(T) = T[1]
    BY <2>1, <2>3
  <2> QED
    BY <2>2, <2>3, <2>4
<1>5. ac_buddies' = [ac_buddies EXCEPT ![u] = T]
  BY <1>2, <1>3
<1>6. /\ ac_buddies'[u] = T
      /\ \A v \in Users : v # u => ac_buddies'[v] = ac_buddies[v]
      /\ ac_buddies' \in [Users -> Seq(FetionBuddy)]
  BY <1>1, <1>4, <1>5
<1> QED
  BY <1>1, <1>4, <1>6 DEF Known, Find

(* What is read does not concern the tables.                               *)
LEMMA NothingShown ==
  ASSUME IInv, inbox # <<>>, Read, UNCHANGED <<serverVars, boundVars>>,
         UNCHANGED <<ac_buddies, shownVars>>,
         NEW R \in SUBSET Request, \A r \in R : r.type \in Answerable,
         asked' = asked \cup R
  PROVE  IInv'
<1>1. connected
  BY DEF IInv, SessionInv, Idle
<1>2. TablesInv'
  BY TablesSame DEF IInv, Read
<1>3. ShownExact
  BY <1>1, ShownIsExact
<1>4. ShownExact'
  BY <1>3 DEF ShownExact, Shown, shownVars, serverVars
<1>5. DOMAIN group_list' = DOMAIN group_list
  BY DEF shownVars
<1> QED
  BY <1>2, <1>4, <1>5, ReadKeeps

(* The tables as they were, or with another state and name.                *)
LEMMA NothingTaken ==
  ASSUME NEW m, \A v : ~Tells(m, v), Read, Shown' = Shown,
         \A v \in Shown :
           buddy_list'[v].authorized = buddy_list[v].authorized,
         DOMAIN group_list' = DOMAIN group_list,
         \A r \in asked' : r \in asked \/ r.type = "get_info"
                           \/ (r.type = "accept" /\ Default \in DOMAIN group_list)
  PROVE  Taken(m)
BY DEF Taken, Read

LEMMA PresenceKeeps ==
  ASSUME IInv, inbox # <<>>, UNCHANGED <<serverVars, boundVars>>,
         NEW m \in Message, m.type = "presence", HandlePresence(m)
  PROVE  IInv' /\ Taken(m)
<1> DEFINE u == m.user
           fb == [state |-> IF m.state = "none" THEN Find(u).state
                            ELSE m.state,
                  name  |-> Find(u).name \/ m.name]
           R == IF buddy_list'[u].name THEN {} ELSE {InfoRequest(u)}
<1>1. /\ u \in Users /\ m.state \in States \cup {"none"} /\ m.name \in BOOLEAN
      /\ connected /\ TablesInv /\ TablesType /\ Known = Shown
  BY MessageFields
     DEF IInv, SessionInv, Idle, TablesInv, KnownShown
<1>0. \A v : ~Tells(m, v)
  BY DEF Tells, Adds
<1>2. CASE u \notin Known
  <2>1. Read /\ UNCHANGED <<ac_buddies, shownVars, asked>>
    BY <1>2 DEF HandlePresence
  <2>2. asked' = asked \cup {}
    BY <2>1
  <2>3. Taken(m)
    BY <1>0, <2>1, NothingTaken DEF shownVars, Shown
  <2> QED
    BY <2>1, <2>2, <2>3, NothingShown
<1>3. CASE u \in Known
  <2>1. /\ Read /\ ac_buddies' = [ac_buddies EXCEPT ![u][1] = fb]
        /\ SetStateAndName(u, fb.state, fb.name) /\ asked' = asked \cup R
    BY <1>1, <1>3 DEF HandlePresence
  <2>2. /\ fb \in FetionBuddy /\ fb.state \in States /\ fb.name \in BOOLEAN
    BY <1>1, <1>3, HeadIs DEF FetionBuddy
  <2>3. /\ R \in SUBSET Request
        /\ \A r \in R : r.type \in Answerable /\ r.type = "get_info"
    BY <1>1 DEF InfoRequest, Request, BuddyRequest, Answerable
  <2> HIDE DEF fb, R, u
  <2>4. /\ ac_buddies' \in [Users -> Seq(FetionBuddy)] /\ Known' = Known
        /\ Find(u)' = fb /\ \A v \in Known : v # u => Find(v)' = Find(v)
    BY <1>1, <1>3, <2>1, <2>2, EntryChanged
  <2>5. /\ TablesInv' /\ Shown' = Shown
        /\ \A v \in Shown : buddy_list'[v].group = buddy_list[v].group
        /\ \A v \in Shown :
             buddy_list'[v].authorized = buddy_list[v].authorized
        /\ DOMAIN group_list' = DOMAIN group_list
    BY <1>1, <1>3, <2>1, <2>2, <2>4, StateAndNameKeeps
  <2>6. ShownExact'
    BY <1>1, <2>5, ShownIsExact DEF ShownExact, serverVars
  <2>7. Taken(m)
    BY <1>0, <2>1, <2>3, <2>5, NothingTaken
  <2> QED
    BY <2>1, <2>3, <2>5, <2>6, <2>7, ReadKeeps
<1> QED
  BY <1>2, <1>3

LEMMA SyncKeeps ==
  ASSUME IInv, inbox # <<>>, UNCHANGED <<serverVars, boundVars>>,
         NEW m \in Message, m.type = "sync", HandleSync(m)
  PROVE  IInv' /\ Taken(m)
<1>1. /\ Read /\ ac_buddies' = ac_buddies /\ asked' = asked \cup {}
      /\ connected /\ TablesInv
  BY DEF HandleSync, IInv, SessionInv, Idle
<1>0. /\ \A v : Tells(m, v) <=> v = m.user /\ m.relation # 0
      /\ ~Adds(m) /\ Known = Shown
  BY DEF Tells, Adds, IInv, TablesInv, KnownShown
<1>2. CASE UNCHANGED shownVars /\ ~(m.relation # 0 /\ m.user \in Shown)
  <2>1. Taken(m)
    BY <1>0, <1>1, <1>2 DEF Taken, Read, shownVars, Shown
  <2> QED
    BY <1>1, <1>2, <2>1, NothingShown
<1>3. CASE /\ m.relation # 0 /\ m.user \in Shown
           /\ SetStatus(m.user, m.relation = 1)
  <2>1. Known' = Known /\ \A v \in Known : Find(v)' = Find(v)
    BY <1>1 DEF Known, Find
  <2>2. ac_buddies' \in [Users -> Seq(FetionBuddy)]
    BY <1>1 DEF TablesInv, TablesType
  <2>3. PICK a \in BOOLEAN : a = (m.relation = 1)
    OBVIOUS
  <2>4. SetStatus(m.user, a)
    BY <1>3, <2>3
  <2>5. /\ TablesInv' /\ Shown' = Shown
        /\ \A v \in Shown : buddy_list'[v].group = buddy_list[v].group
        /\ DOMAIN group_list' = DOMAIN group_list
        /\ buddy_list'[m.user].authorized = a
        /\ \A v \in Shown : v # m.user => buddy_list'[v] = buddy_list[v]
    BY <1>1, <1>3, <2>1, <2>2, <2>4, SetStatusKeeps
  <2>6. ShownExact'
    BY <1>1, <2>5, ShownIsExact DEF ShownExact, serverVars
  <2>7. Taken(m)
    <3>1. \A v \in Shown' :
            /\ Tells(m, v) => buddy_list'[v].authorized = Accepted(m)
            /\ ~Tells(m, v) => /\ v \in Shown
                               /\ buddy_list'[v] = buddy_list[v]
      BY <1>0, <1>3, <2>3, <2>5 DEF Accepted
    <3> QED
      BY <1>1, <2>5, <3>1 DEF Taken, Read
  <2>8. PICK R \in SUBSET Request : R = {}
    OBVIOUS
  <2> QED
    BY <1>1, <2>5, <2>6, <2>7, <2>8, ReadKeeps
<1> QED
  BY <1>0, <1>2, <1>3 DEF HandleSync

LEMMA ApplicationKeeps ==
  ASSUME IInv, inbox # <<>>, UNCHANGED <<serverVars, boundVars>>,
         NEW m \in Message, m.type = "application", HandleApplication(m)
  PROVE  IInv' /\ (Die \/ Taken(m))
<1>1. CASE Default \in DOMAIN group_list
  <2>1. /\ Read /\ asked' = asked \cup {AcceptRequest(m.user)}
        /\ UNCHANGED <<ac_buddies, shownVars>>
    BY <1>1 DEF HandleApplication
  <2>2. AcceptRequest(m.user) \in Request
        /\ AcceptRequest(m.user).type \in Answerable
    BY MessageFields DEF AcceptRequest, Request, BuddyRequest, Answerable
  <2>3. PICK R \in SUBSET Request : R = {AcceptRequest(m.user)}
    BY <2>2
  <2>4. Taken(m)
    <3>1. \A v : ~Tells(m, v)
      BY DEF Tells, Adds
    <3> QED
      BY <1>1, <2>1, <3>1, NothingTaken DEF AcceptRequest, shownVars, Shown
  <2> QED
    BY <2>1, <2>2, <2>3, <2>4, NothingShown
<1>2. CASE Default \notin DOMAIN group_list
  <2>1. Die
    BY <1>2 DEF HandleApplication
  <2> QED
    BY <2>1, DieKeeps DEF boundVars, IInv, SessionInv
<1> QED
  BY <1>1, <1>2

LEMMA InfoKeeps ==
  ASSUME IInv, inbox # <<>>, UNCHANGED <<serverVars, boundVars>>,
         NEW m \in Message, m.type = "answer", m.to.type = "get_info",
         HandleInfo(m)
  PROVE  IInv' /\ Taken(m)
<1> DEFINE u == m.to.user
           e == [Find(u) EXCEPT !.name = TRUE]
<1>1. /\ u \in Users /\ connected /\ TablesInv /\ TablesType
      /\ Known = Shown /\ StatesAgree
      /\ Read /\ asked' = asked \cup {}
  BY MessageFields, RequestFields
     DEF HandleInfo, IInv, SessionInv, Idle, TablesInv, KnownShown
<1>0. \A v : ~Tells(m, v)
  BY DEF Tells, Adds
<1>2. CASE m.ok /\ u \in Known
  <2>1. /\ ac_buddies' = [ac_buddies EXCEPT ![u][1].name = TRUE]
        /\ SetStateAndName(u, buddy_list[u].state, TRUE)
    BY <1>1, <1>2 DEF HandleInfo
  <2>2. /\ e \in FetionBuddy /\ e.state = Find(u).state
        /\ e.state = buddy_list[u].state /\ e.state \in States
        /\ Find(u) = ac_buddies[u][1]
    BY <1>1, <1>2, HeadIs DEF FetionBuddy, StatesAgree
  <2>3. ac_buddies' = [ac_buddies EXCEPT ![u][1] = e]
    BY <2>1, <2>2
  <2> HIDE DEF e, u
  <2>4. /\ ac_buddies' \in [Users -> Seq(FetionBuddy)] /\ Known' = Known
        /\ Find(u)' = e /\ \A v \in Known : v # u => Find(v)' = Find(v)
    BY <1>1, <1>2, <2>2, <2>3, EntryChanged
  <2>5. PICK s \in States, n \in BOOLEAN :
          s = buddy_list[u].state /\ n = TRUE /\ SetStateAndName(u, s, n)
    BY <2>1, <2>2
  <2>6. /\ TablesInv' /\ Shown' = Shown
        /\ \A v \in Shown : buddy_list'[v].group = buddy_list[v].group
        /\ \A v \in Shown :
             buddy_list'[v].authorized = buddy_list[v].authorized
        /\ DOMAIN group_list' = DOMAIN group_list
    BY <1>1, <1>2, <2>2, <2>4, <2>5, StateAndNameKeeps
  <2>7. ShownExact'
    BY <1>1, <2>6, ShownIsExact DEF ShownExact, serverVars
  <2>8. Taken(m)
    BY <1>0, <1>1, <2>6, NothingTaken
  <2>9. PICK R \in SUBSET Request : R = {}
    OBVIOUS
  <2> QED
    BY <1>1, <2>6, <2>7, <2>8, <2>9, ReadKeeps
<1>3. CASE ~(m.ok /\ u \in Known)
  <2>1. UNCHANGED <<ac_buddies, shownVars>>
    BY <1>1, <1>3 DEF HandleInfo
  <2>2. PICK R \in SUBSET Request : R = {}
    OBVIOUS
  <2> HIDE DEF u
  <2>3. Taken(m)
    BY <1>0, <1>1, <2>1, NothingTaken DEF shownVars, Shown
  <2> QED
    BY <1>1, <2>1, <2>2, <2>3, NothingShown
<1> QED
  BY <1>2, <1>3

LEMMA AddedIsKept ==
  ASSUME IInv, inbox # <<>>, UNCHANGED <<serverVars, boundVars>>,
         NEW m \in Message, m.type = "answer", m.to.type \in {"add", "accept"},
         Adds(m) => changed, HandleAdded(m)
  PROVE  IInv' /\ Taken(m)
<1> DEFINE u == m.to.user
<1>1. /\ u \in Users /\ connected /\ TablesInv
      /\ Read /\ asked' = asked \cup {}
  BY MessageFields, RequestFields DEF HandleAdded, IInv, SessionInv, Idle
<1>2. CASE m.ok /\ m.group \in DOMAIN group_list
  <2>1. PICK a \in BOOLEAN : a = (m.relation = 1)
    OBVIOUS
  <2>2. /\ ac_buddies' = [ac_buddies EXCEPT
             ![u] = WithEntry(@, [state |-> "offline", name |-> FALSE])]
        /\ AddBuddy(u, m.group, a)
    BY <1>2, <2>1 DEF HandleAdded
  <2> HIDE DEF u
  <2>3. /\ TablesInv' /\ Shown' = Shown \cup {u}
        /\ DOMAIN group_list' = DOMAIN group_list
        /\ buddy_list'[u].authorized = a
        /\ \A v \in Shown : v # u => buddy_list'[v] = buddy_list[v]
    BY <1>1, <1>2, <2>2, AddedKeeps
  <2>4. ShownExact'
    BY <1>2 DEF Adds, ShownExact, serverVars
  <2>5. PICK R \in SUBSET Request : R = {}
    OBVIOUS
  <2>6. Taken(m)
    <3>1. \A v : Tells(m, v) <=> v = u
      BY <1>2 DEF Tells, Adds, u
    <3> QED
      BY <1>1, <2>1, <2>3, <3>1 DEF Taken, Read, Accepted
  <2> QED
    BY <1>1, <2>3, <2>4, <2>5, <2>6, ReadKeeps
<1>3. CASE ~(m.ok /\ m.group \in DOMAIN group_list)
  <2>1. UNCHANGED <<ac_buddies, shownVars>>
    BY <1>3 DEF HandleAdded
  <2>2. PICK R \in SUBSET Request : R = {}
    OBVIOUS
  <2>3. Taken(m)
    <3>1. \A v : Tells(m, v) => Adds(m) /\ m.group \notin DOMAIN group_list
      BY <1>3 DEF Tells, Adds
    <3> QED
      BY <1>1, <2>1, <3>1 DEF Taken, Read, shownVars, Shown
  <2> HIDE DEF u
  <2> QED
    BY <1>1, <2>1, <2>2, <2>3, NothingShown
<1> QED
  BY <1>2, <1>3

LEMMA HandleKeeps ==
  ASSUME IInv, Handle
  PROVE  /\ IInv' /\ inbox # <<>> /\ Head(inbox) \in Message
         /\ UNCHANGED <<serverVars, boundVars>>
         /\ Die \/ Taken(Head(inbox))
<1> DEFINE m == Head(inbox)
<1>1. /\ inbox # <<>> /\ UNCHANGED <<serverVars, boundVars>> /\ m \in Message
      /\ m.type = "answer" => m.to.type \in Answerable
      /\ Adds(m) => changed
  BY Tailed DEF Handle, IInv, WireInv
<1> SUFFICES IInv' /\ (Die \/ Taken(m))
  BY <1>1
<1> HIDE DEF m
<1>2. CASE m.type = "presence" /\ HandlePresence(m)
  BY <1>1, <1>2, PresenceKeeps
<1>3. CASE m.type = "sync" /\ HandleSync(m)
  BY <1>1, <1>3, SyncKeeps
<1>4. CASE m.type = "application" /\ HandleApplication(m)
  BY <1>1, <1>4, ApplicationKeeps
<1>5. CASE m.type = "answer" /\ m.to.type = "get_info" /\ HandleInfo(m)
  BY <1>1, <1>5, InfoKeeps
<1>6. CASE m.type = "answer" /\ m.to.type # "get_info" /\ HandleAdded(m)
  <2>1. m.to.type \in {"add", "accept"}
    BY <1>1, <1>6 DEF Answerable
  <2> QED
    BY <1>1, <1>6, <2>1, AddedIsKept
<1> QED
  BY <1>2, <1>3, <1>4, <1>5, <1>6 DEF Handle, m

-----------------------------------------------------------------------------
(* The user.                                                               *)

Sendable(R) ==
  /\ R \in SUBSET Request
  /\ \A r \in R : r.type \in {"remove_group", "rename_group"}
                    => r.group # Default

LEMMA SendKeeps ==
  ASSUME IInv, NEW R, Sendable(R), Send(R),
         UNCHANGED <<serverVars, logins, pushes>>, calls' \in 0 .. MaxCalls
  PROVE  IInv'
<1>1. TablesInv'
  BY TablesSame DEF Send, IInv
<1>2. ServerInv'
  BY DEF IInv, ServerInv, serverVars, Consistent
<1>3. WireInv'
  <2>1. inbox' = inbox /\ asked' \subseteq asked \cup R
    BY DEF Send
  <2>2. asked' \in SUBSET Request /\ DefaultProtected'
    BY <2>1 DEF IInv, WireInv, DefaultProtected, Sendable
  <2> QED
    BY <2>1, <2>2 DEF IInv, WireInv, Adds, serverVars
<1>4. SessionInv'
  BY DEF Send, IInv, SessionInv, Idle, Known, Shown, shownVars
<1>5. TreeInv'
  BY DEF Send, IInv, TreeInv, shownVars, serverVars
<1> QED
  BY <1>1, <1>2, <1>3, <1>4, <1>5 DEF IInv

(* What a call of the user comes to.                                       *)
Requested == Die \/ \E R : Sendable(R) /\ Send(R)

LEMMA CallKeeps ==
  ASSUME IInv, Requested, calls < MaxCalls,
         calls' \in {calls, calls + 1},
         UNCHANGED <<serverVars, logins, pushes>>
  PROVE  IInv'
<1>1. calls' \in 0 .. MaxCalls
  BY BoundAssumption DEF IInv, SessionInv
<1> QED
  BY <1>1, DieKeeps, SendKeeps DEF Requested

LEMMA MovesAre ==
  ASSUME NEW users \in SUBSET Users, NEW g \in Groups
  PROVE  Sendable(Moves(users, g))
BY DEF Sendable, Moves, Request, BuddyRequest

LEMMA SendableParts ==
  /\ Sendable({})
  /\ \A Q, R : Sendable(Q) /\ Sendable(R) => Sendable(Q \cup R)
  /\ \A u \in Users :
       /\ Sendable({AddRequest(u)}) /\ Sendable({RemoveRequest(u)})
       /\ Sendable({RenameRequest(u)})
  /\ \A g \in Groups \ {Default} :
       /\ Sendable({[type |-> "remove_group", group |-> g]})
       /\ Sendable({[type |-> "rename_group", group |-> g]})
BY DEF Sendable, AddRequest, RemoveRequest, RenameRequest, Request,
       BuddyRequest, GroupRequest

LEMMA UserKeeps ==
  ASSUME IInv, User
  PROVE  IInv'
<1>1. /\ Shown \subseteq Users /\ contacts \subseteq Users
      /\ \A g : InGroup(g) \subseteq Users
      /\ \A g : CanEdit(g) => g # Default
  BY DEF IInv, TablesInv, TablesType, IsTable, Shown, InGroup, CanEdit
<1>2. ASSUME NEW u \in Users, NEW g \in Groups, SetContactGroups(u, g)
      PROVE  IInv'
  <2>1. Requested
    BY <1>2, MovesAre, SendableParts DEF SetContactGroups, Call, Requested
  <2> QED
    BY <1>2, <2>1, CallKeeps DEF SetContactGroups, Call
<1>3. ASSUME NEW u \in Users, NEW g \in Groups, AddToGroup(g, u)
      PROVE  IInv'
  <2>1. Sendable(Moves(({u} \cap Shown) \ InGroup(g), g))
    BY MovesAre
  <2>2. Requested
    BY <1>3, <2>1, SendableParts DEF AddToGroup, Call, Requested
  <2> QED
    BY <1>3, <2>2, CallKeeps DEF AddToGroup, Call
<1>4. ASSUME NEW u \in Users, NEW g \in Groups, RemoveFromGroup(g, u)
      PROVE  IInv'
  <2>1. Sendable(Moves({u} \cap InGroup(g), Default))
    BY MovesAre, GroupAssumption
  <2>2. Requested
    BY <1>4, <2>1 DEF RemoveFromGroup, Call, Requested
  <2> QED
    BY <1>4, <2>2, CallKeeps DEF RemoveFromGroup, Call
<1>5. ASSUME NEW g \in Groups, NEW users \in SUBSET Users,
             SetGroupMembers(g, users)
      PROVE  IInv'
  <2>1. /\ Sendable(Moves((users \cap Shown) \ InGroup(g), g))
        /\ Sendable(Moves((contacts \cap InGroup(g)) \ users, Default))
    BY <1>1, MovesAre, GroupAssumption
  <2>2. Sendable(Moves((users \cap Shown) \ InGroup(g), g) \cup
                 Moves((contacts \cap InGroup(g)) \ users, Default))
    BY <2>1, SendableParts
  <2>3. Requested
    BY <1>5, <2>2, SendableParts DEF SetGroupMembers, Call, Requested
  <2> QED
    BY <1>5, <2>3, CallKeeps DEF SetGroupMembers, Call
<1>6. ASSUME NEW u \in Users, NEW number \in BOOLEAN,
             RequestSubscription(u, number)
      PROVE  IInv'
  <2>1. Requested
    BY <1>6, SendableParts DEF RequestSubscription, Call, Requested
  <2> QED
    BY <1>6, <2>1, CallKeeps DEF RequestSubscription, Call
<1>7. ASSUME NEW u \in Users,
             \/ RemoveContacts(u) \/ SetAliases(u)
             \/ GetContactStatuses(u) \/ RequestAliases(u)
      PROVE  IInv'
  <2>1. Requested
    BY <1>7, SendableParts
       DEF RemoveContacts, SetAliases, GetContactStatuses, RequestAliases,
           Call, Requested
  <2> QED
    BY <1>7, <2>1, CallKeeps
       DEF RemoveContacts, SetAliases, GetContactStatuses, RequestAliases,
           Call
<1>8. ASSUME NEW g \in Groups, RemoveGroup(g) \/ RenameGroup(g)
      PROVE  IInv'
  <2>1. Requested
    BY <1>1, <1>8, SendableParts DEF RemoveGroup, RenameGroup, Call, Requested
  <2> QED
    BY <1>8, <2>1, CallKeeps DEF RemoveGroup, RenameGroup, Call
<1> QED
  BY <1>2, <1>3, <1>4, <1>5, <1>6, <1>7, <1>8 DEF User

-----------------------------------------------------------------------------
(* What the server told last.                                              *)

(* Without an account there is nothing to tell.                            *)
LEMMA NothingTold ==
  ASSUME inbox' = <<>>, asked' = {}, Shown' = {}
  PROVE  TellInv'
<1>1. DOMAIN <<>> = {}
  OBVIOUS
<1> QED
  BY <1>1 DEF TellInv, Settled, Telling

LEMMA ToldAtLogin ==
  ASSUME IInv, Login
  PROVE  TellInv'
<1>1. /\ inbox' = <<>> /\ asked' = {} /\ DOMAIN <<>> = {}
  BY DEF Login, wireVars, IInv, SessionInv, Idle
<1>2. /\ DOMAIN buddy_list' = DOMAIN srv /\ DOMAIN srv \subseteq Users
      /\ \A u \in DOMAIN srv :
           buddy_list'[u].authorized = (srv[u].relation = 1)
      /\ told' = [u \in Users |-> u \in DOMAIN srv /\ srv[u].relation = 1]
  BY LoginKeeps DEF Login, IInv, ServerInv, IsTable
<1>3. \A v \in Shown' : buddy_list'[v].authorized = told'[v]
  BY <1>2 DEF Shown
<1>4. \A v \in Users : Settled(v)'
  BY <1>1, <1>3 DEF Settled, Telling
<1> QED
  BY <1>1, <1>4 DEF TellInv

(* Nothing is told, and perhaps something is asked.                        *)
LEMMA ToldBefore ==
  ASSUME TellInv, UNCHANGED <<inbox, told, group_list, buddy_list>>,
         \A r \in asked' : r \in asked \/ Backed(r),
         srv_groups \subseteq DOMAIN group_list \cup srv_groups'
  PROVE  TellInv'
<1>1. \A v : Settled(v) => Settled(v)'
  BY DEF Settled, Telling, Shown, Tells, Adds, Accepted
<1>2. \A r \in asked' : Backed(r)'
  BY DEF TellInv, Backed
<1> QED
  BY <1>1, <1>2 DEF TellInv, Adds

(* Something is told.                                                      *)
LEMMA ToldMore ==
  ASSUME TellInv, inbox \in Seq(Message), NEW m \in Message,
         inbox' = Append(inbox, m), UNCHANGED <<group_list, buddy_list>>,
         asked' \subseteq asked,
         srv_groups \subseteq DOMAIN group_list \cup srv_groups',
         Adds(m) => m.group \in DOMAIN group_list \cup srv_groups',
         \A v \in Users : IF Tells(m, v) THEN told'[v] = Accepted(m)
                                         ELSE told'[v] = told[v]
  PROVE  TellInv'
<1> DEFINE n == Len(inbox)
<1>1. /\ n \in Nat /\ DOMAIN inbox = 1 .. n /\ DOMAIN inbox' = 1 .. n + 1
      /\ inbox'[n + 1] = m /\ \A i \in 1 .. n : inbox'[i] = inbox[i]
  OBVIOUS
<1> HIDE DEF n
<1>2. \A r \in asked' : Backed(r)'
  BY DEF TellInv, Backed
<1>3. \A i \in DOMAIN inbox' :
        Adds(inbox'[i]) => inbox'[i].group \in DOMAIN group_list \cup srv_groups'
  <2> TAKE i \in DOMAIN inbox'
  <2>1. CASE i = n + 1
    BY <1>1, <2>1
  <2>2. CASE i \in 1 .. n
    BY <1>1, <2>2 DEF TellInv
  <2> QED
    BY <1>1, <2>1, <2>2
<1>4. ASSUME NEW v \in Users, Settled(v) PROVE Settled(v)'
  <2>1. Telling(v)' = Telling(v) \cup (IF Tells(m, v) THEN {n + 1} ELSE {})
    <3>1. \A i \in DOMAIN inbox' :
            i \in Telling(v)' <=> Tells(inbox'[i], v)
      BY DEF Telling, Tells, Adds
    <3>2. \A i \in 1 .. n : i \in Telling(v) <=> Tells(inbox[i], v)
      BY <1>1 DEF Telling
    <3>3. Telling(v) \subseteq 1 .. n /\ Telling(v)' \subseteq 1 .. n + 1
      BY <1>1 DEF Telling
    <3> QED
      BY <1>1, <3>1, <3>2, <3>3
  <2>2. Telling(v) \subseteq 1 .. n
    BY <1>1 DEF Telling
  <2>3. CASE Tells(m, v)
    <3>1. n + 1 \in Telling(v)' /\ told'[v] = Accepted(m)
      BY <2>1, <2>3
    <3>2. \A i \in Telling(v)' : (\A j \in Telling(v)' : j <= i) => i = n + 1
      BY <1>1, <2>1, <2>2, <3>1
    <3> QED
      BY <1>1, <3>1, <3>2 DEF Settled, Accepted
  <2>4. CASE ~Tells(m, v)
    <3>1. Telling(v)' = Telling(v) /\ told'[v] = told[v] /\ Shown' = Shown
      BY <2>1, <2>4 DEF Shown
    <3>2. \A i \in Telling(v) : inbox'[i] = inbox[i]
      BY <1>1, <2>2
    <3>3. \A i \in Telling(v)' :
            (\A j \in Telling(v)' : j <= i) => Accepted(inbox'[i]) = told'[v]
      BY <1>4, <3>1, <3>2 DEF Settled
    <3>4. Telling(v)' = {} /\ v \in Shown' =>
            buddy_list'[v].authorized = told'[v]
      BY <1>4, <3>1 DEF Settled
    <3> QED
      BY <3>3, <3>4 DEF Settled, Accepted
  <2> QED
    BY <2>3, <2>4
<1>5. srv_groups' \subseteq DOMAIN group_list' => \A v \in Users : Settled(v)'
  BY <1>4 DEF TellInv
<1> QED
  BY <1>2, <1>3, <1>5 DEF TellInv, Adds

(* What was told is read.                                                  *)
LEMMA ToldRead ==
  ASSUME TellInv, inbox \in Seq(Message), inbox # <<>>, Taken(Head(inbox)),
         UNCHANGED <<told, srv_groups>>
  PROVE  TellInv'
<1> DEFINE n == Len(inbox)
           m == Head(inbox)
<1>1. /\ n \in Nat /\ n >= 1 /\ DOMAIN inbox = 1 .. n
      /\ DOMAIN inbox' = 1 .. n - 1 /\ m = inbox[1]
      /\ \A i \in 1 .. n - 1 : inbox'[i] = inbox[i + 1]
  <2>1. inbox' = Tail(inbox)
    BY DEF Taken
  <2> QED
    BY <2>1
<1>2. /\ DOMAIN group_list' = DOMAIN group_list
      /\ \A r \in asked' : r \in asked \/ r.type = "get_info"
                         \/ (r.type = "accept" /\ Default \in DOMAIN group_list)
      /\ \A v \in Shown' :
           /\ Tells(m, v) /\ (Adds(m) => m.group \in DOMAIN group_list)
                => buddy_list'[v].authorized = Accepted(m)
           /\ ~Tells(m, v) => /\ v \in Shown
                              /\ buddy_list'[v].authorized =
                                    buddy_list[v].authorized
  BY DEF Taken
<1> HIDE DEF n, m
<1>3. \A r \in asked' : Backed(r)'
  BY <1>2 DEF TellInv, Backed
<1>4. \A i \in DOMAIN inbox' :
        Adds(inbox'[i]) =>
          inbox'[i].group \in DOMAIN group_list' \cup srv_groups'
  <2> TAKE i \in DOMAIN inbox'
  <2>1. i + 1 \in DOMAIN inbox /\ inbox'[i] = inbox[i + 1]
    BY <1>1
  <2> QED
    BY <1>2, <2>1 DEF TellInv
<1>5. ASSUME srv_groups \subseteq DOMAIN group_list,
             NEW v \in Users, Settled(v)
      PROVE  Settled(v)'
  <2>1. /\ Telling(v) \subseteq 1 .. n /\ Telling(v)' \subseteq 1 .. n - 1
        /\ \A i \in 1 .. n - 1 : i \in Telling(v)' <=> i + 1 \in Telling(v)
        /\ 1 \in Telling(v) <=> Tells(m, v)
    BY <1>1 DEF Telling, Tells, Adds
  <2>2. Adds(m) => m.group \in DOMAIN group_list
    BY <1>1, <1>5 DEF TellInv
  <2>3. ASSUME NEW i \in Telling(v)', \A j \in Telling(v)' : j <= i
        PROVE  Accepted(inbox'[i]) = told'[v]
    <3>1. i + 1 \in Telling(v) /\ inbox'[i] = inbox[i + 1]
      BY <1>1, <2>1
    <3>2. \A j \in Telling(v) : j <= i + 1
      <4> TAKE j \in Telling(v)
      <4>1. j \in 1 .. n /\ i \in 1 .. n - 1
        BY <2>1
      <4>2. CASE j = 1
        BY <4>1, <4>2
      <4>3. CASE j # 1
        <5>1. j - 1 \in 1 .. n - 1 /\ (j - 1) + 1 = j
          BY <1>1, <4>1, <4>3
        <5>2. j - 1 \in Telling(v)'
          BY <2>1, <5>1
        <5> QED
          BY <2>3, <4>1, <5>1, <5>2
      <4> QED
        BY <4>2, <4>3
    <3> QED
      BY <1>5, <3>1, <3>2 DEF Settled
  <2>4. ASSUME Telling(v)' = {}, v \in Shown'
        PROVE  buddy_list'[v].authorized = told'[v]
    <3>1. \A j \in Telling(v) : j = 1
      <4> TAKE j \in Telling(v)
      <4>1. j \in 1 .. n
        BY <2>1
      <4>2. j # 1 => j - 1 \in 1 .. n - 1 /\ (j - 1) + 1 = j
        BY <1>1, <4>1
      <4> QED
        BY <2>1, <2>4, <4>2
    <3>2. CASE Tells(m, v)
      <4>1. Telling(v) = {1}
        BY <2>1, <3>1, <3>2
      <4>2. Accepted(inbox[1]) = told[v]
        BY <1>5, <4>1 DEF Settled
      <4> QED
        BY <1>1, <1>2, <2>2, <2>4, <3>2, <4>2
    <3>3. CASE ~Tells(m, v)
      <4>1. Telling(v) = {}
        BY <2>1, <3>1, <3>3
      <4> QED
        BY <1>2, <1>5, <2>4, <3>3, <4>1 DEF Settled
    <3> QED
      BY <3>2, <3>3
  <2> QED
    BY <2>3, <2>4 DEF Settled, Accepted
<1>6. srv_groups' \subseteq DOMAIN group_list' => \A v \in Users : Settled(v)'
  BY <1>2, <1>5 DEF TellInv
<1> QED
  BY <1>3, <1>4, <1>6 DEF TellInv, Adds

(* The answer m to r.                                                      *)
Carries(m, r, ok, g, relation) ==
  /\ inbox' = Append(inbox, m) /\ m.group = g /\ m.relation = relation
  /\ \A v : Tells(m, v) <=>
            ok = TRUE /\ r.user = v /\ r.type \in {"add", "accept"}

LEMMA ReplyIs ==
  ASSUME IInv, NEW r \in Request, NEW ok \in BOOLEAN,
         NEW g \in Groups, NEW relation \in Relations,
         AnswerWith(r, ok, g, relation)
  PROVE  \E m \in Message : Carries(m, r, ok, g, relation)
<1> DEFINE m == [type |-> "answer", to |-> r, ok |-> ok, group |-> g,
                 relation |-> relation]
<1>1. /\ m \in Message /\ m.type = "answer" /\ m.to = r /\ m.ok = ok
      /\ m.group = g /\ m.relation = relation
  BY DEF Message, Reply
<1>2. inbox' = Append(inbox, m)
  BY DEF AnswerWith, Push
<1> HIDE DEF m
<1>3. \A v : Tells(m, v) <=>
             ok = TRUE /\ r.user = v /\ r.type \in {"add", "accept"}
  BY <1>1 DEF Tells, Adds
<1> QED
  BY <1>1, <1>2, <1>3 DEF Carries

LEMMA ToldByAnswer ==
  ASSUME IInv, TellInv, NEW r \in asked, Answer(r)
  PROVE  TellInv'
<1>1. /\ r \in Request /\ Backed(r) /\ inbox \in Seq(Message)
      /\ told \in [Users -> BOOLEAN] /\ Default \in Groups
      /\ 0 \in Relations /\ 1 \in Relations
      /\ asked' \subseteq asked /\ UNCHANGED <<group_list, buddy_list>>
  BY GroupAssumption
     DEF IInv, WireInv, ServerInv, TellInv, Answer, shownVars, Relations
<1>2. CASE Refuse(r) \/ (r.type = "get_info" /\ Grant(r))
  <2>1. UNCHANGED serverVars
    BY <1>2 DEF Refuse, Grant
  <2>2. PICK ok \in BOOLEAN :
          /\ AnswerWith(r, ok, Default, 0)
          /\ ok = FALSE \/ r.type = "get_info"
    <3>1. CASE Refuse(r)
      BY <3>1, Zenon DEF Refuse
    <3>2. CASE r.type = "get_info" /\ Grant(r)
      <4>1. AnswerWith(r, TRUE, Default, 0)
        BY <3>2 DEF Grant
      <4> QED
        BY <3>2, <4>1, Zenon
    <3> QED
      BY <1>2, <3>1, <3>2
  <2>3. PICK m \in Message : Carries(m, r, ok, Default, 0)
    BY <1>1, <2>2, ReplyIs
  <2>4. /\ inbox' = Append(inbox, m) /\ ~Adds(m)
        /\ \A v : ~Tells(m, v)
    BY <2>2, <2>3 DEF Carries, Tells
  <2> QED
    BY <1>1, <2>1, <2>3, <2>4, ToldMore DEF serverVars
<1>3. CASE r.type = "add" /\ Grant(r)
  <2>1. /\ AnswerWith(r, TRUE, Default, 0)
        /\ told' = [told EXCEPT ![r.user] = FALSE] /\ srv_groups' = srv_groups
    BY <1>3 DEF Grant
  <2>2. PICK m \in Message :
          /\ inbox' = Append(inbox, m) /\ m.group = Default
          /\ m.relation = 0 /\ \A v : Tells(m, v) <=> r.user = v
    <3>1. PICK ok \in BOOLEAN : ok = TRUE /\ AnswerWith(r, ok, Default, 0)
      BY <2>1, Zenon
    <3>2. PICK m \in Message : Carries(m, r, ok, Default, 0)
      BY <1>1, <2>1, <3>1, ReplyIs
    <3> QED
      BY <1>3, <3>1, <3>2 DEF Carries
  <2>3. m.group \in DOMAIN group_list
    BY <1>1, <1>3, <2>2 DEF Backed
  <2>4. \A v \in Users : IF Tells(m, v) THEN told'[v] = Accepted(m)
                                        ELSE told'[v] = told[v]
    <3>1. m.relation # 1 /\ told'[r.user] = FALSE
      BY <1>1, <1>3, <2>1, <2>2, RequestFields
    <3>2. Accepted(m) = told'[r.user]
      BY <3>1, Zenon DEF Accepted
    <3> QED
      BY <1>1, <2>1, <2>2, <3>2
  <2> QED
    BY <1>1, <2>1, <2>2, <2>3, <2>4, ToldMore
<1>4. CASE r.type = "accept" /\ Grant(r)
  <2>1. PICK g \in Groups :
          /\ AnswerWith(r, TRUE, g, 1)
          /\ g \in srv_groups \cup {Default}
          /\ told' = [told EXCEPT ![r.user] = TRUE]
          /\ srv_groups' = srv_groups
    <3> DEFINE c == IF r.user \in DOMAIN srv
                    THEN [srv[r.user] EXCEPT !.relation = 1]
                    ELSE [group |-> Default, relation |-> 1, name |-> FALSE]
    <3>1. /\ AnswerWith(r, TRUE, c.group, 1)
          /\ told' = [told EXCEPT ![r.user] = TRUE]
          /\ srv_groups' = srv_groups
      BY <1>4 DEF Grant
    <3>2. c.group \in Groups /\ c.group \in srv_groups \cup {Default}
      BY <1>1 DEF IInv, ServerInv, IsTable, Consistent, Contact
    <3> HIDE DEF c
    <3> QED
      BY <3>1, <3>2
  <2>2. PICK m \in Message :
          /\ inbox' = Append(inbox, m) /\ m.group = g
          /\ m.relation = 1 /\ \A v : Tells(m, v) <=> r.user = v
    <3>1. PICK ok \in BOOLEAN : ok = TRUE /\ AnswerWith(r, ok, g, 1)
      BY <2>1, Zenon
    <3>2. PICK m \in Message : Carries(m, r, ok, g, 1)
      BY <1>1, <2>1, <3>1, ReplyIs
    <3> QED
      BY <1>4, <3>1, <3>2 DEF Carries
  <2>3. m.group \in DOMAIN group_list \cup srv_groups
    BY <1>1, <1>4, <2>1, <2>2 DEF Backed
  <2>4. \A v \in Users : IF Tells(m, v) THEN told'[v] = Accepted(m)
                                        ELSE told'[v] = told[v]
    BY <1>1, <2>1, <2>2 DEF Accepted
  <2> QED
    BY <1>1, <2>1, <2>2, <2>3, <2>4, ToldMore
<1>5. CASE /\ r.type \in {"remove", "rename", "move", "remove_group",
                          "rename_group"}
           /\ Grant(r)
  <2>1. inbox' = inbox /\ told' = told
    BY <1>5 DEF Grant
  <2>2. srv_groups \subseteq DOMAIN group_list \cup srv_groups'
    BY <1>1, <1>5 DEF Grant, Backed
  <2> QED
    BY <1>1, <2>1, <2>2, ToldBefore
<1> QED
  BY <1>1, <1>2, <1>3, <1>4, <1>5, RequestFields DEF Answer

LEMMA ToldByServer ==
  ASSUME IInv, TellInv, Server
  PROVE  TellInv'
<1>1. inbox \in Seq(Message) /\ told \in [Users -> BOOLEAN]
  BY DEF IInv, WireInv, ServerInv
<1>2. ServerStep =>
        asked' = asked /\ asked' \subseteq asked
        /\ UNCHANGED <<group_list, buddy_list>>
  BY DEF ServerStep, shownVars
<1>3. ASSUME NEW u \in Users, NEW g \in Groups, NEW r \in 0 .. 1,
             OtherClientAdds(u, g, r)
      PROVE  TellInv'
  BY <1>2, <1>3, ToldBefore DEF OtherClientAdds
<1>4. ASSUME NEW u \in Users, OtherClientRemoves(u) PROVE TellInv'
  BY <1>2, <1>4, ToldBefore DEF OtherClientRemoves
<1>5. ASSUME NEW u \in Users, NEW r \in Relations, RelationChanges(u, r)
      PROVE  TellInv'
  <2>1. ServerStep /\ srv_groups' = srv_groups
    BY <1>5 DEF RelationChanges
  <2>2. CASE connected
    <3> DEFINE m == [type |-> "sync", user |-> u, relation |-> r]
    <3>1. /\ inbox' = Append(inbox, m)
          /\ told' = [told EXCEPT ![u] = IF r = 0 THEN @ ELSE r = 1]
      BY <1>5, <2>2 DEF RelationChanges, Push
    <3>2. m \in Message /\ ~Adds(m) /\ Accepted(m) = (r = 1)
          /\ \A v : Tells(m, v) <=> v = u /\ r # 0
      BY DEF Message, Sync, Adds, Tells, Accepted
    <3> HIDE DEF m
    <3>3. \A v \in Users : IF Tells(m, v) THEN told'[v] = Accepted(m)
                                          ELSE told'[v] = told[v]
      BY <1>1, <3>1, <3>2
    <3> QED
      BY <1>1, <1>2, <2>1, <3>1, <3>2, <3>3, ToldMore
  <2>3. CASE ~connected
    <3>1. inbox' = inbox /\ told' = told
      BY <1>5, <2>3 DEF RelationChanges
    <3> QED
      BY <1>2, <2>1, <3>1, ToldBefore
  <2> QED
    BY <2>2, <2>3
<1>6. ASSUME NEW m \in Message, inbox' = Append(inbox, m),
             m.type \in {"presence", "application"},
             ServerStep, UNCHANGED serverVars
      PROVE  TellInv'
  <2>1. ~Adds(m) /\ \A v : ~Tells(m, v)
    BY <1>6 DEF Adds, Tells
  <2> QED
    BY <1>1, <1>2, <1>6, <2>1, ToldMore DEF serverVars
<1>7. ASSUME NEW u \in Users, NEW s \in States \cup {"none"},
             NEW n \in BOOLEAN, PushPresence(u, s, n)
      PROVE  TellInv'
  <2>1. PICK m : m = [type |-> "presence", user |-> u, state |-> s, name |-> n]
    OBVIOUS
  <2>2. m \in Message /\ m.type = "presence"
    BY <2>1 DEF Message, Presence
  <2> QED
    BY <1>6, <1>7, <2>1, <2>2 DEF PushPresence, Push
<1>8. ASSUME NEW u \in Users, PushApplication(u) PROVE TellInv'
  <2>1. PICK m : m = [type |-> "application", user |-> u]
    OBVIOUS
  <2>2. m \in Message /\ m.type = "application"
    BY <2>1 DEF Message, Application
  <2> QED
    BY <1>6, <1>8, <2>1, <2>2 DEF PushApplication, Push
<1> QED
  BY <1>3, <1>4, <1>5, <1>7, <1>8, ToldByAnswer DEF Server

(* What a call of the user asks for rests on groups that are there.        *)
LEMMA CallIsBacked ==
  ASSUME User
  PROVE  \/ Die
         \/ /\ UNCHANGED <<inbox, told, srv_groups, group_list, buddy_list>>
            /\ \A r \in asked' : r \in asked \/ Backed(r)
<1> DEFINE Asks == /\ UNCHANGED <<inbox, told, srv_groups, group_list,
                                  buddy_list>>
                   /\ \A r \in asked' : r \in asked \/ Backed(r)
<1>1. \A R : (\A r \in R : Backed(r)) /\ Send(R) /\ UNCHANGED serverVars
               => Asks
  BY DEF Send, shownVars, serverVars
<1>2. /\ \A users, g : \A r \in Moves(users, g) : Backed(r)
      /\ \A u : Default \in DOMAIN group_list => Backed(AddRequest(u))
      /\ \A u : Backed(RemoveRequest(u)) /\ Backed(RenameRequest(u))
      /\ \A g \in DOMAIN group_list :
           /\ Backed([type |-> "remove_group", group |-> g])
           /\ Backed([type |-> "rename_group", group |-> g])
  BY DEF Moves, Backed, AddRequest, RemoveRequest, RenameRequest
<1> HIDE DEF Asks
<1>3. ASSUME NEW u, NEW g, SetContactGroups(u, g) PROVE Die \/ Asks
  BY <1>1, <1>2, <1>3 DEF SetContactGroups, Call
<1>4. ASSUME NEW u, NEW g, AddToGroup(g, u) PROVE Die \/ Asks
  BY <1>1, <1>2, <1>4 DEF AddToGroup, Call
<1>5. ASSUME NEW u, NEW g, RemoveFromGroup(g, u) PROVE Die \/ Asks
  BY <1>1, <1>2, <1>5 DEF RemoveFromGroup, Call
<1>6. ASSUME NEW g, NEW users, SetGroupMembers(g, users) PROVE Die \/ Asks
  BY <1>1, <1>2, <1>6 DEF SetGroupMembers, Call
<1>7. ASSUME NEW u, NEW number, RequestSubscription(u, number)
      PROVE  Die \/ Asks
  BY <1>1, <1>2, <1>7 DEF RequestSubscription, Call
<1>8. ASSUME NEW u, \/ RemoveContacts(u) \/ SetAliases(u)
                    \/ GetContactStatuses(u) \/ RequestAliases(u)
      PROVE  Die \/ Asks
  BY <1>1, <1>2, <1>8
     DEF RemoveContacts, SetAliases, GetContactStatuses, RequestAliases, Call
<1>9. ASSUME NEW g, RemoveGroup(g) \/ RenameGroup(g) PROVE Die \/ Asks
  BY <1>1, <1>2, <1>9 DEF RemoveGroup, RenameGroup, CanEdit, Call
<1> QED
  BY <1>3, <1>4, <1>5, <1>6, <1>7, <1>8, <1>9 DEF User, Asks

LEMMA ToldAlways == IInv /\ TellInv /\ [Next]_vars => TellInv'
<1> SUFFICES ASSUME IInv, TellInv, [Next]_vars PROVE TellInv'
  OBVIOUS
<1>1. CASE Login
  BY <1>1, ToldAtLogin
<1>2. CASE Close \/ Die
  <2>1. inbox' = <<>> /\ asked' = {} /\ Shown' = {}
    BY <1>2 DEF Close, Die, Shown, Empty
  <2> QED
    BY <2>1, NothingTold
<1>3. CASE Handle
  <2>1. /\ inbox # <<>> /\ inbox \in Seq(Message)
        /\ UNCHANGED <<told, srv_groups>>
        /\ Die \/ Taken(Head(inbox))
    BY <1>3, HandleKeeps DEF IInv, WireInv, serverVars
  <2> QED
    BY <1>2, <2>1, ToldRead
<1>4. CASE Server
  BY <1>4, ToldByServer
<1>5. CASE User
  BY <1>2, <1>5, CallIsBacked, ToldBefore
<1>6. CASE UNCHANGED vars
  BY <1>6, ToldBefore DEF vars, serverVars, wireVars, shownVars
<1> QED
  BY <1>1, <1>2, <1>3, <1>4, <1>5, <1>6 DEF Next, Disconnect, SetOffline

LEMMA ToldAtStart == Init => TellInv
<1> SUFFICES ASSUME Init PROVE TellInv
  OBVIOUS
<1>1. inbox = <<>> /\ asked = {} /\ Shown = {} /\ DOMAIN <<>> = {}
  BY DEF Init, Shown, Empty
<1> QED
  BY <1>1 DEF TellInv, Settled, Telling

-----------------------------------------------------------------------------
(* The theorems.                                                           *)

LEMMA StutterKeeps ==
  ASSUME IInv, UNCHANGED vars
  PROVE  IInv'
<1>1. TablesInv'
  BY TablesSame DEF vars, IInv
<1>2. ServerInv'
  BY DEF vars, IInv, ServerInv, serverVars, Consistent
<1>3. WireInv'
  BY DEF vars, wireVars, serverVars, IInv, WireInv, DefaultProtected, Adds
<1>4. SessionInv'
  BY DEF vars, wireVars, boundVars, shownVars, IInv, SessionInv, Idle, Known,
         Shown
<1>5. TreeInv'
  BY DEF vars, serverVars, shownVars, IInv, TreeInv
<1> QED
  BY <1>1, <1>2, <1>3, <1>4, <1>5 DEF IInv

LEMMA StepKeeps == IInv /\ [Next]_vars => IInv'
<1> SUFFICES ASSUME IInv, [Next]_vars PROVE IInv'
  OBVIOUS
<1>1. CASE Login
  BY <1>1, LoginKeeps
<1>2. CASE Disconnect
  BY <1>2, CloseKeeps DEF Disconnect
<1>3. CASE SetOffline
  BY <1>3, CloseKeeps DEF SetOffline, IInv, SessionInv
<1>4. CASE Handle
  BY <1>4, HandleKeeps
<1>5. CASE Server
  BY <1>5, ServerInvKeeps
<1>6. CASE User
  BY <1>6, UserKeeps
<1>7. CASE UNCHANGED vars
  BY <1>7, StutterKeeps
<1> QED
  BY <1>1, <1>2, <1>3, <1>4, <1>5, <1>6, <1>7 DEF Next

LEMMA IsInvariant == Spec => []IInv
BY Start, StepKeeps, PTL DEF Spec

(* Every variable keeps its type: no count of a group becomes negative     *)
(* (hybrid_blist_set_buddy_state), whatever is pushed in whatever order.   *)
THEOREM TypeCorrect == Spec => []TypeOK
<1>1. IInv => TypeOK
  BY DEF IInv, ServerInv, WireInv, SessionInv, TablesInv, TablesType, TypeOK
<1> QED
  BY <1>1, IsInvariant, PTL

(* process_presence finds everybody it is told about in the list that is   *)
(* shown, in a group that is there: buddy_add_cb and fetion_buddies_init   *)
(* always change both lists.                                               *)
THEOREM ListsAgree == Spec => []KnownShown
<1>1. IInv => KnownShown
  BY DEF IInv, TablesInv
<1> QED
  BY <1>1, IsInvariant, PTL

(* The handles dup_contacts gives to the clients are those of the buddies  *)
(* that are shown, on every connection.                                    *)
THEOREM HandlesResolve == Spec => []ContactsResolve
<1>1. IInv => ContactsResolve
  BY DEF IInv, TablesInv
<1> QED
  BY <1>1, IsInvariant, PTL

(* buddy_count and online_count count, for any number of people.           *)
THEOREM CountsCount == Spec => []CountsMatch
<1>1. IInv => CountsMatch
  BY DEF IInv, TablesInv
<1> QED
  BY <1>1, IsInvariant, PTL

(* The state shown is the state ac->buddies has.                           *)
THEOREM SameState == Spec => []StatesAgree
<1>1. IInv => StatesAgree
  BY DEF IInv, TablesInv
<1> QED
  BY <1>1, IsInvariant, PTL

(* A name that is known of somebody online is shown.                       *)
THEOREM NameIsShown == Spec => []OnlineNamed
<1>1. IInv => OnlineNamed
  BY DEF IInv, TablesInv
<1> QED
  BY <1>1, IsInvariant, PTL

(* The XML tree of a connected account says what is shown.                 *)
THEOREM TreeSaysShown == Spec => []TreeMatches
<1>1. IInv => TreeMatches
  BY DEF IInv, TablesInv
<1> QED
  BY <1>1, IsInvariant, PTL

(* No request about the group "0" is sent in any session of a process: the *)
(* tree a login loads has that group only when the list of the login has   *)
(* it too (TreeInv), for then fetion_groups_init protects it.              *)
THEOREM UngroupedIsKept == Spec => []DefaultProtected
<1>1. IInv => DefaultProtected
  BY DEF IInv, WireInv
<1> QED
  BY <1>1, IsInvariant, PTL

(* A login shows the server's list, from the tree or from the answer.      *)
THEOREM LoginShowsList == Spec => ExactAtLogin
<1> DEFINE Exact ==
      ~connected /\ connected' =>
        /\ DOMAIN buddy_list' = DOMAIN srv
        /\ \A u \in DOMAIN srv :
             /\ buddy_list'[u].group = srv[u].group
             /\ buddy_list'[u].authorized = (srv[u].relation = 1)
<1>1. IInv /\ [Next]_vars => [Exact]_vars
  <2> SUFFICES ASSUME IInv, Next, ~connected, connected' PROVE Exact
    OBVIOUS
  <2>1. CASE Login
    BY <2>1, LoginKeeps
  <2>2. ~Disconnect /\ ~SetOffline
    BY DEF Disconnect, SetOffline, Close
  <2>3. ~Handle
    BY DEF Handle, IInv, SessionInv, Idle
  <2>4. ~Server
    BY DEF Server, OtherClientAdds, OtherClientRemoves, PushApplication,
           RelationChanges, PushPresence, Answer, ServerStep
  <2>5. ~User
    BY DEF User, Call, SetContactGroups, AddToGroup, RemoveFromGroup,
           SetGroupMembers, RequestSubscription, RemoveContacts, SetAliases,
           GetContactStatuses, RequestAliases, RemoveGroup, RenameGroup, Send,
           Die
  <2> QED
    BY <2>1, <2>2, <2>3, <2>4, <2>5 DEF Next
<1> QED
  BY <1>1, IsInvariant, PTL DEF Spec, ExactAtLogin

(* Once all that was said about a buddy is read, he is shown as authorized *)
(* if and only if that is what the server told last (process_sync_info,    *)
(* buddy_add_cb and handle_request_cb in any order).                       *)
THEOREM AuthorizedIsTold == Spec => []AuthorizedSettled
<1>1. IInv /\ TellInv => AuthorizedSettled
  <2> SUFFICES ASSUME IInv, TellInv, NEW u \in Shown,
                      srv_groups \subseteq DOMAIN group_list, About(u) = {}
               PROVE  buddy_list[u].authorized <=> told[u]
    BY DEF AuthorizedSettled
  <2>1. u \in Users
    BY DEF IInv, TablesInv, TablesType, IsTable, Shown
  <2>2. Telling(u) = {}
    BY DEF Telling, Tells, Adds, About
  <2> QED
    BY <2>1, <2>2 DEF TellInv, Settled
<1> QED
  BY <1>1, IsInvariant, ToldAtStart, ToldAlways, PTL DEF Spec
=============================================================================
