------------------------------ MODULE Contacts ------------------------------
(***************************************************************************)
(* The contact list, which the process keeps four times: as the protocol   *)
(* knows it (ac->buddies), as tables of HybridBuddy and HybridGroup, as    *)
(* the set of Telepathy handles (account->contacts), and as the XML tree   *)
(* that is read back at the next login.  Requests of the user change none  *)
(* of them: the answer does, if it carries anything, or a push.            *)
(*                                                                         *)
(* All pushes and answers come over one connection, in the order the       *)
(* server wrote them; a push about several buddies is several pushes.  The *)
(* server and the user's other clients are external.  Left out: how a      *)
(* login fails (FxLogin), what the files hold after a restart (FxConfig),  *)
(* moods, pictures, the text of names, and a failing send on a live        *)
(* connection.  Group names stand for group ids.                           *)
(***************************************************************************)
EXTENDS Integers, Sequences, FiniteSets

CONSTANTS
  Users,       \* the people that may be in the contact list
  Groups,      \* the groups they may be in
  Default,     \* group "0", "Ungrouped", which the server never lists
  MaxLogins,   \* bound: connections, one after the other
  MaxCalls,    \* bound: requests of the user
  MaxPushes    \* bound: changes and pushes the server makes by itself

ASSUME GroupAssumption == Default \in Groups

ASSUME UsersAssumption == IsFiniteSet(Users)

ASSUME BoundAssumption ==
  MaxLogins \in Nat /\ MaxCalls \in Nat /\ MaxPushes \in Nat

(* relation-status: 1 is authorized, 2 is refused, 0 is not known.         *)
Relations == 0 .. 2

(* buddy->state, as process_presence sorts it.                             *)
States == {"offline", "away", "online"}

(* What the server, ac->buddies, the tables and the tree say of a buddy.   *)
(* "name" tells whether there is one that is not empty.                    *)
Contact     == [group : Groups, relation : Relations, name : BOOLEAN]
FetionBuddy == [state : States, name : BOOLEAN]
HybridBuddy == [group : Groups, state : States, authorized : BOOLEAN,
                name : BOOLEAN]
HybridGroup == [buddy_count : Nat, online_count : Nat, renamable : BOOLEAN]
BuddyNode   == [user : Users, group : Groups, authorized : BOOLEAN,
                name : BOOLEAN]

(* The requests, by what their bodies say.                                 *)
BuddyRequest ==
       [type : {"add", "accept", "get_info", "remove", "rename"}, user : Users]
  \cup [type : {"move"}, user : Users, group : Groups]
GroupRequest == [type : {"remove_group", "rename_group"}, group : Groups]
Request      == BuddyRequest \cup GroupRequest

(* The pushes, by what sip_parse_* read of them, and the answers.          *)
Presence    == [type : {"presence"}, user : Users,
                state : States \cup {"none"}, name : BOOLEAN]
Sync        == [type : {"sync"}, user : Users, relation : Relations]
Application == [type : {"application"}, user : Users]
Reply       == [type : {"answer"}, to : Request, ok : BOOLEAN,
                group : Groups, relation : Relations]
Message     == Presence \cup Sync \cup Application \cup Reply

VARIABLES
  srv,         \* the server: the contact list, by user
  srv_groups,  \* the server: the groups in it, without the default one
  changed,     \* the server's list is not the one of the last login
  told,        \* by user: what the server last told is that he accepted
  inbox,       \* what the server sent and the process has not read
  asked,       \* requests the server has not answered
  tp,          \* the Telepathy connection is CONNECTED
  connected,   \* the account is: account->connect_state
  ac_buddies,  \* ac->buddies: the entries of each user, in their order
  group_list,  \* HybridAccount.group_list
  buddy_list,  \* HybridAccount.buddy_list
  contacts,    \* account->contacts
  tree,        \* the groups and buddies of this account in blist_cache
  crashed,     \* NULL was used, or an assertion failed
  logins, calls, pushes

serverVars == <<srv, srv_groups, changed, told>>
wireVars   == <<inbox, asked>>
shownVars  == <<group_list, buddy_list, contacts, tree>>
boundVars  == <<logins, calls, pushes>>

vars == <<serverVars, wireVars, tp, connected, ac_buddies, shownVars,
          crashed, boundVars>>

Table(S, T) == UNION {[D -> T] : D \in SUBSET S}
IsTable(t, S, T) ==
  /\ DOMAIN t \subseteq S
  /\ t = [x \in DOMAIN t |-> t[x]]
  /\ \A x \in DOMAIN t : t[x] \in T

Empty == [x \in {} |-> x]

EmptyTree == [groups |-> {}, buddies |-> {}]

Shown == DOMAIN buddy_list
Known == {u \in Users : ac_buddies[u] # <<>>}

(* fetion_buddy_find_by_userid.                                            *)
Find(u) == Head(ac_buddies[u])

Consistent(list, groups) ==
  \A u \in DOMAIN list : list[u].group \in groups \cup {Default}

(* At first nobody has refused, which to a login is the same as 0, and     *)
(* either everybody was given a name or nobody.                            *)
Init ==
  /\ \E named \in BOOLEAN :
       srv \in Table(Users, [group : Groups, relation : 0 .. 1,
                            name : {named}])
  /\ srv_groups \in SUBSET (Groups \ {Default})
  /\ Consistent(srv, srv_groups)
  /\ changed = TRUE /\ told = [u \in Users |-> FALSE]
  /\ inbox = <<>> /\ asked = {}
  /\ tp = FALSE /\ connected = FALSE
  /\ ac_buddies = [u \in Users |-> <<>>]
  /\ group_list = Empty /\ buddy_list = Empty /\ contacts = {}
  /\ tree = EmptyTree
  /\ crashed = FALSE
  /\ logins = 0 /\ calls = 0 /\ pushes = 0

-----------------------------------------------------------------------------
(* The tables                                                              *)

(* hybrid_blist_buddy_to_cache: the buddy's node below the node of its     *)
(* group, which is made when there is none.                                *)
Cached(t, u, b) ==
  [t EXCEPT !.buddies =
     {n \in @ : ~(n.user = u /\ n.group = b.group)}
       \cup {[user |-> u, group |-> b.group, authorized |-> b.authorized,
              name |-> b.name]}]

\* Slip: the new status does not reach the tree.
SetStatus_NotCached(u, authorized) ==
  /\ buddy_list' = [buddy_list EXCEPT ![u].authorized = authorized]
  /\ UNCHANGED <<group_list, contacts, tree>>

(* hybrid_blist_set_buddy_status.                                          *)
SetStatus(u, authorized) ==
  /\ buddy_list' = [buddy_list EXCEPT ![u].authorized = authorized]
  /\ tree' = Cached(tree, u, buddy_list'[u])
  /\ UNCHANGED <<group_list, contacts>>

(* hybrid_blist_add_buddy, and then hybrid_blist_set_buddy_status: a buddy *)
(* that is there already stays as it is but for its status.                *)
AddBuddy(u, g, authorized) ==
  LET b == [group |-> g, state |-> "offline", authorized |-> authorized,
            name |-> FALSE]
  IN  \/ /\ u \in Shown
         /\ SetStatus(u, authorized)
      \/ /\ u \notin Shown
         /\ buddy_list' = [v \in Shown \cup {u} |->
                             IF v = u THEN b ELSE buddy_list[v]]
         /\ contacts' = contacts \cup {u}
         /\ group_list' = [group_list EXCEPT ![g].buddy_count = @ + 1]
         /\ tree' = Cached(tree, u, b)

(* How hybrid_blist_set_buddy_state changes the count of the group.        *)
\* Slip: every state but offline counts as coming online.
OnlineStep_Always(old, new) ==
  IF new = "offline" THEN (IF old = "offline" THEN 0 ELSE -1) ELSE 1

\* Slip: every step to offline counts as going offline.
OnlineStep_Down(old, new) ==
  IF new = "offline" THEN -1 ELSE IF old = "offline" THEN 1 ELSE 0

OnlineStep(old, new) ==
  CASE old # "offline" /\ new = "offline" -> -1
    [] old = "offline" /\ new # "offline" -> 1
    [] OTHER -> 0

(* hybrid_blist_set_buddy_state and hybrid_blist_set_buddy_name, the name  *)
(* when one is given.                                                      *)
SetStateAndName(u, state, name) ==
  LET old == buddy_list[u]
      b   == [old EXCEPT !.state = state, !.name = @ \/ name]
  IN  /\ buddy_list' = [buddy_list EXCEPT ![u] = b]
      /\ group_list' = [group_list EXCEPT
                          ![old.group].online_count =
                            @ + OnlineStep(old.state, state)]
      /\ tree' = Cached(tree, u, b)
      /\ UNCHANGED contacts

-----------------------------------------------------------------------------
(* Connecting and closing                                                  *)

\* Slip: the tree is kept although the server's list is another one.
LoadedTree_Kept == tree

(* The tree load_blist_from_disk reads: hybrid_account_clear_buddy has     *)
(* emptied it if the list's version is not the one of the last login.      *)
LoadedTree == IF changed THEN EmptyTree ELSE tree

(* get_contact_list: the groups of the list, with group "0" when somebody  *)
(* is in none of them.                                                     *)
ListGroups ==
  srv_groups \cup (IF \E u \in DOMAIN srv : srv[u].group = Default
                   THEN {Default} ELSE {})

(* The groups of both: each is put into the tree when it is made.          *)
GroupsAtLogin == LoadedTree.groups \cup ListGroups

(* A group is made renamable.  That is written into its node of the tree   *)
(* before load_blist_from_disk reads the node, so that it is what is read  *)
(* back, whatever the node said.  Then fetion_groups_init protects         *)
(* "Ungrouped", if the list of this login has it.                          *)
Renamable(g) == g \notin ListGroups \cap {Default}

(* The buddies of a loaded tree, and those of the list that are not there. *)
Nodes(u) == {n \in LoadedTree.buddies : n.user = u}

\* Slip: somebody who did not accept yet is not shown.
ShownAtLogin_Accepted ==
  {n.user : n \in LoadedTree.buddies}
    \cup {u \in DOMAIN srv : srv[u].relation = 1}

ShownAtLogin == {n.user : n \in LoadedTree.buddies} \cup DOMAIN srv

(* load_blist_from_disk, and then fetion_buddies_init, which gives a buddy *)
(* that is there no more than a new status.                                *)
BuddyAtLogin(u) ==
  LET node == CHOOSE n \in Nodes(u) : TRUE
      load == Nodes(u) # {}
  IN  [group      |-> IF load THEN node.group ELSE srv[u].group,
       state      |-> "offline",
       authorized |-> IF u \in DOMAIN srv THEN srv[u].relation = 1
                      ELSE node.authorized,
       name       |-> IF load THEN node.name ELSE srv[u].name]

\* Slip: the set of handles of the last connection is used again.
HandlesAtStart_Kept == contacts

(* start_connecting makes a new set of handles.                            *)
HandlesAtStart == {}

(* start_connecting, and the answer to the authentication, which is one    *)
(* callback: the list is read, hybrid_account_set_connection_status loads  *)
(* the tree, the groups and buddies are added to it and the subscription   *)
(* is sent.                                                                *)
Login ==
  LET list == [u \in ShownAtLogin |-> BuddyAtLogin(u)]
  IN  /\ ~tp /\ ~crashed /\ logins < MaxLogins
      /\ logins' = logins + 1
      /\ tp' = TRUE /\ connected' = TRUE /\ changed' = FALSE
      /\ told' = [u \in Users |-> u \in DOMAIN srv /\ srv[u].relation = 1]
      /\ ac_buddies' =
           [u \in Users |->
              IF u \in DOMAIN srv
              THEN <<[state |-> "offline", name |-> srv[u].name]>> ELSE <<>>]
      /\ buddy_list' = list
      /\ contacts' = HandlesAtStart \cup ShownAtLogin
      /\ group_list' =
           [g \in GroupsAtLogin |->
              [buddy_count  |-> Cardinality({u \in ShownAtLogin :
                                               list[u].group = g}),
               online_count |-> 0,
               renamable    |-> Renamable(g)]]
      /\ tree' = [groups |-> GroupsAtLogin,
                  buddies |-> {[user |-> u, group |-> list[u].group,
                                authorized |-> list[u].authorized,
                                name |-> list[u].name] : u \in ShownAtLogin}]
      /\ UNCHANGED <<srv, srv_groups, wireVars, crashed, calls, pushes>>

(* hybrid_account_close and fx_close.  The set of handles stays, and what  *)
(* was on the way is lost with the socket.                                 *)
Close ==
  /\ connected' = FALSE
  /\ ac_buddies' = [u \in Users |-> <<>>]
  /\ group_list' = Empty /\ buddy_list' = Empty
  /\ inbox' = <<>> /\ asked' = {}
  /\ UNCHANGED <<contacts, tree>>

(* shut_down, and the ways a connection is lost.                           *)
Disconnect ==
  /\ tp
  /\ tp' = FALSE
  /\ Close
  /\ UNCHANGED <<serverVars, crashed, boundVars>>

(* set_own_status, going offline: the account is closed, the Telepathy     *)
(* connection is not.                                                      *)
SetOffline ==
  /\ connected
  /\ Close
  /\ UNCHANGED <<serverVars, tp, crashed, boundVars>>

-----------------------------------------------------------------------------
(* The server and the user's other clients                                 *)

Push(m) == inbox' = Append(inbox, m)

ServerStep ==
  /\ ~crashed /\ pushes < MaxPushes
  /\ pushes' = pushes + 1
  /\ UNCHANGED <<tp, connected, ac_buddies, shownVars, crashed, asked,
                 logins, calls>>

(* Another client changes the list: it asks for somebody, or accepts him.  *)
(* Such a sync has no "update" in it, and sip_parse_sync takes nothing     *)
(* else.                                                                   *)
OtherClientAdds(u, g, relation) ==
  /\ ServerStep
  /\ u \notin DOMAIN srv
  /\ srv' = [v \in DOMAIN srv \cup {u} |->
               IF v = u
               THEN [group |-> g, relation |-> relation, name |-> FALSE]
               ELSE srv[v]]
  /\ srv_groups' = srv_groups \cup ({g} \ {Default})
  /\ changed' = TRUE
  /\ UNCHANGED <<told, inbox>>

OtherClientRemoves(u) ==
  /\ ServerStep
  /\ u \in DOMAIN srv
  /\ srv' = [v \in DOMAIN srv \ {u} |-> srv[v]]
  /\ changed' = TRUE
  /\ UNCHANGED <<srv_groups, told, inbox>>

(* Somebody accepts or refuses the user, who is told.                      *)
RelationChanges(u, relation) ==
  /\ ServerStep
  /\ u \in DOMAIN srv /\ srv[u].relation # relation
  /\ srv' = [srv EXCEPT ![u].relation = relation]
  /\ changed' = TRUE
  /\ IF connected
     THEN /\ Push([type |-> "sync", user |-> u, relation |-> relation])
          /\ told' = [told EXCEPT ![u] = IF relation = 0 THEN @
                                         ELSE relation = 1]
     ELSE UNCHANGED <<inbox, told>>
  /\ UNCHANGED srv_groups

(* A presence that tells neither state nor name changes nothing here.      *)
PushPresence(u, state, name) ==
  /\ ServerStep
  /\ connected /\ u \in DOMAIN srv
  /\ state # "none" \/ name
  /\ Push([type |-> "presence", user |-> u, state |-> state, name |-> name])
  /\ UNCHANGED serverVars

PushApplication(u) ==
  /\ ServerStep
  /\ connected
  /\ u \in DOMAIN srv => srv[u].relation # 1
  /\ Push([type |-> "application", user |-> u])
  /\ UNCHANGED serverVars

Listed(u, contact) ==
  srv' = [v \in DOMAIN srv \cup {u} |-> IF v = u THEN contact ELSE srv[v]]

AnswerWith(r, ok, group, relation) ==
  Push([type |-> "answer", to |-> r, ok |-> ok, group |-> group,
        relation |-> relation])

(* The server refuses a request.  The other ones it may leave as they are: *)
(* nobody looks at what it says of them.                                   *)
Refuse(r) ==
  /\ r.type \in {"add", "accept", "get_info"}
  /\ AnswerWith(r, FALSE, Default, 0)
  /\ UNCHANGED serverVars

(* A buddy that is listed is not added twice.                              *)
Grant(r) ==
  CASE r.type = "add" ->
         /\ r.user \notin DOMAIN srv
         /\ Listed(r.user,
                   [group |-> Default, relation |-> 0, name |-> FALSE])
         /\ AnswerWith(r, TRUE, Default, 0)
         /\ told' = [told EXCEPT ![r.user] = FALSE]
         /\ changed' = TRUE /\ UNCHANGED srv_groups
    [] r.type = "accept" ->
         LET contact ==
               IF r.user \in DOMAIN srv
               THEN [srv[r.user] EXCEPT !.relation = 1]
               ELSE [group |-> Default, relation |-> 1, name |-> FALSE]
         IN  /\ Listed(r.user, contact)
             /\ AnswerWith(r, TRUE, contact.group, 1)
             /\ told' = [told EXCEPT ![r.user] = TRUE]
             /\ changed' = TRUE /\ UNCHANGED srv_groups
    [] r.type = "get_info" ->
         /\ AnswerWith(r, TRUE, Default, 0)
         /\ UNCHANGED serverVars
    [] r.type = "remove" ->
         /\ srv' = [u \in DOMAIN srv \ {r.user} |-> srv[u]]
         /\ changed' = TRUE /\ UNCHANGED <<srv_groups, told, inbox>>
    [] r.type = "rename" ->
         /\ r.user \in DOMAIN srv
         /\ srv' = [srv EXCEPT ![r.user].name = TRUE]
         /\ changed' = TRUE /\ UNCHANGED <<srv_groups, told, inbox>>
    [] r.type = "move" ->
         /\ r.user \in DOMAIN srv /\ r.group \in srv_groups \cup {Default}
         /\ srv' = [srv EXCEPT ![r.user].group = r.group]
         /\ changed' = TRUE /\ UNCHANGED <<srv_groups, told, inbox>>
    [] r.type = "remove_group" ->
         /\ \A u \in DOMAIN srv : srv[u].group # r.group
         /\ srv_groups' = srv_groups \ {r.group}
         /\ changed' = TRUE /\ UNCHANGED <<srv, told, inbox>>
    [] r.type = "rename_group" ->
         changed' = TRUE /\ UNCHANGED <<srv, srv_groups, told, inbox>>

Answer(r) ==
  /\ asked' = asked \ {r}
  /\ Refuse(r) \/ Grant(r)
  /\ UNCHANGED <<tp, connected, ac_buddies, shownVars, crashed, boundVars>>

-----------------------------------------------------------------------------
(* What the process does with what it reads                                *)

(* NULL is used or an assertion fails: the process is gone.                *)
Die ==
  /\ crashed' = TRUE /\ tp' = FALSE /\ connected' = FALSE
  /\ inbox' = <<>> /\ asked' = {}
  /\ ac_buddies' = [u \in Users |-> <<>>]
  /\ group_list' = Empty /\ buddy_list' = Empty /\ contacts' = {}
  /\ tree' = EmptyTree

Read == inbox' = Tail(inbox) /\ UNCHANGED <<tp, connected, crashed>>

InfoRequest(u)   == [type |-> "get_info", user |-> u]
AcceptRequest(u) == [type |-> "accept", user |-> u]

(* process_presence.  A presence of nobody known is not looked at.         *)
HandlePresence(m) ==
  LET u  == m.user
      fb == [state |-> IF m.state = "none" THEN Find(u).state ELSE m.state,
             name  |-> Find(u).name \/ m.name]
  IN  IF u \notin Known
      THEN Read /\ UNCHANGED <<ac_buddies, shownVars, asked>>
      ELSE IF u \notin Shown
      THEN Die
      ELSE /\ Read
           /\ ac_buddies' = [ac_buddies EXCEPT ![u][1] = fb]
           /\ SetStateAndName(u, fb.state, fb.name)
           /\ asked' = asked \cup
                (IF buddy_list'[u].name THEN {}
                 ELSE {InfoRequest(u)})

\* Slip: a refusal is overlooked.
HandleSync_NotRefused(m) ==
  /\ Read
  /\ IF m.relation = 1 /\ m.user \in Known \cap Shown
     THEN SetStatus(m.user, TRUE)
     ELSE UNCHANGED shownVars
  /\ UNCHANGED <<ac_buddies, asked>>

(* process_sync_info.                                                      *)
HandleSync(m) ==
  /\ Read
  /\ IF m.relation # 0 /\ m.user \in Known \cap Shown
     THEN SetStatus(m.user, m.relation = 1)
     ELSE UNCHANGED shownVars
  /\ UNCHANGED <<ac_buddies, asked>>

(* process_add_buddy accepts every application, in group "0", which it     *)
(* takes for granted.                                                      *)
HandleApplication(m) ==
  IF Default \in DOMAIN group_list
  THEN /\ Read
       /\ asked' = asked \cup {AcceptRequest(m.user)}
       /\ UNCHANGED <<ac_buddies, shownVars>>
  ELSE Die

\* Slip: the new entry comes first.
WithEntry_First(list, b) == <<b>> \o list

WithEntry(list, b) == Append(list, b)

(* buddy_add_cb and handle_request_cb.  When its group is not known here,  *)
(* the new entry is taken out again.                                       *)
HandleAdded(m) ==
  LET u == m.to.user
  IN  /\ Read
      /\ IF m.ok /\ m.group \in DOMAIN group_list
         THEN /\ ac_buddies' =
                   [ac_buddies EXCEPT
                     ![u] = WithEntry(@, [state |-> "offline",
                                          name |-> FALSE])]
              /\ AddBuddy(u, m.group, m.relation = 1)
         ELSE UNCHANGED <<ac_buddies, shownVars>>
      /\ UNCHANGED asked

\* Slip: the name is not put into the contact list.
HandleInfo_NotShown(m) ==
  LET u == m.to.user
  IN  /\ Read
      /\ IF m.ok /\ u \in Known
         THEN ac_buddies' = [ac_buddies EXCEPT ![u][1].name = TRUE]
         ELSE UNCHANGED ac_buddies
      /\ UNCHANGED <<shownVars, asked>>

(* update_info_cb.                                                         *)
HandleInfo(m) ==
  LET u == m.to.user
  IN  /\ Read
      /\ IF m.ok /\ u \in Known
         THEN ac_buddies' = [ac_buddies EXCEPT ![u][1].name = TRUE]
         ELSE UNCHANGED ac_buddies
      /\ IF m.ok /\ u \in Known \cap Shown
         THEN SetStateAndName(u, buddy_list[u].state, TRUE)
         ELSE UNCHANGED shownVars
      /\ UNCHANGED asked

(* process_pushed, for the messages about contacts.                        *)
Handle ==
  /\ inbox # <<>>
  /\ LET m == Head(inbox)
     IN  \/ m.type = "presence" /\ HandlePresence(m)
         \/ m.type = "sync" /\ HandleSync(m)
         \/ m.type = "application" /\ HandleApplication(m)
         \/ m.type = "answer" /\ m.to.type = "get_info" /\ HandleInfo(m)
         \/ m.type = "answer" /\ m.to.type # "get_info" /\ HandleAdded(m)
  /\ UNCHANGED <<serverVars, boundVars>>

-----------------------------------------------------------------------------
(* The requests of the user: fetion_contact_list_*, set_aliases and the    *)
(* getters.  A request that is not answered yet and is made again is one.  *)

(* A call that does nothing is not counted.                                *)
Call(effect) ==
  /\ tp /\ calls < MaxCalls
  /\ effect
  /\ calls' = IF asked' = asked /\ ~crashed' THEN calls ELSE calls + 1
  /\ UNCHANGED <<serverVars, logins, pushes>>

(* Nothing is sent once the account is closed.                             *)
Send(requests) ==
  /\ asked' = IF connected THEN asked \cup requests ELSE asked
  /\ UNCHANGED <<inbox, tp, connected, ac_buddies, shownVars, crashed>>

AddRequest(u)    == [type |-> "add", user |-> u]
RemoveRequest(u) == [type |-> "remove", user |-> u]
RenameRequest(u) == [type |-> "rename", user |-> u]
Moves(users, g)  == {[type |-> "move", user |-> u, group |-> g] : u \in users}

InGroup(g) == {u \in Shown : buddy_list[u].group = g}

(* The contact must be in the list.  When the change is announced, the     *)
(* name of a group is cast to a list of names, which is undefined.         *)
SetContactGroups(u, g) ==
  Call(IF u \notin Shown
       THEN Die
       ELSE IF buddy_list[u].group = g \/ g \notin DOMAIN group_list
       THEN Send({})
       ELSE Send(Moves({u}, g)) \/ Die)

SetGroupMembers(g, users) ==
  Call(IF g \notin DOMAIN group_list
       THEN Send({})
       ELSE IF Default \notin DOMAIN group_list
       THEN Die
       ELSE Send(Moves((users \cap Shown) \ InGroup(g), g) \cup
                 Moves((contacts \cap InGroup(g)) \ users, Default)))

(* Of these a call about several contacts is as many calls.                *)
AddToGroup(g, u) ==
  Call(Send(IF g \in DOMAIN group_list
            THEN Moves(({u} \cap Shown) \ InGroup(g), g) ELSE {}))

RemoveFromGroup(g, u) ==
  Call(IF Default \in DOMAIN group_list
       THEN Send(Moves({u} \cap InGroup(g), Default))
       ELSE Die)

(* The id is that of a buddy, or a number nobody is shown with.            *)
RequestSubscription(u, number) ==
  Call(IF u \in Shown /\ ~number
       THEN Send({})
       ELSE IF Default \in DOMAIN group_list
       THEN Send({AddRequest(u)})
       ELSE Die)

RemoveContacts(u) ==
  Call(Send(IF u \in Shown THEN {RemoveRequest(u)} ELSE {}))

SetAliases(u) ==
  Call(Send(IF u \in Shown THEN {RenameRequest(u)} ELSE {}))

CanEdit(g) == g \in DOMAIN group_list /\ group_list[g].renamable

RemoveGroup(g) ==
  Call(Send(IF CanEdit(g) THEN {[type |-> "remove_group", group |-> g]}
            ELSE {}))

RenameGroup(g) ==
  Call(Send(IF CanEdit(g) THEN {[type |-> "rename_group", group |-> g]}
            ELSE {}))

(* Neither of the two expects a handle of somebody who is not in the list. *)
GetContactStatuses(u) == Call(IF u \in Shown THEN Send({}) ELSE Die)
RequestAliases(u)     == Call(IF u \in Shown THEN Send({}) ELSE Die)

-----------------------------------------------------------------------------
Server ==
  \/ \E u \in Users, g \in Groups, r \in 0 .. 1 : OtherClientAdds(u, g, r)
  \/ \E u \in Users : OtherClientRemoves(u) \/ PushApplication(u)
  \/ \E u \in Users, r \in Relations : RelationChanges(u, r)
  \/ \E u \in Users, s \in States \cup {"none"}, n \in BOOLEAN :
       PushPresence(u, s, n)
  \/ \E r \in asked : Answer(r)

User ==
  \/ \E u \in Users, g \in Groups :
       SetContactGroups(u, g) \/ AddToGroup(g, u) \/ RemoveFromGroup(g, u)
  \/ \E g \in Groups, users \in SUBSET Users : SetGroupMembers(g, users)
  \/ \E u \in Users, number \in BOOLEAN : RequestSubscription(u, number)
  \/ \E u \in Users : RemoveContacts(u) \/ SetAliases(u)
  \/ \E u \in Users : GetContactStatuses(u) \/ RequestAliases(u)
  \/ \E g \in Groups : RemoveGroup(g) \/ RenameGroup(g)

Next == Login \/ Disconnect \/ SetOffline \/ Handle \/ Server \/ User

Spec == Init /\ [][Next]_vars

-----------------------------------------------------------------------------
(* Type invariant: every variable keeps its type; in particular no counter *)
(* of a group becomes negative (hybrid_blist_set_buddy_state).             *)
TypeOK ==
  /\ IsTable(srv, Users, Contact)
  /\ srv_groups \in SUBSET (Groups \ {Default})
  /\ changed \in BOOLEAN /\ told \in [Users -> BOOLEAN]
  /\ inbox \in Seq(Message) /\ asked \in SUBSET Request
  /\ tp \in BOOLEAN /\ connected \in BOOLEAN /\ crashed \in BOOLEAN
  /\ ac_buddies \in [Users -> Seq(FetionBuddy)]
  /\ IsTable(group_list, Groups, HybridGroup)
  /\ IsTable(buddy_list, Users, HybridBuddy)
  /\ contacts \in SUBSET Users
  /\ tree \in [groups : SUBSET Groups, buddies : SUBSET BuddyNode]
  /\ logins \in 0 .. MaxLogins /\ calls \in 0 .. MaxCalls
  /\ pushes \in 0 .. MaxPushes

(* The protocol's list and the one that is shown have the same buddies, so *)
(* that process_presence, which does not look at what                      *)
(* hybrid_blist_find_buddy returns, finds everybody it is told about; and  *)
(* every buddy is in a group that is there.                                *)
KnownShown ==
  /\ Known = Shown
  /\ \A u \in Shown : buddy_list[u].group \in DOMAIN group_list

(* While the account is connected the handles the clients are given as the *)
(* contact list (dup_contacts) are those of the buddies that are shown:    *)
(* none of them is looked up in vain.                                      *)
ContactsResolve == connected => contacts = Shown

(* The counts of a group are those of its buddies, and of its buddies that *)
(* are not offline, however states, additions and logins follow one        *)
(* another.                                                                *)
CountsMatch ==
  \A g \in DOMAIN group_list :
    /\ group_list[g].buddy_count = Cardinality(InGroup(g))
    /\ group_list[g].online_count =
         Cardinality({u \in InGroup(g) : buddy_list[u].state # "offline"})

(* A buddy that is added again while it is there keeps the state the last  *)
(* presence gave it, in both lists: the entry that is found is the first.  *)
StatesAgree ==
  \A u \in Known \cap Shown : buddy_list[u].state = Find(u).state

(* While the account is connected the tree says what is shown, so that the *)
(* next login can start from it.                                           *)
TreeMatches ==
  connected =>
    /\ tree.groups = DOMAIN group_list
    /\ tree.buddies =
         {[user |-> u, group |-> buddy_list[u].group,
           authorized |-> buddy_list[u].authorized,
           name |-> buddy_list[u].name] : u \in Shown}

About(u) ==
  {i \in DOMAIN inbox :
     \/ inbox[i].type = "sync" /\ inbox[i].user = u
     \/ inbox[i].type = "answer" /\ inbox[i].to.type \in {"add", "accept"}
          /\ inbox[i].to.user = u}

(* Once everything about a buddy is read, it is authorized if and only if  *)
(* that is the last thing the server told: by the list, a sync, or the     *)
(* answer to a request, in whatever order they came.  What another client  *)
(* puts into a group made since the login cannot be followed, and a        *)
(* relation of 0 in a sync says nothing.                                   *)
AuthorizedSettled ==
  \A u \in Shown :
    srv_groups \subseteq DOMAIN group_list /\ About(u) = {}
    => (buddy_list[u].authorized <=> told[u])

(* A buddy that is not offline and whose name is known has a name in the   *)
(* list, whether the name came with the presence, before it, or after it   *)
(* in the answer to GetContactInfo.                                        *)
OnlineNamed ==
  \A u \in Known \cap Shown :
    buddy_list[u].state # "offline" /\ Find(u).name => buddy_list[u].name

(* No request to rename or to remove the group "Ungrouped" is sent         *)
(* (fx_group.c:266), in any session of a process: it is protected only     *)
(* where the list of the login has it, and so relies on the tree the login *)
(* loads having it only when that list does.  ContactsRestart shows what   *)
(* becomes of this when the tree is one of an earlier process.             *)
DefaultProtected ==
  \A r \in asked :
    r.type \in {"remove_group", "rename_group"} => r.group # Default

(* A login shows the buddies of the server's list, each in its group and   *)
(* with its relation, and nobody else, whether they are taken from the     *)
(* tree or from the list.                                                  *)
ExactAtLogin ==
  [][~connected /\ connected' =>
       /\ DOMAIN buddy_list' = DOMAIN srv
       /\ \A u \in DOMAIN srv :
            /\ buddy_list'[u].group = srv[u].group
            /\ buddy_list'[u].authorized = (srv[u].relation = 1)]_vars

(* roster.c:104: "here we assume the account must have default group and   *)
(* only one": every connected account has the group "0".                   *)
DefaultGroupExists == connected => Default \in DOMAIN group_list

=============================================================================
