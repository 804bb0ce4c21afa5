--------------------------- MODULE FxConfigProofs ---------------------------
(***************************************************************************)
(* Proofs about FxConfig: its type invariant, that account.xml never names *)
(* the server's version beside a copy of another one, that a login gets    *)
(* the list of its answer, and that a process which received a list shows  *)
(* exactly the server's list from then on.                                 *)
(***************************************************************************)
EXTENDS FxConfig, TLAPS

(* What Current is, document by document, and that versions only grow.     *)
LEMMA CurrentIs ==
  /\ Current["contacts"] = Len(lists)
  /\ Current["personal"] = profile
  /\ Current \in [Docs -> {Len(lists), profile}]
BY DEF Current, Docs

LEMMA CurrentNat ==
  ASSUME TypeOK
  PROVE  \A d \in Docs : Current[d] \in Nat
BY DEF TypeOK, Current, Docs

LEMMA CurrentPositive ==
  ASSUME TypeOK
  PROVE  \A d \in Docs : Current[d] \in Nat \ {0}
<1>1. Len(lists) \in Nat \ {0} /\ profile \in Nat \ {0}
  BY DEF TypeOK
<1> QED
  BY <1>1, CurrentIs DEF Docs

LEMMA ContactsBounds ==
  ASSUME TypeOK
  PROVE  /\ Len(lists) \in Nat \ {0}
         /\ account_xml["contacts"] \in 0 .. Len(lists)
         /\ reply["contacts"] \in 0 .. Len(lists)
         /\ file["contacts"] \in 0 .. Len(lists)
<1>1. Current["contacts"] = Len(lists) /\ "contacts" \in Docs
  BY CurrentIs DEF Docs
<1>2. Len(lists) \in Nat \ {0}
  BY DEF TypeOK
<1> QED
  BY <1>1, <1>2 DEF TypeOK

LEMMA SaveType ==
  ASSUME NEW d \in Docs, NEW v \in Nat, Save(d, v), file \in [Docs -> Nat],
         failed \in SUBSET Docs
  PROVE  /\ file' \in [Docs -> Nat]
         /\ failed' \in SUBSET Docs
         /\ \A e \in Docs : e # d => file'[e] = file[e]
         /\ \A e \in Docs : e # d => (e \in failed' <=> e \in failed)
         /\ d \notin failed' => file'[d] = v
         /\ file'[d] \in {0, v, file[d]}
BY DEF Save

LEMMA FlushType ==
  ASSUME NEW S \in SUBSET SUBSET Buddies, Flush(S), blist_xml \in SUBSET Buddies
  PROVE  blist_xml' \in SUBSET Buddies
BY DEF Flush

LEMMA ReceivedType ==
  ASSUME TypeOK
  PROVE  Received \in SUBSET Buddies
BY DEF TypeOK, Received

(* The process changes what it holds, the server stays as it is.           *)
Bounded(v) == v \in [Docs -> Nat] /\ \A d \in Docs : v[d] <= Current[d]

LEMMA TypeKept ==
  ASSUME TypeOK, UNCHANGED serverVars,
         Bounded(account_xml'), Bounded(file'), Bounded(version'),
         Bounded(reply'), buddies' \in 0 .. Len(lists),
         blist_xml' \in SUBSET Buddies, phase' \in Phases,
         cache' \in SUBSET Buddies, buddy_list' \in SUBSET Buddies,
         failed' \in SUBSET Docs, downloaded' \in BOOLEAN
  PROVE  TypeOK'
<1>1. lists' = lists /\ profile' = profile /\ Current' = Current
  BY DEF serverVars, Current
<1> QED
  BY <1>1 DEF TypeOK, Bounded

LEMMA TypeBounds ==
  ASSUME TypeOK
  PROVE  /\ Bounded(account_xml) /\ Bounded(file) /\ Bounded(version)
         /\ Bounded(reply) /\ Bounded(None) /\ Bounded(Current)
         /\ Len(lists) \in Nat /\ profile \in Nat
BY CurrentIs DEF TypeOK, Bounded, None, Docs

-----------------------------------------------------------------------------
LEMMA TypeServer == TypeOK /\ ServerNext => TypeOK'
<1> SUFFICES ASSUME TypeOK, ServerNext
             PROVE  TypeOK'
  OBVIOUS
<1> USE CurrentIs DEF TypeOK, Docs
<1>1. ASSUME NEW L \in SUBSET Buddies, ContactsChange(L)
      PROVE  TypeOK'
  <2>1. /\ lists' \in Seq(SUBSET Buddies) /\ lists' # <<>>
        /\ Len(lists') = Len(lists) + 1
    BY <1>1 DEF ContactsChange
  <2>2. /\ Current'["contacts"] = Len(lists) + 1
        /\ Current'["personal"] = profile
    BY <1>1, <2>1 DEF ContactsChange, Current
  <2> QED
    BY <1>1, <2>1, <2>2
    DEF ContactsChange, diskVars, loginVars, blistVars
<1>2. CASE PersonalChanges
  <2>1. /\ Current'["contacts"] = Len(lists)
        /\ Current'["personal"] = profile + 1
    BY <1>2 DEF PersonalChanges, Current
  <2> QED
    BY <1>2, <2>1 DEF PersonalChanges, diskVars, loginVars, blistVars
<1> QED
  BY <1>1, <1>2 DEF ServerNext

LEMMA TypeProcess == TypeOK /\ ProcessNext => TypeOK'
<1> SUFFICES ASSUME TypeOK, ProcessNext
             PROVE  TypeOK'
  OBVIOUS
<1> USE TypeKept, TypeBounds
<1>0. ASSUME Forget
      PROVE  /\ Bounded(version') /\ Bounded(reply')
             /\ buddies' \in 0 .. Len(lists) /\ phase' \in Phases
             /\ cache' \in SUBSET Buddies /\ buddy_list' \in SUBSET Buddies
             /\ downloaded' \in BOOLEAN
  <2>1. Bounded(version') /\ Bounded(reply')
    BY <1>0, CurrentNat DEF Forget, Bounded, None
  <2>2. 0 \in 0 .. Len(lists)
    OBVIOUS
  <2> QED
    BY <1>0, <2>1, <2>2 DEF Forget, Phases
<1>1. CASE Start
  BY <1>1 DEF Start, TypeOK, Phases, diskVars, loginVars
<1>2. CASE Exit
  <2>1. UNCHANGED diskVars /\ UNCHANGED serverVars /\ Forget
    BY <1>2 DEF Exit
  <2> QED
    BY <1>0, <2>1 DEF TypeOK, diskVars
<1>3. ASSUME NEW d \in Docs, KilledInSave(d)
      PROVE  TypeOK'
  <2>1. Bounded(file')
    BY <1>3 DEF KilledInSave, Bounded, Docs
  <2> QED
    BY <1>0, <1>3, <2>1 DEF KilledInSave, TypeOK
<1>4. CASE KilledInSaveAccount
  BY <1>0, <1>4 DEF KilledInSaveAccount, TypeOK
<1>5. CASE Ask
  BY <1>5 DEF Ask, TypeOK, Phases, diskVars, blistVars
<1>6. CASE Answer
  BY <1>6 DEF Answer, TypeOK, Phases, diskVars, blistVars
<1>7. CASE Close
  BY <1>7, FlushType DEF Close, TypeOK, Phases, loginVars
<1> QED
  BY <1>1, <1>2, <1>3, <1>4, <1>5, <1>6, <1>7 DEF ProcessNext

LEMMA TypeParse == TypeOK /\ ParseNext => TypeOK'
<1> SUFFICES ASSUME TypeOK, ParseNext
             PROVE  TypeOK'
  OBVIOUS
<1>0. ASSUME NEW d \in Docs, Save(d, reply[d])
      PROVE  /\ Bounded(file') /\ failed' \in SUBSET Docs
             /\ Bounded([version EXCEPT ![d] = reply[d]])
  <2>1. /\ file \in [Docs -> Nat] /\ reply[d] \in Nat
        /\ failed \in SUBSET Docs
    BY DEF TypeOK
  <2>2. /\ file' \in [Docs -> Nat] /\ failed' \in SUBSET Docs
        /\ \A e \in Docs : e # d => file'[e] = file[e]
        /\ file'[d] \in {0, reply[d], file[d]}
    BY <1>0, <2>1, SaveType
  <2>3. ASSUME NEW e \in Docs
        PROVE  file'[e] <= Current[e]
    <3>1. Current[e] \in Nat
      BY CurrentNat
    <3>2. file[e] <= Current[e] /\ reply[e] <= Current[e]
      BY DEF TypeOK
    <3>3. file'[e] \in {0, reply[e], file[e]}
      BY <2>2
    <3> QED
      BY <3>1, <3>2, <3>3
  <2>4. Bounded(version) /\ Bounded(reply)
    BY TypeBounds
  <2> QED
    BY <2>1, <2>2, <2>3, <2>4 DEF Bounded
<1> USE TypeKept, TypeBounds
<1>1. CASE PersonalCached
  BY <1>1 DEF PersonalCached, TypeOK, Phases, diskVars, loginVars, blistVars
<1>2. CASE PersonalReceived
  <2>1. "personal" \in Docs
    BY DEF Docs
  <2>2. /\ Bounded(file') /\ failed' \in SUBSET Docs /\ Bounded(version')
    BY <1>0, <1>2, <2>1 DEF PersonalReceived
  <2> QED
    BY <1>2, <2>2 DEF PersonalReceived, TypeOK, Phases, blistVars
<1>3. ASSUME NEW d \in Docs, CacheMissing(d)
      PROVE  TypeOK'
  BY <1>3 DEF CacheMissing, TypeOK, Phases, diskVars, loginVars, blistVars
<1>4. CASE ContactsCached
  <2>1. file["contacts"] \in 0 .. Len(lists)
    BY CurrentIs DEF Bounded, Docs
  <2> QED
    BY <1>4, <2>1 DEF ContactsCached, TypeOK, Phases, diskVars, blistVars
<1>5. CASE ContactsReceived
  <2>1. "contacts" \in Docs
    BY DEF Docs
  <2>2. /\ Bounded(file') /\ failed' \in SUBSET Docs /\ Bounded(version')
    BY <1>0, <1>5, <2>1 DEF ContactsReceived
  <2>3. reply["contacts"] \in 0 .. Len(lists)
    BY CurrentIs DEF Bounded, Docs
  <2> QED
    BY <1>5, <2>2, <2>3, FlushType
    DEF ContactsReceived, TypeOK, Phases
<1>6. CASE AccountSaved
  BY <1>6 DEF AccountSaved, TypeOK, Phases, loginVars, blistVars
<1> QED
  BY <1>1, <1>2, <1>3, <1>4, <1>5, <1>6 DEF ParseNext

LEMMA TypeList == TypeOK /\ ListNext => TypeOK'
<1> SUFFICES ASSUME TypeOK, ListNext
             PROVE  TypeOK'
  OBVIOUS
<1>0. UNCHANGED serverVars /\ Current' = Current
  BY DEF ListNext, ListShown, BuddyAdded, BuddyStored, serverVars, Current
<1>1. blist_xml' \in SUBSET Buddies
  <2>1. CASE ListShown
    <3> DEFINE T == {cache \cup S : S \in SUBSET Received}
    <3>1. T \in SUBSET SUBSET Buddies
      BY ReceivedType DEF TypeOK
    <3>2. Flush(T)
      BY <2>1 DEF ListShown
    <3> HIDE DEF T
    <3> QED
      BY <3>1, <3>2, FlushType DEF TypeOK
  <2>2. ASSUME NEW b \in Buddies, BuddyAdded(b)
        PROVE  blist_xml' \in SUBSET Buddies
    BY <2>2, FlushType DEF BuddyAdded, TypeOK
  <2>3. CASE BuddyStored
    BY <2>3, FlushType DEF BuddyStored, TypeOK
  <2> QED
    BY <2>1, <2>2, <2>3 DEF ListNext
<1> USE <1>0, <1>1, CurrentIs
    DEF TypeOK, Phases, serverVars, diskVars, loginVars, blistVars
<1>2. CASE ListShown
  BY <1>2, ReceivedType DEF ListShown
<1>3. ASSUME NEW b \in Buddies, BuddyAdded(b)
      PROVE  TypeOK'
  BY <1>3 DEF BuddyAdded
<1>4. CASE BuddyStored
  BY <1>4 DEF BuddyStored
<1> QED
  BY <1>2, <1>3, <1>4 DEF ListNext

LEMMA TypeInit == Init => TypeOK
<1> SUFFICES ASSUME Init
             PROVE  TypeOK
  OBVIOUS
<1>1. PICK L \in SUBSET Buddies : lists = <<L>>
  BY DEF Init
<1>2. lists \in Seq(SUBSET Buddies) /\ Len(lists) = 1 /\ lists # <<>>
  BY <1>1
<1>3. \A d \in Docs : None[d] = 0 /\ Current[d] = 1
  BY <1>2 DEF Init, None, Current
<1>4. None \in [Docs -> Nat]
  BY DEF None
<1> QED
  <2>1. lists \in Seq(SUBSET Buddies) /\ lists # <<>> /\ profile \in Nat \ {0}
    BY <1>2 DEF Init
  <2>2. /\ account_xml \in [Docs -> Nat] /\ file \in [Docs -> Nat]
        /\ version \in [Docs -> Nat] /\ reply \in [Docs -> Nat]
        /\ \A d \in Docs :
             /\ account_xml[d] <= Current[d] /\ file[d] <= Current[d]
             /\ version[d] <= Current[d] /\ reply[d] <= Current[d]
    BY <1>3, <1>4 DEF Init
  <2>3. buddies \in 0 .. Len(lists)
    BY <1>2 DEF Init
  <2> QED
    BY <2>1, <2>2, <2>3 DEF Init, TypeOK, Phases

(* Every variable keeps its type, and no version is ahead of the server's. *)
THEOREM TypeCorrect == Spec => []TypeOK
<1>1. TypeOK /\ [Next]_vars => TypeOK'
  <2> SUFFICES ASSUME TypeOK, UNCHANGED vars
               PROVE  TypeOK'
    BY TypeServer, TypeProcess, TypeParse, TypeList DEF Next
  <2> QED
    BY TypeKept, TypeBounds
    DEF TypeOK, vars, diskVars, loginVars, blistVars
<1> QED
  BY TypeInit, <1>1, PTL DEF Spec
-----------------------------------------------------------------------------
(* The inductive invariant.                                                *)

(* A document the callback has not come to: the versions are those of      *)
(* account.xml, and if the answer confirms them, the copy is good.         *)
Pending(d) ==
  /\ version[d] = account_xml[d]
  /\ account_xml[d] <= reply[d]
  /\ d \notin failed /\ account_xml[d] = reply[d] => file[d] = reply[d]

(* A document the callback is done with.                                   *)
Done(d) ==
  /\ version[d] = reply[d]
  /\ account_xml[d] <= reply[d]
  /\ d \notin failed => file[d] = reply[d]

(* What the phases of a login say about versions and copies.               *)
Progress ==
  /\ phase = "down" => ~downloaded
  /\ phase = "asking" => version = account_xml
  /\ phase \in {"asking", "personal", "contacts"} => buddies = 0
  /\ phase \in {"personal", "contacts", "account", "list", "online"} =>
       /\ \A d \in Docs : 0 < reply[d]
       /\ account_xml["contacts"] <= reply["contacts"]
  /\ phase = "personal" => Pending("personal") /\ Pending("contacts")
  /\ phase = "contacts" => Done("personal") /\ Pending("contacts")
  /\ phase = "account"  => Done("personal") /\ Done("contacts")
  /\ phase \in {"account", "list"} /\ "contacts" \notin failed
       => buddies \in {0, reply["contacts"]}
  /\ phase = "account" /\ "contacts" \notin failed
       => buddies = reply["contacts"]

(* Once a list was downloaded, the tree holds nobody but the buddies of    *)
(* the list whose copy the next equal versions would make the login read.  *)
Tree ==
  downloaded /\ "contacts" \notin failed =>
    /\ account_xml["contacts"] = Len(lists) => cache \subseteq lists[Len(lists)]
    /\ phase \in {"personal", "contacts"} /\ account_xml["contacts"] = reply["contacts"]
         => cache \subseteq lists[reply["contacts"]]
    /\ phase = "account" => cache \subseteq lists[reply["contacts"]]
    /\ phase = "list" /\ failed = {} => cache \subseteq lists[reply["contacts"]]

Inv == TypeOK /\ VersionNamesCopy /\ ListOfTheAnswer /\ Progress /\ Tree

LEMMA InvInit == Init => Inv
<1> SUFFICES ASSUME Init
             PROVE  Inv
  OBVIOUS
<1>1. TypeOK
  BY TypeInit
<1>2. \A d \in Docs : account_xml[d] = 0 /\ Current[d] # 0
  <2>1. PICK L \in SUBSET Buddies : lists = <<L>>
    BY DEF Init
  <2>2. Len(lists) = 1
    BY <2>1
  <2> QED
    BY <2>2 DEF Init, None, Current
<1> QED
  BY <1>1, <1>2
  DEF Init, Inv, VersionNamesCopy, ListOfTheAnswer, Progress, Tree

(* A new version of the server's is one no file and no login knows.        *)
LEMMA InvServer ==
  ASSUME Inv, ServerNext
  PROVE  Inv'
<1>1. TypeOK' /\ TypeOK
  BY TypeServer DEF Inv
<1>2. /\ UNCHANGED <<diskVars, phase, loginVars, blistVars>>
      /\ Len(lists) \in Nat
  BY <1>1 DEF ServerNext, ContactsChange, PersonalChanges, diskVars, TypeOK
<1>3. CASE UNCHANGED lists
  <2>1. \A d \in Docs : Current'[d] = Current[d] \/ Current'[d] = Current[d] + 1
    <3>1. CASE PersonalChanges
      BY <1>1, <3>1 DEF PersonalChanges, Current, TypeOK, Docs
    <3>2. ASSUME NEW L \in SUBSET Buddies, ContactsChange(L)
          PROVE  FALSE
      <4>1. Len(lists') = Len(lists) + 1
        BY <1>1, <3>2 DEF ContactsChange, TypeOK
      <4> QED
        BY <1>2, <1>3, <4>1
    <3> QED
      BY <3>1, <3>2 DEF ServerNext
  <2>2. ASSUME NEW d \in Docs, d \notin failed', account_xml'[d] = Current'[d]
        PROVE  file'[d] = Current'[d]
    <3>1. account_xml[d] <= Current[d] /\ Current[d] \in Nat
      BY <1>1, CurrentNat DEF TypeOK
    <3>2. Current'[d] = Current[d]
      BY <1>2, <2>1, <2>2, <3>1 DEF diskVars
    <3> QED
      BY <1>2, <2>2, <3>2 DEF Inv, VersionNamesCopy, diskVars
  <2> QED
    BY <1>1, <1>2, <1>3, <2>2
    DEF Inv, VersionNamesCopy, ListOfTheAnswer, Progress, Pending, Done, Tree, diskVars,
        loginVars, blistVars
<1>4. ASSUME NEW L \in SUBSET Buddies, ContactsChange(L)
      PROVE  Inv'
  <2>1. /\ Len(lists') = Len(lists) + 1
        /\ \A v \in 1 .. Len(lists) : lists'[v] = lists[v]
    BY <1>1, <1>4 DEF ContactsChange, TypeOK
  <2>2. /\ Current'["contacts"] = Len(lists) + 1
        /\ Current'["personal"] = Current["personal"]
    BY <1>4, <2>1 DEF ContactsChange, Current, Docs
  <2>3. /\ account_xml["contacts"] <= Len(lists)
        /\ reply["contacts"] \in 0 .. Len(lists)
        /\ account_xml["contacts"] \in Nat
    BY <1>1, ContactsBounds
  <2>4. VersionNamesCopy'
    <3>1. account_xml["contacts"] # Current'["contacts"]
      BY <1>2, <2>2, <2>3
    <3>2. account_xml' = account_xml /\ file' = file /\ failed' = failed
      BY <1>2 DEF diskVars
    <3>3. ASSUME NEW d \in Docs, d \notin failed', account_xml'[d] = Current'[d]
          PROVE  file'[d] = Current'[d]
      <4>1. d = "personal"
        BY <3>1, <3>2, <3>3 DEF Docs
      <4>2. file["personal"] = Current["personal"]
        BY <2>2, <3>2, <3>3, <4>1 DEF Inv, VersionNamesCopy, Docs
      <4> QED
        BY <2>2, <3>2, <4>1, <4>2
    <3> QED
      BY <3>3 DEF VersionNamesCopy
  <2>5. ListOfTheAnswer' /\ Progress'
    BY <1>2 DEF Inv, ListOfTheAnswer, Progress, Pending, Done, diskVars,
                loginVars, blistVars
  <2>6. Tree'
    <3>1. account_xml["contacts"] # Len(lists')
      BY <1>2, <2>1, <2>3
    <3>2. phase \in {"personal", "contacts", "account", "list"}
            => reply["contacts"] \in 1 .. Len(lists)
      BY <2>3 DEF Inv, Progress, Docs
    <3>3. phase \in {"personal", "contacts", "account", "list"}
            => lists'[reply["contacts"]] = lists[reply["contacts"]]
      BY <2>1, <3>2
    <3> QED
      BY <1>2, <3>1, <3>3
      DEF Inv, Tree, diskVars, loginVars, blistVars
  <2> QED
    BY <1>1, <2>4, <2>5, <2>6 DEF Inv
<1> QED
  BY <1>3, <1>4 DEF ServerNext, PersonalChanges

LEMMA InvProcess ==
  ASSUME Inv, ProcessNext
  PROVE  Inv'
<1>1. TypeOK' /\ TypeOK
  BY TypeProcess DEF Inv
<1>2. UNCHANGED serverVars /\ Current' = Current
  BY DEF ProcessNext, Start, Exit, KilledInSave, KilledInSaveAccount, Ask,
         Answer, Close, serverVars, Current
<1>3. lists' = lists
  BY <1>2 DEF serverVars
<1>4. CASE Start
  BY <1>1, <1>2, <1>3, <1>4
  DEF Start, Inv, VersionNamesCopy, ListOfTheAnswer, Progress, Tree, diskVars,
      loginVars
<1>5. CASE Exit
  BY <1>1, <1>2, <1>3, <1>5
  DEF Exit, Forget, Inv, VersionNamesCopy, ListOfTheAnswer, Progress, Tree,
      diskVars
<1>6. ASSUME NEW d \in Docs, KilledInSave(d)
      PROVE  Inv'
  <2>2. account_xml[d] # Current[d]
    <3>1. Pending(d) /\ reply[d] # version[d]
      BY <1>6 DEF KilledInSave, Inv, Progress, Docs
    <3>2. account_xml[d] # reply[d] /\ account_xml[d] <= reply[d]
      BY <3>1 DEF Pending
    <3>3. Current[d] \in Nat
      BY <1>1, CurrentNat
    <3>4. /\ account_xml[d] \in Nat /\ reply[d] \in Nat
          /\ reply[d] <= Current[d]
      BY <1>1 DEF TypeOK
    <3> QED
      BY <3>2, <3>3, <3>4
  <2>3. \A e \in Docs : e # d => file'[e] = file[e]
    BY <1>1, <1>6 DEF KilledInSave, TypeOK
  <2>4. VersionNamesCopy'
    BY <1>2, <1>6, <2>2, <2>3 DEF KilledInSave, Inv, VersionNamesCopy
  <2> QED
    BY <1>1, <1>6, <2>4
    DEF KilledInSave, Forget, Inv, ListOfTheAnswer, Progress, Tree
<1>7. CASE KilledInSaveAccount
  <2>1. \A d \in Docs : account_xml'[d] = 0 /\ Current[d] # 0
    BY <1>1, <1>7, CurrentPositive DEF KilledInSaveAccount, None
  <2> QED
    BY <1>1, <1>2, <1>7, <2>1
    DEF KilledInSaveAccount, Forget, Inv, VersionNamesCopy, ListOfTheAnswer,
        Progress, Tree
<1>8. CASE Ask
  BY <1>1, <1>2, <1>3, <1>8
  DEF Ask, Inv, VersionNamesCopy, ListOfTheAnswer, Progress, Tree, diskVars,
      blistVars
<1>9. CASE Answer
  <2>1. /\ version = account_xml /\ buddies = 0 /\ phase' = "personal"
        /\ UNCHANGED <<account_xml, file, failed, version, buddies, cache,
                       downloaded>>
        /\ reply' = Current
    BY <1>9 DEF Answer, Inv, Progress, diskVars, blistVars
  <2>2. \A d \in Docs : 0 < Current[d] /\ account_xml[d] <= Current[d]
    <3>1. 0 < Len(lists) /\ 0 < profile
      BY <1>1 DEF TypeOK
    <3>2. \A d \in Docs : 0 < Current[d]
      BY <3>1, CurrentIs DEF Docs
    <3> QED
      BY <1>1, <3>2 DEF TypeOK
  <2>3. Pending("personal")' /\ Pending("contacts")'
    BY <2>1, <2>2 DEF Pending, Inv, VersionNamesCopy, Docs
  <2>4. Progress'
    BY <2>1, <2>2, <2>3 DEF Progress, Docs
  <2>5. Tree'
    BY <1>3, <2>1, CurrentIs DEF Inv, Tree
  <2> QED
    BY <1>1, <1>2, <2>1, <2>4, <2>5
    DEF Inv, VersionNamesCopy, ListOfTheAnswer
<1>10. CASE Close
  BY <1>1, <1>2, <1>3, <1>10
  DEF Close, Inv, VersionNamesCopy, ListOfTheAnswer, Progress, Tree, loginVars
<1> QED
  BY <1>4, <1>5, <1>6, <1>7, <1>8, <1>9, <1>10 DEF ProcessNext

LEMMA InvParse ==
  ASSUME Inv, ParseNext
  PROVE  Inv'
<1>1. TypeOK' /\ TypeOK
  BY TypeParse DEF Inv
<1>2. UNCHANGED serverVars /\ Current' = Current
  BY DEF ParseNext, PersonalCached, PersonalReceived, CacheMissing,
         ContactsCached, ContactsReceived, AccountSaved, serverVars, Current
<1>3. lists' = lists /\ "personal" \in Docs /\ "contacts" \in Docs
  BY <1>2 DEF serverVars, Docs
<1>4. CASE PersonalCached
  <2>1. Done("personal")
    BY <1>4 DEF PersonalCached, Inv, Progress, Pending, Done
  <2> QED
    BY <1>1, <1>2, <1>3, <1>4, <2>1
    DEF PersonalCached, Inv, VersionNamesCopy, ListOfTheAnswer, Progress,
        Pending, Done, Tree, diskVars, loginVars, blistVars
<1>5. ASSUME NEW d \in Docs, CacheMissing(d)
      PROVE  Inv'
  <2>1. Pending(d) /\ 0 < reply[d] /\ reply[d] = version[d] /\ file[d] = 0
    BY <1>5 DEF CacheMissing, Inv, Progress, Docs
  <2>2. reply[d] \in Nat
    BY <1>1 DEF TypeOK
  <2>3. d \in failed
    BY <2>1, <2>2 DEF Pending
  <2>4. /\ phase \in {"personal", "contacts"} /\ phase' = "list"
        /\ UNCHANGED <<diskVars, loginVars, blistVars>>
    BY <1>5 DEF CacheMissing, Docs
  <2>5. buddies = 0
    BY <2>4 DEF Inv, Progress
  <2> QED
    BY <1>1, <1>2, <1>3, <2>3, <2>4, <2>5
    DEF Inv, VersionNamesCopy, ListOfTheAnswer, Progress, Tree, diskVars,
        loginVars, blistVars
<1>6. CASE PersonalReceived
  <2>1. /\ phase = "personal" /\ phase' = "contacts"
        /\ Pending("personal") /\ Pending("contacts")
        /\ UNCHANGED <<account_xml, reply, buddies, cache, downloaded>>
    BY <1>6 DEF PersonalReceived, Inv, Progress, blistVars
  <2>2. /\ version'["personal"] = reply["personal"]
        /\ version'["contacts"] = version["contacts"]
    BY <1>1, <1>6 DEF PersonalReceived, TypeOK, Docs
  <2>3. /\ file'["contacts"] = file["contacts"]
        /\ "contacts" \in failed' <=> "contacts" \in failed
        /\ "personal" \notin failed' => file'["personal"] = reply["personal"]
    BY <1>1, <1>3, <1>6, SaveType DEF PersonalReceived, TypeOK
  <2>4. Done("personal")' /\ Pending("contacts")'
    BY <2>1, <2>2, <2>3 DEF Pending, Done
  <2>5. VersionNamesCopy'
    <3>1. /\ account_xml["personal"] \in Nat /\ reply["personal"] \in Nat
          /\ Current["personal"] \in Nat
          /\ reply["personal"] <= Current["personal"]
      BY <1>1, <1>3, CurrentNat DEF TypeOK
    <3>2. account_xml["personal"] = Current["personal"]
            => reply["personal"] = Current["personal"]
      BY <2>1, <3>1 DEF Pending
    <3> QED
      BY <1>2, <2>1, <2>3, <3>2 DEF Inv, VersionNamesCopy, Docs
  <2>6. Progress'
    BY <2>1, <2>4 DEF Inv, Progress
  <2>7. Tree'
    BY <1>3, <2>1, <2>3 DEF Inv, Tree
  <2> QED
    BY <1>1, <2>1, <2>5, <2>6, <2>7 DEF Inv, ListOfTheAnswer
<1>7. CASE ContactsCached
  <2>1. /\ phase = "contacts" /\ phase' = "account"
        /\ Done("personal") /\ Pending("contacts")
        /\ reply["contacts"] = version["contacts"]
        /\ buddies' = file["contacts"]
        /\ UNCHANGED <<diskVars, version, reply, blistVars>>
    BY <1>7 DEF ContactsCached, Inv, Progress
  <2>2. Done("contacts") /\ account_xml["contacts"] = reply["contacts"]
    BY <2>1 DEF Pending, Done
  <2>3. Progress'
    BY <2>1, <2>2
    DEF Inv, Progress, Done, diskVars, blistVars
  <2>4. VersionNamesCopy' /\ Tree'
    BY <1>2, <1>3, <2>1, <2>2
    DEF Inv, VersionNamesCopy, Tree, diskVars, blistVars
  <2> QED
    BY <1>1, <2>1, <2>3, <2>4 DEF Inv, ListOfTheAnswer
<1>8. CASE ContactsReceived
  <2>1. /\ phase = "contacts" /\ phase' = "account"
        /\ Done("personal") /\ Pending("contacts")
        /\ cache' = {} /\ buddies' = reply["contacts"]
        /\ UNCHANGED <<account_xml, reply>>
    BY <1>8 DEF ContactsReceived, Inv, Progress
  <2>2. /\ version'["contacts"] = reply["contacts"]
        /\ version'["personal"] = version["personal"]
    BY <1>1, <1>8 DEF ContactsReceived, TypeOK, Docs
  <2>3. /\ file'["personal"] = file["personal"]
        /\ "personal" \in failed' <=> "personal" \in failed
        /\ "contacts" \notin failed' => file'["contacts"] = reply["contacts"]
    BY <1>1, <1>3, <1>8, SaveType DEF ContactsReceived, TypeOK
  <2>4. Done("personal")' /\ Done("contacts")'
    BY <2>1, <2>2, <2>3 DEF Pending, Done
  <2>5. VersionNamesCopy'
    <3>1. /\ account_xml["contacts"] \in Nat /\ reply["contacts"] \in Nat
          /\ Current["contacts"] \in Nat
          /\ reply["contacts"] <= Current["contacts"]
      BY <1>1, <1>3, CurrentNat DEF TypeOK
    <3>2. account_xml["contacts"] = Current["contacts"]
            => reply["contacts"] = Current["contacts"]
      BY <2>1, <3>1 DEF Pending
    <3> QED
      BY <1>2, <2>1, <2>3, <3>2 DEF Inv, VersionNamesCopy, Docs
  <2>6. Progress'
    BY <2>1, <2>4 DEF Inv, Progress
  <2>7. Tree'
    BY <2>1 DEF Tree
  <2> QED
    BY <1>1, <2>1, <2>5, <2>6, <2>7 DEF Inv, ListOfTheAnswer
<1>9. CASE AccountSaved
  <2>1. /\ phase = "account" /\ phase' = "list"
        /\ Done("personal") /\ Done("contacts")
        /\ account_xml' \in {version, account_xml, None}
        /\ UNCHANGED <<file, failed, version, reply, buddies, cache,
                       downloaded>>
    BY <1>9 DEF AccountSaved, Inv, Progress, loginVars, blistVars
  <2>2. \A d \in Docs : Done(d)
    BY <2>1 DEF Docs
  <2>3. \A d \in Docs :
          account_xml'[d] \in {reply[d], account_xml[d], 0}
    BY <2>1, <2>2 DEF Done, None
  <2>4. \A d \in Docs : /\ 0 < Current[d] /\ Current[d] \in Nat
                        /\ reply[d] \in Nat /\ 0 < reply[d]
                        /\ reply[d] <= Current[d]
    <3> SUFFICES ASSUME NEW d \in Docs
                 PROVE  /\ 0 < Current[d] /\ Current[d] \in Nat
                        /\ reply[d] \in Nat /\ 0 < reply[d]
                        /\ reply[d] <= Current[d]
      OBVIOUS
    <3>1. 0 < reply[d]
      BY <2>1 DEF Inv, Progress
    <3>2. reply[d] \in Nat /\ Current[d] \in Nat /\ reply[d] <= Current[d]
      BY <1>1, CurrentNat DEF TypeOK
    <3> QED
      BY <3>1, <3>2
  <2>5. VersionNamesCopy'
    <3> SUFFICES ASSUME NEW d \in Docs, d \notin failed,
                        account_xml'[d] = Current[d]
                 PROVE  file[d] = Current[d]
      BY <1>2, <2>1 DEF VersionNamesCopy
    <3>1. account_xml'[d] = reply[d] \/ account_xml'[d] = account_xml[d]
      BY <2>3, <2>4
    <3> QED
      BY <2>2, <3>1 DEF Done, Inv, VersionNamesCopy
  <2>6. Progress'
    <3>1. account_xml'["contacts"] <= reply["contacts"]
      BY <1>3, <2>2, <2>3, <2>4 DEF Done
    <3>2. \A d \in Docs : 0 < reply[d]
      BY <2>4
    <3> QED
      BY <2>1, <3>1, <3>2 DEF Inv, Progress
  <2>7. Tree'
    <3>1. ASSUME account_xml'["contacts"] = Len(lists)
          PROVE  reply["contacts"] = Len(lists)
      <4>1. reply["contacts"] \in 0 .. Len(lists) /\ Len(lists) \in Nat \ {0}
        BY <1>1, ContactsBounds
      <4>2. account_xml'["contacts"] <= reply["contacts"]
        BY <1>3, <2>2, <2>3, <2>4 DEF Done
      <4> QED
        BY <3>1, <4>1, <4>2
    <3> QED
      BY <1>3, <2>1, <3>1 DEF Inv, Tree
  <2> QED
    BY <1>1, <2>1, <2>5, <2>6, <2>7 DEF Inv, ListOfTheAnswer, Progress
<1> QED
  BY <1>4, <1>5, <1>6, <1>7, <1>8, <1>9 DEF ParseNext

(* As long as account.xml may name the server's version, the login in      *)
(* progress has it too.                                                    *)
LEMMA ReplyCurrent ==
  ASSUME Inv, phase \in {"list", "online"},
         account_xml["contacts"] = Len(lists)
  PROVE  reply["contacts"] = Len(lists)
<1>1. account_xml["contacts"] <= reply["contacts"]
  BY DEF Inv, Progress
<1>2. reply["contacts"] \in 0 .. Len(lists) /\ Len(lists) \in Nat \ {0}
  BY ContactsBounds DEF Inv
<1> QED
  BY <1>1, <1>2

LEMMA InvList ==
  ASSUME Inv, ListNext
  PROVE  Inv'
<1>1. TypeOK' /\ TypeOK
  BY TypeList DEF Inv
<1>2. UNCHANGED serverVars /\ Current' = Current /\ lists' = lists
  BY DEF ListNext, ListShown, BuddyAdded, BuddyStored, serverVars, Current
<1>3. CASE ListShown
  <2>1. /\ phase = "list" /\ phase' = "online"
        /\ cache' = cache \cup Received
        /\ UNCHANGED <<account_xml, file, failed, version, reply, buddies,
                       downloaded>>
    BY <1>3 DEF ListShown, loginVars
  <2>2. Tree'
    <3> SUFFICES ASSUME downloaded, "contacts" \notin failed,
                        account_xml["contacts"] = Len(lists)
                 PROVE  cache' \subseteq lists[Len(lists)]
      BY <1>2, <2>1 DEF Tree
    <3>1. buddies \in {0, Len(lists)}
      BY <2>1, ReplyCurrent DEF Inv, Progress
    <3>2. cache \subseteq lists[Len(lists)]
      BY DEF Inv, Tree
    <3> QED
      BY <2>1, <3>1, <3>2 DEF Received
  <2> QED
    BY <1>1, <1>2, <2>1, <2>2
    DEF Inv, VersionNamesCopy, ListOfTheAnswer, Progress
<1>4. ASSUME NEW b \in Buddies, BuddyAdded(b)
      PROVE  Inv'
  <2>1. /\ phase = "online" /\ phase' = "online"
        /\ UNCHANGED <<account_xml, file, failed, version, reply, buddies,
                       downloaded>>
    BY <1>4 DEF BuddyAdded, loginVars
  <2>2. account_xml["contacts"] # Len(lists)
    <3>1. PICK v \in (reply["contacts"] + 1) .. Len(lists) : b \in lists[v]
      BY <1>4 DEF BuddyAdded
    <3>2. reply["contacts"] \in Nat /\ Len(lists) \in Nat
      BY <1>1, ContactsBounds
    <3>3. reply["contacts"] # Len(lists)
      BY <3>1, <3>2
    <3> QED
      BY <2>1, <3>3, ReplyCurrent
  <2> QED
    BY <1>1, <1>2, <2>1, <2>2
    DEF Inv, VersionNamesCopy, ListOfTheAnswer, Progress, Tree
<1>5. CASE BuddyStored
  BY <1>1, <1>2, <1>5
  DEF BuddyStored, Inv, VersionNamesCopy, ListOfTheAnswer, Progress, Tree,
      loginVars, blistVars
<1> QED
  BY <1>3, <1>4, <1>5 DEF ListNext

LEMMA Invariance == Spec => []Inv
<1>1. Inv /\ UNCHANGED vars => Inv'
  BY DEF Inv, TypeOK, VersionNamesCopy, ListOfTheAnswer, Progress, Pending,
         Done, Tree, Current, vars, serverVars, diskVars, loginVars, blistVars
<1>2. Inv /\ [Next]_vars => Inv'
  BY <1>1, InvServer, InvProcess, InvParse, InvList DEF Next
<1> QED
  BY InvInit, <1>2, PTL DEF Spec

(* If account.xml names the server's version of a document, the copy is    *)
(* complete and of that version, wherever the process was killed, unless   *)
(* its last save failed.                                                   *)
THEOREM CopiesCorrect == Spec => []VersionNamesCopy
<1>1. Inv => VersionNamesCopy
  BY DEF Inv
<1> QED
  BY Invariance, <1>1, PTL

(* A login has the contact list of its answer, unless a save failed.       *)
THEOREM AnswerKept == Spec => []ListOfTheAnswer
<1>1. Inv => ListOfTheAnswer
  BY DEF Inv
<1> QED
  BY Invariance, <1>1, PTL

(* A process that received a contact list shows exactly the server's list  *)
(* at each of its later logins.                                            *)
THEOREM ShownCorrect == Spec => ExactOnceDownloaded
<1>1. Inv /\ [Next]_vars => [downloaded => ShownExactly]_vars
  <2> SUFFICES ASSUME Inv, Next, downloaded, phase = "list", phase' = "online",
                      failed = {}
               PROVE  buddy_list' = lists[reply["contacts"]]
    BY DEF ShownExactly
  <2>1. ListShown
    BY DEF Next, ServerNext, ContactsChange, PersonalChanges, ProcessNext,
           Start, Exit, Forget, KilledInSave, KilledInSaveAccount, Ask, Answer,
           Close, ParseNext, PersonalCached, PersonalReceived, CacheMissing,
           ContactsCached, ContactsReceived, AccountSaved, ListNext,
           BuddyAdded, BuddyStored
  <2>2. buddies = reply["contacts"] /\ cache \subseteq lists[reply["contacts"]]
    BY DEF Inv, ListOfTheAnswer, Tree
  <2>3. reply["contacts"] # 0
    <3>1. 0 < reply["contacts"]
      BY DEF Inv, Progress, Docs
    <3> QED
      BY <3>1
  <2>4. buddy_list' = cache \cup lists[reply["contacts"]]
    BY <2>1, <2>2, <2>3 DEF ListShown, Received
  <2> QED
    BY <2>2, <2>4
<1> QED
  BY Invariance, <1>1, PTL DEF Spec, ExactOnceDownloaded
=============================================================================
