------------------------------ MODULE FxConfig ------------------------------
(***************************************************************************)
(* What a login keeps on disk, and what the next one makes of it.          *)
(*                                                                         *)
(* The server numbers the versions of the personal information and of the  *)
(* contact list.  A login tells it the versions account.xml holds; where   *)
(* they are still the server's, the client reads its own copy              *)
(* (personal.xml, buddies.xml), otherwise it stores what the answer        *)
(* carries, and account.xml is written last.  Besides, the buddies shown   *)
(* to the user live in an XML tree of which blist.xml is a copy, dropped   *)
(* when a contact list arrives and read back when none does.               *)
(*                                                                         *)
(* The callback that parses the answer is split at its writes, as the      *)
(* process may end between two of them or inside one; nothing else runs in *)
(* between but the server.  A file that cannot be parsed, or is not there, *)
(* is version 0.  Groups are left out: every buddy has one that exists.    *)
(* So are custom-config and the server addresses, which are in the same    *)
(* file as their versions, and more than one login at a time (FxLogin).    *)
(***************************************************************************)
EXTENDS Naturals, Sequences

CONSTANTS
  Buddies,      \* the users that may be in the contact list
  MaxContacts,  \* bound: versions of the contact list
  MaxPersonal   \* bound: versions of the personal information

ASSUME VersionAssumption ==
  MaxContacts \in Nat \ {0} /\ MaxPersonal \in Nat \ {0}

Docs == {"personal", "contacts"}

(* Where the process is.  From "personal" to "list" it runs one callback,  *)
(* parse_sipc_resp and the rest of sipc_auth_cb.                           *)
Phases == {"down", "idle", "asking", "personal", "contacts", "account",
           "list", "online"}

VARIABLES
  lists,        \* the server: the contact list of every version so far
  profile,      \* the server: the version of the personal information
  account_xml,  \* the versions in account.xml
  file,         \* the version personal.xml and buddies.xml are of
  blist_xml,    \* the buddies in blist.xml
  phase,
  version,      \* ac->personal_version and ac->contact_list_version
  reply,        \* the versions the answer of the server names
  buddies,      \* the version ac->buddies was read from, 0 for none
  cache,        \* the buddies in the XML tree (blist_cache)
  buddy_list,   \* HybridAccount.buddy_list, the buddies shown
  failed,       \* history: documents the last save of which failed
  downloaded    \* history: this process stored a contact list

serverVars == <<lists, profile>>
diskVars   == <<account_xml, file, blist_xml, failed>>
loginVars  == <<version, reply, buddies>>
blistVars  == <<cache, buddy_list, downloaded>>

vars == <<serverVars, diskVars, phase, loginVars, blistVars>>

None == [d \in Docs |-> 0]

(* The versions the server has now.                                        *)
Current ==
  [d \in Docs |-> IF d = "contacts" THEN Len(lists) ELSE profile]

Init ==
  /\ lists \in {<<L>> : L \in SUBSET Buddies}
  /\ profile = 1
  /\ account_xml = None
  /\ file = None
  /\ blist_xml = {}
  /\ failed = {}
  /\ phase = "down"
  /\ version = None /\ reply = None /\ buddies = 0
  /\ cache = {} /\ buddy_list = {} /\ downloaded = FALSE

-----------------------------------------------------------------------------
(* Writing                                                                 *)

(* hybrid_blist_cache_flush writes the tree at every twentieth call in the *)
(* life of the process.  Which of these calls that is, depends on how many *)
(* pushes and avatars came before: it is a choice.  S is what the tree     *)
(* held at the calls; a write that fails half way leaves an empty list.    *)
Flush(S) == blist_xml' \in {blist_xml, {}} \cup S

(* fetion_config_save_personal, fetion_config_save_buddies: nobody looks   *)
(* at the result.  The file may stay as it was or be cut short.            *)
\* Slip: the document is not saved.
Save_Skipped(d, v) ==
  UNCHANGED <<file, failed>>

Save(d, v) ==
  \/ /\ file' = [file EXCEPT ![d] = v]
     /\ failed' = failed \ {d}
  \/ /\ \E left \in {0, file[d]} : file' = [file EXCEPT ![d] = left]
     /\ failed' = failed \cup {d}

-----------------------------------------------------------------------------
(* The server                                                              *)

ContactsChange(L) ==
  /\ Len(lists) < MaxContacts
  /\ lists' = Append(lists, L)
  /\ UNCHANGED <<profile, diskVars, phase, loginVars, blistVars>>

PersonalChanges ==
  /\ profile < MaxPersonal
  /\ profile' = profile + 1
  /\ UNCHANGED <<lists, diskVars, phase, loginVars, blistVars>>

-----------------------------------------------------------------------------
(* The process                                                             *)

(* hybrid_blist_cache_init.                                                *)
Start ==
  /\ phase = "down"
  /\ phase' = "idle"
  /\ cache' = blist_xml
  /\ UNCHANGED <<serverVars, diskVars, loginVars, buddy_list, downloaded>>

Forget ==
  /\ phase' = "down"
  /\ version' = None /\ reply' = None /\ buddies' = 0
  /\ cache' = {} /\ buddy_list' = {} /\ downloaded' = FALSE

(* The connection manager leaves when its last connection is gone, or the  *)
(* process is killed.  Nothing is written.                                 *)
Exit ==
  /\ phase # "down"
  /\ Forget
  /\ UNCHANGED <<serverVars, diskVars>>

(* The process is killed while a document or account.xml is being written, *)
(* or between the flush of the emptied tree and the contact list.          *)
KilledInSave(d) ==
  /\ phase = d /\ reply[d] # version[d]
  /\ Forget
  /\ \E left \in {0, file[d]} : file' = [file EXCEPT ![d] = left]
  /\ blist_xml' \in IF d = "contacts" THEN {blist_xml, {}} ELSE {blist_xml}
  /\ UNCHANGED <<serverVars, account_xml, failed>>

KilledInSaveAccount ==
  /\ phase = "account"
  /\ Forget
  /\ account_xml' = None
  /\ UNCHANGED <<serverVars, file, blist_xml, failed>>

(* fetion_account_create and fetion_config_load_account in ssi_auth_cb;    *)
(* the request of sipc_aut_action names these versions.                    *)
Ask ==
  /\ phase = "idle"
  /\ phase' = "asking"
  /\ version' = account_xml
  /\ buddies' = 0
  /\ UNCHANGED <<serverVars, diskVars, reply, blistVars>>

(* The server answers: its versions, and what the client does not have.    *)
Answer ==
  /\ phase = "asking"
  /\ phase' = "personal"
  /\ reply' = Current
  /\ UNCHANGED <<serverVars, diskVars, version, buddies, blistVars>>

(* hybrid_account_close, before the answer or after the login: the tables  *)
(* are emptied, the tree is not.                                           *)
Close ==
  /\ phase \in {"asking", "online"}
  /\ phase' = "idle"
  /\ buddy_list' = {}
  /\ Flush({cache})
  /\ UNCHANGED <<serverVars, account_xml, file, failed, loginVars, cache,
                 downloaded>>

-----------------------------------------------------------------------------
(* parse_sipc_resp                                                         *)

(* The version is the one we have: fetion_config_load_personal.            *)
PersonalCached ==
  /\ phase = "personal"
  /\ reply["personal"] = version["personal"] /\ file["personal"] # 0
  /\ phase' = "contacts"
  /\ UNCHANGED <<serverVars, diskVars, loginVars, blistVars>>

(* The cached document cannot be read: the rest of the answer is dropped,  *)
(* and sipc_auth_cb goes on.                                               *)
CacheMissing(d) ==
  /\ phase = d
  /\ reply[d] = version[d] /\ file[d] = 0
  /\ phase' = "list"
  /\ UNCHANGED <<serverVars, diskVars, loginVars, blistVars>>

PersonalReceived ==
  /\ phase = "personal"
  /\ reply["personal"] # version["personal"]
  /\ version' = [version EXCEPT !["personal"] = reply["personal"]]
  /\ Save("personal", reply["personal"])
  /\ phase' = "contacts"
  /\ UNCHANGED <<serverVars, account_xml, blist_xml, reply, buddies,
                 blistVars>>

\* Slip: the versions of the personal information are compared again.
ContactsCached_ComparesPersonal ==
  /\ phase = "contacts"
  /\ reply["personal"] = version["personal"] /\ file["contacts"] # 0
  /\ buddies' = file["contacts"]
  /\ phase' = "account"
  /\ UNCHANGED <<serverVars, diskVars, version, reply, blistVars>>

ContactsCached ==
  /\ phase = "contacts"
  /\ reply["contacts"] = version["contacts"] /\ file["contacts"] # 0
  /\ buddies' = file["contacts"]
  /\ phase' = "account"
  /\ UNCHANGED <<serverVars, diskVars, version, reply, blistVars>>

(* hybrid_account_clear_buddy empties the tables and the tree.             *)
\* Slip: the tree keeps what it has.
ContactsReceived_KeepsTree ==
  /\ phase = "contacts"
  /\ reply["contacts"] # version["contacts"]
  /\ buddy_list' = {}
  /\ Flush({cache})
  /\ version' = [version EXCEPT !["contacts"] = reply["contacts"]]
  /\ buddies' = reply["contacts"]
  /\ Save("contacts", reply["contacts"])
  /\ downloaded' = TRUE
  /\ phase' = "account"
  /\ UNCHANGED <<serverVars, account_xml, reply, cache>>

ContactsReceived ==
  /\ phase = "contacts"
  /\ reply["contacts"] # version["contacts"]
  /\ cache' = {} /\ buddy_list' = {}
  /\ Flush({{}})
  /\ version' = [version EXCEPT !["contacts"] = reply["contacts"]]
  /\ buddies' = reply["contacts"]
  /\ Save("contacts", reply["contacts"])
  /\ downloaded' = TRUE
  /\ phase' = "account"
  /\ UNCHANGED <<serverVars, account_xml, reply>>

(* fetion_config_save_account: it works, cannot open the file, or cuts it  *)
(* short, and then no version is read back.                                *)
AccountSaved ==
  /\ phase = "account"
  /\ account_xml' \in {version, account_xml, None}
  /\ phase' = "list"
  /\ UNCHANGED <<serverVars, file, blist_xml, failed, loginVars, blistVars>>

-----------------------------------------------------------------------------
(* The buddies shown                                                       *)

Received == IF buddies = 0 THEN {} ELSE lists[buddies]

(* hybrid_account_set_connection_status reads the tree into the tables     *)
(* (load_blist_from_disk), then fetion_buddies_init adds ac->buddies to    *)
(* both, one by one.                                                       *)
ListShown ==
  /\ phase = "list"
  /\ phase' = "online"
  /\ cache' = cache \cup Received
  /\ buddy_list' = cache \cup Received
  /\ Flush({cache \cup S : S \in SUBSET Received})
  /\ UNCHANGED <<serverVars, account_xml, file, failed, loginVars,
                 downloaded>>

(* buddy_add_cb, handle_request_cb: the server has added b since the       *)
(* login, at the user's request.                                           *)
\* Slip: the client counts the version up for its own change.
BuddyAdded_CountsUp(b) ==
  /\ phase = "online"
  /\ \E v \in (reply["contacts"] + 1) .. Len(lists) : b \in lists[v]
  /\ version' = [version EXCEPT !["contacts"] = @ + 1]
  /\ cache' = cache \cup {b}
  /\ buddy_list' = buddy_list \cup {b}
  /\ Flush({cache \cup {b}})
  /\ UNCHANGED <<serverVars, account_xml, file, failed, phase, reply, buddies,
                 downloaded>>

BuddyAdded(b) ==
  /\ phase = "online"
  /\ \E v \in (reply["contacts"] + 1) .. Len(lists) : b \in lists[v]
  /\ cache' = cache \cup {b}
  /\ buddy_list' = buddy_list \cup {b}
  /\ Flush({cache \cup {b}})
  /\ UNCHANGED <<serverVars, account_xml, file, failed, phase, loginVars,
                 downloaded>>

(* A name, mood, avatar or authorization of a buddy is stored.             *)
BuddyStored ==
  /\ phase = "online"
  /\ Flush({cache})
  /\ UNCHANGED <<serverVars, account_xml, file, failed, phase, loginVars,
                 blistVars>>

-----------------------------------------------------------------------------
ServerNext ==
  \/ \E L \in SUBSET Buddies : ContactsChange(L)
  \/ PersonalChanges

ProcessNext ==
  \/ Start
  \/ Exit
  \/ \E d \in Docs : KilledInSave(d)
  \/ KilledInSaveAccount
  \/ Ask
  \/ Answer
  \/ Close

ParseNext ==
  \/ PersonalCached
  \/ PersonalReceived
  \/ \E d \in Docs : CacheMissing(d)
  \/ ContactsCached
  \/ ContactsReceived
  \/ AccountSaved

ListNext ==
  \/ ListShown
  \/ \E b \in Buddies : BuddyAdded(b)
  \/ BuddyStored

Next == ServerNext \/ ProcessNext \/ ParseNext \/ ListNext

Spec == Init /\ [][Next]_vars

-----------------------------------------------------------------------------
(* Properties                                                              *)

(* Every variable has its type; a version is one the server has reached.   *)
TypeOK ==
  /\ lists \in Seq(SUBSET Buddies) /\ lists # <<>>
  /\ profile \in Nat \ {0}
  /\ account_xml \in [Docs -> Nat]
  /\ file \in [Docs -> Nat]
  /\ version \in [Docs -> Nat]
  /\ reply \in [Docs -> Nat]
  /\ \A d \in Docs :
       /\ account_xml[d] <= Current[d] /\ file[d] <= Current[d]
       /\ version[d] <= Current[d] /\ reply[d] <= Current[d]
  /\ blist_xml \in SUBSET Buddies
  /\ phase \in Phases
  /\ buddies \in 0 .. Len(lists)
  /\ cache \in SUBSET Buddies
  /\ buddy_list \in SUBSET Buddies
  /\ failed \in SUBSET Docs
  /\ downloaded \in BOOLEAN

(* If account.xml names the version the server has, so that the next login *)
(* will read its own copy, that copy is complete and of that version,      *)
(* wherever the process was killed, whatever the server changed meanwhile  *)
(* and whether or not account.xml could be written, unless the last save   *)
(* of the copy itself failed.                                              *)
VersionNamesCopy ==
  \A d \in Docs :
    d \notin failed /\ account_xml[d] = Current[d] => file[d] = Current[d]

(* A login gets the contact list of the answer, from the answer or from    *)
(* its copy: parse_sipc_resp never stops half way and never reads the copy *)
(* of another version, unless the last save of a copy failed.              *)
ListOfTheAnswer ==
  phase \in {"list", "online"} /\ failed = {} => buddies = reply["contacts"]

(* The buddies shown are those of the contact list of the answer.          *)
ShownExactly ==
  phase = "list" /\ phase' = "online" /\ failed = {}
    => buddy_list' = lists[reply["contacts"]]

(* A process that received a contact list shows from then on, at each of   *)
(* its logins, exactly the buddies of the server's list: nobody that was   *)
(* added or removed in between, here or elsewhere, stays or lacks.         *)
ExactOnceDownloaded == [][downloaded => ShownExactly]_vars

(* fetion.c:200-205: the contact list is reloaded after the next login.    *)
(* lib/config.h:81-83: a flush synchronizes the cache with the file.       *)
ExactAfterLogin == [][ShownExactly]_vars

=============================================================================
