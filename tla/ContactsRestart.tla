-------------------------- MODULE ContactsRestart --------------------------
(***************************************************************************)
(* The contact list over more than one process: blist.xml, from which a    *)
(* process takes the tree it starts with, and which the tree reaches only  *)
(* now and then.  account.xml and buddies.xml, which say whether the list  *)
(* has changed, are saved at every login: a restart leaves "changed" as it *)
(* is.  Saves that fail or are cut short are module FxConfig.              *)
(***************************************************************************)
EXTENDS Contacts

VARIABLE blist_xml  \* the groups and buddies of this account in blist.xml

restartVars == <<vars, blist_xml>>

RestartInit == Init /\ blist_xml = EmptyTree

(* The steps that call hybrid_blist_cache_flush: they write to the tree or *)
(* close the account.                                                      *)
CallsFlush == ~crashed' /\ (tree' # tree \/ (connected /\ ~connected'))

(* hybrid_blist_cache_flush writes at every twentieth call in the life of  *)
(* the process, for all its accounts: whether it does in a step is a       *)
(* choice.  Of the writes in the middle of a login none is followed.       *)
Flush == blist_xml' = blist_xml \/ (CallsFlush /\ blist_xml' = tree')

(* The process left when its last connection was gone, or died.  Nothing   *)
(* is written, and the next one reads blist.xml (hybrid_blist_cache_init). *)
Restart ==
  /\ ~tp
  /\ crashed' = FALSE
  /\ tree' = blist_xml /\ contacts' = {}
  /\ UNCHANGED <<serverVars, wireVars, tp, connected, ac_buddies, group_list,
                 buddy_list, boundVars, blist_xml>>

RestartNext == (Next /\ Flush) \/ Restart

RestartSpec == RestartInit /\ [][RestartNext]_restartVars

-----------------------------------------------------------------------------
(* fx_group.c:266: "The group named 'Ungrouped' can't be renamed.": no     *)
(* client gets a request to rename it sent, in any process.                *)
UngroupedNeverRenamed ==
  \A r \in asked : r.type = "rename_group" => r.group # Default

=============================================================================
