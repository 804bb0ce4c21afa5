----------------------------- MODULE ImChannels -----------------------------
(***************************************************************************)
(* The Telepathy text channels of one connection: FetionImFactory (the     *)
(* channel manager) and FetionImChannel.                                   *)
(*                                                                         *)
(* The factory keeps one channel for a contact, in a hash table which is   *)
(* NULL once the connection is DISCONNECTED.  A channel keeps the texts    *)
(* the client has not acknowledged; telepathy-glib's message mixin, which  *)
(* holds them, is external.  A text is a number; who sends on a channel is *)
(* its contact.  The object path of a channel is made of the handle, so    *)
(* what the client sees of one is the contact.                             *)
(*                                                                         *)
(* This module has the operations; FxIncoming says what calls them.        *)
(***************************************************************************)
EXTENDS Naturals, SequencesExt

CONSTANTS
  Contacts,  \* the handles of the people who may write
  Self,      \* the handle of the user
  NULL

ASSUME SelfAssumption == Self \notin Contacts

(* [initiator: its initiator, pending: the texts not acknowledged]         *)
Channels ==
  [initiator : Contacts \cup {Self}, pending : Seq(Nat)]

ASSUME NullAssumption == \A D \in SUBSET Contacts : NULL \notin [D -> Channels]

VARIABLES
  status,    \* of the Telepathy connection
  channels,  \* priv->channels: a channel for some contacts, or NULL
  exported,  \* the channels the client knows: announced and not closed since
  shown,     \* history: <<c, t>> when text t was put on the channel of c
  read       \* history: the texts acknowledged, or dropped with their channel

channelVars == <<status, channels, exported, shown, read>>

Statuses == {"connecting", "connected", "disconnected"}

ChannelsInit ==
  /\ status = "connecting"
  /\ channels = [c \in {} |-> NULL]
  /\ exported = {}
  /\ shown = {}
  /\ read = {}

IsOpen(c) == channels # NULL /\ c \in DOMAIN channels

(* g_hash_table_insert: a channel there was for c is replaced.             *)
WithChannel(table, c, chan) ==
  [d \in DOMAIN table \cup {c} |-> IF d = c THEN chan ELSE table[d]]

(* g_hash_table_remove.                                                    *)
WithoutChannel(table, c) == [d \in DOMAIN table \ {c} |-> table[d]]

NewChannel(initiator) == [initiator |-> initiator, pending |-> <<>>]

(* The client asks for a channel to c, by CreateChannel, EnsureChannel or  *)
(* RequestChannel.  A channel there is satisfies the request or makes it   *)
(* fail, and stays as it is.                                               *)
Request(c) ==
  /\ status = "connected"
  /\ IF IsOpen(c)
     THEN UNCHANGED <<channels, exported>>
     ELSE /\ channels' = WithChannel(channels, c, NewChannel(Self))
          /\ exported' = exported \cup {c}
  /\ UNCHANGED <<status, shown, read>>

\* Slip: every text comes on a channel of its own.
ChannelFor_Fresh(c) == NewChannel(c)

(* The channel a text of c goes to: the one there is, or a new one.        *)
ChannelFor(c) == IF IsOpen(c) THEN channels[c] ELSE NewChannel(c)

(* telepathy_message_received.                                             *)
Receive(c, t) ==
  /\ channels' = WithChannel(channels, c,
                   [ChannelFor(c) EXCEPT !.pending = Append(@, t)])
  /\ exported' = exported \cup {c}
  /\ shown' = shown \cup {<<c, t>>}
  /\ UNCHANGED <<status, read>>

(* AcknowledgePendingMessages, for one text.                               *)
Acknowledge(c, i) ==
  /\ status # "disconnected"
  /\ channels' = [channels EXCEPT ![c].pending = RemoveAt(@, i)]
  /\ read' = read \cup {channels[c].pending[i]}
  /\ UNCHANGED <<status, exported, shown>>

\* Slip: the channel is announced again before it is closed.
Reopen_AnnouncedFirst(c) ==
  /\ channels' = [channels EXCEPT ![c].initiator = c]
  /\ exported' = exported \ {c}

(* The channel says "closed" and is announced anew, in this order, with    *)
(* the sender of its texts for an initiator.                               *)
Reopen(c) ==
  /\ channels' = [channels EXCEPT ![c].initiator = c]
  /\ exported' = (exported \ {c}) \cup {c}

(* The channel says "closed" and channel_closed_cb drops it.               *)
Gone(c) ==
  /\ channels' = WithoutChannel(channels, c)
  /\ exported' = exported \ {c}

\* Slip: a channel is destroyed whatever waits on it.
Close_Always(c) ==
  /\ status # "disconnected"
  /\ Gone(c)
  /\ UNCHANGED <<status, shown, read>>

(* fetion_im_channel_close: texts that wait bring the channel back.        *)
Close(c) ==
  /\ status # "disconnected"
  /\ IF channels[c].pending # <<>> THEN Reopen(c) ELSE Gone(c)
  /\ UNCHANGED <<status, shown, read>>

(* destroyable_destroy: the texts are dropped, and then nothing keeps it.  *)
Destroy(c) ==
  /\ status # "disconnected"
  /\ Gone(c)
  /\ read' = read \cup Range(channels[c].pending)
  /\ UNCHANGED <<status, shown>>

(* status_changed_cb, DISCONNECTED: close_all sets the table to NULL before*)
(* it drops the channels, so that none comes back.                         *)
CloseAll ==
  /\ status' = "disconnected"
  /\ channels' = NULL
  /\ exported' = {}
  /\ UNCHANGED <<shown, read>>

(* Nothing happens to the channels.                                        *)
ChannelsStay == UNCHANGED channelVars
-----------------------------------------------------------------------------
(* Type invariant of the channels.                                         *)
ChannelTypeOK ==
  /\ status \in Statuses
  /\ channels = NULL <=> status = "disconnected"
  /\ channels # NULL =>
       /\ DOMAIN channels \subseteq Contacts
       /\ channels \in [DOMAIN channels -> Channels]
  /\ exported \subseteq Contacts
  /\ shown \subseteq Contacts \X Nat
  /\ read \subseteq Nat

(* What the client has been told exists is what the factory keeps: through *)
(* requests, texts, closing with and without texts that wait, and the end  *)
(* of the connection (im-factory.c, channel_closed_cb and close_all).      *)
AnnouncedIffListed ==
  exported = IF channels = NULL THEN {} ELSE DOMAIN channels

(* A text put on a channel stays there, on a channel the client knows,     *)
(* until the client acknowledges it, destroys the channel, or the          *)
(* connection ends: closing the channel does not lose it                   *)
(* (im-channel.c, fetion_im_channel_close).                                *)
TextsKept ==
  \A p \in shown :
    \/ p[2] \in read
    \/ status = "disconnected"
    \/ /\ p[1] \in exported
       /\ IsOpen(p[1])
       /\ p[2] \in Range(channels[p[1]].pending)
=============================================================================
