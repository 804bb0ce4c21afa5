----------------------------- MODULE FxIncoming -----------------------------
(***************************************************************************)
(* From the SIP stream of a login to the client: hybrid_push_cb cuts what  *)
(* it receives into messages, process_pushed gives each to its handler,    *)
(* and the texts among them are acknowledged to the server and put on the  *)
(* Telepathy channel of their sender (ImChannels).                         *)
(*                                                                         *)
(* A message on the wire is some cells: one of headers, the blank line     *)
(* that ends them, and those of its body.  A read takes any number of      *)
(* cells the kernel has, and the loop of hybrid_push_cb is one step per    *)
(* message; nothing else in the process runs before it ends.               *)
(*                                                                         *)
(* The session starts where the authentication has been sent.  Before it   *)
(* is accepted the server says nothing but its answers; what a challenge   *)
(* starts is module FxLogin, and the copies of the contact list other      *)
(* than ac->buddies are module Contacts (its KnownShown is why one set is  *)
(* enough here).                                                           *)
(***************************************************************************)
EXTENDS ImChannels

CONSTANTS
  BufLength,   \* the cells one recv() may return
  MaxMessages  \* bound: messages the server writes

ASSUME SizeAssumption ==
  BufLength \in Nat \ {0} /\ MaxMessages \in Nat \ {0}

(* The requests the server answers: the authentication, AddBuddy, and the  *)
(* GetContactInfo of a contact.                                            *)
Requests == {"auth"} \X {Self} \cup {"added", "info"} \X Contacts

Answers ==
  [type : {"auth"}, who : {Self}, code : {"ok"}, list : SUBSET Contacts]
  \cup [type : {"auth"}, who : {Self}, code : {"challenge", "refused"}, list : {{}}]
  \cup [type : {"added", "info"}, who : Contacts, code : {"ok", "refused"}]

Pushes ==
  [type : {"text", "presence"}, who : Contacts]
  \cup [type : {"dereg", "other"}, who : {Self}]

Messages == Answers \cup Pushes

(* How many cells the L header of a message announces; one without a body  *)
(* has no such header.                                                     *)
Length(m) ==
  CASE m.type = "text"  -> 2
    [] m.type = "other" -> 0
    [] OTHER            -> 1

Parts == {"headers", "blank", "body"}

VARIABLES
  sent,      \* history: the messages the server has written
  wire,      \* the cells not yet received
  buffer,    \* ac->buffer
  checking,  \* hybrid_push_cb has read and is at its recheck label
  handled,   \* history: what process_pushed was given
  session,   \* where the login is
  trans,     \* ac->trans_list: the requests not answered
  buddies,   \* ac->buddies
  sid,       \* those with a sid
  acked,     \* history: the texts answered 200 OK
  crashed    \* the process is gone

streamVars  == <<wire, buffer, checking, handled>>
contactVars == <<buddies, sid>>
vars == <<channelVars, sent, streamVars, session, trans, contactVars, acked,
          crashed>>

(* auth: the authentication is sent; challenged: a picture's code is       *)
(* awaited; refused; open; closed by fx_close; freed by recv() = 0.        *)
Sessions == {"auth", "challenged", "refused", "open", "closed", "freed"}

(* The push watch is there.                                                *)
Reading == session \notin {"closed", "freed"}

Cell(i, part) == [of |-> i, part |-> part]

(* What the server writes for its message i.                               *)
Cells(i, m) ==
  <<Cell(i, "headers"), Cell(i, "blank")>>
    \o [k \in 1 .. Length(m) |-> Cell(i, "body")]

Init ==
  /\ ChannelsInit
  /\ sent = <<>> /\ wire = <<>> /\ handled = <<>>
  /\ buffer = <<>> /\ checking = FALSE
  /\ session = "auth"
  /\ trans = {<<"auth", Self>>}
  /\ buddies = {} /\ sid = {}
  /\ acked = {}
  /\ crashed = FALSE
-----------------------------------------------------------------------------
(* The server.                                                             *)

Replied(code) ==
  \E i \in DOMAIN sent : sent[i].type = "auth" /\ sent[i].code = code

Accepted == Replied("ok")
Refused  == Replied("refused")

RequestOf(m) == <<m.type, m.who>>

(* An answer to r is on its way.                                           *)
Answered(r) ==
  \E i \in Len(handled) + 1 .. Len(sent) : RequestOf(sent[i]) = r

MayWrite(m) ==
  \/ /\ m \in Answers
     /\ RequestOf(m) \in trans
     /\ ~Answered(RequestOf(m))
  \/ /\ m \in Pushes
     /\ Accepted \/ (m.type = "other" /\ Refused)
     /\ m.type = "dereg" => \A i \in DOMAIN sent : sent[i].type # "dereg"

ServerWrites(m) ==
  /\ Reading
  /\ Len(sent) < MaxMessages
  /\ MayWrite(m)
  /\ sent' = Append(sent, m)
  /\ wire' = wire \o Cells(Len(sent) + 1, m)
  /\ UNCHANGED <<buffer, checking, handled, session, trans, contactVars,
                 acked, crashed>>
  /\ ChannelsStay
-----------------------------------------------------------------------------
(* hybrid_push_cb.                                                         *)

Undefined(it) == crashed' \in IF it THEN BOOLEAN ELSE {FALSE}

(* recv() returns n cells.  When they fill sipmsg its terminating zero is  *)
(* written past the end.                                                   *)
Recv(n) ==
  /\ Reading /\ ~checking
  /\ n <= Len(wire)
  /\ buffer' = buffer \o SubSeq(wire, 1, n)
  /\ wire' = SubSeq(wire, n + 1, Len(wire))
  /\ checking' = TRUE
  /\ Undefined(n = BufLength)
  /\ UNCHANGED <<sent, handled, session, trans, contactVars, acked>>
  /\ ChannelsStay

(* The blank lines of the buffer, and where the first one is.              *)
Blanks == {k \in DOMAIN buffer : buffer[k].part = "blank"}

HeaderEnd == CHOOSE k \in Blanks : \A j \in Blanks : k <= j

(* fetion_sip_get_length, from the headers at the front of the buffer.     *)
BodyLength == Length(sent[buffer[1].of])

\* Slip: the body is not counted.
MessageEnd_HeaderOnly == HeaderEnd

(* Where the message at the front of the buffer ends.                      *)
MessageEnd == HeaderEnd + BodyLength

\* Slip: one byte more than the message is waited for.
HasMessage_Strict == Blanks # {} /\ MessageEnd < Len(buffer)

(* strstr(ac->buffer, blank line), and the body is there.                  *)
HasMessage == Blanks # {} /\ MessageEnd <= Len(buffer)

(* What is left in the buffer after the message.                           *)
Rest == SubSeq(buffer, MessageEnd + 1, Len(buffer))

(* process_pushed returned and the message is moved out of the buffer.     *)
Moved ==
  /\ buffer' = Rest
  /\ UNCHANGED <<wire, crashed>>

(* The handler freed the buffer: moving what is left of it reads NULL, and *)
(* when nothing is left a new empty one is made.                           *)
MovedFreed ==
  /\ buffer' = <<>>
  /\ crashed' = (Rest # <<>>)
  /\ UNCHANGED wire

(* hybrid_account_close and fx_close, whoever calls them: buddies freed,   *)
(* watch removed, and the socket closed with what it had received.         *)
CloseSession ==
  /\ session' = "closed"
  /\ buddies' = {} /\ sid' = {}
  /\ wire' = <<>>

(* Nobody looks at the buffer and the requests of that account again.      *)
Forgotten == buffer' = <<>> /\ trans' = {}
-----------------------------------------------------------------------------
(* The handlers, for the message m at the front of the buffer.             *)

(* Only the first answer to a request finds it in the list.                *)
IsAwaited(m) == m \in Answers /\ RequestOf(m) \in trans

(* sipc_auth_cb, 200: the buddies of the list get the sid of their uri, and*)
(* the connection is CONNECTED.                                            *)
AuthAccepted(m) ==
  /\ IsAwaited(m) /\ m.type = "auth" /\ m.code = "ok"
  /\ session' = "open"
  /\ status' = "connected"
  /\ buddies' = m.list /\ sid' = m.list
  /\ trans' = trans \ {RequestOf(m)}
  /\ Moved
  /\ UNCHANGED <<channels, exported, shown, read, acked>>

(* sipc_auth_cb, a challenge or a refusal.                                 *)
AuthFails(m) ==
  /\ IsAwaited(m) /\ m.type = "auth" /\ m.code # "ok"
  /\ session' = IF m.code = "challenge" THEN "challenged" ELSE "refused"
  /\ trans' = trans \ {RequestOf(m)}
  /\ MovedFreed
  /\ UNCHANGED <<contactVars, acked>>
  /\ ChannelsStay

(* sipc_auth_cb, when the challenge cannot be parsed: the error            *)
(* disconnects, and shut_down closes the account; the buffer is kept.      *)
ChallengeUnreadable(m) ==
  /\ IsAwaited(m) /\ m.type = "auth" /\ m.code = "challenge"
  /\ CloseSession
  /\ CloseAll
  /\ trans' = trans \ {RequestOf(m)}
  /\ buffer' = Rest
  /\ UNCHANGED <<acked, crashed>>

(* buddy_add_cb: the new buddy has no sid.                                 *)
BuddyAdded(m) ==
  /\ IsAwaited(m) /\ m.type = "added"
  /\ buddies' = IF m.code = "ok" THEN buddies \cup {m.who} ELSE buddies
  /\ trans' = trans \ {RequestOf(m)}
  /\ Moved
  /\ UNCHANGED <<session, sid, acked>>
  /\ ChannelsStay

\* Slip: whether the user is a buddy is not looked at.
InfoReceived_Unlisted(m) ==
  /\ IsAwaited(m) /\ m.type = "info"
  /\ sid' = IF m.code = "ok" THEN sid \cup {m.who} ELSE sid
  /\ trans' = trans \ {RequestOf(m)}
  /\ Moved
  /\ UNCHANGED <<session, buddies, acked>>
  /\ ChannelsStay

(* update_info_cb: the sid comes with the information.                     *)
InfoReceived(m) ==
  /\ IsAwaited(m) /\ m.type = "info"
  /\ sid' = IF m.code = "ok" THEN sid \cup (buddies \cap {m.who}) ELSE sid
  /\ trans' = trans \ {RequestOf(m)}
  /\ Moved
  /\ UNCHANGED <<session, buddies, acked>>
  /\ ChannelsStay

(* process_presence: a buddy without a name is asked about.                *)
Presence(m) ==
  /\ m.type = "presence"
  /\ trans' \in {trans} \cup {trans \cup {<<"info", c>>} : c \in buddies \cap {m.who}}
  /\ Moved
  /\ UNCHANGED <<session, contactVars, acked>>
  /\ ChannelsStay

(* send() of the 200 OK, on the socket fx_close has closed or another one. *)
AckFails(m) ==
  /\ m.type = "text"
  /\ Moved
  /\ UNCHANGED <<session, trans, contactVars, acked>>
  /\ ChannelsStay

\* Slip: the text is shown before the acknowledgement is sent, which may
\* fail.
TextShown_Unacknowledged(m, t) ==
  /\ m.type = "text" /\ session = "open" /\ m.who \in sid
  /\ acked' \in {acked, acked \cup {t}}
  /\ Receive(m.who, t)
  /\ Moved
  /\ UNCHANGED <<session, trans, contactVars>>

(* fetion_process_message and hybrid_conv_got_message: acknowledged, the   *)
(* sender found by sid, and given to the channel.                          *)
TextShown(m, t) ==
  /\ m.type = "text" /\ session = "open" /\ m.who \in sid
  /\ acked' = acked \cup {t}
  /\ Receive(m.who, t)
  /\ Moved
  /\ UNCHANGED <<session, trans, contactVars>>

(* The same when nobody has that sid: acknowledged and dropped.            *)
TextDropped(m, t) ==
  /\ m.type = "text" /\ session = "open" /\ m.who \notin sid
  /\ acked' = acked \cup {t}
  /\ Moved
  /\ UNCHANGED <<session, trans, contactVars>>
  /\ ChannelsStay

(* process_dereg_cb: the error disconnects, and shut_down closes the       *)
(* account while hybrid_push_cb is in its loop, which goes on.             *)
Deregistered(m) ==
  /\ m.type = "dereg"
  /\ CloseSession
  /\ CloseAll
  /\ buffer' = Rest
  /\ UNCHANGED <<trans, acked, crashed>>

(* No handler wants it, or no request is waiting for it.                   *)
Ignored(m) ==
  /\ m.type # "other" => m \in Answers /\ ~IsAwaited(m)
  /\ Moved
  /\ UNCHANGED <<session, trans, contactVars, acked>>
  /\ ChannelsStay

(* process_pushed, of message t.                                           *)
ProcessPushed(m, t) ==
  \/ AuthAccepted(m) \/ AuthFails(m) \/ ChallengeUnreadable(m)
  \/ BuddyAdded(m) \/ InfoReceived(m)
  \/ Presence(m)
  \/ AckFails(m) \/ TextShown(m, t) \/ TextDropped(m, t)
  \/ Deregistered(m)
  \/ Ignored(m)

\* Slip: "goto recheck" is forgotten.
HandleMessage_Once ==
  /\ checking /\ HasMessage
  /\ handled' = Append(handled, SubSeq(buffer, 1, MessageEnd))
  /\ LET t == buffer[1].of IN ProcessPushed(sent[t], t)
  /\ checking' = FALSE
  /\ UNCHANGED sent

(* One turn of the loop, up to "goto recheck".                              *)
HandleMessage ==
  /\ checking /\ HasMessage
  /\ handled' = Append(handled, SubSeq(buffer, 1, MessageEnd))
  /\ LET t == buffer[1].of IN ProcessPushed(sent[t], t)
  /\ UNCHANGED <<sent, checking>>

(* No complete message is left: hybrid_push_cb returns.                    *)
PushReturns ==
  /\ checking /\ ~HasMessage
  /\ checking' = FALSE
  /\ UNCHANGED <<sent, wire, buffer, handled, session, trans, contactVars,
                 acked, crashed>>
  /\ ChannelsStay

(* recv() = -1: the error disconnects, and the account is closed.          *)
PushFails ==
  /\ Reading /\ ~checking
  /\ CloseSession /\ Forgotten
  /\ CloseAll
  /\ UNCHANGED <<sent, checking, handled, acked, crashed>>

(* recv() = 0: the fetion_account is freed.  Nobody tells Telepathy.       *)
PushEnds ==
  /\ Reading /\ ~checking /\ wire = <<>>
  /\ session' = "freed"
  /\ buddies' = {} /\ sid' = {}
  /\ Forgotten
  /\ UNCHANGED <<sent, wire, checking, handled, acked, crashed>>
  /\ ChannelsStay
-----------------------------------------------------------------------------
(* The user and the client, when hybrid_push_cb is not running.  What      *)
(* needs the fetion_account after it was freed may crash.                  *)

CodeEntered ==
  /\ ~checking /\ session = "challenged"
  /\ session' = "auth"
  /\ trans' = trans \cup {<<"auth", Self>>}
  /\ UNCHANGED <<sent, streamVars, contactVars, acked, crashed>>
  /\ ChannelsStay

AddContact(c) ==
  /\ ~checking /\ session = "open" /\ c \notin buddies
  /\ trans' = trans \cup {<<"added", c>>}
  /\ UNCHANGED <<sent, streamVars, session, contactVars, acked, crashed>>
  /\ ChannelsStay

(* set_own_status, offline: the account is closed, Telepathy stays         *)
(* CONNECTED.                                                              *)
SetOffline ==
  /\ ~checking /\ status = "connected" /\ session # "closed"
  /\ CloseSession /\ Forgotten
  /\ Undefined(session = "freed")
  /\ UNCHANGED <<sent, checking, handled, acked>>
  /\ ChannelsStay

Disconnect ==
  /\ ~checking /\ status # "disconnected"
  /\ CloseSession /\ Forgotten
  /\ Undefined(session = "freed")
  /\ CloseAll
  /\ UNCHANGED <<sent, checking, handled, acked>>

(* The keep alive timer, or a request of the client, uses what was freed.  *)
UseFreed ==
  /\ ~checking /\ session = "freed"
  /\ crashed' = TRUE
  /\ UNCHANGED <<sent, streamVars, session, trans, contactVars, acked>>
  /\ ChannelsStay

(* What a client does with the channels.                                   *)
UseChannel(c) ==
  /\ ~checking
  /\ \/ Request(c)
     \/ /\ c \in exported
        /\ \/ \E i \in DOMAIN channels[c].pending : Acknowledge(c, i)
           \/ Close(c)
           \/ Destroy(c)
  /\ UNCHANGED <<sent, streamVars, session, trans, contactVars, acked, crashed>>

Push ==
  \/ \E n \in 1 .. BufLength : Recv(n)
  \/ HandleMessage
  \/ PushReturns

Next ==
  /\ ~crashed
  /\ \/ \E m \in Messages : ServerWrites(m)
     \/ Push \/ PushFails \/ PushEnds
     \/ CodeEntered \/ SetOffline \/ Disconnect \/ UseFreed
     \/ \E c \in Contacts : AddContact(c) \/ UseChannel(c)

(* The event loop polls the socket again as long as there is something to  *)
(* read, and a callback that runs returns.                                 *)
Spec == Init /\ [][Next]_vars /\ WF_vars(~crashed /\ Push)
-----------------------------------------------------------------------------
(* Type invariant.                                                         *)
TypeOK ==
  /\ ChannelTypeOK
  /\ sent \in Seq(Messages)
  /\ wire \in Seq([of : DOMAIN sent, part : Parts])
  /\ buffer \in Seq([of : DOMAIN sent, part : Parts])
  /\ handled \in Seq(Seq([of : DOMAIN sent, part : Parts]))
  /\ checking \in BOOLEAN
  /\ session \in Sessions
  /\ trans \subseteq Requests
  /\ sid \subseteq buddies /\ buddies \subseteq Contacts
  /\ acked \subseteq DOMAIN sent
  /\ crashed \in BOOLEAN

(* However the stream is cut by the reads, and whatever handlers do in     *)
(* between, process_pushed is given the messages the server wrote, whole   *)
(* and in their order.                                                     *)
HandledInOrder ==
  /\ Len(handled) <= Len(sent)
  /\ \A i \in DOMAIN handled : handled[i] = Cells(i, sent[i])

(* Between two reads no complete message waits in the buffer: the server   *)
(* may have nothing more to say that would bring it out.                   *)
NothingWaits == ~checking => ~HasMessage

(* A text is put on a channel only if the server was told that it arrived, *)
(* or it would come twice; and one the server was told about is on its     *)
(* channel, unless its sender was not in the list of the login             *)
(* (fx_msg.c:282 sends 200 OK before fx_msg.c:293 looks for the sender).   *)
AckedIffShown ==
  LET Listed == UNION {sent[i].list : i \in
                        {j \in DOMAIN sent : sent[j].type = "auth"}}
  IN  /\ \A p \in shown : p[2] \in acked
      /\ \A t \in acked :
           sent[t].who \in Listed => <<sent[t].who, t>> \in shown

(* Every message the server writes is handled in the end, if the session   *)
(* does not end before (the server writes at most MaxMessages).            *)
EverythingHandled ==
  []<>(Len(handled) = Len(sent) \/ ~Reading \/ crashed)

(* The texts of a contact, on their way and unread, behave as module Inbox *)
(* promises.                                                               *)
IsText(t) == sent[t].type = "text"

OnTheWay(c) ==
  {t \in DOMAIN sent : t > Len(handled) /\ IsText(t) /\ sent[t].who = c}

Unread(c) == IF IsOpen(c) THEN channels[c].pending ELSE <<>>

Delivery == INSTANCE Inbox WITH
  Texts  <- 1 .. MaxMessages,
  texts  <- {t \in DOMAIN sent : IsText(t)},
  line   <- [c \in Contacts |-> OnTheWay(c)],
  unread <- [c \in Contacts |-> Unread(c)]

ImplementsInbox == Delivery!Spec
=============================================================================
