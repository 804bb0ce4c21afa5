------------------------------ MODULE FxChat ------------------------------
(***************************************************************************)
(* The conversation engine of the fetion plugin: how a text typed by the   *)
(* user reaches the wire.  A text to an offline or invisible buddy leaves  *)
(* on the main connection; a text to an online buddy needs a conversation  *)
(* channel, a second connection held by a CLONE of the fetion_account,     *)
(* which is negotiated by three requests (StartChat on the main            *)
(* connection, then Register and Invite on the new one) and is ready only  *)
(* when the server pushes User-Entered on it.                              *)
(*                                                                         *)
(* Everything runs in one GLib main loop, so an action is one callback of  *)
(* that loop, with every call the callback makes.  Interleaving is the     *)
(* order in which the loop dispatches sockets, timers and D-Bus calls.     *)
(*                                                                         *)
(* The result of send() is a choice wherever the code looks at it; where   *)
(* it only changes a return code that every caller drops (a text, a        *)
(* StartChat, an Invite) it is left out.  A use of freed memory either     *)
(* ends the process (crashed) or goes on with what the block last held.    *)
(***************************************************************************)
EXTENDS Naturals, Sequences

CONSTANTS
  Buddies,    \* buddy ids (userid) of the contact list shown to the user
  Known,      \* those that are in fetion_account.buddies as well
  Messages,   \* texts; each is typed at most once
  Channels,   \* addresses a cloned fetion_account may be allocated at
  Main,       \* the fetion_account of the login
  None,       \* no buddy, no text
  MaxCallid,  \* bound: requests are numbered below MaxCallid
  KeepAliveBelow \* bound: keep alive rounds use call ids below this one

ASSUME ConstantAssumption ==
  /\ Known \subseteq Buddies
  /\ Main \notin Channels
  /\ None \notin Buddies /\ None \notin Messages
  /\ MaxCallid \in Nat \ {0}
  /\ KeepAliveBelow \in 0 .. MaxCallid

Accounts == Channels \cup {Main}

(***************************************************************************)
(* A transaction is known by its callback: new_chat_cb (StartChat),        *)
(* chat_reg_cb (Register), invite_buddy_cb (Invite), sms_response_cb       *)
(* (Sms), and keep_alive_cb, which touches nothing.                        *)
(***************************************************************************)
Kinds == {"StartChat", "Register", "Invite", "Sms", "KeepAlive"}

TextTransactions ==
  [callid : Nat, kind : Kinds \ {"KeepAlive"}, user : Buddies, msg : Messages]

KeepAliveTransactions ==
  [callid : Nat, kind : {"KeepAlive"}, user : {None}, msg : {None}]

Transactions == TextTransactions \cup KeepAliveTransactions

(* What a waiting transaction and the data of a pending connect carry.     *)
Texts == [user : Buddies, msg : Messages]

Transaction(n, k, u, m) ==
  [callid |-> n, kind |-> k, user |-> u, msg |-> m]

VARIABLES
  status,       \* the allocation of each fetion_account
  conn,         \* its socket and read watch
  ready,        \* channel_ready
  who,          \* the buddy a channel is for
  channel_list, \* the global list of clones
  trans,        \* trans_list of each account
  wait,         \* trans_wait_list of each account
  pend,         \* the transaction a pending outgoing connect carries
  stale,        \* channels whose WRITE watch outlived the data it was given
  timers,       \* SMS timers running: <<account, callid>>
  callid,       \* the global call id
  keepalive,    \* the 30s keep alive timer runs
  online,       \* buddies neither offline nor invisible
  closed,       \* hybrid_account_close has run
  crashed,      \* the process is gone
  addr,         \* history: the buddy each text was typed for
  emitted       \* history: texts handed to send(), per account, in order

accountVars == <<status, conn, ready, who, channel_list>>
queueVars   == <<trans, wait, pend, timers, callid>>
historyVars == <<addr, emitted>>
frontVars   == <<keepalive, online, closed>>

vars == <<accountVars, queueVars, stale, frontVars, crashed, historyVars>>

Init ==
  /\ status = [a \in Accounts |-> IF a = Main THEN "open" ELSE "unused"]
  /\ conn = [a \in Accounts |-> IF a = Main THEN "up" ELSE "none"]
  /\ ready = [a \in Accounts |-> a = Main]
  /\ who = [c \in Channels |-> None]
  /\ channel_list = <<>>
  /\ trans = [a \in Accounts |-> {}]
  /\ wait = [a \in Accounts |-> <<>>]
  /\ pend = [c \in Channels |-> {}]
  /\ stale = {}
  /\ timers = {}
  /\ callid = 1
  /\ keepalive = TRUE
  /\ online \in SUBSET Buddies
  /\ closed = FALSE
  /\ crashed = FALSE
  /\ addr = [m \in Messages |-> None]
  /\ emitted = [a \in Accounts |-> <<>>]

-----------------------------------------------------------------------------
(* Helpers.  A definition marked "Slip" is not part of the model: it is a   *)
(* mistake one could make in the definition that follows it, kept to show  *)
(* that the properties notice.                                             *)

(* A callback that reads freed memory may end the process.                 *)
MayCrash(touchesFreed) ==
  crashed' \in (IF touchesFreed THEN BOOLEAN ELSE {FALSE})

(* fetion_buddy_find_by_userid.  A clone shares the list of the account it *)
(* was cloned from; fx_close frees that list, and empties it in the main   *)
(* account only, so that afterwards a clone walks freed memory.            *)
DanglingBuddies(a) == closed /\ a # Main

Lookup(a, u) ==
  IF DanglingBuddies(a) THEN BOOLEAN ELSE {~closed /\ u \in Known}

(* The handlers of pushed messages run on an account whose read watch is   *)
(* installed and whose socket delivers.                                    *)
Listening(a) == status[a] = "open" /\ conn[a] = "up"

\* Slip: the first channel is taken, whoever it is for.
ChannelFor_First(b, i) ==
  i = 1 /\ i \in DOMAIN channel_list

ChannelFor(b, i) ==
  /\ i \in DOMAIN channel_list
  /\ who[channel_list[i]] = b
  /\ \A j \in 1 .. (i - 1) : who[channel_list[j]] # b

(* transaction_create, transaction_set_*, transaction_add, and the number  *)
(* fetion_sip_set_type takes and fetion_sip_to_string uses up.  base is    *)
(* what trans_list holds besides.                                          *)
\* Slip: the call id is not advanced.
Request_SameNumber(a, base, k, u, m) ==
  /\ callid < MaxCallid
  /\ trans' = [trans EXCEPT ![a] = base \cup {Transaction(callid, k, u, m)}]
  /\ UNCHANGED callid

Request(a, base, k, u, m) ==
  /\ callid < MaxCallid
  /\ trans' = [trans EXCEPT ![a] = base \cup {Transaction(callid, k, u, m)}]
  /\ callid' = callid + 1

(* fetion_message_send.  base is trans_list without the transaction being  *)
(* answered, if the caller is its callback.                                *)
\* Slip: g_slist_prepend for g_slist_append.
Hold_Prepends(a, u, m, base) ==
  /\ ~ready[a]
  /\ wait' = [wait EXCEPT ![a] = <<[user |-> u, msg |-> m]>> \o @]
  /\ trans' = [trans EXCEPT ![a] = base]
  /\ UNCHANGED <<timers, callid, emitted>>

Hold(a, u, m, base) ==
  /\ ~ready[a]
  /\ wait' = [wait EXCEPT ![a] = Append(@, [user |-> u, msg |-> m])]
  /\ trans' = [trans EXCEPT ![a] = base]
  /\ UNCHANGED <<timers, callid, emitted>>

\* Slip: channel_ready is not looked at.
Emit_Ungated(a, u, m, base) ==
  /\ Request(a, base, "Sms", u, m)
  /\ timers' = timers \cup {<<a, callid>>}
  /\ emitted' = [emitted EXCEPT ![a] = Append(@, [user |-> u, msg |-> m])]
  /\ UNCHANGED wait

\* Slip: no timeout is set.
Emit_NoTimer(a, u, m, base) ==
  /\ ready[a]
  /\ Request(a, base, "Sms", u, m)
  /\ emitted' = [emitted EXCEPT ![a] = Append(@, [user |-> u, msg |-> m])]
  /\ UNCHANGED <<wait, timers>>

Emit(a, u, m, base) ==
  /\ ready[a]
  /\ Request(a, base, "Sms", u, m)
  /\ timers' = timers \cup {<<a, callid>>}
  /\ emitted' = [emitted EXCEPT ![a] = Append(@, [user |-> u, msg |-> m])]
  /\ UNCHANGED wait

Drop(a, base) ==
  /\ trans' = [trans EXCEPT ![a] = base]
  /\ UNCHANGED <<wait, timers, callid, emitted>>

MessageSend(a, u, m, base) ==
  \E found \in Lookup(a, u) :
    \/ ~found /\ Drop(a, base)
    \/ found /\ Hold(a, u, m, base)
    \/ found /\ Emit(a, u, m, base)

-----------------------------------------------------------------------------
(* The user's side                                                         *)

(* fx_chat_send, offline or invisible buddy: the main account sends.       *)
SendOnMain(b, m) ==
  /\ b \notin online
  /\ MessageSend(Main, b, m, trans[Main])
  /\ MayCrash(status[Main] = "freed")

(* fx_chat_send, a channel for this buddy is listed: the first one sends.  *)
SendOnChannel(b, m) ==
  /\ b \in online
  /\ \E i \in DOMAIN channel_list :
       /\ ChannelFor(b, i)
       /\ LET c == channel_list[i] IN MessageSend(c, who[c], m, trans[c])
  /\ UNCHANGED crashed

(* fx_chat_send, no channel: fetion_message_new_chat asks for one.         *)
StartChat(b, m) ==
  /\ b \in online
  /\ \A i \in DOMAIN channel_list : who[channel_list[i]] # b
  /\ Request(Main, trans[Main], "StartChat", b, m)
  /\ MayCrash(status[Main] = "freed")
  /\ UNCHANGED <<wait, timers, emitted>>

(* The user sends m to b.  hybrid_account_close empties the buddy table,   *)
(* so that afterwards no buddy is found and the text goes nowhere.         *)
ChatSend(b, m) ==
  /\ ~crashed /\ ~closed
  /\ addr[m] = None
  /\ addr' = [addr EXCEPT ![m] = b]
  /\ \/ SendOnMain(b, m)
     \/ SendOnChannel(b, m)
     \/ StartChat(b, m)
  /\ UNCHANGED <<accountVars, pend, stale, frontVars>>

(* hybrid_blist_set_buddy_state moves b in or out of sight.                *)
PresenceChanged(b) ==
  /\ ~crashed /\ ~closed
  /\ online' = IF b \in online THEN online \ {b} ELSE online \cup {b}
  /\ UNCHANGED <<accountVars, queueVars, stale, keepalive, closed, crashed,
                 historyVars>>

(* fx_keep_alive: the main account, then, unless its send() failed, every  *)
(* listed channel, whether its socket is connected or not.  A failure      *)
(* stops the timer for good.                                               *)
KeepAliveNumber(a) ==
  IF a = Main THEN {callid}
  ELSE {callid + i : i \in {j \in DOMAIN channel_list : channel_list[j] = a}}

KeepAliveAll ==
  /\ Listening(Main)
  /\ callid + Len(channel_list) < KeepAliveBelow
  /\ trans' = [a \in Accounts |-> trans[a] \cup
                 {Transaction(n, "KeepAlive", None, None) :
                    n \in KeepAliveNumber(a)}]
  /\ callid' = callid + 1 + Len(channel_list)
  /\ UNCHANGED keepalive

KeepAliveFails ==
  /\ callid < KeepAliveBelow
  /\ Request(Main, trans[Main], "KeepAlive", None, None)
  /\ keepalive' = FALSE

KeepAlive ==
  /\ ~crashed /\ keepalive
  /\ KeepAliveAll \/ KeepAliveFails
  /\ MayCrash(status[Main] = "freed")
  /\ UNCHANGED <<accountVars, wait, pend, timers, stale, online, closed,
                 historyVars>>

(* hybrid_account_close: the keep alive timer and the buddy table go.      *)
AccountClosed ==
  /\ closed' = TRUE
  /\ keepalive' = FALSE

(* With fx_close, which it calls, the main socket, its watch and the       *)
(* buddies go; channel_list, the transactions and the SMS timers stay.     *)
Close ==
  /\ ~crashed /\ ~closed
  /\ AccountClosed
  /\ conn' = [conn EXCEPT ![Main] = "closed"]
  /\ MayCrash(status[Main] = "freed")
  /\ UNCHANGED <<status, ready, who, channel_list, queueVars, stale, online,
                 historyVars>>

-----------------------------------------------------------------------------
(* Opening a channel                                                       *)

(* fetion_account_clone and fetion_account_set_who.                        *)
\* Slip: fetion_account_set_who is forgotten.
Clone_Nobody(c, u) ==
  /\ status[c] = "unused"
  /\ status' = [status EXCEPT ![c] = "open"]
  /\ channel_list' = Append(channel_list, c)
  /\ UNCHANGED <<ready, who>>

Clone(c, u) ==
  /\ status[c] = "unused"
  /\ status' = [status EXCEPT ![c] = "open"]
  /\ who' = [who EXCEPT ![c] = u]
  /\ channel_list' = Append(channel_list, c)
  /\ UNCHANGED ready

(* invite_connect_cb and process_invite_conn_cb: register on the new       *)
(* socket.  Only the outgoing one records a transaction for the reply.     *)
RegisterOn(c, carried, base) ==
  /\ callid < MaxCallid
  /\ callid' = callid + 1
  /\ trans' = [base EXCEPT ![c] = @ \cup
                 {Transaction(callid, "Register", t.user, t.msg) :
                    t \in carried}]

(* hybrid_proxy_connect for the clone c: it fails and nobody looks at the  *)
(* result, or waits for the socket, or is connected at once.               *)
ConnectFails(base) ==
  /\ trans' = base
  /\ UNCHANGED <<conn, pend, callid>>

ConnectWaits(c, carried, base) ==
  /\ conn' = [conn EXCEPT ![c] = "connecting"]
  /\ pend' = [pend EXCEPT ![c] = carried]
  /\ trans' = base
  /\ UNCHANGED callid

ConnectAtOnce(c, carried, base) ==
  /\ conn' = [conn EXCEPT ![c] = "up"]
  /\ RegisterOn(c, carried, base)
  /\ UNCHANGED pend

ProxyConnect(c, carried, base) ==
  \/ ConnectFails(base)
  \/ ConnectWaits(c, carried, base)
  \/ ConnectAtOnce(c, carried, base)

(* fetion_process_invite: a buddy invites us to a channel.                 *)
InviteReceived(a, b, c) ==
  /\ ~crashed
  /\ Listening(a)
  /\ TRUE \in Lookup(a, b)
  /\ MayCrash(DanglingBuddies(a))
  /\ Clone(c, b)
  /\ ProxyConnect(c, {}, trans)
  /\ UNCHANGED <<wait, timers, stale, frontVars, historyVars>>

(* The WRITE watch of a pending connect fires, on success and on failure   *)
(* alike: the callback stores the socket, adds the read watch and sends    *)
(* Register.  If send() fails it returns HYBRID_ERROR, which is TRUE to    *)
(* the event loop: the watch stays, with data the callback has freed.      *)
ConnectDone(c, established, sent) ==
  /\ ~crashed
  /\ conn[c] = "connecting"
  /\ sent => established
  /\ conn' = [conn EXCEPT ![c] = IF established THEN "up" ELSE "broken"]
  /\ RegisterOn(c, pend[c], trans)
  /\ pend' = [pend EXCEPT ![c] = {}]
  /\ stale' = IF sent THEN stale ELSE stale \cup {c}
  /\ UNCHANGED <<status, ready, who, channel_list, wait, timers, frontVars,
                 crashed, historyVars>>

(* The watch that stayed fires again: the first word of the freed data is  *)
(* the pointer the callback follows, and the allocator has reused it.      *)
StaleConnect(c) ==
  /\ ~crashed
  /\ c \in stale
  /\ crashed' = TRUE
  /\ UNCHANGED <<accountVars, queueVars, stale, frontVars, historyVars>>

-----------------------------------------------------------------------------
(* Replies: process_sipc_cb finds the transaction by its callid, runs its  *)
(* callback and destroys it.  A reply nobody waits for changes nothing.    *)

Answered(a, t) == trans[a] \ {t}

(* new_chat_cb: a reply without endpoint or credential loses the text; a   *)
(* good one opens a channel that carries it.                               *)
StartChatRefused(a, t) ==
  /\ trans' = [trans EXCEPT ![a] = Answered(a, t)]
  /\ UNCHANGED <<accountVars, wait, pend, timers, callid, emitted>>

\* Slip: the connect is given the transaction itself, not its clone.
StartChatGranted_Shares(a, t) ==
  \E c \in Channels :
    /\ Clone(c, t.user)
    /\ ProxyConnect(c, {t}, [trans EXCEPT ![a] = Answered(a, t)])
    /\ UNCHANGED <<wait, timers, emitted>>

StartChatGranted(a, t) ==
  \E c \in Channels :
    /\ Clone(c, t.user)
    /\ ProxyConnect(c, {[user |-> t.user, msg |-> t.msg]},
                    [trans EXCEPT ![a] = Answered(a, t)])
    /\ UNCHANGED <<wait, timers, emitted>>

(* chat_reg_cb: whatever the code of the reply, invite the buddy.          *)
Registered(a, t) ==
  /\ \E found \in Lookup(a, t.user) :
       \/ /\ ~found
          /\ trans' = [trans EXCEPT ![a] = Answered(a, t)]
          /\ UNCHANGED callid
       \/ /\ found
          /\ Request(a, Answered(a, t), "Invite", t.user, t.msg)
  /\ UNCHANGED <<accountVars, wait, pend, timers, emitted>>

(* invite_buddy_cb: send the text that opened the channel.                 *)
\* Slip: the transaction is not removed after its callback.
Invited_Stays(a, t) ==
  /\ MessageSend(a, t.user, t.msg, trans[a])
  /\ UNCHANGED <<accountVars, pend>>

Invited(a, t) ==
  /\ MessageSend(a, t.user, t.msg, Answered(a, t))
  /\ UNCHANGED <<accountVars, pend>>

(* sms_response_cb: stop the timer.                                        *)
\* Slip: the timer is not removed.
SmsAnswered_KeepsTimer(a, t) ==
  /\ trans' = [trans EXCEPT ![a] = Answered(a, t)]
  /\ UNCHANGED <<accountVars, wait, pend, timers, callid, emitted>>

SmsAnswered(a, t) ==
  /\ timers' = timers \ {<<a, t.callid>>}
  /\ trans' = [trans EXCEPT ![a] = Answered(a, t)]
  /\ UNCHANGED <<accountVars, wait, pend, callid, emitted>>

KeepAliveAnswered(a, t) ==
  /\ trans' = [trans EXCEPT ![a] = Answered(a, t)]
  /\ UNCHANGED <<accountVars, wait, pend, timers, callid, emitted>>

Callback(a, t) ==
  \/ t.kind = "StartChat" /\ (StartChatRefused(a, t) \/ StartChatGranted(a, t))
  \/ t.kind = "Register"  /\ Registered(a, t)
  \/ t.kind = "Invite"    /\ Invited(a, t)
  \/ t.kind = "Sms"       /\ SmsAnswered(a, t)
  \/ t.kind = "KeepAlive" /\ KeepAliveAnswered(a, t)

(* Register and Invite look a buddy up.                                    *)
Reply(a, t) ==
  /\ ~crashed
  /\ Listening(a)
  /\ t \in trans[a]
  /\ Callback(a, t)
  /\ MayCrash(DanglingBuddies(a) /\ t.kind \in {"Register", "Invite"})
  /\ UNCHANGED <<stale, frontVars, addr>>

(* sms_timeout_cb, 30 seconds after fetion_message_send: the transaction   *)
(* is taken off the account it was sent on, which may be freed by then.    *)
SmsTimeout(a, t) ==
  /\ ~crashed
  /\ t \in trans[a] /\ t.kind = "Sms"
  /\ <<a, t.callid>> \in timers
  /\ timers' = timers \ {<<a, t.callid>>}
  /\ trans' = [trans EXCEPT ![a] = Answered(a, t)]
  /\ MayCrash(status[a] = "freed")
  /\ UNCHANGED <<accountVars, wait, pend, callid, stale, frontVars,
                 historyVars>>

-----------------------------------------------------------------------------
(* Pushed on a channel, and the end of a connection                        *)

(* process_enter_cb: the channel is ready, and every waiting transaction   *)
(* goes through fetion_message_send, oldest first, in this one callback.   *)
DrainInto(c) ==
  /\ callid + Len(wait[c]) <= MaxCallid
  /\ trans' = [trans EXCEPT ![c] = @ \cup
                 {Transaction(callid + i - 1, "Sms", wait[c][i].user,
                              wait[c][i].msg) : i \in DOMAIN wait[c]}]
  /\ timers' = timers \cup {<<c, callid + i - 1>> : i \in DOMAIN wait[c]}
  /\ callid' = callid + Len(wait[c])
  /\ emitted' = [emitted EXCEPT ![c] = @ \o wait[c]]

(* After fx_close the one buddy all of them are for may not be found.      *)
DrainLost(c) ==
  /\ DanglingBuddies(c)
  /\ UNCHANGED <<trans, timers, callid, emitted>>

\* Slip: the waiting list is not looked at.
UserEntered_LeavesWaiting(c) ==
  /\ ~crashed
  /\ Listening(c)
  /\ ready' = [ready EXCEPT ![c] = TRUE]
  /\ UNCHANGED <<status, conn, who, channel_list, queueVars, stale, frontVars,
                 crashed, historyVars>>

UserEntered(c) ==
  /\ ~crashed
  /\ Listening(c)
  /\ ready' = [ready EXCEPT ![c] = TRUE]
  /\ DrainInto(c) \/ DrainLost(c)
  /\ wait' = [wait EXCEPT ![c] = <<>>]
  /\ MayCrash(DanglingBuddies(c) /\ wait[c] # <<>>)
  /\ UNCHANGED <<status, conn, who, channel_list, pend, stale, frontVars,
                 addr>>

(* g_slist_remove(channel_list, a): the first entry for a goes, if any.    *)
FirstEntry(a, i) ==
  channel_list[i] = a /\ \A j \in 1 .. (i - 1) : channel_list[j] # a

Without(i) ==
  [j \in 1 .. (Len(channel_list) - 1) |->
     IF j < i THEN channel_list[j] ELSE channel_list[j + 1]]

Unlist(a) ==
  \/ \E i \in DOMAIN channel_list :
       FirstEntry(a, i) /\ channel_list' = Without(i)
  \/ /\ \A i \in DOMAIN channel_list : channel_list[i] # a
     /\ UNCHANGED channel_list

\* Slip: the account stays on channel_list.
FreeAccount_StaysListed(a) ==
  /\ status' = [status EXCEPT ![a] = "freed"]
  /\ conn' = [conn EXCEPT ![a] = "closed"]
  /\ UNCHANGED <<ready, who, channel_list>>

FreeAccount(a) ==
  /\ status' = [status EXCEPT ![a] = "freed"]
  /\ conn' = [conn EXCEPT ![a] = "closed"]
  /\ Unlist(a)
  /\ UNCHANGED <<ready, who>>

(* process_left_cb: the channel is closed and its account destroyed, and   *)
(* hybrid_push_cb, which called it, goes on with the buffer of the         *)
(* destroyed account.                                                      *)
UserLeft(c) ==
  /\ ~crashed
  /\ Listening(c)
  /\ FreeAccount(c)
  /\ MayCrash(TRUE)
  /\ UNCHANGED <<queueVars, stale, frontVars, historyVars>>

(* hybrid_push_cb, recv() = 0: the account is destroyed, the main one too, *)
(* although the connection manager keeps it as its protocol data.  Only    *)
(* the main one has an ssic, which fetion_account_destroy frees twice.     *)
PeerClosed(a) ==
  /\ ~crashed
  /\ Listening(a)
  /\ FreeAccount(a)
  /\ MayCrash(a = Main)
  /\ UNCHANGED <<queueVars, stale, frontVars, historyVars>>

(* hybrid_push_cb, recv() = -1: the read watch goes, and the error closes  *)
(* the login unless it is closed already; then the Telepathy connection    *)
(* the error is reported to is gone.                                       *)
RecvFailed(a) ==
  /\ ~crashed
  /\ status[a] = "open" /\ conn[a] \in {"up", "broken"}
  /\ AccountClosed
  /\ conn' = [b \in Accounts |-> IF b = Main THEN "closed"
                                 ELSE IF b = a THEN "deaf" ELSE conn[b]]
  /\ MayCrash(closed \/ status[Main] = "freed")
  /\ UNCHANGED <<status, ready, who, channel_list, queueVars, stale, online,
                 historyVars>>

-----------------------------------------------------------------------------
ConnectNext ==
  \/ \E a \in Accounts, b \in Buddies, c \in Channels : InviteReceived(a, b, c)
  \/ \E c \in Channels, e, s \in BOOLEAN : ConnectDone(c, e, s)
  \/ \E c \in Channels : StaleConnect(c)

ReplyNext == \E a \in Accounts : \E t \in trans[a] : Reply(a, t)

TimeoutNext == \E a \in Accounts : \E t \in trans[a] : SmsTimeout(a, t)

Next ==
  \/ \E b \in Buddies, m \in Messages : ChatSend(b, m)
  \/ \E b \in Buddies : PresenceChanged(b)
  \/ KeepAlive
  \/ Close
  \/ ConnectNext
  \/ ReplyNext
  \/ TimeoutNext
  \/ \E c \in Channels : UserEntered(c)
  \/ \E c \in Channels : UserLeft(c)
  \/ \E a \in Accounts : PeerClosed(a)
  \/ \E a \in Accounts : RecvFailed(a)

Spec == Init /\ [][Next]_vars
===========================================================================
