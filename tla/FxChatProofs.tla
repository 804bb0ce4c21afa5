---------------------------- MODULE FxChatProofs ----------------------------
(***************************************************************************)
(* Theorems about FxChat, for all sets of buddies, texts and channels and  *)
(* all bounds: types first, then the safety invariants of its state.  The  *)
(* proof of an invariant first says what a step does to the variables it   *)
(* is about, in a few shapes that cover every action, and then that each   *)
(* shape keeps it.                                                         *)
(***************************************************************************)
EXTENDS FxChatProperties, SequenceTheorems, TLAPS

-----------------------------------------------------------------------------
(* What the helpers leave in the variables they write.                     *)

(* A transaction is one of the two sorts, whatever its number.             *)
LEMMA TransactionType ==
  ASSUME NEW n \in Nat
  PROVE  /\ \A k \in Kinds \ {"KeepAlive"}, u \in Buddies, m \in Messages :
              Transaction(n, k, u, m) \in TextTransactions
         /\ Transaction(n, "KeepAlive", None, None) \in KeepAliveTransactions
BY DEF Transaction, TextTransactions, KeepAliveTransactions

(* Request adds a transaction of the right sort and moves the call id.     *)
LEMMA RequestType ==
  ASSUME TypeOK, NEW a \in Accounts, NEW base \in SUBSET Transactions,
         NEW k, NEW u, NEW m, Request(a, base, k, u, m),
         \/ k \in Kinds \ {"KeepAlive"} /\ u \in Buddies /\ m \in Messages
         \/ k = "KeepAlive" /\ u = None /\ m = None
  PROVE  trans' \in [Accounts -> SUBSET Transactions] /\ callid' \in 1 .. MaxCallid
<1>1. callid \in Nat /\ callid' \in 1 .. MaxCallid
  BY ConstantAssumption DEF TypeOK, Request
<1>2. Transaction(callid, k, u, m) \in Transactions
  BY <1>1, TransactionType DEF Transactions
<1>3. QED
  BY <1>1, <1>2 DEF TypeOK, Request

(* fetion_message_send drops, holds or sends.                              *)
LEMMA MessageSendType ==
  ASSUME TypeOK, NEW a \in Accounts, NEW u \in Buddies, NEW m \in Messages,
         NEW base \in SUBSET Transactions, MessageSend(a, u, m, base)
  PROVE  /\ trans' \in [Accounts -> SUBSET Transactions]
         /\ wait' \in [Accounts -> Seq(Texts)]
         /\ timers' \in SUBSET (Accounts \X Nat)
         /\ callid' \in 1 .. MaxCallid
         /\ emitted' \in [Accounts -> Seq(Texts)]
<1>1. [user |-> u, msg |-> m] \in Texts
  BY DEF Texts
<1>2. CASE Drop(a, base)
  BY <1>2 DEF Drop, TypeOK
<1>3. CASE Hold(a, u, m, base)
  BY <1>1, <1>3 DEF Hold, TypeOK
<1>4. CASE Emit(a, u, m, base)
  <2>1. Request(a, base, "Sms", u, m)
    BY <1>4 DEF Emit
  <2>2. trans' \in [Accounts -> SUBSET Transactions] /\ callid' \in 1 .. MaxCallid
    BY <2>1, RequestType DEF Kinds
  <2>3. <<a, callid>> \in Accounts \X Nat
    BY DEF TypeOK
  <2>4. /\ wait' = wait
        /\ timers' = timers \cup {<<a, callid>>}
        /\ emitted' = [emitted EXCEPT ![a] = Append(@, [user |-> u, msg |-> m])]
    BY <1>4 DEF Emit
  <2>5. emitted' \in [Accounts -> Seq(Texts)]
    BY <1>1, <2>4 DEF TypeOK
  <2>6. timers' \in SUBSET (Accounts \X Nat)
    BY <2>3, <2>4 DEF TypeOK
  <2>7. QED
    BY <2>2, <2>4, <2>5, <2>6 DEF TypeOK
<1>5. QED
  BY <1>2, <1>3, <1>4 DEF MessageSend

(* Clone puts a fresh channel at the end of the list.                      *)
LEMMA CloneType ==
  ASSUME TypeOK, NEW c \in Channels, NEW u \in Buddies, Clone(c, u)
  PROVE  /\ status' \in [Accounts -> {"unused", "open", "freed"}]
         /\ ready' \in [Accounts -> BOOLEAN]
         /\ who' \in [Channels -> Buddies \cup {None}]
         /\ channel_list' \in Seq(Channels)
BY DEF Clone, TypeOK, Accounts

(* RegisterOn records one Register for each text carried.                  *)
LEMMA RegisterOnType ==
  ASSUME TypeOK, NEW c \in Channels, NEW carried \in SUBSET Texts,
         NEW base \in [Accounts -> SUBSET Transactions],
         RegisterOn(c, carried, base)
  PROVE  trans' \in [Accounts -> SUBSET Transactions] /\ callid' \in 1 .. MaxCallid
<1>1. callid \in Nat /\ callid' \in 1 .. MaxCallid
  BY ConstantAssumption DEF TypeOK, RegisterOn
<1>2. \A t \in carried :
        Transaction(callid, "Register", t.user, t.msg) \in Transactions
  BY <1>1, TransactionType DEF Transactions, Kinds, Texts
<1>3. QED
  BY <1>1, <1>2 DEF RegisterOn, Accounts

(* hybrid_proxy_connect fails, waits or succeeds at once.                  *)
LEMMA ProxyConnectType ==
  ASSUME TypeOK, NEW c \in Channels, NEW carried \in SUBSET Texts,
         NEW base \in [Accounts -> SUBSET Transactions],
         ProxyConnect(c, carried, base)
  PROVE  /\ conn' \in [Accounts ->
               {"none", "connecting", "up", "broken", "deaf", "closed"}]
         /\ pend' \in [Channels -> SUBSET Texts]
         /\ trans' \in [Accounts -> SUBSET Transactions]
         /\ callid' \in 1 .. MaxCallid
<1>1. CASE ConnectFails(base)
  BY <1>1 DEF ConnectFails, TypeOK
<1>2. CASE ConnectWaits(c, carried, base)
  BY <1>2 DEF ConnectWaits, TypeOK, Accounts
<1>3. CASE ConnectAtOnce(c, carried, base)
  BY <1>3, RegisterOnType DEF ConnectAtOnce, TypeOK, Accounts
<1>4. QED
  BY <1>1, <1>2, <1>3 DEF ProxyConnect

(* Taking one entry out of channel_list leaves a list of channels.         *)
LEMMA UnlistType ==
  ASSUME TypeOK, NEW a \in Accounts, Unlist(a)
  PROVE  channel_list' \in Seq(Channels)
<1>1. CASE \A i \in DOMAIN channel_list : channel_list[i] # a
  BY <1>1 DEF Unlist, FirstEntry, TypeOK
<1>2. ASSUME NEW i \in DOMAIN channel_list, channel_list' = Without(i)
      PROVE  channel_list' \in Seq(Channels)
  <2> DEFINE n == Len(channel_list) - 1
             e(j) == IF j < i THEN channel_list[j] ELSE channel_list[j + 1]
  <2>1. n \in Nat /\ i \in 1 .. Len(channel_list) /\ Len(channel_list) \in Nat
    BY DEF TypeOK
  <2>2. \A j \in 1 .. n : e(j) \in Channels
    BY <2>1 DEF TypeOK
  <2>3. [j \in 1 .. n |-> e(j)] \in [1 .. n -> Channels]
    BY <2>2
  <2>4. [j \in 1 .. n |-> e(j)] \in Seq(Channels)
    BY <2>1, <2>3, SeqDef
  <2>5. QED
    BY <1>2, <2>4 DEF Without
<1>3. QED
  BY <1>1, <1>2 DEF Unlist

-----------------------------------------------------------------------------
(* Every step keeps the types.                                             *)

(* Drop, Hold and Emit, and the drain, leave no other variable behind than *)
(* those of queueVars and historyVars.                                     *)
LEMMA ChatSendType ==
  ASSUME TypeOK, NEW b \in Buddies, NEW m \in Messages, ChatSend(b, m)
  PROVE  TypeOK'
<1>1. crashed' \in BOOLEAN
  <2>1. CASE SendOnMain(b, m)
    BY <2>1 DEF SendOnMain, MayCrash, TypeOK
  <2>2. CASE SendOnChannel(b, m)
    BY <2>2 DEF SendOnChannel, TypeOK
  <2>3. CASE StartChat(b, m)
    BY <2>3 DEF StartChat, MayCrash, TypeOK
  <2>4. QED
    BY <2>1, <2>2, <2>3 DEF ChatSend
<1>2. addr' \in [Messages -> Buddies \cup {None}]
  BY DEF ChatSend, TypeOK
<1>3. /\ trans' \in [Accounts -> SUBSET Transactions]
      /\ wait' \in [Accounts -> Seq(Texts)]
      /\ timers' \in SUBSET (Accounts \X Nat)
      /\ callid' \in 1 .. MaxCallid
      /\ emitted' \in [Accounts -> Seq(Texts)]
  <2>1. CASE SendOnMain(b, m)
    <3>1. Main \in Accounts /\ trans[Main] \in SUBSET Transactions
      BY DEF Accounts, TypeOK
    <3>2. QED
      BY <2>1, <3>1, MessageSendType DEF SendOnMain
  <2>2. CASE SendOnChannel(b, m)
    <3>1. PICK i \in DOMAIN channel_list :
            /\ ChannelFor(b, i)
            /\ MessageSend(channel_list[i], who[channel_list[i]], m,
                           trans[channel_list[i]])
      BY <2>2 DEF SendOnChannel
    <3>2. channel_list[i] \in Accounts /\ who[channel_list[i]] = b
      BY <3>1 DEF ChannelFor, Accounts, TypeOK
    <3>3. trans[channel_list[i]] \in SUBSET Transactions
      BY <3>2 DEF TypeOK
    <3>4. QED
      BY <3>1, <3>2, <3>3, MessageSendType
  <2>3. CASE StartChat(b, m)
    <3>1. Main \in Accounts /\ trans[Main] \in SUBSET Transactions
      BY DEF Accounts, TypeOK
    <3>2. Request(Main, trans[Main], "StartChat", b, m)
      BY <2>3 DEF StartChat
    <3>3. "StartChat" \in Kinds \ {"KeepAlive"}
      BY DEF Kinds
    <3>4. trans' \in [Accounts -> SUBSET Transactions] /\ callid' \in 1 .. MaxCallid
      BY <3>1, <3>2, <3>3, RequestType
    <3>5. QED
      BY <2>3, <3>4 DEF StartChat, TypeOK
  <2>4. QED
    BY <2>1, <2>2, <2>3 DEF ChatSend
<1>4. QED
  BY <1>1, <1>2, <1>3
  DEF ChatSend, accountVars, frontVars, TypeOK

(* A keep alive round numbers its requests from the call id on.            *)
LEMMA KeepAliveType ==
  ASSUME TypeOK, KeepAlive
  PROVE  TypeOK'
<1>1. crashed' \in BOOLEAN /\ keepalive' \in BOOLEAN
  BY DEF KeepAlive, KeepAliveAll, KeepAliveFails, MayCrash, TypeOK
<1>2. trans' \in [Accounts -> SUBSET Transactions] /\ callid' \in 1 .. MaxCallid
  <2>1. CASE KeepAliveAll
    <3>1. callid \in Nat /\ Len(channel_list) \in Nat
      BY DEF TypeOK
    <3>2. \A a \in Accounts : KeepAliveNumber(a) \subseteq Nat
      BY <3>1 DEF KeepAliveNumber, TypeOK
    <3>3. \A a \in Accounts : \A n \in KeepAliveNumber(a) :
            Transaction(n, "KeepAlive", None, None) \in Transactions
      BY <3>2, TransactionType DEF Transactions
    <3>4. callid' \in 1 .. MaxCallid
      BY <2>1, <3>1, ConstantAssumption DEF KeepAliveAll, TypeOK
    <3>5. QED
      BY <2>1, <3>3, <3>4 DEF KeepAliveAll, TypeOK
  <2>2. CASE KeepAliveFails
    <3>1. Main \in Accounts /\ trans[Main] \in SUBSET Transactions
      BY DEF Accounts, TypeOK
    <3>2. QED
      BY <2>2, <3>1, RequestType DEF KeepAliveFails
  <2>3. QED
    BY <2>1, <2>2 DEF KeepAlive
<1>3. QED
  BY <1>1, <1>2 DEF KeepAlive, accountVars, historyVars, TypeOK

(* An invitation opens a clone with nothing to send.                       *)
LEMMA InviteReceivedType ==
  ASSUME TypeOK, NEW a \in Accounts, NEW b \in Buddies, NEW c \in Channels,
         InviteReceived(a, b, c)
  PROVE  TypeOK'
<1>1. Clone(c, b) /\ ProxyConnect(c, {}, trans) /\ crashed' \in BOOLEAN
  BY DEF InviteReceived, MayCrash
<1>2. trans \in [Accounts -> SUBSET Transactions]
  BY DEF TypeOK
<1>3. {} \in SUBSET Texts
  OBVIOUS
<1>4. QED
  BY <1>1, <1>2, <1>3, CloneType, ProxyConnectType
  DEF InviteReceived, frontVars, historyVars, TypeOK

(* A connect is decided, one way or the other.                             *)
LEMMA ConnectDoneType ==
  ASSUME TypeOK, NEW c \in Channels, NEW e \in BOOLEAN, NEW s \in BOOLEAN,
         ConnectDone(c, e, s)
  PROVE  TypeOK'
<1>1. RegisterOn(c, pend[c], trans)
  BY DEF ConnectDone
<1>2. pend[c] \in SUBSET Texts /\ trans \in [Accounts -> SUBSET Transactions]
  BY DEF TypeOK
<1>3. trans' \in [Accounts -> SUBSET Transactions] /\ callid' \in 1 .. MaxCallid
  BY <1>1, <1>2, RegisterOnType
<1>4. /\ conn' \in [Accounts ->
            {"none", "connecting", "up", "broken", "deaf", "closed"}]
      /\ pend' \in [Channels -> SUBSET Texts]
      /\ stale' \in SUBSET Channels
  BY DEF ConnectDone, TypeOK, Accounts
<1>5. QED
  BY <1>3, <1>4 DEF ConnectDone, frontVars, historyVars, TypeOK

(* Each callback, with the transaction it answers taken off.               *)
LEMMA ReplyType ==
  ASSUME TypeOK, NEW a \in Accounts, NEW t \in trans[a], Reply(a, t)
  PROVE  TypeOK'
<1>1. t \in Transactions /\ Answered(a, t) \in SUBSET Transactions
  BY DEF Answered, TypeOK
<1>2. crashed' \in BOOLEAN
  BY DEF Reply, MayCrash
<1>3. /\ UNCHANGED <<stale, frontVars, addr>>
      /\ Callback(a, t)
  BY DEF Reply
<1>4. t.kind # "KeepAlive" =>
        t.user \in Buddies /\ t.msg \in Messages /\ t.callid \in Nat
  BY <1>1 DEF Transactions, TextTransactions, KeepAliveTransactions
<1>5. trans' = [trans EXCEPT ![a] = Answered(a, t)]
        => trans' \in [Accounts -> SUBSET Transactions]
  BY <1>1 DEF TypeOK
<1>6. CASE t.kind = "StartChat" /\ StartChatRefused(a, t)
  BY <1>2, <1>3, <1>5, <1>6
  DEF StartChatRefused, accountVars, frontVars, TypeOK
<1>7. CASE t.kind = "StartChat" /\ StartChatGranted(a, t)
  <2> DEFINE carried == {[user |-> t.user, msg |-> t.msg]}
             base == [trans EXCEPT ![a] = Answered(a, t)]
  <2>1. PICK c \in Channels :
          /\ Clone(c, t.user)
          /\ ProxyConnect(c, carried, base)
          /\ UNCHANGED <<wait, timers, emitted>>
    BY <1>7 DEF StartChatGranted
  <2>2. carried \in SUBSET Texts
    BY <1>4, <1>7 DEF Texts
  <2>3. base \in [Accounts -> SUBSET Transactions]
    BY <1>1 DEF TypeOK
  <2>4. /\ status' \in [Accounts -> {"unused", "open", "freed"}]
        /\ ready' \in [Accounts -> BOOLEAN]
        /\ who' \in [Channels -> Buddies \cup {None}]
        /\ channel_list' \in Seq(Channels)
    BY <1>4, <1>7, <2>1, CloneType
  <2> HIDE DEF carried, base
  <2>5. /\ conn' \in [Accounts ->
              {"none", "connecting", "up", "broken", "deaf", "closed"}]
        /\ pend' \in [Channels -> SUBSET Texts]
        /\ trans' \in [Accounts -> SUBSET Transactions]
        /\ callid' \in 1 .. MaxCallid
    BY <2>1, <2>2, <2>3, ProxyConnectType
  <2>6. QED
    BY <1>2, <1>3, <2>1, <2>4, <2>5 DEF frontVars, TypeOK
<1>8. CASE t.kind = "Register" /\ Registered(a, t)
  <2>1. trans' \in [Accounts -> SUBSET Transactions] /\ callid' \in 1 .. MaxCallid
    <3>1. CASE Request(a, Answered(a, t), "Invite", t.user, t.msg)
      <4>1. "Invite" \in Kinds \ {"KeepAlive"}
        BY DEF Kinds
      <4>2. QED
        BY <1>1, <1>4, <1>8, <3>1, <4>1, RequestType
    <3>2. CASE trans' = [trans EXCEPT ![a] = Answered(a, t)] /\ UNCHANGED callid
      BY <1>5, <3>2 DEF TypeOK
    <3>3. QED
      BY <1>8, <3>1, <3>2 DEF Registered
  <2>2. QED
    BY <1>2, <1>3, <1>8, <2>1 DEF Registered, accountVars, frontVars, TypeOK
<1>9. CASE t.kind = "Invite" /\ Invited(a, t)
  <2>1. MessageSend(a, t.user, t.msg, Answered(a, t))
        /\ UNCHANGED <<accountVars, pend>>
    BY <1>9 DEF Invited
  <2>2. /\ trans' \in [Accounts -> SUBSET Transactions]
        /\ wait' \in [Accounts -> Seq(Texts)]
        /\ timers' \in SUBSET (Accounts \X Nat)
        /\ callid' \in 1 .. MaxCallid
        /\ emitted' \in [Accounts -> Seq(Texts)]
    BY <1>1, <1>4, <1>9, <2>1, MessageSendType
  <2>3. QED
    BY <1>2, <1>3, <2>1, <2>2 DEF accountVars, frontVars, TypeOK
<1>10. CASE t.kind = "Sms" /\ SmsAnswered(a, t)
  BY <1>2, <1>3, <1>5, <1>10
  DEF SmsAnswered, accountVars, frontVars, TypeOK
<1>11. CASE t.kind = "KeepAlive" /\ KeepAliveAnswered(a, t)
  BY <1>2, <1>3, <1>5, <1>11
  DEF KeepAliveAnswered, accountVars, frontVars, TypeOK
<1>12. QED
  BY <1>3, <1>6, <1>7, <1>8, <1>9, <1>10, <1>11 DEF Callback

(* User-Entered turns the waiting list into SMS transactions.              *)
LEMMA UserEnteredType ==
  ASSUME TypeOK, NEW c \in Channels, UserEntered(c)
  PROVE  TypeOK'
<1>1. c \in Accounts /\ wait[c] \in Seq(Texts) /\ emitted[c] \in Seq(Texts)
  BY DEF TypeOK, Accounts
<1>2. /\ trans' \in [Accounts -> SUBSET Transactions]
      /\ timers' \in SUBSET (Accounts \X Nat)
      /\ callid' \in 1 .. MaxCallid
      /\ emitted' \in [Accounts -> Seq(Texts)]
  <2>1. CASE DrainInto(c)
    <3>1. callid \in Nat /\ Len(wait[c]) \in Nat
      BY <1>1 DEF TypeOK
    <3>2. \A i \in DOMAIN wait[c] :
            /\ callid + i - 1 \in Nat
            /\ wait[c][i].user \in Buddies /\ wait[c][i].msg \in Messages
      <4> SUFFICES ASSUME NEW i \in DOMAIN wait[c]
                   PROVE  /\ callid + i - 1 \in Nat
                          /\ wait[c][i].user \in Buddies
                          /\ wait[c][i].msg \in Messages
        OBVIOUS
      <4>1. i \in 1 .. Len(wait[c])
        BY <1>1
      <4>2. wait[c][i] \in Texts
        BY <1>1, <4>1, ElementOfSeq
      <4>3. callid >= 1
        BY DEF TypeOK
      <4>4. QED
        BY <3>1, <4>1, <4>2, <4>3 DEF Texts
    <3>3. \A i \in DOMAIN wait[c] :
            Transaction(callid + i - 1, "Sms", wait[c][i].user, wait[c][i].msg)
              \in Transactions
      BY <3>2, TransactionType DEF Transactions, Kinds
    <3>4. callid' \in 1 .. MaxCallid
      BY <2>1, <3>1, ConstantAssumption DEF DrainInto, TypeOK
    <3>5. trans' \in [Accounts -> SUBSET Transactions]
      <4> DEFINE S == {Transaction(callid + i - 1, "Sms", wait[c][i].user,
                                   wait[c][i].msg) : i \in DOMAIN wait[c]}
      <4>1. S \subseteq Transactions
        BY <3>3
      <4>2. trans' = [trans EXCEPT ![c] = @ \cup S]
        BY <2>1 DEF DrainInto
      <4> HIDE DEF S
      <4>3. QED
        BY <4>1, <4>2 DEF TypeOK
    <3>6. timers' \in SUBSET (Accounts \X Nat)
      BY <1>1, <2>1, <3>2 DEF DrainInto, TypeOK
    <3>7. emitted' \in [Accounts -> Seq(Texts)]
      BY <1>1, <2>1, ConcatProperties DEF DrainInto, TypeOK
    <3>8. QED
      BY <3>4, <3>5, <3>6, <3>7
  <2>2. CASE DrainLost(c)
    BY <2>2 DEF DrainLost, TypeOK
  <2>3. QED
    BY <2>1, <2>2 DEF UserEntered
<1>3. /\ ready' \in [Accounts -> BOOLEAN]
      /\ wait' \in [Accounts -> Seq(Texts)]
      /\ crashed' \in BOOLEAN
  <2>1. <<>> \in Seq(Texts)
    BY EmptySeq
  <2>2. QED
    BY <2>1 DEF UserEntered, MayCrash, TypeOK
<1>4. QED
  BY <1>2, <1>3 DEF UserEntered, frontVars, TypeOK

(* Destroying an account changes the allocation, the socket and the list.  *)
LEMMA FreeAccountType ==
  ASSUME TypeOK, NEW a \in Accounts, FreeAccount(a), crashed' \in BOOLEAN,
         UNCHANGED <<queueVars, stale, frontVars, historyVars>>
  PROVE  TypeOK'
<1>1. channel_list' \in Seq(Channels)
  BY UnlistType DEF FreeAccount
<1>2. QED
  BY <1>1 DEF FreeAccount, queueVars, frontVars, historyVars, TypeOK

(* The initial state has its types.                                        *)
LEMMA InitType == Init => TypeOK
<1> SUFFICES ASSUME Init PROVE TypeOK
  OBVIOUS
<1>1. <<>> \in Seq(Texts) /\ <<>> \in Seq(Channels)
  BY EmptySeq
<1>2. 1 \in 1 .. MaxCallid
  BY ConstantAssumption
<1>3. /\ wait \in [Accounts -> Seq(Texts)]
      /\ emitted \in [Accounts -> Seq(Texts)]
      /\ channel_list \in Seq(Channels)
      /\ trans \in [Accounts -> SUBSET Transactions]
      /\ pend \in [Channels -> SUBSET Texts]
  BY <1>1 DEF Init
<1>4. QED
  BY <1>2, <1>3 DEF Init, TypeOK

(* Every step keeps the types: one step for each action.                   *)
LEMMA NextType == TypeOK /\ [Next]_vars => TypeOK'
<1> SUFFICES ASSUME TypeOK, [Next]_vars
             PROVE  TypeOK'
  OBVIOUS
<1>1. ASSUME NEW b \in Buddies, NEW m \in Messages, ChatSend(b, m)
      PROVE  TypeOK'
  BY <1>1, ChatSendType
<1>2. ASSUME NEW b \in Buddies, PresenceChanged(b)
      PROVE  TypeOK'
  BY <1>2 DEF PresenceChanged, accountVars, queueVars, historyVars, TypeOK
<1>3. CASE KeepAlive
  BY <1>3, KeepAliveType
<1>4. CASE Close
  BY <1>4 DEF Close, AccountClosed, MayCrash, queueVars, historyVars, TypeOK
<1>5. ASSUME NEW a \in Accounts, NEW b \in Buddies, NEW c \in Channels,
             InviteReceived(a, b, c)
      PROVE  TypeOK'
  BY <1>5, InviteReceivedType
<1>6. ASSUME NEW c \in Channels, NEW e \in BOOLEAN, NEW s \in BOOLEAN,
             ConnectDone(c, e, s)
      PROVE  TypeOK'
  BY <1>6, ConnectDoneType
<1>7. ASSUME NEW c \in Channels, StaleConnect(c)
      PROVE  TypeOK'
  BY <1>7
  DEF StaleConnect, accountVars, queueVars, frontVars, historyVars, TypeOK
<1>8. ASSUME NEW a \in Accounts, NEW t \in trans[a], Reply(a, t)
      PROVE  TypeOK'
  BY <1>8, ReplyType
<1>9. ASSUME NEW a \in Accounts, NEW t \in trans[a], SmsTimeout(a, t)
      PROVE  TypeOK'
  <2>1. Answered(a, t) \in SUBSET Transactions
    BY DEF Answered, TypeOK
  <2>2. QED
    BY <1>9, <2>1
    DEF SmsTimeout, MayCrash, accountVars, frontVars, historyVars, TypeOK
<1>10. ASSUME NEW c \in Channels, UserEntered(c)
       PROVE  TypeOK'
  BY <1>10, UserEnteredType
<1>11. ASSUME NEW c \in Channels, UserLeft(c)
       PROVE  TypeOK'
  BY <1>11, FreeAccountType DEF UserLeft, MayCrash, Accounts
<1>12. ASSUME NEW a \in Accounts, PeerClosed(a)
       PROVE  TypeOK'
  BY <1>12, FreeAccountType DEF PeerClosed, MayCrash
<1>13. ASSUME NEW a \in Accounts, RecvFailed(a)
       PROVE  TypeOK'
  BY <1>13 DEF RecvFailed, AccountClosed, MayCrash, queueVars, historyVars, TypeOK
<1>14. CASE UNCHANGED vars
  BY <1>14
  DEF vars, accountVars, queueVars, frontVars, historyVars, TypeOK
<1>15. QED
  BY <1>1, <1>2, <1>3, <1>4, <1>5, <1>6, <1>7, <1>8, <1>9, <1>10, <1>11,
     <1>12, <1>13, <1>14
  DEF Next, ConnectNext, ReplyNext, TimeoutNext

(* Every variable keeps its type in every behaviour of the engine: TypeOK  *)
(* is inductive.                                                           *)
THEOREM TypeCorrect == Spec => []TypeOK
BY InitType, NextType, PTL DEF Spec

-----------------------------------------------------------------------------
(* channel_list                                                            *)

(* Only a clone enters the list and only a destroyed account leaves it.    *)
LEMMA ListShape ==
  ASSUME [Next]_vars
  PROVE  \/ UNCHANGED <<status, channel_list>>
         \/ \E c \in Channels : \E u : Clone(c, u)
         \/ \E a \in Accounts : FreeAccount(a)
<1>1. ASSUME NEW a \in Accounts, NEW t \in trans[a], Reply(a, t)
      PROVE  \/ UNCHANGED <<status, channel_list>>
             \/ \E c \in Channels : \E u : Clone(c, u)
  BY <1>1 DEF Reply, Callback, StartChatRefused, StartChatGranted, Registered,
              Invited, SmsAnswered, KeepAliveAnswered, accountVars
<1>2. ASSUME \/ \E b \in Buddies, m \in Messages : ChatSend(b, m)
             \/ \E b \in Buddies : PresenceChanged(b)
             \/ KeepAlive \/ Close
             \/ \E c \in Channels, e, s \in BOOLEAN : ConnectDone(c, e, s)
             \/ \E c \in Channels : StaleConnect(c)
             \/ TimeoutNext
             \/ \E c \in Channels : UserEntered(c)
             \/ \E a \in Accounts : RecvFailed(a)
             \/ UNCHANGED vars
      PROVE  UNCHANGED <<status, channel_list>>
  BY <1>2 DEF ChatSend, PresenceChanged, KeepAlive, Close, ConnectDone,
              StaleConnect, TimeoutNext, SmsTimeout, UserEntered, RecvFailed,
              vars, accountVars
<1>3. ASSUME NEW a \in Accounts, NEW b \in Buddies, NEW c \in Channels,
             InviteReceived(a, b, c)
      PROVE  \E d \in Channels : \E u : Clone(d, u)
  BY <1>3 DEF InviteReceived
<1>4. ASSUME \/ \E c \in Channels : UserLeft(c)
             \/ \E a \in Accounts : PeerClosed(a)
      PROVE  \E a \in Accounts : FreeAccount(a)
  BY <1>4 DEF UserLeft, PeerClosed, Accounts
<1> QED
  BY <1>1, <1>2, <1>3, <1>4 DEF Next, ConnectNext, ReplyNext

(* A clone is appended where no entry for it was.                          *)
LEMMA CloneListed ==
  ASSUME TypeOK, ListedIffOpen, NEW c \in Channels, NEW u, Clone(c, u)
  PROVE  ListedIffOpen'
<1> DEFINE n == Len(channel_list)
<1>1. n \in Nat /\ DOMAIN channel_list = 1 .. n
  BY DEF TypeOK
<1>2. /\ DOMAIN channel_list' = 1 .. (n + 1)
      /\ \A i \in 1 .. n : channel_list'[i] = channel_list[i]
      /\ channel_list'[n + 1] = c
  BY DEF Clone, TypeOK
<1>3. ~Listed(c)
  BY DEF Clone, ListedIffOpen
<1>4. \A d \in Channels : Listed(d)' <=> Listed(d) \/ d = c
  BY <1>1, <1>2 DEF Listed
<1>5. \A d \in Channels : status'[d] = "open" <=> status[d] = "open" \/ d = c
  BY DEF Clone, TypeOK, Accounts
<1>6. \A i, j \in DOMAIN channel_list' : channel_list'[i] = channel_list'[j] => i = j
  <2>1. \A i \in 1 .. n : channel_list[i] # c
    BY <1>1, <1>3 DEF Listed
  <2> QED
    BY <1>1, <1>2, <2>1 DEF ListedIffOpen
<1> QED
  BY <1>4, <1>5, <1>6 DEF ListedIffOpen

(* Without(i) has every entry but the i-th.                                *)
LEMMA WithoutEntries ==
  ASSUME TypeOK, NEW i \in DOMAIN channel_list, channel_list' = Without(i)
  PROVE  /\ \A j \in DOMAIN channel_list' : \E k \in DOMAIN channel_list \ {i} :
              channel_list'[j] = channel_list[k] /\ k = IF j < i THEN j ELSE j + 1
         /\ \A k \in DOMAIN channel_list \ {i} : \E j \in DOMAIN channel_list' :
              channel_list'[j] = channel_list[k]
<1> DEFINE n == Len(channel_list)
<1>1. n \in Nat /\ DOMAIN channel_list = 1 .. n /\ i \in 1 .. n
  BY DEF TypeOK
<1>2. /\ DOMAIN channel_list' = 1 .. (n - 1)
      /\ \A j \in 1 .. (n - 1) :
           channel_list'[j] = IF j < i THEN channel_list[j] ELSE channel_list[j + 1]
  BY DEF Without
<1>3. ASSUME NEW j \in 1 .. (n - 1)
      PROVE  \E k \in (1 .. n) \ {i} :
               channel_list'[j] = channel_list[k] /\ k = IF j < i THEN j ELSE j + 1
  <2>1. CASE j < i
    BY <1>1, <1>2, <2>1
  <2>2. CASE ~(j < i)
    <3>1. j + 1 \in (1 .. n) \ {i}
      BY <1>1, <2>2
    <3> QED
      BY <1>2, <2>2, <3>1
  <2> QED
    BY <2>1, <2>2
<1>4. ASSUME NEW k \in (1 .. n) \ {i}
      PROVE  \E j \in 1 .. (n - 1) : channel_list'[j] = channel_list[k]
  <2>1. CASE k < i
    <3>1. k \in 1 .. (n - 1)
      BY <1>1, <2>1
    <3> QED
      BY <1>2, <2>1, <3>1
  <2>2. CASE k > i
    <3>1. k - 1 \in 1 .. (n - 1) /\ ~(k - 1 < i) /\ (k - 1) + 1 = k
      BY <1>1, <2>2
    <3> QED
      BY <1>2, <3>1
  <2> QED
    BY <1>1, <2>1, <2>2
<1> QED
  BY <1>1, <1>2, <1>3, <1>4

(* g_slist_remove takes the one entry of a channel away.                   *)
LEMMA FreeListed ==
  ASSUME TypeOK, ListedIffOpen, NEW a \in Accounts, FreeAccount(a)
  PROVE  ListedIffOpen'
<1>1. \A d \in Channels : status'[d] = "open" <=> status[d] = "open" /\ d # a
  BY DEF FreeAccount, TypeOK, Accounts
<1>2. CASE /\ \A i \in DOMAIN channel_list : channel_list[i] # a
           /\ UNCHANGED channel_list
  BY <1>1, <1>2 DEF ListedIffOpen, Listed
<1>3. ASSUME NEW i \in DOMAIN channel_list, FirstEntry(a, i),
             channel_list' = Without(i)
      PROVE  ListedIffOpen'
  <2>1. \A k \in DOMAIN channel_list : channel_list[k] = a <=> k = i
    BY <1>3 DEF FirstEntry, ListedIffOpen
  <2>2. \A d \in Channels : Listed(d)' <=> Listed(d) /\ d # a
    BY <1>3, <2>1, WithoutEntries DEF Listed
  <2>3. \A j, k \in DOMAIN channel_list' :
          channel_list'[j] = channel_list'[k] => j = k
    <3> SUFFICES ASSUME NEW j \in DOMAIN channel_list', NEW k \in DOMAIN channel_list',
                        channel_list'[j] = channel_list'[k]
                 PROVE  j = k
      OBVIOUS
    <3>1. j \in Nat /\ k \in Nat /\ i \in Nat
      BY <1>3 DEF Without, TypeOK
    <3>2. PICK x \in DOMAIN channel_list :
            channel_list'[j] = channel_list[x] /\ x = IF j < i THEN j ELSE j + 1
      BY <1>3, WithoutEntries
    <3>3. PICK y \in DOMAIN channel_list :
            channel_list'[k] = channel_list[y] /\ y = IF k < i THEN k ELSE k + 1
      BY <1>3, WithoutEntries
    <3>4. x = y
      BY <3>2, <3>3 DEF ListedIffOpen
    <3> QED
      BY <3>1, <3>2, <3>3, <3>4
  <2> QED
    BY <1>1, <2>2, <2>3 DEF ListedIffOpen
<1> QED
  BY <1>2, <1>3 DEF FreeAccount, Unlist

(* channel_list holds exactly the allocated clones: no handler that walks  *)
(* it meets a destroyed account.                                           *)
THEOREM ListCorrect == Spec => []ListedIffOpen
<1>1. Init => ListedIffOpen
  BY ConstantAssumption DEF Init, ListedIffOpen, Listed, Accounts
<1>2. TypeOK /\ ListedIffOpen /\ [Next]_vars => ListedIffOpen'
  <2> SUFFICES ASSUME TypeOK, ListedIffOpen, [Next]_vars
               PROVE  ListedIffOpen'
    OBVIOUS
  <2>1. CASE UNCHANGED <<status, channel_list>>
    BY <2>1 DEF ListedIffOpen, Listed
  <2> QED
    BY <2>1, ListShape, CloneListed, FreeListed
<1> QED
  BY <1>1, <1>2, TypeCorrect, PTL DEF Spec

-----------------------------------------------------------------------------
(* Call ids                                                                *)

(* A connect carries the one text that asked for the channel, or none.     *)
CarriesOne == \A c \in Channels : \A t, u \in pend[c] : t = u

CallidInv == CallidUnique /\ CarriesOne

(* A step only takes numbers from the counter on, each once, and moves the *)
(* counter past them.                                                      *)
New(a) == trans'[a] \ trans[a]

Numbered ==
  /\ callid <= callid'
  /\ \A a \in Accounts : \A t \in New(a) : callid <= t.callid /\ t.callid < callid'
  /\ \A a, b \in Accounts : \A t \in New(a), u \in New(b) :
       t.callid = u.callid => a = b /\ t = u

LEMMA NumberedUnique ==
  ASSUME TypeOK, TypeOK', CallidUnique, Numbered
  PROVE  CallidUnique'
<1> SUFFICES ASSUME NEW a \in Accounts, NEW b \in Accounts,
                    NEW t \in trans'[a], NEW u \in trans'[b]
             PROVE  /\ t.callid < callid'
                    /\ t.callid = u.callid => a = b /\ t = u
  BY DEF CallidUnique
<1>1. t.callid \in Nat /\ u.callid \in Nat /\ callid \in Nat /\ callid' \in Nat
  BY ConstantAssumption
  DEF TypeOK, Transactions, TextTransactions, KeepAliveTransactions
<1>2. CASE t \in trans[a] /\ u \in trans[b]
  BY <1>1, <1>2 DEF CallidUnique, Numbered
<1>3. CASE t \in trans[a] /\ u \notin trans[b]
  BY <1>1, <1>3 DEF CallidUnique, Numbered, New
<1>4. CASE t \notin trans[a] /\ u \in trans[b]
  BY <1>1, <1>4 DEF CallidUnique, Numbered, New
<1>5. CASE t \notin trans[a] /\ u \notin trans[b]
  BY <1>1, <1>5 DEF Numbered, New
<1> QED
  BY <1>2, <1>3, <1>4, <1>5

(* Nothing new, and the counter as it was.                                 *)
LEMMA NothingNumbered ==
  ASSUME TypeOK, UNCHANGED callid, \A a \in Accounts : trans'[a] \subseteq trans[a]
  PROVE  Numbered
BY DEF Numbered, New, TypeOK

(* One transaction under the current number.                               *)
LEMMA OneNumbered ==
  ASSUME TypeOK, NEW a \in Accounts, NEW t, t.callid = callid,
         callid' = callid + 1,
         trans'[a] \subseteq trans[a] \cup {t},
         \A b \in Accounts \ {a} : trans'[b] \subseteq trans[b]
  PROVE  Numbered
<1>1. callid \in Nat
  BY DEF TypeOK
<1>2. \A b \in Accounts : \A u \in New(b) : b = a /\ u = t
  BY DEF New
<1> QED
  BY <1>1, <1>2 DEF Numbered

LEMMA RequestNumbered ==
  ASSUME TypeOK, NEW a \in Accounts, NEW base \in SUBSET trans[a],
         NEW k, NEW u, NEW m, Request(a, base, k, u, m)
  PROVE  Numbered
<1> DEFINE t == Transaction(callid, k, u, m)
<1>1. t.callid = callid /\ callid' = callid + 1
  BY DEF Transaction, Request
<1>2. trans' = [trans EXCEPT ![a] = base \cup {t}]
  BY DEF Request
<1> HIDE DEF t
<1> QED
  BY <1>1, <1>2, OneNumbered DEF TypeOK

LEMMA MessageSendNumbered ==
  ASSUME TypeOK, NEW a \in Accounts, NEW base \in SUBSET trans[a],
         NEW u, NEW m, MessageSend(a, u, m, base)
  PROVE  Numbered
<1>1. CASE Drop(a, base)
  BY <1>1, NothingNumbered DEF Drop, TypeOK
<1>2. CASE Hold(a, u, m, base)
  BY <1>2, NothingNumbered DEF Hold, TypeOK
<1>3. CASE Emit(a, u, m, base)
  BY <1>3, RequestNumbered DEF Emit
<1> QED
  BY <1>1, <1>2, <1>3 DEF MessageSend

LEMMA RegisterOnNumbered ==
  ASSUME TypeOK, NEW c \in Channels, NEW carried, \A t, u \in carried : t = u,
         NEW base \in [Accounts -> SUBSET Transactions],
         \A a \in Accounts : base[a] \subseteq trans[a],
         RegisterOn(c, carried, base)
  PROVE  Numbered
<1> DEFINE S == {Transaction(callid, "Register", t.user, t.msg) : t \in carried}
<1>1. trans' = [base EXCEPT ![c] = @ \cup S] /\ callid' = callid + 1
  BY DEF RegisterOn
<1>2. \A t \in S : t.callid = callid
  BY DEF Transaction
<1>3. \A t, u \in S : t = u
  OBVIOUS
<1> HIDE DEF S
<1>4. c \in Accounts
  BY DEF Accounts
<1>5. \A b \in Accounts : \A u \in New(b) : b = c /\ u \in S
  BY <1>1, <1>4 DEF New
<1>6. callid \in Nat
  BY DEF TypeOK
<1> QED
  BY <1>1, <1>2, <1>3, <1>5, <1>6 DEF Numbered

(* A connect is begun with at most one text, and none is added later.      *)
LEMMA ProxyConnectNumbered ==
  ASSUME TypeOK, CarriesOne, NEW c \in Channels, NEW carried,
         \A t, u \in carried : t = u,
         NEW base \in [Accounts -> SUBSET Transactions],
         \A a \in Accounts : base[a] \subseteq trans[a],
         ProxyConnect(c, carried, base)
  PROVE  Numbered /\ CarriesOne'
<1>1. CASE ConnectFails(base)
  BY <1>1, NothingNumbered DEF ConnectFails, CarriesOne
<1>2. CASE ConnectWaits(c, carried, base)
  BY <1>2, NothingNumbered DEF ConnectWaits, CarriesOne, TypeOK
<1>3. CASE ConnectAtOnce(c, carried, base)
  BY <1>3, RegisterOnNumbered DEF ConnectAtOnce, CarriesOne
<1> QED
  BY <1>1, <1>2, <1>3 DEF ProxyConnect

LEMMA ChatSendNumbered ==
  ASSUME TypeOK, NEW b \in Buddies, NEW m \in Messages, ChatSend(b, m)
  PROVE  Numbered
<1>1. CASE SendOnMain(b, m)
  BY <1>1, MessageSendNumbered DEF SendOnMain, Accounts
<1>2. CASE SendOnChannel(b, m)
  <2>1. PICK i \in DOMAIN channel_list :
          MessageSend(channel_list[i], who[channel_list[i]], m,
                      trans[channel_list[i]])
    BY <1>2 DEF SendOnChannel
  <2>2. channel_list[i] \in Accounts
    BY DEF TypeOK, Accounts
  <2> QED
    BY <2>1, <2>2, MessageSendNumbered
<1>3. CASE StartChat(b, m)
  BY <1>3, RequestNumbered DEF StartChat, Accounts
<1> QED
  BY <1>1, <1>2, <1>3 DEF ChatSend

(* Round numbers: the main account takes the first, the i-th listed        *)
(* channel the i-th after it.                                              *)
LEMMA KeepAliveNumbered ==
  ASSUME TypeOK, KeepAlive
  PROVE  Numbered
<1>1. CASE KeepAliveAll
  <2> DEFINE n == Len(channel_list)
  <2>1. callid \in Nat /\ n \in Nat /\ callid' = callid + 1 + n
    BY <1>1 DEF KeepAliveAll, TypeOK
  <2>2. DOMAIN channel_list = 1 .. n /\ \A i \in 1 .. n : channel_list[i] # Main
    BY ConstantAssumption DEF TypeOK
  <2>3. \A a \in Accounts : \A t \in New(a) :
          \E k \in KeepAliveNumber(a) : t = Transaction(k, "KeepAlive", None, None)
    BY <1>1 DEF KeepAliveAll, New
  <2>4. \A a \in Accounts : \A k \in KeepAliveNumber(a) :
          /\ callid <= k /\ k < callid'
          /\ k = callid => a = Main
          /\ k > callid => \E i \in 1 .. n : k = callid + i /\ channel_list[i] = a
    BY <2>1, <2>2 DEF KeepAliveNumber
  <2>5. \A a, b \in Accounts : \A k \in KeepAliveNumber(a), l \in KeepAliveNumber(b) :
          k = l => a = b
    <3> SUFFICES ASSUME NEW a \in Accounts, NEW b \in Accounts,
                        NEW k \in KeepAliveNumber(a), k \in KeepAliveNumber(b)
                 PROVE  a = b
      OBVIOUS
    <3>1. CASE k = callid
      BY <2>4, <3>1
    <3>2. CASE k > callid
      <4>1. PICK i \in 1 .. n : k = callid + i /\ channel_list[i] = a
        BY <2>4, <3>2
      <4>2. PICK j \in 1 .. n : k = callid + j /\ channel_list[j] = b
        BY <2>4, <3>2
      <4>3. i = j
        BY <2>1, <4>1, <4>2
      <4> QED
        BY <4>1, <4>2, <4>3
    <3>3. k = callid \/ k > callid
      <4>1. k \in Nat /\ callid <= k
        BY <2>1, <2>2, <2>4 DEF KeepAliveNumber
      <4> QED
        BY <2>1, <4>1
    <3> QED
      BY <3>1, <3>2, <3>3
  <2>6. callid <= callid'
    BY <2>1
  <2>7. ASSUME NEW a \in Accounts, NEW t \in New(a)
        PROVE  callid <= t.callid /\ t.callid < callid'
    BY <2>3, <2>4 DEF Transaction
  <2>8. ASSUME NEW a \in Accounts, NEW b \in Accounts, NEW t \in New(a),
               NEW u \in New(b), t.callid = u.callid
        PROVE  a = b /\ t = u
    <3>1. PICK k \in KeepAliveNumber(a) : t = Transaction(k, "KeepAlive", None, None)
      BY <2>3
    <3>2. PICK l \in KeepAliveNumber(b) : u = Transaction(l, "KeepAlive", None, None)
      BY <2>3
    <3>3. k = l
      BY <2>8, <3>1, <3>2 DEF Transaction
    <3> QED
      BY <2>5, <3>1, <3>2, <3>3
  <2> QED
    BY <2>6, <2>7, <2>8 DEF Numbered
<1>2. CASE KeepAliveFails
  BY <1>2, RequestNumbered DEF KeepAliveFails, Accounts
<1> QED
  BY <1>1, <1>2 DEF KeepAlive

LEMMA UserEnteredNumbered ==
  ASSUME TypeOK, NEW c \in Channels, UserEntered(c)
  PROVE  Numbered
<1>1. CASE DrainInto(c)
  <2> DEFINE n == Len(wait[c])
             e(i) == Transaction(callid + i - 1, "Sms", wait[c][i].user,
                                 wait[c][i].msg)
             S == {e(i) : i \in DOMAIN wait[c]}
  <2>1. c \in Accounts /\ DOMAIN wait[c] = 1 .. n /\ n \in Nat /\ callid \in Nat
    BY DEF TypeOK, Accounts
  <2>2. trans' = [trans EXCEPT ![c] = @ \cup S] /\ callid' = callid + n
    BY <1>1 DEF DrainInto
  <2>3. \A t \in S : \E i \in 1 .. n : t = e(i) /\ t.callid = callid + i - 1
    BY <2>1 DEF Transaction
  <2>4. \A t \in S : callid <= t.callid /\ t.callid < callid'
    <3> SUFFICES ASSUME NEW t \in S
                 PROVE  callid <= t.callid /\ t.callid < callid'
      OBVIOUS
    <3>1. PICK i \in 1 .. n : t.callid = callid + i - 1
      BY <2>3
    <3> HIDE DEF S, e, n
    <3>2. i \in Nat /\ 1 <= i /\ i <= n
      BY <2>1
    <3> QED
      BY <2>1, <2>2, <3>1, <3>2
  <2>5. \A t, u \in S : t.callid = u.callid => t = u
    <3> SUFFICES ASSUME NEW t \in S, NEW u \in S, t.callid = u.callid
                 PROVE  t = u
      OBVIOUS
    <3>1. PICK i \in 1 .. n : t = e(i) /\ t.callid = callid + i - 1
      BY <2>3
    <3>2. PICK j \in 1 .. n : u = e(j) /\ u.callid = callid + j - 1
      BY <2>3
    <3>3. i = j
      BY <2>1, <3>1, <3>2
    <3> QED
      BY <3>1, <3>2, <3>3
  <2> HIDE DEF S
  <2>6. \A b \in Accounts : \A u \in New(b) : b = c /\ u \in S
    BY <2>1, <2>2 DEF New
  <2>7. callid <= callid'
    BY <2>1, <2>2
  <2> QED
    BY <2>4, <2>5, <2>6, <2>7 DEF Numbered
<1>2. CASE DrainLost(c)
  BY <1>2, NothingNumbered DEF DrainLost
<1> QED
  BY <1>1, <1>2 DEF UserEntered

LEMMA ReplyNumbered ==
  ASSUME TypeOK, CarriesOne, NEW a \in Accounts, NEW t \in trans[a], Reply(a, t)
  PROVE  Numbered /\ CarriesOne'
<1> DEFINE base == [trans EXCEPT ![a] = Answered(a, t)]
<1>1. Answered(a, t) \in SUBSET trans[a]
  BY DEF Answered
<1>2. base \in [Accounts -> SUBSET Transactions] /\ \A b \in Accounts : base[b] \subseteq trans[b]
  BY <1>1 DEF TypeOK
<1>3. ASSUME trans' = base, UNCHANGED <<callid, pend>>
      PROVE  Numbered /\ CarriesOne'
  BY <1>2, <1>3, NothingNumbered DEF CarriesOne
<1>4. CASE StartChatGranted(a, t)
  <2> DEFINE carried == {[user |-> t.user, msg |-> t.msg]}
  <2>1. PICK c \in Channels : ProxyConnect(c, carried, base)
    BY <1>4 DEF StartChatGranted
  <2>2. \A x, y \in carried : x = y
    OBVIOUS
  <2> HIDE DEF carried, base
  <2> QED
    BY <1>2, <2>1, <2>2, ProxyConnectNumbered
<1>5. CASE Registered(a, t)
  <2>1. UNCHANGED pend
    BY <1>5 DEF Registered
  <2>2. CASE Request(a, Answered(a, t), "Invite", t.user, t.msg)
    BY <1>1, <2>1, <2>2, RequestNumbered DEF CarriesOne
  <2> QED
    BY <1>3, <1>5, <2>1, <2>2 DEF Registered
<1>6. CASE Invited(a, t)
  BY <1>1, <1>6, MessageSendNumbered DEF Invited, CarriesOne
<1>7. CASE StartChatRefused(a, t) \/ SmsAnswered(a, t) \/ KeepAliveAnswered(a, t)
  BY <1>3, <1>7 DEF StartChatRefused, SmsAnswered, KeepAliveAnswered
<1> QED
  BY <1>4, <1>5, <1>6, <1>7 DEF Reply, Callback

LEMMA ConnectDoneNumbered ==
  ASSUME TypeOK, CarriesOne, NEW c \in Channels, NEW e \in BOOLEAN,
         NEW s \in BOOLEAN, ConnectDone(c, e, s)
  PROVE  Numbered /\ CarriesOne'
<1>1. Numbered
  BY RegisterOnNumbered DEF ConnectDone, CarriesOne, TypeOK
<1>2. CarriesOne'
  BY DEF ConnectDone, CarriesOne, TypeOK
<1> QED
  BY <1>1, <1>2

LEMMA NextNumbered ==
  ASSUME TypeOK, CarriesOne, [Next]_vars
  PROVE  Numbered /\ CarriesOne'
<1>1. ASSUME Numbered, UNCHANGED pend
      PROVE  Numbered /\ CarriesOne'
  BY <1>1 DEF CarriesOne
<1>2. ASSUME NEW b \in Buddies, NEW m \in Messages, ChatSend(b, m)
      PROVE  Numbered /\ CarriesOne'
  BY <1>1, <1>2, ChatSendNumbered DEF ChatSend
<1>3. CASE KeepAlive
  BY <1>1, <1>3, KeepAliveNumbered DEF KeepAlive
<1>4. ASSUME UNCHANGED queueVars
      PROVE  Numbered /\ CarriesOne'
  BY <1>1, <1>4, NothingNumbered DEF queueVars
<1>5. ASSUME \/ \E b \in Buddies : PresenceChanged(b)
             \/ Close
             \/ \E c \in Channels : StaleConnect(c)
             \/ \E c \in Channels : UserLeft(c)
             \/ \E a \in Accounts : PeerClosed(a)
             \/ \E a \in Accounts : RecvFailed(a)
             \/ UNCHANGED vars
      PROVE  Numbered /\ CarriesOne'
  BY <1>4, <1>5 DEF PresenceChanged, Close, StaleConnect, UserLeft, PeerClosed,
                    RecvFailed, vars
<1>6. ASSUME NEW a \in Accounts, NEW b \in Buddies, NEW c \in Channels,
             InviteReceived(a, b, c)
      PROVE  Numbered /\ CarriesOne'
  <2>1. ProxyConnect(c, {}, trans) /\ \A t, u \in {} : t = u
    BY <1>6 DEF InviteReceived
  <2>2. trans \in [Accounts -> SUBSET Transactions]
    BY DEF TypeOK
  <2> QED
    BY <2>1, <2>2, ProxyConnectNumbered
<1>7. ASSUME NEW a \in Accounts, NEW t \in trans[a], SmsTimeout(a, t)
      PROVE  Numbered /\ CarriesOne'
  <2>1. \A b \in Accounts : trans'[b] \subseteq trans[b]
    BY <1>7 DEF SmsTimeout, Answered, TypeOK
  <2> QED
    BY <1>1, <1>7, <2>1, NothingNumbered DEF SmsTimeout
<1>8. ASSUME NEW c \in Channels, UserEntered(c)
      PROVE  Numbered /\ CarriesOne'
  BY <1>1, <1>8, UserEnteredNumbered DEF UserEntered
<1> QED
  BY <1>2, <1>3, <1>5, <1>6, <1>7, <1>8, ReplyNumbered, ConnectDoneNumbered
  DEF Next, ConnectNext, ReplyNext, TimeoutNext

(* No two pending requests, of one connection or of two, have the same     *)
(* call id, so that a reply finds the transaction it answers.              *)
THEOREM CallidsUnique == Spec => []CallidUnique
<1>1. Init => CallidInv
  BY DEF Init, CallidInv, CallidUnique, CarriesOne
<1>2. TypeOK /\ TypeOK' /\ CallidInv /\ [Next]_vars => CallidInv'
  BY NextNumbered, NumberedUnique DEF CallidInv
<1>3. CallidInv => CallidUnique
  BY DEF CallidInv
<1> QED
  BY <1>1, <1>2, <1>3, TypeCorrect, PTL DEF Spec

-----------------------------------------------------------------------------
(* Texts on the wire, their timers and the gate                            *)

(* The SMS transactions stay as they are.                                  *)
SameSms ==
  \A a \in Accounts : \A t \in trans[a] \cup trans'[a] :
    t.kind = "Sms" => (t \in trans[a] <=> t \in trans'[a])

KeepsSms(a, base) ==
  base \subseteq trans[a] /\ \A t \in trans[a] : t.kind = "Sms" => t \in base

(* An SMS transaction ends, by its reply or by its timer.                  *)
SmsEnds(a, t) ==
  /\ t \in trans[a] /\ t.kind = "Sms"
  /\ timers' = timers \ {<<a, t.callid>>}
  /\ trans' = [trans EXCEPT ![a] = Answered(a, t)]
  /\ UNCHANGED <<ready, wait, emitted>>

SendShape ==
  \E a \in Accounts, u \in Buddies, m \in Messages :
    \E base \in SUBSET trans[a] :
      KeepsSms(a, base) /\ MessageSend(a, u, m, base) /\ UNCHANGED ready

QuietShape == SameSms /\ UNCHANGED <<ready, wait, emitted, timers>>

(* A request that is not a text.                                           *)
LEMMA RequestSameSms ==
  ASSUME TypeOK, NEW a \in Accounts, NEW base, KeepsSms(a, base),
         NEW k, k # "Sms", NEW u, NEW m, Request(a, base, k, u, m)
  PROVE  SameSms
<1> DEFINE t == Transaction(callid, k, u, m)
<1>1. t.kind # "Sms" /\ trans' = [trans EXCEPT ![a] = base \cup {t}]
  BY DEF Transaction, Request
<1> HIDE DEF t
<1> QED
  BY <1>1 DEF SameSms, KeepsSms, TypeOK

LEMMA ProxyConnectSameSms ==
  ASSUME TypeOK, NEW c \in Channels, NEW carried,
         NEW base \in [Accounts -> SUBSET Transactions],
         \A b \in Accounts : KeepsSms(b, base[b]),
         \/ ProxyConnect(c, carried, base)
         \/ RegisterOn(c, carried, base)
  PROVE  SameSms
<1>1. CASE trans' = base
  BY <1>1 DEF SameSms, KeepsSms
<1>2. CASE RegisterOn(c, carried, base)
  <2> DEFINE S == {Transaction(callid, "Register", t.user, t.msg) : t \in carried}
  <2>1. trans' = [base EXCEPT ![c] = @ \cup S] /\ \A t \in S : t.kind # "Sms"
    BY <1>2 DEF RegisterOn, Transaction
  <2> HIDE DEF S
  <2> QED
    BY <2>1 DEF SameSms, KeepsSms, Accounts
<1> QED
  BY <1>1, <1>2 DEF ProxyConnect, ConnectFails, ConnectWaits, ConnectAtOnce

LEMMA ChatSendShape ==
  ASSUME TypeOK, NEW b \in Buddies, NEW m \in Messages, ChatSend(b, m)
  PROVE  QuietShape \/ SendShape
<1>1. \A a \in Accounts : KeepsSms(a, trans[a]) /\ trans[a] \in SUBSET trans[a]
  BY DEF KeepsSms
<1>2. Main \in Accounts /\ UNCHANGED ready
  BY DEF Accounts, ChatSend, accountVars
<1>3. CASE SendOnMain(b, m)
  BY <1>1, <1>2, <1>3 DEF SendOnMain, SendShape
<1>4. CASE SendOnChannel(b, m)
  <2>1. PICK i \in DOMAIN channel_list :
          /\ who[channel_list[i]] = b
          /\ MessageSend(channel_list[i], b, m, trans[channel_list[i]])
    BY <1>4 DEF SendOnChannel, ChannelFor
  <2>2. channel_list[i] \in Accounts
    BY DEF TypeOK, Accounts
  <2> QED
    BY <1>1, <1>2, <2>1, <2>2 DEF SendShape
<1>5. CASE StartChat(b, m)
  <2>1. Request(Main, trans[Main], "StartChat", b, m)
    BY <1>5 DEF StartChat
  <2>2. SameSms
    BY <1>1, <1>2, <2>1, RequestSameSms
  <2> QED
    BY <1>2, <1>5, <2>2 DEF StartChat, QuietShape
<1> QED
  BY <1>3, <1>4, <1>5 DEF ChatSend

LEMMA KeepAliveShape ==
  ASSUME TypeOK, KeepAlive
  PROVE  QuietShape
<1>1. SameSms
  <2>1. CASE KeepAliveAll
    <3>1. \A a \in Accounts :
            /\ trans[a] \subseteq trans'[a]
            /\ \A t \in trans'[a] \ trans[a] : t.kind = "KeepAlive"
      BY <2>1 DEF KeepAliveAll, Transaction
    <3> QED
      BY <3>1 DEF SameSms
  <2>2. CASE KeepAliveFails
    <3>1. Main \in Accounts /\ KeepsSms(Main, trans[Main])
      BY DEF Accounts, KeepsSms
    <3> QED
      BY <2>2, <3>1, RequestSameSms DEF KeepAliveFails
  <2> QED
    BY <2>1, <2>2 DEF KeepAlive
<1> QED
  BY <1>1 DEF KeepAlive, QuietShape, accountVars, historyVars

LEMMA ReplyShape ==
  ASSUME TypeOK, NEW a \in Accounts, NEW t \in trans[a], Reply(a, t)
  PROVE  QuietShape \/ SendShape \/ SmsEnds(a, t)
<1> DEFINE base == [trans EXCEPT ![a] = Answered(a, t)]
<1>1. t.kind # "Sms" => KeepsSms(a, Answered(a, t))
  BY DEF KeepsSms, Answered
<1>2. t \in Transactions
  BY DEF TypeOK
<1>3. /\ base \in [Accounts -> SUBSET Transactions]
      /\ t.kind # "Sms" => \A b \in Accounts : KeepsSms(b, base[b])
  BY <1>1 DEF TypeOK, Answered, KeepsSms
<1>4. ASSUME t.kind # "Sms", trans' = base, UNCHANGED <<ready, wait, emitted, timers>>
      PROVE  QuietShape
  BY <1>3, <1>4 DEF QuietShape, SameSms, KeepsSms
<1>5. CASE t.kind = "StartChat" /\ StartChatGranted(a, t)
  <2> DEFINE carried == {[user |-> t.user, msg |-> t.msg]}
  <2>1. PICK c \in Channels :
          /\ Clone(c, t.user)
          /\ ProxyConnect(c, carried, base)
          /\ UNCHANGED <<wait, timers, emitted>>
    BY <1>5 DEF StartChatGranted
  <2> HIDE DEF carried, base
  <2>2. SameSms
    BY <1>3, <1>5, <2>1, ProxyConnectSameSms
  <2> QED
    BY <2>1, <2>2 DEF QuietShape, Clone
<1>6. CASE t.kind = "Register" /\ Registered(a, t)
  <2>1. UNCHANGED <<ready, wait, emitted, timers>>
    BY <1>6 DEF Registered, accountVars
  <2>2. CASE Request(a, Answered(a, t), "Invite", t.user, t.msg)
    BY <1>1, <1>6, <2>1, <2>2, RequestSameSms DEF QuietShape
  <2> QED
    BY <1>4, <1>6, <2>1, <2>2 DEF Registered
<1>7. CASE t.kind = "Invite" /\ Invited(a, t)
  <2>1. t.user \in Buddies /\ t.msg \in Messages
    BY <1>2, <1>7 DEF Transactions, TextTransactions, KeepAliveTransactions
  <2>2. Answered(a, t) \in SUBSET trans[a] /\ UNCHANGED ready
    BY <1>7 DEF Answered, Invited, accountVars
  <2> QED
    BY <1>1, <1>7, <2>1, <2>2 DEF Invited, SendShape
<1>8. CASE \/ t.kind = "StartChat" /\ StartChatRefused(a, t)
           \/ t.kind = "KeepAlive" /\ KeepAliveAnswered(a, t)
  BY <1>4, <1>8 DEF StartChatRefused, KeepAliveAnswered, accountVars
<1>9. CASE t.kind = "Sms" /\ SmsAnswered(a, t)
  BY <1>9 DEF SmsAnswered, SmsEnds, accountVars
<1> QED
  BY <1>5, <1>6, <1>7, <1>8, <1>9 DEF Reply, Callback

LEMMA SmsShape ==
  ASSUME TypeOK, [Next]_vars
  PROVE  \/ QuietShape \/ SendShape
         \/ \E a \in Accounts : \E t \in trans[a] : SmsEnds(a, t)
         \/ \E c \in Channels : UserEntered(c)
<1>1. ASSUME UNCHANGED <<ready, queueVars, historyVars>>
      PROVE  QuietShape
  BY <1>1 DEF QuietShape, SameSms, queueVars, historyVars
<1>2. ASSUME \/ \E b \in Buddies : PresenceChanged(b)
             \/ Close
             \/ \E c \in Channels : StaleConnect(c)
             \/ \E c \in Channels : UserLeft(c)
             \/ \E a \in Accounts : PeerClosed(a)
             \/ \E a \in Accounts : RecvFailed(a)
             \/ UNCHANGED vars
      PROVE  QuietShape
  BY <1>1, <1>2 DEF PresenceChanged, Close, StaleConnect, UserLeft, PeerClosed,
                    RecvFailed, FreeAccount, vars, accountVars
<1>3. trans \in [Accounts -> SUBSET Transactions] /\ \A b \in Accounts : KeepsSms(b, trans[b])
  BY DEF TypeOK, KeepsSms
<1>4. ASSUME NEW a \in Accounts, NEW b \in Buddies, NEW c \in Channels,
             InviteReceived(a, b, c)
      PROVE  QuietShape
  BY <1>3, <1>4, ProxyConnectSameSms
  DEF InviteReceived, Clone, QuietShape, historyVars
<1>5. ASSUME NEW c \in Channels, NEW e \in BOOLEAN, NEW s \in BOOLEAN,
             ConnectDone(c, e, s)
      PROVE  QuietShape
  BY <1>3, <1>5, ProxyConnectSameSms
  DEF ConnectDone, QuietShape, historyVars, Accounts
<1>6. ASSUME NEW a \in Accounts, NEW t \in trans[a], SmsTimeout(a, t)
      PROVE  SmsEnds(a, t)
  BY <1>6 DEF SmsTimeout, SmsEnds, accountVars, historyVars
<1> QED
  BY <1>2, <1>4, <1>5, <1>6, ChatSendShape, KeepAliveShape, ReplyShape
  DEF Next, ConnectNext, ReplyNext, TimeoutNext

LEMMA GateSend ==
  ASSUME TypeOK, ReadyGate, SendShape
  PROVE  ReadyGate'
<1>1. PICK a \in Accounts, u \in Buddies, m \in Messages : \E base \in SUBSET trans[a] :
        MessageSend(a, u, m, base) /\ UNCHANGED ready
  BY DEF SendShape
<1>2. PICK base \in SUBSET trans[a] :
        MessageSend(a, u, m, base) /\ UNCHANGED ready
  BY <1>1
<1>3. CASE Drop(a, base)
  BY <1>2, <1>3 DEF Drop, ReadyGate, TypeOK
<1>4. CASE Hold(a, u, m, base)
  BY <1>2, <1>4 DEF Hold, ReadyGate, TypeOK
<1>5. CASE Emit(a, u, m, base)
  <2>1. /\ ready[a] /\ UNCHANGED wait
        /\ \A b \in Accounts \ {a} : trans'[b] = trans[b] /\ emitted'[b] = emitted[b]
    BY <1>5 DEF Emit, Request, TypeOK
  <2> QED
    BY <1>2, <2>1 DEF ReadyGate
<1> QED
  BY <1>2, <1>3, <1>4, <1>5 DEF MessageSend

LEMMA GateEntered ==
  ASSUME TypeOK, ReadyGate, NEW c \in Channels, UserEntered(c)
  PROVE  ReadyGate'
<1>1. /\ ready'[Main] /\ ready'[c] /\ wait'[c] = <<>>
      /\ \A a \in Accounts \ {c} : ready'[a] = ready[a] /\ wait'[a] = wait[a]
  BY ConstantAssumption DEF UserEntered, ReadyGate, TypeOK, Accounts
<1>2. \A a \in Accounts \ {c} : emitted'[a] = emitted[a] /\ trans'[a] = trans[a]
  BY DEF UserEntered, DrainInto, DrainLost, TypeOK
<1> QED
  BY <1>1, <1>2 DEF ReadyGate

(* fetion_message_send's gate: nothing leaves on a channel that is not     *)
(* ready, and nothing waits on one that is.                                *)
THEOREM GateCorrect == Spec => []ReadyGate
<1>1. Init => ReadyGate
  BY DEF Init, ReadyGate, Accounts
<1>2. TypeOK /\ ReadyGate /\ [Next]_vars => ReadyGate'
  <2> SUFFICES ASSUME TypeOK, ReadyGate, [Next]_vars
               PROVE  ReadyGate'
    OBVIOUS
  <2>1. CASE QuietShape
    BY <2>1 DEF QuietShape, SameSms, ReadyGate
  <2>2. ASSUME NEW a \in Accounts, NEW t \in trans[a], SmsEnds(a, t)
        PROVE  ReadyGate'
    BY <2>2 DEF SmsEnds, Answered, ReadyGate, TypeOK
  <2> QED
    BY <2>1, <2>2, GateSend, GateEntered, SmsShape
<1> QED
  BY <1>1, <1>2, TypeCorrect, PTL DEF Spec

LEMMA TimerSend ==
  ASSUME TypeOK, TimerMatch, SendShape
  PROVE  TimerMatch'
<1>1. PICK a \in Accounts, u \in Buddies, m \in Messages : \E base \in SUBSET trans[a] :
        KeepsSms(a, base) /\ MessageSend(a, u, m, base)
  BY DEF SendShape
<1>2. PICK base \in SUBSET trans[a] :
        KeepsSms(a, base) /\ MessageSend(a, u, m, base)
  BY <1>1
<1>3. ASSUME trans' = [trans EXCEPT ![a] = base], UNCHANGED timers
      PROVE  TimerMatch'
  BY <1>2, <1>3 DEF KeepsSms, TimerMatch, TypeOK
<1>4. CASE Emit(a, u, m, base)
  <2> DEFINE t == Transaction(callid, "Sms", u, m)
  <2>1. /\ trans' = [trans EXCEPT ![a] = base \cup {t}]
        /\ timers' = timers \cup {<<a, callid>>}
        /\ t.kind = "Sms" /\ t.callid = callid
    BY <1>4 DEF Emit, Request, Transaction
  <2> HIDE DEF t
  <2>2. t \in trans'[a]
    BY <2>1 DEF TypeOK
  <2>3. ASSUME NEW b \in Accounts, NEW v \in trans'[b], v.kind = "Sms"
        PROVE  <<b, v.callid>> \in timers'
    <3>1. v \in trans[b] \/ (b = a /\ v = t)
      BY <1>2, <2>1 DEF KeepsSms, TypeOK
    <3> QED
      BY <2>1, <2>3, <3>1 DEF TimerMatch
  <2>4. ASSUME NEW p \in timers'
        PROVE  \E v \in trans'[p[1]] : v.kind = "Sms" /\ v.callid = p[2]
    <3>1. CASE p = <<a, callid>>
      BY <2>1, <2>2, <3>1
    <3>2. CASE p \in timers
      <4>1. p[1] \in Accounts
        BY <3>2 DEF TypeOK
      <4>2. PICK v \in trans[p[1]] : v.kind = "Sms" /\ v.callid = p[2]
        BY <3>2 DEF TimerMatch
      <4>3. v \in trans'[p[1]]
        BY <1>2, <2>1, <4>1, <4>2 DEF KeepsSms, TypeOK
      <4> QED
        BY <4>2, <4>3
    <3> QED
      BY <2>1, <3>1, <3>2
  <2> QED
    BY <2>3, <2>4 DEF TimerMatch
<1> QED
  BY <1>2, <1>3, <1>4 DEF MessageSend, Drop, Hold

(* The timer that goes belongs to no other transaction, as no other has    *)
(* its call id.                                                            *)
LEMMA TimerEnds ==
  ASSUME TypeOK, CallidUnique, TimerMatch, NEW a \in Accounts,
         NEW t \in trans[a], SmsEnds(a, t)
  PROVE  TimerMatch'
<1>1. /\ timers' = timers \ {<<a, t.callid>>}
      /\ \A b \in Accounts : trans'[b] = IF b = a THEN trans[a] \ {t} ELSE trans[b]
  BY DEF SmsEnds, Answered, TypeOK
<1>2. ASSUME NEW b \in Accounts, NEW v \in trans'[b], v.kind = "Sms"
      PROVE  <<b, v.callid>> \in timers'
  <2>1. v \in trans[b] /\ (b = a => v # t)
    BY <1>1, <1>2
  <2>2. <<b, v.callid>> \in timers
    BY <1>2, <2>1 DEF TimerMatch
  <2>3. b = a => v.callid # t.callid
    BY <2>1 DEF CallidUnique
  <2> QED
    BY <1>1, <2>2, <2>3
<1>3. ASSUME NEW p \in timers'
      PROVE  \E v \in trans'[p[1]] : v.kind = "Sms" /\ v.callid = p[2]
  <2>1. p \in timers /\ p # <<a, t.callid>> /\ p = <<p[1], p[2]>> /\ p[1] \in Accounts
    BY <1>1, <1>3 DEF TypeOK
  <2>2. PICK v \in trans[p[1]] : v.kind = "Sms" /\ v.callid = p[2]
    BY <2>1 DEF TimerMatch
  <2>3. v \in trans'[p[1]]
    BY <1>1, <2>1, <2>2
  <2> QED
    BY <2>2, <2>3
<1> QED
  BY <1>2, <1>3 DEF TimerMatch

LEMMA TimerEntered ==
  ASSUME TypeOK, TimerMatch, NEW c \in Channels, UserEntered(c)
  PROVE  TimerMatch'
<1>1. CASE DrainInto(c)
  <2> DEFINE e(i) == Transaction(callid + i - 1, "Sms", wait[c][i].user,
                                 wait[c][i].msg)
             S == {e(i) : i \in DOMAIN wait[c]}
             T == {<<c, callid + i - 1>> : i \in DOMAIN wait[c]}
  <2>1. c \in Accounts
    BY DEF Accounts
  <2>2. \A v \in S : v.kind = "Sms" /\ <<c, v.callid>> \in T
    BY DEF Transaction
  <2>3. ASSUME NEW p \in T
        PROVE  p[1] = c /\ \E v \in S : v.kind = "Sms" /\ v.callid = p[2]
    <3>1. PICK i \in DOMAIN wait[c] : p = <<c, callid + i - 1>>
      OBVIOUS
    <3>2. e(i) \in S
      OBVIOUS
    <3>3. e(i).kind = "Sms" /\ e(i).callid = callid + i - 1
      BY DEF Transaction
    <3> HIDE DEF S, T, e
    <3> QED
      BY <3>1, <3>2, <3>3
  <2>4. /\ trans' = [trans EXCEPT ![c] = @ \cup S]
        /\ timers' = timers \cup T
    BY <1>1 DEF DrainInto
  <2> HIDE DEF S, T
  <2>5. \A b \in Accounts : trans'[b] = IF b = c THEN trans[c] \cup S ELSE trans[b]
    BY <2>4 DEF TypeOK
  <2>6. ASSUME NEW b \in Accounts, NEW v \in trans'[b], v.kind = "Sms"
        PROVE  <<b, v.callid>> \in timers'
    BY <2>2, <2>4, <2>5, <2>6 DEF TimerMatch
  <2>7. ASSUME NEW p \in timers'
        PROVE  \E v \in trans'[p[1]] : v.kind = "Sms" /\ v.callid = p[2]
    <3>1. CASE p \in T
      BY <2>1, <2>3, <2>5, <3>1
    <3>2. CASE p \in timers
      <4>1. p[1] \in Accounts
        BY <3>2 DEF TypeOK
      <4> QED
        BY <2>5, <3>2, <4>1 DEF TimerMatch
    <3> QED
      BY <2>4, <3>1, <3>2
  <2> QED
    BY <2>6, <2>7 DEF TimerMatch
<1>2. CASE DrainLost(c)
  BY <1>2 DEF DrainLost, TimerMatch
<1> QED
  BY <1>1, <1>2 DEF UserEntered

(* An SMS timer runs exactly as long as its transaction is pending.        *)
THEOREM TimersMatch == Spec => []TimerMatch
<1>1. Init => TimerMatch
  BY DEF Init, TimerMatch
<1>2. TypeOK /\ CallidUnique /\ TimerMatch /\ [Next]_vars => TimerMatch'
  <2> SUFFICES ASSUME TypeOK, CallidUnique, TimerMatch, [Next]_vars
               PROVE  TimerMatch'
    OBVIOUS
  <2>1. CASE QuietShape
    <3>1. \A p \in timers : p[1] \in Accounts
      BY DEF TypeOK
    <3> QED
      BY <2>1, <3>1 DEF QuietShape, SameSms, TimerMatch
  <2> QED
    BY <2>1, TimerSend, TimerEnds, TimerEntered, SmsShape
<1> QED
  BY <1>1, <1>2, TypeCorrect, CallidsUnique, PTL DEF Spec

=============================================================================
