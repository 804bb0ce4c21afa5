-------------------------- MODULE FxChatProperties -------------------------
(***************************************************************************)
(* What makes the conversation engine correct: invariants, an action       *)
(* property, the refinement of ChatDelivery, and liveness under named      *)
(* fairness assumptions.  The last section states what comments of the     *)
(* source say and the code does not do.                                    *)
(***************************************************************************)
EXTENDS FxChat

(* Every variable has its type.                                            *)
TypeOK ==
  /\ status \in [Accounts -> {"unused", "open", "freed"}]
  /\ conn \in [Accounts ->
                {"none", "connecting", "up", "broken", "deaf", "closed"}]
  /\ ready \in [Accounts -> BOOLEAN]
  /\ who \in [Channels -> Buddies \cup {None}]
  /\ channel_list \in Seq(Channels)
  /\ trans \in [Accounts -> SUBSET Transactions]
  /\ wait \in [Accounts -> Seq(Texts)]
  /\ pend \in [Channels -> SUBSET Texts]
  /\ stale \in SUBSET Channels
  /\ timers \in SUBSET (Accounts \X Nat)
  /\ callid \in 1 .. MaxCallid
  /\ keepalive \in BOOLEAN
  /\ online \in SUBSET Buddies
  /\ closed \in BOOLEAN
  /\ crashed \in BOOLEAN
  /\ addr \in [Messages -> Buddies \cup {None}]
  /\ emitted \in [Accounts -> Seq(Texts)]

(* A reply carries nothing but a call id, and process_sipc_cb takes the    *)
(* first transaction with that number: no two pending transactions, of one *)
(* connection or of two, ever have the same one, although each account     *)
(* copies the global counter before it is incremented.                     *)
CallidUnique ==
  \A a \in Accounts, b \in Accounts : \A t \in trans[a], u \in trans[b] :
    /\ t.callid < callid
    /\ t.callid = u.callid => a = b /\ t = u

Listed(c) == \E i \in DOMAIN channel_list : channel_list[i] = c

(* channel_list holds exactly the clones that are allocated, once each: no *)
(* handler that walks it (fx_chat_send, fx_keep_alive) meets a destroyed   *)
(* account, and no clone becomes unreachable while its socket is read.     *)
ListedIffOpen ==
  /\ \A c \in Channels : Listed(c) <=> status[c] = "open"
  /\ \A i, j \in DOMAIN channel_list :
       channel_list[i] = channel_list[j] => i = j

(* The gate of fetion_message_send: nothing was sent to the buddy of a     *)
(* channel before User-Entered came on it, nothing waits on one that is    *)
(* ready, and the main channel is always ready.                            *)
ReadyGate ==
  /\ ready[Main]
  /\ \A a \in Accounts :
       /\ ready[a] => wait[a] = <<>>
       /\ ~ready[a] => emitted[a] = <<>>
       /\ ~ready[a] => \A t \in trans[a] : t.kind # "Sms"

(* An SMS timer runs exactly as long as its transaction is on a            *)
(* trans_list: no reply leaves a timer behind that would fire on a         *)
(* transaction already freed, and no SMS waits for ever.                   *)
TimerMatch ==
  /\ \A a \in Accounts : \A t \in trans[a] :
       t.kind = "Sms" => <<a, t.callid>> \in timers
  /\ \A p \in timers : \E t \in trans[p[1]] :
       t.kind = "Sms" /\ t.callid = p[2]

(* The transactions that still have to send their text.                    *)
Carriers(a) == {t \in trans[a] : t.kind \in {"StartChat", "Register", "Invite"}}

Carries(a, m) == \E t \in Carriers(a) : t.msg = m
Waits(a, m)   == \E i \in DOMAIN wait[a] : wait[a][i].msg = m
Pends(c, m)   == \E t \in pend[c] : t.msg = m
Sent(m)       == \E a \in Accounts : \E i \in DOMAIN emitted[a] : emitted[a][i].msg = m

(* Each text has one owner at a time: one transaction, one pending connect *)
(* or one place in a waiting list, and none once it was sent.  The text is *)
(* copied at every hand-over (transaction_clone, transaction_wakeup); a    *)
(* copy left behind would send it twice.                                   *)
OneOwner ==
  \A m \in Messages :
    /\ \A a, b \in Accounts : \A t \in Carriers(a), u \in Carriers(b) :
         t.msg = m /\ u.msg = m => a = b /\ t = u
    /\ \A a, b \in Accounts : \A i \in DOMAIN wait[a], j \in DOMAIN wait[b] :
         wait[a][i].msg = m /\ wait[b][j].msg = m => a = b /\ i = j
    /\ \A a, b \in Accounts : \A i \in DOMAIN emitted[a], j \in DOMAIN emitted[b] :
         emitted[a][i].msg = m /\ emitted[b][j].msg = m => a = b /\ i = j
    /\ \A a, b \in Accounts : ~(Carries(a, m) /\ Waits(b, m))
    /\ \A c \in Channels : Pends(c, m) =>
         /\ \A d \in Channels : Pends(d, m) => c = d
         /\ \A a \in Accounts : ~Carries(a, m) /\ ~Waits(a, m)
         /\ ~Sent(m)
    /\ Sent(m) => \A a \in Accounts : ~Carries(a, m) /\ ~Waits(a, m)

(* A text reaches the buddy it was typed for: every transaction, waiting   *)
(* entry and pending connect names that buddy, and what a channel holds or *)
(* sent is for the buddy the channel is for, however many channels to      *)
(* however many buddies were opened, granted and refused in between.       *)
Addressed(u, m) == m # None => addr[m] = u

NoMisdelivery ==
  /\ \A a \in Accounts :
       /\ \A t \in trans[a] : Addressed(t.user, t.msg)
       /\ \A i \in DOMAIN emitted[a] :
            Addressed(emitted[a][i].user, emitted[a][i].msg)
  /\ \A c \in Channels :
       /\ \A t \in trans[c] : t.msg # None => t.user = who[c]
       /\ \A i \in DOMAIN wait[c] :
            wait[c][i].user = who[c] /\ Addressed(who[c], wait[c][i].msg)
       /\ \A t \in pend[c] : t.user = who[c] /\ Addressed(who[c], t.msg)
       /\ \A i \in DOMAIN emitted[c] : emitted[c][i].user = who[c]

(* What a channel sent, followed by what waits for it to become ready, is  *)
(* a line nobody jumps, leaves or enters in the middle, also across the    *)
(* User-Entered callback that empties the waiting list; only after         *)
(* fx_close freed the buddies may waiting texts be dropped.                *)
Line(a) == emitted[a] \o wait[a]

FirstComeFirstSent ==
  [][\A a \in Accounts :
       ~DanglingBuddies(a) =>
         /\ Len(Line(a)) <= Len(Line(a)')
         /\ \A i \in DOMAIN Line(a) : Line(a)'[i] = Line(a)[i]]_vars

Owns(a, m) == Carries(a, m) \/ Waits(a, m) \/ (a # Main /\ Pends(a, m))

(* Refinement: a typed text is sent once it was handed to send(), held     *)
(* while an account that is not freed owns it, lost otherwise.             *)
Held(m) == \E a \in Accounts : status[a] = "open" /\ Owns(a, m)

Fate(m) ==
  IF addr[m] = None THEN "untyped"
  ELSE IF Sent(m) THEN "sent"
  ELSE IF Held(m) THEN "held" ELSE "lost"

SentTo(b) ==
  {m \in Messages : \E a \in Accounts : \E i \in DOMAIN emitted[a] :
     emitted[a][i] = [user |-> b, msg |-> m]}

Delivery == INSTANCE ChatDelivery WITH
  fate <- [m \in Messages |-> Fate(m)],
  to   <- addr,
  out  <- [b \in Buddies |-> SentTo(b)]

(* Whatever the server, the network and the user do, and in whatever order *)
(* the loop runs the callbacks, a typed text is sent at most once, only to *)
(* its buddy, and never after it was given up: the abstract delivery.      *)
ImplementsDelivery == Delivery!Init /\ [][Delivery!Next]_(Delivery!vars)

(***************************************************************************)
(* Fairness: GLib dispatches a timer that is due, so an SMS timer that     *)
(* stays installed fires.                                                  *)
(***************************************************************************)
TimeoutOf(a, n) == \E t \in trans[a] : t.callid = n /\ SmsTimeout(a, t)

TimerFairness ==
  \A a \in Accounts, n \in 1 .. MaxCallid : WF_vars(TimeoutOf(a, n))

(***************************************************************************)
(* What the server owes the client: on a connection that lives it answers  *)
(* every request but a text, which may stay unacknowledged, decides every  *)
(* connect, and pushes User-Entered.                                       *)
(***************************************************************************)
ReplyTo(a, n) ==
  \E t \in trans[a] : t.callid = n /\ t.kind # "Sms" /\ Reply(a, t)

ServerFairness ==
  /\ \A a \in Accounts, n \in 1 .. MaxCallid : WF_vars(ReplyTo(a, n))
  /\ \A c \in Channels :
       /\ WF_vars(\E e, s \in BOOLEAN : ConnectDone(c, e, s))
       /\ WF_vars(UserEntered(c))

ServedSpec == Spec /\ TimerFairness /\ ServerFairness

(* A text that was sent does not wait for its acknowledgement for ever,    *)
(* also when no reply comes and when the channel it went through is freed  *)
(* first: its transaction ends, by the reply or by the timer.              *)
SmsResolved ==
  \A a \in Accounts, n \in 1 .. MaxCallid :
    (\E t \in trans[a] : t.kind = "Sms" /\ t.callid = n)
      ~> (crashed \/ \A t \in trans[a] : t.callid # n)

(* As long as its connection lives, the client does not sit on a text: a   *)
(* held text is sent or lost, unless the account that owns it has no       *)
(* working connection any more or the process dies.                        *)
Stranded(m) ==
  \E a \in Accounts : Owns(a, m) /\ conn[a] \notin {"up", "connecting"}

HeldResolved ==
  \A m \in Messages :
    (Fate(m) = "held") ~> (crashed \/ Stranded(m) \/ Fate(m) \in {"sent", "lost"})

-----------------------------------------------------------------------------
(* What a comment of the source says, and the code does not do             *)

(* fetion.c:694-696: a text goes through a channel that has been           *)
(* established; otherwise a new channel is started.                        *)
UsesLiveChannel ==
  [][\A c \in Channels :
       addr' # addr /\ Len(Line(c)') > Len(Line(c))
         => conn[c] \in {"connecting", "up"}]_vars

===========================================================================
