-------------------------- MODULE FxDeliveryProofs --------------------------
(***************************************************************************)
(* What becomes of a text, proved for all sets of buddies, texts and       *)
(* channels and all bounds: it has one owner at a time, goes to the buddy  *)
(* it was typed for and to nobody else, keeps its place in the line of its *)
(* channel, and the engine implements ChatDelivery.                        *)
(*                                                                         *)
(* The proofs keep books.  Whatever an account has of texts, on its        *)
(* trans_list, on its trans_wait_list, in a pending connect or handed to   *)
(* send(), is an entry; a step of the engine only takes entries out of a   *)
(* book and puts entries for the same texts in one.                        *)
(***************************************************************************)
EXTENDS FxChatProofs

-----------------------------------------------------------------------------
(* The line of a channel                                                   *)

(* Appending to what is sent while nothing waits, appending to what waits, *)
(* and moving all that waits behind what was sent, prolong the line.       *)
Prolonged(a) ==
  /\ Len(Line(a)) <= Len(Line(a)')
  /\ \A i \in DOMAIN Line(a) : Line(a)'[i] = Line(a)[i]

LEMMA LineType ==
  ASSUME TypeOK, NEW a \in Accounts
  PROVE  Line(a) \in Seq(Texts)
BY DEF Line, TypeOK

LEMMA LineKept ==
  ASSUME TypeOK, NEW a \in Accounts, Line(a)' = Line(a)
  PROVE  Prolonged(a)
BY LineType DEF Prolonged

LEMMA OneBehind ==
  ASSUME NEW S, NEW s \in Seq(S), NEW w \in Seq(S), NEW x \in S
  PROVE  /\ Len(s \o w) <= Len(s \o Append(w, x))
         /\ \A i \in DOMAIN (s \o w) : (s \o Append(w, x))[i] = (s \o w)[i]
<1>1. /\ Append(w, x) \in Seq(S) /\ Len(Append(w, x)) = Len(w) + 1
      /\ \A i \in 1 .. Len(w) : Append(w, x)[i] = w[i]
  OBVIOUS
<1> DEFINE v == Append(w, x)
<1> HIDE DEF v
<1>2. /\ Len(s \o w) = Len(s) + Len(w) /\ Len(s \o v) = Len(s) + Len(w) + 1
      /\ DOMAIN (s \o w) = 1 .. (Len(s) + Len(w))
  BY <1>1 DEF v
<1>3. ASSUME NEW i \in 1 .. (Len(s) + Len(w))
      PROVE  (s \o v)[i] = (s \o w)[i]
  <2>1. CASE i <= Len(s)
    BY <1>1, <2>1 DEF v
  <2>2. CASE i > Len(s)
    <3>1. /\ (s \o w)[i] = w[i - Len(s)]
          /\ i - Len(s) \in 1 .. Len(w)
      BY <2>2
    <3>2. v \in Seq(S) /\ Len(v) = Len(w) + 1
      BY <1>1 DEF v
    <3>3. (s \o v)[i] = v[i - Len(s)]
      BY <2>2, <3>2
    <3> QED
      BY <1>1, <3>1, <3>3 DEF v
  <2>3. i <= Len(s) \/ i > Len(s)
    <3>1. i \in Int /\ Len(s) \in Int
      OBVIOUS
    <3> QED
      BY <3>1
  <2> QED
    BY <2>1, <2>2, <2>3
<1> QED
  BY <1>2, <1>3 DEF v

LEMMA Concatenation ==
  ASSUME NEW S, NEW s \in Seq(S), NEW w \in Seq(S)
  PROVE  /\ \A i \in 1 .. Len(s) : (s \o w)[i] = s[i]
         /\ \A i \in 1 .. Len(w) : (s \o w)[Len(s) + i] = w[i]
<1>1. ASSUME NEW i \in 1 .. Len(w)
      PROVE  (s \o w)[Len(s) + i] = w[i]
  <2>1. Len(s) \in Nat /\ Len(w) \in Nat /\ i \in Nat /\ i >= 1 /\ i <= Len(w)
    OBVIOUS
  <2> DEFINE j == Len(s) + i
  <2>2. j \in 1 .. (Len(s) + Len(w)) /\ ~(j <= Len(s)) /\ j - Len(s) = i
    BY <2>1
  <2>3. (s \o w)[j] = w[j - Len(s)]
    BY <2>2
  <2> QED
    BY <2>2, <2>3
<1> QED
  BY <1>1

LEMMA LineSends ==
  ASSUME TypeOK, ReadyGate, SendShape, NEW a \in Accounts
  PROVE  Prolonged(a)
<1>1. PICK b \in Accounts, u \in Buddies, m \in Messages : \E base \in SUBSET trans[b] :
        MessageSend(b, u, m, base)
  BY DEF SendShape
<1>2. PICK base \in SUBSET trans[b] : MessageSend(b, u, m, base)
  BY <1>1
<1> DEFINE x == [user |-> u, msg |-> m]
<1>3. x \in Texts
  BY DEF Texts
<1> HIDE DEF x
<1>4. emitted[a] \in Seq(Texts) /\ wait[a] \in Seq(Texts)
  BY DEF TypeOK
<1>5. CASE Drop(b, base)
  BY <1>5, LineKept DEF Drop, Line
<1>6. CASE Hold(b, u, m, base)
  <2>1. emitted' = emitted /\ wait' = [wait EXCEPT ![b] = Append(@, x)]
    BY <1>6 DEF Hold, x
  <2>2. CASE a = b
    <3>1. Line(a)' = emitted[a] \o Append(wait[a], x)
      BY <2>1, <2>2 DEF Line, TypeOK
    <3>2. Line(a) = emitted[a] \o wait[a]
      BY DEF Line
    <3>3. /\ Len(emitted[a] \o wait[a]) <= Len(emitted[a] \o Append(wait[a], x))
          /\ \A i \in DOMAIN (emitted[a] \o wait[a]) :
               (emitted[a] \o Append(wait[a], x))[i] = (emitted[a] \o wait[a])[i]
      <4> DEFINE s == emitted[a]
                 w == wait[a]
      <4>1. s \in Seq(Texts) /\ w \in Seq(Texts) /\ x \in Texts
        BY <1>3, <1>4
      <4> HIDE DEF s, w
      <4>2. /\ Len(s \o w) <= Len(s \o Append(w, x))
            /\ \A i \in DOMAIN (s \o w) : (s \o Append(w, x))[i] = (s \o w)[i]
        BY <4>1, OneBehind, Zenon
      <4> QED
        BY <4>2 DEF s, w
    <3> QED
      BY <3>1, <3>2, <3>3 DEF Prolonged
  <2>3. CASE a # b
    BY <2>1, <2>3, LineKept DEF Line, TypeOK
  <2> QED
    BY <2>2, <2>3
<1>7. CASE Emit(b, u, m, base)
  <2>1. /\ ready[b] /\ wait' = wait
        /\ emitted' = [emitted EXCEPT ![b] = Append(@, x)]
    BY <1>7 DEF Emit, x
  <2>2. CASE a = b
    <3>1. wait[a] = <<>>
      BY <2>1, <2>2 DEF ReadyGate
    <3>2. Line(a)' = Append(emitted[a], x) \o wait[a]
      BY <2>1, <2>2 DEF Line, TypeOK
    <3> QED
      BY <1>3, <1>4, <3>1, <3>2 DEF Prolonged, Line
  <2>3. CASE a # b
    BY <2>1, <2>3, LineKept DEF Line, TypeOK
  <2> QED
    BY <2>2, <2>3
<1> QED
  BY <1>2, <1>5, <1>6, <1>7 DEF MessageSend

LEMMA LineEntered ==
  ASSUME TypeOK, NEW c \in Channels, UserEntered(c), NEW a \in Accounts,
         ~DanglingBuddies(a)
  PROVE  Prolonged(a)
<1>1. c \in Accounts /\ emitted[c] \in Seq(Texts) /\ wait[c] \in Seq(Texts)
  BY DEF TypeOK, Accounts
<1>2. wait' = [wait EXCEPT ![c] = <<>>]
  BY DEF UserEntered
<1>3. CASE DrainInto(c)
  <2>1. emitted' = [emitted EXCEPT ![c] = @ \o wait[c]]
    BY <1>3 DEF DrainInto
  <2>2. CASE a = c
    <3>1. Line(a)' = (emitted[c] \o wait[c]) \o <<>>
      BY <1>1, <1>2, <2>1, <2>2 DEF Line, TypeOK
    <3>2. Line(a)' = Line(a)
      BY <1>1, <2>2, <3>1 DEF Line
    <3> QED
      BY <3>2, LineKept
  <2>3. CASE a # c
    BY <1>2, <2>1, <2>3, LineKept DEF Line, TypeOK
  <2> QED
    BY <2>2, <2>3
<1>4. CASE DrainLost(c)
  <2>1. emitted' = emitted /\ DanglingBuddies(c)
    BY <1>4 DEF DrainLost
  <2>2. a # c
    BY <2>1
  <2> QED
    BY <1>2, <2>1, <2>2, LineKept DEF Line, TypeOK
<1> QED
  BY <1>3, <1>4 DEF UserEntered

(* Nobody jumps the queue of a channel, leaves it or enters in its middle, *)
(* also when User-Entered empties the waiting list into the socket.        *)
THEOREM LineIsKept == Spec => FirstComeFirstSent
<1>1. ASSUME TypeOK, ReadyGate, [Next]_vars
      PROVE  [\A a \in Accounts : ~DanglingBuddies(a) => Prolonged(a)]_vars
  <2> SUFFICES ASSUME NEW a \in Accounts, ~DanglingBuddies(a)
               PROVE  Prolonged(a)
    OBVIOUS
  <2>1. CASE UNCHANGED <<wait, emitted>>
    BY <1>1, <2>1, LineKept DEF Line
  <2> QED
    BY <1>1, <2>1, LineSends, LineEntered, SmsShape DEF QuietShape, SmsEnds
<1> QED
  BY <1>1, TypeCorrect, GateCorrect, PTL DEF Spec, FirstComeFirstSent, Prolonged

-----------------------------------------------------------------------------
(* The books                                                               *)

Entry(k, n, u, m) == [place |-> k, at |-> n, user |-> u, msg |-> m]

(* A carrying transaction is known by its call id, the rest by their place *)
(* in a sequence; a pending connect carries one text at most.              *)
EntryOf(t) == Entry("carried", t.callid, t.user, t.msg)

CarriedIn(a) == {EntryOf(t) : t \in Carriers(a)}

WaitingIn(a) ==
  {Entry("waiting", i, wait[a][i].user, wait[a][i].msg) : i \in DOMAIN wait[a]}

PendingIn(a) ==
  IF a \in Channels
    THEN {Entry("pending", 0, t.user, t.msg) : t \in pend[a]}
    ELSE {}

SentIn(a) ==
  {Entry("sent", i, emitted[a][i].user, emitted[a][i].msg) : i \in DOMAIN emitted[a]}

HeldIn(a) == CarriedIn(a) \cup WaitingIn(a) \cup PendingIn(a)

Book(a) == HeldIn(a) \cup SentIn(a)

(* What is in a book is a text for a buddy.                                *)
LEMMA BookType ==
  ASSUME TypeOK, NEW a \in Accounts, NEW e \in Book(a)
  PROVE  e.user \in Buddies /\ e.msg \in Messages
<1>1. CASE e \in CarriedIn(a)
  <2>1. PICK t \in Carriers(a) : e = EntryOf(t)
    BY <1>1 DEF CarriedIn
  <2>2. t \in TextTransactions
    BY DEF Carriers, TypeOK, Transactions, KeepAliveTransactions
  <2> QED
    BY <2>1, <2>2 DEF EntryOf, Entry, TextTransactions
<1>2. CASE e \in WaitingIn(a)
  <2>1. PICK i \in DOMAIN wait[a] :
          e = Entry("waiting", i, wait[a][i].user, wait[a][i].msg)
    BY <1>2 DEF WaitingIn
  <2>2. wait[a][i] \in Texts
    BY DEF TypeOK
  <2> QED
    BY <2>1, <2>2 DEF Entry, Texts
<1>3. CASE e \in PendingIn(a)
  <2>1. PICK t \in pend[a] : e = Entry("pending", 0, t.user, t.msg) /\ a \in Channels
    BY <1>3 DEF PendingIn
  <2>2. t \in Texts
    BY <2>1 DEF TypeOK
  <2> QED
    BY <2>1, <2>2 DEF Entry, Texts
<1>4. CASE e \in SentIn(a)
  <2>1. PICK i \in DOMAIN emitted[a] :
          e = Entry("sent", i, emitted[a][i].user, emitted[a][i].msg)
    BY <1>4 DEF SentIn
  <2>2. emitted[a][i] \in Texts
    BY DEF TypeOK
  <2> QED
    BY <2>1, <2>2 DEF Entry, Texts
<1> QED
  BY <1>1, <1>2, <1>3, <1>4 DEF Book, HeldIn

(* What an entry says, and where it stands.                                *)
LEMMA EntryFields ==
  ASSUME NEW k, NEW n, NEW u, NEW m
  PROVE  /\ Entry(k, n, u, m).place = k /\ Entry(k, n, u, m).at = n
         /\ Entry(k, n, u, m).user = u /\ Entry(k, n, u, m).msg = m
BY DEF Entry

LEMMA CarriedEntries ==
  ASSUME NEW a
  PROVE  /\ \A t \in Carriers(a) : EntryOf(t) \in CarriedIn(a)
         /\ \A e \in CarriedIn(a) : \E t \in Carriers(a) : e = EntryOf(t)
         /\ \A t : /\ EntryOf(t).place = "carried" /\ EntryOf(t).at = t.callid
                   /\ EntryOf(t).user = t.user /\ EntryOf(t).msg = t.msg
BY EntryFields DEF CarriedIn, EntryOf

WaitingEntry(a, i) == Entry("waiting", i, wait[a][i].user, wait[a][i].msg)
PendingEntry(t) == Entry("pending", 0, t.user, t.msg)
SentEntry(a, i) == Entry("sent", i, emitted[a][i].user, emitted[a][i].msg)

LEMMA WaitingEntries ==
  ASSUME NEW a
  PROVE  /\ \A i \in DOMAIN wait[a] : WaitingEntry(a, i) \in WaitingIn(a)
         /\ \A e \in WaitingIn(a) : \E i \in DOMAIN wait[a] : e = WaitingEntry(a, i)
         /\ \A i : /\ WaitingEntry(a, i).place = "waiting"
                   /\ WaitingEntry(a, i).at = i
                   /\ WaitingEntry(a, i).user = wait[a][i].user
                   /\ WaitingEntry(a, i).msg = wait[a][i].msg
BY EntryFields DEF WaitingIn, WaitingEntry

LEMMA PendingEntries ==
  ASSUME NEW a
  PROVE  /\ a \in Channels => \A t \in pend[a] : PendingEntry(t) \in PendingIn(a)
         /\ \A e \in PendingIn(a) :
              a \in Channels /\ \E t \in pend[a] : e = PendingEntry(t)
         /\ \A t : /\ PendingEntry(t).place = "pending" /\ PendingEntry(t).at = 0
                   /\ PendingEntry(t).user = t.user /\ PendingEntry(t).msg = t.msg
BY EntryFields DEF PendingIn, PendingEntry

LEMMA SentEntries ==
  ASSUME NEW a
  PROVE  /\ \A i \in DOMAIN emitted[a] : SentEntry(a, i) \in SentIn(a)
         /\ \A e \in SentIn(a) : \E i \in DOMAIN emitted[a] : e = SentEntry(a, i)
         /\ \A i : /\ SentEntry(a, i).place = "sent" /\ SentEntry(a, i).at = i
                   /\ SentEntry(a, i).user = emitted[a][i].user
                   /\ SentEntry(a, i).msg = emitted[a][i].msg
BY EntryFields DEF SentIn, SentEntry

(* The words of FxChatProperties in terms of the books.                    *)
LEMMA CarriesBook ==
  ASSUME NEW a \in Accounts, NEW m
  PROVE  Carries(a, m) <=> \E e \in CarriedIn(a) : e.msg = m
BY CarriedEntries DEF Carries

LEMMA WaitsBook ==
  ASSUME NEW a \in Accounts, NEW m
  PROVE  Waits(a, m) <=> \E e \in WaitingIn(a) : e.msg = m
BY WaitingEntries DEF Waits

LEMMA PendsBook ==
  ASSUME NEW c \in Channels, NEW m
  PROVE  Pends(c, m) <=> \E e \in PendingIn(c) : e.msg = m
BY PendingEntries DEF Pends

LEMMA SentBook ==
  ASSUME NEW m
  PROVE  Sent(m) <=> \E a \in Accounts : \E e \in SentIn(a) : e.msg = m
BY SentEntries DEF Sent

LEMMA OwnsBook ==
  ASSUME NEW a \in Accounts, NEW m
  PROVE  Owns(a, m) <=> \E e \in HeldIn(a) : e.msg = m
<1>1. CASE a = Main
  <2>1. PendingIn(a) = {} /\ ~(a # Main /\ Pends(a, m))
    BY <1>1, ConstantAssumption DEF PendingIn
  <2> QED
    BY <2>1, CarriesBook, WaitsBook DEF Owns, HeldIn
<1>2. CASE a # Main
  <2>1. a \in Channels
    BY <1>2 DEF Accounts
  <2> QED
    BY <1>2, <2>1, CarriesBook, WaitsBook, PendsBook DEF Owns, HeldIn
<1> QED
  BY <1>1, <1>2

LEMMA SentToBook ==
  ASSUME TypeOK, NEW b
  PROVE  SentTo(b) = {m \in Messages : \E a \in Accounts : \E e \in SentIn(a) :
                                         e.user = b /\ e.msg = m}
<1>1. ASSUME NEW a \in Accounts, NEW i \in DOMAIN emitted[a], NEW m
      PROVE  emitted[a][i] = [user |-> b, msg |-> m]
             <=> emitted[a][i].user = b /\ emitted[a][i].msg = m
  <2>1. emitted[a][i] \in Texts
    BY DEF TypeOK
  <2> QED
    BY <2>1 DEF Texts
<1>2. ASSUME NEW a \in Accounts, NEW m
      PROVE  (\E e \in SentIn(a) : e.user = b /\ e.msg = m)
             <=> \E i \in DOMAIN emitted[a] :
                   emitted[a][i].user = b /\ emitted[a][i].msg = m
  BY SentEntries
<1> QED
  BY <1>1, <1>2 DEF SentTo

-----------------------------------------------------------------------------
(* The invariant                                                           *)

(* A text is entered once.                                                 *)
Singly ==
  \A a, b \in Accounts : \A e \in Book(a), f \in Book(b) :
    e.msg = f.msg => a = b /\ e = f

(* It is entered for the buddy it was typed for, and in the book of a      *)
(* channel only if the channel is for this buddy.                          *)
Directed ==
  \A a \in Accounts : \A e \in Book(a) :
    addr[e.msg] = e.user /\ (a \in Channels => who[a] = e.user)

(* The memory of a clone starts with empty lists, and only a clone that is *)
(* allocated waits for its socket.                                         *)
Fresh ==
  \A c \in Channels :
    /\ status[c] = "unused" => HeldIn(c) = {} /\ SentIn(c) = {}
    /\ conn[c] = "connecting" => status[c] = "open"

(* The transaction of an SMS is for a text that was sent.                  *)
WasSent(a, t) ==
  \E i \in DOMAIN emitted[a] : emitted[a][i] = [user |-> t.user, msg |-> t.msg]

SmsSent == \A a \in Accounts : \A t \in trans[a] : t.kind = "Sms" => WasSent(a, t)

BookInv == Singly /\ Directed /\ Fresh

-----------------------------------------------------------------------------
(* How a change of a list changes the book.                                *)

LEMMA SameEntries ==
  ASSUME NEW a
  PROVE  /\ Carriers(a)' = Carriers(a) => CarriedIn(a)' = CarriedIn(a)
         /\ wait'[a] = wait[a] => WaitingIn(a)' = WaitingIn(a)
         /\ (a \in Channels => pend'[a] = pend[a]) => PendingIn(a)' = PendingIn(a)
         /\ emitted'[a] = emitted[a] => SentIn(a)' = SentIn(a)
BY DEF CarriedIn, WaitingIn, PendingIn, SentIn

LEMMA SameBook ==
  ASSUME NEW a, Carriers(a)' = Carriers(a), wait'[a] = wait[a],
         a \in Channels => pend'[a] = pend[a], emitted'[a] = emitted[a]
  PROVE  HeldIn(a)' = HeldIn(a) /\ SentIn(a)' = SentIn(a)
BY SameEntries DEF HeldIn

(* Call ids are unique, so that taking a transaction away takes one entry  *)
(* away.                                                                   *)
LEMMA CarriedLeaves ==
  ASSUME TypeOK, CallidUnique, NEW a \in Accounts, NEW t \in Carriers(a),
         NEW R, Carriers(a)' = (Carriers(a) \ {t}) \cup R
  PROVE  /\ EntryOf(t) \in CarriedIn(a)
         /\ CarriedIn(a)' = (CarriedIn(a) \ {EntryOf(t)}) \cup {EntryOf(r) : r \in R}
<1>1. ASSUME NEW u \in Carriers(a), EntryOf(u) = EntryOf(t)
      PROVE  u = t
  <2>1. u.callid = t.callid
    BY <1>1, CarriedEntries
  <2>2. u \in trans[a] /\ t \in trans[a]
    BY DEF Carriers
  <2> QED
    BY <2>1, <2>2 DEF CallidUnique
<1>2. CarriedIn(a)' = {EntryOf(u) : u \in (Carriers(a) \ {t}) \cup R}
  BY DEF CarriedIn
<1>3. CarriedIn(a) = {EntryOf(u) : u \in Carriers(a)}
  BY DEF CarriedIn
<1> QED
  BY <1>1, <1>2, <1>3

LEMMA CarriedEnters ==
  ASSUME NEW a, NEW R, Carriers(a)' = Carriers(a) \cup R
  PROVE  CarriedIn(a)' = CarriedIn(a) \cup {EntryOf(r) : r \in R}
BY DEF CarriedIn

LEMMA WaitingEnters ==
  ASSUME TypeOK, NEW a \in Accounts, NEW x \in Texts, wait'[a] = Append(wait[a], x)
  PROVE  WaitingIn(a)' = WaitingIn(a)
                         \cup {Entry("waiting", Len(wait[a]) + 1, x.user, x.msg)}
<1>1. wait[a] \in Seq(Texts)
  BY DEF TypeOK
<1> DEFINE n == Len(wait[a])
<1>2. /\ n \in Nat /\ DOMAIN wait[a] = 1 .. n /\ DOMAIN wait'[a] = 1 .. (n + 1)
      /\ \A i \in 1 .. n : wait'[a][i] = wait[a][i]
      /\ wait'[a][n + 1] = x
  BY <1>1
<1>3. WaitingIn(a)' =
        {Entry("waiting", i, wait'[a][i].user, wait'[a][i].msg) : i \in 1 .. (n + 1)}
  BY <1>2 DEF WaitingIn
<1>4. WaitingIn(a) =
        {Entry("waiting", i, wait[a][i].user, wait[a][i].msg) : i \in 1 .. n}
  BY <1>2 DEF WaitingIn
<1>5. 1 .. (n + 1) = (1 .. n) \cup {n + 1}
  BY <1>2
<1> HIDE DEF n
<1> QED
  BY <1>2, <1>3, <1>4, <1>5

LEMMA SentEnters ==
  ASSUME TypeOK, NEW a \in Accounts, NEW x \in Texts,
         emitted'[a] = Append(emitted[a], x)
  PROVE  SentIn(a)' = SentIn(a)
                      \cup {Entry("sent", Len(emitted[a]) + 1, x.user, x.msg)}
<1>1. emitted[a] \in Seq(Texts)
  BY DEF TypeOK
<1> DEFINE n == Len(emitted[a])
<1>2. /\ n \in Nat /\ DOMAIN emitted[a] = 1 .. n
      /\ DOMAIN emitted'[a] = 1 .. (n + 1)
      /\ \A i \in 1 .. n : emitted'[a][i] = emitted[a][i]
      /\ emitted'[a][n + 1] = x
  BY <1>1
<1>3. SentIn(a)' =
        {Entry("sent", i, emitted'[a][i].user, emitted'[a][i].msg) : i \in 1 .. (n + 1)}
  BY <1>2 DEF SentIn
<1>4. SentIn(a) =
        {Entry("sent", i, emitted[a][i].user, emitted[a][i].msg) : i \in 1 .. n}
  BY <1>2 DEF SentIn
<1>5. 1 .. (n + 1) = (1 .. n) \cup {n + 1}
  BY <1>2
<1> HIDE DEF n
<1> QED
  BY <1>2, <1>3, <1>4, <1>5

-----------------------------------------------------------------------------
(* What a step does to the books                                           *)

SameBooks ==
  \A a \in Accounts : HeldIn(a)' = HeldIn(a) /\ SentIn(a)' = SentIn(a)

(* In the book of a alone, S goes, T is held from now on and U was sent.   *)
BookStep(a, S, T, U) ==
  /\ HeldIn(a)' = (HeldIn(a) \ S) \cup T
  /\ SentIn(a)' = SentIn(a) \cup U
  /\ \A b \in Accounts \ {a} : HeldIn(b)' = HeldIn(b) /\ SentIn(b)' = SentIn(b)

(* T has the texts of S, each once.                                        *)
Copies(T, S) ==
  /\ \A e \in T : \E f \in S : e.user = f.user /\ e.msg = f.msg
  /\ \A f \in S : \E e \in T : e.user = f.user /\ e.msg = f.msg
  /\ \A e, f \in T : e.msg = f.msg => e = f

(* One text, to be held or sent or neither.                                *)
Puts(T, U, u, m) ==
  \/ T = {} /\ U = {}
  \/ \E e : /\ e.user = u /\ e.msg = m
            /\ \/ T = {e} /\ U = {}
               \/ T = {} /\ U = {e}

(* The steps: b is typed a text; texts of one buddy in the book of an open *)
(* account are kept there, sent or lost; the text of a StartChat goes on   *)
(* to the new channel, or is lost; or the books stay as they are, while a  *)
(* channel may be opened or freed.                                         *)
Typed(b, m) ==
  /\ addr[m] = None /\ addr' = [addr EXCEPT ![m] = b]
  /\ UNCHANGED <<status, who, conn>>
  /\ \/ SameBooks
     \/ \E a \in Accounts :
          /\ a \in Channels => status[a] = "open" /\ who[a] = b
          /\ \E T, U : BookStep(a, {}, T, U) /\ Puts(T, U, b, m)

Moved(a) ==
  /\ status[a] = "open"
  /\ UNCHANGED <<status, who, addr>>
  /\ \A c \in Channels : conn'[c] = "connecting" => conn[c] = "connecting"
  /\ \E S \in SUBSET HeldIn(a) :
       /\ \A e, f \in S : e.user = f.user
       /\ \E T, U :
            /\ BookStep(a, S, T, U)
            /\ \/ T = {} /\ U = {}
               \/ U = {} /\ Copies(T, S)
               \/ T = {} /\ Copies(U, S)

Opens(c, u) ==
  /\ Clone(c, u)
  /\ \A d \in Channels \ {c} : conn'[d] = conn[d]

Granted(a, c) ==
  /\ status[a] = "open"
  /\ UNCHANGED addr
  /\ \E e \in HeldIn(a) :
       /\ Opens(c, e.user)
       /\ HeldIn(a)' = HeldIn(a) \ {e}
       /\ \/ HeldIn(c)' = HeldIn(c)
          \/ \E f : /\ f.user = e.user /\ f.msg = e.msg
                    /\ HeldIn(c)' = HeldIn(c) \cup {f}
       /\ \A b \in Accounts \ {a, c} : HeldIn(b)' = HeldIn(b)
       /\ \A b \in Accounts : SentIn(b)' = SentIn(b)

Steady ==
  /\ SameBooks
  /\ UNCHANGED addr
  /\ \/ /\ UNCHANGED <<status, who>>
        /\ \A c \in Channels : conn'[c] = "connecting" => conn[c] = "connecting"
     \/ \E c \in Channels : \E u : Opens(c, u)
     \/ \E a \in Accounts : FreeAccount(a)

-----------------------------------------------------------------------------
(* The steps keep the invariant                                            *)

LEMMA Disjoint ==
  ASSUME NEW a, NEW b
  PROVE  HeldIn(a) \cap SentIn(b) = {}
<1>1. \A e \in HeldIn(a) : e.place # "sent"
  <2>1. \A e \in CarriedIn(a) : e.place # "sent"
    BY CarriedEntries
  <2>2. \A e \in WaitingIn(a) : e.place # "sent"
    BY WaitingEntries
  <2>3. \A e \in PendingIn(a) : e.place # "sent"
    BY PendingEntries
  <2> QED
    BY <2>1, <2>2, <2>3 DEF HeldIn
<1>2. \A e \in SentIn(b) : e.place = "sent"
  BY SentEntries
<1> QED
  BY <1>1, <1>2

(* S leaves the book of a, N enters that of c.                             *)
Exchange(a, S, c, N) ==
  \A b \in Accounts : \A x \in Book(b)' :
    \/ x \in Book(b) /\ (b = a => x \notin S)
    \/ b = c /\ x \in N

LEMMA SinglyStep ==
  ASSUME Singly, NEW a \in Accounts, NEW c \in Accounts, NEW S \in SUBSET Book(a),
         NEW N, Exchange(a, S, c, N),
         \A n \in N : \/ \E s \in S : s.msg = n.msg
                      \/ \A b \in Accounts : \A x \in Book(b) : x.msg # n.msg,
         \A e, f \in N : e.msg = f.msg => e = f
  PROVE  Singly'
<1> SUFFICES ASSUME NEW b \in Accounts, NEW d \in Accounts,
                    NEW x \in Book(b)', NEW y \in Book(d)', x.msg = y.msg
             PROVE  b = d /\ x = y
  BY DEF Singly
<1> DEFINE Old(e, z) == z \in Book(e) /\ (e = a => z \notin S)
           New2(e, z) == e = c /\ z \in N
<1>1. (Old(b, x) \/ New2(b, x)) /\ (Old(d, y) \/ New2(d, y))
  BY DEF Exchange
<1>2. ASSUME NEW e \in Accounts, NEW z, Old(e, z), NEW n \in N, z.msg = n.msg
      PROVE  FALSE
  <2>1. PICK t \in S : t.msg = n.msg
    BY <1>2
  <2>2. e = a /\ z = t
    BY <1>2, <2>1 DEF Singly
  <2> QED
    BY <1>2, <2>1, <2>2
<1>3. CASE Old(b, x) /\ Old(d, y)
  BY <1>3 DEF Singly
<1>4. CASE New2(b, x) /\ New2(d, y)
  BY <1>4
<1> HIDE DEF Old
<1> QED
  BY <1>1, <1>2, <1>3, <1>4

LEMMA DirectedStep ==
  ASSUME Directed, NEW a \in Accounts, NEW c \in Accounts, NEW S, NEW N,
         Exchange(a, S, c, N),
         \A b \in Accounts : \A x \in Book(b) :
           addr'[x.msg] = addr[x.msg] /\ (b \in Channels => who'[b] = who[b]),
         \A n \in N : addr'[n.msg] = n.user /\ (c \in Channels => who'[c] = n.user)
  PROVE  Directed'
BY DEF Directed, Exchange

LEMMA SteadyInv ==
  ASSUME TypeOK, ListedIffOpen, BookInv, Steady
  PROVE  BookInv'
<1>1. \A a \in Accounts : Book(a)' = Book(a)
  BY DEF Steady, SameBooks, Book
<1>2. Singly'
  BY <1>1 DEF BookInv, Singly
<1>3. ASSUME UNCHANGED <<status, who>>,
             \A c \in Channels : conn'[c] = "connecting" => conn[c] = "connecting"
      PROVE  BookInv'
  BY <1>1, <1>2, <1>3 DEF BookInv, Directed, Fresh, Steady, SameBooks, Accounts
<1>4. ASSUME NEW c \in Channels, NEW u, Opens(c, u)
      PROVE  BookInv'
  <2>1. /\ status[c] = "unused"
        /\ \A a \in Accounts : status'[a] = IF a = c THEN "open" ELSE status[a]
        /\ \A a \in Channels \ {c} : who'[a] = who[a] /\ conn'[a] = conn[a]
    BY <1>4 DEF Opens, Clone, TypeOK, Accounts
  <2>2. Book(c) = {}
    BY <2>1 DEF BookInv, Fresh, Book
  <2>3. Directed'
    BY <1>1, <2>1, <2>2 DEF BookInv, Directed, Steady
  <2>4. Fresh'
    BY <2>1 DEF BookInv, Fresh, Steady, SameBooks, Accounts
  <2> QED
    BY <1>2, <2>3, <2>4 DEF BookInv
<1>5. ASSUME NEW a \in Accounts, FreeAccount(a)
      PROVE  BookInv'
  <2>1. /\ \A b \in Accounts : status'[b] = IF b = a THEN "freed" ELSE status[b]
        /\ \A b \in Accounts : conn'[b] = IF b = a THEN "closed" ELSE conn[b]
        /\ who' = who
    BY <1>5 DEF FreeAccount, TypeOK
  <2>2. Directed'
    BY <1>1, <2>1 DEF BookInv, Directed, Steady
  <2>3. Fresh'
    BY <2>1 DEF BookInv, Fresh, Steady, SameBooks, Accounts
  <2> QED
    BY <1>2, <2>2, <2>3 DEF BookInv
<1> QED
  BY <1>3, <1>4, <1>5 DEF Steady

LEMMA TypedInv ==
  ASSUME TypeOK, BookInv, NEW b \in Buddies, NEW m \in Messages, Typed(b, m)
  PROVE  BookInv'
<1>1. \A d \in Accounts : \A x \in Book(d) : x.msg # m
  BY BookType, ConstantAssumption DEF BookInv, Directed, Typed
<1>2. \A x : x # m => addr'[x] = addr[x]
  BY DEF Typed, TypeOK
<1>3. addr'[m] = b
  BY DEF Typed, TypeOK
<1>4. CASE SameBooks
  <2>1. \A d \in Accounts : Book(d)' = Book(d)
    BY <1>4 DEF SameBooks, Book
  <2> QED
    BY <1>1, <1>2, <1>4, <2>1 DEF BookInv, Singly, Directed, Fresh, Typed, SameBooks, Accounts
<1>5. ASSUME NEW a \in Accounts, a \in Channels => status[a] = "open" /\ who[a] = b,
             NEW T, NEW U, BookStep(a, {}, T, U), Puts(T, U, b, m)
      PROVE  BookInv'
  <2>1. Exchange(a, {}, a, T \cup U)
    BY <1>5 DEF Exchange, BookStep, Book
  <2>2. /\ \A n \in T \cup U : n.user = b /\ n.msg = m
        /\ \A e, f \in T \cup U : e = f
    BY <1>5 DEF Puts
  <2>3. Singly'
    BY <1>1, <2>1, <2>2, SinglyStep DEF BookInv
  <2>4. Directed'
    BY <1>1, <1>2, <1>3, <1>5, <2>1, <2>2, DirectedStep DEF BookInv, Typed
  <2>5. Fresh'
    BY <1>5 DEF BookInv, Fresh, Typed, BookStep, Accounts
  <2> QED
    BY <2>3, <2>4, <2>5 DEF BookInv
<1> QED
  BY <1>4, <1>5 DEF Typed

LEMMA MovedInv ==
  ASSUME TypeOK, BookInv, NEW a \in Accounts, Moved(a)
  PROVE  BookInv'
<1>1. PICK S \in SUBSET HeldIn(a) :
        /\ \A e, f \in S : e.user = f.user
        /\ \E T, U :
             /\ BookStep(a, S, T, U)
             /\ \/ T = {} /\ U = {}
                \/ U = {} /\ Copies(T, S)
                \/ T = {} /\ Copies(U, S)
  BY DEF Moved
<1>2. PICK T, U :
        /\ BookStep(a, S, T, U)
        /\ \/ T = {} /\ U = {}
           \/ U = {} /\ Copies(T, S)
           \/ T = {} /\ Copies(U, S)
  BY <1>1
<1> DEFINE N == T \cup U
<1>3. /\ \A n \in N : \E t \in S : t.msg = n.msg /\ t.user = n.user
      /\ \A e, f \in N : e.msg = f.msg => e = f
  BY <1>2 DEF Copies
<1>4. Exchange(a, S, a, N)
  BY <1>2, Disjoint DEF Exchange, BookStep, Book
<1>5. S \in SUBSET Book(a)
  BY DEF Book
<1> HIDE DEF N
<1>6. Singly'
  BY <1>3, <1>4, <1>5, SinglyStep DEF BookInv
<1>7. Directed'
  <2>1. \A n \in N : addr[n.msg] = n.user /\ (a \in Channels => who[a] = n.user)
    BY <1>3, <1>5 DEF BookInv, Directed
  <2> QED
    BY <1>4, <2>1, DirectedStep DEF BookInv, Moved
<1>8. Fresh'
  BY <1>2 DEF BookInv, Fresh, Moved, BookStep, Accounts
<1> QED
  BY <1>6, <1>7, <1>8 DEF BookInv

LEMMA GrantedInv ==
  ASSUME TypeOK, BookInv, NEW a \in Accounts, NEW c \in Channels, Granted(a, c)
  PROVE  BookInv'
<1>1. PICK e \in HeldIn(a) :
        /\ Opens(c, e.user)
        /\ HeldIn(a)' = HeldIn(a) \ {e}
        /\ \/ HeldIn(c)' = HeldIn(c)
           \/ \E f : /\ f.user = e.user /\ f.msg = e.msg
                     /\ HeldIn(c)' = HeldIn(c) \cup {f}
        /\ \A b \in Accounts \ {a, c} : HeldIn(b)' = HeldIn(b)
        /\ \A b \in Accounts : SentIn(b)' = SentIn(b)
  BY DEF Granted
<1>2. PICK N : /\ HeldIn(c)' = HeldIn(c) \cup N
               /\ \A f \in N : f.user = e.user /\ f.msg = e.msg
               /\ \A f, g \in N : f = g
  <2> DEFINE Grown(N) == /\ HeldIn(c)' = HeldIn(c) \cup N
                         /\ \A f \in N : f.user = e.user /\ f.msg = e.msg
                         /\ \A f, g \in N : f = g
  <2>1. HeldIn(c)' = HeldIn(c) => Grown({})
    OBVIOUS
  <2>2. ASSUME NEW f, f.user = e.user, f.msg = e.msg, HeldIn(c)' = HeldIn(c) \cup {f}
        PROVE  Grown({f})
    BY <2>2
  <2> HIDE DEF Grown
  <2>3. \E N : Grown(N)
    BY <1>1, <2>1, <2>2
  <2> QED
    BY <2>3 DEF Grown
<1>3. /\ status[c] = "unused" /\ a # c /\ c \in Accounts
      /\ \A b \in Accounts : status'[b] = IF b = c THEN "open" ELSE status[b]
      /\ \A b \in Channels \ {c} : who'[b] = who[b] /\ conn'[b] = conn[b]
      /\ who'[c] = e.user
  BY <1>1 DEF Granted, Opens, Clone, TypeOK, Accounts
<1>4. e \in Book(a) /\ Book(c) = {}
  BY <1>3 DEF BookInv, Fresh, Book
<1>5. Exchange(a, {e}, c, N)
  BY <1>1, <1>2, <1>3, Disjoint DEF Exchange, Book
<1>6. Singly'
  BY <1>2, <1>3, <1>4, <1>5, SinglyStep DEF BookInv
<1>7. Directed'
  <2>1. \A n \in N : addr'[n.msg] = n.user /\ who'[c] = n.user
    BY <1>2, <1>3, <1>4 DEF BookInv, Directed, Granted
  <2>2. \A b \in Accounts : \A x \in Book(b) :
          addr'[x.msg] = addr[x.msg] /\ (b \in Channels => who'[b] = who[b])
    BY <1>3, <1>4 DEF Granted
  <2> QED
    BY <1>3, <1>5, <2>1, <2>2, DirectedStep DEF BookInv
<1>8. Fresh'
  BY <1>1, <1>3 DEF BookInv, Fresh, Granted, Accounts
<1> QED
  BY <1>6, <1>7, <1>8 DEF BookInv

-----------------------------------------------------------------------------
(* Every action is one of these steps                                      *)

CarriersAmong(base) == {t \in base : t.kind \in {"StartChat", "Register", "Invite"}}

(* fetion_message_send: what the answered transaction carried goes, and    *)
(* the text waits, is sent or is dropped.                                  *)
LEMMA MessageSendBook ==
  ASSUME TypeOK, NEW a \in Accounts, NEW u \in Buddies, NEW m \in Messages,
         NEW base \in SUBSET trans[a], MessageSend(a, u, m, base), UNCHANGED pend,
         NEW S \in SUBSET CarriedIn(a),
         {EntryOf(t) : t \in CarriersAmong(base)} = CarriedIn(a) \ S
  PROVE  \E T, U : BookStep(a, S, T, U) /\ Puts(T, U, u, m)
<1> DEFINE x == [user |-> u, msg |-> m]
<1>1. x \in Texts /\ x.user = u /\ x.msg = m
  BY DEF Texts
<1> HIDE DEF x
<1>2. ASSUME NEW R, trans' = [trans EXCEPT ![a] = base \cup R],
             \A t \in R : t.kind = "Sms"
      PROVE  /\ CarriedIn(a)' = CarriedIn(a) \ S
             /\ \A b \in Accounts \ {a} : CarriedIn(b)' = CarriedIn(b)
  <2>1. Carriers(a)' = CarriersAmong(base)
    BY <1>2 DEF Carriers, CarriersAmong, TypeOK
  <2>2. \A b \in Accounts \ {a} : Carriers(b)' = Carriers(b)
    BY <1>2 DEF Carriers, TypeOK
  <2> QED
    BY <2>1, <2>2, SameEntries DEF CarriedIn
<1>3. PendingIn(a)' = PendingIn(a)
  BY SameEntries
<1>4. S \cap (WaitingIn(a) \cup PendingIn(a)) = {}
  BY CarriedEntries, WaitingEntries, PendingEntries
<1>5. CASE Drop(a, base)
  <2>1. /\ trans' = [trans EXCEPT ![a] = base \cup {}]
        /\ UNCHANGED <<wait, emitted>>
    BY <1>5 DEF Drop
  <2>2. /\ CarriedIn(a)' = CarriedIn(a) \ S
        /\ \A b \in Accounts \ {a} : CarriedIn(b)' = CarriedIn(b)
    <3> DEFINE R == {}
    <3>1. trans' = [trans EXCEPT ![a] = base \cup R] /\ \A t \in R : t.kind = "Sms"
      BY <2>1
    <3> HIDE DEF R
    <3> QED
      BY <1>2, <3>1
  <2>3. \A b \in Accounts : /\ WaitingIn(b)' = WaitingIn(b)
                            /\ PendingIn(b)' = PendingIn(b)
                            /\ SentIn(b)' = SentIn(b)
    BY <2>1, SameEntries
  <2>4. BookStep(a, S, {}, {})
    BY <1>4, <2>2, <2>3 DEF BookStep, HeldIn
  <2> QED
    BY <2>4 DEF Puts
<1>6. CASE Hold(a, u, m, base)
  <2> DEFINE e == Entry("waiting", Len(wait[a]) + 1, x.user, x.msg)
  <2>1. /\ trans' = [trans EXCEPT ![a] = base \cup {}]
        /\ UNCHANGED emitted
        /\ wait' = [wait EXCEPT ![a] = Append(@, x)]
    BY <1>6 DEF Hold, x
  <2>2. /\ CarriedIn(a)' = CarriedIn(a) \ S
        /\ \A b \in Accounts \ {a} : CarriedIn(b)' = CarriedIn(b)
    <3> DEFINE R == {}
    <3>1. trans' = [trans EXCEPT ![a] = base \cup R] /\ \A t \in R : t.kind = "Sms"
      BY <2>1
    <3> HIDE DEF R
    <3> QED
      BY <1>2, <3>1
  <2>3. WaitingIn(a)' = WaitingIn(a) \cup {e}
    BY <1>1, <2>1, WaitingEnters DEF TypeOK
  <2>4. \A b \in Accounts : PendingIn(b)' = PendingIn(b) /\ SentIn(b)' = SentIn(b)
    BY <2>1, SameEntries
  <2>5. \A b \in Accounts \ {a} : WaitingIn(b)' = WaitingIn(b)
    BY <2>1, SameEntries DEF TypeOK
  <2>6. e.user = u /\ e.msg = m
    BY <1>1, EntryFields
  <2> HIDE DEF e
  <2>7. BookStep(a, S, {e}, {})
    BY <1>4, <2>2, <2>3, <2>4, <2>5 DEF BookStep, HeldIn
  <2> QED
    BY <2>6, <2>7 DEF Puts
<1>7. CASE Emit(a, u, m, base)
  <2> DEFINE e == Entry("sent", Len(emitted[a]) + 1, x.user, x.msg)
             R == {Transaction(callid, "Sms", u, m)}
  <2>1. /\ trans' = [trans EXCEPT ![a] = base \cup R]
        /\ UNCHANGED wait
        /\ emitted' = [emitted EXCEPT ![a] = Append(@, x)]
    BY <1>7 DEF Emit, Request, x
  <2>2. \A t \in R : t.kind = "Sms"
    BY DEF Transaction
  <2> HIDE DEF R
  <2>3. /\ CarriedIn(a)' = CarriedIn(a) \ S
        /\ \A b \in Accounts \ {a} : CarriedIn(b)' = CarriedIn(b)
    BY <1>2, <2>1, <2>2
  <2>4. SentIn(a)' = SentIn(a) \cup {e}
    BY <1>1, <2>1, SentEnters DEF TypeOK
  <2>5. \A b \in Accounts : PendingIn(b)' = PendingIn(b) /\ WaitingIn(b)' = WaitingIn(b)
    BY <2>1, SameEntries
  <2>6. \A b \in Accounts \ {a} : SentIn(b)' = SentIn(b)
    BY <2>1, SameEntries DEF TypeOK
  <2>7. e.user = u /\ e.msg = m
    BY <1>1, EntryFields
  <2> HIDE DEF e
  <2>8. BookStep(a, S, {}, {e})
    BY <1>4, <2>3, <2>4, <2>5, <2>6 DEF BookStep, HeldIn
  <2> QED
    BY <2>7, <2>8 DEF Puts
<1> QED
  BY <1>5, <1>6, <1>7 DEF MessageSend

(* A new transaction of a kind that carries a text.                        *)
LEMMA ChatSendTyped ==
  ASSUME TypeOK, ListedIffOpen, NEW b \in Buddies, NEW m \in Messages, ChatSend(b, m)
  PROVE  Typed(b, m)
<1>1. /\ addr[m] = None /\ addr' = [addr EXCEPT ![m] = b]
      /\ UNCHANGED <<status, who, conn, pend>>
  BY DEF ChatSend, accountVars
<1>2. \A a \in Accounts : /\ trans[a] \in SUBSET trans[a]
                          /\ {} \in SUBSET CarriedIn(a)
                          /\ {EntryOf(t) : t \in CarriersAmong(trans[a])} = CarriedIn(a) \ {}
  BY DEF CarriedIn, Carriers, CarriersAmong
<1>3. CASE SendOnMain(b, m)
  <2>1. Main \in Accounts /\ Main \notin Channels
    BY ConstantAssumption DEF Accounts
  <2>2. MessageSend(Main, b, m, trans[Main])
    BY <1>3 DEF SendOnMain
  <2>3. \E T, U : BookStep(Main, {}, T, U) /\ Puts(T, U, b, m)
    BY <1>1, <1>2, <2>1, <2>2, MessageSendBook
  <2> QED
    BY <1>1, <2>1, <2>3 DEF Typed
<1>4. CASE SendOnChannel(b, m)
  <2>1. PICK i \in DOMAIN channel_list :
          ChannelFor(b, i)
          /\ MessageSend(channel_list[i], who[channel_list[i]], m, trans[channel_list[i]])
    BY <1>4 DEF SendOnChannel
  <2> DEFINE c == channel_list[i]
  <2>2. c \in Channels /\ c \in Accounts /\ status[c] = "open" /\ who[c] = b
    BY <2>1 DEF TypeOK, Accounts, ListedIffOpen, Listed, ChannelFor
  <2>3. MessageSend(c, b, m, trans[c])
    BY <2>1, <2>2
  <2> HIDE DEF c
  <2>4. \E T, U : BookStep(c, {}, T, U) /\ Puts(T, U, b, m)
    BY <1>1, <1>2, <2>2, <2>3, MessageSendBook
  <2> QED
    BY <1>1, <2>2, <2>4 DEF Typed
<1>5. CASE StartChat(b, m)
  <2> DEFINE t == Transaction(callid, "StartChat", b, m)
  <2>1. /\ trans' = [trans EXCEPT ![Main] = @ \cup {t}]
        /\ UNCHANGED <<wait, emitted>>
    BY <1>5 DEF StartChat, Request
  <2>2. t.kind = "StartChat" /\ t.user = b /\ t.msg = m
    BY DEF Transaction
  <2> HIDE DEF t
  <2>3. Main \in Accounts /\ Main \notin Channels
    BY ConstantAssumption DEF Accounts
  <2>4. Carriers(Main)' = Carriers(Main) \cup {t}
    BY <2>1, <2>2, <2>3 DEF Carriers, TypeOK
  <2>5. CarriedIn(Main)' = CarriedIn(Main) \cup {EntryOf(t)}
    <3>1. CarriedIn(Main)' = CarriedIn(Main) \cup {EntryOf(r) : r \in {t}}
      BY <2>4, CarriedEnters
    <3> QED
      BY <3>1
  <2>6. \A a \in Accounts : /\ WaitingIn(a)' = WaitingIn(a)
                            /\ PendingIn(a)' = PendingIn(a)
                            /\ SentIn(a)' = SentIn(a)
    BY <1>1, <2>1, SameEntries
  <2>7. \A a \in Accounts \ {Main} : CarriedIn(a)' = CarriedIn(a)
    BY <2>1, SameEntries DEF Carriers, TypeOK
  <2>8. BookStep(Main, {}, {EntryOf(t)}, {})
    BY <2>3, <2>5, <2>6, <2>7 DEF BookStep, HeldIn
  <2>9. EntryOf(t).user = b /\ EntryOf(t).msg = m
    BY <2>2, CarriedEntries
  <2>10. Puts({EntryOf(t)}, {}, b, m)
    BY <2>9 DEF Puts
  <2> QED
    BY <1>1, <2>3, <2>8, <2>10 DEF Typed
<1> QED
  BY <1>3, <1>4, <1>5 DEF ChatSend

LEMMA PutsMoved ==
  ASSUME NEW a \in Accounts, NEW e \in HeldIn(a), status[a] = "open",
         UNCHANGED <<status, who, addr, conn>>,
         \E T, U : BookStep(a, {e}, T, U) /\ Puts(T, U, e.user, e.msg)
  PROVE  Moved(a)
<1>1. PICK T, U : BookStep(a, {e}, T, U) /\ Puts(T, U, e.user, e.msg)
  OBVIOUS
<1>2. \/ T = {} /\ U = {}
      \/ U = {} /\ Copies(T, {e})
      \/ T = {} /\ Copies(U, {e})
  BY <1>1 DEF Puts, Copies
<1> QED
  BY <1>1, <1>2 DEF Moved

(* A carrying transaction is answered, and R takes its place.              *)
LEMMA AnsweredBook ==
  ASSUME TypeOK, CallidUnique, NEW a \in Accounts, NEW t \in Carriers(a),
         NEW R, trans' = [trans EXCEPT ![a] = Answered(a, t) \cup R],
         \A r \in R : r.kind \in {"StartChat", "Register", "Invite"},
         UNCHANGED <<wait, pend, emitted>>
  PROVE  /\ EntryOf(t) \in HeldIn(a)
         /\ BookStep(a, {EntryOf(t)}, {EntryOf(r) : r \in R}, {})
<1>1. Carriers(a)' = (Carriers(a) \ {t}) \cup R
  BY DEF Carriers, Answered, TypeOK
<1>2. /\ EntryOf(t) \in CarriedIn(a)
      /\ CarriedIn(a)' = (CarriedIn(a) \ {EntryOf(t)}) \cup {EntryOf(r) : r \in R}
  BY <1>1, CarriedLeaves
<1> DEFINE T == {EntryOf(r) : r \in R}
<1> HIDE DEF T
<1>3. CarriedIn(a)' = (CarriedIn(a) \ {EntryOf(t)}) \cup T
  BY <1>2 DEF T
<1>4. \A b \in Accounts : /\ WaitingIn(b)' = WaitingIn(b)
                          /\ PendingIn(b)' = PendingIn(b)
                          /\ SentIn(b)' = SentIn(b)
  BY SameEntries
<1>5. \A b \in Accounts \ {a} : CarriedIn(b)' = CarriedIn(b)
  BY SameEntries DEF Carriers, TypeOK
<1>6. EntryOf(t) \notin WaitingIn(a) \cup PendingIn(a)
  BY CarriedEntries, WaitingEntries, PendingEntries
<1>7. BookStep(a, {EntryOf(t)}, T, {})
  BY <1>3, <1>4, <1>5, <1>6 DEF BookStep, HeldIn
<1> QED
  BY <1>2, <1>7 DEF HeldIn, T

(* new_chat_cb without endpoint or credential, and chat_reg_cb.            *)
LEMMA RefusedMoved ==
  ASSUME TypeOK, CallidUnique, NEW a \in Accounts, NEW t \in Carriers(a),
         status[a] = "open", UNCHANGED addr,
         StartChatRefused(a, t) \/ Registered(a, t)
  PROVE  Moved(a)
<1>1. UNCHANGED <<status, who, addr, conn>> /\ UNCHANGED <<wait, pend, emitted>>
  BY DEF StartChatRefused, Registered, accountVars
<1>2. EntryOf(t).user = t.user /\ EntryOf(t).msg = t.msg
  BY CarriedEntries
<1>3. CASE trans' = [trans EXCEPT ![a] = Answered(a, t)]
  <2> DEFINE R == {}
  <2>1. /\ trans' = [trans EXCEPT ![a] = Answered(a, t) \cup R] /\ R = {}
        /\ \A r \in R : r.kind \in {"StartChat", "Register", "Invite"}
    BY <1>3
  <2> HIDE DEF R
  <2>2. EntryOf(t) \in HeldIn(a) /\ BookStep(a, {EntryOf(t)}, {EntryOf(r) : r \in R}, {})
    BY <1>1, <2>1, AnsweredBook
  <2>3. BookStep(a, {EntryOf(t)}, {}, {})
    BY <2>1, <2>2
  <2> QED
    BY <1>1, <2>2, <2>3, PutsMoved DEF Puts
<1>4. CASE Request(a, Answered(a, t), "Invite", t.user, t.msg)
  <2> DEFINE r == Transaction(callid, "Invite", t.user, t.msg)
  <2>1. trans' = [trans EXCEPT ![a] = Answered(a, t) \cup {r}]
    BY <1>4 DEF Request
  <2>2. r.kind = "Invite" /\ r.user = t.user /\ r.msg = t.msg
    BY DEF Transaction
  <2> HIDE DEF r
  <2>3. EntryOf(t) \in HeldIn(a) /\ BookStep(a, {EntryOf(t)}, {EntryOf(x) : x \in {r}}, {})
    BY <1>1, <2>1, <2>2, AnsweredBook
  <2>4. BookStep(a, {EntryOf(t)}, {EntryOf(r)}, {})
    BY <2>3
  <2>5. Puts({EntryOf(r)}, {}, t.user, t.msg)
    BY <2>2, CarriedEntries DEF Puts
  <2> QED
    BY <1>1, <1>2, <2>3, <2>4, <2>5, PutsMoved
<1> QED
  BY <1>3, <1>4 DEF StartChatRefused, Registered

(* invite_buddy_cb.                                                        *)
LEMMA InvitedMoved ==
  ASSUME TypeOK, CallidUnique, NEW a \in Accounts, NEW t \in Carriers(a),
         status[a] = "open", UNCHANGED addr, Invited(a, t)
  PROVE  Moved(a)
<1>1. UNCHANGED <<status, who, addr, conn>> /\ UNCHANGED pend
  BY DEF Invited, accountVars
<1>2. /\ EntryOf(t).user = t.user /\ EntryOf(t).msg = t.msg
      /\ EntryOf(t) \in CarriedIn(a) /\ EntryOf(t) \in HeldIn(a)
  BY CarriedEntries DEF HeldIn
<1>3. t.user \in Buddies /\ t.msg \in Messages
  BY DEF Carriers, TypeOK, Transactions, TextTransactions, KeepAliveTransactions
<1>4. Answered(a, t) \in SUBSET trans[a]
  BY DEF Answered
<1>5. {EntryOf(u) : u \in CarriersAmong(Answered(a, t))} = CarriedIn(a) \ {EntryOf(t)}
  <2>1. ASSUME NEW u \in Carriers(a), EntryOf(u) = EntryOf(t)
        PROVE  u = t
    <3>1. u.callid = t.callid
      BY <2>1, CarriedEntries
    <3>2. u \in trans[a] /\ t \in trans[a]
      BY DEF Carriers
    <3> QED
      BY <3>1, <3>2 DEF CallidUnique
  <2>2. CarriersAmong(Answered(a, t)) = Carriers(a) \ {t}
    BY DEF CarriersAmong, Carriers, Answered
  <2> QED
    BY <2>1, <2>2 DEF CarriedIn
<1>6. MessageSend(a, t.user, t.msg, Answered(a, t))
  BY DEF Invited
<1> DEFINE S == {EntryOf(t)}
           base == Answered(a, t)
           u == t.user
           m == t.msg
<1>7. \E T, U : BookStep(a, S, T, U) /\ Puts(T, U, u, m)
  <2>1. /\ u \in Buddies /\ m \in Messages /\ base \in SUBSET trans[a]
        /\ MessageSend(a, u, m, base) /\ UNCHANGED pend
        /\ S \in SUBSET CarriedIn(a)
        /\ {EntryOf(x) : x \in CarriersAmong(base)} = CarriedIn(a) \ S
    BY <1>1, <1>2, <1>3, <1>4, <1>5, <1>6
  <2> HIDE DEF S, base, u, m
  <2> QED
    BY <2>1, MessageSendBook
<1> QED
  BY <1>1, <1>2, <1>7, PutsMoved

(* A reply or a timer ends a transaction that carries nothing, and keep    *)
(* alive rounds add some.                                                  *)
LEMMA SameCarriers ==
  ASSUME TypeOK, \A a \in Accounts : Carriers(a)' = Carriers(a),
         UNCHANGED <<wait, pend, emitted>>
  PROVE  SameBooks
BY SameBook DEF SameBooks, Accounts

LEMMA NotCarried ==
  ASSUME TypeOK, NEW a \in Accounts, NEW t \in trans[a], t.kind \in {"Sms", "KeepAlive"},
         trans' = [trans EXCEPT ![a] = Answered(a, t)], UNCHANGED <<wait, pend, emitted>>
  PROVE  SameBooks
<1>1. \A b \in Accounts : Carriers(b)' = Carriers(b)
  BY DEF Carriers, Answered, TypeOK
<1> QED
  BY <1>1, SameCarriers

LEMMA KeepAliveSteady ==
  ASSUME TypeOK, KeepAlive
  PROVE  Steady
<1>1. UNCHANGED <<wait, pend, emitted, addr, status, who, conn>>
  BY DEF KeepAlive, accountVars, historyVars
<1>2. \A b \in Accounts : Carriers(b)' = Carriers(b)
  <2>1. CASE KeepAliveAll
    <3>1. \A b \in Accounts :
            /\ trans[b] \subseteq trans'[b]
            /\ \A t \in trans'[b] \ trans[b] : t.kind = "KeepAlive"
      BY <2>1 DEF KeepAliveAll, Transaction
    <3> QED
      BY <3>1 DEF Carriers
  <2>2. CASE KeepAliveFails
    <3> DEFINE r == Transaction(callid, "KeepAlive", None, None)
    <3>1. trans' = [trans EXCEPT ![Main] = @ \cup {r}] /\ r.kind = "KeepAlive"
      BY <2>2 DEF KeepAliveFails, Request, Transaction
    <3> HIDE DEF r
    <3> QED
      BY <3>1 DEF Carriers, TypeOK
  <2> QED
    BY <2>1, <2>2 DEF KeepAlive
<1> QED
  BY <1>1, <1>2, SameCarriers DEF Steady

(* fetion_account_clone, and the connect that carries the text, if any.    *)
LEMMA InviteSteady ==
  ASSUME TypeOK, NEW a \in Accounts, NEW b \in Buddies, NEW c \in Channels,
         InviteReceived(a, b, c), Fresh
  PROVE  Steady
<1>1. /\ Clone(c, b) /\ ProxyConnect(c, {}, trans)
      /\ UNCHANGED <<wait, emitted, addr>>
  BY DEF InviteReceived, historyVars
<1>2. status[c] = "unused" /\ HeldIn(c) = {}
  BY <1>1 DEF Clone, Fresh
<1>3. /\ trans' = trans
      /\ \A d \in Channels \ {c} : conn'[d] = conn[d] /\ pend'[d] = pend[d]
      /\ pend'[c] = pend[c] \/ pend'[c] = {}
  <2>1. CASE ConnectFails(trans)
    BY <2>1 DEF ConnectFails
  <2>2. CASE ConnectWaits(c, {}, trans)
    BY <2>2 DEF ConnectWaits, TypeOK, Accounts
  <2>3. CASE ConnectAtOnce(c, {}, trans)
    <3>1. trans' = [trans EXCEPT ![c] = @ \cup {}]
      BY <2>3 DEF ConnectAtOnce, RegisterOn
    <3>2. trans' = trans
      BY <3>1 DEF TypeOK
    <3> QED
      BY <2>3, <3>2 DEF ConnectAtOnce, TypeOK, Accounts
  <2> QED
    BY <1>1, <2>1, <2>2, <2>3 DEF ProxyConnect
<1>4. pend' = pend
  <2>1. PendingIn(c) = {}
    BY <1>2 DEF HeldIn
  <2>2. pend[c] = {}
    BY <2>1, PendingEntries
  <2>3. \A d \in Channels : pend'[d] = pend[d]
    BY <1>3, <2>2
  <2>4. CASE ConnectFails(trans) \/ ConnectAtOnce(c, {}, trans)
    BY <2>4 DEF ConnectFails, ConnectAtOnce
  <2>5. CASE ConnectWaits(c, {}, trans)
    BY <2>2, <2>5 DEF ConnectWaits, TypeOK
  <2> QED
    BY <1>1, <2>4, <2>5 DEF ProxyConnect
<1>5. SameBooks
  BY <1>1, <1>3, <1>4, SameCarriers DEF Carriers
<1> QED
  BY <1>1, <1>3, <1>5 DEF Steady, Opens

LEMMA GrantedBook ==
  ASSUME TypeOK, CallidUnique, BookInv, NEW a \in Accounts, NEW t \in Carriers(a),
         status[a] = "open", UNCHANGED addr, StartChatGranted(a, t)
  PROVE  \E c \in Channels : Granted(a, c)
<1> DEFINE base == [trans EXCEPT ![a] = Answered(a, t)]
           x == [user |-> t.user, msg |-> t.msg]
           e == EntryOf(t)
<1>1. PICK c \in Channels :
        /\ Clone(c, t.user) /\ ProxyConnect(c, {x}, base)
        /\ UNCHANGED <<wait, timers, emitted>>
  BY DEF StartChatGranted
<1>2. /\ status[c] = "unused" /\ a # c /\ c \in Accounts
      /\ HeldIn(c) = {} /\ CarriedIn(c) = {} /\ WaitingIn(c) = {} /\ PendingIn(c) = {}
  BY <1>1 DEF Clone, BookInv, Fresh, Accounts, HeldIn
<1>3. Carriers(c) = {} /\ pend[c] = {}
  BY <1>2, CarriedEntries, PendingEntries
<1>4. e.user = t.user /\ e.msg = t.msg /\ x.user = t.user /\ x.msg = t.msg
  BY CarriedEntries
<1>5. /\ base \in [Accounts -> SUBSET Transactions]
      /\ \A b \in Accounts : base[b] = IF b = a THEN Answered(a, t) ELSE trans[b]
  BY DEF Answered, TypeOK
<1> HIDE DEF base, x
<1>6. \A b \in Accounts : SentIn(b)' = SentIn(b) /\ WaitingIn(b)' = WaitingIn(b)
  BY <1>1, SameEntries
<1>7. \A b \in Channels \ {c} : conn'[b] = conn[b] /\ pend'[b] = pend[b]
  BY <1>1 DEF ProxyConnect, ConnectFails, ConnectWaits, ConnectAtOnce, TypeOK, Accounts
<1>8. \A b \in Accounts \ {c} : trans'[b] = base[b]
  BY <1>1, <1>5 DEF ProxyConnect, ConnectFails, ConnectWaits, ConnectAtOnce, RegisterOn
<1>9. e \in HeldIn(a) /\ HeldIn(a)' = HeldIn(a) \ {e}
  <2> DEFINE R == {}
  <2>1. R = {} /\ Carriers(a)' = (Carriers(a) \ {t}) \cup R
    BY <1>2, <1>5, <1>8 DEF Carriers, Answered
  <2> HIDE DEF R
  <2>2. /\ e \in CarriedIn(a)
        /\ CarriedIn(a)' = (CarriedIn(a) \ {e}) \cup {EntryOf(r) : r \in R}
    BY <2>1, CarriedLeaves
  <2>3. CarriedIn(a)' = CarriedIn(a) \ {e}
    BY <2>1, <2>2
  <2>4. PendingIn(a)' = PendingIn(a)
    BY <1>2, <1>7, SameEntries
  <2>5. e \notin WaitingIn(a) \cup PendingIn(a)
    BY CarriedEntries, WaitingEntries, PendingEntries
  <2> QED
    BY <1>6, <2>2, <2>3, <2>4, <2>5 DEF HeldIn
<1>10. \A b \in Accounts \ {a, c} : HeldIn(b)' = HeldIn(b)
  <2>1. ASSUME NEW b \in Accounts \ {a, c}
        PROVE  HeldIn(b)' = HeldIn(b)
    <3>1. Carriers(b)' = Carriers(b)
      BY <1>5, <1>8 DEF Carriers
    <3>2. CarriedIn(b)' = CarriedIn(b) /\ PendingIn(b)' = PendingIn(b)
      BY <1>7, <3>1, SameEntries
    <3> QED
      BY <1>6, <3>2 DEF HeldIn
  <2> QED
    BY <2>1
<1>11. \/ HeldIn(c)' = HeldIn(c)
       \/ \E f : /\ f.user = e.user /\ f.msg = e.msg
                 /\ HeldIn(c)' = HeldIn(c) \cup {f}
  <2>1. CASE ConnectFails(base)
    <3>1. pend'[c] = pend[c] /\ Carriers(c)' = Carriers(c)
      BY <1>2, <1>5, <2>1 DEF ConnectFails, Carriers
    <3>2. CarriedIn(c)' = CarriedIn(c) /\ PendingIn(c)' = PendingIn(c)
      BY <3>1, SameEntries
    <3> QED
      BY <1>2, <1>6, <3>2 DEF HeldIn
  <2>2. CASE ConnectWaits(c, {x}, base)
    <3>1. pend'[c] = {x} /\ Carriers(c)' = Carriers(c)
      BY <1>2, <1>5, <2>2 DEF ConnectWaits, Carriers, TypeOK
    <3>2. PendingIn(c)' = {PendingEntry(x)}
      BY <3>1 DEF PendingIn, PendingEntry
    <3>3. CarriedIn(c)' = CarriedIn(c)
      BY <3>1, SameEntries
    <3>4. HeldIn(c)' = HeldIn(c) \cup {PendingEntry(x)}
      BY <1>2, <1>6, <3>2, <3>3 DEF HeldIn
    <3>5. PendingEntry(x).user = e.user /\ PendingEntry(x).msg = e.msg
      BY <1>4, PendingEntries
    <3> QED
      BY <3>4, <3>5
  <2>3. CASE ConnectAtOnce(c, {x}, base)
    <3> DEFINE r == Transaction(callid, "Register", x.user, x.msg)
    <3>1. trans' = [base EXCEPT ![c] = @ \cup {r}] /\ pend' = pend
      BY <2>3 DEF ConnectAtOnce, RegisterOn
    <3>2. r.kind = "Register" /\ r.user = x.user /\ r.msg = x.msg
      BY DEF Transaction
    <3> HIDE DEF r
    <3>3. Carriers(c)' = Carriers(c) \cup {r}
      BY <1>2, <1>5, <3>1, <3>2 DEF Carriers
    <3>4. Carriers(c)' = {r} /\ PendingIn(c)' = PendingIn(c)
      BY <1>3, <3>1, <3>3, SameEntries
    <3>5. CarriedIn(c)' = {EntryOf(r)}
      BY <3>4 DEF CarriedIn
    <3>6. HeldIn(c)' = HeldIn(c) \cup {EntryOf(r)}
      BY <1>2, <1>6, <3>4, <3>5 DEF HeldIn
    <3>7. EntryOf(r).user = e.user /\ EntryOf(r).msg = e.msg
      BY <1>4, <3>2, CarriedEntries
    <3> QED
      BY <3>6, <3>7
  <2> QED
    BY <1>1, <2>1, <2>2, <2>3 DEF ProxyConnect
<1>12. Opens(c, e.user)
  BY <1>1, <1>4, <1>7 DEF Opens
<1> HIDE DEF e
<1> QED
  BY <1>6, <1>9, <1>10, <1>11, <1>12 DEF Granted

(* The text of a pending connect goes on to the Register transaction.      *)
LEMMA ConnectDoneMoved ==
  ASSUME TypeOK, BookInv, NEW c \in Channels, NEW e \in BOOLEAN, NEW s \in BOOLEAN,
         ConnectDone(c, e, s)
  PROVE  Moved(c)
<1> DEFINE r(t) == Transaction(callid, "Register", t.user, t.msg)
           R == {r(t) : t \in pend[c]}
           T == {EntryOf(v) : v \in R}
           S == PendingIn(c)
<1>1. /\ status[c] = "open" /\ c \in Accounts
      /\ UNCHANGED <<status, who, addr, wait, emitted>>
      /\ \A d \in Channels : conn'[d] = "connecting" => conn[d] = "connecting"
  BY DEF ConnectDone, BookInv, Fresh, historyVars, Accounts, TypeOK
<1>2. /\ trans' = [trans EXCEPT ![c] = @ \cup R]
      /\ pend' = [pend EXCEPT ![c] = {}]
  BY DEF ConnectDone, RegisterOn
<1>3. \A t : r(t).kind = "Register" /\ r(t).user = t.user /\ r(t).msg = t.msg
             /\ r(t).callid = callid
  BY DEF Transaction
<1>4. \A t : EntryOf(r(t)).user = t.user /\ EntryOf(r(t)).msg = t.msg
  BY <1>3, CarriedEntries
<1>5. \A v \in T : \E t \in pend[c] : v = EntryOf(r(t))
  OBVIOUS
<1>6. \A t \in pend[c] : EntryOf(r(t)) \in T
  OBVIOUS
<1>7. \A t, v : t.user = v.user /\ t.msg = v.msg => r(t) = r(v)
  OBVIOUS
<1>8. \A v \in R : v.kind = "Register"
  BY <1>3
<1> HIDE DEF r, T
<1>9. \A f \in S : \E t \in pend[c] : f = PendingEntry(t) /\ f.user = t.user /\ f.msg = t.msg
  BY PendingEntries
<1>10. \A t \in pend[c] : \E f \in S : f.user = t.user /\ f.msg = t.msg
  BY PendingEntries
<1>11. S \in SUBSET HeldIn(c) /\ S \in SUBSET Book(c)
  BY DEF HeldIn, Book
<1>12. \A f, g \in S : f.user = g.user /\ (f.msg = g.msg => f = g)
  BY <1>1, <1>11 DEF BookInv, Directed, Singly
<1>13. Copies(T, S)
  <2>1. \A v \in T : \E f \in S : v.user = f.user /\ v.msg = f.msg
    BY <1>4, <1>5, <1>10
  <2>2. \A f \in S : \E v \in T : v.user = f.user /\ v.msg = f.msg
    BY <1>4, <1>6, <1>9
  <2>3. ASSUME NEW v \in T, NEW w \in T, v.msg = w.msg
        PROVE  v = w
    <3>1. PICK t \in pend[c] : v = EntryOf(r(t))
      BY <1>5
    <3>2. PICK u \in pend[c] : w = EntryOf(r(u))
      BY <1>5
    <3>3. t.msg = u.msg
      BY <1>4, <2>3, <3>1, <3>2
    <3>4. t.user = u.user
      BY <1>10, <1>12
    <3>5. r(t) = r(u)
      BY <1>7, <3>3, <3>4
    <3> QED
      BY <3>1, <3>2, <3>5
  <2> QED
    BY <2>1, <2>2, <2>3 DEF Copies
<1>14. Carriers(c)' = Carriers(c) \cup R
  BY <1>1, <1>2, <1>8 DEF Carriers, TypeOK
<1> HIDE DEF R
<1>15. CarriedIn(c)' = CarriedIn(c) \cup T
  BY <1>14, CarriedEnters DEF T
<1>16. PendingIn(c)' = {}
  BY <1>2 DEF PendingIn, TypeOK
<1>17. \A b \in Accounts : WaitingIn(b)' = WaitingIn(b) /\ SentIn(b)' = SentIn(b)
  BY <1>1, SameEntries
<1>18. \A b \in Accounts \ {c} : HeldIn(b)' = HeldIn(b)
  <2>1. \A b \in Accounts \ {c} : /\ Carriers(b)' = Carriers(b)
                                  /\ wait'[b] = wait[b] /\ emitted'[b] = emitted[b]
                                  /\ b \in Channels => pend'[b] = pend[b]
    BY <1>1, <1>2 DEF Carriers, TypeOK
  <2> QED
    BY <2>1, SameBook
<1>19. S \cap (CarriedIn(c) \cup WaitingIn(c)) = {}
  BY CarriedEntries, WaitingEntries, PendingEntries
<1>20. BookStep(c, S, T, {})
  BY <1>1, <1>15, <1>16, <1>17, <1>18, <1>19 DEF BookStep, HeldIn
<1> HIDE DEF S
<1> QED
  BY <1>1, <1>11, <1>12, <1>13, <1>20 DEF Moved

(* process_enter_cb sends all that waits, or, once the buddies are freed,  *)
(* loses it.                                                               *)
LEMMA UserEnteredMoved ==
  ASSUME TypeOK, BookInv, NEW c \in Channels, UserEntered(c)
  PROVE  Moved(c)
<1> DEFINE S == WaitingIn(c)
<1>1. /\ status[c] = "open" /\ c \in Accounts
      /\ UNCHANGED <<status, who, addr, conn, pend>>
      /\ wait' = [wait EXCEPT ![c] = <<>>]
  BY DEF UserEntered, Listening, Accounts
<1>2. WaitingIn(c)' = {}
  BY <1>1 DEF WaitingIn, TypeOK
<1>3. S \in SUBSET HeldIn(c) /\ S \in SUBSET Book(c)
  BY DEF HeldIn, Book
<1>4. \A f, g \in S : f.user = g.user /\ (f.msg = g.msg => f = g)
  BY <1>1, <1>3 DEF BookInv, Directed, Singly
<1>5. S \cap (CarriedIn(c) \cup PendingIn(c)) = {}
  BY CarriedEntries, WaitingEntries, PendingEntries
<1>6. \A b \in Accounts : PendingIn(b)' = PendingIn(b)
  BY <1>1, SameEntries
<1>7. \A b \in Accounts \ {c} : WaitingIn(b)' = WaitingIn(b)
  BY <1>1, SameEntries DEF TypeOK
<1>8. CASE DrainLost(c)
  <2>1. \A b \in Accounts : CarriedIn(b)' = CarriedIn(b) /\ SentIn(b)' = SentIn(b)
    BY <1>8, SameEntries DEF DrainLost, Carriers
  <2>2. BookStep(c, S, {}, {})
    BY <1>1, <1>2, <1>5, <1>6, <1>7, <2>1 DEF BookStep, HeldIn
  <2> HIDE DEF S
  <2> QED
    BY <1>1, <1>3, <1>4, <2>2 DEF Moved
<1>9. CASE DrainInto(c)
  <2> DEFINE n == Len(emitted[c])
             k == Len(wait[c])
             u(i) == Entry("sent", n + i, wait[c][i].user, wait[c][i].msg)
             U == {u(i) : i \in 1 .. k}
             R == {Transaction(callid + i - 1, "Sms", wait[c][i].user,
                               wait[c][i].msg) : i \in DOMAIN wait[c]}
  <2>1. /\ trans' = [trans EXCEPT ![c] = @ \cup R]
        /\ emitted' = [emitted EXCEPT ![c] = @ \o wait[c]]
    BY <1>9 DEF DrainInto
  <2>2. \A v \in R : v.kind = "Sms"
    BY DEF Transaction
  <2> HIDE DEF R
  <2>3. \A b \in Accounts : Carriers(b)' = Carriers(b)
    BY <2>1, <2>2 DEF Carriers, TypeOK
  <2>4. \A b \in Accounts : CarriedIn(b)' = CarriedIn(b)
    BY <2>3, SameEntries
  <2>5. \A b \in Accounts \ {c} : SentIn(b)' = SentIn(b)
    BY <2>1, SameEntries DEF TypeOK
  <2>6. /\ emitted[c] \in Seq(Texts) /\ wait[c] \in Seq(Texts)
        /\ n \in Nat /\ k \in Nat /\ DOMAIN wait[c] = 1 .. k
        /\ DOMAIN emitted[c] = 1 .. n
    BY <1>1 DEF TypeOK
  <2>7. /\ emitted'[c] = emitted[c] \o wait[c]
        /\ DOMAIN emitted'[c] = 1 .. (n + k)
    BY <1>1, <2>1, <2>6 DEF TypeOK
  <2>8. /\ \A i \in 1 .. n : emitted'[c][i] = emitted[c][i]
        /\ \A i \in 1 .. k : emitted'[c][n + i] = wait[c][i]
    <3> DEFINE s == emitted[c]
               w == wait[c]
    <3>1. s \in Seq(Texts) /\ w \in Seq(Texts) /\ n = Len(s) /\ k = Len(w)
      BY <2>6
    <3>2. emitted'[c] = s \o w
      BY <2>7
    <3> HIDE DEF s, w, n, k
    <3>3. /\ \A i \in 1 .. Len(s) : (s \o w)[i] = s[i]
          /\ \A i \in 1 .. Len(w) : (s \o w)[Len(s) + i] = w[i]
      BY <3>1, Concatenation
    <3>4. /\ \A i \in 1 .. n : emitted'[c][i] = s[i]
          /\ \A i \in 1 .. k : emitted'[c][n + i] = w[i]
      BY <3>1, <3>2, <3>3
    <3> QED
      BY <3>4 DEF s, w
  <2>9. SentIn(c)' = SentIn(c) \cup U
    <3> DEFINE s(i) == Entry("sent", i, emitted'[c][i].user, emitted'[c][i].msg)
    <3>1. SentIn(c)' = {s(i) : i \in 1 .. (n + k)}
      BY <2>7 DEF SentIn
    <3>2. SentIn(c) = {SentEntry(c, i) : i \in 1 .. n}
      BY <2>6 DEF SentIn, SentEntry
    <3>3. \A i \in 1 .. n : s(i) = SentEntry(c, i)
      BY <2>8 DEF SentEntry
    <3>4. \A i \in 1 .. k : s(n + i) = u(i)
      BY <2>8
    <3> HIDE DEF s, u, n, k
    <3>5. \A i \in 1 .. (n + k) : i \in 1 .. n \/ (i - n \in 1 .. k /\ n + (i - n) = i)
      BY <2>6
    <3>6. \A i \in 1 .. n : i \in 1 .. (n + k)
      BY <2>6
    <3>7. \A i \in 1 .. k : n + i \in 1 .. (n + k)
      BY <2>6
    <3>8. ASSUME NEW x \in SentIn(c)'
          PROVE  x \in SentIn(c) \cup U
      <4>1. PICK i \in 1 .. (n + k) : x = s(i)
        BY <3>1
      <4>2. CASE i \in 1 .. n
        BY <3>2, <3>3, <4>1, <4>2
      <4>3. CASE i - n \in 1 .. k /\ n + (i - n) = i
        <5>1. x = u(i - n)
          BY <3>4, <4>1, <4>3
        <5> QED
          BY <4>3, <5>1
      <4> QED
        BY <3>5, <4>2, <4>3
    <3>9. SentIn(c) \subseteq SentIn(c)'
      BY <3>1, <3>2, <3>3, <3>6
    <3>10. U \subseteq SentIn(c)'
      BY <3>1, <3>4, <3>7
    <3> QED
      BY <3>8, <3>9, <3>10
  <2>10. \A i : u(i).user = wait[c][i].user /\ u(i).msg = wait[c][i].msg
    BY EntryFields
  <2>11. \A v \in U : \E i \in 1 .. k : v = u(i)
    OBVIOUS
  <2>12. \A i \in 1 .. k : u(i) \in U
    OBVIOUS
  <2> HIDE DEF u, U
  <2>13. \A f \in S : \E i \in 1 .. k : f = WaitingEntry(c, i)
    BY <2>6, WaitingEntries
  <2>14. \A i \in 1 .. k : /\ WaitingEntry(c, i) \in S
                           /\ WaitingEntry(c, i).user = wait[c][i].user
                           /\ WaitingEntry(c, i).msg = wait[c][i].msg
                           /\ WaitingEntry(c, i).at = i
    BY <2>6, WaitingEntries
  <2>15. Copies(U, S)
    <3>1. \A v \in U : \E f \in S : v.user = f.user /\ v.msg = f.msg
      BY <2>10, <2>11, <2>14
    <3>2. \A f \in S : \E v \in U : v.user = f.user /\ v.msg = f.msg
      BY <2>10, <2>12, <2>13, <2>14
    <3>3. ASSUME NEW v \in U, NEW w \in U, v.msg = w.msg
          PROVE  v = w
      <4>1. PICK i \in 1 .. k : v = u(i)
        BY <2>11
      <4>2. PICK j \in 1 .. k : w = u(j)
        BY <2>11
      <4>3. WaitingEntry(c, i) = WaitingEntry(c, j)
        BY <1>4, <2>10, <2>14, <3>3, <4>1, <4>2
      <4>4. i = j
        BY <2>14, <4>3
      <4> QED
        BY <4>1, <4>2, <4>4
    <3> QED
      BY <3>1, <3>2, <3>3 DEF Copies
  <2>16. BookStep(c, S, {}, U)
    BY <1>1, <1>2, <1>5, <1>6, <1>7, <2>4, <2>5, <2>9 DEF BookStep, HeldIn
  <2> HIDE DEF S
  <2> QED
    BY <1>1, <1>3, <1>4, <2>15, <2>16 DEF Moved
<1> QED
  BY <1>8, <1>9 DEF UserEntered

LEMMA ReplyStep ==
  ASSUME TypeOK, CallidUnique, BookInv, NEW a \in Accounts, NEW t \in trans[a],
         Reply(a, t)
  PROVE  Steady \/ Moved(a) \/ \E c \in Channels : Granted(a, c)
<1>1. status[a] = "open" /\ UNCHANGED addr
  BY DEF Reply, Listening
<1>2. t.kind \in {"StartChat", "Register", "Invite"} => t \in Carriers(a)
  BY DEF Carriers
<1>3. CASE t.kind = "StartChat" /\ StartChatGranted(a, t)
  BY <1>1, <1>2, <1>3, GrantedBook
<1>4. CASE \/ t.kind = "StartChat" /\ StartChatRefused(a, t)
           \/ t.kind = "Register" /\ Registered(a, t)
  BY <1>1, <1>2, <1>4, RefusedMoved
<1>5. CASE t.kind = "Invite" /\ Invited(a, t)
  BY <1>1, <1>2, <1>5, InvitedMoved
<1>6. CASE \/ t.kind = "Sms" /\ SmsAnswered(a, t)
           \/ t.kind = "KeepAlive" /\ KeepAliveAnswered(a, t)
  <2>1. /\ trans' = [trans EXCEPT ![a] = Answered(a, t)]
        /\ UNCHANGED <<wait, pend, emitted, status, who, conn>>
    BY <1>6 DEF SmsAnswered, KeepAliveAnswered, accountVars
  <2>2. SameBooks
    BY <1>6, <2>1, NotCarried
  <2> QED
    BY <1>1, <2>1, <2>2 DEF Steady
<1> QED
  BY <1>3, <1>4, <1>5, <1>6 DEF Reply, Callback

LEMMA StepKinds ==
  ASSUME TypeOK, CallidUnique, ListedIffOpen, BookInv, [Next]_vars
  PROVE  \/ Steady
         \/ \E b \in Buddies, m \in Messages : Typed(b, m)
         \/ \E a \in Accounts : Moved(a)
         \/ \E a \in Accounts : \E c \in Channels : Granted(a, c)
<1>1. ASSUME UNCHANGED <<trans, wait, pend, emitted>>
      PROVE  SameBooks
  BY <1>1, SameCarriers DEF Carriers
<1>2. ASSUME \/ \E b \in Buddies : PresenceChanged(b)
             \/ Close
             \/ \E c \in Channels : StaleConnect(c)
             \/ \E a \in Accounts : RecvFailed(a)
             \/ UNCHANGED vars
      PROVE  Steady
  <2>1. UNCHANGED <<trans, wait, pend, emitted, addr, status, who>>
    BY <1>2 DEF PresenceChanged, Close, StaleConnect, RecvFailed, vars,
                accountVars, queueVars, historyVars
  <2>2. \A c \in Channels : conn'[c] = "connecting" => conn[c] = "connecting"
    BY <1>2, ConstantAssumption
    DEF PresenceChanged, Close, StaleConnect, RecvFailed, vars, accountVars,
        TypeOK, Accounts
  <2> QED
    BY <1>1, <2>1, <2>2 DEF Steady
<1>3. ASSUME \/ \E c \in Channels : UserLeft(c)
             \/ \E a \in Accounts : PeerClosed(a)
      PROVE  Steady
  <2>1. /\ UNCHANGED <<trans, wait, pend, emitted, addr>>
        /\ \E a \in Accounts : FreeAccount(a)
    BY <1>3 DEF UserLeft, PeerClosed, queueVars, historyVars, Accounts
  <2> QED
    BY <1>1, <2>1 DEF Steady
<1>4. ASSUME NEW a \in Accounts, NEW t \in trans[a], SmsTimeout(a, t)
      PROVE  Steady
  <2>1. /\ t.kind = "Sms" /\ trans' = [trans EXCEPT ![a] = Answered(a, t)]
        /\ UNCHANGED <<wait, pend, emitted, addr, status, who, conn>>
    BY <1>4 DEF SmsTimeout, accountVars, historyVars
  <2> QED
    BY <2>1, NotCarried DEF Steady
<1>5. ASSUME NEW a \in Accounts, NEW b \in Buddies, NEW c \in Channels,
             InviteReceived(a, b, c)
      PROVE  Steady
  BY <1>5, InviteSteady DEF BookInv
<1>6. ASSUME NEW c \in Channels, NEW e \in BOOLEAN, NEW s \in BOOLEAN,
             ConnectDone(c, e, s)
      PROVE  \E a \in Accounts : Moved(a)
  BY <1>6, ConnectDoneMoved DEF Accounts
<1>7. ASSUME NEW c \in Channels, UserEntered(c)
      PROVE  \E a \in Accounts : Moved(a)
  BY <1>7, UserEnteredMoved DEF Accounts
<1>8. ASSUME ReplyNext
      PROVE  \/ Steady
             \/ \E a \in Accounts : Moved(a)
             \/ \E a \in Accounts : \E c \in Channels : Granted(a, c)
  BY <1>8, ReplyStep DEF ReplyNext
<1> QED
  BY <1>2, <1>3, <1>4, <1>5, <1>6, <1>7, <1>8, ChatSendTyped, KeepAliveSteady
  DEF Next, ConnectNext, TimeoutNext

LEMMA BookInvariant == Spec => []BookInv
<1>1. Init => BookInv
  <2> SUFFICES ASSUME Init
               PROVE  BookInv
    OBVIOUS
  <2>1. \A a \in Accounts : HeldIn(a) = {} /\ SentIn(a) = {}
    <3>1. \A a \in Accounts : /\ trans[a] = {} /\ wait[a] = <<>> /\ emitted[a] = <<>>
                              /\ a \in Channels => pend[a] = {}
      BY DEF Init, Accounts
    <3>2. \A a \in Accounts : Carriers(a) = {}
      BY <3>1 DEF Carriers
    <3>3. \A a \in Accounts : WaitingIn(a) = {} /\ SentIn(a) = {}
      BY <3>1 DEF WaitingIn, SentIn
    <3>4. \A a \in Accounts : CarriedIn(a) = {} /\ PendingIn(a) = {}
      BY <3>1, <3>2 DEF CarriedIn, PendingIn
    <3> QED
      BY <3>3, <3>4 DEF HeldIn
  <2>2. \A c \in Channels : c \in Accounts /\ conn[c] = "none"
    BY ConstantAssumption DEF Init, Accounts
  <2> QED
    BY <2>1, <2>2 DEF BookInv, Singly, Directed, Fresh, Book
<1>2. TypeOK /\ CallidUnique /\ ListedIffOpen /\ BookInv /\ [Next]_vars => BookInv'
  BY StepKinds, SteadyInv, TypedInv, MovedInv, GrantedInv
<1> QED
  BY <1>1, <1>2, TypeCorrect, CallidsUnique, ListCorrect, PTL DEF Spec

(* A text was handed to send() before its transaction was recorded, and    *)
(* what was sent is not forgotten.                                         *)
LEMMA SentStays ==
  ASSUME NEW a, NEW t, WasSent(a, t), emitted'[a] = emitted[a]
  PROVE  WasSent(a, t)'
BY DEF WasSent

LEMMA SentBehind ==
  ASSUME TypeOK, NEW a \in Accounts, NEW w \in Seq(Texts),
         emitted'[a] = emitted[a] \o w
  PROVE  /\ \A t : WasSent(a, t) => WasSent(a, t)'
         /\ \A i \in DOMAIN w : \A t : w[i] = [user |-> t.user, msg |-> t.msg] => WasSent(a, t)'
<1> DEFINE s == emitted[a]
<1>1. s \in Seq(Texts)
  BY DEF TypeOK
<1>2. emitted'[a] = s \o w
  OBVIOUS
<1>3. \A t : WasSent(a, t) => \E i \in DOMAIN s : s[i] = [user |-> t.user, msg |-> t.msg]
  BY DEF WasSent
<1> HIDE DEF s
<1>4. /\ \A i \in 1 .. Len(s) : (s \o w)[i] = s[i]
      /\ \A i \in 1 .. Len(w) : (s \o w)[Len(s) + i] = w[i]
  BY <1>1, Concatenation
<1>5. /\ DOMAIN s = 1 .. Len(s) /\ DOMAIN w = 1 .. Len(w)
      /\ DOMAIN (s \o w) = 1 .. (Len(s) + Len(w))
      /\ Len(s) \in Nat /\ Len(w) \in Nat
  BY <1>1
<1>6. \A i \in DOMAIN s : i \in DOMAIN (s \o w) /\ (s \o w)[i] = s[i]
  BY <1>4, <1>5
<1>7. \A i \in DOMAIN w : Len(s) + i \in DOMAIN (s \o w) /\ (s \o w)[Len(s) + i] = w[i]
  BY <1>4, <1>5
<1>8. ASSUME NEW i \in DOMAIN (s \o w), NEW t, (s \o w)[i] = [user |-> t.user, msg |-> t.msg]
      PROVE  WasSent(a, t)'
  BY <1>2, <1>8 DEF WasSent
<1>9. ASSUME NEW t, WasSent(a, t)
      PROVE  WasSent(a, t)'
  <2>1. PICK i \in DOMAIN s : s[i] = [user |-> t.user, msg |-> t.msg]
    BY <1>3, <1>9
  <2> QED
    BY <1>6, <1>8, <2>1
<1>10. ASSUME NEW i \in DOMAIN w, NEW t, w[i] = [user |-> t.user, msg |-> t.msg]
       PROVE  WasSent(a, t)'
  BY <1>7, <1>8, <1>10
<1> QED
  BY <1>9, <1>10

LEMMA AppendIsConcatenation ==
  ASSUME NEW S, NEW s \in Seq(S), NEW x \in S
  PROVE  Append(s, x) = s \o <<x>>
OBVIOUS

LEMMA SmsSentSends ==
  ASSUME TypeOK, SmsSent, SendShape
  PROVE  SmsSent'
<1>1. PICK a \in Accounts, u \in Buddies, m \in Messages :
        \E base \in SUBSET trans[a] : MessageSend(a, u, m, base)
  BY DEF SendShape
<1>2. PICK base \in SUBSET trans[a] : MessageSend(a, u, m, base)
  BY <1>1
<1>3. CASE Drop(a, base) \/ Hold(a, u, m, base)
  <2>1. trans' = [trans EXCEPT ![a] = base] /\ UNCHANGED emitted
    BY <1>3 DEF Drop, Hold
  <2>2. \A b \in Accounts : trans'[b] \subseteq trans[b] /\ emitted'[b] = emitted[b]
    BY <1>2, <2>1 DEF TypeOK
  <2> QED
    BY <2>2, SentStays DEF SmsSent
<1>4. CASE Emit(a, u, m, base)
  <2> DEFINE x == [user |-> u, msg |-> m]
  <2>0. PICK r : r = Transaction(callid, "Sms", u, m)
    OBVIOUS
  <2>1. /\ trans' = [trans EXCEPT ![a] = base \cup {r}]
        /\ emitted' = [emitted EXCEPT ![a] = Append(@, x)]
    BY <1>4, <2>0 DEF Emit, Request
  <2>2. x \in Texts /\ x = [user |-> r.user, msg |-> r.msg]
    BY <2>0 DEF Texts, Transaction
  <2> HIDE DEF x
  <2>3. emitted'[a] = emitted[a] \o <<x>> /\ <<x>> \in Seq(Texts)
    <3>1. emitted[a] \in Seq(Texts) /\ emitted'[a] = Append(emitted[a], x)
      BY <2>1 DEF TypeOK
    <3>2. Append(emitted[a], x) = emitted[a] \o <<x>>
      BY <2>2, <3>1, AppendIsConcatenation
    <3> QED
      BY <2>2, <3>1, <3>2
  <2>4. WasSent(a, r)' /\ \A t : WasSent(a, t) => WasSent(a, t)'
    <3> DEFINE w == <<x>>
    <3>1. w \in Seq(Texts) /\ emitted'[a] = emitted[a] \o w /\ 1 \in DOMAIN w /\ w[1] = x
      BY <2>3
    <3> HIDE DEF w
    <3>2. /\ \A t : WasSent(a, t) => WasSent(a, t)'
          /\ \A i \in DOMAIN w : \A t : w[i] = [user |-> t.user, msg |-> t.msg]
                                    => WasSent(a, t)'
      BY <3>1, SentBehind
    <3> QED
      BY <2>2, <3>1, <3>2
  <2>5. \A b \in Accounts \ {a} : trans'[b] = trans[b] /\ emitted'[b] = emitted[b]
    BY <2>1 DEF TypeOK
  <2>6. \A t \in trans'[a] : t \in trans[a] \/ t = r
    BY <1>2, <2>1 DEF TypeOK
  <2>7. ASSUME NEW t \in trans'[a], t.kind = "Sms"
        PROVE  WasSent(a, t)'
    BY <2>4, <2>6, <2>7 DEF SmsSent
  <2>8. ASSUME NEW b \in Accounts \ {a}, NEW t \in trans'[b], t.kind = "Sms"
        PROVE  WasSent(b, t)'
    BY <2>5, <2>8, SentStays DEF SmsSent
  <2> QED
    BY <2>7, <2>8 DEF SmsSent
<1> QED
  BY <1>2, <1>3, <1>4 DEF MessageSend

LEMMA SmsSentEntered ==
  ASSUME TypeOK, SmsSent, NEW c \in Channels, UserEntered(c)
  PROVE  SmsSent'
<1>1. CASE DrainLost(c)
  BY <1>1, SentStays DEF DrainLost, SmsSent
<1>2. CASE DrainInto(c)
  <2> DEFINE R == {Transaction(callid + i - 1, "Sms", wait[c][i].user,
                               wait[c][i].msg) : i \in DOMAIN wait[c]}
             w == wait[c]
  <2>1. /\ trans' = [trans EXCEPT ![c] = @ \cup R]
        /\ emitted' = [emitted EXCEPT ![c] = @ \o wait[c]]
    BY <1>2 DEF DrainInto
  <2>2. \A v \in R : \E i \in DOMAIN w : v.user = w[i].user /\ v.msg = w[i].msg
    BY DEF Transaction
  <2> HIDE DEF R
  <2>3. c \in Accounts /\ w \in Seq(Texts)
    BY DEF TypeOK, Accounts
  <2>4. emitted'[c] = emitted[c] \o w
    BY <2>1, <2>3 DEF TypeOK
  <2>5. \A b \in Accounts \ {c} : trans'[b] = trans[b] /\ emitted'[b] = emitted[b]
    BY <2>1 DEF TypeOK
  <2>6. \A t \in trans'[c] : t \in trans[c] \/ t \in R
    BY <2>1 DEF TypeOK
  <2> HIDE DEF w
  <2>7. /\ \A t : WasSent(c, t) => WasSent(c, t)'
        /\ \A i \in DOMAIN w : \A t : w[i] = [user |-> t.user, msg |-> t.msg]
                                  => WasSent(c, t)'
    BY <2>3, <2>4, SentBehind
  <2>8. \A i \in DOMAIN w : w[i] = [user |-> w[i].user, msg |-> w[i].msg]
    <3>1. \A i \in DOMAIN w : w[i] \in Texts
      BY <2>3
    <3> QED
      BY <3>1 DEF Texts
  <2>9. \A t \in R : WasSent(c, t)'
    <3> TAKE t \in R
    <3>1. PICK i \in DOMAIN w : t.user = w[i].user /\ t.msg = w[i].msg
      BY <2>2
    <3>2. w[i] = [user |-> t.user, msg |-> t.msg]
      BY <2>8, <3>1
    <3> QED
      BY <2>7, <3>2
  <2> QED
    BY <2>3, <2>5, <2>6, <2>7, <2>9, SentStays DEF SmsSent
<1> QED
  BY <1>1, <1>2 DEF UserEntered

LEMMA SmsSentInvariant == Spec => []SmsSent
<1>1. Init => SmsSent
  BY DEF Init, SmsSent
<1>2. ASSUME TypeOK, SmsSent, [Next]_vars
      PROVE  SmsSent'
  <2>1. CASE QuietShape
    <3>1. \A a \in Accounts : \A t \in trans'[a] : t.kind = "Sms" => t \in trans[a]
      BY <2>1 DEF QuietShape, SameSms
    <3>2. emitted' = emitted
      BY <2>1 DEF QuietShape
    <3> QED
      BY <1>2, <3>1, <3>2, SentStays DEF SmsSent
  <2>2. ASSUME NEW a \in Accounts, NEW t \in trans[a], SmsEnds(a, t)
        PROVE  SmsSent'
    <3>1. \A b \in Accounts : trans'[b] \subseteq trans[b] /\ emitted'[b] = emitted[b]
      BY <1>2, <2>2 DEF SmsEnds, Answered, TypeOK
    <3> QED
      BY <1>2, <3>1, SentStays DEF SmsSent
  <2> QED
    BY <1>2, <2>1, <2>2, SmsShape, SmsSentSends, SmsSentEntered
<1> QED
  BY <1>1, <1>2, TypeCorrect, PTL DEF Spec

-----------------------------------------------------------------------------
(* The theorems                                                            *)

(* No copy of a text is left behind at a hand-over: it is never on two     *)
(* lists, nor on a list once it was sent, and it is sent once.             *)
THEOREM OwnerIsUnique == Spec => []OneOwner
<1>1. ASSUME CallidUnique, Singly
      PROVE  OneOwner
  <2> SUFFICES ASSUME NEW m \in Messages
               PROVE
    /\ \A a, b \in Accounts : \A t \in Carriers(a), u \in Carriers(b) :
         t.msg = m /\ u.msg = m => a = b /\ t = u
    /\ \A a, b \in Accounts : \A i \in DOMAIN wait[a], j \in DOMAIN wait[b] :
         wait[a][i].msg = m /\ wait[b][j].msg = m => a = b /\ i = j
    /\ \A a, b \in Accounts : \A i \in DOMAIN emitted[a], j \in DOMAIN emitted[b] :
         emitted[a][i].msg = m /\ emitted[b][j].msg = m => a = b /\ i = j
    /\ \A a, b \in Accounts : ~(Carries(a, m) /\ Waits(b, m))
    /\ \A c \in Channels : Pends(c, m) =>
         /\ \A d \in Channels : Pends(d, m) => c = d
         /\ \A a \in Accounts : ~Carries(a, m) /\ ~Waits(a, m)
         /\ ~Sent(m)
    /\ Sent(m) => \A a \in Accounts : ~Carries(a, m) /\ ~Waits(a, m)
    BY DEF OneOwner
  <2>1. \A a, b \in Accounts : \A e \in Book(a), f \in Book(b) :
          e.msg = m /\ f.msg = m => a = b /\ e = f
    BY <1>1 DEF Singly
  <2>2. \A a : /\ CarriedIn(a) \subseteq Book(a) /\ WaitingIn(a) \subseteq Book(a)
               /\ PendingIn(a) \subseteq Book(a) /\ SentIn(a) \subseteq Book(a)
    BY DEF Book, HeldIn
  <2>3. /\ \A a : \A e \in CarriedIn(a) : e.place = "carried"
        /\ \A a : \A e \in WaitingIn(a) : e.place = "waiting"
        /\ \A a : \A e \in PendingIn(a) : e.place = "pending"
        /\ \A a : \A e \in SentIn(a) : e.place = "sent"
    BY CarriedEntries, WaitingEntries, PendingEntries, SentEntries
  <2>4. ASSUME NEW a \in Accounts, NEW b \in Accounts, NEW t \in Carriers(a),
               NEW u \in Carriers(b), t.msg = m, u.msg = m
        PROVE  a = b /\ t = u
    <3>1. a = b /\ EntryOf(t) = EntryOf(u)
      BY <2>1, <2>2, <2>4, CarriedEntries
    <3>2. t.callid = u.callid
      BY <3>1, CarriedEntries
    <3> QED
      BY <1>1, <3>1, <3>2 DEF CallidUnique, Carriers
  <2>5. ASSUME NEW a \in Accounts, NEW b \in Accounts, NEW i \in DOMAIN wait[a],
               NEW j \in DOMAIN wait[b], wait[a][i].msg = m, wait[b][j].msg = m
        PROVE  a = b /\ i = j
    <3>1. a = b /\ WaitingEntry(a, i) = WaitingEntry(b, j)
      BY <2>1, <2>2, <2>5, WaitingEntries
    <3> QED
      BY <3>1, WaitingEntries
  <2>6. ASSUME NEW a \in Accounts, NEW b \in Accounts, NEW i \in DOMAIN emitted[a],
               NEW j \in DOMAIN emitted[b], emitted[a][i].msg = m, emitted[b][j].msg = m
        PROVE  a = b /\ i = j
    <3>1. a = b /\ SentEntry(a, i) = SentEntry(b, j)
      BY <2>1, <2>2, <2>6, SentEntries
    <3> QED
      BY <3>1, SentEntries
  <2>7. \A a, b \in Accounts : ~(Carries(a, m) /\ Waits(b, m))
    BY <2>1, <2>2, <2>3, CarriesBook, WaitsBook
  <2>8. ASSUME NEW c \in Channels, Pends(c, m)
        PROVE  /\ \A d \in Channels : Pends(d, m) => c = d
               /\ \A a \in Accounts : ~Carries(a, m) /\ ~Waits(a, m)
               /\ ~Sent(m)
    <3>1. PICK e \in PendingIn(c) : e.msg = m
      BY <2>8, PendsBook
    <3>2. Channels \subseteq Accounts
      BY DEF Accounts
    <3>3. \A d \in Channels : Pends(d, m) => c = d
      BY <2>1, <2>2, <3>1, <3>2, PendsBook
    <3>4. \A a \in Accounts : ~Carries(a, m) /\ ~Waits(a, m)
      BY <2>1, <2>2, <2>3, <3>1, <3>2, CarriesBook, WaitsBook
    <3>5. ~Sent(m)
      BY <2>1, <2>2, <2>3, <3>1, <3>2, SentBook
    <3> QED
      BY <3>3, <3>4, <3>5
  <2>9. Sent(m) => \A a \in Accounts : ~Carries(a, m) /\ ~Waits(a, m)
    BY <2>1, <2>2, <2>3, CarriesBook, WaitsBook, SentBook
  <2> QED
    BY <2>4, <2>5, <2>6, <2>7, <2>8, <2>9
<1>2. BookInv => Singly
  BY DEF BookInv
<1> QED
  BY <1>1, <1>2, CallidsUnique, BookInvariant, PTL

(* A text goes to the buddy it was typed for, however many channels to     *)
(* however many buddies were opened, granted, refused and left meanwhile.  *)
THEOREM ReachesItsBuddy == Spec => []NoMisdelivery
<1>1. ASSUME TypeOK, Directed, SmsSent
      PROVE  NoMisdelivery
  <2>1. ASSUME NEW a \in Accounts, NEW i \in DOMAIN emitted[a]
        PROVE  /\ addr[emitted[a][i].msg] = emitted[a][i].user
               /\ a \in Channels => emitted[a][i].user = who[a]
    <3>1. SentEntry(a, i) \in Book(a)
      BY SentEntries DEF Book
    <3> QED
      BY <1>1, <3>1, SentEntries DEF Directed
  <2>2. ASSUME NEW a \in Accounts, NEW t \in trans[a], t.msg # None
        PROVE  addr[t.msg] = t.user /\ (a \in Channels => t.user = who[a])
    <3>1. CASE t \in Carriers(a)
      <4>1. EntryOf(t) \in Book(a)
        BY <3>1, CarriedEntries DEF Book, HeldIn
      <4> QED
        BY <1>1, <4>1, CarriedEntries DEF Directed
    <3>2. CASE t.kind = "Sms"
      <4>1. PICK i \in DOMAIN emitted[a] :
              emitted[a][i] = [user |-> t.user, msg |-> t.msg]
        BY <1>1, <3>2 DEF SmsSent, WasSent
      <4>2. emitted[a][i].user = t.user /\ emitted[a][i].msg = t.msg
        BY <4>1
      <4> QED
        BY <2>1, <4>2
    <3>3. t.kind # "KeepAlive"
      BY <1>1, <2>2 DEF TypeOK, Transactions, TextTransactions, KeepAliveTransactions
    <3> QED
      BY <1>1, <3>1, <3>2, <3>3
      DEF Carriers, TypeOK, Transactions, TextTransactions, KeepAliveTransactions, Kinds
  <2>3. ASSUME NEW c \in Channels, NEW i \in DOMAIN wait[c]
        PROVE  wait[c][i].user = who[c] /\ addr[wait[c][i].msg] = who[c]
    <3>1. WaitingEntry(c, i) \in Book(c) /\ c \in Accounts
      BY WaitingEntries DEF Book, HeldIn, Accounts
    <3> QED
      BY <1>1, <3>1, WaitingEntries DEF Directed
  <2>4. ASSUME NEW c \in Channels, NEW t \in pend[c]
        PROVE  t.user = who[c] /\ addr[t.msg] = who[c]
    <3>1. PendingEntry(t) \in Book(c) /\ c \in Accounts
      BY PendingEntries DEF Book, HeldIn, Accounts
    <3> QED
      BY <1>1, <3>1, PendingEntries DEF Directed
  <2>5. Channels \subseteq Accounts
    BY DEF Accounts
  <2> QED
    BY <2>1, <2>2, <2>3, <2>4, <2>5 DEF NoMisdelivery, Addressed
<1>2. BookInv => Directed
  BY DEF BookInv
<1> QED
  BY <1>1, <1>2, TypeCorrect, BookInvariant, SmsSentInvariant, PTL

-----------------------------------------------------------------------------
(* The refinement of ChatDelivery                                          *)

(* What the abstract delivery sees of the books: whether an account that   *)
(* is open has an entry for a text, and which texts were sent to whom.     *)
HeldByBook(m) ==
  \E a \in Accounts : status[a] = "open" /\ \E e \in HeldIn(a) : e.msg = m

Reading ==
  /\ \A m \in Messages : Held(m) <=> HeldByBook(m)
  /\ \A m \in Messages :
       Sent(m) <=> \E a \in Accounts : \E e \in SentIn(a) : e.msg = m
  /\ \A b \in Buddies, m \in Messages :
       m \in SentTo(b) <=> \E a \in Accounts : \E e \in SentIn(a) :
                             e.user = b /\ e.msg = m
  /\ \A b \in Buddies : SentTo(b) \subseteq Messages

LEMMA BooksRead == TypeOK => Reading
<1> SUFFICES ASSUME TypeOK
             PROVE  Reading
  OBVIOUS
<1>1. \A m \in Messages : Held(m) <=> HeldByBook(m)
  BY OwnsBook DEF Held, HeldByBook
<1>2. \A m \in Messages :
        Sent(m) <=> \E a \in Accounts : \E e \in SentIn(a) : e.msg = m
  BY SentBook
<1>3. \A b \in Buddies :
        SentTo(b) = {m \in Messages : \E a \in Accounts : \E e \in SentIn(a) :
                                        e.user = b /\ e.msg = m}
  BY SentToBook
<1> QED
  BY <1>1, <1>2, <1>3 DEF Reading

(* A text that is held was typed and not sent; who has an entry was typed  *)
(* for its user.                                                           *)
LEMMA HeldOnce ==
  ASSUME TypeOK, BookInv
  PROVE  /\ \A m \in Messages : addr[m] = None => ~Held(m) /\ ~Sent(m)
         /\ \A m \in Messages : Held(m) => ~Sent(m)
         /\ \A a \in Accounts : \A e \in HeldIn(a) :
              e.msg \in Messages /\ e.user \in Buddies /\ addr[e.msg] = e.user
<1>1. Reading
  BY BooksRead
<1>2. \A a \in Accounts : \A e \in HeldIn(a) \cup SentIn(a) :
        e.msg \in Messages /\ e.user \in Buddies /\ addr[e.msg] = e.user
  BY BookType DEF Book, BookInv, Directed
<1>3. \A m \in Messages : addr[m] = None => ~Held(m) /\ ~Sent(m)
  BY <1>1, <1>2, ConstantAssumption DEF Reading, HeldByBook
<1>4. ASSUME NEW m \in Messages, Held(m), Sent(m)
      PROVE  FALSE
  <2>1. PICK a \in Accounts : \E e \in HeldIn(a) : e.msg = m
    BY <1>1, <1>4 DEF Reading, HeldByBook
  <2>2. PICK b \in Accounts : \E e \in SentIn(b) : e.msg = m
    BY <1>1, <1>4 DEF Reading
  <2>3. PICK e \in HeldIn(a) : e.msg = m
    BY <2>1
  <2>4. PICK f \in SentIn(b) : f.msg = m
    BY <2>2
  <2>5. e = f
    BY <2>3, <2>4 DEF BookInv, Singly, Book
  <2> QED
    BY <2>5, Disjoint
<1> QED
  BY <1>2, <1>3, <1>4

(* Held texts are lost.                                                    *)
LEMMA LosesStep ==
  ASSUME TypeOK, BookInv, addr' = addr,
         \A m \in Messages : Sent(m)' <=> Sent(m),
         \A b \in Buddies : SentTo(b)' = SentTo(b),
         \A m \in Messages : Held(m)' => Held(m)
  PROVE  Delivery!Next
<1> DEFINE L == {m \in Messages : Held(m) /\ ~Held(m)'}
<1>1. \A m \in L : Fate(m) = "held" /\ Fate(m)' = "lost"
  BY HeldOnce DEF Fate
<1>2. \A m \in Messages \ L : Fate(m)' = Fate(m)
  BY DEF Fate
<1>3. L \in SUBSET Messages
  OBVIOUS
<1> HIDE DEF L
<1>4. Delivery!Lose(L)
  BY <1>1, <1>2, <1>3 DEF Delivery!Lose
<1> QED
  BY <1>3, <1>4 DEF Delivery!Next

(* Held texts for b are sent to b.                                         *)
LEMMA SendsStep ==
  ASSUME TypeOK, BookInv, addr' = addr, NEW b \in Buddies,
         NEW L \in SUBSET Messages,
         \A m \in L : Held(m) /\ addr[m] = b,
         \A m \in Messages : Sent(m)' <=> Sent(m) \/ m \in L,
         SentTo(b)' = SentTo(b) \cup L,
         \A u \in Buddies \ {b} : SentTo(u)' = SentTo(u),
         \A m \in Messages \ L : Held(m)' <=> Held(m)
  PROVE  Delivery!Next
<1>1. \A m \in L : Fate(m) = "held" /\ Fate(m)' = "sent"
  BY HeldOnce, ConstantAssumption DEF Fate
<1>2. \A m \in Messages \ L : Fate(m)' = Fate(m)
  BY DEF Fate
<1>3. Delivery!Send(L, b)
  BY <1>1, <1>2 DEF Delivery!Send
<1> QED
  BY <1>3 DEF Delivery!Next

(* m is typed for b, and held, sent or dropped at once.                    *)
LEMMA TypesStep ==
  ASSUME TypeOK, BookInv, NEW b \in Buddies, NEW m \in Messages,
         addr[m] = None, addr' = [addr EXCEPT ![m] = b],
         \A n \in Messages \ {m} : (Sent(n)' <=> Sent(n)) /\ (Held(n)' <=> Held(n)),
         \A u \in Buddies \ {b} : SentTo(u)' = SentTo(u),
         \/ ~Sent(m)' /\ SentTo(b)' = SentTo(b)
         \/ Sent(m)' /\ SentTo(b)' = SentTo(b) \cup {m}
  PROVE  Delivery!Next
<1>1. addr'[m] = b /\ b # None /\ \A n \in Messages \ {m} : addr'[n] = addr[n]
  BY ConstantAssumption DEF TypeOK
<1>2. Fate(m) = "untyped" /\ \A n \in Messages \ {m} : Fate(n)' = Fate(n)
  BY <1>1 DEF Fate
<1>3. \/ Fate(m)' \in {"held", "lost"} /\ SentTo(b)' = SentTo(b)
      \/ Fate(m)' = "sent" /\ SentTo(b)' = SentTo(b) \cup {m}
  <2>1. ~Sent(m)' => Fate(m)' \in {"held", "lost"}
    BY <1>1 DEF Fate
  <2>2. Sent(m)' => Fate(m)' = "sent"
    BY <1>1 DEF Fate
  <2> QED
    BY <2>1, <2>2
<1>4. Delivery!Type(m, b)
  BY <1>2, <1>3 DEF Delivery!Type
<1> QED
  BY <1>4 DEF Delivery!Next

(* A step in the book of a changes what is held and sent for no more texts *)
(* than those of the entries it takes out and puts in.                     *)
LEMMA StepRead ==
  ASSUME TypeOK, TypeOK', NEW a \in Accounts, NEW S, NEW T, NEW U,
         BookStep(a, S, T, U), UNCHANGED status
  PROVE  /\ \A m \in Messages : Sent(m)' <=> Sent(m) \/ \E e \in U : e.msg = m
         /\ \A b \in Buddies, m \in Messages :
              m \in SentTo(b)' <=> \/ m \in SentTo(b)
                                   \/ \E e \in U : e.user = b /\ e.msg = m
         /\ \A b \in Buddies : SentTo(b)' \subseteq Messages
         /\ \A m \in Messages : Held(m)' => Held(m) \/ \E e \in T : e.msg = m
         /\ \A m \in Messages : Held(m) => Held(m)' \/ \E e \in S : e.msg = m
<1>1. Reading /\ Reading'
  BY BooksRead, PTL
<1>2. \A b \in Accounts : SentIn(b)' = SentIn(b) \cup (IF b = a THEN U ELSE {})
  BY DEF BookStep
<1>3. ASSUME NEW m \in Messages
      PROVE  /\ Held(m)' => Held(m) \/ \E e \in T : e.msg = m
             /\ Held(m) => Held(m)' \/ \E e \in S : e.msg = m
  <2>1. Held(m) <=> HeldByBook(m)
    BY <1>1 DEF Reading
  <2>2. Held(m)' <=> HeldByBook(m)'
    BY <1>1 DEF Reading
  <2>3. HeldByBook(m)' => HeldByBook(m) \/ \E e \in T : e.msg = m
    BY DEF HeldByBook, BookStep
  <2>4. HeldByBook(m) => HeldByBook(m)' \/ \E e \in S : e.msg = m
    BY DEF HeldByBook, BookStep
  <2> QED
    BY <2>1, <2>2, <2>3, <2>4
<1>4. ASSUME NEW m \in Messages
      PROVE  Sent(m)' <=> Sent(m) \/ \E e \in U : e.msg = m
  <2>1. Sent(m) <=> \E d \in Accounts : \E e \in SentIn(d) : e.msg = m
    BY <1>1 DEF Reading
  <2>2. Sent(m)' <=> \E d \in Accounts : \E e \in SentIn(d)' : e.msg = m
    BY <1>1 DEF Reading
  <2> QED
    BY <1>2, <2>1, <2>2
<1>5. ASSUME NEW b \in Buddies, NEW m \in Messages
      PROVE  m \in SentTo(b)' <=> \/ m \in SentTo(b)
                                  \/ \E e \in U : e.user = b /\ e.msg = m
  <2>1. m \in SentTo(b) <=> \E d \in Accounts : \E e \in SentIn(d) :
                              e.user = b /\ e.msg = m
    BY <1>1 DEF Reading
  <2>2. m \in SentTo(b)' <=> \E d \in Accounts : \E e \in SentIn(d)' :
                               e.user = b /\ e.msg = m
    BY <1>1 DEF Reading
  <2> QED
    BY <1>2, <2>1, <2>2
<1>6. \A b \in Buddies : SentTo(b)' \subseteq Messages
  BY <1>1 DEF Reading
<1> QED
  BY <1>3, <1>4, <1>5, <1>6

LEMMA TypedRefines ==
  ASSUME TypeOK, TypeOK', BookInv, NEW b \in Buddies, NEW m \in Messages, Typed(b, m)
  PROVE  Delivery!Next
<1>1. PICK a \in Accounts : \E T, U : BookStep(a, {}, T, U) /\ Puts(T, U, b, m)
  <2>1. CASE SameBooks
    <3>1. Main \in Accounts
      BY DEF Accounts
    <3>2. BookStep(Main, {}, {}, {}) /\ Puts({}, {}, b, m)
      BY <2>1 DEF SameBooks, BookStep, Puts, Accounts
    <3> QED
      BY <3>1, <3>2
  <2> QED
    BY <2>1 DEF Typed
<1>2. PICK T, U : BookStep(a, {}, T, U) /\ Puts(T, U, b, m)
  BY <1>1
<1>3. addr[m] = None /\ addr' = [addr EXCEPT ![m] = b] /\ UNCHANGED status
  BY DEF Typed
<1> DEFINE N == {}
<1>4. BookStep(a, N, T, U) /\ \A e \in N : FALSE
  BY <1>2
<1> HIDE DEF N
<1>5. /\ \A n \in Messages : Sent(n)' <=> Sent(n) \/ \E e \in U : e.msg = n
      /\ \A u \in Buddies, n \in Messages :
           n \in SentTo(u)' <=> \/ n \in SentTo(u)
                                \/ \E e \in U : e.user = u /\ e.msg = n
      /\ \A u \in Buddies : SentTo(u)' \subseteq Messages
      /\ \A n \in Messages : Held(n)' => Held(n) \/ \E e \in T : e.msg = n
      /\ \A n \in Messages : Held(n) => Held(n)' \/ \E e \in N : e.msg = n
  BY <1>3, <1>4, StepRead
<1>6. \A e \in T \cup U : e.user = b /\ e.msg = m
  BY <1>2 DEF Puts
<1>7. \A u \in Buddies : SentTo(u) \subseteq Messages
  BY BooksRead DEF Reading
<1>8. \A n \in Messages \ {m} : (Sent(n)' <=> Sent(n)) /\ (Held(n)' <=> Held(n))
  BY <1>4, <1>5, <1>6
<1>9. ASSUME NEW u \in Buddies \ {b}
      PROVE  SentTo(u)' = SentTo(u)
  <2>1. \A n \in Messages : n \in SentTo(u)' <=> n \in SentTo(u)
    BY <1>5, <1>6
  <2>2. SentTo(u)' \subseteq Messages /\ SentTo(u) \subseteq Messages
    BY <1>5, <1>7
  <2> QED
    BY <2>1, <2>2
<1>10. ~Sent(m)
  BY <1>3, HeldOnce
<1>11. CASE U = {}
  <2>1. ~Sent(m)' /\ SentTo(b)' = SentTo(b)
    BY <1>5, <1>7, <1>10, <1>11
  <2> QED
    BY <1>3, <1>8, <1>9, <2>1, TypesStep
<1>12. CASE U # {}
  <2>1. Sent(m)' /\ SentTo(b)' = SentTo(b) \cup {m}
    BY <1>5, <1>6, <1>7, <1>12
  <2> QED
    BY <1>3, <1>8, <1>9, <2>1, TypesStep
<1> QED
  BY <1>11, <1>12

LEMMA MovedRefines ==
  ASSUME TypeOK, TypeOK', BookInv, NEW a \in Accounts, Moved(a)
  PROVE  Delivery!Next
<1>1. PICK S \in SUBSET HeldIn(a) :
        /\ \A e, f \in S : e.user = f.user
        /\ \E T, U :
             /\ BookStep(a, S, T, U)
             /\ \/ T = {} /\ U = {}
                \/ U = {} /\ Copies(T, S)
                \/ T = {} /\ Copies(U, S)
  BY DEF Moved
<1>2. PICK T, U :
        /\ BookStep(a, S, T, U)
        /\ \/ T = {} /\ U = {}
           \/ U = {} /\ Copies(T, S)
           \/ T = {} /\ Copies(U, S)
  BY <1>1
<1>3. UNCHANGED <<status, addr>> /\ status[a] = "open"
  BY DEF Moved
<1>4. /\ \A n \in Messages : Sent(n)' <=> Sent(n) \/ \E e \in U : e.msg = n
      /\ \A u \in Buddies, n \in Messages :
           n \in SentTo(u)' <=> \/ n \in SentTo(u)
                                \/ \E e \in U : e.user = u /\ e.msg = n
      /\ \A u \in Buddies : SentTo(u)' \subseteq Messages
      /\ \A n \in Messages : Held(n)' => Held(n) \/ \E e \in T : e.msg = n
      /\ \A n \in Messages : Held(n) => Held(n)' \/ \E e \in S : e.msg = n
  BY <1>2, <1>3, StepRead
<1>5. Reading
  BY BooksRead
<1>6. \A e \in S : /\ e.msg \in Messages /\ e.user \in Buddies
                   /\ addr[e.msg] = e.user /\ Held(e.msg)
  BY <1>3, <1>5, HeldOnce DEF Reading, HeldByBook
<1>7. CASE U = {}
  <2>1. \A e \in T : \E f \in S : e.msg = f.msg
    BY <1>2, <1>7 DEF Copies
  <2>2. \A n \in Messages : Held(n)' => Held(n)
    BY <1>4, <1>6, <2>1
  <2>3. \A n \in Messages : Sent(n)' <=> Sent(n)
    BY <1>4, <1>7
  <2>4. \A u \in Buddies : SentTo(u)' = SentTo(u)
    BY <1>4, <1>5, <1>7 DEF Reading
  <2> QED
    BY <1>3, <2>2, <2>3, <2>4, LosesStep
<1>8. CASE U # {}
  <2> DEFINE L == {e.msg : e \in S}
  <2>1. T = {} /\ Copies(U, S)
    BY <1>2, <1>8
  <2>2. PICK s \in S : TRUE
    BY <1>8, <2>1 DEF Copies
  <2>3. PICK b \in Buddies : b = s.user
    BY <1>6
  <2>4. /\ \A n : n \in L <=> \E e \in S : e.msg = n
        /\ \A n : n \in L <=> \E e \in U : e.msg = n
        /\ \A e \in U : e.user = b
    BY <1>1, <2>1, <2>3 DEF Copies
  <2>5. L \in SUBSET Messages /\ \A n \in L : Held(n) /\ addr[n] = b
    BY <1>1, <1>6, <2>3
  <2> HIDE DEF L
  <2>6. \A n \in Messages : Sent(n)' <=> Sent(n) \/ n \in L
    BY <1>4, <2>4
  <2>7. \A u \in Buddies : SentTo(u) \subseteq Messages
    BY <1>5 DEF Reading
  <2>8. SentTo(b)' = SentTo(b) \cup L
    BY <1>4, <2>4, <2>5, <2>7
  <2>9. ASSUME NEW u \in Buddies \ {b}
        PROVE  SentTo(u)' = SentTo(u)
    <3>1. \A n \in Messages : n \in SentTo(u)' <=> n \in SentTo(u)
      BY <1>4, <2>4
    <3>2. SentTo(u)' \subseteq Messages /\ SentTo(u) \subseteq Messages
      BY <1>4, <2>7
    <3> QED
      BY <3>1, <3>2
  <2>10. \A n \in Messages \ L : Held(n)' <=> Held(n)
    BY <1>4, <2>1, <2>4
  <2> QED
    BY <1>3, <2>5, <2>6, <2>8, <2>9, <2>10, SendsStep
<1> QED
  BY <1>7, <1>8

(* While nothing is sent, no text becomes held that was not.               *)
LEMMA QuietRefines ==
  ASSUME TypeOK, TypeOK', BookInv, addr' = addr,
         \A a \in Accounts : SentIn(a)' = SentIn(a),
         \A m \in Messages : HeldByBook(m)' => HeldByBook(m)
  PROVE  Delivery!Next
<1>1. Reading /\ Reading'
  BY BooksRead, PTL
<1>2. ASSUME NEW m \in Messages
      PROVE  (Sent(m)' <=> Sent(m)) /\ (Held(m)' => Held(m))
  <2>1. /\ Held(m) <=> HeldByBook(m)
        /\ Sent(m) <=> \E a \in Accounts : \E e \in SentIn(a) : e.msg = m
    BY <1>1 DEF Reading
  <2>2. /\ Held(m)' <=> HeldByBook(m)'
        /\ Sent(m)' <=> \E a \in Accounts : \E e \in SentIn(a)' : e.msg = m
    BY <1>1 DEF Reading
  <2> QED
    BY <2>1, <2>2
<1>3. ASSUME NEW b \in Buddies
      PROVE  SentTo(b)' = SentTo(b)
  <2>1. SentTo(b) \subseteq Messages /\ SentTo(b)' \subseteq Messages
    BY <1>1 DEF Reading
  <2>2. \A m \in Messages : m \in SentTo(b) <=>
          \E a \in Accounts : \E e \in SentIn(a) : e.user = b /\ e.msg = m
    BY <1>1 DEF Reading
  <2>3. \A m \in Messages : m \in SentTo(b)' <=>
          \E a \in Accounts : \E e \in SentIn(a)' : e.user = b /\ e.msg = m
    BY <1>1 DEF Reading
  <2> QED
    BY <2>1, <2>2, <2>3
<1> QED
  BY <1>2, <1>3, LosesStep

LEMMA GrantedRefines ==
  ASSUME TypeOK, TypeOK', BookInv, NEW a \in Accounts, NEW c \in Channels, Granted(a, c)
  PROVE  Delivery!Next
<1>1. PICK e \in HeldIn(a) :
        /\ Opens(c, e.user)
        /\ HeldIn(a)' = HeldIn(a) \ {e}
        /\ \/ HeldIn(c)' = HeldIn(c)
           \/ \E f : /\ f.user = e.user /\ f.msg = e.msg
                     /\ HeldIn(c)' = HeldIn(c) \cup {f}
        /\ \A b \in Accounts \ {a, c} : HeldIn(b)' = HeldIn(b)
        /\ \A b \in Accounts : SentIn(b)' = SentIn(b)
  BY DEF Granted
<1>2. /\ status[c] = "unused" /\ a # c /\ c \in Accounts /\ status[a] = "open"
      /\ \A b \in Accounts \ {c} : status'[b] = status[b]
  BY <1>1 DEF Granted, Opens, Clone, TypeOK, Accounts
<1>3. HeldIn(c) = {}
  BY <1>2 DEF BookInv, Fresh
<1>4. \A f \in HeldIn(c)' : f.msg = e.msg
  BY <1>1, <1>3
<1>5. \A b \in Accounts \ {c} : HeldIn(b)' \subseteq HeldIn(b)
  BY <1>1
<1>6. ASSUME NEW m \in Messages, HeldByBook(m)'
      PROVE  HeldByBook(m)
  <2>1. PICK b \in Accounts : status'[b] = "open" /\ \E f \in HeldIn(b)' : f.msg = m
    BY <1>6 DEF HeldByBook
  <2>2. CASE b = c
    BY <1>2, <1>4, <2>1, <2>2 DEF HeldByBook
  <2>3. CASE b # c
    BY <1>2, <1>5, <2>1, <2>3 DEF HeldByBook
  <2> QED
    BY <2>2, <2>3
<1>7. addr' = addr
  BY DEF Granted
<1> QED
  BY <1>1, <1>6, <1>7, QuietRefines

LEMMA SteadyRefines ==
  ASSUME TypeOK, TypeOK', BookInv, Steady
  PROVE  Delivery!Next
<1>1. ASSUME NEW b \in Accounts, status'[b] = "open", HeldIn(b) # {}
      PROVE  status[b] = "open"
  <2>1. ASSUME NEW c \in Channels, NEW u, Opens(c, u)
        PROVE  status[b] = "open"
    <3>1. status[c] = "unused" /\ (b # c => status'[b] = status[b])
      BY <2>1 DEF Opens, Clone, TypeOK, Accounts
    <3>2. HeldIn(c) = {}
      BY <3>1 DEF BookInv, Fresh
    <3> QED
      BY <1>1, <3>1, <3>2
  <2>2. ASSUME NEW a \in Accounts, FreeAccount(a)
        PROVE  status[b] = "open"
    BY <1>1, <2>2 DEF FreeAccount, TypeOK
  <2> QED
    BY <1>1, <2>1, <2>2 DEF Steady
<1>2. \A m \in Messages : HeldByBook(m)' => HeldByBook(m)
  BY <1>1 DEF Steady, SameBooks, HeldByBook
<1> QED
  BY <1>2, QuietRefines DEF Steady, SameBooks

(* Whatever the server, the network and the user do, a typed text is sent  *)
(* at most once, only to its buddy, and never after it was given up.       *)
THEOREM DeliveryRefined == Spec => ImplementsDelivery
<1>1. Init => Delivery!Init
  <2> SUFFICES ASSUME Init
               PROVE  Delivery!Init
    OBVIOUS
  <2>1. \A a \in Accounts : emitted[a] = <<>>
    BY DEF Init
  <2>2. addr = [m \in Messages |-> None]
    BY DEF Init
  <2>3. \A m \in Messages : Fate(m) = "untyped"
    BY <2>2 DEF Fate
  <2>4. \A b \in Buddies : SentTo(b) = {}
    BY <2>1 DEF SentTo
  <2> QED
    BY <2>2, <2>3, <2>4 DEF Delivery!Init
<1>2. TypeOK /\ TypeOK' /\ CallidUnique /\ ListedIffOpen /\ BookInv /\ [Next]_vars
      => [Delivery!Next]_(Delivery!vars)
  BY StepKinds, SteadyRefines, TypedRefines, MovedRefines, GrantedRefines
<1> QED
  BY <1>1, <1>2, TypeCorrect, CallidsUnique, ListCorrect, BookInvariant, PTL
  DEF Spec, ImplementsDelivery
=============================================================================
