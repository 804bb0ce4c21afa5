-------------------------- MODULE ImChannelsProofs --------------------------
(***************************************************************************)
(* Every operation of ImChannels keeps its three invariants, whoever calls *)
(* it and when.                                                            *)
(***************************************************************************)
EXTENDS ImChannels, TLAPS

ChannelInv == ChannelTypeOK /\ AnnouncedIffListed /\ TextsKept

(* What the client does with the channel of c.                             *)
UseStep(c) ==
  \/ Request(c)
  \/ /\ c \in exported
     /\ \/ \E i \in DOMAIN channels[c].pending : Acknowledge(c, i)
        \/ Close(c)
        \/ Destroy(c)

(* What may happen to it.                                                  *)
ChannelStep(c) ==
  \/ UseStep(c)
  \/ status # "disconnected" /\ \E t \in Nat : Receive(c, t)

(* The account is connected.                                               *)
Connect ==
  /\ status # "disconnected" /\ status' = "connected"
  /\ UNCHANGED <<channels, exported, shown, read>>

LEMMA ChannelsInitially == ChannelsInit => ChannelInv
<1> SUFFICES ASSUME ChannelsInit PROVE ChannelInv
  OBVIOUS
<1>1. channels \in [{} -> Channels] /\ {} \in SUBSET Contacts
  BY DEF ChannelsInit
<1>2. channels # NULL
  BY <1>1, NullAssumption
<1>3. DOMAIN channels = {}
  BY <1>1
<1> QED
  BY <1>2, <1>3 DEF ChannelsInit, ChannelInv, ChannelTypeOK, Statuses,
                    AnnouncedIffListed, TextsKept

LEMMA ListedIs ==
  ASSUME ChannelInv, status # "disconnected"
  PROVE  /\ channels # NULL /\ exported = DOMAIN channels
         /\ exported \subseteq Contacts
         /\ channels \in [exported -> Channels]
BY DEF ChannelInv, ChannelTypeOK, AnnouncedIffListed

LEMMA ListedType ==
  ASSUME NEW D, D \subseteq Contacts, channels' \in [D -> Channels],
         exported' = D, status # "disconnected", status' = status,
         shown' \subseteq Contacts \X Nat, read' \subseteq Nat,
         status \in Statuses
  PROVE  ChannelTypeOK' /\ AnnouncedIffListed' /\ channels' # NULL
<1>1. channels' # NULL
  BY NullAssumption
<1> QED
  BY <1>1 DEF ChannelTypeOK, AnnouncedIffListed

(* A text is kept on its channel.                                          *)
Kept(p) ==
  p[1] \in exported /\ p[2] \in Range(channels[p[1]].pending)

LEMMA KeptIs ==
  ASSUME ChannelInv, status # "disconnected", NEW p \in shown
  PROVE  p[2] \in read \/ Kept(p)
BY DEF ChannelInv, TextsKept, Kept

LEMMA KeptAll ==
  ASSUME channels' # NULL, exported' = DOMAIN channels',
         \A p \in shown' : p[2] \in read' \/ Kept(p)'
  PROVE  TextsKept'
BY DEF TextsKept, Kept, IsOpen

LEMMA AppendRange ==
  ASSUME NEW S \in Seq(Nat), NEW t \in Nat
  PROVE  /\ Append(S, t) \in Seq(Nat)
         /\ t \in Range(Append(S, t))
         /\ Range(S) \subseteq Range(Append(S, t))
<1>1. /\ Append(S, t) \in Seq(Nat)
      /\ Len(Append(S, t)) = Len(S) + 1
      /\ Append(S, t)[Len(S) + 1] = t
      /\ \A i \in 1 .. Len(S) : Append(S, t)[i] = S[i]
      /\ Len(S) + 1 \in DOMAIN Append(S, t)
      /\ \A i \in DOMAIN S : i \in DOMAIN Append(S, t) /\ i \in 1 .. Len(S)
  OBVIOUS
<1> QED
  BY <1>1 DEF Range

LEMMA CutTexts ==
  ASSUME NEW X, NEW S \in Seq(X), NEW e \in 0 .. Len(S)
  PROVE  /\ SubSeq(S, e + 1, Len(S)) \in Seq(X)
         /\ Len(SubSeq(S, e + 1, Len(S))) = Len(S) - e
         /\ \A k \in 1 .. Len(S) - e : SubSeq(S, e + 1, Len(S))[k] = S[k + e]
         /\ SubSeq(S, 1, e) \in Seq(X)
         /\ Len(SubSeq(S, 1, e)) = e
         /\ \A k \in 1 .. e : SubSeq(S, 1, e)[k] = S[k]
OBVIOUS

LEMMA JoinedTexts ==
  ASSUME NEW S \in Seq(Nat), NEW T \in Seq(Nat)
  PROVE  /\ S \o T \in Seq(Nat)
         /\ DOMAIN (S \o T) = 1 .. Len(S) + Len(T)
         /\ \A k \in 1 .. Len(S) : (S \o T)[k] = S[k]
         /\ \A k \in 1 .. Len(T) : (S \o T)[Len(S) + k] = T[k]
OBVIOUS

LEMMA RemoveAtRange ==
  ASSUME NEW S \in Seq(Nat), NEW i \in DOMAIN S
  PROVE  /\ RemoveAt(S, i) \in Seq(Nat)
         /\ \A x \in Range(S) : x = S[i] \/ x \in Range(RemoveAt(S, i))
         /\ S[i] \in Nat
<1> DEFINE A == SubSeq(S, 1, i - 1)
           B == SubSeq(S, i + 1, Len(S))
<1>1. PICK l \in Nat : l = Len(S)
  OBVIOUS
<1>2. i \in 1 .. l /\ DOMAIN S = 1 .. l /\ S[i] \in Nat
  BY <1>1
<1>3. RemoveAt(S, i) = A \o B
  BY DEF RemoveAt
<1>4. A \in Seq(Nat) /\ Len(A) = i - 1 /\ \A k \in 1 .. i - 1 : A[k] = S[k]
  <2>1. i - 1 \in 0 .. Len(S)
    BY <1>1, <1>2
  <2> QED
    BY <2>1, CutTexts
<1>5. B \in Seq(Nat) /\ Len(B) = l - i /\ \A k \in 1 .. l - i : B[k] = S[k + i]
  <2>1. i \in 0 .. Len(S)
    BY <1>1, <1>2
  <2> QED
    BY <1>1, <2>1, CutTexts
<1> HIDE DEF A, B
<1>6. /\ A \o B \in Seq(Nat)
      /\ DOMAIN (A \o B) = 1 .. Len(A) + Len(B)
      /\ \A k \in 1 .. Len(A) : (A \o B)[k] = A[k]
      /\ \A k \in 1 .. Len(B) : (A \o B)[Len(A) + k] = B[k]
  BY <1>4, <1>5, JoinedTexts
<1>7. DOMAIN (A \o B) = 1 .. l - 1
  <2>1. i \in Int /\ l \in Int
    BY <1>1, <1>2
  <2>2. i - 1 + (l - i) = l - 1
    BY <2>1
  <2> QED
    BY <1>4, <1>5, <1>6, <2>2
<1>8. ASSUME NEW j \in DOMAIN S, j # i
      PROVE  \E k \in DOMAIN (A \o B) : (A \o B)[k] = S[j]
  <2>1. CASE j < i
    <3>1. j \in 1 .. i - 1 /\ j \in 1 .. l - 1
      BY <1>1, <1>2, <2>1
    <3>2. j \in 1 .. Len(A)
      BY <1>4, <3>1
    <3>3. (A \o B)[j] = A[j] /\ A[j] = S[j]
      BY <1>4, <1>6, <3>1, <3>2
    <3> QED
      BY <1>7, <3>1, <3>3
  <2>2. CASE j > i
    <3>1. PICK k \in 1 .. l - i : k + i = j
      <4>1. j - i \in 1 .. l - i /\ (j - i) + i = j
        BY <1>1, <1>2, <2>2
      <4> QED
        BY <4>1
    <3>2. k \in 1 .. Len(B)
      BY <1>5, <3>1
    <3>3. (A \o B)[Len(A) + k] = B[k] /\ B[k] = S[j]
      BY <1>5, <1>6, <3>1, <3>2
    <3>4. Len(A) + k = i - 1 + k /\ i - 1 + k \in 1 .. l - 1
      BY <1>1, <1>2, <1>4, <3>1
    <3> QED
      BY <1>7, <3>3, <3>4
  <2> QED
    BY <1>1, <1>2, <1>8, <2>1, <2>2
<1> QED
  BY <1>2, <1>3, <1>6, <1>8 DEF Range

LEMMA NewIs ==
  ASSUME NEW c \in Contacts \cup {Self}
  PROVE  NewChannel(c) \in Channels
BY DEF NewChannel, Channels

LEMMA RequestKeeps ==
  ASSUME ChannelInv, NEW c \in Contacts, Request(c)
  PROVE  ChannelInv'
<1>1. status # "disconnected" /\ status \in Statuses
  BY DEF Request, ChannelInv, ChannelTypeOK
<1>2. /\ channels # NULL /\ exported = DOMAIN channels
      /\ exported \subseteq Contacts /\ channels \in [exported -> Channels]
  BY <1>1, ListedIs
<1>3. CASE IsOpen(c)
  BY <1>3 DEF Request, ChannelInv, ChannelTypeOK, AnnouncedIffListed,
              TextsKept, IsOpen
<1>4. CASE ~IsOpen(c)
  <2>1. c \notin exported
    BY <1>2, <1>4 DEF IsOpen
  <2>2. /\ channels' = WithChannel(channels, c, NewChannel(Self))
        /\ exported' = exported \cup {c}
        /\ status' = status /\ shown' = shown /\ read' = read
    BY <1>4 DEF Request
  <2>3. /\ channels' \in [exported \cup {c} -> Channels]
        /\ \A d \in exported : channels'[d] = channels[d]
    <3>1. NewChannel(Self) \in Channels
      BY NewIs
    <3>2. \A d \in exported : d \in exported \ {c}
      BY <2>1
    <3>3. /\ WithChannel(channels, c, NewChannel(Self))
               \in [exported \cup {c} -> Channels]
          /\ \A d \in exported \ {c} :
               WithChannel(channels, c, NewChannel(Self))[d] = channels[d]
      BY <1>2, <3>1 DEF WithChannel
    <3> QED
      BY <2>2, <3>2, <3>3
  <2>4. ChannelTypeOK' /\ AnnouncedIffListed' /\ channels' # NULL
    <3>1. shown' \subseteq Contacts \X Nat /\ read' \subseteq Nat
          /\ exported \cup {c} \subseteq Contacts
      BY <1>2, <2>2 DEF ChannelInv, ChannelTypeOK
    <3> QED
      BY <1>1, <2>2, <2>3, <3>1, ListedType
  <2>5. ASSUME NEW p \in shown'
        PROVE  p[2] \in read' \/ Kept(p)'
    <3>1. p[2] \in read \/ Kept(p)
      BY <1>1, <2>2, KeptIs
    <3> QED
      BY <2>2, <2>3, <3>1 DEF Kept
  <2>6. exported' = DOMAIN channels'
    BY <2>2, <2>3
  <2> QED
    BY <2>4, <2>5, <2>6, KeptAll DEF ChannelInv
<1> QED
  BY <1>3, <1>4

LEMMA ReceiveKeeps ==
  ASSUME ChannelInv, NEW c \in Contacts, NEW t \in Nat,
         status # "disconnected", Receive(c, t)
  PROVE  ChannelInv'
<1> DEFINE old == ChannelFor(c)
           chan == [old EXCEPT !.pending = Append(@, t)]
<1>1. /\ channels # NULL /\ exported = DOMAIN channels
      /\ exported \subseteq Contacts /\ channels \in [exported -> Channels]
  BY ListedIs
<1>2. /\ channels' = WithChannel(channels, c, chan)
      /\ exported' = exported \cup {c}
      /\ shown' = shown \cup {<<c, t>>}
      /\ status' = status /\ read' = read
  BY DEF Receive
<1>3. old \in Channels /\ (c \in exported => old = channels[c])
  BY <1>1, NewIs DEF ChannelFor, IsOpen
<1>4. old.pending \in Seq(Nat)
  BY <1>3 DEF Channels
<1>5. chan \in Channels /\ chan.pending = Append(old.pending, t)
  <2>1. Append(old.pending, t) \in Seq(Nat)
    BY <1>4, AppendRange
  <2> QED
    BY <1>3, <2>1 DEF Channels
<1> HIDE DEF old, chan
<1>6. /\ channels' \in [exported \cup {c} -> Channels]
      /\ channels'[c] = chan
      /\ \A d \in exported \ {c} : channels'[d] = channels[d]
  BY <1>1, <1>2, <1>5 DEF WithChannel
<1>7. ChannelTypeOK' /\ AnnouncedIffListed' /\ channels' # NULL
  <2>1. shown' \subseteq Contacts \X Nat /\ read' \subseteq Nat
        /\ exported \cup {c} \subseteq Contacts /\ status \in Statuses
    BY <1>1, <1>2 DEF ChannelInv, ChannelTypeOK
  <2> QED
    BY <1>2, <1>6, <2>1, ListedType
<1>8. ASSUME NEW p \in shown'
      PROVE  p[2] \in read' \/ Kept(p)'
  <2>1. CASE p = <<c, t>>
    BY <1>2, <1>4, <1>5, <1>6, <2>1, AppendRange DEF Kept
  <2>2. CASE p \in shown
    <3>1. p[2] \in read \/ Kept(p)
      BY <2>2, KeptIs
    <3>2. CASE p[2] \in read
      BY <1>2, <3>2
    <3>3. CASE Kept(p) /\ p[1] = c
      <4>1. p[2] \in Range(old.pending)
        BY <1>3, <3>3 DEF Kept
      <4>2. p[2] \in Range(chan.pending)
        BY <1>4, <1>5, <4>1, AppendRange
      <4> QED
        BY <1>2, <1>6, <3>3, <4>2 DEF Kept
    <3>4. CASE Kept(p) /\ p[1] # c
      BY <1>2, <1>6, <3>4 DEF Kept
    <3> QED
      BY <3>1, <3>2, <3>3, <3>4
  <2> QED
    BY <1>2, <2>1, <2>2
<1>9. exported' = DOMAIN channels'
  BY <1>2, <1>6
<1> QED
  BY <1>7, <1>8, <1>9, KeptAll DEF ChannelInv

(* One channel is changed: what waited on it is read, or waits on.         *)
LEMMA ChangeKeeps ==
  ASSUME ChannelInv, NEW c \in exported, status # "disconnected",
         status' = status, shown' = shown, exported' = exported,
         NEW chan \in Channels, channels' = [channels EXCEPT ![c] = chan],
         read \subseteq read', read' \subseteq Nat,
         \A t \in Range(channels[c].pending) :
           t \in read' \/ t \in Range(chan.pending)
  PROVE  ChannelInv'
<1>1. /\ channels # NULL /\ exported = DOMAIN channels
      /\ exported \subseteq Contacts /\ channels \in [exported -> Channels]
  BY ListedIs
<1>2. /\ channels' \in [exported -> Channels]
      /\ channels'[c] = chan
      /\ \A d \in exported \ {c} : channels'[d] = channels[d]
  BY <1>1
<1>3. ChannelTypeOK' /\ AnnouncedIffListed' /\ channels' # NULL
  <2>1. shown' \subseteq Contacts \X Nat /\ status \in Statuses
    BY DEF ChannelInv, ChannelTypeOK
  <2> QED
    BY <1>1, <1>2, <2>1, ListedType
<1>4. ASSUME NEW p \in shown'
      PROVE  p[2] \in read' \/ Kept(p)'
  <2>1. p[2] \in read \/ Kept(p)
    BY KeptIs
  <2>2. CASE Kept(p) /\ p[1] = c
    BY <1>2, <2>2 DEF Kept
  <2>3. CASE Kept(p) /\ p[1] # c
    BY <1>2, <2>3 DEF Kept
  <2> QED
    BY <2>1, <2>2, <2>3
<1>5. exported' = DOMAIN channels'
  BY <1>2
<1> QED
  BY <1>3, <1>4, <1>5, KeptAll DEF ChannelInv

(* One channel goes, with nothing on it that is not read.                  *)
LEMMA GoneKeeps ==
  ASSUME ChannelInv, NEW c \in exported, status # "disconnected",
         status' = status, shown' = shown, Gone(c),
         read \subseteq read', read' \subseteq Nat,
         Range(channels[c].pending) \subseteq read'
  PROVE  ChannelInv'
<1>1. /\ channels # NULL /\ exported = DOMAIN channels
      /\ exported \subseteq Contacts /\ channels \in [exported -> Channels]
  BY ListedIs
<1>2. /\ exported' = exported \ {c}
      /\ channels' \in [exported \ {c} -> Channels]
      /\ \A d \in exported \ {c} : channels'[d] = channels[d]
  BY <1>1 DEF Gone, WithoutChannel
<1>3. ChannelTypeOK' /\ AnnouncedIffListed' /\ channels' # NULL
  <2>1. shown' \subseteq Contacts \X Nat /\ status \in Statuses
        /\ exported \ {c} \subseteq Contacts
    BY <1>1 DEF ChannelInv, ChannelTypeOK
  <2> QED
    BY <1>2, <2>1, ListedType
<1>4. ASSUME NEW p \in shown'
      PROVE  p[2] \in read' \/ Kept(p)'
  <2>1. p[2] \in read \/ Kept(p)
    BY KeptIs
  <2>2. CASE Kept(p) /\ p[1] = c
    BY <2>2 DEF Kept
  <2>3. CASE Kept(p) /\ p[1] # c
    BY <1>2, <2>3 DEF Kept
  <2> QED
    BY <2>1, <2>2, <2>3
<1>5. exported' = DOMAIN channels'
  BY <1>2
<1> QED
  BY <1>3, <1>4, <1>5, KeptAll DEF ChannelInv

LEMMA UseKeeps ==
  ASSUME ChannelInv, NEW c \in exported,
         \/ \E i \in DOMAIN channels[c].pending : Acknowledge(c, i)
         \/ Close(c)
         \/ Destroy(c)
  PROVE  ChannelInv'
<1>1. status # "disconnected" /\ status' = status /\ shown' = shown
  BY DEF Acknowledge, Close, Destroy
<1>2. /\ channels # NULL /\ exported = DOMAIN channels
      /\ exported \subseteq Contacts /\ channels \in [exported -> Channels]
      /\ read \subseteq Nat
  BY <1>1, ListedIs DEF ChannelInv, ChannelTypeOK
<1> DEFINE old == channels[c]
           texts == old.pending
<1>3. old \in Channels /\ texts \in Seq(Nat)
  BY <1>2 DEF Channels
<1>4. ASSUME NEW i \in DOMAIN texts, Acknowledge(c, i)
      PROVE  ChannelInv'
  <2> DEFINE chan == [old EXCEPT !.pending = RemoveAt(@, i)]
  <2>1. /\ RemoveAt(texts, i) \in Seq(Nat) /\ texts[i] \in Nat
        /\ \A x \in Range(texts) : x = texts[i] \/ x \in Range(RemoveAt(texts, i))
    BY <1>3, RemoveAtRange
  <2>2. chan \in Channels /\ chan.pending = RemoveAt(texts, i)
    BY <1>3, <2>1 DEF Channels
  <2>3. /\ channels' = [channels EXCEPT ![c] = chan]
        /\ read' = read \cup {texts[i]} /\ exported' = exported
    BY <1>4 DEF Acknowledge
  <2>4. /\ read \subseteq read' /\ read' \subseteq Nat
        /\ \A x \in Range(texts) : x \in read' \/ x \in Range(chan.pending)
    BY <1>2, <2>1, <2>2, <2>3
  <2> HIDE DEF chan
  <2> QED
    BY <1>1, <2>2, <2>3, <2>4, ChangeKeeps
<1>5. CASE Close(c) /\ texts # <<>>
  <2> DEFINE chan == [old EXCEPT !.initiator = c]
  <2>1. chan \in Channels /\ chan.pending = texts
    BY <1>2, <1>3 DEF Channels
  <2>2. channels' = [channels EXCEPT ![c] = chan] /\ exported' = exported
        /\ read' = read
    BY <1>5 DEF Close, Reopen
  <2> HIDE DEF chan
  <2> QED
    BY <1>1, <1>2, <2>1, <2>2, ChangeKeeps
<1>6. CASE Close(c) /\ texts = <<>>
  <2>1. Range(texts) = {}
    BY <1>6 DEF Range
  <2>2. Gone(c) /\ read' = read
    BY <1>6 DEF Close
  <2> QED
    BY <1>1, <1>2, <2>1, <2>2, GoneKeeps
<1>7. CASE Destroy(c)
  <2>1. Range(texts) \subseteq Nat
    BY <1>3 DEF Range
  <2>2. Gone(c) /\ read' = read \cup Range(texts)
    BY <1>7 DEF Destroy
  <2> QED
    BY <1>1, <1>2, <2>1, <2>2, GoneKeeps
<1> QED
  BY <1>4, <1>5, <1>6, <1>7

LEMMA ChannelStepKeeps ==
  ASSUME ChannelInv,
         \/ ChannelsStay
         \/ CloseAll
         \/ Connect
         \/ \E c \in Contacts : ChannelStep(c)
  PROVE  ChannelInv'
<1>1. CASE ChannelsStay
  BY <1>1 DEF ChannelsStay, channelVars, ChannelInv, ChannelTypeOK,
              AnnouncedIffListed, TextsKept, IsOpen
<1>2. CASE CloseAll
  BY <1>2 DEF CloseAll, ChannelInv, ChannelTypeOK, AnnouncedIffListed,
              TextsKept, Statuses
<1>3. CASE Connect
  BY <1>3 DEF Connect, ChannelInv, ChannelTypeOK, AnnouncedIffListed,
              TextsKept, IsOpen, Statuses
<1>4. ASSUME NEW c \in Contacts, ChannelStep(c)
      PROVE  ChannelInv'
  BY <1>4, RequestKeeps, ReceiveKeeps, UseKeeps DEF ChannelStep, UseStep
<1> QED
  BY <1>1, <1>2, <1>3, <1>4
=============================================================================
