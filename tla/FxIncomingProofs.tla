-------------------------- MODULE FxIncomingProofs --------------------------
(***************************************************************************)
(* Proofs about FxIncoming, for any contacts, sizes and bounds: its type   *)
(* invariant; that the loop of hybrid_push_cb cuts the stream at the       *)
(* messages however the reads cut it, and leaves none behind; that the     *)
(* client knows the channels there are and that these keep their texts;    *)
(* which acknowledged texts are shown; and that the texts of a contact     *)
(* behave as module Inbox promises, and so wait in their order.            *)
(***************************************************************************)
EXTENDS FxStreamProofs, ImChannelsProofs

Auth == <<"auth", Self>>

IsOk(m) == m.type = "auth" /\ m.code = "ok"

StreamTypeOK ==
  /\ sent \in Seq(Messages)
  /\ wire \in Seq([of : DOMAIN sent, part : Parts])
  /\ buffer \in Seq([of : DOMAIN sent, part : Parts])
  /\ handled \in Seq(Seq([of : DOMAIN sent, part : Parts]))

SessionTypeOK ==
  /\ checking \in BOOLEAN
  /\ session \in Sessions
  /\ trans \subseteq Requests
  /\ sid \subseteq buddies /\ buddies \subseteq Contacts
  /\ acked \subseteq DOMAIN sent
  /\ crashed \in BOOLEAN

(* What is in the buffer and still on the wire are the messages not        *)
(* handled; while the watch is there, to the end.                          *)
Fits(start) ==
  /\ Placed(start, Len(handled), sent, buffer \o wire)
  /\ Reading => Len(buffer \o wire) = start[Len(sent) + 1] - 1

StreamInv ==
  /\ HandledInOrder
  /\ ~crashed => \E start : Fits(start)

(* The authentication is answered before anything else, and accepted once. *)
AuthInv ==
  /\ \A d \in DOMAIN sent : sent[d].type = "dereg" =>
       \E i \in 1 .. d - 1 : IsOk(sent[i])
  /\ \A i \in DOMAIN sent : IsOk(sent[i]) /\ i <= Len(handled) =>
       session \in {"open", "closed", "freed"} /\ Auth \notin trans
  /\ Reading \/ checking =>
       \A i \in DOMAIN sent : sent[i].type = "auth" /\ i > Len(handled) =>
         /\ Auth \in trans
         /\ \A k \in DOMAIN sent :
              sent[k].type = "auth" /\ k > Len(handled) => k = i
  /\ ~Reading => Auth \notin trans
  /\ Reading => status # "disconnected"
  /\ \A i, k \in DOMAIN sent : IsOk(sent[i]) /\ IsOk(sent[k]) => i = k

(* The buddies of the list have a sid while the session is open.           *)
ListInv ==
  /\ session = "open" =>
       \E i \in DOMAIN sent : IsOk(sent[i]) /\ i <= Len(handled)
  /\ session = "open" =>
       \A i \in DOMAIN sent : IsOk(sent[i]) => sent[i].list \subseteq sid
  /\ acked # {} =>
       \E i \in DOMAIN sent : IsOk(sent[i]) /\ i <= Len(handled)

IInv ==
  /\ StreamTypeOK /\ SessionTypeOK
  /\ StreamInv /\ AuthInv /\ ListInv
  /\ ChannelInv
  /\ NothingWaits /\ AckedIffShown

LEMMA TypeParts == TypeOK <=> ChannelTypeOK /\ StreamTypeOK /\ SessionTypeOK
BY DEF TypeOK, StreamTypeOK, SessionTypeOK

LEMMA MessageIs ==
  ASSUME NEW m \in Messages
  PROVE  /\ m.type \in {"auth", "added", "info", "text", "presence", "dereg", "other"}
         /\ m.type \in {"added", "info", "text", "presence"} => m.who \in Contacts
         /\ m.type = "auth" => m.who = Self /\ m.list \subseteq Contacts
         /\ m.type = "auth" /\ ~IsOk(m) => m.list = {}
         /\ m \in Answers => m.type \in {"auth", "added", "info"}
         /\ m.type \in {"auth", "added", "info"} => m \in Answers
BY DEF Messages, Answers, Pushes, IsOk

LEMMA RequestIs ==
  ASSUME NEW m \in Messages
  PROVE  m.type = "auth" => RequestOf(m) = Auth
BY MessageIs DEF RequestOf, Auth

LEMMA AuthOnly ==
  ASSUME NEW m \in Messages
  PROVE  m.type # "auth" => RequestOf(m) # Auth
BY DEF RequestOf, Auth

LEMMA Wider ==
  ASSUME NEW X, NEW Y, X \subseteq Y
  PROVE  Seq(X) \subseteq Seq(Y)
OBVIOUS

LEMMA StreamAny ==
  ASSUME StreamTypeOK
  PROVE  /\ buffer \in Seq(AnyCell) /\ wire \in Seq(AnyCell)
         /\ Len(handled) \in Nat /\ Len(sent) \in Nat
         /\ DOMAIN sent = 1 .. Len(sent)
         /\ DOMAIN handled = 1 .. Len(handled)
<1>1. sent \in Seq(Messages)
  BY DEF StreamTypeOK
<1>2. DOMAIN sent = 1 .. Len(sent) /\ Len(sent) \in Nat
  BY <1>1
<1>3. [of : DOMAIN sent, part : Parts] \subseteq AnyCell
  BY <1>2 DEF AnyCell
<1>4. buffer \in Seq(AnyCell) /\ wire \in Seq(AnyCell)
  BY <1>3, Wider DEF StreamTypeOK
<1>5. Len(handled) \in Nat /\ DOMAIN handled = 1 .. Len(handled)
  BY DEF StreamTypeOK
<1> QED
  BY <1>2, <1>4, <1>5

(* What the loop of hybrid_push_cb takes out of the buffer.                *)
LEMMA HandleFacts ==
  ASSUME IInv, ~crashed, HandleMessage
  PROVE  /\ Len(handled) + 1 \in 1 .. Len(sent)
         /\ sent[Len(handled) + 1] \in Messages
         /\ MessageEnd \in 2 .. 4
         /\ MessageEnd = Size(sent[Len(handled) + 1])
         /\ MessageEnd <= Len(buffer)
         /\ ProcessPushed(sent[Len(handled) + 1], Len(handled) + 1)
         /\ handled' = Append(handled, Cells(Len(handled) + 1,
                                             sent[Len(handled) + 1]))
         /\ checking /\ checking' /\ sent' = sent
<1> DEFINE h == Len(handled)
<1>1. StreamTypeOK /\ HandledInOrder /\ h \in Nat /\ Len(sent) \in Nat
      /\ h <= Len(sent) /\ buffer \in Seq(AnyCell) /\ wire \in Seq(AnyCell)
      /\ sent \in Seq(Messages)
  BY StreamAny DEF IInv, StreamInv, HandledInOrder, StreamTypeOK
<1>2. PICK start : Placed(start, h, sent, buffer \o wire)
  BY DEF IInv, StreamInv, Fits
<1>3. checking /\ HasMessage /\ sent' = sent /\ checking' = checking
      /\ handled' = Append(handled, SubSeq(buffer, 1, MessageEnd))
      /\ ProcessPushed(sent[buffer[1].of], buffer[1].of)
  BY DEF HandleMessage
<1>4. Blanks # {} /\ MessageEnd <= Len(buffer)
  BY <1>3 DEF HasMessage
<1> HIDE DEF h
<1>5. /\ buffer \o wire \in Seq(AnyCell)
      /\ Len(buffer) <= Len(buffer \o wire)
      /\ \A k \in 1 .. Len(buffer) : buffer[k] = (buffer \o wire)[k]
  <2>1. Len(buffer) \in Nat /\ Len(wire) \in Nat
    BY <1>1
  <2> QED
    BY <1>1, <2>1, JoinedCells
<1>6. Placed(start, h, sent, buffer)
  BY <1>1, <1>2, <1>5, PlacedPrefix
<1>7. /\ h + 1 \in 1 .. Len(sent)
      /\ buffer[1].of = h + 1
      /\ MessageEnd = Size(sent[h + 1])
      /\ MessageEnd \in 2 .. 4
      /\ SubSeq(buffer, 1, MessageEnd) = Cells(h + 1, sent[h + 1])
  BY <1>1, <1>4, <1>6, FrontIs
<1>8. sent[h + 1] \in Messages
  BY <1>1, <1>7
<1> QED
  BY <1>3, <1>4, <1>7, <1>8 DEF h

(* What a handler does to the stream and the session.                      *)
LEMMA HandlerFrame ==
  ASSUME NEW m \in Messages, NEW t, ProcessPushed(m, t)
  PROVE  /\ buffer' = Rest \/ (buffer' = <<>> /\ crashed' = (Rest # <<>>))
         /\ \/ wire' = wire
            \/ wire' = <<>> /\ session' = "closed"
         /\ \/ UNCHANGED session
            \/ /\ m.type = "auth" /\ RequestOf(m) \in trans
               /\ session' \in {"open", "challenged", "refused"}
               /\ wire' = wire
            \/ session' = "closed" /\ wire' = <<>>
<1>1. CASE AuthAccepted(m)
  BY <1>1 DEF AuthAccepted, Moved, IsAwaited
<1>2. CASE AuthFails(m)
  BY <1>2 DEF AuthFails, MovedFreed, IsAwaited
<1>3. CASE BuddyAdded(m) \/ InfoReceived(m)
  BY <1>3 DEF BuddyAdded, InfoReceived, Moved
<1>4. CASE Presence(m) \/ AckFails(m) \/ Ignored(m)
  BY <1>4 DEF Presence, AckFails, Ignored, Moved
<1>5. CASE TextShown(m, t) \/ TextDropped(m, t)
  BY <1>5 DEF TextShown, TextDropped, Moved
<1>6. CASE Deregistered(m) \/ ChallengeUnreadable(m)
  BY <1>6 DEF Deregistered, ChallengeUnreadable, CloseSession
<1> QED
  BY <1>1, <1>2, <1>3, <1>4, <1>5, <1>6 DEF ProcessPushed

LEMMA RestIs ==
  ASSUME NEW X, buffer \in Seq(X), MessageEnd \in 0 .. Len(buffer)
  PROVE  Rest \in Seq(X)
BY DEF Rest

LEMMA SubSeqIn ==
  ASSUME NEW X, NEW S \in Seq(X), NEW n \in Nat, n <= Len(S)
  PROVE  SubSeq(S, 1, n) \in Seq(X) /\ SubSeq(S, n + 1, Len(S)) \in Seq(X)
OBVIOUS

(* The steps that leave the stream as it is.                               *)
Quiet ==
  /\ UNCHANGED <<sent, wire, buffer, handled, acked, contactVars>>
  /\ crashed' \in BOOLEAN
  /\ checking' = checking \/ (checking' = FALSE /\ ~HasMessage)
  /\ \/ UNCHANGED <<session, trans>>
     \/ /\ session = "challenged" /\ session' = "auth"
        /\ trans' = trans \cup {Auth}
     \/ /\ UNCHANGED session
        /\ \E c \in Contacts : trans' = trans \cup {<<"added", c>>}
  /\ ChannelsStay \/ \E c \in Contacts : UseStep(c)

(* The steps that end the session from outside the loop.                   *)
Ends ==
  /\ ~checking /\ checking' = checking
  /\ UNCHANGED <<sent, handled, acked, shown>>
  /\ buffer' = <<>> /\ wire' = <<>>
  /\ session' \in {"closed", "freed"}
  /\ trans' = {} /\ buddies' = {} /\ sid' = {}
  /\ crashed' \in BOOLEAN
  /\ ChannelsStay \/ CloseAll

LEMMA Steps ==
  ASSUME IInv, Next
  PROVE  \/ \E m \in Messages : ServerWrites(m)
         \/ \E n \in 1 .. BufLength : Recv(n)
         \/ HandleMessage
         \/ Quiet
         \/ Ends
<1>1. ~crashed /\ crashed \in BOOLEAN
  BY DEF Next, IInv, SessionTypeOK
<1>2. CASE PushReturns
  BY <1>1, <1>2 DEF PushReturns, Quiet
<1>3. CASE PushFails
  BY <1>1, <1>3 DEF PushFails, Ends, CloseSession, Forgotten, CloseAll
<1>4. CASE PushEnds
  BY <1>1, <1>4 DEF PushEnds, Ends, Forgotten, ChannelsStay, channelVars
<1>5. CASE CodeEntered
  BY <1>1, <1>5 DEF CodeEntered, Quiet, streamVars, Auth
<1>6. CASE SetOffline
  BY <1>1, <1>6 DEF SetOffline, Ends, CloseSession, Forgotten, Undefined,
                    ChannelsStay, channelVars
<1>7. CASE Disconnect
  BY <1>1, <1>7 DEF Disconnect, Ends, CloseSession, Forgotten, Undefined,
                    CloseAll
<1>8. CASE UseFreed
  BY <1>1, <1>8 DEF UseFreed, Quiet, streamVars
<1>9. ASSUME NEW c \in Contacts, AddContact(c) PROVE Quiet
  BY <1>1, <1>9 DEF AddContact, Quiet, streamVars
<1>10. ASSUME NEW c \in Contacts, UseChannel(c) PROVE Quiet
  BY <1>1, <1>10 DEF UseChannel, Quiet, UseStep, streamVars
<1> QED
  BY <1>2, <1>3, <1>4, <1>5, <1>6, <1>7, <1>8, <1>9, <1>10 DEF Next, Push

LEMMA MoreCells ==
  ASSUME NEW X, NEW Y, X \subseteq Y
  PROVE  /\ Seq([of : X, part : Parts]) \subseteq Seq([of : Y, part : Parts])
         /\ Seq(Seq([of : X, part : Parts]))
              \subseteq Seq(Seq([of : Y, part : Parts]))
<1>1. [of : X, part : Parts] \subseteq [of : Y, part : Parts]
  OBVIOUS
<1>2. Seq([of : X, part : Parts]) \subseteq Seq([of : Y, part : Parts])
  BY <1>1, Wider
<1> DEFINE P == Seq([of : X, part : Parts])
           Q == Seq([of : Y, part : Parts])
<1> HIDE DEF P, Q
<1>3. P \subseteq Q
  BY <1>2 DEF P, Q
<1>4. Seq(P) \subseteq Seq(Q)
  BY <1>3, Wider
<1> QED
  BY <1>2, <1>4 DEF P, Q

LEMMA JoinedIn ==
  ASSUME NEW X, NEW S \in Seq(X), NEW T \in Seq(X)
  PROVE  S \o T \in Seq(X)
OBVIOUS

LEMMA StreamTypeKept ==
  ASSUME IInv, Next
  PROVE  StreamTypeOK'
<1> DEFINE C == [of : DOMAIN sent, part : Parts]
<1>1. /\ sent \in Seq(Messages) /\ wire \in Seq(C) /\ buffer \in Seq(C)
      /\ handled \in Seq(Seq(C)) /\ ~crashed
  BY DEF IInv, StreamTypeOK, Next
<1>2. \A m \in Messages : ServerWrites(m) => StreamTypeOK'
  <2> TAKE m \in Messages
  <2> HAVE ServerWrites(m)
  <2> DEFINE n == Len(sent) + 1
             D == [of : DOMAIN sent', part : Parts]
  <2>1. /\ sent' = Append(sent, m) /\ wire' = wire \o Cells(n, m)
        /\ buffer' = buffer /\ handled' = handled
    BY DEF ServerWrites
  <2>2. /\ sent' \in Seq(Messages) /\ DOMAIN sent \subseteq DOMAIN sent'
        /\ n \in DOMAIN sent' /\ n \in Nat
    BY <1>1, <2>1
  <2>3. /\ wire \in Seq(D) /\ buffer' \in Seq(D) /\ handled' \in Seq(Seq(D))
    BY <1>1, <2>1, <2>2, MoreCells
  <2>4. Cells(n, m) \in Seq(D)
    <3>1. \A p \in Parts : Cell(n, p) \in D
      BY <2>2 DEF Cell
    <3> HIDE DEF D, n
    <3> QED
      BY <2>2, <3>1, CellsOver
  <2> HIDE DEF D, n
  <2>5. wire' \in Seq(D)
    BY <2>1, <2>3, <2>4, JoinedIn
  <2> QED
    BY <2>2, <2>3, <2>5 DEF StreamTypeOK, D
<1>3. \A n \in 1 .. BufLength : Recv(n) => StreamTypeOK'
  <2> TAKE n \in 1 .. BufLength
  <2> HAVE Recv(n)
  <2>1. /\ n <= Len(wire) /\ sent' = sent /\ handled' = handled /\ n \in Nat
        /\ buffer' = buffer \o SubSeq(wire, 1, n)
        /\ wire' = SubSeq(wire, n + 1, Len(wire))
    BY SizeAssumption DEF Recv
  <2> HIDE DEF C
  <2>2. SubSeq(wire, 1, n) \in Seq(C) /\ wire' \in Seq(C)
    BY <1>1, <2>1, SubSeqIn
  <2>3. buffer' \in Seq(C)
    BY <1>1, <2>1, <2>2, JoinedIn
  <2> QED
    BY <1>1, <2>1, <2>2, <2>3 DEF StreamTypeOK, C
<1>4. CASE HandleMessage
  <2> DEFINE t == Len(handled) + 1
  <2>1. /\ t \in 1 .. Len(sent) /\ sent[t] \in Messages
        /\ ProcessPushed(sent[t], t)
        /\ handled' = Append(handled, Cells(t, sent[t]))
        /\ MessageEnd \in 2 .. 4 /\ MessageEnd <= Len(buffer) /\ sent' = sent
    BY <1>1, <1>4, HandleFacts
  <2>2. t \in DOMAIN sent /\ t \in Nat
    BY <1>1, <2>1
  <2> HIDE DEF t
  <2>3. Cells(t, sent[t]) \in Seq(C)
    <3>1. \A p \in Parts : Cell(t, p) \in C
      BY <2>2 DEF Cell
    <3> HIDE DEF C
    <3> QED
      BY <2>1, <2>2, <3>1, CellsOver
  <2> HIDE DEF C
  <2>4. handled' \in Seq(Seq(C))
    BY <1>1, <2>1, <2>3
  <2>5. Rest \in Seq(C)
    <3>1. MessageEnd \in 0 .. Len(buffer)
      BY <1>1, <2>1
    <3> QED
      BY <1>1, <3>1, RestIs
  <2>6. <<>> \in Seq(C)
    OBVIOUS
  <2>7. buffer' \in Seq(C) /\ wire' \in Seq(C)
    BY <1>1, <2>1, <2>5, <2>6, HandlerFrame
  <2> QED
    BY <1>1, <2>1, <2>4, <2>7 DEF StreamTypeOK, C
<1>5. CASE Quiet
  BY <1>1, <1>5 DEF Quiet, StreamTypeOK
<1>6. CASE Ends
  BY <1>1, <1>6 DEF Ends, StreamTypeOK
<1> QED
  BY <1>2, <1>3, <1>4, <1>5, <1>6, Steps

LEMMA SessionTypeKept ==
  ASSUME IInv, Next
  PROVE  SessionTypeOK'
<1>1. /\ SessionTypeOK /\ sent \in Seq(Messages) /\ ~crashed
  BY DEF IInv, StreamTypeOK, Next
<1>2. \A m \in Messages : ServerWrites(m) => SessionTypeOK'
  <2> TAKE m \in Messages
  <2> HAVE ServerWrites(m)
  <2>1. sent' = Append(sent, m) /\ DOMAIN sent \subseteq DOMAIN sent'
    BY <1>1 DEF ServerWrites
  <2> QED
    BY <1>1, <2>1 DEF ServerWrites, SessionTypeOK, contactVars
<1>3. \A n \in 1 .. BufLength : Recv(n) => SessionTypeOK'
  <2> TAKE n \in 1 .. BufLength
  <2> HAVE Recv(n)
  <2>1. crashed' \in BOOLEAN
    BY DEF Recv, Undefined
  <2> QED
    BY <1>1, <2>1 DEF Recv, SessionTypeOK, contactVars
<1>4. CASE HandleMessage
  <2> DEFINE t == Len(handled) + 1
             m == sent[t]
  <2>1. /\ t \in 1 .. Len(sent) /\ m \in Messages /\ ProcessPushed(m, t)
        /\ sent' = sent /\ checking' = checking
    BY <1>1, <1>4, HandleFacts
  <2>2. t \in DOMAIN sent
    BY <1>1, <2>1
  <2> HIDE DEF t, m
  <2>3. CASE AuthAccepted(m)
    <3>1. m.list \subseteq Contacts /\ crashed' = crashed
      BY <2>1, <2>3, MessageIs DEF AuthAccepted, Moved
    <3> QED
      BY <1>1, <2>1, <2>3, <3>1 DEF AuthAccepted, SessionTypeOK, Sessions
  <2>4. CASE AuthFails(m)
    BY <1>1, <2>1, <2>4 DEF AuthFails, MovedFreed, SessionTypeOK, Sessions,
                            contactVars
  <2>5. CASE BuddyAdded(m) \/ InfoReceived(m)
    <3>1. m.who \in Contacts /\ crashed' = crashed
      BY <2>1, <2>5, MessageIs DEF BuddyAdded, InfoReceived, Moved
    <3> QED
      BY <1>1, <2>1, <2>5, <3>1 DEF BuddyAdded, InfoReceived, SessionTypeOK
  <2>6. CASE Presence(m)
    <3>1. \A c \in Contacts : <<"info", c>> \in Requests
      BY DEF Requests
    <3>2. trans' \subseteq Requests
      BY <1>1, <2>6, <3>1 DEF Presence, SessionTypeOK
    <3> QED
      BY <1>1, <2>1, <2>6, <3>2 DEF Presence, Moved, SessionTypeOK, contactVars
  <2>7. CASE AckFails(m) \/ Ignored(m)
    BY <1>1, <2>1, <2>7 DEF AckFails, Ignored, Moved, SessionTypeOK, contactVars
  <2>8. CASE TextShown(m, t) \/ TextDropped(m, t)
    BY <1>1, <2>1, <2>2, <2>8 DEF TextShown, TextDropped, Moved, SessionTypeOK,
                                  contactVars
  <2>9. CASE Deregistered(m) \/ ChallengeUnreadable(m)
    BY <1>1, <2>1, <2>9 DEF Deregistered, ChallengeUnreadable, CloseSession,
                            SessionTypeOK, Sessions
  <2> QED
    BY <2>1, <2>3, <2>4, <2>5, <2>6, <2>7, <2>8, <2>9 DEF ProcessPushed
<1>5. CASE Quiet
  <2>1. Auth \in Requests /\ \A c \in Contacts : <<"added", c>> \in Requests
    BY DEF Auth, Requests
  <2>2. trans' \subseteq Requests
    BY <1>1, <1>5, <2>1 DEF Quiet, SessionTypeOK
  <2> QED
    BY <1>1, <1>5, <2>2 DEF Quiet, SessionTypeOK, Sessions, contactVars
<1>6. CASE Ends
  BY <1>1, <1>6 DEF Ends, SessionTypeOK, Sessions
<1> QED
  BY <1>2, <1>3, <1>4, <1>5, <1>6, Steps

(* What the loop gives to process_pushed.                                  *)
LEMMA InOrderKept ==
  ASSUME IInv, Next
  PROVE  HandledInOrder'
<1>1. /\ HandledInOrder /\ sent \in Seq(Messages) /\ ~crashed
      /\ Len(handled) \in Nat /\ DOMAIN handled = 1 .. Len(handled)
      /\ Len(sent) \in Nat
  BY StreamAny DEF IInv, StreamInv, StreamTypeOK, Next
<1>2. \A m \in Messages : ServerWrites(m) => HandledInOrder'
  <2> TAKE m \in Messages
  <2> HAVE ServerWrites(m)
  <2>1. sent' = Append(sent, m) /\ handled' = handled
    BY DEF ServerWrites
  <2>2. /\ Len(sent') = Len(sent) + 1
        /\ \A i \in 1 .. Len(sent) : sent'[i] = sent[i]
    BY <1>1, <2>1
  <2>3. \A i \in DOMAIN handled : i \in 1 .. Len(sent)
    BY <1>1 DEF HandledInOrder
  <2> QED
    BY <1>1, <2>1, <2>2, <2>3 DEF HandledInOrder
<1>3. \A n \in 1 .. BufLength : Recv(n) => HandledInOrder'
  BY <1>1 DEF Recv, HandledInOrder
<1>4. CASE HandleMessage
  <2> DEFINE t == Len(handled) + 1
             C == Cells(t, sent[t])
  <2>1. t \in 1 .. Len(sent) /\ handled' = Append(handled, C) /\ sent' = sent
    BY <1>1, <1>4, HandleFacts
  <2>2. /\ Len(handled') = t
        /\ \A i \in DOMAIN handled' : i \in DOMAIN handled \/ i = t
        /\ \A i \in DOMAIN handled : handled'[i] = handled[i]
        /\ handled'[t] = C
    <3> HIDE DEF C
    <3>1. handled \in Seq(Seq([of : DOMAIN sent, part : Parts]))
      BY DEF IInv, StreamTypeOK
    <3> QED
      BY <1>1, <2>1, <3>1
  <2> HIDE DEF t
  <2> QED
    BY <1>1, <2>1, <2>2 DEF HandledInOrder
<1>5. CASE Quiet \/ Ends
  BY <1>1, <1>5 DEF Quiet, Ends, HandledInOrder
<1> QED
  BY <1>2, <1>3, <1>4, <1>5, Steps

LEMMA NothingWaitsKept ==
  ASSUME IInv, Next
  PROVE  NothingWaits'
<1>1. /\ NothingWaits /\ sent \in Seq(Messages) /\ ~crashed
      /\ buffer \in Seq([of : DOMAIN sent, part : Parts])
  BY DEF IInv, StreamTypeOK, Next
<1>2. \A m \in Messages : ServerWrites(m) => NothingWaits'
  <2> TAKE m \in Messages
  <2> HAVE ServerWrites(m)
  <2>1. sent' = Append(sent, m) /\ buffer' = buffer /\ checking' = checking
    BY DEF ServerWrites
  <2>2. Blanks' = Blanks /\ HeaderEnd' = HeaderEnd
    BY <2>1 DEF Blanks, HeaderEnd
  <2>3. Blanks # {} => BodyLength' = BodyLength
    <3>1. SUFFICES ASSUME Blanks # {} PROVE BodyLength' = BodyLength
      OBVIOUS
    <3>2. buffer[1].of \in DOMAIN sent
      <4>1. PICK k \in 1 .. Len(buffer) : TRUE
        BY <1>1, <3>1 DEF Blanks
      <4>2. 1 \in 1 .. Len(buffer)
        BY <1>1, <4>1
      <4> DEFINE Z == [of : DOMAIN sent, part : Parts]
      <4> HIDE DEF Z
      <4>3. buffer \in Seq(Z)
        BY <1>1 DEF Z
      <4>4. buffer[1] \in Z
        BY <4>2, <4>3
      <4> QED
        BY <4>4 DEF Z
    <3>3. sent'[buffer[1].of] = sent[buffer[1].of]
      BY <1>1, <2>1, <3>2
    <3> QED
      BY <2>1, <3>3 DEF BodyLength
  <2>4. HasMessage' => HasMessage
    BY <2>1, <2>2, <2>3 DEF HasMessage, MessageEnd
  <2> QED
    BY <1>1, <2>1, <2>4 DEF NothingWaits
<1>3. \A n \in 1 .. BufLength : Recv(n) => NothingWaits'
  BY DEF Recv, NothingWaits
<1>4. CASE HandleMessage
  BY <1>4 DEF HandleMessage, NothingWaits
<1>5. CASE Quiet
  <2>1. HasMessage' = HasMessage
    BY <1>5 DEF Quiet, HasMessage, MessageEnd, HeaderEnd, BodyLength, Blanks
  <2> QED
    BY <1>1, <1>5, <2>1 DEF Quiet, NothingWaits
<1>6. CASE Ends
  <2>1. buffer' = <<>>
    BY <1>6 DEF Ends
  <2>2. Blanks' = {}
    BY <2>1 DEF Blanks
  <2> QED
    BY <2>2 DEF NothingWaits, HasMessage
<1> QED
  BY <1>2, <1>3, <1>4, <1>5, <1>6, Steps

(* What a turn of the loop finds is the first message not handled, and     *)
(* what it leaves begins with the next one.                                *)
LEMMA StreamKept ==
  ASSUME IInv, Next, ~crashed'
  PROVE  \E start : Fits(start)'
<1> DEFINE h == Len(handled)
           S == buffer \o wire
<1>1. /\ ~crashed /\ StreamTypeOK /\ HandledInOrder
      /\ sent \in Seq(Messages) /\ h \in Nat /\ Len(sent) \in Nat
      /\ h <= Len(sent) /\ buffer \in Seq(AnyCell) /\ wire \in Seq(AnyCell)
  BY StreamAny DEF IInv, StreamInv, HandledInOrder, StreamTypeOK, Next
<1>2. PICK start : Placed(start, h, sent, S)
                   /\ (Reading => Len(S) = start[Len(sent) + 1] - 1)
  BY <1>1 DEF IInv, StreamInv, Fits
<1>3. /\ S \in Seq(AnyCell) /\ Len(S) = Len(buffer) + Len(wire)
      /\ \A k \in 1 .. Len(buffer) : S[k] = buffer[k]
      /\ \A k \in 1 .. Len(wire) : S[Len(buffer) + k] = wire[k]
  BY <1>1, JoinedCells
<1>4. \A m \in Messages : ServerWrites(m) => \E s : Fits(s)'
  <2> TAKE m \in Messages
  <2> HAVE ServerWrites(m)
  <2> DEFINE C == Cells(Len(sent) + 1, m)
  <2>1. /\ sent' = Append(sent, m) /\ wire' = wire \o C /\ Reading
        /\ buffer' = buffer /\ handled' = handled
    BY DEF ServerWrites
  <2> HIDE DEF h, S, C
  <2>2. PICK s : /\ Placed(s, h, sent', S \o C)
                 /\ Len(S \o C) = s[Len(sent') + 1] - 1
    BY <1>1, <1>2, <1>3, <2>1, PlacedAppend DEF C
  <2>3. C \in Seq(AnyCell)
    <3>1. Len(sent) + 1 \in Nat
      BY <1>1
    <3> QED
      BY <3>1, CellsAre DEF C
  <2>4. S \o C = buffer' \o wire'
    BY <1>1, <2>1, <2>3 DEF S
  <2>5. Len(handled') = h
    BY <2>1 DEF h
  <2> QED
    BY <2>2, <2>4, <2>5 DEF Fits
<1>5. \A n \in 1 .. BufLength : Recv(n) => \E s : Fits(s)'
  <2> TAKE n \in 1 .. BufLength
  <2> HAVE Recv(n)
  <2>1. /\ n <= Len(wire) /\ n \in Nat /\ sent' = sent /\ handled' = handled
        /\ buffer' = buffer \o SubSeq(wire, 1, n)
        /\ wire' = SubSeq(wire, n + 1, Len(wire))
        /\ session' = session
    BY SizeAssumption DEF Recv
  <2>2. buffer' \o wire' = S
    <3>1. SubSeq(wire, 1, n) \o SubSeq(wire, n + 1, Len(wire)) = wire
      BY <1>1, <2>1
    <3>2. SubSeq(wire, 1, n) \in Seq(AnyCell) /\ wire' \in Seq(AnyCell)
      BY <1>1, <2>1, SubSeqIn
    <3>3. (buffer \o SubSeq(wire, 1, n)) \o wire'
            = buffer \o (SubSeq(wire, 1, n) \o wire')
      BY <1>1, <3>2
    <3> QED
      BY <2>1, <3>1, <3>3
  <2>3. Reading' = Reading
    BY <2>1 DEF Reading
  <2> HIDE DEF S
  <2> QED
    BY <1>2, <2>1, <2>2, <2>3 DEF Fits
<1>6. CASE HandleMessage
  <2> DEFINE m == sent[h + 1]
             e == MessageEnd
             R == SubSeq(S, e + 1, Len(S))
  <2>1. /\ h + 1 \in 1 .. Len(sent) /\ m \in Messages
        /\ e \in 2 .. 4 /\ e = Size(m) /\ e <= Len(buffer)
        /\ ProcessPushed(m, h + 1)
        /\ handled' = Append(handled, Cells(h + 1, m)) /\ sent' = sent
    BY <1>1, <1>6, HandleFacts
  <2>2. Len(handled') = h + 1
    <3> DEFINE C == Cells(h + 1, m)
               D == [of : DOMAIN sent, part : Parts]
    <3>1. handled \in Seq(Seq(D))
      BY <1>1 DEF StreamTypeOK
    <3> HIDE DEF C, D
    <3> QED
      BY <1>1, <2>1, <3>1 DEF C
  <2> HIDE DEF m, e
  <2>3. buffer' = Rest
    BY <2>1, HandlerFrame
  <2>4. /\ Rest \in Seq(AnyCell) /\ Len(Rest) = Len(buffer) - e
        /\ \A k \in 1 .. Len(buffer) - e : Rest[k] = buffer[k + e]
    <3>1. e \in 0 .. Len(buffer)
      BY <1>1, <2>1
    <3> HIDE DEF h, S
    <3> QED
      BY <1>1, <3>1, Cut DEF Rest, e
  <2>5. R \in Seq(AnyCell) /\ Len(R) = Len(S) - e
        /\ (\A k \in 1 .. Len(S) - e : R[k] = S[k + e]) /\ e <= Len(S)
    <3>1. e \in 0 .. Len(S) /\ e <= Len(S)
      BY <1>1, <1>3, <2>1
    <3> HIDE DEF S
    <3> QED
      BY <1>3, <3>1, Cut
  <2> HIDE DEF R, S
  <2>6. PICK s : /\ Placed(s, h + 1, sent, R)
                 /\ Len(S) = start[Len(sent) + 1] - 1 =>
                      Len(R) = s[Len(sent) + 1] - 1
    <3>1. h < Len(sent) /\ e = Size(sent[h + 1])
      BY <1>1, <2>1 DEF m
    <3> HIDE DEF h
    <3>2. Placed(start, h, sent, S) /\ S \in Seq(AnyCell)
          /\ sent \in Seq(Messages) /\ h \in Nat /\ e \in 2 .. 4 /\ e <= Len(S)
      BY <1>1, <1>2, <1>3, <2>1, <2>5
    <3> QED
      BY <3>1, <3>2, PlacedShift DEF R
  <2>a. PICK b \in Nat, w \in Nat, a \in 2 .. 4 :
          /\ b = Len(buffer) /\ w = Len(wire) /\ a = e
          /\ a <= b /\ Len(Rest) = b - a
          /\ Len(S) = b + w /\ Len(R) = b + w - a
    <3>1. Len(buffer) \in Nat /\ Len(wire) \in Nat
      BY <1>1
    <3>2. /\ e \in 2 .. 4 /\ e <= Len(buffer) /\ Len(Rest) = Len(buffer) - e
          /\ Len(S) = Len(buffer) + Len(wire) /\ Len(R) = Len(S) - e
      BY <1>3, <2>1, <2>4, <2>5
    <3>3. PICK x \in Nat, y \in Nat, z \in 2 .. 4 :
            x = Len(buffer) /\ y = Len(wire) /\ z = e
      BY <3>1, <3>2
    <3>4. z <= x /\ Len(Rest) = x - z /\ Len(S) = x + y /\ Len(R) = x + y - z
      <4>1. z <= x /\ Len(Rest) = x - z
        BY <3>2, <3>3
      <4>2. Len(S) = x + y
        BY <3>2, <3>3
      <4>3. Len(R) = (x + y) - z
        BY <3>2, <3>3, <4>2
      <4> QED
        BY <4>1, <4>2, <4>3
    <3> QED
      BY <3>3, <3>4
  <2>7. ASSUME wire' = wire PROVE buffer' \o wire' = R
    <3>3. /\ Rest \o wire \in Seq(AnyCell)
          /\ Len(Rest \o wire) = b + w - a
          /\ \A k \in 1 .. b - a : (Rest \o wire)[k] = Rest[k]
          /\ \A k \in 1 .. w : (Rest \o wire)[b - a + k] = wire[k]
      <4>1. /\ Rest \o wire \in Seq(AnyCell)
            /\ Len(Rest \o wire) = Len(Rest) + Len(wire)
            /\ \A k \in 1 .. Len(Rest) : (Rest \o wire)[k] = Rest[k]
            /\ \A k \in 1 .. Len(wire) : (Rest \o wire)[Len(Rest) + k] = wire[k]
        BY <1>1, <2>4, JoinedCells
      <4>2. b - a + w = b + w - a
        BY <2>a
      <4> QED
        BY <2>a, <4>1, <4>2
    <3>4. \A k \in 1 .. b + w - a : (Rest \o wire)[k] = R[k]
      <4> TAKE k \in 1 .. b + w - a
      <4>1. R[k] = S[k + a]
        BY <2>5, <2>a
      <4>2. CASE k <= b - a
        <5>1. k \in 1 .. b - a /\ k + a \in 1 .. b
          BY <2>a, <4>2
        <5>2. Rest[k] = buffer[k + a] /\ S[k + a] = buffer[k + a]
          BY <1>3, <2>4, <2>a, <5>1
        <5> QED
          BY <3>3, <4>1, <5>1, <5>2
      <4>3. CASE k > b - a
        <5>1. PICK j \in 1 .. w : j = k - (b - a)
          <6>1. k - (b - a) \in 1 .. w
            BY <2>a, <4>3
          <6> QED
            BY <6>1
        <5>2. b - a + j = k /\ b + j = k + a
          BY <2>a, <5>1
        <5>3. (Rest \o wire)[b - a + j] = wire[j]
          BY <3>3, <5>1
        <5>4. S[b + j] = wire[j]
          BY <1>3, <2>a, <5>1
        <5> QED
          BY <4>1, <5>2, <5>3, <5>4
      <4> QED
        BY <2>a, <4>2, <4>3
    <3>5. R \in Seq(AnyCell) /\ Len(R) = b + w - a
      BY <2>5, <2>a
    <3>6. Rest \o wire = R
      <4>1. \A k \in 1 .. Len(Rest \o wire) : (Rest \o wire)[k] = R[k]
        BY <3>3, <3>4
      <4>2. Len(Rest \o wire) = Len(R)
        BY <3>3, <3>5
      <4> QED
        BY <3>3, <3>5, <4>1, <4>2, SameCells
    <3> QED
      BY <2>3, <2>7, <3>6
  <2>8. CASE wire' = wire /\ Reading
    BY <1>2, <2>1, <2>2, <2>6, <2>7, <2>8 DEF Fits
  <2>9. CASE wire' = wire /\ ~Reading
    <3>1. ~Reading'
      <4>1. Auth \notin trans
        BY <2>9 DEF IInv, AuthInv
      <4>2. UNCHANGED session \/ session' = "closed"
        BY <2>1, <4>1, HandlerFrame, RequestIs
      <4> QED
        BY <2>9, <4>2 DEF Reading
    <3> QED
      BY <2>1, <2>2, <2>6, <2>7, <2>9, <3>1 DEF Fits
  <2>10. CASE wire' # wire
    <3>1. wire' = <<>> /\ session' = "closed"
      BY <2>1, <2>10, HandlerFrame
    <3>2. ~Reading'
      BY <3>1 DEF Reading
    <3>3. buffer' \o wire' = Rest
      BY <2>3, <2>4, <3>1
    <3>4. Placed(s, h + 1, sent, Rest)
      <4>3. Len(Rest) <= Len(R)
        BY <2>a
      <4>4. \A k \in 1 .. b - a : Rest[k] = R[k]
        <5> TAKE k \in 1 .. b - a
        <5>1. k + a \in 1 .. b /\ k \in 1 .. b + w - a
          BY <2>a
        <5>2. Rest[k] = buffer[k + a] /\ S[k + a] = buffer[k + a]
          BY <1>3, <2>4, <2>a, <5>1
        <5>3. R[k] = S[k + a]
          BY <2>5, <2>a, <5>1
        <5> QED
          BY <5>2, <5>3
      <4>5. h + 1 <= Len(sent) /\ h + 1 \in Nat
        BY <1>1, <2>1
      <4>6. \A k \in 1 .. Len(Rest) : Rest[k] = R[k]
        BY <2>a, <4>4
      <4> QED
        BY <1>1, <2>4, <2>5, <2>6, <4>3, <4>5, <4>6, PlacedPrefix
    <3> QED
      BY <2>1, <2>2, <3>2, <3>3, <3>4 DEF Fits
  <2> QED
    BY <2>8, <2>9, <2>10
<1>7. CASE Quiet
  <2>1. UNCHANGED <<sent, wire, buffer, handled>> /\ Reading' = Reading
    BY <1>7 DEF Quiet, Reading
  <2> QED
    BY <1>2, <2>1 DEF Fits
<1>8. CASE Ends
  <2>1. /\ sent' = sent /\ handled' = handled /\ ~Reading'
        /\ buffer' \o wire' = <<>>
    BY <1>8 DEF Ends, Reading
  <2>2. Placed(start, h, sent, <<>>)
    <3>1. <<>> \in Seq(AnyCell) /\ Len(<<>>) <= Len(S)
          /\ \A k \in 1 .. Len(<<>>) : <<>>[k] = S[k]
      BY <1>1, <1>3
    <3> HIDE DEF S, h
    <3> QED
      BY <1>1, <1>2, <1>3, <3>1, PlacedPrefix
  <2> QED
    BY <2>1, <2>2 DEF Fits
<1> QED
  BY <1>4, <1>5, <1>6, <1>7, <1>8, Steps

(* What a handler does to the login.                                       *)
LEMMA AuthSteps ==
  ASSUME NEW m \in Messages, NEW t, ProcessPushed(m, t)
  PROVE  \/ /\ AuthAccepted(m) /\ IsOk(m) /\ m.type = "auth"
            /\ Auth \in trans /\ trans' = trans \ {Auth}
            /\ session' = "open" /\ status' = "connected"
         \/ /\ AuthFails(m) /\ ~IsOk(m) /\ m.type = "auth"
            /\ Auth \in trans /\ trans' = trans \ {Auth}
            /\ session' \in {"challenged", "refused"} /\ status' = status
         \/ /\ m.type = "auth" /\ ~IsOk(m)
            /\ Auth \in trans /\ trans' = trans \ {Auth}
            /\ session' = "closed"
         \/ /\ m.type = "dereg" /\ session' = "closed" /\ trans' = trans
         \/ /\ session' = session /\ status' = status
            /\ Auth \in trans' <=> Auth \in trans
            /\ m.type = "auth" => Auth \notin trans
<1>1. CASE AuthAccepted(m)
  BY <1>1, RequestIs DEF AuthAccepted, IsAwaited, IsOk
<1>2. CASE AuthFails(m)
  BY <1>2, RequestIs DEF AuthFails, IsAwaited, IsOk, ChannelsStay, channelVars
<1>3. CASE BuddyAdded(m) \/ InfoReceived(m)
  BY <1>3, AuthOnly DEF BuddyAdded, InfoReceived, ChannelsStay, channelVars
<1>4. CASE Presence(m)
  <2>1. \A c : <<"info", c>> # Auth
    BY DEF Auth
  <2> QED
    BY <1>4, <2>1 DEF Presence, ChannelsStay, channelVars
<1>5. CASE AckFails(m) \/ TextDropped(m, t)
  BY <1>5 DEF AckFails, TextDropped, ChannelsStay, channelVars
<1>6. CASE TextShown(m, t)
  BY <1>6 DEF TextShown, Receive
<1>7. CASE Deregistered(m)
  BY <1>7 DEF Deregistered, CloseSession
<1>8. CASE Ignored(m)
  <2>1. m.type = "auth" => Auth \notin trans
    BY <1>8, MessageIs, RequestIs DEF Ignored, IsAwaited
  <2> QED
    BY <1>8, <2>1 DEF Ignored, ChannelsStay, channelVars
<1>9. CASE ChallengeUnreadable(m)
  BY <1>9, RequestIs DEF ChallengeUnreadable, IsAwaited, IsOk, CloseSession
<1> QED
  BY <1>1, <1>2, <1>3, <1>4, <1>5, <1>6, <1>7, <1>8, <1>9 DEF ProcessPushed

(* A message is written after the others.                                  *)
LEMMA Written ==
  ASSUME sent \in Seq(Messages), NEW m \in Messages, sent' = Append(sent, m)
  PROVE  /\ DOMAIN sent = 1 .. Len(sent) /\ Len(sent) \in Nat
         /\ DOMAIN sent' = 1 .. Len(sent) + 1
         /\ sent'[Len(sent) + 1] = m
         /\ \A i \in DOMAIN sent : sent'[i] = sent[i] /\ i <= Len(sent)
         /\ \A i \in DOMAIN sent' : i \in DOMAIN sent \/ i = Len(sent) + 1
OBVIOUS

LEMMA WriteIs ==
  ASSUME IInv, NEW m \in Messages, ServerWrites(m)
  PROVE  /\ sent' = Append(sent, m) /\ Reading
         /\ UNCHANGED <<handled, session, trans, checking, status>>
         /\ m.type = "auth" =>
              /\ Auth \in trans
              /\ \A i \in DOMAIN sent :
                   sent[i].type = "auth" => i <= Len(handled) /\ ~IsOk(sent[i])
         /\ m.type = "dereg" => \E i \in DOMAIN sent : IsOk(sent[i])
<1>1. /\ sent' = Append(sent, m) /\ Reading /\ MayWrite(m)
      /\ UNCHANGED <<handled, session, trans, checking, status>>
  BY DEF ServerWrites, ChannelsStay, channelVars
<1>2. sent \in Seq(Messages) /\ Len(handled) \in Nat /\ Len(sent) \in Nat
      /\ DOMAIN sent = 1 .. Len(sent)
  BY StreamAny DEF IInv, StreamTypeOK
<1>3. ASSUME m.type = "auth"
      PROVE  /\ Auth \in trans
             /\ \A i \in DOMAIN sent :
                  sent[i].type = "auth" => i <= Len(handled) /\ ~IsOk(sent[i])
  <2>1. RequestOf(m) = Auth /\ m \notin Pushes
    BY <1>3, RequestIs DEF Pushes
  <2>2. Auth \in trans /\ ~Answered(Auth)
    BY <1>1, <2>1 DEF MayWrite
  <2>3. ASSUME NEW i \in DOMAIN sent, sent[i].type = "auth"
        PROVE  i <= Len(handled) /\ ~IsOk(sent[i])
    <3>1. RequestOf(sent[i]) = Auth
      <4>1. sent[i] \in Messages
        BY <1>2
      <4> QED
        BY <2>3, <4>1, RequestIs
    <3>2. i <= Len(handled)
      <4>1. i \notin Len(handled) + 1 .. Len(sent)
        BY <2>2, <3>1 DEF Answered
      <4> QED
        BY <1>2, <4>1
    <3> QED
      BY <2>2, <3>2 DEF IInv, AuthInv
  <2> QED
    BY <2>2, <2>3
<1>4. ASSUME m.type = "dereg"
      PROVE  \E i \in DOMAIN sent : IsOk(sent[i])
  <2>1. m \notin Answers
    BY <1>4, MessageIs
  <2> QED
    BY <1>1, <1>4, <2>1 DEF MayWrite, Accepted, Replied, IsOk
<1> QED
  BY <1>1, <1>3, <1>4

LEMMA AuthWritten ==
  ASSUME IInv, NEW m \in Messages, ServerWrites(m)
  PROVE  AuthInv'
<1> DEFINE n == Len(sent) + 1
<1>1. /\ sent' = Append(sent, m) /\ Reading
      /\ UNCHANGED <<handled, session, trans, checking, status>>
      /\ m.type = "auth" =>
              /\ Auth \in trans
              /\ \A i \in DOMAIN sent :
                   sent[i].type = "auth" => i <= Len(handled) /\ ~IsOk(sent[i])
      /\ m.type = "dereg" => \E i \in DOMAIN sent : IsOk(sent[i])
  BY WriteIs
<1>2. /\ DOMAIN sent = 1 .. Len(sent) /\ Len(sent) \in Nat
      /\ DOMAIN sent' = 1 .. n /\ sent'[n] = m
      /\ \A i \in DOMAIN sent : sent'[i] = sent[i] /\ i <= Len(sent)
      /\ \A i \in DOMAIN sent' : i \in DOMAIN sent \/ i = n
      /\ DOMAIN sent \subseteq DOMAIN sent'
  BY <1>1, Written DEF IInv, StreamTypeOK
<1>3. /\ Len(handled) \in Nat /\ Len(handled) <= Len(sent) /\ n \in Nat
      /\ ~(n <= Len(handled)) /\ n > Len(handled)
  BY <1>2, StreamAny DEF IInv, StreamInv, HandledInOrder
<1> DEFINE H == Len(handled)
<1>4. H' = H /\ Reading' = Reading
  BY <1>1 DEF Reading
<1> HIDE DEF n
<1>5. ASSUME NEW d \in DOMAIN sent', sent'[d].type = "dereg"
      PROVE  \E i \in 1 .. d - 1 : IsOk(sent'[i])
  <2>1. CASE d \in DOMAIN sent
    <3>1. PICK i \in 1 .. d - 1 : IsOk(sent[i])
      BY <1>2, <1>5, <2>1 DEF IInv, AuthInv
    <3>2. i \in DOMAIN sent
      BY <1>2, <2>1
    <3> QED
      BY <1>2, <3>1, <3>2
  <2>2. CASE d = n
    <3>1. PICK i \in DOMAIN sent : IsOk(sent[i])
      BY <1>1, <1>2, <1>5, <2>2
    <3>2. i \in 1 .. d - 1
      BY <1>2, <2>2 DEF n
    <3> QED
      BY <1>2, <3>1, <3>2
  <2> QED
    BY <1>2, <2>1, <2>2
<1>6. ASSUME NEW i \in DOMAIN sent', IsOk(sent'[i]), i <= H
      PROVE  session \in {"open", "closed", "freed"} /\ Auth \notin trans
  <2>1. i \in DOMAIN sent
    BY <1>2, <1>3, <1>6
  <2> QED
    BY <1>2, <1>6, <2>1 DEF IInv, AuthInv
<1>7. ASSUME NEW i \in DOMAIN sent', sent'[i].type = "auth", i > H,
             NEW k \in DOMAIN sent', sent'[k].type = "auth", k > H
      PROVE  Auth \in trans /\ k = i
  <2>1. CASE m.type = "auth"
    <3>1. \A j \in DOMAIN sent : sent[j].type = "auth" => ~(j > H)
      BY <1>1, <1>2, <1>3, <2>1
    <3> QED
      BY <1>1, <1>2, <1>7, <2>1, <3>1
  <2>2. CASE m.type # "auth"
    <3>1. i \in DOMAIN sent /\ k \in DOMAIN sent
      BY <1>2, <1>7, <2>2
    <3> QED
      BY <1>1, <1>2, <1>7, <3>1 DEF IInv, AuthInv
  <2> QED
    BY <2>1, <2>2
<1>8. ASSUME NEW i \in DOMAIN sent', NEW k \in DOMAIN sent',
             IsOk(sent'[i]), IsOk(sent'[k])
      PROVE  i = k
  <2>1. CASE IsOk(m)
    <3>1. \A j \in DOMAIN sent : ~IsOk(sent[j])
      BY <1>1, <2>1 DEF IsOk
    <3> QED
      BY <1>2, <1>8, <3>1
  <2>2. CASE ~IsOk(m)
    <3>1. i \in DOMAIN sent /\ k \in DOMAIN sent
      BY <1>2, <1>8, <2>2
    <3> QED
      BY <1>2, <1>8, <3>1 DEF IInv, AuthInv
  <2> QED
    BY <2>1, <2>2
<1> HIDE DEF H
<1>9. (Reading => status # "disconnected") /\ (~Reading => Auth \notin trans)
  BY DEF IInv, AuthInv
<1> QED
  BY <1>1, <1>4, <1>5, <1>6, <1>7, <1>8, <1>9 DEF AuthInv, H

(* The steps that leave sent and handled, and give up no answer.           *)
LEMMA AuthStays ==
  ASSUME IInv, sent' = sent, handled' = handled,
         (Reading' \/ checking') /\ Auth \in trans => Auth \in trans',
         ~Reading' => Auth \notin trans',
         Reading' => status' # "disconnected",
         Reading' \/ checking' => Reading \/ checking,
         session \in {"open", "closed", "freed"} /\ Auth \notin trans =>
           session' \in {"open", "closed", "freed"} /\ Auth \notin trans'
  PROVE  AuthInv'
<1> DEFINE H == Len(handled)
<1>1. H' = H
  OBVIOUS
<1>2. AuthInv
  BY DEF IInv
<1> HIDE DEF H
<1> QED
  BY <1>1, <1>2 DEF AuthInv, H

LEMMA AuthHandled ==
  ASSUME IInv, Next, HandleMessage
  PROVE  AuthInv'
<1> DEFINE t == Len(handled) + 1
           m == sent[t]
<1>1. /\ t \in 1 .. Len(sent) /\ m \in Messages
      /\ ProcessPushed(m, t) /\ handled' = Append(handled, Cells(t, m))
      /\ checking /\ checking' /\ sent' = sent
  BY HandleFacts DEF Next
<1>2. /\ DOMAIN sent = 1 .. Len(sent) /\ Len(handled) \in Nat
      /\ Len(sent) \in Nat
      /\ handled \in Seq(Seq([of : DOMAIN sent, part : Parts]))
  BY StreamAny DEF IInv, StreamTypeOK
<1>3. Len(handled') = t
  <2> DEFINE C == Cells(t, m)
             D == Seq([of : DOMAIN sent, part : Parts])
  <2> HIDE DEF C, D
  <2> QED
    BY <1>1, <1>2 DEF C, D
<1>4. /\ t \in DOMAIN sent /\ t > Len(handled)
      /\ \A i \in DOMAIN sent : i <= t <=> (i <= Len(handled) \/ i = t)
      /\ \A i \in DOMAIN sent : i > t => i > Len(handled) /\ i # t
  BY <1>1, <1>2
<1> DEFINE H == Len(handled)
<1>5. AuthInv
  BY DEF IInv
<1>6. \A i \in DOMAIN sent : sent[i].type = "auth" /\ i > H =>
        /\ Auth \in trans
        /\ \A k \in DOMAIN sent :
              sent[k].type = "auth" /\ k > H => k = i
  BY <1>1, <1>5 DEF AuthInv
<1> HIDE DEF t, m
<1>7. CASE /\ AuthAccepted(m) /\ IsOk(m) /\ m.type = "auth"
           /\ Auth \in trans /\ trans' = trans \ {Auth}
           /\ session' = "open" /\ status' = "connected"
  <2>1. Reading'
    BY <1>7 DEF Reading
  <2>2. \A i \in DOMAIN sent : sent[i].type = "auth" => ~(i > t)
    BY <1>4, <1>6, <1>7 DEF m
  <2> HIDE DEF H
  <2> QED
    BY <1>1, <1>3, <1>5, <1>7, <2>1, <2>2 DEF AuthInv
<1>8. CASE /\ AuthFails(m) /\ ~IsOk(m) /\ m.type = "auth"
           /\ Auth \in trans /\ trans' = trans \ {Auth}
           /\ session' \in {"challenged", "refused"} /\ status' = status
  <2>1. Reading' /\ Reading
    BY <1>5, <1>8 DEF Reading, AuthInv
  <2>2. \A i \in DOMAIN sent : sent[i].type = "auth" => ~(i > t)
    BY <1>4, <1>6, <1>8 DEF m
  <2>3. \A i \in DOMAIN sent : i <= t => ~IsOk(sent[i])
    BY <1>4, <1>5, <1>8 DEF m, AuthInv
  <2> HIDE DEF H
  <2> QED
    BY <1>1, <1>3, <1>5, <1>8, <2>1, <2>2, <2>3 DEF AuthInv
<1>9. CASE m.type = "dereg" /\ session' = "closed" /\ trans' = trans
  <2>1. PICK i \in 1 .. t - 1 : IsOk(sent[i])
    BY <1>4, <1>5, <1>9 DEF AuthInv, m
  <2>2. i \in DOMAIN sent /\ i <= Len(handled)
    BY <1>1, <1>2 DEF t
  <2>3. Auth \notin trans
    BY <1>5, <2>1, <2>2 DEF AuthInv
  <2>4. \A j \in DOMAIN sent : sent[j].type = "auth" => ~(j > t)
    <3> SUFFICES ASSUME NEW j \in DOMAIN sent, sent[j].type = "auth", j > t
                 PROVE  FALSE
      OBVIOUS
    <3>1. j > H
      BY <1>4
    <3> QED
      BY <1>6, <2>3, <3>1
  <2>5. ~Reading'
    BY <1>9 DEF Reading
  <2> HIDE DEF H
  <2> QED
    BY <1>1, <1>3, <1>5, <1>9, <2>3, <2>4, <2>5 DEF AuthInv
<1>10. CASE /\ session' = session /\ status' = status
            /\ Auth \in trans' <=> Auth \in trans
            /\ m.type = "auth" => Auth \notin trans
  <2>1. m.type # "auth"
    BY <1>4, <1>6, <1>10 DEF m
  <2>2. \A i \in DOMAIN sent : IsOk(sent[i]) /\ i <= t => i <= H
    BY <1>4, <2>1 DEF m, IsOk
  <2>3. \A i \in DOMAIN sent : i > t => i > H
    BY <1>4
  <2>4. Reading' = Reading
    BY <1>10 DEF Reading
  <2> HIDE DEF H
  <2> QED
    BY <1>1, <1>3, <1>5, <1>6, <1>10, <2>2, <2>3, <2>4 DEF AuthInv, H
<1>11. CASE /\ m.type = "auth" /\ ~IsOk(m)
            /\ Auth \in trans /\ trans' = trans \ {Auth}
            /\ session' = "closed"
  <2>1. ~Reading'
    BY <1>11 DEF Reading
  <2>2. \A i \in DOMAIN sent : sent[i].type = "auth" => ~(i > t)
    BY <1>4, <1>6, <1>11 DEF m
  <2>3. \A i \in DOMAIN sent : i <= t => ~IsOk(sent[i])
    BY <1>4, <1>5, <1>11 DEF m, AuthInv
  <2> HIDE DEF H
  <2> QED
    BY <1>1, <1>3, <1>5, <1>11, <2>1, <2>2, <2>3 DEF AuthInv
<1> QED
  BY <1>1, <1>7, <1>8, <1>9, <1>10, <1>11, AuthSteps

LEMMA AuthKept ==
  ASSUME IInv, Next
  PROVE  AuthInv'
<1>1. AuthInv /\ ~crashed
  BY DEF IInv, Next
<1>2. \A n \in 1 .. BufLength : Recv(n) => AuthInv'
  <2> TAKE n \in 1 .. BufLength
  <2> HAVE Recv(n)
  <2>1. UNCHANGED <<sent, handled, session, trans, status>> /\ Reading
    BY DEF Recv, ChannelsStay, channelVars
  <2>2. Reading'
    BY <2>1 DEF Reading
  <2> QED
    BY <1>1, <2>1, <2>2, AuthStays DEF AuthInv
<1>3. CASE Quiet
  <2>1. sent' = sent /\ handled' = handled /\ (checking' => checking)
    BY <1>3 DEF Quiet
  <2>2. status' = status
    BY <1>3 DEF Quiet, ChannelsStay, channelVars, UseStep, Request,
                Acknowledge, Close, Destroy
  <2>3. CASE UNCHANGED <<session, trans>>
    <3>1. Reading' = Reading
      BY <2>3 DEF Reading
    <3> QED
      BY <1>1, <2>1, <2>2, <2>3, <3>1, AuthStays DEF AuthInv
  <2>4. CASE session = "challenged" /\ session' = "auth"
             /\ trans' = trans \cup {Auth}
    <3>1. Reading' /\ Reading
      BY <2>4 DEF Reading
    <3> QED
      BY <1>1, <2>1, <2>2, <2>4, <3>1, AuthStays DEF AuthInv
  <2>5. ASSUME session' = session, NEW c \in Contacts,
               trans' = trans \cup {<<"added", c>>}
        PROVE  AuthInv'
    <3>1. Reading' = Reading /\ (Auth \in trans' <=> Auth \in trans)
      BY <2>5 DEF Reading, Auth
    <3> QED
      BY <1>1, <2>1, <2>2, <2>5, <3>1, AuthStays DEF AuthInv
  <2> QED
    BY <1>3, <2>3, <2>4, <2>5 DEF Quiet
<1>4. CASE Ends
  <2>1. /\ sent' = sent /\ handled' = handled /\ ~checking' /\ trans' = {}
        /\ session' \in {"closed", "freed"}
    BY <1>4 DEF Ends
  <2>2. ~Reading'
    BY <2>1 DEF Reading
  <2> QED
    BY <1>1, <2>1, <2>2, AuthStays
<1> QED
  BY <1>2, <1>3, <1>4, Steps, AuthWritten, AuthHandled

LEMMA ListKept ==
  ASSUME IInv, Next
  PROVE  ListInv'
<1>1. /\ AuthInv /\ ListInv /\ ~crashed /\ sent \in Seq(Messages)
      /\ DOMAIN sent = 1 .. Len(sent) /\ Len(handled) \in Nat
      /\ Len(sent) \in Nat
  BY StreamAny DEF IInv, StreamTypeOK, Next
<1>2. ASSUME NEW m \in Messages, ServerWrites(m)
      PROVE  ListInv'
  <2>1. /\ sent' = Append(sent, m) /\ m.type = "auth" => Auth \in trans
        /\ handled' = handled
    BY <1>2, WriteIs
  <2>2. sid' = sid /\ session' = session /\ acked' = acked
    BY <1>2 DEF ServerWrites, contactVars
  <2>3. /\ DOMAIN sent' = 1 .. Len(sent) + 1
        /\ sent'[Len(sent) + 1] = m
        /\ \A i \in DOMAIN sent : sent'[i] = sent[i]
        /\ \A i \in DOMAIN sent' : i \in DOMAIN sent \/ i = Len(sent) + 1
    BY <1>1, <1>2, <2>1, WriteIs, Written
  <2>5. DOMAIN sent \subseteq DOMAIN sent'
    BY <1>1, <2>3
  <2>4. session = "open" => ~IsOk(m)
    BY <1>1, <2>1, WriteIs, <1>2 DEF AuthInv, ListInv, IsOk
  <2> QED
    BY <1>1, <2>1, <2>2, <2>3, <2>4, <2>5 DEF ListInv
<1>3. CASE HandleMessage
  <2> DEFINE t == Len(handled) + 1
             m == sent[t]
  <2>1. /\ t \in 1 .. Len(sent) /\ m \in Messages
        /\ ProcessPushed(m, t) /\ handled' = Append(handled, Cells(t, m))
        /\ sent' = sent
    BY <1>1, <1>3, HandleFacts
  <2>2. Len(handled') = t
    <3> DEFINE C == Cells(t, m)
               D == Seq([of : DOMAIN sent, part : Parts])
    <3>1. handled \in Seq(D)
      BY DEF IInv, StreamTypeOK
    <3> HIDE DEF C, D
    <3> QED
      BY <2>1, <3>1 DEF C
  <2>3. t \in DOMAIN sent /\ \A i \in DOMAIN sent : i <= Len(handled) => i <= t
    BY <1>1, <2>1
  <2>4. t <= Len(handled')
    BY <1>1, <2>2
  <2> HIDE DEF t, m
  <2>5. CASE AuthAccepted(m)
    <3>1. IsOk(m) /\ sid' = m.list /\ session' = "open" /\ acked' = acked
      BY <2>5 DEF AuthAccepted, IsOk
    <3>2. \A i \in DOMAIN sent : IsOk(sent[i]) => i = t
      BY <1>1, <2>3, <3>1 DEF AuthInv, m
    <3> QED
      BY <2>1, <2>3, <2>4, <3>1, <3>2 DEF ListInv, m
  <2>6. CASE AuthFails(m) \/ ChallengeUnreadable(m) \/ Deregistered(m)
    <3>1. session' # "open" /\ acked' = acked
      BY <2>6 DEF AuthFails, ChallengeUnreadable, Deregistered, CloseSession
    <3> QED
      BY <1>1, <2>1, <2>2, <2>3, <3>1 DEF ListInv
  <2>7. CASE BuddyAdded(m) \/ InfoReceived(m) \/ Presence(m) \/ AckFails(m)
             \/ Ignored(m)
    <3>1. sid \subseteq sid' /\ session' = session /\ acked' = acked
      BY <2>7 DEF BuddyAdded, InfoReceived, Presence, AckFails, Ignored,
                  contactVars
    <3> QED
      BY <1>1, <2>1, <2>2, <2>3, <3>1 DEF ListInv
  <2>8. CASE TextShown(m, t) \/ TextDropped(m, t)
    <3>1. sid' = sid /\ session' = session /\ session = "open"
      BY <2>8 DEF TextShown, TextDropped, contactVars
    <3> QED
      BY <1>1, <2>1, <2>2, <2>3, <3>1 DEF ListInv
  <2> QED
    BY <2>1, <2>5, <2>6, <2>7, <2>8 DEF ProcessPushed
<1>4. ASSUME NEW n \in 1 .. BufLength, Recv(n)
      PROVE  ListInv'
  BY <1>1, <1>4 DEF Recv, ListInv, contactVars
<1>5. CASE Quiet
  <2>1. /\ sent' = sent /\ handled' = handled /\ acked' = acked /\ sid' = sid
        /\ session' = "open" => session = "open"
    BY <1>5 DEF Quiet, contactVars
  <2> QED
    BY <1>1, <2>1 DEF ListInv
<1>6. CASE Ends
  BY <1>1, <1>6 DEF Ends, ListInv
<1> QED
  BY <1>2, <1>3, <1>4, <1>5, <1>6, Steps

(* Which acknowledged texts are on their channel.                          *)
LEMMA AckedKept ==
  ASSUME IInv, Next
  PROVE  AckedIffShown'
<1> DEFINE Lists(msgs) ==
             UNION {msgs[i].list : i \in {j \in DOMAIN msgs : msgs[j].type = "auth"}}
<1>1. /\ AuthInv /\ ListInv /\ ~crashed /\ sent \in Seq(Messages)
      /\ DOMAIN sent = 1 .. Len(sent) /\ Len(handled) \in Nat
      /\ Len(sent) \in Nat /\ acked \subseteq DOMAIN sent
  BY StreamAny DEF IInv, StreamTypeOK, SessionTypeOK, Next
<1>2. /\ \A p \in shown : p[2] \in acked
      /\ \A t \in acked :
           sent[t].who \in Lists(sent) => <<sent[t].who, t>> \in shown
  BY DEF IInv, AckedIffShown
<1>3. ASSUME /\ \A p \in shown' : p[2] \in acked'
             /\ \A t \in acked' :
                  sent'[t].who \in Lists(sent') => <<sent'[t].who, t>> \in shown'
      PROVE  AckedIffShown'
  BY <1>3 DEF AckedIffShown
<1>4. \A i \in DOMAIN sent : sent[i].type = "auth" /\ ~IsOk(sent[i]) =>
        sent[i].list = {}
  BY <1>1, MessageIs
<1> HIDE DEF Lists
<1>5. ASSUME NEW m \in Messages, ServerWrites(m)
      PROVE  AckedIffShown'
  <2>1. sent' = Append(sent, m) /\ m.type = "auth" => Auth \in trans
    BY <1>5, WriteIs
  <2>2. shown' = shown /\ acked' = acked
    BY <1>5 DEF ServerWrites, ChannelsStay, channelVars
  <2>3. /\ DOMAIN sent' = 1 .. Len(sent) + 1
        /\ sent'[Len(sent) + 1] = m
        /\ \A i \in DOMAIN sent : sent'[i] = sent[i]
        /\ \A i \in DOMAIN sent' : i \in DOMAIN sent \/ i = Len(sent) + 1
    BY <1>1, <2>1, <1>5, WriteIs, Written
  <2>4. acked # {} => Lists(sent') \subseteq Lists(sent)
    <3> SUFFICES ASSUME acked # {}, NEW c \in Lists(sent')
                 PROVE  c \in Lists(sent)
      OBVIOUS
    <3>1. Auth \notin trans
      BY <1>1 DEF AuthInv, ListInv
    <3>2. PICK i \in DOMAIN sent' : sent'[i].type = "auth" /\ c \in sent'[i].list
      BY DEF Lists
    <3>3. i \in DOMAIN sent
      BY <1>5, <2>1, <2>3, <3>1, <3>2, WriteIs
    <3> QED
      BY <2>3, <3>2, <3>3 DEF Lists
  <2>5. \A t \in acked : sent'[t] = sent[t]
    BY <1>1, <2>3
  <2> QED
    BY <1>2, <1>3, <2>2, <2>4, <2>5
<1>6. CASE HandleMessage
  <2> DEFINE u == Len(handled) + 1
             m == sent[u]
  <2>1. m \in Messages /\ ProcessPushed(m, u) /\ sent' = sent
    BY <1>1, <1>6, HandleFacts
  <2> HIDE DEF u
  <2>2. CASE TextShown(m, u)
    <3>1. acked' = acked \cup {u} /\ shown' = shown \cup {<<m.who, u>>}
      BY <2>2 DEF TextShown, Receive
    <3> QED
      BY <1>2, <1>3, <2>1, <3>1
  <2>3. CASE TextDropped(m, u)
    <3>1. /\ acked' = acked \cup {u} /\ shown' = shown
          /\ m.who \notin sid /\ session = "open"
      BY <2>3 DEF TextDropped, ChannelsStay, channelVars
    <3>2. Lists(sent) \subseteq sid
      BY <1>1, <1>4, <3>1 DEF ListInv, Lists
    <3> QED
      BY <1>2, <1>3, <2>1, <3>1, <3>2
  <2>4. CASE \/ AuthAccepted(m) \/ AuthFails(m) \/ BuddyAdded(m)
             \/ InfoReceived(m) \/ Presence(m) \/ AckFails(m) \/ Deregistered(m)
             \/ ChallengeUnreadable(m) \/ Ignored(m)
    <3>1. acked' = acked /\ shown' = shown
      BY <2>4 DEF AuthAccepted, AuthFails, BuddyAdded, InfoReceived, Presence,
           AckFails, Deregistered, ChallengeUnreadable, Ignored, ChannelsStay,
           channelVars, CloseAll
    <3> QED
      BY <1>2, <1>3, <2>1, <3>1
  <2> QED
    BY <2>1, <2>2, <2>3, <2>4 DEF ProcessPushed
<1>7. ASSUME NEW n \in 1 .. BufLength, Recv(n)
      PROVE  AckedIffShown'
  <2>1. UNCHANGED <<sent, acked, shown>>
    BY <1>7 DEF Recv, ChannelsStay, channelVars
  <2> QED
    BY <1>2, <1>3, <2>1
<1>8. CASE Quiet
  <2>1. UNCHANGED <<sent, acked, shown>>
    BY <1>8 DEF Quiet, ChannelsStay, channelVars, UseStep, Request,
                Acknowledge, Close, Destroy
  <2> QED
    BY <1>2, <1>3, <2>1
<1>9. CASE Ends
  <2>1. UNCHANGED <<sent, acked, shown>>
    BY <1>9 DEF Ends
  <2> QED
    BY <1>2, <1>3, <2>1
<1> QED
  BY <1>5, <1>6, <1>7, <1>8, <1>9, Steps

LEMMA ChannelKept ==
  ASSUME IInv, Next
  PROVE  ChannelInv'
<1>1. /\ AuthInv /\ ChannelInv /\ ~crashed
      /\ Len(handled) \in Nat
  BY StreamAny DEF IInv, Next
<1>2. CASE ChannelsStay \/ CloseAll
  BY <1>1, <1>2, ChannelStepKeeps
<1>3. CASE HandleMessage
  <2> DEFINE t == Len(handled) + 1
             m == sent[t]
  <2>1. m \in Messages /\ ProcessPushed(m, t)
    BY <1>1, <1>3, HandleFacts
  <2>2. t \in Nat
    BY <1>1
  <2> HIDE DEF t, m
  <2>3. CASE AuthAccepted(m)
    <3>1. Auth \in trans
      BY <2>1, <2>3, RequestIs DEF AuthAccepted, IsAwaited
    <3>2. status # "disconnected"
      BY <1>1, <3>1 DEF AuthInv
    <3>3. Connect
      BY <2>3, <3>2 DEF AuthAccepted, Connect
    <3> QED
      BY <1>1, <3>3, ChannelStepKeeps
  <2>4. CASE TextShown(m, t)
    <3>1. session = "open" /\ Receive(m.who, t) /\ m.who \in Contacts
      BY <2>1, <2>4, MessageIs DEF TextShown
    <3>2. status # "disconnected"
      BY <1>1, <3>1 DEF AuthInv, Reading
    <3>3. ChannelStep(m.who)
      BY <2>2, <3>1, <3>2 DEF ChannelStep
    <3> QED
      BY <1>1, <3>1, <3>3, ChannelStepKeeps
  <2>5. CASE ~AuthAccepted(m) /\ ~TextShown(m, t)
    <3>1. ChannelsStay \/ CloseAll
      BY <2>1, <2>5 DEF ProcessPushed, AuthFails, BuddyAdded, InfoReceived,
         Presence, AckFails, TextDropped, Deregistered, ChallengeUnreadable,
         Ignored
    <3> QED
      BY <1>2, <3>1
  <2> QED
    BY <2>3, <2>4, <2>5
<1>4. CASE Quiet
  <2>1. ChannelsStay \/ \E c \in Contacts : ChannelStep(c)
    BY <1>4 DEF Quiet, ChannelStep
  <2> QED
    BY <1>1, <2>1, ChannelStepKeeps
<1>5. CASE Ends
  BY <1>2, <1>5 DEF Ends
<1>6. ASSUME NEW m \in Messages, ServerWrites(m)
      PROVE  ChannelInv'
  BY <1>2, <1>6 DEF ServerWrites
<1>7. ASSUME NEW n \in 1 .. BufLength, Recv(n)
      PROVE  ChannelInv'
  BY <1>2, <1>7 DEF Recv
<1> QED
  BY <1>3, <1>4, <1>5, <1>6, <1>7, Steps

LEMMA Initially == Init => IInv
<1> SUFFICES ASSUME Init PROVE IInv
  OBVIOUS
<1>1. ChannelInv /\ status = "connecting" /\ shown = {}
  BY ChannelsInitially DEF Init, ChannelsInit
<1>2. /\ sent = <<>> /\ wire = <<>> /\ handled = <<>> /\ buffer = <<>>
      /\ checking = FALSE /\ session = "auth" /\ trans = {Auth}
      /\ buddies = {} /\ sid = {} /\ acked = {} /\ crashed = FALSE
  BY DEF Init, Auth
<1>3. Len(sent) = 0 /\ Len(handled) = 0 /\ DOMAIN sent = {}
      /\ DOMAIN handled = {}
  BY <1>2
<1>4. StreamTypeOK
  <2>1. sent \in Seq(Messages)
    BY <1>2
  <2>2. \A X : <<>> \in Seq(X)
    OBVIOUS
  <2> QED
    BY <1>2, <2>1, <2>2 DEF StreamTypeOK
<1>5. SessionTypeOK
  <2>1. Auth \in Requests
    BY DEF Auth, Requests
  <2> QED
    BY <1>2, <2>1 DEF SessionTypeOK, Sessions
<1>6. StreamInv
  <2>1. HandledInOrder
    BY <1>3 DEF HandledInOrder
  <2> DEFINE start == [i \in 1 .. 1 |-> 1]
             S == buffer \o wire
  <2>2. Len(S) = 0
    BY <1>2
  <2>3. start \in [1 .. 1 -> Int] /\ start[1] = 1
    OBVIOUS
  <2> HIDE DEF start, S
  <2>4. 0 + 1 = 1 /\ 1 .. 0 = {}
    OBVIOUS
  <2>5. Placed(start, 0, sent, S)
    BY <1>3, <2>2, <2>3, <2>4 DEF Placed
  <2>6. Fits(start)
    BY <1>3, <2>2, <2>3, <2>5 DEF Fits, S
  <2> QED
    BY <2>1, <2>6 DEF StreamInv
<1>7. AuthInv
  BY <1>1, <1>2, <1>3 DEF AuthInv, Reading
<1>8. ListInv
  BY <1>2 DEF ListInv
<1>9. NothingWaits
  <2>1. Blanks = {}
    BY <1>2 DEF Blanks
  <2> QED
    BY <2>1 DEF NothingWaits, HasMessage
<1>10. AckedIffShown
  BY <1>1, <1>2 DEF AckedIffShown
<1> QED
  BY <1>1, <1>4, <1>5, <1>6, <1>7, <1>8, <1>9, <1>10 DEF IInv

LEMMA Inductive == IInv /\ [Next]_vars => IInv'
<1> SUFFICES ASSUME IInv, [Next]_vars PROVE IInv'
  OBVIOUS
<1>1. CASE Next
  <2>1. StreamInv'
    BY <1>1, InOrderKept, StreamKept DEF StreamInv
  <2> QED
    BY <1>1, <2>1, StreamTypeKept, SessionTypeKept, AuthKept, ListKept,
       ChannelKept, NothingWaitsKept, AckedKept DEF IInv
<1>2. CASE UNCHANGED vars
  <2>1. UNCHANGED <<status, channels, exported, shown, read, sent, wire, buffer,
                    checking, handled, session, trans, buddies, sid, acked,
                    crashed>>
    BY <1>2 DEF vars, channelVars, streamVars, contactVars
  <2>2. StreamTypeOK' /\ SessionTypeOK'
    BY <2>1 DEF IInv, StreamTypeOK, SessionTypeOK
  <2>3. StreamInv'
    BY <2>1 DEF IInv, StreamInv, HandledInOrder, Fits, Reading
  <2>4. AuthInv' /\ ListInv'
    BY <2>1 DEF IInv, AuthInv, ListInv, Reading
  <2>5. ChannelInv'
    BY <2>1, ChannelStepKeeps DEF IInv, ChannelsStay, channelVars
  <2>6. NothingWaits' /\ AckedIffShown'
    BY <2>1 DEF IInv, NothingWaits, HasMessage, MessageEnd, HeaderEnd,
                BodyLength, Blanks, AckedIffShown
  <2> QED
    BY <2>2, <2>3, <2>4, <2>5, <2>6 DEF IInv
<1> QED
  BY <1>1, <1>2

LEMMA Always == Spec => []IInv
BY Initially, Inductive, PTL DEF Spec

(* The type invariant, whatever the sizes of the reads and the number of   *)
(* contacts and messages.                                                  *)
THEOREM TypeCorrect == Spec => []TypeOK
<1>1. IInv => TypeOK
  BY TypeParts DEF IInv, ChannelInv
<1> QED
  BY <1>1, Always, PTL

(* However recv() cuts the stream, process_pushed is given the messages    *)
(* the server wrote, whole and in order (fx_login.c, hybrid_push_cb).      *)
THEOREM CutAtMessages == Spec => []HandledInOrder
<1>1. IInv => HandledInOrder
  BY DEF IInv, StreamInv
<1> QED
  BY <1>1, Always, PTL

(* No complete message waits in the buffer for the next read               *)
(* (fx_login.c, the recheck label of hybrid_push_cb).                      *)
THEOREM BufferEmptied == Spec => []NothingWaits
<1>1. IInv => NothingWaits
  BY DEF IInv
<1> QED
  BY <1>1, Always, PTL

(* The client knows the channels the factory keeps (im-factory.c,          *)
(* channel_closed_cb and fetion_im_factory_close_all).                     *)
THEOREM ChannelsKnown == Spec => []AnnouncedIffListed
<1>1. IInv => AnnouncedIffListed
  BY DEF IInv, ChannelInv
<1> QED
  BY <1>1, Always, PTL

(* Closing a channel loses no text (im-channel.c, fetion_im_channel_close).*)
THEOREM NoTextLost == Spec => []TextsKept
<1>1. IInv => TextsKept
  BY DEF IInv, ChannelInv
<1> QED
  BY <1>1, Always, PTL

(* A text is put on a channel exactly if it was acknowledged, when its     *)
(* sender was in the list of the login (fx_msg.c, fetion_process_message). *)
THEOREM AcknowledgedShown == Spec => []AckedIffShown
<1>1. IInv => AckedIffShown
  BY DEF IInv
<1> QED
  BY <1>1, Always, PTL

-----------------------------------------------------------------------------
(* The refinement of Inbox                                                 *)

(* An abstract step is known by what it does to the texts of one contact,  *)
(* or to the unread texts of all.                                          *)
InboxSame ==
  /\ UNCHANGED sent
  /\ \A c \in Contacts : OnTheWay(c)' = OnTheWay(c)

LEMMA InboxStutters ==
  ASSUME InboxSame, \A c \in Contacts : Unread(c)' = Unread(c)
  PROVE  UNCHANGED Delivery!vars
BY DEF InboxSame, Delivery!vars, IsText

LEMMA InboxChanges ==
  ASSUME InboxSame, NEW c \in Contacts,
         \A d \in Contacts \ {c} : Unread(d)' = Unread(d),
         \/ Unread(c)' = <<>>
         \/ \E i \in DOMAIN Unread(c) : Unread(c)' = RemoveAt(Unread(c), i)
  PROVE  Delivery!Next
<1>1. /\ {t \in DOMAIN sent : IsText(t)}' = {t \in DOMAIN sent : IsText(t)}
      /\ [d \in Contacts |-> OnTheWay(d)]' = [d \in Contacts |-> OnTheWay(d)]
  BY DEF InboxSame, IsText
<1>2. CASE Unread(c)' = <<>>
  <2>1. Delivery!Drop(c)
    BY <1>1, <1>2 DEF Delivery!Drop
  <2> QED
    BY <2>1 DEF Delivery!Next
<1>3. ASSUME NEW i \in DOMAIN Unread(c), Unread(c)' = RemoveAt(Unread(c), i)
      PROVE  Delivery!Next
  <2>1. Delivery!Acknowledge(c, i)
    BY <1>1, <1>3 DEF Delivery!Acknowledge, Delivery!RemoveAt, RemoveAt
  <2>2. i \in DOMAIN [d \in Contacts |-> Unread(d)][c]
    OBVIOUS
  <2> QED
    BY <2>1, <2>2 DEF Delivery!Next
<1> QED
  BY <1>2, <1>3

LEMMA InboxEnds ==
  ASSUME InboxSame, \A c \in Contacts : Unread(c)' = <<>>
  PROVE  Delivery!Next
<1>1. /\ {t \in DOMAIN sent : IsText(t)}' = {t \in DOMAIN sent : IsText(t)}
      /\ [d \in Contacts |-> OnTheWay(d)]' = [d \in Contacts |-> OnTheWay(d)]
  BY DEF InboxSame, IsText
<1>2. Delivery!End
  BY <1>1 DEF Delivery!End
<1> QED
  BY <1>2 DEF Delivery!Next

(* What waits for the client, when the channels stay.                      *)
LEMMA UnreadStays ==
  ASSUME UNCHANGED channels, NEW c
  PROVE  Unread(c)' = Unread(c)
BY DEF Unread, IsOpen

(* What the client and a text do to the unread texts.                      *)
LEMMA UnreadIs ==
  ASSUME ChannelInv, status # "disconnected", NEW c
  PROVE  /\ c \in exported => Unread(c) = channels[c].pending
         /\ c \notin exported => Unread(c) = <<>>
BY ListedIs DEF Unread, IsOpen

LEMMA UnreadNext ==
  ASSUME ChannelInv', status' # "disconnected", NEW c
  PROVE  /\ c \in DOMAIN channels' => Unread(c)' = channels'[c].pending
         /\ c \notin DOMAIN channels' => Unread(c)' = <<>>
BY DEF Unread, IsOpen, ChannelInv, ChannelTypeOK

LEMMA ReceiveUnread ==
  ASSUME ChannelInv, status # "disconnected", NEW c \in Contacts, NEW t \in Nat,
         Receive(c, t)
  PROVE  /\ Unread(c)' = Append(Unread(c), t)
         /\ \A d \in Contacts \ {c} : Unread(d)' = Unread(d)
<1>1. ChannelInv'
  BY ChannelStepKeeps DEF ChannelStep
<1> DEFINE new == [ChannelFor(c) EXCEPT !.pending = Append(@, t)]
<1>2. /\ channels' = WithChannel(channels, c, new) /\ status' = status
  BY DEF Receive
<1>3. channels # NULL /\ exported = DOMAIN channels
      /\ channels \in [exported -> Channels]
  BY ListedIs
<1>4. ChannelFor(c) \in Channels /\ ChannelFor(c).pending = Unread(c)
  <2>1. <<>> \in Seq(Nat)
    OBVIOUS
  <2> QED
    BY <1>3, <2>1 DEF ChannelFor, Unread, NewChannel, Channels, IsOpen
<1>5. new.pending = Append(Unread(c), t)
  BY <1>4 DEF Channels
<1> HIDE DEF new
<1>6. /\ DOMAIN channels' = exported \cup {c} /\ channels'[c] = new
      /\ \A d \in exported \ {c} : channels'[d] = channels[d]
  BY <1>2, <1>3 DEF WithChannel
<1> QED
  BY <1>1, <1>2, <1>5, <1>6, UnreadIs, UnreadNext

LEMMA UseUnread ==
  ASSUME ChannelInv, NEW c \in Contacts, UseStep(c)
  PROVE  /\ \A d \in Contacts \ {c} : Unread(d)' = Unread(d)
         /\ \/ Unread(c)' = Unread(c)
            \/ Unread(c)' = <<>>
            \/ \E i \in DOMAIN Unread(c) : Unread(c)' = RemoveAt(Unread(c), i)
<1>1. ChannelInv'
  BY ChannelStepKeeps DEF ChannelStep
<1>2. status # "disconnected" /\ status' = status
  BY DEF UseStep, Request, Acknowledge, Close, Destroy
<1>3. channels # NULL /\ exported = DOMAIN channels
      /\ channels \in [exported -> Channels]
  BY <1>2, ListedIs
<1>4. CASE Request(c)
  <2>1. CASE IsOpen(c)
    BY <1>4, <2>1, UnreadStays DEF Request
  <2>2. CASE ~IsOpen(c)
    <3>1. /\ DOMAIN channels' = exported \cup {c}
          /\ channels'[c].pending = <<>>
          /\ \A d \in exported \ {c} : channels'[d] = channels[d]
      BY <1>3, <1>4, <2>2 DEF Request, WithChannel, NewChannel
    <3> QED
      BY <1>1, <1>2, <3>1, UnreadIs, UnreadNext
  <2> QED
    BY <2>1, <2>2
<1>5. ASSUME c \in exported, NEW i \in DOMAIN channels[c].pending, Acknowledge(c, i)
      PROVE  /\ \A d \in Contacts \ {c} : Unread(d)' = Unread(d)
             /\ i \in DOMAIN Unread(c) /\ Unread(c)' = RemoveAt(Unread(c), i)
  <2>1. /\ DOMAIN channels' = exported
        /\ channels'[c].pending = RemoveAt(channels[c].pending, i)
        /\ \A d \in exported \ {c} : channels'[d] = channels[d]
    BY <1>3, <1>5 DEF Acknowledge, Channels
  <2> QED
    BY <1>1, <1>2, <1>5, <2>1, UnreadIs, UnreadNext
<1>6. CASE c \in exported /\ Reopen(c)
  <2>1. /\ DOMAIN channels' = exported
        /\ channels'[c].pending = channels[c].pending
        /\ \A d \in exported \ {c} : channels'[d] = channels[d]
    BY <1>3, <1>6 DEF Reopen, Channels
  <2> QED
    BY <1>1, <1>2, <1>6, <2>1, UnreadIs, UnreadNext
<1>7. CASE Gone(c)
  <2>1. /\ DOMAIN channels' = exported \ {c}
        /\ \A d \in exported \ {c} : channels'[d] = channels[d]
    BY <1>3, <1>7 DEF Gone, WithoutChannel
  <2> QED
    BY <1>1, <1>2, <2>1, UnreadIs, UnreadNext
<1> QED
  BY <1>4, <1>5, <1>6, <1>7 DEF UseStep, Close, Destroy

(* The server has written MaxMessages at most.                             *)
Bounded == Len(sent) <= MaxMessages

LEMMA SentBounded == Spec => []Bounded
<1>1. Init => Bounded
  BY SizeAssumption DEF Init, Bounded
<1>2. IInv /\ Bounded /\ [Next]_vars => Bounded'
  <2> SUFFICES ASSUME IInv, Bounded, [Next]_vars
               PROVE  Bounded'
    OBVIOUS
  <2>1. ASSUME NEW m \in Messages, ServerWrites(m)
        PROVE  Bounded'
    BY <2>1, SizeAssumption, StreamAny DEF Bounded, ServerWrites, IInv, StreamTypeOK
  <2>2. CASE sent' = sent
    BY <2>2 DEF Bounded
  <2> QED
    BY <2>1, <2>2, Steps, HandleFacts DEF Recv, Quiet, Ends, vars, Next
<1> QED
  BY <1>1, <1>2, Always, PTL DEF Spec

(* The message the server writes is the last one, and behind those handled.*)
LEMMA WriteRefines ==
  ASSUME IInv, NEW m \in Messages, ServerWrites(m)
  PROVE  [Delivery!Next]_(Delivery!vars)
<1> DEFINE n == Len(sent) + 1
<1>1. /\ sent' = Append(sent, m) /\ handled' = handled /\ UNCHANGED channels
      /\ Len(sent) < MaxMessages
  BY DEF ServerWrites, ChannelsStay, channelVars
<1>2. /\ Len(sent) \in Nat /\ Len(handled) \in Nat /\ Len(handled) <= Len(sent)
      /\ DOMAIN sent = 1 .. Len(sent)
  BY StreamAny DEF IInv, StreamInv, HandledInOrder
<1>3. /\ DOMAIN sent' = DOMAIN sent \cup {n} /\ n \notin DOMAIN sent
      /\ sent'[n] = m /\ \A t \in DOMAIN sent : sent'[t] = sent[t] /\ t < n
      /\ n \in 1 .. MaxMessages /\ n > Len(handled)
  BY <1>1, <1>2, SizeAssumption DEF IInv, StreamTypeOK
<1> HIDE DEF n
<1>4. \A c \in Contacts : Unread(c)' = Unread(c)
  BY <1>1, UnreadStays
<1>5. CASE m.type = "text"
  <2>1. m.who \in Contacts
    BY <1>5, MessageIs
  <2>2. {t \in DOMAIN sent : IsText(t)}' = {t \in DOMAIN sent : IsText(t)} \cup {n}
    BY <1>3, <1>5 DEF IsText
  <2>3. OnTheWay(m.who)' = OnTheWay(m.who) \cup {n}
    BY <1>1, <1>3, <1>5 DEF IsText, OnTheWay
  <2>4. \A c \in Contacts \ {m.who} : OnTheWay(c)' = OnTheWay(c)
    BY <1>1, <1>3, <1>5 DEF IsText, OnTheWay
  <2>5. \A t \in {t \in DOMAIN sent : IsText(t)} : t < n
    BY <1>3
  <2>6. Delivery!Write(m.who, n)
    BY <1>4, <2>1, <2>2, <2>3, <2>4, <2>5 DEF Delivery!Write
  <2> QED
    BY <1>3, <2>1, <2>6 DEF Delivery!Next
<1>6. CASE m.type # "text"
  <2>1. {t \in DOMAIN sent : IsText(t)}' = {t \in DOMAIN sent : IsText(t)}
    BY <1>3, <1>6 DEF IsText
  <2>2. \A c \in Contacts : OnTheWay(c)' = OnTheWay(c)
    BY <1>1, <1>3, <1>6 DEF IsText, OnTheWay
  <2> QED
    BY <1>4, <2>1, <2>2 DEF Delivery!vars
<1> QED
  BY <1>5, <1>6

(* A handled message that is a text is the oldest of its sender that was   *)
(* not handled, whatever came between.                                     *)
LEMMA HandleRefines ==
  ASSUME IInv, Bounded, ~crashed, HandleMessage
  PROVE  [Delivery!Next]_(Delivery!vars)
<1>0. PICK h, n, m : h = Len(handled) /\ n = h + 1 /\ m = sent[n]
  OBVIOUS
<1>1. /\ n \in 1 .. Len(sent) /\ m \in Messages /\ ProcessPushed(m, n)
      /\ sent' = sent /\ handled' = Append(handled, Cells(n, m))
  BY <1>0, HandleFacts
<1>2. h \in Nat /\ Len(handled') = h + 1 /\ n \in Nat /\ n \in DOMAIN sent
      /\ DOMAIN sent \subseteq Nat
  <2>1. handled \in Seq(Seq([of : DOMAIN sent, part : Parts]))
    BY DEF IInv, StreamTypeOK
  <2>2. h \in Nat /\ DOMAIN sent = 1 .. Len(sent) /\ Len(sent) \in Nat
    BY <1>0, StreamAny DEF IInv
  <2>3. Len(Append(handled, Cells(n, m))) = h + 1
    BY <1>0, <2>1
  <2> QED
    BY <1>0, <1>1, <2>2, <2>3
<1>3. \A t \in DOMAIN sent : t > Len(handled') <=> t > h /\ t # n
  BY <1>0, <1>2
<1>4. n > h /\ \A t \in DOMAIN sent : t > h => n <= t
  BY <1>0, <1>2
<1>5. \A c \in Contacts :
        OnTheWay(c)' = IF m.type = "text" /\ m.who = c THEN OnTheWay(c) \ {n}
                                                       ELSE OnTheWay(c)
  <2> TAKE c \in Contacts
  <2>1. OnTheWay(c)' = {t \in DOMAIN sent : t > Len(handled') /\ IsText(t) /\ sent[t].who = c}
    BY <1>1 DEF OnTheWay, IsText
  <2>2. OnTheWay(c) = {t \in DOMAIN sent : t > h /\ IsText(t) /\ sent[t].who = c}
    BY <1>0 DEF OnTheWay
  <2>3. IsText(n) <=> m.type = "text"
    BY <1>0 DEF IsText
  <2> QED
    BY <1>0, <1>2, <1>3, <1>4, <2>1, <2>2, <2>3
<1>6. {t \in DOMAIN sent : IsText(t)}' = {t \in DOMAIN sent : IsText(t)}
  BY <1>1 DEF IsText
<1>7. n \in 1 .. MaxMessages
  BY <1>1, <1>2, SizeAssumption DEF Bounded
<1>8. CASE m.type = "text"
  <2>1. PICK w \in Contacts : w = m.who
    BY <1>1, <1>8, MessageIs
  <2>2. n \in OnTheWay(w) /\ \A t \in OnTheWay(w) : n <= t
    BY <1>0, <1>2, <1>4, <1>8, <2>1 DEF OnTheWay, IsText
  <2>3. OnTheWay(w)' = OnTheWay(w) \ {n}
        /\ \A c \in Contacts \ {w} : OnTheWay(c)' = OnTheWay(c)
    BY <1>5, <1>8, <2>1
  <2>4. \/ TextShown(m, n)
        \/ UNCHANGED channels
    BY <1>1, <1>8, MessageIs DEF ProcessPushed, AuthAccepted, AuthFails, BuddyAdded,
       InfoReceived, Presence, AckFails, TextDropped, Deregistered,
       ChallengeUnreadable, Ignored, ChannelsStay, channelVars, IsAwaited
  <2>5. /\ Unread(w)' = Append(Unread(w), n) \/ Unread(w)' = Unread(w)
        /\ \A c \in Contacts \ {w} : Unread(c)' = Unread(c)
    <3>1. CASE TextShown(m, n)
      <4>1. Receive(w, n) /\ session = "open"
        BY <2>1, <3>1 DEF TextShown
      <4>2. status # "disconnected"
        BY <4>1 DEF IInv, AuthInv, Reading
      <4> QED
        BY <1>2, <2>1, <4>1, <4>2, ReceiveUnread DEF IInv
    <3> QED
      BY <2>4, <3>1, UnreadStays
  <2>6. Delivery!Arrive(w, n)
    BY <1>6, <2>1, <2>2, <2>3, <2>5 DEF Delivery!Arrive
  <2>7. n \in 1 .. MaxMessages
    BY <1>7
  <2> QED
    BY <2>1, <2>6, <2>7 DEF Delivery!Next
<1>9. CASE m.type # "text"
  <2>1. InboxSame
    BY <1>1, <1>5, <1>9 DEF InboxSame
  <2>2. UNCHANGED channels \/ channels' = NULL
    BY <1>1, <1>9 DEF ProcessPushed, AuthAccepted, AuthFails, BuddyAdded,
       InfoReceived, Presence, AckFails, TextShown, TextDropped, Deregistered,
       ChallengeUnreadable, Ignored, CloseAll, ChannelsStay, channelVars
  <2>3. CASE channels' = NULL
    BY <2>1, <2>3, InboxEnds DEF Unread, IsOpen
  <2> QED
    BY <2>1, <2>2, <2>3, UnreadStays, InboxStutters
<1> QED
  BY <1>8, <1>9

(* What the client does with a channel, and the end of the session.        *)
LEMMA RestRefines ==
  ASSUME IInv, Quiet \/ Ends \/ \E n \in 1 .. BufLength : Recv(n)
  PROVE  [Delivery!Next]_(Delivery!vars)
<1>1. sent' = sent /\ handled' = handled
  BY DEF Quiet, Ends, Recv
<1>2. InboxSame
  BY <1>1 DEF InboxSame, OnTheWay, IsText
<1>3. \/ ChannelsStay \/ CloseAll
      \/ \E c \in Contacts : UseStep(c)
  BY DEF Quiet, Ends, Recv
<1>4. CASE ChannelsStay
  BY <1>2, <1>4, UnreadStays, InboxStutters DEF ChannelsStay, channelVars
<1>5. CASE CloseAll
  <2>1. \A c \in Contacts : Unread(c)' = <<>>
    BY <1>5 DEF CloseAll, Unread, IsOpen
  <2> QED
    BY <1>2, <2>1, InboxEnds
<1>6. ASSUME NEW c \in Contacts, UseStep(c)
      PROVE  [Delivery!Next]_(Delivery!vars)
  <2>1. /\ \A d \in Contacts \ {c} : Unread(d)' = Unread(d)
        /\ \/ Unread(c)' = Unread(c)
           \/ Unread(c)' = <<>>
           \/ \E i \in DOMAIN Unread(c) : Unread(c)' = RemoveAt(Unread(c), i)
    BY <1>6, UseUnread DEF IInv
  <2>2. CASE Unread(c)' = Unread(c)
    <3>1. \A d \in Contacts : Unread(d)' = Unread(d)
      BY <2>1, <2>2
    <3> QED
      BY <1>2, <3>1, InboxStutters
  <2>3. CASE Unread(c)' # Unread(c)
    BY <1>2, <2>1, <2>3, InboxChanges
  <2> QED
    BY <2>2, <2>3
<1> QED
  BY <1>3, <1>4, <1>5, <1>6

(* However the stream is cut, whatever the server sends besides texts and  *)
(* the client does with its channels, texts of one contact reach the       *)
(* client in their order, once each.                                       *)
THEOREM InboxRefined == Spec => ImplementsInbox
<1>1. Init => Delivery!Init
  <2> SUFFICES ASSUME Init
               PROVE  Delivery!Init
    OBVIOUS
  <2>1. DOMAIN sent = {} /\ channels = [c \in {} |-> NULL]
    BY DEF Init, ChannelsInit
  <2>2. \A c \in Contacts : OnTheWay(c) = {} /\ Unread(c) = <<>>
    BY <2>1 DEF OnTheWay, Unread, IsOpen
  <2> QED
    BY <2>1, <2>2 DEF Delivery!Init
<1>2. IInv /\ Bounded /\ [Next]_vars
      => [Delivery!Next]_(Delivery!vars)
  <2> SUFFICES ASSUME IInv, Bounded, [Next]_vars
               PROVE  [Delivery!Next]_(Delivery!vars)
    OBVIOUS
  <2>1. CASE Next
    <3>1. ~crashed
      BY <2>1 DEF Next
    <3> QED
      BY <2>1, <3>1, Steps, WriteRefines, HandleRefines, RestRefines
  <2>2. CASE UNCHANGED vars
    <3>1. ChannelsStay /\ sent' = sent /\ handled' = handled
      BY <2>2 DEF vars, ChannelsStay, streamVars
    <3>2. InboxSame
      BY <3>1 DEF InboxSame, OnTheWay, IsText
    <3> QED
      BY <3>1, <3>2, UnreadStays, InboxStutters DEF ChannelsStay, channelVars
  <2> QED
    BY <2>1, <2>2
<1> QED
  BY <1>1, <1>2, Always, SentBounded, PTL DEF Spec, ImplementsInbox, Delivery!Spec

-----------------------------------------------------------------------------
(* What the refinement gives                                               *)

Increasing(s) == \A i, j \in DOMAIN s : i < j => s[i] < s[j]

(* What waits for the client is in the order of the wire, none twice.      *)
UnreadInOrder == \A c \in Contacts : Increasing(Unread(c))

TextsWritten == {t \in DOMAIN sent : IsText(t)}

(* ... and older than what is on its way, which makes it inductive.        *)
Older(c) ==
  /\ Unread(c) \in Seq(Nat)
  /\ Increasing(Unread(c))
  /\ \A i \in DOMAIN Unread(c) :
       /\ Unread(c)[i] \in TextsWritten
       /\ \A t \in OnTheWay(c) : Unread(c)[i] < t

OrderInv == \A c \in Contacts : Older(c)

LEMMA RemoveAtIs ==
  ASSUME NEW S \in Seq(Nat), NEW i \in DOMAIN S
  PROVE  /\ RemoveAt(S, i) \in Seq(Nat)
         /\ Increasing(S) => Increasing(RemoveAt(S, i))
         /\ \A k \in DOMAIN RemoveAt(S, i) : \E j \in DOMAIN S : RemoveAt(S, i)[k] = S[j]
<1> DEFINE A == SubSeq(S, 1, i - 1)
           B == SubSeq(S, i + 1, Len(S))
<1>1. PICK l \in Nat : l = Len(S)
  OBVIOUS
<1>2. i \in 1 .. l /\ DOMAIN S = 1 .. l
  BY <1>1
<1>3. RemoveAt(S, i) = A \o B
  BY DEF RemoveAt
<1>4. A \in Seq(Nat) /\ Len(A) = i - 1 /\ \A k \in 1 .. i - 1 : A[k] = S[k]
  <2>1. i - 1 \in 0 .. Len(S)
    BY <1>1, <1>2
  <2> QED
    BY <2>1, CutTexts
<1>5. B \in Seq(Nat) /\ Len(B) = l - i /\ \A k \in 1 .. l - i : B[k] = S[k + i]
  <2>1. i \in 0 .. Len(S)
    BY <1>1, <1>2
  <2> QED
    BY <1>1, <2>1, CutTexts
<1> HIDE DEF A, B
<1>6. /\ A \o B \in Seq(Nat)
      /\ DOMAIN (A \o B) = 1 .. Len(A) + Len(B)
      /\ \A k \in 1 .. Len(A) : (A \o B)[k] = A[k]
      /\ \A k \in 1 .. Len(B) : (A \o B)[Len(A) + k] = B[k]
  BY <1>4, <1>5, JoinedTexts
<1>7. DOMAIN (A \o B) = 1 .. l - 1
  <2>1. i - 1 + (l - i) = l - 1
    BY <1>1, <1>2
  <2> QED
    BY <1>4, <1>5, <1>6, <2>1
<1> DEFINE at(k) == IF k < i THEN k ELSE k + 1
<1>8. ASSUME NEW k \in 1 .. l - 1
      PROVE  at(k) \in 1 .. l /\ (A \o B)[k] = S[at(k)]
  <2>1. CASE k < i
    BY <1>1, <1>2, <1>4, <1>6, <2>1
  <2>2. CASE ~(k < i)
    <3>1. PICK b \in 1 .. l - i : b = k - (i - 1)
      BY <1>1, <1>2, <2>2
    <3>2. Len(A) + b = k /\ b + i = k + 1 /\ k + 1 \in 1 .. l
      BY <1>1, <1>2, <1>4, <3>1
    <3>3. (A \o B)[Len(A) + b] = B[b] /\ B[b] = S[b + i]
      BY <1>5, <1>6
    <3> QED
      BY <2>2, <3>2, <3>3
  <2> QED
    BY <2>1, <2>2
<1>9. \A j, k \in 1 .. l - 1 : j < k => at(j) < at(k)
  BY <1>1, <1>2
<1> HIDE DEF at
<1> DEFINE R == A \o B
<1>10. R \in Seq(Nat) /\ DOMAIN R = 1 .. l - 1 /\ R = RemoveAt(S, i)
  BY <1>3, <1>6, <1>7
<1>11. \A k \in 1 .. l - 1 : at(k) \in DOMAIN S /\ R[k] = S[at(k)]
  BY <1>2, <1>8
<1> HIDE DEF R
<1>12. Increasing(S) => Increasing(R)
  BY <1>9, <1>10, <1>11 DEF Increasing
<1>13. \A k \in DOMAIN R : \E j \in DOMAIN S : R[k] = S[j]
  BY <1>10, <1>11
<1> QED
  BY <1>10, <1>12, <1>13

LEMMA AppendIncreasing ==
  ASSUME NEW S \in Seq(Nat), NEW t \in Nat, Increasing(S),
         \A i \in DOMAIN S : S[i] < t
  PROVE  /\ Append(S, t) \in Seq(Nat)
         /\ Increasing(Append(S, t))
         /\ \A i \in DOMAIN Append(S, t) :
              Append(S, t)[i] = t \/ \E j \in DOMAIN S : Append(S, t)[i] = S[j]
<1>1. PICK l \in Nat : l = Len(S)
  OBVIOUS
<1>2. /\ Append(S, t) \in Seq(Nat)
      /\ DOMAIN S = 1 .. l /\ DOMAIN Append(S, t) = 1 .. l + 1
      /\ \A i \in 1 .. l : Append(S, t)[i] = S[i]
      /\ Append(S, t)[l + 1] = t
  BY <1>1
<1> DEFINE R == Append(S, t)
<1> HIDE DEF R
<1>3. \A i \in 1 .. l + 1 : i \in 1 .. l \/ i = l + 1
  BY <1>1
<1>4. \A i, j \in 1 .. l + 1 : i < j => i \in 1 .. l
  BY <1>1
<1> QED
  BY <1>2, <1>3, <1>4 DEF Increasing

LEMMA EmptyOlder ==
  ASSUME NEW c
  PROVE  /\ Unread(c) = <<>> => Older(c)
         /\ Unread(c)' = <<>> => Older(c)'
<1>1. <<>> \in Seq(Nat) /\ DOMAIN <<>> = {}
  OBVIOUS
<1> QED
  BY <1>1 DEF Older, Increasing

(* The abstract step is enough: nothing of the code is looked at.          *)
LEMMA OrderKept ==
  ASSUME OrderInv, DOMAIN sent \subseteq Nat, DOMAIN sent' \subseteq Nat,
         [Delivery!Next]_(Delivery!vars)
  PROVE  OrderInv'
<1> SUFFICES ASSUME NEW c \in Contacts
             PROVE  Older(c)'
  BY DEF OrderInv
<1>1. Older(c)
  BY DEF OrderInv
<1>2. OnTheWay(c) \subseteq Nat /\ TextsWritten \subseteq Nat /\ OnTheWay(c) \subseteq TextsWritten
  BY DEF OnTheWay, TextsWritten
<1>3. CASE UNCHANGED Delivery!vars
  <2>1. Unread(c)' = Unread(c) /\ OnTheWay(c)' = OnTheWay(c) /\ TextsWritten' = TextsWritten
    BY <1>3 DEF Delivery!vars, TextsWritten
  <2> QED
    BY <1>1, <2>1 DEF Older
<1>4. ASSUME NEW d \in Contacts, NEW t \in 1 .. MaxMessages, Delivery!Write(d, t)
      PROVE  Older(c)'
  <2>1. /\ \A u \in TextsWritten : u < t
        /\ TextsWritten' = TextsWritten \cup {t}
        /\ OnTheWay(c)' \subseteq OnTheWay(c) \cup {t}
        /\ Unread(c)' = Unread(c)
    BY <1>4 DEF Delivery!Write, TextsWritten
  <2> QED
    BY <1>1, <2>1 DEF Older
<1>5. ASSUME NEW d \in Contacts, NEW t \in 1 .. MaxMessages, Delivery!Arrive(d, t)
      PROVE  Older(c)'
  <2>1. TextsWritten' = TextsWritten
    BY <1>5 DEF Delivery!Arrive, TextsWritten
  <2>2. CASE c = d
    <3>1. /\ t \in OnTheWay(c) /\ \A u \in OnTheWay(c) : t <= u
          /\ OnTheWay(c)' = OnTheWay(c) \ {t}
          /\ Unread(c)' = Append(Unread(c), t) \/ Unread(c)' = Unread(c)
      BY <1>5, <2>2 DEF Delivery!Arrive
    <3>2. CASE Unread(c)' = Unread(c)
      BY <1>1, <2>1, <3>1, <3>2 DEF Older
    <3>3. CASE Unread(c)' = Append(Unread(c), t)
      <4>1. /\ t \in Nat /\ t \in TextsWritten /\ Unread(c) \in Seq(Nat)
            /\ Increasing(Unread(c)) /\ \A i \in DOMAIN Unread(c) : Unread(c)[i] < t
        BY <1>1, <1>2, <3>1 DEF Older
      <4>2. \A u \in OnTheWay(c)' : t < u /\ u \in OnTheWay(c)
        BY <1>2, <3>1
      <4>3. /\ Unread(c)' \in Seq(Nat) /\ Increasing(Unread(c)')
            /\ \A i \in DOMAIN Unread(c)' :
                 Unread(c)'[i] = t \/ \E j \in DOMAIN Unread(c) : Unread(c)'[i] = Unread(c)[j]
        BY <3>3, <4>1, AppendIncreasing
      <4>4. \A i \in DOMAIN Unread(c)' :
              /\ Unread(c)'[i] \in TextsWritten
              /\ \A u \in OnTheWay(c)' : Unread(c)'[i] < u
        BY <1>1, <4>1, <4>2, <4>3 DEF Older
      <4> QED
        BY <2>1, <4>3, <4>4 DEF Older, Increasing
    <3> QED
      BY <3>1, <3>2, <3>3
  <2>3. CASE c # d
    <3>1. Unread(c)' = Unread(c) /\ OnTheWay(c)' = OnTheWay(c)
      BY <1>5, <2>3 DEF Delivery!Arrive
    <3> QED
      BY <1>1, <2>1, <3>1 DEF Older
  <2> QED
    BY <2>2, <2>3
<1>6. ASSUME NEW d \in Contacts, NEW i \in DOMAIN [e \in Contacts |-> Unread(e)][d],
             Delivery!Acknowledge(d, i)
      PROVE  Older(c)'
  <2>1. TextsWritten' = TextsWritten /\ OnTheWay(c)' = OnTheWay(c) /\ i \in DOMAIN Unread(d)
    BY <1>6 DEF Delivery!Acknowledge, TextsWritten
  <2>2. CASE c = d
    <3>1. Unread(c)' = RemoveAt(Unread(c), i)
      BY <1>6, <2>2 DEF Delivery!Acknowledge, Delivery!RemoveAt, RemoveAt
    <3>2. /\ RemoveAt(Unread(c), i) \in Seq(Nat)
          /\ Increasing(RemoveAt(Unread(c), i))
          /\ \A k \in DOMAIN RemoveAt(Unread(c), i) : \E j \in DOMAIN Unread(c) :
               RemoveAt(Unread(c), i)[k] = Unread(c)[j]
      BY <1>1, <2>1, <2>2, RemoveAtIs DEF Older
    <3>3. \A k \in DOMAIN Unread(c)' :
            /\ Unread(c)'[k] \in TextsWritten
            /\ \A u \in OnTheWay(c) : Unread(c)'[k] < u
      BY <1>1, <3>1, <3>2 DEF Older
    <3> QED
      BY <2>1, <3>1, <3>2, <3>3 DEF Older, Increasing
  <2>3. CASE c # d
    <3>1. Unread(c)' = Unread(c)
      BY <1>6, <2>3 DEF Delivery!Acknowledge
    <3> QED
      BY <1>1, <2>1, <3>1 DEF Older
  <2> QED
    BY <2>2, <2>3
<1>7. ASSUME NEW d \in Contacts, Delivery!Drop(d)
      PROVE  Older(c)'
  <2>1. /\ TextsWritten' = TextsWritten /\ OnTheWay(c)' = OnTheWay(c)
        /\ Unread(c)' = Unread(c) \/ Unread(c)' = <<>>
    BY <1>7 DEF Delivery!Drop, TextsWritten
  <2> QED
    BY <1>1, <2>1, EmptyOlder DEF Older
<1>8. CASE Delivery!End
  <2>1. Unread(c)' = <<>>
    BY <1>8 DEF Delivery!End
  <2> QED
    BY <2>1, EmptyOlder
<1> QED
  BY <1>3, <1>4, <1>5, <1>6, <1>7, <1>8 DEF Delivery!Next

(* On a channel the texts of a contact wait in the order in which the      *)
(* server wrote them, each once (im-factory.c, telepathy_message_received),*)
(* whatever was acknowledged or dropped in between.                        *)
THEOREM ShownInOrder == Spec => []UnreadInOrder
<1>1. Init => OrderInv
  BY EmptyOlder DEF Init, ChannelsInit, OrderInv, Unread, IsOpen
<1>2. IInv /\ IInv' /\ OrderInv /\ [Delivery!Next]_(Delivery!vars) => OrderInv'
  <2> SUFFICES ASSUME IInv, IInv', OrderInv, [Delivery!Next]_(Delivery!vars)
               PROVE  OrderInv'
    OBVIOUS
  <2>1. DOMAIN sent \subseteq Nat /\ DOMAIN sent' \subseteq Nat
    BY DEF IInv, StreamTypeOK
  <2> QED
    BY <2>1, OrderKept
<1>3. OrderInv => UnreadInOrder
  BY DEF OrderInv, Older, UnreadInOrder
<1> QED
  BY <1>1, <1>2, <1>3, Always, InboxRefined, PTL
  DEF Spec, ImplementsInbox, Delivery!Spec
=============================================================================
