------------------------------- MODULE Inbox -------------------------------
(***************************************************************************)
(* What a connection promises of the texts the contacts send to the user:  *)
(* those of one contact reach the client in the order in which the server  *)
(* wrote them, each at most once, and one that has reached it stays unread *)
(* until the client acknowledges it, drops the channel or the connection   *)
(* ends.  A text may be lost on its way; FxIncoming!AckedIffShown says     *)
(* when it may.  The texts are numbered as the server writes them.         *)
(***************************************************************************)
EXTENDS Naturals, SequencesExt

CONSTANTS
  Contacts,
  Texts      \* the texts there may be, by number

VARIABLES
  texts,   \* the texts written so far
  line,    \* the texts of each contact still on their way
  unread   \* the texts of each contact the client has not acknowledged

vars == <<texts, line, unread>>

Init ==
  /\ texts = {}
  /\ line = [c \in Contacts |-> {}]
  /\ unread = [c \in Contacts |-> <<>>]

(* The server writes a text of c.                                          *)
Write(c, t) ==
  /\ \A u \in texts : u < t
  /\ texts' = texts \cup {t}
  /\ line' = [line EXCEPT ![c] = @ \cup {t}]
  /\ UNCHANGED unread

(* The oldest text of c on its way arrives, or is lost.                    *)
Arrive(c, t) ==
  /\ t \in line[c] /\ \A u \in line[c] : t <= u
  /\ line' = [line EXCEPT ![c] = @ \ {t}]
  /\ \/ unread' = [unread EXCEPT ![c] = Append(@, t)]
     \/ UNCHANGED unread
  /\ UNCHANGED texts

(* The client acknowledges one text of c.                                  *)
Acknowledge(c, i) ==
  /\ unread' = [unread EXCEPT ![c] = RemoveAt(@, i)]
  /\ UNCHANGED <<texts, line>>

(* The client drops what c wrote.                                          *)
Drop(c) ==
  /\ unread' = [unread EXCEPT ![c] = <<>>]
  /\ UNCHANGED <<texts, line>>

(* The connection ends.                                                    *)
End ==
  /\ unread' = [c \in Contacts |-> <<>>]
  /\ UNCHANGED <<texts, line>>

Next ==
  \/ \E c \in Contacts :
       \/ \E t \in Texts : Write(c, t) \/ Arrive(c, t)
       \/ \E i \in DOMAIN unread[c] : Acknowledge(c, i)
       \/ Drop(c)
  \/ End

Spec == Init /\ [][Next]_vars
=============================================================================
