--------------------------- MODULE ChatDelivery ---------------------------
(***************************************************************************)
(* What the conversation engine promises of the texts a user types: a text *)
(* is held, then either sent once, to the buddy it was typed for, or lost. *)
(* Nothing is sent that was not typed, a text that was sent or lost stays  *)
(* so, and several texts held for one buddy may go or be lost together.    *)
(***************************************************************************)
CONSTANTS Buddies, Messages, None

VARIABLES
  fate,   \* untyped, held, sent or lost
  to,     \* the buddy a text was typed for
  out     \* the texts sent to each buddy

vars == <<fate, to, out>>

Fates == {"untyped", "held", "sent", "lost"}

DeliveryTypeOK ==
  /\ fate \in [Messages -> Fates]
  /\ to \in [Messages -> Buddies \cup {None}]
  /\ out \in [Buddies -> SUBSET Messages]

Init ==
  /\ fate = [m \in Messages |-> "untyped"]
  /\ to = [m \in Messages |-> None]
  /\ out = [b \in Buddies |-> {}]

(* The user types m for b; it may be held, sent or dropped at once.        *)
Type(m, b) ==
  /\ fate[m] = "untyped"
  /\ to' = [to EXCEPT ![m] = b]
  /\ \/ fate' = [fate EXCEPT ![m] = "held"] /\ UNCHANGED out
     \/ fate' = [fate EXCEPT ![m] = "lost"] /\ UNCHANGED out
     \/ /\ fate' = [fate EXCEPT ![m] = "sent"]
        /\ out' = [out EXCEPT ![b] = @ \cup {m}]

(* Texts held for b are sent to b.                                         *)
Send(S, b) ==
  /\ \A m \in S : fate[m] = "held" /\ to[m] = b
  /\ fate' = [m \in Messages |-> IF m \in S THEN "sent" ELSE fate[m]]
  /\ out' = [out EXCEPT ![b] = @ \cup S]
  /\ UNCHANGED to

(* Held texts are lost.                                                    *)
Lose(S) ==
  /\ \A m \in S : fate[m] = "held"
  /\ fate' = [m \in Messages |-> IF m \in S THEN "lost" ELSE fate[m]]
  /\ UNCHANGED <<to, out>>

Next ==
  \/ \E m \in Messages, b \in Buddies : Type(m, b)
  \/ \E S \in SUBSET Messages, b \in Buddies : Send(S, b)
  \/ \E S \in SUBSET Messages : Lose(S)

Spec == Init /\ [][Next]_vars
===========================================================================
