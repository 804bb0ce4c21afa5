----------------------------- MODULE MCFxChat -----------------------------
(* Small instances of FxChat for TLC.  Texts, channels and, where all of   *)
(* them are known or none is, buddies are interchangeable.                 *)
EXTENDS FxChatProperties, TLC

CONSTANTS b1, b2, m1, m2, c1, c2

SymmetricButBuddies == Permutations({m1, m2}) \cup Permutations({c1, c2})

Symmetric == Permutations({b1, b2}) \cup SymmetricButBuddies
===========================================================================
