----------------------------- MODULE MCContacts -----------------------------
(* Contacts on a small instance.                                           *)
EXTENDS Contacts, TLC

(* The people are interchangeable.                                         *)
Symmetry == Permutations(Users)

=============================================================================
