----------------------------- MODULE MCSContacts -----------------------------
(* A small instance of SContacts for TLC. *)
EXTENDS SContacts, TLC

Symmetry == Permutations(Addr) \cup Permutations(Name) \cup Permutations(Socket)
=============================================================================
