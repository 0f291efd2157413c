----------------------------- MODULE MCPairing -----------------------------
(* Small instances of Pairing. *)
EXTENDS Pairing, TLC

\* Requests in flight are interchangeable.
SlotSymmetry == Permutations(Reqs)

\* So are users when none is an admin.
UserSymmetry == SlotSymmetry \cup Permutations(Users)
=============================================================================
