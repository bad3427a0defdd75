----------------------------- MODULE MCColdWake -----------------------------
(* Small instances of ColdWake for TLC. *)
EXTENDS ColdWake, TLC
CONSTANTS b1, m1, m2, o1, o2, o3

RootOnly == {"root"}
AllKinds == {"root", "subagent", "tokenless"}
SymmetricMessages == Permutations({m1, m2})
SymmetricOwners == Permutations({o1, o2, o3})
=============================================================================
