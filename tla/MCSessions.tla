----------------------------- MODULE MCSessions -----------------------------
(***************************************************************************)
(* Instances of Sessions for TLC: requests, principals, tokens, attempts    *)
(* and codes are interchangeable.                                           *)
(***************************************************************************)
EXTENDS Sessions, TLC

Symmetric ==
    Permutations(Request) \cup Permutations(Principal) \cup Permutations(Token)
        \cup Permutations(Attempt) \cup Permutations(Code)

=============================================================================
