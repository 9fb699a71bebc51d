------------------------------ MODULE MCGuards ------------------------------
(***************************************************************************)
(* An instance of Guards for TLC.  The resource "ghost" is not catalogued.  *)
(***************************************************************************)
EXTENDS Guards, SequencesExt

Known == {"files", "users"}
Named == Known \cup {"ghost"}

(* Every list of at most two grants, over the levels of two resources, an   *)
(* unknown resource and an unknown level.                                   *)
Lists ==
    BoundedSeq([resource : Known, access : Access]
               \cup {[resource |-> "ghost", access |-> "view"],
                     [resource |-> "files", access |-> "other"]}, 2)

(* No requirement, any of one resource, an unknown one, and one of each.    *)
Required1 == {<<p>> : p \in [resource : {"files"}, access : Access \cup {"other"}]}
Required2 == {<<[resource |-> "ghost", access |-> "view"]>>,
              <<[resource |-> "files", access |-> "edit"],
                [resource |-> "users", access |-> "view"]>>}
Operations == {<<>>} \cup Required1 \cup Required2

Symmetric == Permutations(Principal) \cup Permutations(Key)

=============================================================================
