---------------------------- MODULE MCMembership ----------------------------
(* Small instances of Membership for TLC.                                   *)
EXTENDS Membership, TLC

Interchangeable == Permutations(Users \ {Founder}) \cup Permutations(Invitations)
                       \cup Permutations(Requests)
=============================================================================
