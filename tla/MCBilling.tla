------------------------------ MODULE MCBilling ------------------------------
(* Small instances of Billing for TLC.                                      *)
EXTENDS Billing, TLC

Interchangeable == Permutations(Subs) \cup Permutations(Processes)

(* Of what follows the first disturbance FollowsStripe says nothing.        *)
Undisturbed == ~strayed
=============================================================================
