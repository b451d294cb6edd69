----------------------------- MODULE MCAccounts -----------------------------
(* Requests, addresses, Stripe's ids and the regions other than the        *)
(* default one are interchangeable; no liveness is checked.                *)
EXTENDS Accounts, TLC

Symmetry ==
    Permutations(Requests) \cup Permutations(Emails) \cup Permutations(StripeSubs)
        \cup Permutations(Regions \ {DefaultRegion})

============================================================================
