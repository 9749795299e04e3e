---------------------------- MODULE ExactlyOnce ----------------------------
(***************************************************************************)
(* What the plan ledger promises its callers, whatever they send and       *)
(* however often: a key gets at most one outcome, an outcome is never      *)
(* withdrawn, authoritative data change only together with the first       *)
(* outcome of some key, and a denied key changes no data.                  *)
(***************************************************************************)
CONSTANT Keys

VARIABLES outcomes, data

Undecided(k) == \A o \in outcomes : o.key # k

Commit(k) ==
    /\ Undecided(k)
    /\ outcomes' = outcomes \cup {[key |-> k, status |-> "SUCCESS"]}

Refuse(k) ==
    /\ Undecided(k)
    /\ outcomes' = outcomes \cup {[key |-> k, status |-> "DENIED"]}
    /\ data' = data

Init == outcomes = {}
Next == \E k \in Keys : Commit(k) \/ Refuse(k)
Spec == Init /\ [][Next]_<<outcomes, data>>
=============================================================================
