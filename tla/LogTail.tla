------------------------------ MODULE LogTail ------------------------------
(***************************************************************************)
(* What a resumable event stream promises: one log that only ever grows,   *)
(* and readers that each receive its entries in order, none skipped and    *)
(* none twice, whatever happens to their connections in between.           *)
(***************************************************************************)
EXTENDS Naturals, Sequences

CONSTANT Readers

VARIABLES
    log,    \* what has been committed
    got     \* what each reader has received

tailVars == <<log, got>>

TailInit == got = [r \in Readers |-> <<>>]

Grow ==
    /\ Len(log) < Len(log')
    /\ \A i \in 1..Len(log) : log'[i] = log[i]
    /\ UNCHANGED got

Receive(r) ==
    /\ Len(got[r]) < Len(log)
    /\ got' = [got EXCEPT ![r] = Append(@, log[Len(@) + 1])]
    /\ UNCHANGED log

TailNext == Grow \/ \E r \in Readers : Receive(r)

TailSpec == TailInit /\ [][TailNext]_tailVars
=============================================================================
