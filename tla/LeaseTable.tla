----------------------------- MODULE LeaseTable -----------------------------
(***************************************************************************)
(* What pkg/gpu promises about GPU leases, with nothing of how: a table of   *)
(* unexpired leases that changes in single steps.  ReservationStore          *)
(* implements it, and a client of the store may reason with it.              *)
(***************************************************************************)
EXTENDS Naturals

CONSTANTS GPU, Owner, Token, NoRecord

VARIABLES
    clock,
    table       \* the unexpired record on each GPU, or NoRecord

Record == [token : Token, owner : Owner, expires : Nat]

Init ==
    /\ clock = 0
    /\ table = [g \in GPU |-> NoRecord]

\* Every GPU of the set is free, and all of them are taken together, under a
\* token that marks no other GPU.
Grant(uuids, record) ==
    /\ record \in Record
    /\ record.expires > clock
    /\ \A g \in uuids : table[g] = NoRecord
    /\ \A g \in GPU : table[g] # NoRecord => table[g].token # record.token
    /\ table' = [g \in GPU |-> IF g \in uuids THEN record ELSE table[g]]
    /\ clock' = clock

\* A release returns GPUs of one lease only.
Free(uuids, token) ==
    /\ \A g \in uuids : table[g] # NoRecord => table[g].token = token
    /\ table' = [g \in GPU |-> IF g \in uuids THEN NoRecord ELSE table[g]]
    /\ clock' = clock

\* Leases end by themselves when their time is up, and only then.
Tick ==
    /\ clock' = clock + 1
    /\ table' = [g \in GPU |->
                    IF table[g] # NoRecord /\ table[g].expires > clock'
                    THEN table[g] ELSE NoRecord]

\* The record of a grant is the one the step leaves on the GPUs it takes.
Next ==
    \/ \E uuids \in SUBSET GPU : \E g \in uuids : Grant(uuids, table'[g])
    \/ \E uuids \in SUBSET GPU, token \in Token : Free(uuids, token)
    \/ Tick

Spec == Init /\ [][Next]_<<clock, table>>
=============================================================================
