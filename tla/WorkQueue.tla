------------------------------ MODULE WorkQueue ------------------------------
(***************************************************************************)
(* What the thread pool promises to its users, without threads, mutexes or *)
(* notifications: work is numbered in the order it is submitted; each      *)
(* piece is begun at most once and finished at most once; at most Slots    *)
(* pieces are in service at a time; work is served first come, first       *)
(* served, in the sense that a piece begins only when the pieces submitted *)
(* before it have all begun, except for some that (with those in           *)
(* execution) fit in the other slots.                                      *)
(***************************************************************************)
EXTENDS Integers, FiniteSets

CONSTANT Slots

VARIABLES submitted, begun, finished

qvars == <<submitted, begun, finished>>

QInit == submitted = 0 /\ begun = {} /\ finished = {}

Submit ==
    /\ submitted' = submitted + 1
    /\ UNCHANGED <<begun, finished>>

Skipped(i) == {j \in 1 .. i - 1 : j \notin begun}

Begin(i) ==
    /\ i \in 1 .. submitted /\ i \notin begun
    /\ Cardinality(Skipped(i) \cup (begun \ finished)) < Slots
    /\ begun' = begun \cup {i}
    /\ UNCHANGED <<submitted, finished>>

Finish(i) ==
    /\ i \in begun \ finished
    /\ finished' = finished \cup {i}
    /\ UNCHANGED <<submitted, begun>>

QNext == Submit \/ \E i \in 1 .. submitted : Begin(i) \/ Finish(i)

QSpec == QInit /\ [][QNext]_qvars
=============================================================================
