------------------------ MODULE MCKafkaEventWorker ------------------------
(***************************************************************************)
(* Instances of KafkaEventWorker for TLC: the partition logs and the fault *)
(* limits of each run.                                                     *)
(***************************************************************************)
EXTENDS KafkaEventWorker, TLC

CONSTANTS p1, e1, e2, e3

Valid(e)      == [event |-> e, kind |-> "valid"]
Invalid(e)    == [event |-> e, kind |-> "invalid"]
Mistyped(e)   == [event |-> e, kind |-> "mistyped"]
Undecodable(e) == [event |-> e, kind |-> "undecodable"]

\* A record after a poison record, with a value that is not JSON behind them.
GarbledLog == [p \in Partition |-> <<Invalid(e1), Valid(e2), Undecodable(e3)>>]

\* A record after one whose event_id is no string, and the same before a poison
\* record and a sound one.
MistypedLog == [p \in Partition |-> <<Mistyped(e1), Valid(e2)>>]
MixedLog    == [p \in Partition |-> <<Mistyped(e3), Invalid(e1), Valid(e2)>>]

\* Each of these kinds of fault at most once, and at most n faults.
Once(kinds, n) == {f \in [FaultKind -> 0..1] :
                     LET struck == {k \in FaultKind : f[k] = 1}
                     IN  struck \subseteq kinds /\ Cardinality(struck) <= n}
ManyFaults    == Once(FaultKind, 2) \cup Once({"stop", "evict", "store"}, 3)
OrderlyFaults == Once({"crash", "store", "commit"}, 3)
NoFaults      == {}

\* Workers are alike.
Symmetry == Permutations(Worker)
===========================================================================
