------------------------ MODULE MCTelemetryDetection ------------------------
(***************************************************************************)
(* Instances of TelemetryDetection for TLC: the settings of each run.      *)
(***************************************************************************)
EXTENDS TelemetryDetection, TLC

CONSTANTS h1, h2, r1, r2, s1, s2

\* Two requests of one sensor in flight on two replicas, a lagging index, one fault.
Racing == [replicas |-> {r1, r2}, flight |-> 2, sensors |-> {s1}, streak |-> 2,
           lags |-> TRUE, patches |-> {"resolved"}, overlap |-> FALSE,
           requests |-> 3, faults |-> 1]
\* PATCHes that overlap, and nothing else in the way.
Patching == [replicas |-> {r1}, flight |-> 1, sensors |-> {s1}, streak |-> 2,
             lags |-> FALSE, patches |-> Status, overlap |-> TRUE,
             requests |-> 3, faults |-> 0]
\* Two sensors, one sample after the other.
Orderly == [replicas |-> {r1}, flight |-> 1, sensors |-> {s1, s2}, streak |-> 2,
            lags |-> FALSE, patches |-> Status, overlap |-> FALSE,
            requests |-> 3, faults |-> 0]
\* One sensor, long enough for a streak, a resolution and the next streak.
Lasting == [replicas |-> {r1}, flight |-> 1, sensors |-> {s1}, streak |-> 2,
            lags |-> FALSE, patches |-> Status, overlap |-> FALSE,
            requests |-> 4, faults |-> 0]
\* Two samples at once, nothing else in the way.
Twins == [replicas |-> {r1}, flight |-> 2, sensors |-> {s1}, streak |-> 3,
          lags |-> FALSE, patches |-> Status, overlap |-> FALSE,
          requests |-> 2, faults |-> 0]

RacesAndOrder == {Racing, Patching, Orderly, Lasting}
TwinsOnly     == {Twins}

Symmetry == Permutations(Handler)
=============================================================================
