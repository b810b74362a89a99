---- MODULE MCIngestion ----
(* Instances of the ingestion pipeline for TLC.                            *)
EXTENDS IngestionProperties, TLC

CONSTANTS d1, d2, w1, w2, a1, a2

OneDoc == {d1}
TwoDocs == {d1, d2}
OneWorker == {w1}
TwoWorkers == {w1, w2}
OneApi == {a1}
TwoApis == {a1, a2}

NoFaults == {}
NodeFaults == {"node"}
NoDuplicates == {"abort", "broker", "storage", "api"}

\* Workers differ in nothing but their name.
WorkerSymmetry == Permutations(Workers)
====
