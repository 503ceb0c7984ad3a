--------------------------- MODULE MCAsrScheduler ---------------------------
(* AsrScheduler with a few requests, workers and providers. *)
EXTENDS AsrScheduler

CONSTANTS r1, r2, r3, w1, w2, p1, p2, s1, k1, f1

AllOneScope == [r \in Requests |-> s1]

FirstTwoShareKey == [r \in Requests |-> IF r \in {r1, r2} THEN k1 ELSE NoKey]

SamePrint == [r \in Requests |-> f1]

OneProvider == <<p1>>

TwoProviders == <<p1, p2>>

EvenWeights == [p \in Providers |-> 1]

SingleWidth == [p \in Providers |-> 1]

DoubleWidth == [p \in Providers |-> 2]

=============================================================================
