-------------------------- MODULE MCTelemetryIngest --------------------------
(* TelemetryIngest with values for TLC.                                    *)
EXTENDS TelemetryIngest, TLC

CONSTANTS c1, c2, p1, p2, s1, s2, d1, m1, m2

Symmetry == Permutations(Clients) \cup Permutations(Posts)

Sample(m, valid, alarm) == [machine |-> m, valid |-> valid, alarm |-> alarm]
Good  == Sample(m1, TRUE, FALSE)
Bad   == Sample(m1, FALSE, FALSE)
Alarm == Sample(m1, TRUE, TRUE)

MCPostBatches == {<<Bad, Good>>, <<Alarm>>}
MCSimBatches  == {<<Good, Sample(m2, TRUE, TRUE)>>}
MCMessages    == {Good}

=============================================================================
