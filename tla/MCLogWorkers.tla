---------------------------- MODULE MCLogWorkers ----------------------------
(* LogWorkers for TLC: an open log, two matches, a done log and a match, of *)
(* which the first four were written to the topic twice.                    *)
EXTENDS LogWorkers

MCTopic == <<1, 2, 3, 4, 1, 2, 3, 4, 5>>
MCMatches == {2, 3, 5}
MCDones == {4}

\* Three granularities: the second match begins a new tick of the first, the
\* third of the first two.
MCTickTime ==
    << [m \in MCMatches |-> m],
       [m \in MCMatches |-> IF m = 5 THEN 5 ELSE 0],
       [m \in MCMatches |-> 0] >>

ASSUME ClockForward

=============================================================================
