--------------------------- MODULE MCAlarmOutputs ---------------------------
\* Instances of AlarmOutputs: channels that two zones share.
EXTENDS AlarmOutputs, TLC

CONSTANTS hall, attic

\* 1, 2: a smoke sounder; 3 to 5: a siren with its flash; 6, 7: a socket with a
\* lamp and a horn.
MCZone == [o \in Outputs |-> IF o \in {2, 5, 7} THEN attic ELSE hall]
MCChannel == [o \in Outputs |-> IF o <= 2 THEN 1 ELSE IF o <= 5 THEN 2 ELSE 3]
MCClass == [o \in Outputs |-> CASE o <= 2 -> "smoke" [] o = 4 -> "optical"
                                [] o \in {3, 5} -> "siren" [] o = 6 -> "light"
                                [] OTHER -> "switched"]
MCDuration == [o \in Outputs |-> IF o <= 2 THEN 1 ELSE IF o = 7 THEN 3 ELSE 2]

Scenario(r, f, s, e) == [rows |-> r, fires |-> f, sides |-> s, faults |-> e]

\* Cycles and faults on a shared sounder; one operation beside a cycle on each
\* kind of channel; cycles that exhaust the budget.
MCScenarios ==
    {Scenario({1, 2}, 2, 0, 1), Scenario({1, 2}, 1, 1, 0), Scenario({1}, 1, 1, 1),
     Scenario({3, 4}, 1, 0, 1), Scenario({3, 4}, 1, 1, 0),
     Scenario({6, 7}, 2, 0, 1), Scenario({6, 7}, 1, 1, 1)}
=============================================================================
