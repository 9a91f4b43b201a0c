------------------------------- MODULE MCAcpRuns -------------------------------
EXTENDS AcpRuns
CONSTANTS r1, r2, c1, c2
MCClient(r) == IF r = r1 THEN {c1, c2} ELSE {c1}
=============================================================================
