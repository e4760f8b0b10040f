------------------------------- MODULE MCAIChat -------------------------------
EXTENDS AIChat

CONSTANTS m1, m2, r1, r2

MCModelOrder == <<m1, m2>>

MCAllOperations == AllOperations
=============================================================================
