----------------------------- MODULE VmRunnerMC -----------------------------
EXTENDS VmRunner

CONSTANTS c1, c2, c3
=============================================================================
