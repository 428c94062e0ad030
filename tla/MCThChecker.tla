----------------------------- MODULE MCThChecker -----------------------------
EXTENDS ThChecker
=============================================================================
