------------------------- MODULE MC_AccountGenerator -------------------------
EXTENDS AccountGenerator
=============================================================================
