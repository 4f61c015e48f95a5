------------------------- MODULE MCRequestImportQueue -------------------------
EXTENDS RequestImportQueue, TLC

Symmetry == Permutations(Downloads)
===============================================================================
