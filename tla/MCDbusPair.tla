------------------------------ MODULE MCDbusPair ------------------------------
\* Two commands side by side, with no lock between them.  Nothing tells them apart.
EXTENDS AutoPair, TLC

Programs == Permutations(Program)
===============================================================================
