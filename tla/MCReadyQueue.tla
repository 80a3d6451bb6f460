----------------------------- MODULE MCReadyQueue -----------------------------
EXTENDS ReadyQueue, TLC

Symmetry == Permutations(Worker) \cup Permutations(Id)
===============================================================================
