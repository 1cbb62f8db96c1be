----------------------------- MODULE MCTransactions -----------------------------
EXTENDS Transactions

WriteSymmetry == Permutations(Write)
=============================================================================
