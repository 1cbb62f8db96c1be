---------------------------- MODULE MCSubscriptions ----------------------------
EXTENDS Subscriptions, TLC

CONSTANTS MaxFroms  \* bound on the length of a From header

MCFroms == UNION {[1..n -> Address] : n \in 1..MaxFroms}

\* Addresses are interchangeable when none of them (or all) may log in.
AddressSymmetry == Permutations(Address)
WriterSymmetry  == Permutations(Address) \cup Permutations(Writer)
=============================================================================
