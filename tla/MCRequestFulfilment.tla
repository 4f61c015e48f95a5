-------------------------- MODULE MCRequestFulfilment --------------------------
EXTENDS RequestPromises, TLC

SameWork == [r \in Requests |-> "work"]
OwnWork == [r \in Requests |-> r]
Symmetry == Permutations(Handlers) \cup Permutations(Releases)
===============================================================================
