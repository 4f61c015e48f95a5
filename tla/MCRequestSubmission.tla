--------------------------- MODULE MCRequestSubmission ---------------------------
EXTENDS RequestSubmission, TLC

\* One book, found with its ISBN and found where the sources disagree about it: the
\* first is filed under the ISBN, the second under the work.
Edition == [isbns |-> {"i1"}, providers |-> <<"p1">>, title |-> "w1"]
Disputed == [isbns |-> {"i1", "i2"}, providers |-> <<"p1", "p2">>, title |-> "w1"]

TwoDescriptions == {Edition, Disputed}

Symmetry == Permutations(Handlers) \cup Permutations(SelfFulfillers)
=================================================================================
