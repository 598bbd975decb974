------------------------------ MODULE MCStore -------------------------------
\* Values of the constants of Store for TLC.
EXTENDS Store, TLC

CONSTANTS caller1, caller2, item, something, stream1, stream2, mutations

\* Two streams of changes and one of mutation requests, all for every id.
TwoAndOne ==
  [x \in Streams |-> IF x = mutations THEN "mutation" ELSE "change"]
Everything == [x \in Streams |-> Ids]

\* The goroutines are alike, and so are the two streams of changes.
Alike == Permutations({caller1, caller2}) \cup Permutations({stream1, stream2})
=============================================================================
