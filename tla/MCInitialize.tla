------------------------------ MODULE MCInitialize ------------------------------
\* Instances of Initialize.
EXTENDS Initialize

\* The master from one output, the other boards from another.
FeedOfBoard == [d \in Boards |-> IF d = Master THEN 0 ELSE 1]
=============================================================================
