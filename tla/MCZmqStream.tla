---------------------------- MODULE MCZmqStream -----------------------------
EXTENDS ZmqStream

\* Two tags on one item, and one at the end.
MCTags == << [offset |-> 1, tag |-> "a"], [offset |-> 1, tag |-> "b"], [offset |-> 4, tag |-> "c"] >>
=============================================================================
