---------------------------- MODULE MCZmqReqRep -----------------------------
EXTENDS ZmqReqRep

MCTags == << [offset |-> 1, tag |-> "a"], [offset |-> 1, tag |-> "b"], [offset |-> 3, tag |-> "c"] >>
=============================================================================
