------------------------------ MODULE MCField ------------------------------
(* Small instances of Field.  One tick is 5 s, so T_RETRY is 3 and           *)
(* RUNTIME_TIMEOUT 4.  The broker grants topic id 1 to the first leaf and 2  *)
(* to the second.                                                            *)
EXTENDS Field

OneLeaf == {1}
TwoLeaves == {1, 2}

OwnTopic == [l \in Leaves |-> l]

Silent == {}

\* A restarting bridge, a broker that pings the client or forwards it a
\* publication, and the REGISTER of another leaf.
Talkative ==
    {Hello, Msg("PINGREQ", 0, 0, 0), Msg("PUBLISH", 1, 1, 1), Msg("REGISTER", 0, 1, 0)}

\* Frames that are ignored, and one that is answered.
Garbage == {Msg("ADVERTISE", 0, 0, 0), Msg("PINGREQ", 0, 0, 0)}
=============================================================================
