------------------------------- MODULE MCLeaf -------------------------------
(* Small instances of Leaf.  Radix = 2 keeps ids in 0..3, 3 standing for the *)
(* reserved 0xffff; one tick is 5 s, so T_RETRY is 3 and RUNTIME_TIMEOUT 4.  *)
EXTENDS Leaf

\* Acknowledgements: every id that occurs, and a refusal.
Acks ==
    {Msg("REGACK", t, i, 0) : t \in 1..2, i \in 0..3}
    \cup {Msg("REGACK", 1, i, 1) : i \in 1..2}

\* One message of each kind that dispatch and the handlers tell apart: GWINFO
\* stands for WILLTOPICREQ too, and PINGRESP for the acknowledgements of
\* requests that the leaf application never sends.
Rest ==
    {Msg(type, 0, 0, 0) : type \in {"CONNACK", "PUBACK", "PINGRESP", "CONNECT",
                                    "GWINFO", "WILLMSGREQ", "PINGREQ", "DISCONNECT"}}
    \cup {Msg("REGISTER", 2, 1, 0), Msg("PUBLISH", 1, 1, 1), Msg("PUBLISH", 1, 1, 0)}

\* A REGACK with the reserved id, after which the topic can be neither found
\* nor registered.
Reserved == {Msg("REGACK", NoTopic, 1, 0)}

MCInputs == Acks \cup Rest \cup Reserved
=============================================================================
