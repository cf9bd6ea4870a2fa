------------------------------- MODULE MCNode -------------------------------
(* Small instances of Node.  One tick is 3 s: T_RETRY is 5, the report       *)
(* interval 2, the pauses of a batch and a long sleep just above it.         *)
EXTENDS Node

AllBoards == {"esp", "teensy"}

\* An ordinary boot, acknowledgements of other REGISTERs, messages that
\* interrupt it, and a REGACK with the reserved id.
MCInputs ==
    {Msg("CONNACK", 0, 0, 0), Msg("REGACK", 1, 1, 0), Msg("REGACK", 1, 2, 0),
     Msg("REGACK", 1, 1, 1), Msg("REGACK", NoTopic, 1, 0),
     Msg("REGISTER", 2, 1, 0), Msg("PUBLISH", 1, 1, 1), Msg("PINGREQ", 0, 0, 0)}
=============================================================================
