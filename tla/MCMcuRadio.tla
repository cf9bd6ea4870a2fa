---------------------------- MODULE MCMcuRadio ----------------------------
(* Every length from 4 bytes up, and beyond the limit; frames received that  *)
(* are empty, as short as can be, ordinary, and as long as can be.           *)
EXTENDS McuRadio

SentLengths == 4..130
HeardSizes == {0, 1, 6, 128}
===========================================================================
