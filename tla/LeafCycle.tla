----------------------------- MODULE LeafCycle -----------------------------
(***************************************************************************)
(* What a leaf node promises, without its protocol: it wakes up, publishes *)
(* at most one reading under a topic id that it was offered since it woke, *)
(* and goes back to sleep: for the routine interval after a reading, for   *)
(* one of the short intervals without one.  It always goes back to sleep,  *)
(* and it always wakes up again.                                           *)
(***************************************************************************)
EXTENDS Naturals

CONSTANTS
    NoTopic,       \* the topic id of a node that has none
    ShortSleeps    \* kinds of sleep after a boot without a reading

VARIABLES
    phase,      \* "asleep", "joining" (no reading yet) or "published"
    offered,    \* topic ids offered since the node woke up
    topic,      \* topic id of the reading
    rest        \* the kind of the last sleep

vars == <<phase, offered, topic, rest>>

Init ==
    /\ phase = "asleep"
    /\ offered = {}
    /\ topic = NoTopic
    /\ rest = "none"

Wake ==
    /\ phase = "asleep"
    /\ phase' = "joining"
    /\ offered' = {}
    /\ topic' = NoTopic
    /\ rest' = "none"

Offer ==
    /\ phase # "asleep"
    /\ offered \subseteq offered'
    /\ UNCHANGED <<phase, topic, rest>>

PublishReading ==
    /\ phase = "joining"
    /\ phase' = "published"
    /\ topic' \in offered
    /\ UNCHANGED <<offered, rest>>

Finish ==
    /\ phase = "published"
    /\ phase' = "asleep"
    /\ rest' = "routine"
    /\ UNCHANGED <<offered, topic>>

Abandon ==
    /\ phase = "joining"
    /\ phase' = "asleep"
    /\ rest' \in ShortSleeps
    /\ UNCHANGED <<offered, topic>>

Next == Wake \/ Offer \/ PublishReading \/ Finish \/ Abandon

Safety == Init /\ [][Next]_vars

Spec == Safety /\ WF_vars(Wake) /\ WF_vars(Finish \/ Abandon)
=============================================================================
