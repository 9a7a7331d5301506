----------------------------- MODULE Broadcast ------------------------------
(***************************************************************************)
(* What the real-time feed promises: whenever the broadcast is found to be *)
(* at a second at which something happens, that event becomes the newest   *)
(* entry of the feed, and nothing else ever changes the feed.              *)
(***************************************************************************)
EXTENDS Integers, Sequences

CONSTANTS
  Seconds,   \* the seconds the broadcast can be found at
  Events     \* a function from those at which something happens

VARIABLES
  position,  \* where the broadcast was last found to be, or -1
  shown      \* the entries of the feed, newest first

Init == position = -1 /\ shown = <<>>

Reach(second) ==
  /\ position' = second
  /\ shown' = IF second \in DOMAIN Events
                THEN <<[at |-> second, events |-> Events[second]]>> \o shown
                ELSE shown

Next == \E second \in Seconds : Reach(second)

Spec == Init /\ [][Next]_<<position, shown>>
=============================================================================
