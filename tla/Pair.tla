-------------------------------- MODULE Pair --------------------------------
(***************************************************************************)
(* pair_t: a socket with one peer at a time.  It keeps a flag for each of  *)
(* its two pipes, which must say whether the pipe is worth trying; when a  *)
(* peer has gone with both of its pipes, another one may come.             *)
(***************************************************************************)
EXTENDS Integers, FiniteSets

CONSTANTS
  Peers,
  MaxParts,   \* bound: parts of a message
  None

PairAssumption ==
  /\ IsFiniteSet(Peers) /\ MaxParts \in Nat \ {0} /\ None \notin Peers

VARIABLES
  inpipe, outpipe,              \* the peers at whose pipes the socket is
  inpipe_alive, outpipe_alive,
  terminating, acks,
  in_end, out_end,              \* the socket's ends of the pipes of a peer
  part_in, part_out,            \* the parts so far of the message under way
  sent_to,                      \* who got the last part that was sent
  torn,                         \* has a peer got the end of another's message?
  cut,                          \* has a peer gone in the middle of a message?
  aborted                       \* which assertion has failed

endVars == <<in_end, out_end>>
messageVars == <<part_in, part_out, sent_to, torn>>
pairVars == <<inpipe, outpipe, inpipe_alive, outpipe_alive, terminating>>
vars == <<pairVars, acks, endVars, messageVars, cut, aborted>>

\* As in Balance: an end is "spent" when the pipe is empty, or full, and the end
\* has not noticed yet.
End == {"none", "ready", "spent", "asleep", "closed", "gone"}

TypeOK ==
  /\ {inpipe, outpipe, sent_to} \subseteq Peers \union {None}
  /\ {inpipe_alive, outpipe_alive, terminating, torn, cut} \subseteq BOOLEAN
  /\ acks \in 0..2 * Cardinality(Peers) /\ {in_end, out_end} \subseteq [Peers -> End]
  /\ {part_in, part_out} \subseteq 0..MaxParts /\ aborted \in {"no", "attach", "activated"}

Init ==
  /\ inpipe = None /\ outpipe = None /\ inpipe_alive = FALSE /\ outpipe_alive = FALSE
  /\ terminating = FALSE /\ acks = 0
  /\ in_end = [p \in Peers |-> "none"] /\ out_end = in_end
  /\ part_in = 0 /\ part_out = 0 /\ sent_to = None /\ torn = FALSE
  /\ cut = FALSE /\ aborted = "no"

Apart == inpipe = None /\ outpipe = None

\* A peer comes; its pipes are told to go at once if the socket is terminating.
\* While there is another one, the assertion fails, and nothing else is done.
xattach_pipes(p) ==
  /\ in_end[p] = "none" /\ Apart
  /\ inpipe' = p /\ outpipe' = p /\ inpipe_alive' = TRUE /\ outpipe_alive' = TRUE
  /\ acks' = IF terminating THEN acks + 2 ELSE acks
  /\ \E e \in {"ready", "spent"} : in_end' = [in_end EXCEPT ![p] = IF terminating THEN "closed" ELSE e]
  /\ out_end' = [out_end EXCEPT ![p] = IF terminating THEN "closed" ELSE "ready"]
  /\ UNCHANGED <<terminating, messageVars, cut, aborted>>
xattach_pipesFails(p) ==
  /\ in_end[p] = "none" /\ ~Apart /\ aborted' = "attach"
  /\ UNCHANGED <<pairVars, acks, endVars, messageVars, cut>>

\* The reader has read the delimiter, or has been terminated.
InTerminated ==
  /\ inpipe # None /\ in_end[inpipe] = "closed" /\ in_end' = [in_end EXCEPT ![inpipe] = "gone"]
  /\ inpipe' = None /\ inpipe_alive' = FALSE /\ acks' = IF terminating THEN acks - 1 ELSE acks
  /\ UNCHANGED <<outpipe, outpipe_alive, terminating, out_end, messageVars, cut, aborted>>

\* The reader at the other end of the pipe goes.
OutTerminated ==
  /\ outpipe # None /\ out_end' = [out_end EXCEPT ![outpipe] = "gone"]
  /\ cut' = (cut \/ part_out > 0)
  /\ outpipe' = None /\ outpipe_alive' = FALSE /\ acks' = IF terminating THEN acks - 1 ELSE acks
  /\ UNCHANGED <<inpipe, inpipe_alive, terminating, in_end, messageVars, aborted>>

process_term ==
  /\ ~terminating /\ terminating' = TRUE
  /\ acks' = Cardinality({<<"in", inpipe>>, <<"out", outpipe>>} \ {<<"in", None>>, <<"out", None>>})
  /\ in_end' = [p \in Peers |-> IF p = inpipe THEN "closed" ELSE in_end[p]]
  /\ out_end' = [p \in Peers |-> IF p = outpipe THEN "closed" ELSE out_end[p]]
  /\ UNCHANGED <<inpipe, outpipe, inpipe_alive, outpipe_alive, messageVars, cut, aborted>>

(***************************************************************************)
(* The peer has written or read, and an end that sleeps hears of it.       *)
(***************************************************************************)
PeerActs ==
  /\ \/ inpipe # None /\ in_end[inpipe] = "spent" /\ in_end' = [in_end EXCEPT ![inpipe] = "ready"] /\ UNCHANGED out_end
     \/ outpipe # None /\ out_end[outpipe] = "spent" /\ out_end' = [out_end EXCEPT ![outpipe] = "ready"] /\ UNCHANGED in_end
  /\ UNCHANGED <<pairVars, acks, messageVars, cut, aborted>>

InActivated ==
  /\ inpipe # None /\ in_end[inpipe] = "asleep" /\ in_end' = [in_end EXCEPT ![inpipe] = "ready"]
  /\ inpipe_alive' = TRUE /\ aborted' = (IF inpipe_alive THEN "activated" ELSE "no")
  /\ UNCHANGED <<inpipe, outpipe, outpipe_alive, terminating, acks, out_end, messageVars, cut>>
OutActivated ==
  /\ outpipe # None /\ out_end[outpipe] = "asleep" /\ out_end' = [out_end EXCEPT ![outpipe] = "ready"]
  /\ outpipe_alive' = TRUE /\ aborted' = (IF outpipe_alive THEN "activated" ELSE "no")
  /\ UNCHANGED <<inpipe, outpipe, inpipe_alive, terminating, acks, in_end, messageVars, cut>>

(***************************************************************************)
(* The calls.  A call on a pipe that is not alive changes nothing.         *)
(***************************************************************************)
MayFollow(part, flag) == flag => part + 1 < MaxParts
NextPart(part, flag) == IF flag THEN part + 1 ELSE 0
Tries(pipe, alive) == ~terminating /\ pipe # None /\ alive

xsend(flag) ==
  /\ Tries(outpipe, outpipe_alive) /\ out_end[outpipe] = "ready" /\ MayFollow(part_out, flag)
  /\ \E e \in {"ready", "spent"} : out_end' = [out_end EXCEPT ![outpipe] = IF flag THEN @ ELSE e]
  /\ part_out' = NextPart(part_out, flag) /\ sent_to' = outpipe
  /\ torn' = (torn \/ (part_out > 0 /\ sent_to # outpipe))
  /\ UNCHANGED <<pairVars, acks, in_end, part_in, cut, aborted>>

\* xsend and xhas_out find the pipe full.
xhas_out ==
  /\ Tries(outpipe, outpipe_alive) /\ out_end[outpipe] = "spent" /\ outpipe_alive' = FALSE
  /\ out_end' = [out_end EXCEPT ![outpipe] = "asleep"]
  /\ UNCHANGED <<inpipe, outpipe, inpipe_alive, terminating, acks, in_end, messageVars, cut, aborted>>

xrecv(flag) ==
  /\ Tries(inpipe, inpipe_alive) /\ in_end[inpipe] = "ready" /\ MayFollow(part_in, flag)
  /\ \E e \in {"ready", "spent"} : in_end' = [in_end EXCEPT ![inpipe] = IF flag THEN @ ELSE e]
  /\ part_in' = NextPart(part_in, flag)
  /\ UNCHANGED <<pairVars, acks, out_end, part_out, sent_to, torn, cut, aborted>>

\* xrecv and xhas_in find the pipe empty, or the delimiter.
xhas_in ==
  /\ Tries(inpipe, inpipe_alive) /\ part_in = 0 /\ inpipe_alive' = FALSE
  /\ \/ in_end[inpipe] = "spent" /\ in_end' = [in_end EXCEPT ![inpipe] = "asleep"]
     \/ in_end' = [in_end EXCEPT ![inpipe] = "closed"]
  /\ UNCHANGED <<inpipe, outpipe, outpipe_alive, terminating, acks, out_end, messageVars, cut, aborted>>

Next ==
  /\ aborted = "no"
  /\ \/ \E p \in Peers : xattach_pipes(p) \/ xattach_pipesFails(p)
     \/ InTerminated \/ OutTerminated \/ process_term \/ PeerActs \/ InActivated \/ OutActivated
     \/ \E flag \in BOOLEAN : xsend(flag) \/ xrecv(flag)
     \/ xhas_out \/ xhas_in

Spec == Init /\ [][Next]_vars

(***************************************************************************)
(* Properties.                                                             *)
(***************************************************************************)
\* A pipe that is not tried any more is asleep, so that it is heard of again, or
\* has come to its end; one that is tried is awake.
AliveIsAwake ==
  terminating \/
    /\ inpipe_alive <=> inpipe # None /\ in_end[inpipe] \in {"ready", "spent"}
    /\ outpipe_alive <=> outpipe # None /\ out_end[outpipe] \in {"ready", "spent"}

\* The parts of a message all go to one peer, unless one has gone in its middle:
\* the next peer is then sent the rest.
WholeMessages == torn => cut

\* pair.cpp:109, 115: a pipe that is woken was not thought to be alive.  The assertion
\* of line 49, that there is no peer when one comes, does fail.
WokenWhenAsleep == aborted # "activated"

\* A socket that terminates waits for exactly the pipes it still has.
AcksOutstanding ==
  acks = IF terminating THEN (IF inpipe = None THEN 0 ELSE 1) + (IF outpipe = None THEN 0 ELSE 1) ELSE 0

PairSound == TypeOK /\ AliveIsAwake /\ WholeMessages /\ WokenWhenAsleep /\ AcksOutstanding
=============================================================================
