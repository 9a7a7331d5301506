--------------------------- MODULE ZmqConnectionsProofs -----------------------
(***************************************************************************)
(* Proofs about the parts of ZeroMQ that make connections: sessions,       *)
(* options and endpoints, addresses, and the five pollers (the transport   *)
(* below them has a module of its own, TransportProofs).                   *)
(***************************************************************************)
EXTENDS ZmqConnections, FiniteSetTheorems, SequenceTheorems, TLAPS

LEMMA LeastNatural ==
  ASSUME NEW S \in SUBSET Nat, S # {}
  PROVE  \E x \in S : \A y \in S : x <= y
<1> DEFINE R == OpToRel(<, Nat)
<1>1. R = {ss \in Nat \X Nat : ss[1] < ss[2]}
  BY DEF OpToRel
<1>2. IsWellFoundedOn(R, Nat)
  BY NatLessThanWellFounded
<1> HIDE DEF R
<1>3. PICK x \in S : \A y \in S : <<y, x>> \notin R
  BY <1>2, WFMin
<1>4. \A y \in S : x \in Nat /\ y \in Nat /\ ~(y < x)
  BY <1>1, <1>3
<1> QED BY <1>4

(***************************************************************************)
(* Sessions.                                                               *)
(***************************************************************************)
SessionRecord ==
  [state : {"active", "pending", "terminating", "gone"}, in_pipe : Ses!PipeEnd, out_pipe : Ses!PipeEnd,
   pipes_attached : BOOLEAN, incomplete_in : BOOLEAN, incomplete_out : BOOLEAN, delimiter_processed : BOOLEAN,
   force_terminate : BOOLEAN, has_linger_timer : BOOLEAN, engine : BOOLEAN, stranded : BOOLEAN, aborted : BOOLEAN]
Ended(state) == state \in {"terminating", "gone"}

\* Only a session that connects has a connecter; a session that is gone has nothing.
Attempts ==
  /\ options.kind # "connect" => session_connecter = "none" /\ init = {} /\ attaches \in Seq({"engine"})
  /\ session.state = "gone" => session_connecter = "none" /\ init = {} /\ attaches = <<>> /\ ~session.engine

\* The pipes are attached once.  The one from the socket is then open until its
\* delimiter is read or the session terminates.
PipesOnce(s) ==
  /\ s.in_pipe # "none" \/ s.incomplete_in \/ s.delimiter_processed => s.pipes_attached
  /\ s.delimiter_processed => s.in_pipe # "open"
  /\ ~options.requires_out => s.in_pipe = "none"
  /\ s.pipes_attached /\ options.requires_out /\ s.in_pipe # "open" => s.delimiter_processed \/ Ended(s.state)
  /\ Ended(s.state) => s.in_pipe # "open" /\ s.out_pipe # "open" /\ ~s.incomplete_out

\* The pipe holds whole messages, but for what has been read of the first, and then
\* its delimiter.
WholeMessages(s, parts) ==
  /\ parts # <<>> => s.in_pipe = "open"
  /\ \A k \in 1..Len(parts) : parts[k] = "delimiter" => closed /\ k = Len(parts)
  /\ \A k \in 1..Len(parts) : parts[k] = "part" => k < Len(parts) /\ parts[k + 1] = "last"
  /\ s.incomplete_in /\ s.in_pipe = "open" => parts # <<>> /\ parts[1] = "last"
  /\ ~closed => Len(parts) <= MaxQueue

\* The timer and the forced end, and what they are for.
EndForced(s, coming) ==
  /\ s.has_linger_timer => s.state = "pending" /\ options.linger = "finite"
  /\ s.force_terminate => options.kind = "transient"
  /\ options.kind = "transient" /\ s.state = "active" /\ ~s.engine /\ coming = <<>> => s.force_terminate

SessionInv ==
  /\ Ses!TypeOK /\ session \in SessionRecord
  /\ Attempts /\ PipesOnce(session) /\ WholeMessages(session, queue) /\ EndForced(session, attaches)
  /\ Ses!NeverAborts /\ Ses!OneAttempt /\ Ses!CleanStart /\ Ses!NothingUnsent

LEMMA SessionFacts == MaxQueue \in Nat \ {0, 1}
BY ConnectionsAssumption DEF ConnectionsAssumption, Ses!SessionAssumption

Ways(engine, con, ini, att) ==
  (IF engine THEN 1 ELSE 0) + (IF con # "none" THEN 1 ELSE 0) + (IF ini # {} THEN 1 ELSE 0) + Len(att)
WaysRight(state, ways) == IF state \in {"active", "pending"} THEN ways = 1 ELSE ways <= 1

LEMMA OneWay ==
  Ses!OneAttempt <=> (options.kind = "connect" =>
    WaysRight(session.state, Ways(session.engine, session_connecter, init, attaches)))
BY DEF Ses!OneAttempt, Ways, WaysRight

\* What the connecter and the init object do leaves the session as it is.
LEMMA ConnectionStep ==
  ASSUME SessionInv, UNCHANGED <<options, session, queue, closed, told>>,
         session_connecter' \in {"none", "unplugged", "waiting", "polling"},
         init' \in SUBSET {"plugged", "sent", "received"}, attaches' \in Seq({"engine", "none"}), Len(attaches') <= 2,
         attaches' = <<>> => attaches = <<>>, Attempts', Ses!OneAttempt'
  PROVE  SessionInv'
<1>1. Ses!TypeOK'
  BY DEF SessionInv, Ses!TypeOK
<1>2. PipesOnce(session)' /\ WholeMessages(session, queue)' /\ session' \in SessionRecord
  BY DEF SessionInv, PipesOnce, WholeMessages, Ended
<1>3. EndForced(session, attaches)'
  BY DEF SessionInv, EndForced
<1>4. Ses!NeverAborts' /\ Ses!CleanStart' /\ Ses!NothingUnsent'
  BY DEF SessionInv, Ses!NeverAborts, Ses!CleanStart, Ses!NothingUnsent
<1> QED BY <1>1, <1>2, <1>3, <1>4 DEF SessionInv

LEMMA AttachesTyped ==
  ASSUME SessionInv
  PROVE  /\ attaches \in Seq({"engine", "none"}) /\ Len(attaches) \in Nat
         /\ (attaches = <<>> <=> Len(attaches) = 0)
         /\ \A what \in {"engine", "none"} :
              /\ Append(attaches, what) \in Seq({"engine", "none"})
              /\ Len(Append(attaches, what)) = Len(attaches) + 1 /\ Append(attaches, what) # <<>>
<1>1. attaches \in Seq({"engine", "none"})
  BY DEF SessionInv, Ses!TypeOK
<1> QED BY <1>1, EmptySeq

LEMMA ConnectionSteps == ASSUME SessionInv, Ses!OfConnection PROVE SessionInv'
<1>1. /\ session_connecter \in {"none", "unplugged", "waiting", "polling"}
      /\ init \in SUBSET {"plugged", "sent", "received"} /\ Len(attaches) <= 2 /\ session \in SessionRecord
  BY DEF SessionInv, Ses!TypeOK
<1>2. Attempts /\ Ses!OneAttempt
  BY DEF SessionInv
<1>3. /\ options.kind = "connect" /\ (session_connecter # "none" \/ init # {}) => Len(attaches) = 0
      /\ options.kind = "connect" /\ session_connecter # "none" => init = {}
      /\ options.kind = "connect" /\ init # {} => session_connecter = "none"
  BY <1>1, <1>2, OneWay, AttachesTyped DEF Ways, WaysRight, SessionRecord
<1>4. CASE Ses!start_connecting
  <2>1. /\ UNCHANGED <<options, session, queue, init, attaches, closed, told>> /\ session_connecter \in {"unplugged", "waiting"}
        /\ session_connecter' \in {"polling", "waiting"} /\ session.state # "gone"
    BY <1>4 DEF Ses!start_connecting, Ses!socketVars
  <2>2. Attempts'
    BY <1>2, <2>1 DEF Attempts
  <2>3. Ses!OneAttempt'
    BY <1>1, <1>2, <2>1 DEF Ses!OneAttempt
  <2> QED BY <1>1, <2>1, <2>2, <2>3, ConnectionStep, AttachesTyped
<1>5. ASSUME NEW ok \in BOOLEAN, Ses!ConnecterOut(ok) PROVE SessionInv'
  <2>1. /\ UNCHANGED <<options, session, queue, attaches, closed, told>> /\ session_connecter = "polling"
        /\ \/ ok /\ session_connecter' = "none" /\ init' = {"plugged"}
           \/ ~ok /\ session_connecter' = "waiting" /\ init' = {}
    BY <1>5 DEF Ses!ConnecterOut, Ses!socketVars
  <2>2. options.kind = "connect" /\ session.state # "gone" /\ init = {}
    BY <1>2, <1>3, <2>1 DEF Attempts
  <2>3. Attempts'
    BY <2>1, <2>2 DEF Attempts
  <2>4. Ses!OneAttempt'
    BY <1>1, <1>2, <2>1, <2>2 DEF Ses!OneAttempt
  <2> QED BY <1>1, <2>1, <2>3, <2>4, ConnectionStep, AttachesTyped
<1>6. ASSUME NEW what \in {"sent", "received"}, Ses!Exchanged(what) PROVE SessionInv'
  <2>1. /\ UNCHANGED <<options, session, queue, session_connecter, closed, told>> /\ init # {}
        /\ \/ init' = {} /\ attaches' = Append(attaches, "engine")
           \/ init' = init \union {what} /\ attaches' = attaches
    BY <1>6 DEF Ses!Exchanged, Ses!socketVars
  <2>2. options.kind = "connect" /\ session.state # "gone" /\ Len(attaches) = 0 /\ session_connecter = "none"
    BY <1>2, <1>3, <2>1 DEF Attempts
  <2>3. Attempts'
    BY <2>1, <2>2 DEF Attempts
  <2>4. init' \in SUBSET {"plugged", "sent", "received"}
    BY <1>1, <2>1
  <2>5. CASE init' = {} /\ attaches' = Append(attaches, "engine")
    <3>1. Len(attaches') = 1 /\ attaches' # <<>> /\ attaches' \in Seq({"engine", "none"})
      BY <2>2, <2>5, AttachesTyped
    <3>2. Ses!OneAttempt'
      BY <1>1, <1>2, <2>1, <2>2, <2>5, <3>1 DEF Ses!OneAttempt
    <3> QED BY <1>1, <2>1, <2>3, <2>4, <3>1, <3>2, ConnectionStep
  <2>6. CASE init' = init \union {what} /\ attaches' = attaches
    <3>1. init' # {}
      BY <2>1, <2>6
    <3>2. Ses!OneAttempt'
      BY <1>1, <1>2, <2>1, <2>2, <2>6, <3>1 DEF Ses!OneAttempt
    <3> QED BY <1>1, <2>1, <2>3, <2>4, <2>6, <3>2, ConnectionStep, AttachesTyped
  <2> QED BY <2>1, <2>5, <2>6
<1>7. CASE Ses!InitDetach
  <2>1. /\ UNCHANGED <<options, session, queue, session_connecter, closed, told>> /\ init # {}
        /\ init' = {} /\ attaches' = Append(attaches, "none")
    BY <1>7 DEF Ses!InitDetach, Ses!socketVars
  <2>2. options.kind = "connect" /\ session.state # "gone" /\ Len(attaches) = 0 /\ session_connecter = "none"
    BY <1>2, <1>3, <2>1 DEF Attempts
  <2>3. Attempts'
    BY <2>1, <2>2 DEF Attempts
  <2>4. Len(attaches') = 1 /\ attaches' # <<>> /\ attaches' \in Seq({"engine", "none"})
    BY <2>1, <2>2, AttachesTyped
  <2>5. Ses!OneAttempt'
    BY <1>1, <1>2, <2>1, <2>2, <2>4 DEF Ses!OneAttempt
  <2> QED BY <1>1, <2>1, <2>3, <2>4, <2>5, ConnectionStep
<1>8. CASE Ses!ChildTerminated
  <2>1. /\ UNCHANGED <<options, session, queue, attaches, closed, told>> /\ session.state = "terminating"
        /\ session_connecter' = "none" /\ init' = {}
    BY <1>8 DEF Ses!ChildTerminated, Ses!socketVars
  <2>2. Attempts'
    BY <1>2, <2>1 DEF Attempts
  <2>3. Ses!OneAttempt'
    BY <1>1, <1>2, <2>1, AttachesTyped DEF Ses!OneAttempt
  <2> QED BY <1>1, <2>1, <2>2, <2>3, ConnectionStep, AttachesTyped
<1>9. CASE Ses!Arrives
  <2>1. /\ UNCHANGED <<options, session, queue, session_connecter, init, closed, told>>
        /\ options.kind = "named" /\ session.state # "gone" /\ Len(attaches) < 2 /\ attaches' = Append(attaches, "engine")
    BY <1>9 DEF Ses!Arrives, Ses!socketVars, Ses!connectVars
  <2>2. attaches' \in Seq({"engine"})
    BY <1>2, <2>1 DEF Attempts
  <2>3. Attempts'
    BY <1>2, <2>1, <2>2 DEF Attempts
  <2>4. Len(attaches') <= 2 /\ attaches' # <<>> /\ attaches' \in Seq({"engine", "none"})
    BY <2>1, AttachesTyped
  <2>5. Ses!OneAttempt'
    BY <2>1 DEF Ses!OneAttempt
  <2> QED BY <1>1, <2>1, <2>3, <2>4, <2>5, ConnectionStep
<1> QED BY <1>4, <1>5, <1>6, <1>7, <1>8, <1>9 DEF Ses!OfConnection, Ses!InitRead, Ses!InitWrite

(***************************************************************************)
(* What the operators make of a session.                                   *)
(***************************************************************************)
LEMMA Proceeds ==
  ASSUME NEW s \in SessionRecord, s.state # "terminating"
  PROVE  /\ Ses!proceed_with_term(s) \in SessionRecord /\ Ses!proceed_with_term(s).state = "terminating"
         /\ Ses!proceed_with_term(s).in_pipe = Ses!Closing(s.in_pipe)
         /\ Ses!proceed_with_term(s).out_pipe = Ses!Closing(s.out_pipe)
         /\ Ses!proceed_with_term(s).pipes_attached = s.pipes_attached
         /\ Ses!proceed_with_term(s).incomplete_in = s.incomplete_in
         /\ Ses!proceed_with_term(s).incomplete_out = FALSE
         /\ Ses!proceed_with_term(s).delimiter_processed = s.delimiter_processed
         /\ Ses!proceed_with_term(s).force_terminate = s.force_terminate
         /\ Ses!proceed_with_term(s).has_linger_timer = FALSE
         /\ Ses!proceed_with_term(s).engine = s.engine /\ Ses!proceed_with_term(s).stranded = s.stranded
         /\ Ses!proceed_with_term(s).aborted = (s.aborted \/ s.state # "pending")
<1> DEFINE n == [s EXCEPT !.state = "terminating", !.has_linger_timer = FALSE, !.incomplete_out = FALSE,
                 !.in_pipe = Ses!Closing(s.in_pipe), !.out_pipe = Ses!Closing(s.out_pipe),
                 !.aborted = s.aborted \/ s.state # "pending"]
<1>1. Ses!proceed_with_term(s) = n
  BY DEF Ses!proceed_with_term
<1>2. Ses!Closing(s.in_pipe) \in Ses!PipeEnd /\ Ses!Closing(s.out_pipe) \in Ses!PipeEnd
  BY DEF Ses!Closing, Ses!PipeEnd, SessionRecord
<1>3. n \in SessionRecord
  BY <1>2 DEF SessionRecord
<1>4. /\ n.state = "terminating" /\ n.in_pipe = Ses!Closing(s.in_pipe) /\ n.out_pipe = Ses!Closing(s.out_pipe)
      /\ n.pipes_attached = s.pipes_attached /\ n.incomplete_in = s.incomplete_in /\ n.incomplete_out = FALSE
      /\ n.delimiter_processed = s.delimiter_processed /\ n.force_terminate = s.force_terminate
      /\ n.has_linger_timer = FALSE /\ n.engine = s.engine /\ n.stranded = s.stranded
      /\ n.aborted = (s.aborted \/ s.state # "pending")
  BY DEF SessionRecord
<1> QED BY <1>1, <1>3, <1>4

LEMMA ReadsDelimiter ==
  ASSUME NEW s \in SessionRecord, ~s.delimiter_processed
  PROVE  /\ Ses!delimited(s) \in SessionRecord
         /\ Ses!delimited(s).state = (IF s.state = "pending" THEN "terminating" ELSE s.state)
         /\ Ses!delimited(s).in_pipe = "closing"
         /\ Ses!delimited(s).out_pipe = (IF s.state = "pending" THEN Ses!Closing(s.out_pipe) ELSE s.out_pipe)
         /\ Ses!delimited(s).pipes_attached = s.pipes_attached
         /\ Ses!delimited(s).incomplete_in = s.incomplete_in
         /\ Ses!delimited(s).incomplete_out = (IF s.state = "pending" THEN FALSE ELSE s.incomplete_out)
         /\ Ses!delimited(s).delimiter_processed = TRUE
         /\ Ses!delimited(s).force_terminate = s.force_terminate
         /\ Ses!delimited(s).has_linger_timer = (IF s.state = "pending" THEN FALSE ELSE s.has_linger_timer)
         /\ Ses!delimited(s).engine = s.engine /\ Ses!delimited(s).stranded = s.stranded
         /\ Ses!delimited(s).aborted = s.aborted
<1> DEFINE n == [s EXCEPT !.delimiter_processed = TRUE, !.in_pipe = "closing",
                          !.aborted = s.aborted \/ s.delimiter_processed]
<1>1. Ses!delimited(s) = IF s.state = "pending" THEN Ses!proceed_with_term(n) ELSE n
  BY DEF Ses!delimited
<1>2. n \in SessionRecord
  BY DEF SessionRecord, Ses!PipeEnd
<1>3. /\ n.state = s.state /\ n.in_pipe = "closing" /\ n.out_pipe = s.out_pipe
      /\ n.pipes_attached = s.pipes_attached /\ n.incomplete_in = s.incomplete_in /\ n.incomplete_out = s.incomplete_out
      /\ n.delimiter_processed = TRUE /\ n.force_terminate = s.force_terminate
      /\ n.has_linger_timer = s.has_linger_timer /\ n.engine = s.engine /\ n.stranded = s.stranded /\ n.aborted = s.aborted
  BY DEF SessionRecord
<1> HIDE DEF n
<1>4. CASE s.state = "pending"
  <2>1. n.state # "terminating" /\ (n.aborted \/ n.state # "pending") = s.aborted /\ Ses!Closing("closing") = "closing"
    BY <1>2, <1>3, <1>4 DEF SessionRecord, Ses!Closing
  <2>2. Ses!delimited(s) = Ses!proceed_with_term(n)
    BY <1>1, <1>4
  <2>3. Ses!delimited(s).aborted = s.aborted
    BY <1>2, <2>1, <2>2, Proceeds
  <2>4. /\ Ses!delimited(s).delimiter_processed = TRUE /\ Ses!delimited(s).incomplete_out = FALSE
        /\ Ses!delimited(s).has_linger_timer = FALSE
    BY <1>2, <1>3, <2>1, <2>2, Proceeds
  <2>5. /\ Ses!delimited(s) \in SessionRecord /\ Ses!delimited(s).state = "terminating"
        /\ Ses!delimited(s).in_pipe = Ses!Closing(n.in_pipe) /\ Ses!delimited(s).out_pipe = Ses!Closing(n.out_pipe)
    BY <1>2, <2>1, <2>2, Proceeds
  <2>6. /\ Ses!delimited(s).pipes_attached = s.pipes_attached
        /\ Ses!delimited(s).incomplete_in = s.incomplete_in
        /\ Ses!delimited(s).force_terminate = s.force_terminate /\ Ses!delimited(s).engine = s.engine
        /\ Ses!delimited(s).stranded = s.stranded
    BY <1>2, <1>3, <2>1, <2>2, Proceeds
  <2> QED BY <1>3, <1>4, <2>1, <2>3, <2>4, <2>5, <2>6
<1>5. CASE s.state # "pending"
  BY <1>1, <1>2, <1>3, <1>5
<1> QED BY <1>4, <1>5

LEMMA QueueTyped ==
  ASSUME SessionInv, queue # <<>>
  PROVE  /\ queue \in Seq({"part", "last", "delimiter"}) /\ Len(queue) \in Nat \ {0}
         /\ Head(queue) = queue[1] /\ queue[1] \in {"part", "last", "delimiter"}
         /\ Tail(queue) \in Seq({"part", "last", "delimiter"}) /\ Len(Tail(queue)) = Len(queue) - 1
         /\ \A k \in 1..Len(queue) - 1 : Tail(queue)[k] = queue[k + 1]
         /\ session.in_pipe = "open"
         /\ Head(queue) = "delimiter" => Tail(queue) = <<>>
<1>1. queue \in Seq({"part", "last", "delimiter"})
  BY DEF SessionInv, Ses!TypeOK
<1>2. Len(queue) \in Nat \ {0}
  BY <1>1, EmptySeq
<1>3. Head(queue) = queue[1] /\ queue[1] \in {"part", "last", "delimiter"}
  BY <1>1, <1>2, ElementOfSeq
<1>4. /\ Tail(queue) \in Seq({"part", "last", "delimiter"}) /\ Len(Tail(queue)) = Len(queue) - 1
      /\ \A k \in 1..Len(Tail(queue)) : Tail(queue)[k] = queue[k + 1]
  BY <1>1, HeadTailProperties
<1>5. session.in_pipe = "open"
  BY DEF SessionInv, WholeMessages
<1>6. Head(queue) = "delimiter" => Tail(queue) = <<>>
  <2> SUFFICES ASSUME Head(queue) = "delimiter" PROVE Tail(queue) = <<>>
    OBVIOUS
  <2>1. Len(queue) = 1
    <3>1. 1 \in 1..Len(queue) /\ queue[1] = "delimiter"
      BY <1>2, <1>3
    <3> QED BY <3>1 DEF SessionInv, WholeMessages
  <2>2. Len(Tail(queue)) = 0
    BY <1>4, <2>1
  <2> QED BY <1>4, <2>2, EmptySeq
<1> QED BY <1>1, <1>2, <1>3, <1>4, <1>5, <1>6

\* The session terminates, in whatever way.
LEMMA SessionEnds ==
  ASSUME SessionInv, session.state \in {"active", "pending"}, UNCHANGED <<options, closed>>, told' \in BOOLEAN,
         session_connecter' \in {"none", "unplugged", "waiting", "polling"}, init' = init, attaches' = attaches,
         options.kind # "connect" => session_connecter' = session_connecter, Ses!OneAttempt',
         session' \in SessionRecord, session'.state = "terminating", queue' = <<>>,
         session'.in_pipe # "open", session'.out_pipe # "open", ~session'.incomplete_out, ~session'.aborted,
         ~session'.has_linger_timer, session'.pipes_attached = session.pipes_attached,
         session'.incomplete_in => session.incomplete_in, session'.in_pipe # "none" => session.in_pipe # "none",
         session'.delimiter_processed => session.pipes_attached, session'.force_terminate => options.kind = "transient",
         options.linger = "infinite" /\ options.kind # "transient" /\ session.pipes_attached /\ options.requires_out
           => session'.delimiter_processed
  PROVE  SessionInv'
<1>1. Len(queue') = 0 /\ queue' \in Seq({"part", "last", "delimiter"}) /\ MaxQueue \in Nat
  BY EmptySeq, SessionFacts
<1>2. Ses!TypeOK'
  BY <1>1 DEF SessionInv, Ses!TypeOK, SessionRecord
<1>3. Attempts'
  BY DEF SessionInv, Attempts
<1>4. PipesOnce(session)'
  BY DEF SessionInv, PipesOnce, Ended
<1>5. WholeMessages(session, queue)'
  BY <1>1 DEF WholeMessages
<1>6. EndForced(session, attaches)'
  BY DEF EndForced
<1>7. Ses!NeverAborts' /\ Ses!CleanStart'
  BY DEF Ses!NeverAborts, Ses!CleanStart
<1>8. Ses!NothingUnsent'
  BY DEF Ses!NothingUnsent
<1> QED BY <1>2, <1>3, <1>4, <1>5, <1>6, <1>7, <1>8 DEF SessionInv

LEMMA OneWayStays ==
  ASSUME SessionInv, UNCHANGED <<options, session_connecter, init, attaches>>,
         session'.engine = session.engine, session'.state = session.state \/ session'.state \in {"pending", "terminating"},
         session.state \in {"active", "pending"} \/ session'.state # "pending"
  PROVE  Ses!OneAttempt'
<1>1. session.state \in {"active", "pending", "terminating", "gone"} /\ Len(attaches) \in Nat
  BY AttachesTyped DEF SessionInv, SessionRecord
<1> QED BY <1>1 DEF SessionInv, Ses!OneAttempt

LEMMA TermProcessed == ASSUME SessionInv, Ses!process_term PROVE SessionInv'
<1> DEFINE timer == options.linger = "finite"
           lingers == [session EXCEPT !.state = "pending", !.has_linger_timer = timer]
           checked == Ses!check_read(lingers, queue)
<1>1. /\ session.state = "active" /\ told /\ UNCHANGED <<options, session_connecter, init, attaches, closed, told>>
      /\ session' = (IF options.linger = "zero" THEN Ses!proceed_with_term(lingers)
                     ELSE IF Ses!Gate(checked) THEN Ses!proceed_with_term(checked) ELSE checked)
      /\ queue' = IF session'.in_pipe = "closing" THEN <<>> ELSE queue
  BY DEF Ses!process_term, Ses!connectVars, Ses!socketVars
<1>2. session \in SessionRecord /\ ~session.aborted /\ PipesOnce(session) /\ WholeMessages(session, queue)
  BY DEF SessionInv, Ses!NeverAborts
<1>3. lingers \in SessionRecord
  BY <1>2 DEF SessionRecord
<1>4. /\ lingers.state = "pending" /\ lingers.in_pipe = session.in_pipe /\ lingers.out_pipe = session.out_pipe
      /\ lingers.pipes_attached = session.pipes_attached /\ lingers.incomplete_in = session.incomplete_in
      /\ lingers.incomplete_out = session.incomplete_out /\ lingers.delimiter_processed = session.delimiter_processed
      /\ lingers.force_terminate = session.force_terminate /\ lingers.has_linger_timer = timer
      /\ lingers.engine = session.engine /\ lingers.aborted = session.aborted
  BY <1>2 DEF SessionRecord
<1> HIDE DEF lingers, timer
<1>5. session_connecter' \in {"none", "unplugged", "waiting", "polling"} /\ told' \in BOOLEAN
  BY <1>1 DEF SessionInv, Ses!TypeOK
<1>6. CASE session'.state = "terminating" /\ session' = Ses!proceed_with_term(lingers)
           /\ (options.linger = "infinite" /\ options.kind # "transient" /\ session.pipes_attached /\ options.requires_out
                 => session.delimiter_processed)
  <2>1. /\ session' \in SessionRecord /\ session'.in_pipe = Ses!Closing(session.in_pipe)
        /\ session'.out_pipe = Ses!Closing(session.out_pipe) /\ session'.pipes_attached = session.pipes_attached
        /\ session'.incomplete_in = session.incomplete_in /\ session'.incomplete_out = FALSE
        /\ session'.delimiter_processed = session.delimiter_processed
        /\ session'.force_terminate = session.force_terminate /\ session'.has_linger_timer = FALSE
        /\ session'.engine = session.engine
    BY <1>3, <1>4, <1>6, Proceeds
  <2>2. ~session'.aborted
    BY <1>2, <1>3, <1>4, <1>6, Proceeds
  <2>3. session'.in_pipe # "open" /\ session'.out_pipe # "open" /\ (session'.in_pipe # "none" => session.in_pipe # "none")
    BY <1>2, <2>1 DEF Ses!Closing, SessionRecord, Ses!PipeEnd
  <2>4. queue' = <<>>
    BY <1>1, <1>2, <2>1 DEF Ses!Closing, WholeMessages
  <2>5. Ses!OneAttempt'
    BY <1>1, <1>6, <2>1, OneWayStays
  <2>6. (session'.delimiter_processed => session.pipes_attached) /\ (session'.force_terminate => options.kind = "transient")
    BY <1>2, <2>1 DEF PipesOnce, SessionInv, EndForced
  <2> QED BY <1>1, <1>5, <1>6, <2>1, <2>2, <2>3, <2>4, <2>5, <2>6, SessionEnds
<1>7. CASE options.linger = "zero"
  <2>1. session' = Ses!proceed_with_term(lingers) /\ session'.state = "terminating"
    BY <1>1, <1>3, <1>4, <1>7, Proceeds
  <2> QED BY <1>6, <1>7, <2>1
<1>8. CASE options.linger # "zero" /\ Ses!OnlyDelimiter(lingers, queue)
  <2>1. checked = Ses!delimited(lingers)
    BY <1>8 DEF Ses!check_read
  <2>2. session.in_pipe = "open" /\ ~session.delimiter_processed
    BY <1>2, <1>4, <1>8 DEF Ses!OnlyDelimiter, PipesOnce
  <2>3. /\ checked \in SessionRecord /\ checked.state = "terminating" /\ checked.in_pipe = "closing"
        /\ checked.out_pipe = Ses!Closing(session.out_pipe) /\ checked.pipes_attached = session.pipes_attached
        /\ checked.incomplete_in = session.incomplete_in /\ checked.incomplete_out = FALSE
        /\ checked.delimiter_processed = TRUE /\ checked.force_terminate = session.force_terminate
        /\ checked.has_linger_timer = FALSE /\ checked.engine = session.engine /\ checked.aborted = session.aborted
    BY <1>3, <1>4, <2>1, <2>2, ReadsDelimiter
  <2> HIDE DEF checked
  <2>4. session' = checked
    BY <1>1, <1>8, <2>3 DEF Ses!proceed_with_term
  <2>5. session'.out_pipe # "open" /\ queue' = <<>>
    BY <1>1, <1>2, <2>3, <2>4 DEF Ses!Closing
  <2>6. Ses!OneAttempt'
    BY <1>1, <2>3, <2>4, OneWayStays
  <2>7. session.pipes_attached /\ (session'.force_terminate => options.kind = "transient")
    BY <1>2, <2>2, <2>3, <2>4 DEF PipesOnce, SessionInv, EndForced
  <2> QED BY <1>1, <1>2, <1>5, <2>2, <2>3, <2>4, <2>5, <2>6, <2>7, SessionEnds
<1>9. CASE options.linger # "zero" /\ ~Ses!OnlyDelimiter(lingers, queue)
  <2>1. checked = lingers
    BY <1>9 DEF Ses!check_read
  <2>2. CASE Ses!Gate(lingers)
    <3>1. session' = Ses!proceed_with_term(lingers) /\ session'.state = "terminating"
      BY <1>1, <1>3, <1>4, <1>9, <2>1, <2>2, Proceeds
    <3>2. options.kind # "transient" /\ session.pipes_attached /\ options.requires_out => session.delimiter_processed
      BY <1>1, <1>2, <1>4, <2>2 DEF Ses!Gate, PipesOnce, SessionInv, EndForced, Ended
    <3> QED BY <1>6, <3>1, <3>2
  <2>3. CASE ~Ses!Gate(lingers)
    <3>1. session' = lingers
      BY <1>1, <1>9, <2>1, <2>3
    <3>2. queue' = queue
      BY <1>1, <1>2, <1>4, <3>1 DEF WholeMessages
    <3>3. Ses!OneAttempt'
      BY <1>1, <1>4, <3>1, OneWayStays
    <3>4. Ses!TypeOK' /\ Attempts'
      BY <1>1, <1>3, <1>4, <3>1, <3>2 DEF SessionInv, Ses!TypeOK, Attempts, SessionRecord
    <3>5. PipesOnce(session)' /\ WholeMessages(session, queue)'
      BY <1>1, <1>2, <1>4, <3>1, <3>2 DEF PipesOnce, WholeMessages, Ended
    <3>6. EndForced(session, attaches)'
      BY <1>1, <1>4, <1>9, <3>1 DEF SessionInv, EndForced, timer
    <3>7. Ses!NeverAborts' /\ Ses!CleanStart' /\ Ses!NothingUnsent'
      BY <1>1, <1>2, <1>4, <3>1 DEF SessionInv, Ses!NeverAborts, Ses!CleanStart, Ses!NothingUnsent
    <3> QED BY <1>3, <3>1, <3>3, <3>4, <3>5, <3>6, <3>7 DEF SessionInv
  <2> QED BY <2>2, <2>3
<1> QED BY <1>7, <1>8, <1>9

\* What the session makes of itself alone, while it stays active or lingers.
LEMMA SessionGoesOn ==
  ASSUME SessionInv, session.state \in {"active", "pending"},
         UNCHANGED <<options, session_connecter, init, attaches, closed, told>>,
         session' \in SessionRecord, session'.state = session.state, session'.engine = session.engine,
         session'.pipes_attached = session.pipes_attached, session'.force_terminate = session.force_terminate,
         session'.has_linger_timer = session.has_linger_timer, ~session'.aborted,
         queue' \in Seq({"part", "last", "delimiter"}), Len(queue') <= Len(queue),
         PipesOnce(session)', WholeMessages(session, queue)', Ses!CleanStart'
  PROVE  SessionInv'
<1>1. MaxQueue \in Nat /\ Len(queue) \in Nat /\ Len(queue') \in Nat /\ Len(queue) <= MaxQueue + 1
  BY SessionFacts DEF SessionInv, Ses!TypeOK
<1>2. Ses!TypeOK'
  BY <1>1 DEF SessionInv, Ses!TypeOK, SessionRecord
<1>3. Attempts'
  BY DEF SessionInv, Attempts
<1>4. EndForced(session, attaches)'
  BY DEF SessionInv, EndForced
<1>5. Ses!OneAttempt'
  BY OneWayStays
<1>6. Ses!NeverAborts' /\ Ses!NothingUnsent'
  BY DEF SessionInv, Ses!NeverAborts, Ses!NothingUnsent
<1> QED BY <1>2, <1>3, <1>4, <1>5, <1>6 DEF SessionInv

\* The delimiter is read, by the engine or without it.
LEMMA DelimiterRead ==
  ASSUME SessionInv, UNCHANGED <<options, session_connecter, init, attaches, closed, told>>,
         session.in_pipe = "open", session' = Ses!delimited(session), queue' = <<>>
  PROVE  SessionInv'
<1>1. session \in SessionRecord /\ ~session.aborted /\ PipesOnce(session) /\ WholeMessages(session, queue)
  BY DEF SessionInv, Ses!NeverAborts
<1>2. session.state \in {"active", "pending"} /\ session.pipes_attached /\ ~session.delimiter_processed
  BY <1>1 DEF PipesOnce, Ended, SessionRecord
<1>3. /\ session' \in SessionRecord /\ session'.in_pipe = "closing"
      /\ session'.pipes_attached = session.pipes_attached
      /\ session'.incomplete_in = session.incomplete_in /\ session'.delimiter_processed = TRUE
      /\ session'.force_terminate = session.force_terminate /\ session'.engine = session.engine
      /\ session'.aborted = session.aborted
  BY <1>1, <1>2, ReadsDelimiter
<1>4. CASE session.state = "pending"
  <2>1. /\ session'.state = "terminating" /\ session'.out_pipe = Ses!Closing(session.out_pipe)
        /\ session'.incomplete_out = FALSE /\ session'.has_linger_timer = FALSE
    BY <1>1, <1>2, <1>4, ReadsDelimiter
  <2>2. Ses!OneAttempt'
    BY <1>3, <2>1, OneWayStays
  <2>3. session'.out_pipe # "open"
    BY <2>1 DEF Ses!Closing
  <2>4. session'.force_terminate => options.kind = "transient"
    BY <1>3 DEF SessionInv, EndForced
  <2>5. session_connecter' \in {"none", "unplugged", "waiting", "polling"} /\ told' \in BOOLEAN
    BY DEF SessionInv, Ses!TypeOK
  <2> QED BY <1>1, <1>2, <1>3, <2>1, <2>2, <2>3, <2>4, <2>5, SessionEnds
<1>5. CASE session.state # "pending"
  <2>1. /\ session'.state = session.state /\ session'.out_pipe = session.out_pipe
        /\ session'.incomplete_out = session.incomplete_out /\ session'.has_linger_timer = session.has_linger_timer
    BY <1>1, <1>2, <1>5, ReadsDelimiter
  <2>2. queue' \in Seq({"part", "last", "delimiter"}) /\ Len(queue') = 0 /\ Len(queue) \in Nat /\ MaxQueue \in Nat
    BY EmptySeq, SessionFacts DEF SessionInv, Ses!TypeOK
  <2>3. PipesOnce(session)'
    BY <1>1, <1>2, <1>3, <2>1 DEF PipesOnce, Ended
  <2>4. WholeMessages(session, queue)'
    BY <1>3, <2>2 DEF WholeMessages
  <2>5. Ses!CleanStart'
    BY <1>3, <2>1 DEF SessionInv, Ses!CleanStart
  <2> QED BY <1>1, <1>2, <1>3, <2>1, <2>2, <2>3, <2>4, <2>5, SessionGoesOn
<1> QED BY <1>4, <1>5

\* Without its first part, the pipe still holds whole messages.
LEMMA TailWhole ==
  ASSUME SessionInv, queue # <<>>
  PROVE  /\ \A k \in 1..Len(Tail(queue)) : Tail(queue)[k] = "delimiter" => closed /\ k = Len(Tail(queue))
         /\ \A k \in 1..Len(Tail(queue)) :
              Tail(queue)[k] = "part" => k < Len(Tail(queue)) /\ Tail(queue)[k + 1] = "last"
<1> DEFINE tail == Tail(queue)
<1>1. WholeMessages(session, queue)
  BY DEF SessionInv
<1>2. /\ tail \in Seq({"part", "last", "delimiter"}) /\ Len(tail) = Len(queue) - 1 /\ Len(queue) \in Nat
      /\ \A k \in 1..Len(queue) - 1 : tail[k] = queue[k + 1]
  BY QueueTyped
<1> HIDE DEF tail
<1>3. \A k \in 1..Len(tail) : k + 1 \in 1..Len(queue) /\ tail[k] = queue[k + 1]
  BY <1>2
<1>4. \A k \in 1..Len(tail) : tail[k] = "delimiter" => closed /\ k = Len(tail)
  BY <1>1, <1>2, <1>3 DEF WholeMessages
<1>5. ASSUME NEW k \in 1..Len(tail), tail[k] = "part" PROVE k < Len(tail) /\ tail[k + 1] = "last"
  <2>1. k + 1 \in 1..Len(queue) /\ queue[k + 1] = "part"
    BY <1>3, <1>5
  <2>2. k + 1 < Len(queue) /\ queue[k + 1 + 1] = "last"
    BY <1>1, <2>1 DEF WholeMessages
  <2>3. k + 1 \in 1..Len(tail)
    BY <1>2, <2>1, <2>2
  <2> QED BY <1>2, <1>3, <2>2, <2>3
<1> QED BY <1>4, <1>5 DEF tail

LEMMA PartRead == ASSUME SessionInv, Ses!read PROVE SessionInv'
<1>1. /\ session.engine /\ session.in_pipe = "open" /\ queue # <<>> /\ queue' = Tail(queue)
      /\ UNCHANGED <<options, session_connecter, init, attaches, closed, told>>
      /\ session' = IF Head(queue) = "delimiter" THEN Ses!delimited(session)
                    ELSE [session EXCEPT !.incomplete_in = Head(queue) = "part"]
  BY DEF Ses!read, Ses!connectVars, Ses!socketVars
<1>2. session \in SessionRecord /\ ~session.aborted /\ PipesOnce(session) /\ WholeMessages(session, queue)
  BY DEF SessionInv, Ses!NeverAborts
<1>3. CASE Head(queue) = "delimiter"
  BY <1>1, <1>3, QueueTyped, DelimiterRead
<1>4. CASE Head(queue) # "delimiter"
  <2> DEFINE again == Head(queue) = "part"
  <2>1. session' = [session EXCEPT !.incomplete_in = again] /\ again \in BOOLEAN
    BY <1>1, <1>4
  <2>2. again <=> queue[1] = "part"
    BY <1>1, QueueTyped
  <2> HIDE DEF again
  <2>3. /\ session' \in SessionRecord /\ session'.state = session.state /\ session'.in_pipe = session.in_pipe
        /\ session'.out_pipe = session.out_pipe /\ session'.pipes_attached = session.pipes_attached
        /\ session'.incomplete_in = again /\ session'.incomplete_out = session.incomplete_out
        /\ session'.delimiter_processed = session.delimiter_processed
        /\ session'.force_terminate = session.force_terminate /\ session'.has_linger_timer = session.has_linger_timer
        /\ session'.engine = session.engine /\ session'.aborted = session.aborted
    BY <1>2, <2>1 DEF SessionRecord
  <2>4. session.state \in {"active", "pending"} /\ session.pipes_attached
    BY <1>1, <1>2 DEF PipesOnce, Ended, SessionRecord
  <2>5. PipesOnce(session)'
    BY <1>1, <1>2, <2>3, <2>4 DEF PipesOnce, Ended
  <2>6. Ses!CleanStart'
    BY <1>1, <2>3 DEF Ses!CleanStart
  <2>7. /\ queue' \in Seq({"part", "last", "delimiter"}) /\ Len(queue') = Len(queue) - 1 /\ Len(queue) \in Nat
        /\ \A k \in 1..Len(queue) - 1 : queue'[k] = queue[k + 1]
    BY <1>1, QueueTyped
  <2>8. /\ \A k \in 1..Len(queue') : queue'[k] = "delimiter" => closed /\ k = Len(queue')
        /\ \A k \in 1..Len(queue') : queue'[k] = "part" => k < Len(queue') /\ queue'[k + 1] = "last"
    BY <1>1, TailWhole
  <2>9. again => queue' # <<>> /\ queue'[1] = "last"
    <3> SUFFICES ASSUME again PROVE queue' # <<>> /\ queue'[1] = "last"
      OBVIOUS
    <3>1. 1 \in 1..Len(queue) /\ queue[1] = "part"
      BY <1>1, <2>2, QueueTyped
    <3>2. 1 < Len(queue) /\ queue[1 + 1] = "last"
      BY <1>2, <3>1 DEF WholeMessages
    <3>3. 1 \in 1..Len(queue') /\ Len(queue') # 0
      BY <2>7, <3>2
    <3>4. queue' # <<>>
      BY <3>3, EmptySeq
    <3> QED BY <2>7, <3>2, <3>3, <3>4
  <2>10. WholeMessages(session, queue)'
    BY <1>1, <1>2, <2>3, <2>7, <2>8, <2>9, SessionFacts DEF WholeMessages
  <2> QED BY <1>1, <1>2, <2>3, <2>4, <2>5, <2>6, <2>7, <2>10, SessionGoesOn
<1> QED BY <1>3, <1>4

LEMMA PartWritten == ASSUME SessionInv, NEW again \in BOOLEAN, Ses!write(again) PROVE SessionInv'
<1>1. /\ session.engine /\ session.out_pipe = "open" /\ queue' = queue
      /\ UNCHANGED <<options, session_connecter, init, attaches, closed, told>>
      /\ session' = [session EXCEPT !.incomplete_out = again]
  BY DEF Ses!write, Ses!connectVars, Ses!socketVars
<1>2. session \in SessionRecord /\ ~session.aborted /\ PipesOnce(session) /\ WholeMessages(session, queue)
  BY DEF SessionInv, Ses!NeverAborts
<1>3. /\ session' \in SessionRecord /\ session'.state = session.state /\ session'.in_pipe = session.in_pipe
      /\ session'.out_pipe = session.out_pipe /\ session'.pipes_attached = session.pipes_attached
      /\ session'.incomplete_in = session.incomplete_in
      /\ session'.delimiter_processed = session.delimiter_processed
      /\ session'.force_terminate = session.force_terminate /\ session'.has_linger_timer = session.has_linger_timer
      /\ session'.engine = session.engine /\ session'.aborted = session.aborted
  BY <1>1, <1>2 DEF SessionRecord
<1>4. session.state \in {"active", "pending"}
  BY <1>1, <1>2 DEF PipesOnce, Ended, SessionRecord
<1>5. PipesOnce(session)' /\ WholeMessages(session, queue)'
  BY <1>1, <1>2, <1>3, <1>4 DEF PipesOnce, WholeMessages, Ended
<1>6. Ses!CleanStart'
  BY <1>1, <1>3 DEF Ses!CleanStart
<1>7. queue' \in Seq({"part", "last", "delimiter"}) /\ Len(queue') <= Len(queue)
  BY <1>1 DEF SessionInv, Ses!TypeOK
<1> QED BY <1>1, <1>2, <1>3, <1>4, <1>5, <1>6, <1>7, SessionGoesOn

LEMMA DelimiterFound == ASSUME SessionInv, Ses!activated PROVE SessionInv'
<1>1. /\ Ses!OnlyDelimiter(session, queue) /\ session' = Ses!check_read(session, queue) /\ queue' = <<>>
      /\ UNCHANGED <<options, session_connecter, init, attaches, closed, told>>
  BY DEF Ses!activated, Ses!connectVars, Ses!socketVars
<1>2. session.in_pipe = "open" /\ session' = Ses!delimited(session)
  BY <1>1 DEF Ses!OnlyDelimiter, Ses!check_read
<1> QED BY <1>1, <1>2, DelimiterRead

LEMMA LingerEnds == ASSUME SessionInv, Ses!timer_event PROVE SessionInv'
<1> DEFINE s == [session EXCEPT !.has_linger_timer = FALSE]
<1>1. /\ session.has_linger_timer /\ session' = Ses!proceed_with_term(s)
      /\ queue' = IF session'.in_pipe = "closing" THEN <<>> ELSE queue
      /\ UNCHANGED <<options, session_connecter, init, attaches, closed, told>>
  BY DEF Ses!timer_event, Ses!connectVars, Ses!socketVars
<1>2. session \in SessionRecord /\ ~session.aborted /\ PipesOnce(session) /\ WholeMessages(session, queue)
  BY DEF SessionInv, Ses!NeverAborts
<1>3. session.state = "pending" /\ options.linger = "finite"
  BY <1>1 DEF SessionInv, EndForced
<1>4. /\ s \in SessionRecord /\ s.state = "pending" /\ s.in_pipe = session.in_pipe /\ s.out_pipe = session.out_pipe
      /\ s.pipes_attached = session.pipes_attached /\ s.incomplete_in = session.incomplete_in
      /\ s.delimiter_processed = session.delimiter_processed /\ s.force_terminate = session.force_terminate
      /\ s.engine = session.engine /\ s.aborted = session.aborted
  BY <1>2, <1>3 DEF SessionRecord
<1> HIDE DEF s
<1>5. /\ session' \in SessionRecord /\ session'.state = "terminating" /\ session'.in_pipe = Ses!Closing(session.in_pipe)
      /\ session'.out_pipe = Ses!Closing(session.out_pipe) /\ session'.pipes_attached = session.pipes_attached
      /\ session'.incomplete_in = session.incomplete_in /\ session'.incomplete_out = FALSE
      /\ session'.delimiter_processed = session.delimiter_processed
      /\ session'.force_terminate = session.force_terminate /\ session'.has_linger_timer = FALSE
      /\ session'.engine = session.engine
  BY <1>1, <1>4, Proceeds
<1>6. ~session'.aborted
  BY <1>1, <1>2, <1>4, Proceeds
<1>7. session'.in_pipe # "open" /\ session'.out_pipe # "open" /\ (session'.in_pipe # "none" => session.in_pipe # "none")
  BY <1>2, <1>5 DEF Ses!Closing, SessionRecord, Ses!PipeEnd
<1>8. queue' = <<>>
  BY <1>1, <1>2, <1>5 DEF Ses!Closing, WholeMessages
<1>9. Ses!OneAttempt'
  BY <1>1, <1>5, OneWayStays
<1>10. (session'.delimiter_processed => session.pipes_attached) /\ (session'.force_terminate => options.kind = "transient")
  BY <1>2, <1>5 DEF PipesOnce, SessionInv, EndForced
<1>11. session_connecter' \in {"none", "unplugged", "waiting", "polling"} /\ told' \in BOOLEAN
  BY <1>1 DEF SessionInv, Ses!TypeOK
<1> QED BY <1>1, <1>3, <1>5, <1>6, <1>7, <1>8, <1>9, <1>10, <1>11, SessionEnds

\* The pipes end; neither the connection nor the state of the session does.
LEMMA PipeEnds ==
  ASSUME SessionInv, Ses!InTerminated \/ Ses!OutTerminated PROVE SessionInv'
<1>1. session \in SessionRecord /\ ~session.aborted /\ PipesOnce(session) /\ WholeMessages(session, queue)
  BY DEF SessionInv, Ses!NeverAborts
<1>2. UNCHANGED <<options, queue, session_connecter, init, attaches, closed, told>>
  BY DEF Ses!InTerminated, Ses!OutTerminated, Ses!connectVars, Ses!socketVars
<1>3. /\ session' \in SessionRecord /\ session'.state = session.state
      /\ session'.pipes_attached = session.pipes_attached /\ session'.incomplete_in = session.incomplete_in
      /\ session'.delimiter_processed = session.delimiter_processed
      /\ session'.force_terminate = session.force_terminate /\ session'.has_linger_timer = session.has_linger_timer
      /\ session'.engine = session.engine /\ session'.aborted = session.aborted
      /\ \/ session'.in_pipe = session.in_pipe
         \/ session.in_pipe = "closing" /\ session'.in_pipe = "none"
      /\ session'.out_pipe \in {session.out_pipe, "none"}
      /\ session'.incomplete_out => session.incomplete_out
  <2>1. CASE Ses!InTerminated
    BY <1>1, <2>1 DEF Ses!InTerminated, SessionRecord, Ses!PipeEnd
  <2>2. CASE Ses!OutTerminated
    BY <1>1, <2>2 DEF Ses!OutTerminated, SessionRecord, Ses!PipeEnd
  <2> QED BY <2>1, <2>2
<1>4. PipesOnce(session)'
  BY <1>1, <1>2, <1>3 DEF PipesOnce, Ended
<1>5. WholeMessages(session, queue)'
  BY <1>1, <1>2, <1>3 DEF WholeMessages
<1>6. Ses!CleanStart'
  BY <1>3 DEF SessionInv, Ses!CleanStart
<1>7. Ses!TypeOK' /\ Attempts'
  BY <1>2, <1>3 DEF SessionInv, Ses!TypeOK, Attempts, SessionRecord
<1>8. EndForced(session, attaches)'
  BY <1>2, <1>3 DEF SessionInv, EndForced
<1>9. Ses!NeverAborts' /\ Ses!NothingUnsent'
  BY <1>1, <1>2, <1>3 DEF SessionInv, Ses!NeverAborts, Ses!NothingUnsent
<1>10. Ses!OneAttempt'
  BY <1>2, <1>3 DEF SessionInv, Ses!OneAttempt
<1> QED BY <1>3, <1>4, <1>5, <1>6, <1>7, <1>8, <1>9, <1>10 DEF SessionInv

LEMMA SessionDestroyed == ASSUME SessionInv, Ses!Destroyed PROVE SessionInv'
<1>1. /\ session.state = "terminating" /\ session.in_pipe = "none" /\ session.out_pipe = "none"
      /\ session_connecter = "none" /\ init = {} /\ attaches = <<>>
      /\ session' = [session EXCEPT !.state = "gone", !.engine = FALSE]
      /\ UNCHANGED <<options, queue, session_connecter, init, attaches, closed, told>>
  BY DEF Ses!Destroyed, Ses!connectVars, Ses!socketVars
<1>2. session \in SessionRecord /\ ~session.aborted /\ PipesOnce(session) /\ WholeMessages(session, queue)
  BY DEF SessionInv, Ses!NeverAborts
<1>3. /\ session' \in SessionRecord /\ session'.state = "gone" /\ session'.in_pipe = session.in_pipe
      /\ session'.out_pipe = session.out_pipe /\ session'.pipes_attached = session.pipes_attached
      /\ session'.incomplete_in = session.incomplete_in /\ session'.incomplete_out = session.incomplete_out
      /\ session'.delimiter_processed = session.delimiter_processed
      /\ session'.force_terminate = session.force_terminate /\ session'.has_linger_timer = session.has_linger_timer
      /\ session'.engine = FALSE /\ session'.aborted = session.aborted
  BY <1>1, <1>2 DEF SessionRecord
<1>4. PipesOnce(session)' /\ WholeMessages(session, queue)'
  BY <1>1, <1>2, <1>3 DEF PipesOnce, WholeMessages, Ended
<1>5. Ses!TypeOK' /\ Attempts'
  BY <1>1, <1>3 DEF SessionInv, Ses!TypeOK, Attempts, SessionRecord
<1>6. EndForced(session, attaches)'
  BY <1>1, <1>3 DEF SessionInv, EndForced
<1>7. Ses!NeverAborts' /\ Ses!NothingUnsent' /\ Ses!CleanStart'
  BY <1>1, <1>2, <1>3 DEF SessionInv, Ses!NeverAborts, Ses!NothingUnsent, Ses!CleanStart, PipesOnce, Ended
<1>8. Ses!OneAttempt'
  <2>1. Len(attaches') = 0
    BY <1>1, AttachesTyped
  <2> QED BY <1>1, <1>3, <2>1 DEF Ses!OneAttempt
<1> QED BY <1>3, <1>4, <1>5, <1>6, <1>7, <1>8 DEF SessionInv

(***************************************************************************)
(* A connection comes and goes.                                            *)
(***************************************************************************)
LEMMA AttachProcessed == ASSUME SessionInv, Ses!process_attach PROVE SessionInv'
<1>1. /\ attaches # <<>> /\ attaches' = Tail(attaches) /\ UNCHANGED <<options, init, closed>>
      /\ queue' = IF closed /\ session.in_pipe = "none" /\ session'.in_pipe = "open" THEN <<"delimiter">> ELSE queue
  BY DEF Ses!process_attach
<1>2. session \in SessionRecord /\ ~session.aborted /\ PipesOnce(session) /\ WholeMessages(session, queue) /\ Attempts
  BY DEF SessionInv, Ses!NeverAborts
<1>3. /\ attaches \in Seq({"engine", "none"}) /\ Len(attaches) \in Nat \ {0} /\ Len(attaches) <= 2
      /\ Head(attaches) \in {"engine", "none"} /\ attaches' \in Seq({"engine", "none"}) /\ Len(attaches') = Len(attaches) - 1
      /\ (attaches' = <<>> <=> Len(attaches') = 0)
  <2>1. attaches \in Seq({"engine", "none"}) /\ Len(attaches) <= 2
    BY DEF SessionInv, Ses!TypeOK
  <2>2. Len(attaches) \in Nat \ {0}
    BY <1>1, <2>1, EmptySeq
  <2>3. Head(attaches) \in {"engine", "none"} /\ attaches' \in Seq({"engine", "none"}) /\ Len(attaches') = Len(attaches) - 1
    BY <1>1, <2>1, HeadTailProperties
  <2>4. attaches' = <<>> <=> Len(attaches') = 0
    BY <2>3, EmptySeq
  <2> QED BY <2>1, <2>2, <2>3, <2>4
<1>4. session.state # "gone"
  BY <1>1, <1>2 DEF Attempts
<1>5. options.kind # "connect" => attaches \in Seq({"engine"}) /\ Head(attaches) = "engine" /\ attaches' \in Seq({"engine"})
  <2> SUFFICES ASSUME options.kind # "connect"
               PROVE  attaches \in Seq({"engine"}) /\ Head(attaches) = "engine" /\ attaches' \in Seq({"engine"})
    OBVIOUS
  <2>1. attaches \in Seq({"engine"})
    BY <1>2 DEF Attempts
  <2> QED BY <1>1, <2>1, HeadTailProperties
<1>6. options.kind = "connect" =>
        Len(attaches) = 1 /\ ~session.engine /\ session_connecter = "none" /\ init = {}
  BY <1>2, <1>3 DEF SessionInv, Ses!OneAttempt, SessionRecord
<1>7. /\ session_connecter \in {"none", "unplugged", "waiting", "polling"} /\ init \in SUBSET {"plugged", "sent", "received"}
      /\ told \in BOOLEAN /\ closed \in BOOLEAN /\ options \in Ses!Options
      /\ queue \in Seq({"part", "last", "delimiter"}) /\ Len(queue) <= MaxQueue + 1
  BY DEF SessionInv, Ses!TypeOK
<1>8. CASE Head(attaches) = "none"
  <2>1. /\ session' = [Ses!Forced(session) EXCEPT !.aborted = Ses!Forced(session).aborted \/ session.engine]
        /\ Ses!Detached
    BY <1>8 DEF Ses!process_attach
  <2>2. options.kind = "connect"
    BY <1>5, <1>8
  <2>3. session_connecter' = "waiting" /\ told' = told
    BY <1>7, <2>1, <2>2 DEF Ses!Detached
  <2>4. session' = [session EXCEPT !.aborted = session.aborted \/ session.engine]
    BY <2>1, <2>2 DEF Ses!Forced
  <2>5. ~session.aborted /\ ~session.engine
    BY <1>2, <1>6, <2>2
  <2>6. session' = session
    BY <1>2, <2>4, <2>5 DEF SessionRecord
  <2>7. queue' = queue
    BY <1>1, <2>6
  <2>8. Ses!TypeOK' /\ Attempts'
    BY <1>1, <1>2, <1>3, <1>4, <2>2, <2>3, <2>6, <2>7 DEF SessionInv, Ses!TypeOK, Attempts
  <2>9. Ses!OneAttempt'
    BY <1>1, <1>2, <1>3, <1>6, <2>2, <2>3, <2>6 DEF Ses!OneAttempt
  <2>10. PipesOnce(session)' /\ WholeMessages(session, queue)'
    BY <1>1, <1>2, <2>6, <2>7 DEF PipesOnce, WholeMessages, Ended
  <2>11. EndForced(session, attaches)'
    BY <1>1, <2>2, <2>6 DEF SessionInv, EndForced
  <2>12. Ses!NeverAborts' /\ Ses!CleanStart' /\ Ses!NothingUnsent'
    BY <1>1, <2>6, <2>7 DEF SessionInv, Ses!NeverAborts, Ses!CleanStart, Ses!NothingUnsent
  <2> QED BY <1>2, <2>6, <2>8, <2>9, <2>10, <2>11, <2>12 DEF SessionInv
<1>9. CASE Head(attaches) = "engine"
  <2> DEFINE pipe == IF options.requires_out THEN "open" ELSE "none"
  <2>1. /\ UNCHANGED <<session_connecter, told>>
        /\ session' =
             (IF session.state = "terminating" \/ session.engine THEN session
              ELSE IF session.pipes_attached THEN [session EXCEPT !.engine = TRUE]
              ELSE [session EXCEPT !.engine = TRUE, !.pipes_attached = TRUE, !.out_pipe = "open", !.in_pipe = pipe])
    BY <1>9 DEF Ses!process_attach
  <2>2. pipe \in Ses!PipeEnd /\ (pipe = "open" <=> options.requires_out) /\ (pipe # "open" => pipe = "none")
    BY DEF Ses!PipeEnd
  <2> HIDE DEF pipe
  <2>3. CASE session.state = "terminating" \/ session.engine
    <3>1. session' = session /\ queue' = queue
      BY <1>1, <2>1, <2>3
    <3>2. Ses!TypeOK' /\ Attempts'
      <4>1. Ses!TypeOK'
        <5>1. session_connecter' = session_connecter /\ told' = told
          BY <2>1
        <5>2. Len(attaches') <= 2
          BY <1>3
        <5> QED BY <1>1, <1>3, <3>1, <5>1, <5>2 DEF SessionInv, Ses!TypeOK
      <4>2. Attempts'
        BY <1>1, <1>2, <1>4, <1>5, <2>1, <3>1 DEF Attempts
      <4> QED BY <4>1, <4>2
    <3>3. Ses!OneAttempt'
      BY <1>1, <1>3, <1>6, <2>1, <2>3, <3>1 DEF Ses!OneAttempt
    <3>4. PipesOnce(session)' /\ WholeMessages(session, queue)'
      BY <1>1, <1>2, <3>1 DEF PipesOnce, WholeMessages, Ended
    <3>5. EndForced(session, attaches)'
      BY <1>1, <2>3, <3>1 DEF SessionInv, EndForced
    <3>6. Ses!NeverAborts' /\ Ses!CleanStart' /\ Ses!NothingUnsent'
      BY <1>1, <3>1 DEF SessionInv, Ses!NeverAborts, Ses!CleanStart, Ses!NothingUnsent
    <3> QED BY <1>2, <3>1, <3>2, <3>3, <3>4, <3>5, <3>6 DEF SessionInv
  <2>4. CASE session.state # "terminating" /\ ~session.engine
    <3>1. session.state \in {"active", "pending"}
      BY <1>2, <1>4, <2>4 DEF SessionRecord
    <3>2. /\ session' \in SessionRecord /\ session'.state = session.state /\ session'.engine = TRUE
          /\ session'.pipes_attached = TRUE /\ session'.incomplete_in = session.incomplete_in
          /\ session'.incomplete_out = session.incomplete_out
          /\ session'.delimiter_processed = session.delimiter_processed
          /\ session'.force_terminate = session.force_terminate /\ session'.has_linger_timer = session.has_linger_timer
          /\ session'.aborted = session.aborted
          /\ \/ session.pipes_attached /\ session'.in_pipe = session.in_pipe
             \/ ~session.pipes_attached /\ session'.in_pipe = pipe
      <4>1. CASE session.pipes_attached
        BY <1>2, <2>1, <2>4, <4>1 DEF SessionRecord
      <4>2. CASE ~session.pipes_attached
        <5>1. session' = [session EXCEPT !.engine = TRUE, !.pipes_attached = TRUE, !.out_pipe = "open", !.in_pipe = pipe]
          BY <2>1, <2>4, <4>2
        <5>2. "open" \in Ses!PipeEnd
          BY DEF Ses!PipeEnd
        <5> QED BY <1>2, <2>2, <4>2, <5>1, <5>2 DEF SessionRecord
      <4> QED BY <4>1, <4>2
    <3>3. \/ queue' = queue /\ (session'.in_pipe = session.in_pipe \/ queue = <<>>)
          \/ queue' = <<"delimiter">> /\ closed /\ session'.in_pipe = "open" /\ session.in_pipe = "none"
      BY <1>1, <1>2, <3>2 DEF PipesOnce, WholeMessages
    <3>4. MaxQueue \in Nat /\ MaxQueue > 1 /\ Len(<<"delimiter">>) = 1 /\ <<"delimiter">> \in Seq({"part", "last", "delimiter"})
      BY SessionFacts
    <3>5. queue' \in Seq({"part", "last", "delimiter"}) /\ Len(queue') <= MaxQueue + 1
      <4>1. CASE queue' = queue
        BY <1>7, <4>1
      <4>2. CASE queue' = <<"delimiter">>
        <5>1. Len(queue') = 1 /\ 1 <= MaxQueue + 1
          BY <3>4, <4>2
        <5> QED BY <3>4, <4>2, <5>1
      <4> QED BY <3>3, <4>1, <4>2
    <3>6. Ses!TypeOK' /\ Attempts'
      <4>1. Ses!TypeOK'
        <5>1. session_connecter' = session_connecter /\ told' = told
          BY <2>1
        <5>2. Len(attaches') <= 2
          BY <1>3
        <5>3. session' \in SessionRecord
          BY <3>2
        <5> QED BY <1>1, <1>3, <1>7, <3>5, <5>1, <5>2, <5>3 DEF Ses!TypeOK, SessionRecord
      <4>2. Attempts'
        BY <1>1, <1>2, <1>5, <2>1, <3>1, <3>2 DEF Attempts
      <4> QED BY <4>1, <4>2
    <3>7. Ses!OneAttempt'
      BY <1>1, <1>3, <1>6, <2>1, <3>1, <3>2 DEF Ses!OneAttempt
    <3>8. PipesOnce(session)'
      BY <1>1, <1>2, <2>2, <3>1, <3>2 DEF PipesOnce, Ended
    <3>9. WholeMessages(session, queue)'
      <4>1. CASE queue' = queue /\ session'.in_pipe = session.in_pipe
        BY <1>1, <1>2, <3>2, <4>1 DEF WholeMessages
      <4>2. CASE queue' = queue /\ queue = <<>> /\ ~session.pipes_attached
        <5>1. Len(queue') = 0 /\ ~session'.incomplete_in
          BY <1>2, <3>2, <4>2 DEF PipesOnce
        <5> QED BY <3>4, <4>2, <5>1 DEF WholeMessages
      <4>3. CASE queue' = <<"delimiter">> /\ closed /\ session'.in_pipe = "open" /\ session.in_pipe = "none"
        <5>1. Len(queue') = 1 /\ queue'[1] = "delimiter"
          BY <4>3
        <5>2. ~session'.incomplete_in
          BY <1>2, <2>2, <3>2, <4>3 DEF PipesOnce
        <5> QED BY <1>1, <4>3, <5>1, <5>2 DEF WholeMessages
      <4> QED BY <3>2, <3>3, <4>1, <4>2, <4>3
    <3>10. EndForced(session, attaches)'
      BY <1>1, <3>1, <3>2 DEF SessionInv, EndForced
    <3>11. Ses!NeverAborts' /\ Ses!CleanStart' /\ Ses!NothingUnsent'
      BY <1>2, <3>1, <3>2 DEF Ses!NeverAborts, Ses!CleanStart, Ses!NothingUnsent
    <3> QED BY <3>2, <3>6, <3>7, <3>8, <3>9, <3>10, <3>11 DEF SessionInv
  <2> QED BY <2>3, <2>4
<1> QED BY <1>3, <1>8, <1>9

\* The rest of a message that was read in part is dropped with the connection.
LEMMA RestDropped ==
  ASSUME SessionInv
  PROVE  /\ Ses!Cleaned(session, queue) \in Seq({"part", "last", "delimiter"})
         /\ Len(Ses!Cleaned(session, queue)) <= Len(queue)
         /\ Ses!Cleaned(session, queue) # <<>> => session.in_pipe = "open"
         /\ \A k \in 1..Len(Ses!Cleaned(session, queue)) :
              Ses!Cleaned(session, queue)[k] = "delimiter" => closed /\ k = Len(Ses!Cleaned(session, queue))
         /\ \A k \in 1..Len(Ses!Cleaned(session, queue)) : Ses!Cleaned(session, queue)[k] = "part" =>
              k < Len(Ses!Cleaned(session, queue)) /\ Ses!Cleaned(session, queue)[k + 1] = "last"
<1>1. WholeMessages(session, queue) /\ queue \in Seq({"part", "last", "delimiter"}) /\ Len(queue) \in Nat
  BY DEF SessionInv, Ses!TypeOK
<1>2. CASE session.incomplete_in /\ session.in_pipe = "open"
  <2>1. queue # <<>> /\ queue[1] = "last"
    BY <1>1, <1>2 DEF WholeMessages
  <2>2. Len(queue) >= 1
    BY <2>1, QueueTyped
  <2> DEFINE First(k) == queue[k] = "last" /\ \A j \in 1..k - 1 : queue[j] # "last"
  <2>3. First(1) /\ 1 \in 1..Len(queue)
    BY <2>1, <2>2
  <2>4. \A k \in 1..Len(queue) : First(k) => k = 1
    <3> SUFFICES ASSUME NEW k \in 1..Len(queue), First(k), k # 1 PROVE FALSE
      OBVIOUS
    <3>1. 1 \in 1..k - 1
      OBVIOUS
    <3> QED BY <2>1, <3>1
  <2>5. (CHOOSE k \in 1..Len(queue) : First(k)) = 1
    <3> HIDE DEF First
    <3> QED BY <2>3, <2>4
  <2>6. Ses!Rest(queue) = SubSeq(queue, 2, Len(queue))
    <3> DEFINE place == CHOOSE k \in 1..Len(queue) : First(k)
    <3>1. Ses!Rest(queue) = SubSeq(queue, place + 1, Len(queue))
      BY Zenon DEF Ses!Rest
    <3> HIDE DEF place
    <3>2. place = 1
      BY <2>5 DEF place
    <3> QED BY <3>1, <3>2
  <2>7. Ses!Cleaned(session, queue) = Tail(queue)
    BY <1>1, <1>2, <2>1, <2>6, TailIsSubSeq DEF Ses!Cleaned
  <2>8. /\ Tail(queue) \in Seq({"part", "last", "delimiter"}) /\ Len(Tail(queue)) <= Len(queue)
    BY <2>1, QueueTyped
  <2> QED BY <1>2, <2>1, <2>7, <2>8, TailWhole
<1>3. CASE ~(session.incomplete_in /\ session.in_pipe = "open")
  <2>1. Ses!Cleaned(session, queue) = queue
    BY <1>3 DEF Ses!Cleaned
  <2> QED BY <1>1, <2>1 DEF WholeMessages
<1> QED BY <1>2, <1>3

LEMMA EngineDetached == ASSUME SessionInv, Ses!detach PROVE SessionInv'
<1> DEFINE cleaned == Ses!clean_pipes(session)
           rest == Ses!Cleaned(session, queue)
           forced == Ses!Forced([cleaned EXCEPT !.engine = FALSE])
           after == Ses!check_read(forced, rest)
<1>1. /\ session.engine
      /\ session' = after /\ queue' = (IF after.in_pipe = "closing" THEN <<>> ELSE rest)
      /\ Ses!Detached /\ UNCHANGED <<options, init, attaches, closed>>
  BY DEF Ses!detach
<1>2. session \in SessionRecord /\ ~session.aborted /\ PipesOnce(session) /\ WholeMessages(session, queue) /\ Attempts
  BY DEF SessionInv, Ses!NeverAborts
<1>3. /\ cleaned \in SessionRecord /\ cleaned.state = session.state /\ cleaned.in_pipe = session.in_pipe
      /\ cleaned.out_pipe = session.out_pipe /\ cleaned.pipes_attached = session.pipes_attached
      /\ cleaned.incomplete_in = (session.incomplete_in /\ session.in_pipe # "open") /\ cleaned.incomplete_out = FALSE
      /\ cleaned.delimiter_processed = session.delimiter_processed
      /\ cleaned.force_terminate = session.force_terminate /\ cleaned.has_linger_timer = session.has_linger_timer
  <2> DEFINE in == session.incomplete_in /\ session.in_pipe # "open"
             st == session.incomplete_in /\ session.in_pipe = "closing"
  <2>1. cleaned = [session EXCEPT !.incomplete_out = FALSE, !.incomplete_in = in, !.stranded = st]
    BY DEF Ses!clean_pipes
  <2>2. in \in BOOLEAN /\ st \in BOOLEAN
    BY <1>2
  <2> HIDE DEF in, st, cleaned
  <2>3. /\ cleaned \in SessionRecord /\ cleaned.state = session.state /\ cleaned.in_pipe = session.in_pipe
        /\ cleaned.out_pipe = session.out_pipe /\ cleaned.pipes_attached = session.pipes_attached
        /\ cleaned.incomplete_in = in /\ cleaned.incomplete_out = FALSE
        /\ cleaned.delimiter_processed = session.delimiter_processed
        /\ cleaned.force_terminate = session.force_terminate /\ cleaned.has_linger_timer = session.has_linger_timer
    BY <1>2, <2>1, <2>2 DEF SessionRecord
  <2> QED BY <2>3 DEF in
<1>4. ~cleaned.aborted
  <2>1. cleaned.aborted = session.aborted
    BY <1>2 DEF Ses!clean_pipes, SessionRecord
  <2> QED BY <1>2, <2>1
<1> HIDE DEF cleaned
<1>5. /\ forced \in SessionRecord /\ forced.state = session.state /\ forced.in_pipe = session.in_pipe
      /\ forced.out_pipe = session.out_pipe /\ forced.pipes_attached = session.pipes_attached
      /\ forced.incomplete_in = (session.incomplete_in /\ session.in_pipe # "open") /\ forced.incomplete_out = FALSE
      /\ forced.delimiter_processed = session.delimiter_processed
      /\ forced.has_linger_timer = session.has_linger_timer /\ forced.engine = FALSE /\ ~forced.aborted
  BY <1>3, <1>4 DEF Ses!Forced, SessionRecord
<1>6. forced.force_terminate <=> session.force_terminate \/ options.kind = "transient"
  BY <1>3 DEF Ses!Forced, SessionRecord
<1>7. /\ rest \in Seq({"part", "last", "delimiter"}) /\ Len(rest) <= Len(queue) /\ (rest # <<>> => session.in_pipe = "open")
      /\ \A k \in 1..Len(rest) : rest[k] = "delimiter" => closed /\ k = Len(rest)
      /\ \A k \in 1..Len(rest) : rest[k] = "part" => k < Len(rest) /\ rest[k + 1] = "last"
  BY RestDropped
<1> HIDE DEF forced, rest
<1>8. /\ session_connecter \in {"none", "unplugged", "waiting", "polling"} /\ init \in SUBSET {"plugged", "sent", "received"}
      /\ told \in BOOLEAN /\ closed \in BOOLEAN /\ options \in Ses!Options
      /\ attaches \in Seq({"engine", "none"}) /\ Len(attaches) <= 2 /\ Len(attaches) \in Nat
      /\ Len(queue) \in Nat /\ Len(queue) <= MaxQueue + 1 /\ MaxQueue \in Nat
  BY SessionFacts, AttachesTyped DEF SessionInv, Ses!TypeOK
<1>9. session.state # "gone"
  BY <1>1, <1>2 DEF Attempts
<1>10. /\ session_connecter' = (IF options.kind = "connect" THEN "waiting" ELSE session_connecter)
       /\ told' = (told \/ options.kind = "transient")
  BY <1>1 DEF Ses!Detached
<1>11. session_connecter' \in {"none", "unplugged", "waiting", "polling"} /\ told' \in BOOLEAN
  BY <1>8, <1>10
<1>12. options.kind = "connect" => session_connecter = "none" /\ init = {} /\ Len(attaches) = 0
  BY <1>1, <1>2, <1>8 DEF SessionInv, Ses!OneAttempt, SessionRecord
<1>13. session'.engine = FALSE => Ses!OneAttempt'
  BY <1>1, <1>10, <1>12 DEF Ses!OneAttempt
<1>14. CASE Ses!OnlyDelimiter(forced, rest)
  <2>1. session' = Ses!delimited(forced)
    BY <1>1, <1>14 DEF Ses!check_read
  <2>2. session.in_pipe = "open"
    BY <1>5, <1>14 DEF Ses!OnlyDelimiter
  <2>3. ~forced.delimiter_processed /\ session.pipes_attached /\ session.state \in {"active", "pending"}
    BY <1>2, <1>5, <2>2 DEF PipesOnce, Ended, SessionRecord
  <2>4. /\ session' \in SessionRecord /\ session'.in_pipe = "closing" /\ session'.pipes_attached = session.pipes_attached
        /\ session'.delimiter_processed = TRUE
        /\ session'.force_terminate = forced.force_terminate /\ session'.engine = FALSE /\ session'.aborted = forced.aborted
        /\ session'.incomplete_in = forced.incomplete_in
        /\ session'.state = (IF session.state = "pending" THEN "terminating" ELSE session.state)
    BY <1>5, <2>1, <2>3, ReadsDelimiter
  <2>5. queue' = <<>>
    BY <1>1, <2>4
  <2>6. ~session'.incomplete_in
    BY <1>5, <2>2, <2>4
  <2>7. Ses!OneAttempt'
    BY <1>13, <2>4
  <2>8. session'.force_terminate => options.kind = "transient"
    BY <1>6, <2>4 DEF SessionInv, EndForced
  <2>9. CASE session.state = "pending"
    <3>1. /\ session'.out_pipe = Ses!Closing(session.out_pipe) /\ session'.incomplete_out = FALSE
          /\ session'.has_linger_timer = FALSE
      BY <1>5, <2>1, <2>3, <2>9, ReadsDelimiter
    <3>2. session'.out_pipe # "open" /\ session'.state = "terminating"
      BY <2>4, <2>9, <3>1 DEF Ses!Closing
    <3>3. ~session'.aborted
      BY <1>5, <2>4
    <3> QED BY <1>1, <1>10, <1>11, <2>2, <2>3, <2>4, <2>5, <2>6, <2>7, <2>8, <2>9, <3>1, <3>2, <3>3, SessionEnds
  <2>10. CASE session.state = "active"
    <3>1. /\ session'.state = "active" /\ session'.incomplete_out = FALSE
          /\ session'.has_linger_timer = session.has_linger_timer
      BY <1>5, <2>1, <2>3, <2>10, ReadsDelimiter
    <3>2. Len(queue') = 0 /\ queue' \in Seq({"part", "last", "delimiter"})
      BY <2>5, EmptySeq
    <3>3. Ses!TypeOK'
      BY <1>1, <1>8, <1>11, <2>4, <3>2 DEF Ses!TypeOK, SessionRecord
    <3>4. Attempts'
      BY <1>1, <1>2, <1>10, <3>1 DEF Attempts
    <3>5. PipesOnce(session)' /\ WholeMessages(session, queue)'
      BY <1>1, <1>2, <1>8, <2>2, <2>3, <2>4, <2>5, <2>6, <3>1, <3>2 DEF PipesOnce, WholeMessages, Ended
    <3>6. EndForced(session, attaches)'
      BY <1>1, <1>6, <2>4, <2>8, <2>10, <3>1 DEF SessionInv, EndForced
    <3>7. Ses!NeverAborts' /\ Ses!CleanStart' /\ Ses!NothingUnsent'
      BY <1>5, <2>4, <3>1 DEF Ses!NeverAborts, Ses!CleanStart, Ses!NothingUnsent
    <3> QED BY <2>4, <2>7, <3>3, <3>4, <3>5, <3>6, <3>7 DEF SessionInv
  <2> QED BY <2>3, <2>9, <2>10
<1>15. CASE ~Ses!OnlyDelimiter(forced, rest)
  <2>1. session' = forced /\ queue' = rest
    <3>1. session' = forced
      BY <1>1, <1>15 DEF Ses!check_read
    <3>2. CASE forced.in_pipe = "closing"
      <4>1. rest = <<>>
        BY <1>5, <1>7, <3>2
      <4> QED BY <1>1, <3>1, <4>1
    <3>3. CASE forced.in_pipe # "closing"
      BY <1>1, <3>1, <3>3
    <3> QED BY <3>1, <3>2, <3>3
  <2>2. Ses!OneAttempt'
    BY <1>5, <1>13, <2>1
  <2>3. Len(queue') <= MaxQueue + 1 /\ Len(queue') \in Nat
    BY <1>7, <1>8, <2>1
  <2>4. Ses!TypeOK'
    BY <1>1, <1>5, <1>7, <1>8, <1>11, <2>1, <2>3 DEF Ses!TypeOK, SessionRecord
  <2>5. Attempts'
    BY <1>1, <1>2, <1>5, <1>9, <1>10, <2>1 DEF Attempts
  <2>6. PipesOnce(session)'
    BY <1>1, <1>2, <1>5, <2>1 DEF PipesOnce, Ended
  <2>7. WholeMessages(session, queue)'
    <3>1. session'.in_pipe = session.in_pipe /\ (session'.in_pipe = "open" => ~session'.incomplete_in) /\ closed' = closed
      BY <1>1, <1>5, <2>1
    <3>2. ~closed' => Len(queue') <= MaxQueue
      <4>1. ~closed => Len(queue) <= MaxQueue
        BY <1>2 DEF WholeMessages
      <4>2. Len(rest) \in Nat /\ Len(rest) <= Len(queue)
        BY <1>7
      <4> QED BY <1>1, <1>8, <2>1, <4>1, <4>2
    <3>3. /\ \A k \in 1..Len(queue') : queue'[k] = "delimiter" => closed' /\ k = Len(queue')
          /\ \A k \in 1..Len(queue') : queue'[k] = "part" => k < Len(queue') /\ queue'[k + 1] = "last"
      BY <1>1, <1>7, <2>1
    <3>4. queue' # <<>> => session'.in_pipe = "open"
      BY <1>7, <2>1, <3>1
    <3> QED BY <3>1, <3>2, <3>3, <3>4 DEF WholeMessages
  <2>8. EndForced(session, attaches)'
    BY <1>1, <1>5, <1>6, <2>1 DEF SessionInv, EndForced
  <2>9. Ses!NeverAborts' /\ Ses!CleanStart'
    BY <1>5, <2>1 DEF Ses!NeverAborts, Ses!CleanStart
  <2>11. Ses!NothingUnsent'
    <3>1. session.state \in {"terminating", "gone"} => queue' = <<>>
      BY <1>2, <1>7, <2>1 DEF PipesOnce, Ended
    <3> QED BY <1>1, <1>5, <2>1, <3>1 DEF SessionInv, Ses!NothingUnsent
  <2> QED BY <1>5, <2>1, <2>2, <2>4, <2>5, <2>6, <2>7, <2>8, <2>9, <2>11 DEF SessionInv
<1> QED BY <1>14, <1>15

(***************************************************************************)
(* The socket.                                                             *)
(***************************************************************************)
LEMMA PartsSent ==
  ASSUME SessionInv, NEW parts \in {<<"last">>, <<"part", "last">>}, Ses!SocketSends(parts)
  PROVE  SessionInv'
<1>1. /\ ~closed /\ session.in_pipe = "open" /\ Len(queue) + Len(parts) <= MaxQueue /\ queue' = queue \o parts
      /\ UNCHANGED <<options, session, session_connecter, init, attaches, closed, told>>
  BY DEF Ses!SocketSends, Ses!connectVars, Ses!socketVars
<1>2. WholeMessages(session, queue) /\ queue \in Seq({"part", "last", "delimiter"}) /\ Len(queue) \in Nat /\ MaxQueue \in Nat
  BY SessionFacts DEF SessionInv, Ses!TypeOK
<1>3. /\ parts \in Seq({"part", "last", "delimiter"}) /\ Len(parts) \in {1, 2} /\ parts[Len(parts)] = "last"
      /\ \A k \in 1..Len(parts) : parts[k] # "delimiter"
      /\ \A k \in 1..Len(parts) : parts[k] = "part" => k < Len(parts) /\ parts[k + 1] = "last"
  <2>1. CASE parts = <<"last">>
    BY <2>1
  <2>2. CASE parts = <<"part", "last">>
    BY <2>2
  <2> QED BY <2>1, <2>2
<1>4. queue' \in Seq({"part", "last", "delimiter"}) /\ Len(queue') = Len(queue) + Len(parts)
  BY <1>1, <1>2, <1>3
<1>5. /\ \A k \in 1..Len(queue) : queue'[k] = queue[k]
      /\ \A k \in Len(queue) + 1..Len(queue) + Len(parts) : queue'[k] = parts[k - Len(queue)]
  BY <1>1, <1>2, <1>3
<1>6. ASSUME NEW k \in 1..Len(queue')
      PROVE  \/ k \in 1..Len(queue) /\ queue'[k] = queue[k]
             \/ k - Len(queue) \in 1..Len(parts) /\ queue'[k] = parts[k - Len(queue)]
  <2>1. CASE k <= Len(queue)
    BY <1>2, <1>5, <2>1
  <2>2. CASE k > Len(queue)
    BY <1>2, <1>3, <1>4, <1>5, <2>2
  <2> QED BY <1>2, <1>4, <2>1, <2>2
<1>7. ASSUME NEW k \in 1..Len(queue'), queue'[k] = "delimiter" PROVE FALSE
  BY <1>1, <1>2, <1>3, <1>6, <1>7 DEF WholeMessages
<1>8. ASSUME NEW k \in 1..Len(queue'), queue'[k] = "part" PROVE k < Len(queue') /\ queue'[k + 1] = "last"
  <2>1. CASE k \in 1..Len(queue) /\ queue'[k] = queue[k]
    <3>1. k < Len(queue) /\ queue[k + 1] = "last"
      BY <1>2, <1>8, <2>1 DEF WholeMessages
    <3>2. k + 1 \in 1..Len(queue)
      BY <1>2, <3>1
    <3> QED BY <1>2, <1>3, <1>4, <1>5, <3>1, <3>2
  <2>2. CASE k - Len(queue) \in 1..Len(parts) /\ queue'[k] = parts[k - Len(queue)]
    <3>1. k - Len(queue) < Len(parts) /\ parts[(k - Len(queue)) + 1] = "last"
      BY <1>3, <1>8, <2>2
    <3>2. k + 1 \in Len(queue) + 1..Len(queue) + Len(parts) /\ (k + 1) - Len(queue) = (k - Len(queue)) + 1
      BY <1>2, <1>3, <1>4, <3>1, <2>2
    <3>3. queue'[k + 1] = parts[(k + 1) - Len(queue)]
      BY <1>5, <3>2
    <3> QED BY <1>2, <1>3, <1>4, <3>1, <3>2, <3>3
  <2> QED BY <1>6, <2>1, <2>2
<1>9. session.incomplete_in => queue' # <<>> /\ queue'[1] = "last"
  <2> SUFFICES ASSUME session.incomplete_in PROVE queue' # <<>> /\ queue'[1] = "last"
    OBVIOUS
  <2>1. queue # <<>> /\ queue[1] = "last"
    BY <1>1, <1>2 DEF WholeMessages
  <2>2. 1 \in 1..Len(queue)
    BY <1>2, <2>1, EmptySeq
  <2>3. Len(queue') # 0
    BY <1>2, <1>3, <1>4, <2>2
  <2> QED BY <1>4, <1>5, <2>1, <2>2, <2>3
<1>10. WholeMessages(session, queue)'
  BY <1>1, <1>2, <1>3, <1>4, <1>7, <1>8, <1>9 DEF WholeMessages
<1>11. Ses!TypeOK'
  <2>1. Len(queue') <= MaxQueue + 1
    BY <1>1, <1>2, <1>3, <1>4
  <2> QED BY <1>1, <1>4, <2>1 DEF SessionInv, Ses!TypeOK
<1>12. Attempts' /\ PipesOnce(session)' /\ EndForced(session, attaches)'
  BY <1>1 DEF SessionInv, Attempts, PipesOnce, EndForced, Ended
<1>13. Ses!OneAttempt'
  BY <1>1 DEF SessionInv, Ses!OneAttempt
<1>14. session.state \notin {"terminating", "gone"}
  BY <1>1 DEF SessionInv, PipesOnce, Ended
<1>15. Ses!NeverAborts' /\ Ses!CleanStart' /\ Ses!NothingUnsent'
  BY <1>1, <1>14 DEF SessionInv, Ses!NeverAborts, Ses!CleanStart, Ses!NothingUnsent
<1>16. session' \in SessionRecord
  BY <1>1 DEF SessionInv
<1> QED BY <1>10, <1>11, <1>12, <1>13, <1>15, <1>16 DEF SessionInv

LEMMA SocketClosed == ASSUME SessionInv, Ses!SocketCloses PROVE SessionInv'
<1>1. /\ ~closed /\ closed' = TRUE /\ told' = TRUE
      /\ queue' = (IF session.in_pipe = "open" THEN Append(queue, "delimiter") ELSE queue)
      /\ UNCHANGED <<options, session, session_connecter, init, attaches>>
  BY DEF Ses!SocketCloses, Ses!connectVars
<1>2. WholeMessages(session, queue) /\ queue \in Seq({"part", "last", "delimiter"}) /\ Len(queue) \in Nat /\ MaxQueue \in Nat
  BY SessionFacts DEF SessionInv, Ses!TypeOK
<1>3. /\ queue' \in Seq({"part", "last", "delimiter"}) /\ Len(queue') <= MaxQueue + 1
      /\ (queue' # <<>> => session.in_pipe = "open") /\ (session.in_pipe # "open" => queue' = queue)
  <2>1. CASE session.in_pipe = "open"
    <3>1. queue' = Append(queue, "delimiter")
      BY <1>1, <2>1
    <3>2. queue' \in Seq({"part", "last", "delimiter"}) /\ Len(queue') = Len(queue) + 1 /\ Len(queue) <= MaxQueue
      BY <1>1, <1>2, <3>1 DEF WholeMessages
    <3> QED BY <1>2, <2>1, <3>2
  <2>2. CASE session.in_pipe # "open"
    BY <1>1, <1>2, <2>2 DEF SessionInv, Ses!TypeOK, WholeMessages
  <2> QED BY <2>1, <2>2
<1>4. WholeMessages(session, queue)'
  <2>1. CASE session.in_pipe = "open"
    <3>1. queue' = Append(queue, "delimiter")
      BY <1>1, <2>1
    <3>2. /\ Len(queue') = Len(queue) + 1 /\ queue'[Len(queue) + 1] = "delimiter"
          /\ \A k \in 1..Len(queue) : queue'[k] = queue[k]
      BY <1>2, <3>1
    <3>3. \A k \in 1..Len(queue') : k \in 1..Len(queue) \/ k = Len(queue) + 1
      BY <1>2, <3>2
    <3>4. \A k \in 1..Len(queue') : queue'[k] = "delimiter" => k = Len(queue')
      BY <1>1, <1>2, <3>2, <3>3 DEF WholeMessages
    <3>5. ASSUME NEW k \in 1..Len(queue'), queue'[k] = "part" PROVE k < Len(queue') /\ queue'[k + 1] = "last"
      <4>1. k \in 1..Len(queue)
        BY <3>2, <3>3, <3>5
      <4>2. k < Len(queue) /\ queue[k + 1] = "last"
        BY <1>2, <3>2, <3>5, <4>1 DEF WholeMessages
      <4>3. k + 1 \in 1..Len(queue)
        BY <1>2, <4>2
      <4> QED BY <1>2, <3>2, <4>2, <4>3
    <3>6. session.incomplete_in => queue' # <<>> /\ queue'[1] = "last"
      <4> SUFFICES ASSUME session.incomplete_in PROVE queue' # <<>> /\ queue'[1] = "last"
        OBVIOUS
      <4>1. queue # <<>> /\ queue[1] = "last"
        BY <1>2, <2>1 DEF WholeMessages
      <4>2. 1 \in 1..Len(queue)
        BY <1>2, <4>1, EmptySeq
      <4>3. Len(queue') # 0
        BY <1>2, <3>2
      <4> QED BY <1>3, <3>2, <4>1, <4>2, <4>3
    <3> QED BY <1>1, <1>3, <2>1, <3>4, <3>5, <3>6 DEF WholeMessages
  <2>2. CASE session.in_pipe # "open"
    BY <1>1, <1>2, <2>2 DEF WholeMessages
  <2> QED BY <2>1, <2>2
<1>5. Ses!TypeOK'
  BY <1>1, <1>3 DEF SessionInv, Ses!TypeOK
<1>6. Attempts' /\ PipesOnce(session)' /\ EndForced(session, attaches)'
  BY <1>1 DEF SessionInv, Attempts, PipesOnce, EndForced, Ended
<1>7. Ses!OneAttempt'
  BY <1>1 DEF SessionInv, Ses!OneAttempt
<1>8. Ses!NothingUnsent'
  BY <1>1, <1>3 DEF SessionInv, Ses!NothingUnsent, PipesOnce, Ended
<1>9. Ses!NeverAborts' /\ Ses!CleanStart'
  BY <1>1 DEF SessionInv, Ses!NeverAborts, Ses!CleanStart
<1>10. session' \in SessionRecord
  BY <1>1 DEF SessionInv
<1> QED BY <1>4, <1>5, <1>6, <1>7, <1>8, <1>9, <1>10 DEF SessionInv

LEMMA SessionKept == SessionInv /\ [Ses!Next]_(Ses!vars) => SessionInv'
<1> SUFFICES ASSUME SessionInv, [Ses!Next]_(Ses!vars) PROVE SessionInv'
  OBVIOUS
<1>1. CASE Ses!OfConnection
  BY <1>1, ConnectionSteps
<1>2. CASE Ses!OfSession
  <2>1. ASSUME NEW again \in BOOLEAN, Ses!write(again) PROVE SessionInv'
    BY <2>1, PartWritten
  <2> QED BY <1>2, <2>1, AttachProcessed, EngineDetached, PartRead, DelimiterFound, TermProcessed, LingerEnds, PipeEnds,
             SessionDestroyed DEF Ses!OfSession
<1>3. CASE Ses!SocketCloses
  BY <1>3, SocketClosed
<1>4. ASSUME NEW parts \in {<<"last">>, <<"part", "last">>}, Ses!SocketSends(parts) PROVE SessionInv'
  BY <1>4, PartsSent
<1>5. CASE UNCHANGED Ses!vars
  <2>1. UNCHANGED <<options, session, queue, session_connecter, init, attaches, closed, told>>
    BY <1>5 DEF Ses!vars
  <2>2. Ses!TypeOK' /\ Attempts' /\ Ses!OneAttempt'
    BY <2>1 DEF SessionInv, Ses!TypeOK, Attempts, Ses!OneAttempt
  <2>3. (attaches' = <<>> => attaches = <<>>)
    BY <2>1
  <2> QED BY <2>1, <2>2, <2>3, ConnectionStep DEF SessionInv, Ses!TypeOK
<1> QED BY <1>1, <1>2, <1>3, <1>4, <1>5 DEF Ses!Next

LEMMA SessionBegins == Ses!Init => SessionInv
<1> SUFFICES ASSUME Ses!Init PROVE SessionInv
  OBVIOUS
<1> DEFINE early == options.kind = "connect" /\ options.immediate_connect
           in == IF early /\ options.requires_out THEN "open" ELSE "none"
           out == IF early THEN "open" ELSE "none"
<1>1. /\ options \in Ses!Options
      /\ session = [state |-> "active", in_pipe |-> in, out_pipe |-> out, pipes_attached |-> early,
                    incomplete_in |-> FALSE, incomplete_out |-> FALSE, delimiter_processed |-> FALSE,
                    force_terminate |-> FALSE, has_linger_timer |-> FALSE, engine |-> FALSE, stranded |-> FALSE, aborted |-> FALSE]
      /\ queue = <<>> /\ init = {} /\ closed = FALSE /\ told = FALSE
      /\ session_connecter = (IF options.kind = "connect" THEN "unplugged" ELSE "none")
      /\ attaches = (IF options.kind = "connect" THEN <<>> ELSE <<"engine">>)
  BY DEF Ses!Init
<1>2. in \in Ses!PipeEnd /\ out \in Ses!PipeEnd /\ early \in BOOLEAN
  BY <1>1 DEF Ses!PipeEnd, Ses!Options
<1>3. (in # "none" => early) /\ (~options.requires_out => in = "none") /\ (early /\ options.requires_out => in = "open")
  OBVIOUS
<1> HIDE DEF in, out, early
<1>4. session \in SessionRecord
  BY <1>1, <1>2 DEF SessionRecord
<1>5. Len(queue) = 0 /\ queue \in Seq({"part", "last", "delimiter"}) /\ MaxQueue \in Nat
  BY <1>1, SessionFacts
<1>6. /\ attaches \in Seq({"engine", "none"}) /\ Len(attaches) = (IF options.kind = "connect" THEN 0 ELSE 1)
      /\ (options.kind # "connect" => attaches \in Seq({"engine"}) /\ attaches # <<>>)
  <2>1. CASE options.kind = "connect"
    BY <1>1, <2>1
  <2>2. CASE options.kind # "connect"
    <3>1. attaches = <<"engine">>
      BY <1>1, <2>2
    <3> QED BY <2>2, <3>1
  <2> QED BY <2>1, <2>2
<1>7. Ses!TypeOK
  <2>1. Len(queue) <= MaxQueue + 1 /\ Len(attaches) <= 2
    BY <1>5, <1>6
  <2>2. session_connecter \in {"none", "unplugged", "waiting", "polling"} /\ init \in SUBSET {"plugged", "sent", "received"}
    BY <1>1
  <2>3. options \in Ses!Options /\ {closed, told} \subseteq BOOLEAN
    BY <1>1
  <2>4. /\ session.state \in {"active", "pending", "terminating", "gone"}
        /\ {session.in_pipe, session.out_pipe} \subseteq Ses!PipeEnd
        /\ {session.pipes_attached, session.incomplete_in, session.incomplete_out, session.delimiter_processed,
            session.force_terminate, session.has_linger_timer, session.engine, session.stranded, session.aborted} \subseteq BOOLEAN
    BY <1>4 DEF SessionRecord
  <2> QED BY <2>1, <2>2, <2>3, <2>4, <1>5, <1>6 DEF Ses!TypeOK
<1>8. Attempts /\ PipesOnce(session)
  BY <1>1, <1>3, <1>6 DEF Attempts, PipesOnce, Ended
<1>9. WholeMessages(session, queue) /\ EndForced(session, attaches)
  BY <1>1, <1>5, <1>6 DEF WholeMessages, EndForced
<1>10. Ses!OneAttempt
  BY <1>1, <1>6 DEF Ses!OneAttempt
<1>11. Ses!NeverAborts /\ Ses!CleanStart /\ Ses!NothingUnsent
  BY <1>1 DEF Ses!NeverAborts, Ses!CleanStart, Ses!NothingUnsent
<1> QED BY <1>4, <1>7, <1>8, <1>9, <1>10, <1>11 DEF SessionInv

(***************************************************************************)
(* What is left unread.                                                    *)
(***************************************************************************)
\* A delimiter is read between two messages.  A transient session has one connection,
\* and is told to end when it has lost it.  Where a session that lingers without limit
\* terminates under its connection, the delimiter has been read.
Unread ==
  /\ session.incomplete_in => ~session.delimiter_processed
  /\ options.kind = "transient" =>
       /\ Len(attaches) + (IF session.engine THEN 1 ELSE 0) <= 1
       /\ session.engine \/ attaches # <<>> => ~session.force_terminate
  /\ options.linger = "infinite" /\ session.engine /\ session.state = "terminating" /\ session.pipes_attached
       /\ options.requires_out => session.delimiter_processed

\* As long as no rest is stranded, nothing but a failing connection strands one.
LEMMA UnreadStays ==
  ASSUME Unread, ~session.stranded, UNCHANGED options,
         session'.incomplete_in = session.incomplete_in, session'.delimiter_processed = session.delimiter_processed,
         session'.engine = session.engine, session'.state = session.state, session'.pipes_attached = session.pipes_attached,
         session'.force_terminate = session.force_terminate, session'.stranded = session.stranded,
         options.kind = "transient" => attaches' = attaches
  PROVE  Unread' /\ Ses!StrandedByLinger'
BY DEF Unread, Ses!StrandedByLinger

LEMMA DelimiterAlone ==
  ASSUME SessionInv, queue # <<>>, Head(queue) = "delimiter"
  PROVE  ~session.incomplete_in /\ ~session.delimiter_processed /\ session.state \in {"active", "pending"}
<1>1. session.in_pipe = "open" /\ queue[1] = "delimiter"
  BY QueueTyped
<1> QED BY <1>1 DEF SessionInv, PipesOnce, WholeMessages, Ended, SessionRecord

LEMMA UnreadKept ==
  ASSUME SessionInv, Unread, Ses!Next
  PROVE  Unread' /\ Ses!StrandedByLinger'
<1>1. session \in SessionRecord /\ PipesOnce(session) /\ WholeMessages(session, queue) /\ Attempts /\ EndForced(session, attaches)
  BY DEF SessionInv
<1>2. ~session.stranded
  BY DEF Ses!Next
<1>3. CASE Ses!OfConnection
  <2>1. UNCHANGED <<options, session>>
    BY <1>3 DEF Ses!OfConnection, Ses!start_connecting, Ses!ConnecterOut, Ses!InitRead, Ses!InitWrite, Ses!Exchanged,
                Ses!InitDetach, Ses!ChildTerminated, Ses!Arrives
  <2>2. options.kind = "transient" => session_connecter = "none" /\ init = {}
    BY <1>1 DEF Attempts
  <2>3. options.kind = "transient" => attaches' = attaches
    BY <1>3, <2>2 DEF Ses!OfConnection, Ses!start_connecting, Ses!ConnecterOut, Ses!InitRead, Ses!InitWrite, Ses!Exchanged,
                      Ses!InitDetach, Ses!ChildTerminated, Ses!Arrives
  <2> QED BY <1>2, <2>1, <2>3, UnreadStays
<1>4. CASE Ses!process_attach
  <2>1. attaches # <<>> /\ attaches' = Tail(attaches) /\ UNCHANGED options
    BY <1>4 DEF Ses!process_attach
  <2>2. attaches \in Seq({"engine", "none"}) /\ Len(attaches) \in Nat \ {0} /\ Len(attaches') = Len(attaches) - 1
        /\ (attaches' = <<>> <=> Len(attaches') = 0)
    <3>1. attaches \in Seq({"engine", "none"}) /\ Len(attaches) \in Nat \ {0}
      BY <2>1, AttachesTyped
    <3>2. attaches' \in Seq({"engine", "none"}) /\ Len(attaches') = Len(attaches) - 1
      BY <2>1, <3>1, HeadTailProperties
    <3> QED BY <3>1, <3>2, EmptySeq
  <2>3. CASE Head(attaches) = "none"
    <3>1. options.kind # "transient"
      <4> SUFFICES ASSUME options.kind = "transient" PROVE FALSE
        OBVIOUS
      <4>1. attaches \in Seq({"engine"})
        BY <1>1 DEF Attempts
      <4> QED BY <2>1, <2>3, <4>1, HeadTailProperties
    <3>2. session' = [Ses!Forced(session) EXCEPT !.aborted = Ses!Forced(session).aborted \/ session.engine]
      BY <2>3, <1>4 DEF Ses!process_attach
    <3>3. Ses!Forced(session) = session
      BY <3>1 DEF Ses!Forced
    <3>4. session' = [session EXCEPT !.aborted = session.aborted \/ session.engine]
      BY <3>2, <3>3
    <3> QED BY <1>1, <1>2, <2>1, <3>1, <3>4, UnreadStays DEF SessionRecord
  <2>4. CASE Head(attaches) # "none"
    <3> DEFINE pipe == IF options.requires_out THEN "open" ELSE "none"
    <3>1. session' =
            (IF session.state = "terminating" \/ session.engine THEN session
             ELSE IF session.pipes_attached THEN [session EXCEPT !.engine = TRUE]
             ELSE [session EXCEPT !.engine = TRUE, !.pipes_attached = TRUE, !.out_pipe = "open", !.in_pipe = pipe])
      BY <2>4, <1>4 DEF Ses!process_attach
    <3> HIDE DEF pipe
    <3>2. CASE session.state = "terminating" \/ session.engine
      <4>1. session' = session
        BY <3>1, <3>2
      <4> QED BY <1>1, <1>2, <2>1, <2>2, <4>1 DEF Unread, Ses!StrandedByLinger
    <3>3. CASE ~(session.state = "terminating" \/ session.engine)
      <4>1. /\ session'.state = session.state /\ session'.engine = TRUE /\ session'.incomplete_in = session.incomplete_in
            /\ session'.delimiter_processed = session.delimiter_processed
            /\ session'.force_terminate = session.force_terminate /\ session'.stranded = session.stranded
        BY <1>1, <3>1, <3>3 DEF SessionRecord
      <4>2. options.kind = "transient" => Len(attaches) <= 1 /\ ~session.force_terminate
        BY <2>1, <2>2, <3>3 DEF Unread
      <4>3. options.kind = "transient" => Len(attaches') + 1 <= 1
        BY <2>2, <4>2
      <4> QED BY <1>2, <2>1, <3>3, <4>1, <4>2, <4>3 DEF Unread, Ses!StrandedByLinger
    <3> QED BY <3>2, <3>3
  <2> QED BY <2>3, <2>4
<1>5. CASE Ses!detach
  <2> DEFINE cleaned == Ses!clean_pipes(session)
             rest == Ses!Cleaned(session, queue)
             alone == [cleaned EXCEPT !.engine = FALSE]
             forced == Ses!Forced(alone)
             in == session.incomplete_in /\ session.in_pipe # "open"
             st == session.incomplete_in /\ session.in_pipe = "closing"
  <2>1. session.engine /\ session' = Ses!check_read(forced, rest) /\ UNCHANGED <<options, attaches>>
    BY <1>5 DEF Ses!detach
  <2>2. cleaned = [session EXCEPT !.incomplete_out = FALSE, !.incomplete_in = in, !.stranded = st] /\ in \in BOOLEAN /\ st \in BOOLEAN
    BY <1>1 DEF Ses!clean_pipes
  <2> HIDE DEF in, st, cleaned, rest
  <2>3. /\ cleaned \in SessionRecord /\ cleaned.state = session.state /\ cleaned.in_pipe = session.in_pipe
        /\ cleaned.incomplete_in = in /\ cleaned.stranded = st /\ cleaned.delimiter_processed = session.delimiter_processed
    BY <1>1, <2>2 DEF SessionRecord
  <2>4. /\ forced \in SessionRecord /\ forced.state = session.state /\ forced.in_pipe = session.in_pipe
        /\ forced.incomplete_in = in /\ forced.stranded = st /\ forced.delimiter_processed = session.delimiter_processed
        /\ forced.engine = FALSE
    BY <2>3 DEF Ses!Forced, SessionRecord
  <2> HIDE DEF forced
  <2>5. options.kind = "transient" => attaches = <<>>
    <3>1. options.kind = "transient" => Len(attaches) + 1 <= 1
      BY <2>1 DEF Unread
    <3> QED BY <3>1, AttachesTyped
  <2>6. CASE Ses!OnlyDelimiter(forced, rest)
    <3>1. session' = Ses!delimited(forced) /\ session.in_pipe = "open"
      BY <2>1, <2>4, <2>6 DEF Ses!check_read, Ses!OnlyDelimiter
    <3>2. ~forced.delimiter_processed
      BY <1>1, <2>4, <3>1 DEF PipesOnce
    <3>3. session'.incomplete_in = in /\ session'.stranded = st /\ session'.engine = FALSE
      BY <2>4, <3>1, <3>2, ReadsDelimiter
    <3>4. ~in /\ ~st
      BY <3>1 DEF in, st
    <3> QED BY <2>1, <2>5, <3>3, <3>4 DEF Unread, Ses!StrandedByLinger
  <2>7. CASE ~Ses!OnlyDelimiter(forced, rest)
    <3>1. session' = forced
      BY <2>1, <2>7 DEF Ses!check_read
    <3>2. Unread'
      <4>1. in => ~session.delimiter_processed
        BY <2>1 DEF Unread, in
      <4>2. options.kind = "transient" => attaches = <<>> /\ Len(attaches) = 0
        BY <2>5
      <4>3. /\ session'.incomplete_in = in /\ session'.delimiter_processed = session.delimiter_processed
            /\ session'.engine = FALSE /\ UNCHANGED <<options, attaches>>
        BY <2>1, <2>4, <3>1
      <4> QED BY <4>1, <4>2, <4>3 DEF Unread
    <3>3. ASSUME st PROVE session.state = "terminating" /\ options.linger # "infinite" /\ ~session.delimiter_processed
      <4>1. session.incomplete_in /\ session.in_pipe = "closing"
        BY <3>3 DEF st
      <4>2. ~session.delimiter_processed
        BY <4>1 DEF Unread
      <4>3. session.pipes_attached /\ options.requires_out
        BY <1>1, <4>1 DEF PipesOnce, EndForced, SessionInv, Ses!TypeOK, Ses!Options
      <4>4. Ended(session.state) /\ session.state # "gone"
        BY <1>1, <2>1, <4>1, <4>2, <4>3 DEF PipesOnce, Attempts
      <4> QED BY <2>1, <4>2, <4>3, <4>4 DEF Ended, Unread
    <3>4. Ses!StrandedByLinger'
      BY <2>1, <2>4, <3>1, <3>3 DEF Ses!StrandedByLinger
    <3> QED BY <3>2, <3>4
  <2> QED BY <2>6, <2>7
<1>6. CASE Ses!read
  <2>1. /\ session.engine /\ session.in_pipe = "open" /\ queue # <<>> /\ UNCHANGED <<options, attaches>>
        /\ session' = IF Head(queue) = "delimiter" THEN Ses!delimited(session)
                      ELSE [session EXCEPT !.incomplete_in = Head(queue) = "part"]
    BY <1>6 DEF Ses!read
  <2>2. CASE Head(queue) = "delimiter"
    <3>1. ~session.incomplete_in /\ ~session.delimiter_processed
      BY <2>1, <2>2, DelimiterAlone
    <3>2. /\ session'.incomplete_in = session.incomplete_in /\ session'.delimiter_processed = TRUE
          /\ session'.engine = session.engine /\ session'.force_terminate = session.force_terminate
          /\ session'.stranded = session.stranded
      BY <1>1, <2>1, <2>2, <3>1, ReadsDelimiter
    <3> QED BY <1>2, <2>1, <3>1, <3>2 DEF Unread, Ses!StrandedByLinger
  <2>3. CASE Head(queue) # "delimiter"
    <3>1. ~session.delimiter_processed /\ session.state # "terminating"
      BY <1>1, <2>1 DEF PipesOnce, Ended
    <3>2. /\ session'.delimiter_processed = session.delimiter_processed /\ session'.state = session.state
          /\ session'.engine = session.engine /\ session'.force_terminate = session.force_terminate
          /\ session'.stranded = session.stranded
      BY <1>1, <2>1, <2>3 DEF SessionRecord
    <3> QED BY <1>2, <2>1, <3>1, <3>2 DEF Unread, Ses!StrandedByLinger
  <2> QED BY <2>2, <2>3
<1>7. CASE Ses!activated
  <2>1. ~session.engine /\ queue # <<>> /\ Head(queue) = "delimiter" /\ session' = Ses!delimited(session) /\ UNCHANGED <<options, attaches>>
    BY <1>7 DEF Ses!activated, Ses!check_read, Ses!OnlyDelimiter, Ses!connectVars
  <2>2. ~session.incomplete_in /\ ~session.delimiter_processed
    BY <2>1, DelimiterAlone
  <2>3. /\ session'.incomplete_in = session.incomplete_in /\ session'.engine = session.engine
        /\ session'.force_terminate = session.force_terminate /\ session'.stranded = session.stranded
    BY <1>1, <2>1, <2>2, ReadsDelimiter
  <2> QED BY <1>2, <2>1, <2>2, <2>3 DEF Unread, Ses!StrandedByLinger
<1>8. CASE Ses!process_term
  <2> DEFINE timer == options.linger = "finite"
             lingers == [session EXCEPT !.state = "pending", !.has_linger_timer = timer]
             checked == Ses!check_read(lingers, queue)
  <2>1. /\ session.state = "active" /\ UNCHANGED <<options, attaches>>
        /\ session' = (IF options.linger = "zero" THEN Ses!proceed_with_term(lingers)
                       ELSE IF Ses!Gate(checked) THEN Ses!proceed_with_term(checked) ELSE checked)
    BY <1>8 DEF Ses!process_term
  <2>2. /\ lingers \in SessionRecord /\ lingers.state = "pending" /\ lingers.in_pipe = session.in_pipe
        /\ lingers.pipes_attached = session.pipes_attached /\ lingers.incomplete_in = session.incomplete_in
        /\ lingers.delimiter_processed = session.delimiter_processed
        /\ lingers.force_terminate = session.force_terminate /\ lingers.engine = session.engine
        /\ lingers.stranded = session.stranded
    BY <1>1 DEF SessionRecord
  <2> HIDE DEF lingers, timer
  <2>3. CASE session' = Ses!proceed_with_term(lingers)
             /\ (options.linger = "infinite" /\ session.engine /\ session.pipes_attached /\ options.requires_out
                   => session.delimiter_processed)
    <3>1. /\ session'.state = "terminating" /\ session'.pipes_attached = session.pipes_attached
          /\ session'.incomplete_in = session.incomplete_in /\ session'.delimiter_processed = session.delimiter_processed
          /\ session'.force_terminate = session.force_terminate /\ session'.engine = session.engine
          /\ session'.stranded = session.stranded
      BY <2>2, <2>3, Proceeds
    <3> QED BY <1>2, <2>1, <2>3, <3>1 DEF Unread, Ses!StrandedByLinger
  <2>4. CASE options.linger = "zero"
    BY <2>1, <2>3, <2>4
  <2>5. CASE options.linger # "zero" /\ Ses!OnlyDelimiter(lingers, queue)
    <3>1. checked = Ses!delimited(lingers) /\ queue # <<>> /\ Head(queue) = "delimiter"
      BY <2>5 DEF Ses!check_read, Ses!OnlyDelimiter
    <3>2. ~session.incomplete_in /\ ~session.delimiter_processed
      BY <3>1, DelimiterAlone
    <3>3. /\ checked.state = "terminating" /\ checked.incomplete_in = session.incomplete_in /\ checked.delimiter_processed = TRUE
          /\ checked.force_terminate = session.force_terminate /\ checked.engine = session.engine
          /\ checked.stranded = session.stranded
      BY <2>2, <3>1, <3>2, ReadsDelimiter
    <3> HIDE DEF checked
    <3>4. session' = checked
      BY <2>1, <2>5, <3>3 DEF Ses!proceed_with_term
    <3> QED BY <1>2, <2>1, <3>2, <3>3, <3>4 DEF Unread, Ses!StrandedByLinger
  <2>6. CASE options.linger # "zero" /\ ~Ses!OnlyDelimiter(lingers, queue)
    <3>1. checked = lingers
      BY <2>6 DEF Ses!check_read
    <3>2. CASE Ses!Gate(lingers)
      <4>1. session' = Ses!proceed_with_term(lingers)
        BY <2>1, <2>6, <3>1, <3>2
      <4>2. session.engine /\ session.pipes_attached /\ options.requires_out => session.delimiter_processed
        BY <1>1, <2>1, <2>2, <3>2 DEF Ses!Gate, PipesOnce, EndForced, Ended, Unread
      <4> QED BY <2>3, <4>1, <4>2
    <3>3. CASE ~Ses!Gate(lingers)
      <4>1. session' = lingers
        BY <2>1, <2>6, <3>1, <3>3
      <4> QED BY <1>2, <2>1, <2>2, <4>1 DEF Unread, Ses!StrandedByLinger
    <3> QED BY <3>2, <3>3
  <2> QED BY <2>4, <2>5, <2>6
<1>9. CASE Ses!timer_event
  <2> DEFINE n == [session EXCEPT !.has_linger_timer = FALSE]
  <2>1. session.has_linger_timer /\ session' = Ses!proceed_with_term(n) /\ UNCHANGED <<options, attaches>>
    BY <1>9 DEF Ses!timer_event
  <2>2. session.state = "pending" /\ options.linger = "finite"
    BY <1>1, <2>1 DEF EndForced
  <2>3. /\ n \in SessionRecord /\ n.state = "pending" /\ n.incomplete_in = session.incomplete_in
        /\ n.delimiter_processed = session.delimiter_processed
        /\ n.force_terminate = session.force_terminate /\ n.engine = session.engine /\ n.stranded = session.stranded
    BY <1>1, <2>2 DEF SessionRecord
  <2> HIDE DEF n
  <2>4. /\ session'.incomplete_in = session.incomplete_in /\ session'.delimiter_processed = session.delimiter_processed
        /\ session'.force_terminate = session.force_terminate /\ session'.engine = session.engine
        /\ session'.stranded = session.stranded
    BY <2>1, <2>3, Proceeds
  <2> QED BY <1>2, <2>1, <2>2, <2>4 DEF Unread, Ses!StrandedByLinger
<1>10. CASE Ses!InTerminated \/ Ses!OutTerminated \/ \E again \in BOOLEAN : Ses!write(again)
  <2>1. UNCHANGED <<options, attaches>>
    BY <1>10 DEF Ses!InTerminated, Ses!OutTerminated, Ses!write
  <2>2. /\ session'.incomplete_in = session.incomplete_in /\ session'.delimiter_processed = session.delimiter_processed
        /\ session'.engine = session.engine /\ session'.state = session.state
        /\ session'.pipes_attached = session.pipes_attached
        /\ session'.force_terminate = session.force_terminate /\ session'.stranded = session.stranded
    BY <1>1, <1>10 DEF Ses!InTerminated, Ses!OutTerminated, Ses!write, SessionRecord
  <2> QED BY <1>2, <2>1, <2>2, UnreadStays
<1>11. CASE Ses!Destroyed
  <2>1. session' = [session EXCEPT !.state = "gone", !.engine = FALSE] /\ attaches = <<>> /\ UNCHANGED <<options, attaches>>
    BY <1>11 DEF Ses!Destroyed
  <2>2. /\ session'.incomplete_in = session.incomplete_in /\ session'.delimiter_processed = session.delimiter_processed
        /\ session'.engine = FALSE /\ session'.stranded = session.stranded
    BY <1>1, <2>1 DEF SessionRecord
  <2>3. Len(attaches') = 0
    BY <2>1, AttachesTyped
  <2> QED BY <1>2, <2>1, <2>2, <2>3 DEF Unread, Ses!StrandedByLinger
<1>12. CASE Ses!SocketCloses \/ \E parts \in {<<"last">>, <<"part", "last">>} : Ses!SocketSends(parts)
  <2>1. UNCHANGED <<options, session, attaches>>
    BY <1>12 DEF Ses!SocketCloses, Ses!SocketSends
  <2> QED BY <1>2, <2>1, UnreadStays
<1> QED BY <1>3, <1>4, <1>5, <1>6, <1>7, <1>8, <1>9, <1>10, <1>11, <1>12 DEF Ses!Next, Ses!OfSession

\* A rest is stranded only where a session has stopped lingering.
StrandedInv == SessionInv /\ Unread /\ Ses!StrandedByLinger

LEMMA StrandedKept == StrandedInv /\ [Ses!Next]_(Ses!vars) => StrandedInv'
<1> SUFFICES ASSUME StrandedInv, [Ses!Next]_(Ses!vars) PROVE StrandedInv'
  OBVIOUS
<1>1. SessionInv'
  BY SessionKept DEF StrandedInv
<1>2. CASE Ses!Next
  BY <1>1, <1>2, UnreadKept DEF StrandedInv
<1>3. CASE UNCHANGED Ses!vars
  <2>1. UNCHANGED <<options, session, attaches>>
    BY <1>3 DEF Ses!vars
  <2> QED BY <1>1, <2>1 DEF StrandedInv, Unread, Ses!StrandedByLinger
<1> QED BY <1>2, <1>3

LEMMA StrandedBegins == Ses!Init => StrandedInv
<1> SUFFICES ASSUME Ses!Init PROVE StrandedInv
  OBVIOUS
<1>1. SessionInv
  BY SessionBegins
<1>2. /\ ~session.incomplete_in /\ ~session.engine /\ ~session.force_terminate /\ ~session.stranded /\ session.state = "active"
      /\ (options.kind = "transient" => attaches = <<"engine">>)
  BY DEF Ses!Init
<1>3. Len(<<"engine">>) = 1
  OBVIOUS
<1>4. options.kind = "transient" => Len(attaches) + (IF session.engine THEN 1 ELSE 0) <= 1
  <2>1. options.kind = "transient" => Len(attaches) = 1
    BY <1>2, <1>3
  <2>2. (IF session.engine THEN 1 ELSE 0) = 0
    BY <1>2
  <2> DEFINE begun == Len(attaches)
             now   == IF session.engine THEN 1 ELSE 0
  <2>3. now = 0 /\ (options.kind = "transient" => begun = 1)
    BY <2>1, <2>2
  <2> HIDE DEF begun, now
  <2>4. options.kind = "transient" => begun + now <= 1
    BY <2>3
  <2> QED BY <2>4 DEF begun, now
<1>5. Unread /\ Ses!StrandedByLinger
  BY <1>2, <1>4 DEF Unread, Ses!StrandedByLinger
<1> QED BY <1>1, <1>5 DEF StrandedInv

LEMMA SessionPromised == StrandedInv => Ses!SessionSound
BY DEF StrandedInv, SessionInv, Ses!SessionSound

LEMMA SessionAlone == [ConnectionsNext]_connectionsVars => [Ses!Next]_(Ses!vars)
<1> SUFFICES ASSUME [ConnectionsNext]_connectionsVars, ~UNCHANGED sessionVars PROVE Ses!Next
  BY Zenon DEF Ses!vars, sessionVars
<1> QED BY Zenon DEF ConnectionsNext, OtherConnections, Stays, connectionsVars

LEMMA SessionInvariant == ConnectionsSpec => []StrandedInv
<1>1. ConnectionsInit => StrandedInv
  BY StrandedBegins DEF ConnectionsInit
<1>2. StrandedInv /\ [ConnectionsNext]_connectionsVars => StrandedInv'
  BY SessionAlone, StrandedKept
<1> QED BY <1>1, <1>2, PTL DEF ConnectionsSpec

(***************************************************************************)
(* Options, bind and connect.                                              *)
(***************************************************************************)
IsObject(o) == DOMAIN o = {"id", "affinity", "thread", "polls"} /\ o = [field \in DOMAIN o |-> o[field]]
EndpointRecord == [registered : BOOLEAN, options : [Ep!Option -> Int]]

\* A watermark can be added to another.
WatermarkFits(settings) == settings["hwm"] \in Nat /\ settings["hwm"] + settings["hwm"] < 2^Width

EndpointsInv ==
  /\ Ep!TypeOK /\ socket_options = accepted
  /\ endpoint \in [Socket -> EndpointRecord] /\ attached = [s \in Socket |-> attached[s]] /\ IsFiniteSet(objects)
  /\ \A o \in objects : IsObject(o)
  /\ \A s \in Socket : WatermarkFits(socket_options[s]) /\ WatermarkFits(endpoint[s].options)
  /\ Ep!LimitsKept /\ Ep!NeverAborts /\ Ep!EndsMeet /\ Ep!AffinityKept

LEMMA EndpointsFacts ==
  /\ Width \in Nat /\ Narrow \in Nat /\ MaxSets \in Nat /\ MaxObjects \in Nat /\ Value \subseteq Int /\ 0 \in Value
  /\ 2^Width \in Nat /\ 2^Narrow \in Nat /\ IsFiniteSet(Socket) /\ IsFiniteSet(Thread) /\ Thread \subseteq Nat
  /\ Types \subseteq [Socket -> Ep!Type]
<1>1. IsFiniteSet(Socket) /\ IsFiniteSet(Thread)
  BY ConnectionsAssumption, Zenon DEF ConnectionsAssumption, Ep!EndpointsAssumption, IsFiniteSet, Ep!IsFiniteSet
<1> QED BY <1>1, ConnectionsAssumption DEF ConnectionsAssumption, Ep!EndpointsAssumption

LEMMA ModOfSmall == \A n, m \in Nat : n < m => n % m = n
OBVIOUS

\* Of two sockets each is the other's only peer.
LEMMA TwoSockets ==
  ASSUME NEW S, IsFiniteSet(S), Cardinality(S) = 2, NEW s \in S, NEW t \in S, s # t
  PROVE  S = {s, t}
<1>1. IsFiniteSet(S \ {s}) /\ Cardinality(S \ {s}) = 1
  BY FS_RemoveElement
<1>2. PICK x : S \ {s} = {x}
  BY <1>1, FS_Singleton
<1> QED BY <1>2

LEMMA EligibleThreads == \A affinity : Ep!Eligible(affinity) \subseteq Thread /\ Ep!Eligible(0) = Thread
BY DEF Ep!Eligible

\* A thread with the least load exists, and of those the first.
LEMMA ThreadChosen ==
  ASSUME NEW affinity, IsFiniteSet(objects), Ep!Eligible(affinity) # {}
  PROVE  Ep!choose_io_thread(affinity) \in Ep!Eligible(affinity)
<1> DEFINE E == Ep!Eligible(affinity)
           loads == {Ep!get_load(t) : t \in E}
           Best(t) == \A u \in E : Ep!get_load(t) < Ep!get_load(u) \/ (Ep!get_load(t) = Ep!get_load(u) /\ t <= u)
<1>1. \A t : Ep!get_load(t) \in Nat
  <2> TAKE t
  <2> DEFINE polled == {o \in objects : o.thread = t /\ o.polls}
  <2>1. polled \in SUBSET objects
    OBVIOUS
  <2> HIDE DEF polled
  <2>2. IsFiniteSet(polled)
    BY <2>1, FS_Subset
  <2>3. Cardinality(polled) \in Nat
    BY <2>2, FS_CardinalityType
  <2>4. Ep!get_load(t) = Cardinality(polled)
    <3>1. Ep!Cardinality(polled) = Cardinality(polled)
      BY DEF Cardinality, Ep!Cardinality
    <3> QED BY <3>1, Zenon DEF Ep!get_load, polled
  <2> QED BY <2>3, <2>4
<1>2. E \subseteq Nat /\ E # {}
  BY EligibleThreads, EndpointsFacts
<1> HIDE DEF E
<1>3. PICK least \in loads : \A l \in loads : least <= l
  <2>1. loads \in SUBSET Nat /\ loads # {}
    BY <1>1, <1>2
  <2> HIDE DEF loads
  <2> QED BY <2>1, LeastNatural
<1> DEFINE first == {t \in E : Ep!get_load(t) = least}
<1>4. PICK t \in first : \A u \in first : t <= u
  <2>1. first \in SUBSET Nat /\ first # {}
    BY <1>2, <1>3
  <2> HIDE DEF first
  <2> QED BY <2>1, LeastNatural
<1>5. t \in E /\ Ep!get_load(t) = least
  BY <1>4
<1>6. ASSUME NEW u \in E PROVE Ep!get_load(t) < Ep!get_load(u) \/ (Ep!get_load(t) = Ep!get_load(u) /\ t <= u)
  <2>1. Ep!get_load(u) \in loads /\ Ep!get_load(u) \in Nat /\ least \in Nat
    BY <1>1, <1>5
  <2>2. least <= Ep!get_load(u)
    BY <1>3, <2>1
  <2>3. Ep!get_load(u) = least => t <= u
    BY <1>4
  <2> QED BY <1>5, <2>1, <2>2, <2>3
<1>7. \E some \in E : Best(some)
  BY <1>5, <1>6
<1> HIDE DEF Best
<1>8. (CHOOSE some \in E : Best(some)) \in E
  BY <1>7
<1> QED BY <1>8, Zenon DEF Ep!choose_io_thread, E, Best

LEMMA StoredIsAccepted ==
  ASSUME Ep!ValuesFit, NEW option \in Ep!Option, NEW value \in Value, Ep!Accepts(option, value), Ep!Sensible(option, value)
  PROVE  /\ value \in Int /\ Ep!Stored(option, value) = value
         /\ option = "hwm" => value \in Nat /\ value + value < 2^Width
<1>1. value \in Int /\ value + value < 2^Width /\ value < 2^Narrow /\ 2^Width \in Nat /\ 2^Narrow \in Nat
  BY EndpointsFacts DEF Ep!ValuesFit
<1>2. option \in {"hwm", "affinity"} => value >= 0
  BY DEF Ep!Sensible
<1>4. option \in {"hwm", "swap", "affinity", "rate", "mcast_loop"}
  BY DEF Ep!Option
<1>5. CASE option \in {"hwm", "affinity"}
  <2>1. Ep!Stored(option, value) = value % 2^Width
    BY <1>5 DEF Ep!Stored
  <2>2. value \in Nat /\ value < 2^Width
    BY <1>1, <1>2, <1>5
  <2>3. value % 2^Width = value
    BY <1>1, <2>2, ModOfSmall
  <2> QED BY <1>1, <1>2, <2>1, <2>2, <2>3
<1>6. CASE option = "rate"
  <2>1. Ep!Stored(option, value) = value % 2^Narrow /\ value >= 0
    BY <1>6 DEF Ep!Stored, Ep!Accepts
  <2>2. value % 2^Narrow = value
    BY <1>1, <2>1, ModOfSmall
  <2> QED BY <1>1, <1>6, <2>1, <2>2
<1>7. CASE option \in {"swap", "mcast_loop"}
  <2>1. Ep!Stored(option, value) = value
    BY <1>7 DEF Ep!Stored
  <2> QED BY <1>1, <1>7, <2>1
<1> QED BY <1>4, <1>5, <1>6, <1>7

LEMMA OptionSet ==
  ASSUME EndpointsInv, Ep!ValuesFit, NEW s \in Socket, NEW option \in Ep!Option, NEW value \in Value,
         Ep!Sensible(option, value), Ep!setsockopt(s, option, value), ~aborted
  PROVE  EndpointsInv'
<1>1. UNCHANGED <<type, endpoint, attached, objects, ctx_terminated, aborted>> /\ sets < MaxSets /\ sets' = sets + 1
  BY DEF Ep!setsockopt
<1>2. CASE Ep!Accepts(option, value)
  <2>1. Ep!Stored(option, value) = value
    BY <1>2, StoredIsAccepted
  <2>2. socket_options' = [socket_options EXCEPT ![s][option] = value] /\ accepted' = [accepted EXCEPT ![s][option] = value]
    BY <1>2, <2>1 DEF Ep!setsockopt
  <2>3. socket_options \in [Socket -> [Ep!Option -> Int]] /\ accepted = socket_options
    BY DEF EndpointsInv, Ep!TypeOK
  <2>4. value \in Int
    BY EndpointsFacts
  <2>5. socket_options' \in [Socket -> [Ep!Option -> Int]] /\ accepted' = socket_options'
    BY <2>2, <2>3, <2>4
  <2>6. ASSUME NEW t \in Socket PROVE WatermarkFits(socket_options'[t])
    <3>1. WatermarkFits(socket_options[t])
      BY DEF EndpointsInv
    <3>2. socket_options'[t] = IF t = s THEN [socket_options[t] EXCEPT ![option] = value] ELSE socket_options[t]
      BY <2>2, <2>3
    <3>3. socket_options'[t]["hwm"] = IF t = s /\ option = "hwm" THEN value ELSE socket_options[t]["hwm"]
      BY <2>3, <3>2 DEF Ep!Option
    <3>4. option = "hwm" => value \in Nat /\ value + value < 2^Width
      BY <1>2, StoredIsAccepted
    <3> QED BY <3>1, <3>3, <3>4 DEF WatermarkFits
  <2>7. Ep!TypeOK'
    BY <1>1, <2>5, EndpointsFacts DEF EndpointsInv, Ep!TypeOK
  <2> QED BY <1>1, <2>5, <2>6, <2>7 DEF EndpointsInv, Ep!LimitsKept, Ep!NeverAborts, Ep!EndsMeet, Ep!AffinityKept
<1>3. CASE ~Ep!Accepts(option, value)
  <2>1. UNCHANGED <<socket_options, accepted>>
    BY <1>3 DEF Ep!setsockopt
  <2>2. Ep!TypeOK'
    BY <1>1, <2>1, EndpointsFacts DEF EndpointsInv, Ep!TypeOK
  <2> QED BY <1>1, <2>1, <2>2 DEF EndpointsInv, Ep!LimitsKept, Ep!NeverAborts, Ep!EndsMeet, Ep!AffinityKept
<1> QED BY <1>2, <1>3

ObjectRight(o) == IsObject(o) /\ o.thread \in Thread /\ o.polls \in BOOLEAN /\ o.thread \in Ep!Eligible(o.affinity)

LEMMA ObjectsRight == EndpointsInv => \A o \in objects : ObjectRight(o)
BY DEF EndpointsInv, Ep!TypeOK, Ep!AffinityKept, ObjectRight

LEMMA ObjectLaunched ==
  ASSUME EndpointsInv, ~aborted, NEW s \in Socket, Ep!Launch(s)
  PROVE  /\ IsFiniteSet(objects') /\ aborted' \in BOOLEAN
         /\ aborted' => accepted[s].affinity # 0 /\ Ep!Eligible(accepted[s].affinity) = {}
         /\ \A o \in objects' : ObjectRight(o)
<1>1. /\ IsFiniteSet(objects) /\ aborted = FALSE /\ accepted = socket_options
      /\ \A o \in objects : ObjectRight(o)
  BY ObjectsRight DEF EndpointsInv, Ep!TypeOK
<1>2. CASE Thread = {}
  BY <1>1, <1>2 DEF Ep!Launch
<1>4. CASE Thread # {} /\ Ep!Eligible(socket_options[s].affinity) = {}
  <2>1. aborted' = TRUE /\ objects' = objects
    BY <1>4 DEF Ep!Launch
  <2>2. socket_options[s].affinity # 0
    BY <1>4, EligibleThreads
  <2> QED BY <1>1, <1>4, <2>1, <2>2
<1>3. CASE Thread # {} /\ Ep!Eligible(socket_options[s].affinity) # {}
  <2> DEFINE affinity == socket_options[s].affinity
             new == [id |-> CHOOSE n \in 1..MaxObjects : \A o \in objects : o.id # n,
                     affinity |-> affinity, thread |-> Ep!choose_io_thread(affinity), polls |-> FALSE]
  <2>1. Ep!Eligible(affinity) # {}
    BY <1>3
  <2>2. objects' = objects \union {new} /\ aborted' = aborted
    BY <1>3, <2>1 DEF Ep!Launch
  <2>3. Ep!choose_io_thread(affinity) \in Ep!Eligible(affinity)
    BY <1>1, <2>1, ThreadChosen
  <2>4. ObjectRight(new)
    <3>1. DOMAIN new = {"id", "affinity", "thread", "polls"} /\ new = [field \in DOMAIN new |-> new[field]]
      <4> DEFINE n == CHOOSE number \in 1..MaxObjects : \A o \in objects : o.id # number
                 th == Ep!choose_io_thread(affinity)
      <4>1. new = [id |-> n, affinity |-> affinity, thread |-> th, polls |-> FALSE]
        BY Zenon
      <4> HIDE DEF n, th, new, affinity
      <4>2. DOMAIN new = {"id", "affinity", "thread", "polls"}
        BY <4>1
      <4>3. new = [field \in DOMAIN new |-> new[field]]
        BY <4>1
      <4> QED BY <4>2, <4>3
    <3>2. new.thread = Ep!choose_io_thread(affinity) /\ new.affinity = affinity /\ new.polls = FALSE
      BY Zenon
    <3> HIDE DEF new
    <3>3. new.thread \in Ep!Eligible(new.affinity)
      BY <2>3, <3>2, Zenon
    <3>4. new.thread \in Thread /\ new.polls \in BOOLEAN
      BY <2>3, <3>2, EligibleThreads
    <3> QED BY <3>1, <3>3, <3>4 DEF ObjectRight, IsObject
  <2> HIDE DEF new
  <2>5. IsFiniteSet(objects')
    BY <1>1, <2>2, FS_AddElement
  <2> QED BY <1>1, <2>2, <2>4, <2>5
<1> QED BY <1>2, <1>3, <1>4

LEMMA EndpointBound ==
  ASSUME EndpointsInv, ~aborted, NEW s \in Socket, NEW protocol, Ep!bind(s, protocol)
  PROVE  EndpointsInv'
<1>1. UNCHANGED <<socket_options, type, accepted, attached, sets, ctx_terminated>>
  BY DEF Ep!bind
<1>2. /\ IsFiniteSet(objects') /\ aborted' \in BOOLEAN
      /\ aborted' => accepted[s].affinity # 0 /\ Ep!Eligible(accepted[s].affinity) = {}
      /\ \A o \in objects' : ObjectRight(o)
  <2>1. UNCHANGED <<objects, aborted>> \/ Ep!Launch(s)
    BY DEF Ep!bind
  <2>2. CASE UNCHANGED <<objects, aborted>>
    BY <2>2, ObjectsRight DEF EndpointsInv, Ep!TypeOK
  <2> QED BY <2>1, <2>2, ObjectLaunched
<1>3. endpoint' \in [Socket -> EndpointRecord] /\ \A t \in Socket : WatermarkFits(endpoint'[t].options)
  <2>1. /\ endpoint \in [Socket -> EndpointRecord] /\ \A t \in Socket : WatermarkFits(endpoint[t].options)
        /\ socket_options[s] \in [Ep!Option -> Int] /\ WatermarkFits(socket_options[s])
    BY DEF EndpointsInv, Ep!TypeOK
  <2> DEFINE new == [registered |-> TRUE, options |-> socket_options[s]]
  <2>2. new \in EndpointRecord /\ WatermarkFits(new.options)
    BY <2>1 DEF EndpointRecord
  <2> HIDE DEF new
  <2>3. endpoint' = endpoint \/ endpoint' = [endpoint EXCEPT ![s] = new]
    BY DEF Ep!bind, new
  <2>4. CASE endpoint' = [endpoint EXCEPT ![s] = new]
    <3>1. \A t \in Socket : endpoint'[t] = IF t = s THEN new ELSE endpoint[t]
      BY <2>1, <2>4
    <3> QED BY <2>1, <2>2, <2>4, <3>1
  <2> QED BY <2>1, <2>3, <2>4
<1>4. Ep!TypeOK'
  <2>1. \A t \in Socket : endpoint'[t].registered \in BOOLEAN
    BY <1>3 DEF EndpointRecord
  <2> QED BY <1>1, <1>2, <2>1 DEF EndpointsInv, Ep!TypeOK, ObjectRight
<1>5. Ep!NeverAborts'
  BY <1>1, <1>2 DEF Ep!NeverAborts, Ep!Eligible
<1> QED BY <1>1, <1>2, <1>3, <1>4, <1>5 DEF ObjectRight, EndpointsInv, Ep!LimitsKept, Ep!EndsMeet, Ep!AffinityKept

LEMMA SumOfLimits ==
  \A mine, peers \in Nat :
    mine + mine < 2^Width /\ peers + peers < 2^Width =>
      (Ep!sum_hwm(mine, peers) = 0 <=> 0 \in {mine, peers})
<1> SUFFICES ASSUME NEW mine \in Nat, NEW peers \in Nat, mine + mine < 2^Width, peers + peers < 2^Width
             PROVE  Ep!sum_hwm(mine, peers) = 0 <=> 0 \in {mine, peers}
  OBVIOUS
<1>1. CASE mine = 0 \/ peers = 0
  BY <1>1 DEF Ep!sum_hwm
<1>2. CASE mine # 0 /\ peers # 0
  <2>1. mine + peers \in Nat /\ mine + peers < 2^Width /\ 2^Width \in Nat /\ mine + peers > 0
    BY <1>2, EndpointsFacts
  <2>2. (mine + peers) % 2^Width = mine + peers
    BY <2>1, ModOfSmall
  <2> QED BY <1>2, <2>1, <2>2 DEF Ep!sum_hwm
<1> QED BY <1>1, <1>2

\* The two ends of a connection within the process.
LEMMA InprocConnected ==
  ASSUME EndpointsInv, ~aborted, Ep!TypesMatch, NEW s \in Socket, NEW peer \in Socket, Ep!Connect_inproc(s, peer)
  PROVE  /\ attached' = [t \in Socket |-> attached'[t]] /\ aborted' = FALSE
         /\ \A t \in Socket : \A p \in attached'[t] : {p.inpipe, p.outpipe} \subseteq BOOLEAN
         /\ Ep!LimitsKept' /\ Ep!EndsMeet'
<1> DEFINE theirs == endpoint[peer].options
           mine == socket_options[s]
           hwm == Ep!sum_hwm(mine.hwm, theirs.hwm)
           swap == Ep!sum_swap(mine.swap, theirs.swap)
           limits == {mine.hwm, theirs.hwm}
           in == Ep!requires_in(type[s])
           out == Ep!requires_out(type[s])
           here == [inpipe |-> in, outpipe |-> out, hwm |-> hwm, swap |-> swap, limits |-> limits]
           there == [inpipe |-> out, outpipe |-> in, hwm |-> hwm, swap |-> swap, limits |-> limits]
<1>1. in \in BOOLEAN /\ out \in BOOLEAN
  BY DEF Ep!requires_in, Ep!requires_out
<1>2. hwm = 0 <=> 0 \in limits
  <2>1. WatermarkFits(mine) /\ WatermarkFits(theirs)
    BY DEF EndpointsInv
  <2> QED BY <2>1, SumOfLimits DEF WatermarkFits
<1>3. Ep!PeerEnds(type[s]).inpipe = out /\ Ep!PeerEnds(type[s]).outpipe = in
  BY Zenon DEF Ep!PeerEnds
<1>4. attached' = [attached EXCEPT ![s] = @ \union {here}, ![peer] = @ \union {there}] /\ s # peer
  BY <1>3, Zenon DEF Ep!Connect_inproc
<1>5. aborted' = FALSE
  <2>1. Ep!Takes(type[peer], Ep!PeerEnds(type[s])) /\ aborted = FALSE
    BY DEF Ep!Connect_inproc, EndpointsInv, Ep!TypeOK, Ep!TypesMatch
  <2>2. aborted' = (aborted \/ ~Ep!Takes(type[peer], Ep!PeerEnds(type[s])))
    BY Zenon DEF Ep!Connect_inproc
  <2> QED BY <2>1, <2>2
<1> HIDE DEF in, out
<1>6. /\ here.inpipe = in /\ here.outpipe = out /\ there.inpipe = out /\ there.outpipe = in
      /\ here.hwm = hwm /\ there.hwm = hwm /\ here.limits = limits /\ there.limits = limits
  BY Zenon
<1> HIDE DEF here, there, hwm, limits
<1>7. attached = [t \in Socket |-> attached[t]]
  BY DEF EndpointsInv
<1>8. \A t \in Socket : attached'[t] = IF t = s THEN attached[t] \union {here}
                                       ELSE IF t = peer THEN attached[t] \union {there} ELSE attached[t]
  BY <1>4, <1>7
<1>9. attached' = [t \in Socket |-> attached'[t]]
  BY <1>4, <1>7
<1>10. ASSUME NEW t \in Socket, NEW p \in attached'[t]
       PROVE  {p.inpipe, p.outpipe} \subseteq BOOLEAN /\ (p.hwm = 0 <=> 0 \in p.limits)
  <2>5. p \in attached'[t]
    OBVIOUS
  <2>6. attached'[t] = IF t = s THEN attached[t] \union {here}
                                       ELSE IF t = peer THEN attached[t] \union {there} ELSE attached[t]
    BY <1>8
  <2>1. p = here \/ p = there \/ p \in attached[t]
    BY <2>5, <2>6
  <2>2. CASE p = here \/ p = there
    BY <1>1, <1>2, <1>6, <2>2
  <2>3. CASE p \in attached[t]
    BY <2>3 DEF EndpointsInv, Ep!TypeOK, Ep!LimitsKept
  <2> QED BY <2>1, <2>2, <2>3
<1>11. ASSUME NEW t \in Socket, NEW u \in Socket, t # u, Cardinality(Socket) = 2, NEW p \in attached'[t]
       PROVE  \E q \in attached'[u] : p.inpipe = q.outpipe /\ p.outpipe = q.inpipe
  <2>1. Socket = {t, u}
    BY <1>11, TwoSockets, EndpointsFacts
  <2>5. attached'[t] = IF t = s THEN attached[t] \union {here}
                       ELSE IF t = peer THEN attached[t] \union {there} ELSE attached[t]
    BY <1>8
  <2>6. attached'[u] = IF u = s THEN attached[u] \union {here}
                       ELSE IF u = peer THEN attached[u] \union {there} ELSE attached[u]
    BY <1>8
  <2>2. CASE p \in attached[t]
    <3>1. Ep!Cardinality(Socket) = 2
      BY <1>11 DEF Cardinality, Ep!Cardinality
    <3>2. PICK q \in attached[u] : p.inpipe = q.outpipe /\ p.outpipe = q.inpipe
      BY <1>11, <2>2, <3>1 DEF EndpointsInv, Ep!EndsMeet
    <3>3. q \in attached'[u]
      BY <1>8
    <3> QED BY <3>2, <3>3
  <2>3. CASE t = s /\ u = peer /\ p = here
    <3>1. there \in attached'[u]
      BY <1>4, <2>6, <2>3
    <3> QED BY <1>6, <2>3, <3>1
  <2>4. CASE t = peer /\ u = s /\ p = there
    <3>1. here \in attached'[u]
      BY <2>6, <2>4
    <3> QED BY <1>6, <2>4, <3>1
  <2>7. p \in attached[t] \/ (t = s /\ p = here) \/ (t = peer /\ p = there)
    BY <1>11, <2>5
  <2>8. (t = s => u = peer) /\ (t = peer => u = s)
    <3>1. s # peer /\ s \in {t, u} /\ peer \in {t, u} /\ t # u
      BY <1>4, <1>11, <2>1
    <3> QED BY <3>1
  <2> QED BY <2>2, <2>3, <2>4, <2>7, <2>8
<1>12. Ep!EndsMeet'
  <2>1. (Ep!Cardinality(Socket) = 2)' <=> Cardinality(Socket) = 2
    BY DEF Cardinality, Ep!Cardinality
  <2> QED BY <1>11, <2>1 DEF Ep!EndsMeet
<1> QED BY <1>5, <1>9, <1>10, <1>12 DEF Ep!LimitsKept

LEMMA EndpointConnected ==
  ASSUME EndpointsInv, ~aborted, Ep!TypesMatch, NEW s \in Socket, NEW protocol, Ep!connect(s, protocol)
  PROVE  EndpointsInv'
<1>1. UNCHANGED <<socket_options, type, accepted, endpoint, sets, ctx_terminated>>
  BY DEF Ep!connect
<1>2. CASE \E peer \in Socket : Ep!Connect_inproc(s, peer) /\ UNCHANGED objects
  <2>1. PICK peer \in Socket : Ep!Connect_inproc(s, peer) /\ UNCHANGED objects
    BY <1>2
  <2>2. /\ attached' = [t \in Socket |-> attached'[t]] /\ aborted' = FALSE
        /\ \A t \in Socket : \A p \in attached'[t] : {p.inpipe, p.outpipe} \subseteq BOOLEAN
        /\ Ep!LimitsKept' /\ Ep!EndsMeet'
    BY <2>1, InprocConnected
  <2>3. Ep!TypeOK'
    BY <1>1, <2>1, <2>2 DEF EndpointsInv, Ep!TypeOK
  <2> QED BY <1>1, <2>1, <2>2, <2>3 DEF EndpointsInv, Ep!NeverAborts, Ep!AffinityKept
<1>3. CASE Ep!Launch(s) /\ UNCHANGED attached
  <2>1. /\ IsFiniteSet(objects') /\ aborted' \in BOOLEAN
        /\ aborted' => accepted[s].affinity # 0 /\ Ep!Eligible(accepted[s].affinity) = {}
        /\ \A o \in objects' : ObjectRight(o)
    BY <1>3, ObjectLaunched
  <2>2. Ep!TypeOK'
    BY <1>1, <1>3, <2>1 DEF EndpointsInv, Ep!TypeOK, ObjectRight
  <2>3. Ep!NeverAborts'
    BY <1>1, <2>1 DEF Ep!NeverAborts, Ep!Eligible
  <2> QED BY <1>1, <1>3, <2>1, <2>2, <2>3 DEF ObjectRight, EndpointsInv, Ep!LimitsKept, Ep!EndsMeet, Ep!AffinityKept
<1> QED BY <1>2, <1>3 DEF Ep!connect

LEMMA ObjectsPlugged == ASSUME EndpointsInv, ~aborted, Ep!Plugged \/ Ep!Gone \/ Ep!Terminate PROVE EndpointsInv'
<1>1. /\ IsFiniteSet(objects') /\ {ctx_terminated', aborted'} \subseteq BOOLEAN
      /\ \A o \in objects' : ObjectRight(o)
  <2>1. /\ IsFiniteSet(objects) /\ {ctx_terminated, aborted} \subseteq BOOLEAN
        /\ \A o \in objects : ObjectRight(o)
    BY ObjectsRight DEF EndpointsInv, Ep!TypeOK
  <2>2. CASE Ep!Plugged
    <3>1. PICK o \in objects : objects' = (objects \ {o}) \union {[o EXCEPT !.polls = TRUE]} /\ UNCHANGED <<ctx_terminated, aborted>>
      BY <2>2 DEF Ep!Plugged
    <3> DEFINE new == [o EXCEPT !.polls = TRUE]
    <3>2. IsObject(o) /\ ObjectRight(o)
      BY <2>1 DEF ObjectRight
    <3>3. /\ DOMAIN new = DOMAIN o /\ new = [field \in DOMAIN new |-> new[field]]
          /\ new.thread = o.thread /\ new.affinity = o.affinity /\ new.polls = TRUE
      <4>1. DOMAIN o = {"id", "affinity", "thread", "polls"} /\ o = [field \in DOMAIN o |-> o[field]]
        BY <3>2 DEF IsObject
      <4>2. new = [field \in DOMAIN o |-> IF field = "polls" THEN TRUE ELSE o[field]]
        BY <4>1
      <4> HIDE DEF new
      <4> QED BY <4>1, <4>2
    <3>4. ObjectRight(new)
      BY <3>2, <3>3 DEF ObjectRight, IsObject
    <3> HIDE DEF new
    <3>5. objects' = (objects \ {o}) \union {new}
      BY <3>1 DEF new
    <3>6. IsFiniteSet(objects')
      BY <2>1, <3>5, FS_RemoveElement, FS_AddElement
    <3> QED BY <2>1, <3>1, <3>4, <3>5, <3>6
  <2>3. CASE Ep!Gone
    <3>1. PICK o \in objects : objects' = objects \ {o} /\ UNCHANGED <<ctx_terminated, aborted>>
      BY <2>3 DEF Ep!Gone
    <3>2. IsFiniteSet(objects')
      BY <2>1, <3>1, FS_RemoveElement
    <3> QED BY <2>1, <3>1, <3>2
  <2>4. CASE Ep!Terminate
    BY <2>1, <2>4 DEF Ep!Terminate
  <2> QED BY <2>2, <2>3, <2>4
<1>2. UNCHANGED <<socket_options, type, accepted, endpoint, attached, sets, aborted>>
  BY DEF Ep!Plugged, Ep!Gone, Ep!Terminate
<1>3. Ep!TypeOK'
  BY <1>1, <1>2 DEF EndpointsInv, Ep!TypeOK, ObjectRight
<1> QED BY <1>1, <1>2, <1>3 DEF ObjectRight, EndpointsInv, Ep!LimitsKept, Ep!NeverAborts, Ep!EndsMeet, Ep!AffinityKept

LEMMA EndpointsKept ==
  ASSUME Ep!ValuesFit, Ep!TypesMatch, EndpointsInv, [Ep!Next]_(Ep!vars) PROVE EndpointsInv'
<1>1. CASE Ep!Next
  <2>3. ~aborted
    BY <1>1 DEF Ep!Next
  <2>1. ASSUME NEW s \in Socket, NEW option \in Ep!Option, NEW value \in Value,
               Ep!Sensible(option, value), Ep!setsockopt(s, option, value)
        PROVE  EndpointsInv'
    BY <2>1, <2>3, OptionSet
  <2>2. ASSUME NEW s \in Socket, NEW protocol \in {"inproc", "tcp"}, Ep!bind(s, protocol) \/ Ep!connect(s, protocol)
        PROVE  EndpointsInv'
    BY <2>2, <2>3, EndpointBound, EndpointConnected
  <2> QED BY <1>1, <2>1, <2>2, <2>3, ObjectsPlugged DEF Ep!Next
<1>2. CASE UNCHANGED Ep!vars
  <2>1. UNCHANGED <<socket_options, type, accepted, endpoint, attached, objects, sets, ctx_terminated, aborted>>
    BY <1>2 DEF Ep!vars
  <2>2. Ep!TypeOK'
    BY <2>1 DEF EndpointsInv, Ep!TypeOK
  <2> QED BY <2>1, <2>2 DEF EndpointsInv, Ep!LimitsKept, Ep!NeverAborts, Ep!EndsMeet, Ep!AffinityKept, Ep!Eligible
<1> QED BY <1>1, <1>2

LEMMA EndpointsBegin == Ep!ValuesFit /\ Ep!Init => EndpointsInv
<1> SUFFICES ASSUME Ep!ValuesFit, Ep!Init PROVE EndpointsInv
  OBVIOUS
<1>1. /\ socket_options = [s \in Socket |-> Ep!options_t] /\ accepted = socket_options /\ type \in Types
      /\ endpoint = [s \in Socket |-> [registered |-> FALSE, options |-> Ep!options_t]]
      /\ attached = [s \in Socket |-> {}] /\ objects = {} /\ sets = 0 /\ ctx_terminated = FALSE /\ aborted = FALSE
  BY DEF Ep!Init
<1>2. Ep!options_t \in [Ep!Option -> Int] /\ WatermarkFits(Ep!options_t)
  <2>1. /\ Ep!options_t["hwm"] = 0 /\ 0 + 0 < 2^Width
        /\ Ep!options_t \in [Ep!Option -> Int]
    BY EndpointsFacts DEF Ep!options_t, Ep!Option, Ep!ValuesFit
  <2> QED BY <2>1 DEF WatermarkFits
<1> DEFINE initial == Ep!options_t
           none == [registered |-> FALSE, options |-> initial]
<1>3. none \in EndpointRecord /\ none.registered = FALSE /\ none.options = initial
  BY <1>2 DEF EndpointRecord
<1> HIDE DEF none
<1>4. \A s \in Socket : socket_options[s] = initial /\ endpoint[s] = none /\ attached[s] = {}
  BY <1>1 DEF none
<1>5. /\ socket_options \in [Socket -> [Ep!Option -> Int]] /\ endpoint \in [Socket -> EndpointRecord]
      /\ attached = [s \in Socket |-> attached[s]]
  BY <1>1, <1>2, <1>3 DEF none
<1>6. Ep!TypeOK
  <2>1. \A s \in Socket : endpoint[s].registered \in BOOLEAN
    BY <1>3, <1>4
  <2>2. \A s \in Socket : \A p \in attached[s] : {p.inpipe, p.outpipe} \subseteq BOOLEAN
    BY <1>4
  <2>3. sets \in 0..MaxSets /\ {ctx_terminated, aborted} \subseteq BOOLEAN
    <3>1. ctx_terminated = FALSE /\ aborted = FALSE /\ sets = 0 /\ MaxSets \in Nat
      BY <1>1, EndpointsFacts
    <3>2. sets \in 0..MaxSets
      BY <3>1
    <3>3. ctx_terminated \in BOOLEAN /\ aborted \in BOOLEAN
      BY <3>1, Zenon
    <3> QED BY <3>2, <3>3
  <2> QED BY <1>1, <1>5, <2>1, <2>2, <2>3 DEF Ep!TypeOK
<1>7. IsFiniteSet(objects)
  BY <1>1, FS_EmptySet
<1>8. Ep!LimitsKept /\ Ep!NeverAborts /\ Ep!EndsMeet /\ Ep!AffinityKept
  BY <1>1, <1>4 DEF Ep!LimitsKept, Ep!NeverAborts, Ep!EndsMeet, Ep!AffinityKept
<1>9. \A s \in Socket : WatermarkFits(socket_options[s]) /\ WatermarkFits(endpoint[s].options)
  BY <1>2, <1>3, <1>4
<1> QED BY <1>1, <1>5, <1>6, <1>7, <1>8, <1>9 DEF EndpointsInv

LEMMA EndpointsPromised == EndpointsInv => Ep!EndpointsSound
BY DEF EndpointsInv, Ep!EndpointsSound, Ep!SetIsGot, Ep!getsockopt

LEMMA EndpointsAlone == [ConnectionsNext]_connectionsVars => [Ep!Next]_(Ep!vars)
<1> SUFFICES ASSUME [ConnectionsNext]_connectionsVars, ~UNCHANGED endpointsVars PROVE Ep!Next
  BY Zenon DEF Ep!vars, endpointsVars
<1> QED BY Zenon DEF ConnectionsNext, OtherConnections, Stays, connectionsVars

LEMMA EndpointsInvariant == Ep!ValuesFit /\ Ep!TypesMatch => (ConnectionsSpec => []EndpointsInv)
<1> SUFFICES ASSUME Ep!ValuesFit, Ep!TypesMatch PROVE ConnectionsSpec => []EndpointsInv
  OBVIOUS
<1>1. ConnectionsInit => EndpointsInv
  BY EndpointsBegin DEF ConnectionsInit
<1>2. EndpointsInv /\ [ConnectionsNext]_connectionsVars => EndpointsInv'
  BY EndpointsAlone, EndpointsKept
<1> QED BY <1>1, <1>2, PTL DEF ConnectionsSpec

(***************************************************************************)
(* Addresses.                                                              *)
(***************************************************************************)
\* What the listener is at each step, and what has become of zmq_bind by then.
Bound == IF given.protocol = "tcp" THEN Ad!resolve_ip_interface ELSE Ad!resolve_local_path
IsListener(li) == DOMAIN li = {"phase", "s", "has_file", "addr"} /\ li = [field \in DOMAIN li |-> li[field]]
ListenerSteps(li, outcome) ==
  /\ (li.s <=> li.phase \in {"open", "bound", "listening"})
  /\ (li.has_file <=> li.phase \in {"bound", "listening"} /\ given.protocol = "ipc")
  /\ li.phase # "none" =>
       /\ given.protocol \in {"tcp", "ipc"} /\ Bound.rc = "ok" /\ li.addr = Bound.addr /\ Ad!Refused = "ok"
       /\ outcome = IF li.phase = "listening" THEN "ok" ELSE "none"
  /\ outcome = "ok" => Ad!Refused = "ok" /\ (given.protocol # "pgm" => li.phase = "listening")

\* The form of an address that may be connected to: what it takes to resolve it, but
\* for a host's name that has to be known.
Formed ==
  /\ given.protocol = "tcp" => Len(given.rest) = 2 /\ Ad!Service(given.rest[2])
  /\ given.protocol = "ipc" => ~given.long

\* A session is there for an address of that form, and one that connects to an address
\* in digits has found what they say.
SessionResolves ==
  /\ given_session.phase # "none" => Ad!Refused = "ok" /\ Formed /\ (connects = "ok" \/ given.protocol = "pgm")
  /\ binds = "ok" /\ given.protocol = "pgm" => given_session.phase # "none"
  /\ given_session.phase = "connecting" /\ (given.protocol = "tcp" => literal[Head(given.rest)] # NULL)
       => given_session.addr = Ad!set_address.addr

IsSession(se) == DOMAIN se = {"phase", "addr"} /\ se = [field \in DOMAIN se |-> se[field]]
AddressesInv ==
  /\ Ad!TypeOK /\ names \in Names /\ IsListener(given_listener) /\ IsSession(given_session)
  /\ ListenerSteps(given_listener, binds) /\ SessionResolves /\ Ad!NeverAborts

LEMMA AddressesFacts ==
  /\ \A part \in DOMAIN atoi : atoi[part] \in Nat /\ is_number[part] \in BOOLEAN
  /\ DOMAIN literal = DOMAIN atoi /\ DOMAIN nics \subseteq DOMAIN atoi
  /\ \A known \in Names : \A name \in DOMAIN known : known[name] # NULL
  /\ \A ad \in Address : ad.rest \in Seq(DOMAIN atoi) /\ ad.long \in BOOLEAN
BY ConnectionsAssumption DEF ConnectionsAssumption, Ad!AddressesAssumption, Ad!Part

\* An address resolves if it has the form, and only a name that is not known stands in
\* the way.
LEMMA FormResolves ==
  ASSUME names \in Names
  PROVE  /\ Ad!set_address.rc = "ok" => Formed
         /\ Formed /\ Ad!set_address.rc # "ok" =>
              given.protocol = "tcp" /\ literal[Head(given.rest)] = NULL /\ Head(given.rest) \notin DOMAIN names
<1>1. (\A errno : Ad!Error(errno).rc = errno) /\ (\A ip, port : Ad!At(ip, port).rc = "ok")
  BY DEF Ad!Error, Ad!At
<1>2. CASE given.protocol = "tcp"
  <2> DEFINE host == Head(given.rest)
             ip == IF literal[host] # NULL THEN literal[host] ELSE IF host \in DOMAIN names THEN names[host] ELSE NULL
             form == Len(given.rest) = 2 /\ Ad!Service(given.rest[2])
  <2>1. Ad!set_address = IF ~form \/ ip = NULL THEN Ad!Error("EINVAL") ELSE Ad!At(ip, atoi[given.rest[2]])
    BY <1>2 DEF Ad!set_address, Ad!resolve_ip_hostname
  <2>2. ip = NULL => literal[host] = NULL /\ host \notin DOMAIN names
    BY AddressesFacts
  <2>3. Formed <=> form
    BY <1>2 DEF Formed
  <2> HIDE DEF ip, form
  <2>4. IF ~form \/ ip = NULL THEN Ad!set_address.rc = "EINVAL" ELSE Ad!set_address.rc = "ok"
    BY <1>1, <2>1
  <2> QED BY <1>2, <2>2, <2>3, <2>4
<1>3. CASE given.protocol = "ipc"
  <2>1. Ad!set_address = Ad!resolve_local_path /\ (Formed <=> ~given.long)
    BY <1>3 DEF Ad!set_address, Formed
  <2> QED BY <1>1, <2>1 DEF Ad!resolve_local_path
<1>4. CASE given.protocol \notin {"tcp", "ipc"}
  <2>1. Ad!set_address.rc = "ok" /\ Formed
    BY <1>4 DEF Ad!set_address, Formed
  <2> QED BY <2>1
<1> QED BY <1>2, <1>3, <1>4

\* Whatever the name server learns or forgets, an address keeps its form, and one in
\* digits goes on standing for the same.
LEMMA StillResolves ==
  ASSUME UNCHANGED <<given, given_type, io_threads>>, names \in Names, names' \in Names
  PROVE  /\ Ad!Refused' = Ad!Refused /\ Bound' = Bound /\ (Formed' <=> Formed)
         /\ (given.protocol = "tcp" => literal[Head(given.rest)] # NULL) => (Ad!set_address)' = Ad!set_address
<1>1. Ad!Refused' = Ad!Refused
  BY DEF Ad!Refused, Ad!parse_uri, Ad!check_protocol
<1>2. Bound' = Bound
  BY DEF Bound, Ad!resolve_ip_interface, Ad!resolve_local_path, Ad!At, Ad!Error, Ad!resolve_nic_name, Ad!Service
<1>3. Formed' <=> Formed
  BY DEF Formed, Ad!Service
<1>4. CASE given.protocol # "tcp"
  <2>1. Ad!resolve_local_path' = Ad!resolve_local_path
    BY DEF Ad!resolve_local_path, Ad!Error
  <2> QED BY <1>1, <1>2, <1>3, <1>4, <2>1 DEF Ad!set_address
<1>5. CASE given.protocol = "tcp"
  <2> DEFINE host == Head(given.rest)
             Ip(known) == IF literal[host] # NULL THEN literal[host] ELSE IF host \in DOMAIN known THEN known[host] ELSE NULL
             Fails(known) == Len(given.rest) # 2 \/ ~Ad!Service(given.rest[2]) \/ Ip(known) = NULL
             Found(known) == IF Fails(known) THEN Ad!Error("EINVAL") ELSE Ad!At(Ip(known), atoi[given.rest[2]])
  <2>1. Ad!set_address = Found(names) /\ (Ad!set_address)' = Found(names')
    BY <1>5 DEF Ad!set_address, Ad!resolve_ip_hostname, Ad!Error, Ad!At, Ad!Service
  <2>2. literal[host] # NULL => Ip(names) = Ip(names')
    OBVIOUS
  <2> HIDE DEF Ip
  <2>3. literal[host] # NULL => Found(names') = Found(names)
    BY <2>2
  <2> HIDE DEF Found
  <2> QED BY <1>1, <1>2, <1>3, <1>5, <2>1, <2>3
<1> QED BY <1>4, <1>5

\* The listener's fields after a step.
LEMMA ListenerChanges ==
  ASSUME NEW li, IsListener(li), NEW value
  PROVE  /\ [li EXCEPT !.phase = value].phase = value
         /\ \A field \in {"s", "has_file", "addr"} : [li EXCEPT !.phase = value][field] = li[field]
         /\ IsListener([li EXCEPT !.phase = value])
BY DEF IsListener

NoListener == [phase |-> "none", s |-> FALSE, has_file |-> FALSE, addr |-> NULL]
LEMMA ListenerReset ==
  /\ IsListener(NoListener) /\ NoListener.phase = "none" /\ NoListener.s = FALSE /\ NoListener.has_file = FALSE
  /\ \A outcome : outcome # "ok" => ListenerSteps(NoListener, outcome)
<1>1. DOMAIN NoListener = {"phase", "s", "has_file", "addr"}
  BY DEF NoListener
<1>2. NoListener = [field \in DOMAIN NoListener |-> NoListener[field]]
  BY DEF NoListener
<1>3. NoListener.phase = "none" /\ NoListener.s = FALSE /\ NoListener.has_file = FALSE
  BY Zenon DEF NoListener
<1>4. IsListener(NoListener)
  BY <1>1, <1>2, Zenon DEF IsListener
<1>5. \A outcome : outcome # "ok" => ListenerSteps(NoListener, outcome)
  BY <1>3 DEF ListenerSteps
<1> QED BY <1>3, <1>4, <1>5

LEMMA ListenerOpens ==
  ASSUME AddressesInv, given_session.phase # "aborted", Ad!Open \/ Ad!Bind \/ Ad!Listen
  PROVE  AddressesInv'
<1>1. UNCHANGED <<given, given_type, io_threads, names, connects, given_session>>
  BY DEF Ad!Open, Ad!Bind, Ad!Listen, Ad!world
<1>2. Ad!Refused' = Ad!Refused /\ Bound' = Bound /\ Ad!set_address' = Ad!set_address /\ (Formed' <=> Formed)
  BY <1>1 DEF Formed, Ad!Refused, Ad!parse_uri, Ad!check_protocol, Bound, Ad!resolve_ip_interface, Ad!resolve_local_path, Ad!At,
              Ad!Error, Ad!resolve_nic_name, Ad!Service, Ad!set_address, Ad!resolve_ip_hostname
<1>3. /\ given_listener.phase \in {"resolved", "open", "bound"}
      /\ given.protocol \in {"tcp", "ipc"} /\ Bound.rc = "ok" /\ given_listener.addr = Bound.addr
      /\ binds = "none" /\ Ad!Refused = "ok" /\ IsListener(given_listener)
      /\ (given_listener.s <=> given_listener.phase \in {"open", "bound"})
      /\ (given_listener.has_file <=> given_listener.phase = "bound" /\ given.protocol = "ipc")
  BY DEF Ad!Open, Ad!Bind, Ad!Listen, AddressesInv, ListenerSteps
<1>4. /\ IsListener(given_listener') /\ given_listener'.phase \in {"none", "resolved", "open", "bound", "listening"}
      /\ given_listener'.s \in BOOLEAN /\ given_listener'.has_file \in BOOLEAN
      /\ binds' \in {"none", "ok", "failed"} /\ ListenerSteps(given_listener', binds')
  <2>1. CASE Ad!Close
    <3>1. given_listener' = NoListener /\ binds' = "failed"
      BY <2>1 DEF Ad!Close, NoListener
    <3>2. ListenerSteps(NoListener, "failed")
      BY ListenerReset
    <3>3. IsListener(given_listener') /\ ListenerSteps(given_listener', binds')
      BY <3>1, <3>2, ListenerReset, Zenon
    <3>4. given_listener'.phase = "none" /\ given_listener'.s \in BOOLEAN /\ given_listener'.has_file \in BOOLEAN
      BY <3>1, ListenerReset
    <3> QED BY <3>1, <3>3, <3>4
  <2>2. CASE Ad!Open /\ ~Ad!Close
    <3>1. given_listener.phase = "resolved" /\ given_listener' = [given_listener EXCEPT !.phase = "open", !.s = TRUE] /\ binds' = binds
      BY <2>2 DEF Ad!Open
    <3>2. IsListener(given_listener')
      BY <1>3, <3>1 DEF IsListener
    <3>3. given_listener'.phase = "open" /\ given_listener'.s = TRUE
      BY <1>3, <3>1 DEF IsListener
    <3>4. given_listener'.has_file = given_listener.has_file /\ given_listener'.addr = given_listener.addr
      BY <1>3, <3>1 DEF IsListener
    <3>5. given_listener.s = FALSE /\ given_listener.has_file \in BOOLEAN /\ binds' = "none"
      BY <1>3, <3>1 DEF AddressesInv, Ad!TypeOK
    <3>6. ListenerSteps(given_listener', binds')
      BY <1>3, <3>1, <3>3, <3>4, <3>5 DEF ListenerSteps
    <3> QED BY <3>2, <3>3, <3>4, <3>5, <3>6
  <2>3. CASE Ad!Bind /\ ~Ad!Close
    <3> DEFINE file_there == given.protocol = "ipc"
    <3>1. /\ given_listener.phase = "open" /\ binds' = binds
          /\ given_listener' = [given_listener EXCEPT !.phase = "bound", !.has_file = file_there]
      BY <2>3 DEF Ad!Bind
    <3> HIDE DEF file_there
    <3>2. IsListener(given_listener')
      BY <1>3, <3>1 DEF IsListener
    <3>3. given_listener'.phase = "bound" /\ given_listener'.has_file = file_there
      BY <1>3, <3>1 DEF IsListener
    <3>4. given_listener'.s = given_listener.s /\ given_listener'.addr = given_listener.addr
      BY <1>3, <3>1 DEF IsListener
    <3> QED BY <1>3, <3>1, <3>2, <3>3, <3>4 DEF ListenerSteps, file_there
  <2>4. CASE Ad!Listen /\ ~Ad!Close
    <3>1. given_listener.phase = "bound" /\ given_listener' = [given_listener EXCEPT !.phase = "listening"] /\ binds' = "ok"
      BY <2>4 DEF Ad!Listen
    <3>2. /\ IsListener(given_listener') /\ given_listener'.phase = "listening" /\ given_listener'.s = given_listener.s
          /\ given_listener'.has_file = given_listener.has_file /\ given_listener'.addr = given_listener.addr
      BY <1>3, <3>1, ListenerChanges
    <3>3. given_listener.s \in BOOLEAN /\ given_listener.has_file \in BOOLEAN
      BY DEF AddressesInv, Ad!TypeOK
    <3>4. ListenerSteps(given_listener', binds')
      BY <1>3, <3>1, <3>2 DEF ListenerSteps
    <3> QED BY <3>1, <3>2, <3>3, <3>4
  <2> QED BY <2>1, <2>2, <2>3, <2>4
<1>5. Ad!TypeOK'
  BY <1>1, <1>4 DEF AddressesInv, Ad!TypeOK, Ad!Outcomes
<1>6. ListenerSteps(given_listener, binds)'
  BY <1>1, <1>2, <1>4 DEF ListenerSteps
<1>7. SessionResolves'
  BY <1>1, <1>2, <1>3 DEF AddressesInv, SessionResolves
<1> QED BY <1>1, <1>4, <1>5, <1>6, <1>7 DEF AddressesInv, Ad!NeverAborts, IsListener, IsSession

LEMMA Outcome ==
  /\ Ad!Refused \in {"ok", "EINVAL", "EPROTONOSUPPORT", "ENOCOMPATPROTO"}
  /\ Bound.rc \in {"ok", "EINVAL", "ENODEV", "ENAMETOOLONG"}
  /\ Ad!set_address.rc \in {"ok", "EINVAL", "ENAMETOOLONG"}
  /\ Ad!Refused = "ok" => given.protocol \in {"tcp", "ipc", "pgm"}
  /\ given.protocol = "pgm" => Ad!set_address.rc = "ok"
<1>1. (\A errno : Ad!Error(errno).rc = errno) /\ (\A ip, port : Ad!At(ip, port).rc = "ok")
  BY DEF Ad!Error, Ad!At
<1>2. Ad!resolve_local_path.rc \in {"ok", "ENAMETOOLONG"}
  BY <1>1 DEF Ad!resolve_local_path
<1>3. Ad!resolve_ip_hostname.rc \in {"ok", "EINVAL"}
  BY <1>1 DEF Ad!resolve_ip_hostname
<1>4. Ad!resolve_ip_interface.rc \in {"ok", "EINVAL", "ENODEV"}
  BY <1>1 DEF Ad!resolve_ip_interface
<1>5. Ad!Refused \in {"ok", "EINVAL", "EPROTONOSUPPORT", "ENOCOMPATPROTO"}
      /\ (Ad!Refused = "ok" => given.protocol \in {"tcp", "ipc", "pgm"})
  BY DEF Ad!Refused, Ad!parse_uri, Ad!check_protocol
<1>6. Bound.rc \in {"ok", "EINVAL", "ENODEV", "ENAMETOOLONG"}
  BY <1>2, <1>4 DEF Bound
<1>7. Ad!set_address.rc \in {"ok", "EINVAL", "ENAMETOOLONG"} /\ (given.protocol = "pgm" => Ad!set_address.rc = "ok")
  BY <1>2, <1>3 DEF Ad!set_address
<1> QED BY <1>5, <1>6, <1>7

LEMMA SessionLaunched ==
  ASSUME IsSession(given_session), given_session.phase \in {"none", "launched", "connecting", "aborted"}, NEW outcome
  PROVE  /\ IsSession(Ad!Launched(outcome))
         /\ Ad!Launched(outcome).phase = IF outcome = "ok" /\ given_session.phase = "none" THEN "launched" ELSE given_session.phase
         /\ Ad!Launched(outcome).addr = given_session.addr
BY DEF Ad!Launched, IsSession

LEMMA SameAddress ==
  ASSUME UNCHANGED <<given, given_type, io_threads, names>>
  PROVE  Ad!Refused' = Ad!Refused /\ Bound' = Bound /\ Ad!set_address' = Ad!set_address /\ (Formed' <=> Formed)
BY DEF Formed, Ad!Refused, Ad!parse_uri, Ad!check_protocol, Bound, Ad!resolve_ip_interface, Ad!resolve_local_path, Ad!At,
       Ad!Error, Ad!resolve_nic_name, Ad!Service, Ad!set_address, Ad!resolve_ip_hostname

LEMMA AddressBound == ASSUME AddressesInv, given_session.phase # "aborted", Ad!bind PROVE AddressesInv'
<1>1. UNCHANGED <<given, given_type, io_threads, names, connects>> /\ binds = "none" /\ given_listener.phase = "none"
  BY DEF Ad!bind, Ad!world
<1>2. Ad!Refused' = Ad!Refused /\ Bound' = Bound /\ Ad!set_address' = Ad!set_address /\ (Formed' <=> Formed)
  BY <1>1, SameAddress
<1>3. /\ given_listener.s = FALSE /\ given_listener.has_file = FALSE /\ IsListener(given_listener) /\ IsSession(given_session)
      /\ given_session.phase \in {"none", "launched", "connecting"} /\ connects \in Ad!Outcomes
  BY <1>1 DEF AddressesInv, ListenerSteps, Ad!TypeOK
<1>4. CASE binds' \in Ad!Outcomes \ {"none", "ok"} /\ UNCHANGED <<given_listener, given_session>>
  <2>1. Ad!TypeOK'
    BY <1>1, <1>3, <1>4 DEF AddressesInv, Ad!TypeOK
  <2>2. ListenerSteps(given_listener, binds)'
    BY <1>1, <1>3, <1>4 DEF ListenerSteps
  <2>3. SessionResolves'
    BY <1>1, <1>2, <1>4 DEF AddressesInv, SessionResolves
  <2> QED BY <1>1, <1>4, <2>1, <2>2, <2>3 DEF AddressesInv, Ad!NeverAborts, IsListener, IsSession
<1>5. CASE Ad!Refused = "ok" /\ given.protocol = "pgm" /\ binds' = "ok" /\ given_session' = Ad!Launched("ok") /\ UNCHANGED given_listener
  <2>1. /\ IsSession(given_session') /\ given_session'.phase \in {"launched", "connecting"} /\ given_session'.addr = given_session.addr
        /\ (given_session'.phase = "connecting" => given_session.phase = "connecting")
    BY <1>3, <1>5, SessionLaunched
  <2>2. Ad!TypeOK'
    BY <1>1, <1>3, <1>5, <2>1 DEF AddressesInv, Ad!TypeOK, Ad!Outcomes
  <2>3. ListenerSteps(given_listener, binds)'
    BY <1>1, <1>2, <1>3, <1>5 DEF ListenerSteps
  <2>4. Formed
    BY <1>5 DEF Formed
  <2>5. SessionResolves'
    BY <1>1, <1>2, <1>5, <2>1, <2>4 DEF AddressesInv, SessionResolves
  <2> QED BY <1>1, <1>5, <2>1, <2>2, <2>3, <2>5 DEF AddressesInv, Ad!NeverAborts, IsListener, IsSession
<1>6. CASE /\ Ad!Refused = "ok" /\ given.protocol # "pgm" /\ Bound.rc = "ok" /\ UNCHANGED <<binds, given_session>>
           /\ given_listener' = [given_listener EXCEPT !.phase = "resolved", !.addr = Bound.addr]
  <2> DEFINE place == Bound.addr
  <2>1. given_listener' = [given_listener EXCEPT !.phase = "resolved", !.addr = place]
    BY <1>6
  <2> HIDE DEF place
  <2>2. IsListener(given_listener')
    BY <1>3, <2>1 DEF IsListener
  <2>3. given_listener'.phase = "resolved" /\ given_listener'.addr = place
    BY <1>3, <2>1 DEF IsListener
  <2>4. given_listener'.s = given_listener.s /\ given_listener'.has_file = given_listener.has_file
    BY <1>3, <2>1 DEF IsListener
  <2>5. given.protocol \in {"tcp", "ipc"}
    BY <1>6, Outcome
  <2>6. Ad!TypeOK'
    BY <1>1, <1>3, <1>6, <2>3, <2>4 DEF AddressesInv, Ad!TypeOK
  <2>7. ListenerSteps(given_listener, binds)'
    BY <1>1, <1>2, <1>3, <1>6, <2>3, <2>4, <2>5 DEF ListenerSteps, place
  <2>8. SessionResolves'
    BY <1>1, <1>2, <1>6 DEF AddressesInv, SessionResolves
  <2> QED BY <1>1, <1>6, <2>2, <2>6, <2>7, <2>8 DEF AddressesInv, Ad!NeverAborts, IsSession
<1>7. \/ binds' \in Ad!Outcomes \ {"none", "ok"} /\ UNCHANGED <<given_listener, given_session>>
      \/ Ad!Refused = "ok" /\ given.protocol = "pgm" /\ binds' = "ok" /\ given_session' = Ad!Launched("ok") /\ UNCHANGED given_listener
      \/ /\ Ad!Refused = "ok" /\ given.protocol # "pgm" /\ Bound.rc = "ok" /\ UNCHANGED <<binds, given_session>>
         /\ given_listener' = [given_listener EXCEPT !.phase = "resolved", !.addr = Bound.addr]
  <2>1. CASE Ad!Refused # "ok" \/ ~io_threads
    <3>1. binds' \in {Ad!Refused, "EMTHREAD"} /\ binds' # "ok" /\ UNCHANGED <<given_listener, given_session>>
      BY <2>1 DEF Ad!bind
    <3> QED BY <3>1, Outcome DEF Ad!Outcomes
  <2>2. CASE Ad!Refused = "ok" /\ io_threads /\ given.protocol = "pgm"
    BY <2>2 DEF Ad!bind
  <2>3. CASE Ad!Refused = "ok" /\ io_threads /\ given.protocol # "pgm"
    <3> DEFINE found == Bound
    <3>1. IF found.rc # "ok" THEN binds' = found.rc /\ UNCHANGED <<given_listener, given_session>>
          ELSE given_listener' = [given_listener EXCEPT !.phase = "resolved", !.addr = found.addr] /\ UNCHANGED <<binds, given_session>>
      BY <2>3, Zenon DEF Ad!bind, Bound
    <3> QED BY <2>3, <3>1, Outcome DEF Ad!Outcomes
  <2> QED BY <2>1, <2>2, <2>3
<1> QED BY <1>4, <1>5, <1>6, <1>7

LEMMA AddressConnected == ASSUME AddressesInv, given_session.phase # "aborted", Ad!connect PROVE AddressesInv'
<1>1. UNCHANGED <<given, given_type, io_threads, names, binds, given_listener>> /\ connects = "none"
  BY DEF Ad!connect, Ad!world
<1>2. Ad!Refused' = Ad!Refused /\ Bound' = Bound /\ Ad!set_address' = Ad!set_address /\ (Formed' <=> Formed)
  BY <1>1, SameAddress
<1>3. connects' \in Ad!Outcomes \ {"none"} /\ (connects' = "ok" => Ad!Refused = "ok" /\ Formed)
  <2>1. connects' = IF Ad!Refused # "ok" THEN Ad!Refused
                    ELSE IF Ad!set_address.rc # "ok" THEN Ad!set_address.rc ELSE IF ~io_threads THEN "EMTHREAD" ELSE "ok"
    BY DEF Ad!connect
  <2>2. names \in Names
    BY DEF AddressesInv
  <2> QED BY <2>1, <2>2, Outcome, FormResolves DEF Ad!Outcomes
<1>4. /\ IsSession(given_session) /\ given_session.phase \in {"none", "launched", "connecting", "aborted"} /\ given_session.phase # "aborted"
      /\ given_session' = Ad!Launched(connects')
  BY DEF AddressesInv, Ad!TypeOK, Ad!NeverAborts, Ad!connect
<1>5. /\ IsSession(given_session') /\ given_session'.addr = given_session.addr
      /\ given_session'.phase = IF connects' = "ok" /\ given_session.phase = "none" THEN "launched" ELSE given_session.phase
  BY <1>4, SessionLaunched
<1>6. given_session'.phase \in {"none", "launched", "connecting"}
  BY <1>4, <1>5
<1>7. Ad!TypeOK'
  BY <1>1, <1>3, <1>6 DEF AddressesInv, Ad!TypeOK
<1>8. ListenerSteps(given_listener, binds)'
  BY <1>1, <1>2 DEF AddressesInv, ListenerSteps
<1>9. SessionResolves'
  BY <1>1, <1>2, <1>3, <1>5 DEF AddressesInv, SessionResolves
<1> QED BY <1>1, <1>5, <1>6, <1>7, <1>8, <1>9 DEF AddressesInv, Ad!NeverAborts, IsListener

LEMMA AddressTried == ASSUME AddressesInv, Ad!start_connecting PROVE AddressesInv'
<1>1. UNCHANGED <<given, given_type, io_threads, names, binds, connects, given_listener>> /\ given_session.phase \in {"launched", "connecting"}
  BY DEF Ad!start_connecting, Ad!world
<1>2. Ad!Refused' = Ad!Refused /\ Bound' = Bound /\ Ad!set_address' = Ad!set_address /\ (Formed' <=> Formed)
  BY <1>1, SameAddress
<1>3. Ad!Refused = "ok" /\ Formed /\ (connects = "ok" \/ given.protocol = "pgm") /\ names \in Names
  BY <1>1 DEF AddressesInv, SessionResolves
<1>4. ListenerSteps(given_listener, binds)'
  BY <1>1, <1>2 DEF AddressesInv, ListenerSteps
<1>5. CASE Ad!set_address.rc = "ok"
  <2> DEFINE place == Ad!set_address.addr
  <2>1. given_session' = [phase |-> "connecting", addr |-> place]
    BY <1>5 DEF Ad!start_connecting
  <2> HIDE DEF place
  <2>2. IsSession(given_session') /\ given_session'.phase = "connecting" /\ given_session'.addr = place
    BY <2>1 DEF IsSession
  <2>3. Ad!TypeOK'
    BY <1>1, <2>2 DEF AddressesInv, Ad!TypeOK
  <2>4. SessionResolves'
    BY <1>1, <1>2, <1>3, <2>2 DEF SessionResolves, place
  <2> QED BY <1>1, <1>4, <2>2, <2>3, <2>4 DEF AddressesInv, Ad!NeverAborts, IsListener
<1>6. CASE Ad!set_address.rc # "ok"
  <2>1. given_session' = [phase |-> "aborted", addr |-> NULL]
    BY <1>6 DEF Ad!start_connecting
  <2>2. IsSession(given_session') /\ given_session'.phase = "aborted"
    BY <2>1 DEF IsSession
  <2>3. Ad!TypeOK'
    BY <1>1, <2>2 DEF AddressesInv, Ad!TypeOK
  <2>4. SessionResolves'
    BY <1>1, <1>2, <1>3, <2>2 DEF SessionResolves
  <2>5. given.protocol = "tcp" /\ literal[Head(given.rest)] = NULL /\ Head(given.rest) \notin DOMAIN names
    BY <1>3, <1>6, FormResolves
  <2>6. Ad!NeverAborts'
    BY <1>1, <2>5 DEF Ad!NeverAborts
  <2> QED BY <1>1, <1>4, <2>2, <2>3, <2>4, <2>6 DEF AddressesInv, IsListener
<1> QED BY <1>5, <1>6

LEMMA NamesLearnt == ASSUME AddressesInv, given_session.phase # "aborted", Ad!ChangeNames PROVE AddressesInv'
<1>1. /\ UNCHANGED <<given, given_type, io_threads, binds, connects, given_listener, given_session>>
      /\ names \in Names /\ names' \in Names
  BY DEF AddressesInv, Ad!ChangeNames, Ad!world
<1>2. /\ Ad!Refused' = Ad!Refused /\ Bound' = Bound /\ (Formed' <=> Formed)
      /\ ((given.protocol = "tcp" => literal[Head(given.rest)] # NULL) => (Ad!set_address)' = Ad!set_address)
  BY <1>1, StillResolves
<1>3. Ad!TypeOK'
  BY <1>1 DEF AddressesInv, Ad!TypeOK
<1>4. ListenerSteps(given_listener, binds)'
  BY <1>1, <1>2 DEF AddressesInv, ListenerSteps
<1>5. SessionResolves'
  BY <1>1, <1>2 DEF AddressesInv, SessionResolves
<1> QED BY <1>1, <1>3, <1>4, <1>5 DEF AddressesInv, Ad!NeverAborts, IsListener, IsSession

LEMMA AddressesKept == AddressesInv /\ [Ad!Next]_(Ad!addressVars) => AddressesInv'
<1> SUFFICES ASSUME AddressesInv, [Ad!Next]_(Ad!addressVars) PROVE AddressesInv'
  OBVIOUS
<1>1. CASE Ad!Next
  BY <1>1, AddressBound, AddressConnected, AddressTried, NamesLearnt, ListenerOpens DEF Ad!Next
<1>2. CASE UNCHANGED Ad!addressVars
  <2>1. UNCHANGED <<given, given_type, io_threads, names, binds, connects, given_listener, given_session>>
    BY <1>2 DEF Ad!addressVars
  <2>2. Ad!Refused' = Ad!Refused /\ Bound' = Bound /\ Ad!set_address' = Ad!set_address /\ (Formed' <=> Formed)
    BY <2>1, SameAddress
  <2>3. Ad!TypeOK'
    BY <2>1 DEF AddressesInv, Ad!TypeOK
  <2>4. ListenerSteps(given_listener, binds)' /\ SessionResolves'
    BY <2>1, <2>2 DEF AddressesInv, ListenerSteps, SessionResolves
  <2> QED BY <2>1, <2>3, <2>4 DEF AddressesInv, Ad!NeverAborts, IsListener, IsSession
<1> QED BY <1>1, <1>2

LEMMA AddressesBegin == Ad!Init => AddressesInv
<1> SUFFICES ASSUME Ad!Init PROVE AddressesInv
  OBVIOUS
<1>1. /\ given \in Address /\ given_type \in {"pub", "req"} /\ io_threads \in BOOLEAN /\ names \in Names
      /\ binds = "none" /\ connects = "none" /\ given_listener = NoListener
      /\ given_session = [phase |-> "none", addr |-> NULL]
  BY DEF Ad!Init, NoListener
<1>2. IsSession(given_session) /\ given_session.phase = "none"
  BY <1>1 DEF IsSession
<1>3. IsListener(given_listener) /\ ListenerSteps(given_listener, binds)
  <2>1. ListenerSteps(NoListener, "none")
    BY ListenerReset
  <2> QED BY <1>1, <2>1, ListenerReset, Zenon
<1>4. given_listener.phase = "none" /\ given_listener.s = FALSE /\ given_listener.has_file = FALSE
  BY <1>1, ListenerReset, Zenon
<1>5. Ad!TypeOK
  BY <1>1, <1>2, <1>4 DEF Ad!TypeOK, Ad!Outcomes
<1>6. SessionResolves /\ Ad!NeverAborts
  BY <1>1, <1>2 DEF SessionResolves, Ad!NeverAborts
<1> QED BY <1>1, <1>2, <1>3, <1>5, <1>6 DEF AddressesInv

\* In digits, the listener's reading of an address and the session's are the same.
LEMMA SamePlaceFound ==
  ASSUME Ad!NicsNamed, given \in Address, given.protocol = "tcp", literal[Head(given.rest)] # NULL,
         Ad!set_address.rc = "ok", Bound.rc = "ok"
  PROVE  Ad!set_address.addr = Bound.addr
<1> DEFINE parts == given.rest
           host == Head(parts)
<1>1. \A ip, port : Ad!At(ip, port).rc = "ok" /\ Ad!At(ip, port).addr = [ip |-> ip, port |-> port]
  BY DEF Ad!At
<1>2. \A errno : Ad!Error(errno).rc = errno
  BY DEF Ad!Error
<1>3. Ad!set_address = Ad!resolve_ip_hostname /\ Bound = Ad!resolve_ip_interface
  BY DEF Ad!set_address, Bound
<1>4. Len(parts) = 2 /\ Ad!Service(parts[2]) /\ Ad!set_address = Ad!At(literal[host], atoi[parts[2]])
  BY <1>2, <1>3 DEF Ad!resolve_ip_hostname
<1>5. parts \in Seq(DOMAIN atoi) /\ host = parts[1] /\ parts[1] \in DOMAIN atoi /\ parts[2] \in DOMAIN atoi
  <2>1. parts \in Seq(DOMAIN atoi)
    BY AddressesFacts
  <2> QED BY <1>4, <2>1
<1>6. atoi[parts[2]] \in Nat /\ atoi[parts[2]] <= 65535 /\ atoi[parts[2]] % 65536 = atoi[parts[2]]
  <2>1. atoi[parts[2]] \in Nat
    BY <1>5, AddressesFacts
  <2>2. atoi[parts[2]] <= 65535
    BY <1>4 DEF Ad!Service
  <2> QED BY <2>1, <2>2
<1>7. Ad!Last(parts) = parts[2] /\ Ad!Front(parts) = <<parts[1]>>
  <2>1. Ad!Last(parts) = parts[2]
    BY <1>4 DEF Ad!Last
  <2>2. Ad!Front(parts) = SubSeq(parts, 1, 1)
    BY <1>4 DEF Ad!Front
  <2>3. SubSeq(parts, 1, 1) = <<parts[1]>>
    <3> DEFINE first == SubSeq(parts, 1, 1)
    <3>1. first \in Seq(DOMAIN atoi) /\ Len(first) = 1 /\ first[1] = parts[1]
      BY <1>4, <1>5, SubSeqProperties
    <3> HIDE DEF first
    <3>2. <<parts[1]>> \in Seq(DOMAIN atoi) /\ Len(<<parts[1]>>) = 1 /\ <<parts[1]>>[1] = parts[1]
      BY <1>5
    <3>3. first = <<parts[1]>>
      BY <3>1, <3>2, SeqEqual
    <3> QED BY <3>3 DEF first
  <2> QED BY <2>1, <2>2, <2>3
<1>8. host # "*" /\ host \notin DOMAIN nics
  BY <1>5 DEF Ad!NicsNamed, Ad!Part
<1>9. Len(<<parts[1]>>) = 1 /\ <<parts[1]>>[1] = host /\ (<<parts[1]>> = <<"*">> => host = "*")
  BY <1>5
<1>10. Ad!resolve_nic_name(host) = NULL
  BY <1>8 DEF Ad!resolve_nic_name
<1> DEFINE port == atoi[parts[2]]
           interface == <<parts[1]>>
<1>11. Ad!resolve_ip_interface =
         IF Len(parts) < 2 \/ port % 65536 = 0 THEN Ad!Error("EINVAL")
         ELSE IF interface = <<"*">> THEN Ad!At(ANY, port % 65536)
         ELSE IF Len(interface) = 1 /\ Ad!resolve_nic_name(interface[1]) # NULL THEN Ad!At(Ad!resolve_nic_name(interface[1]), port % 65536)
         ELSE IF Len(interface) = 1 /\ literal[interface[1]] # NULL /\ Ad!Service(parts[2]) THEN Ad!At(literal[interface[1]], port % 65536)
         ELSE Ad!Error("ENODEV")
  BY <1>7 DEF Ad!resolve_ip_interface
<1> HIDE DEF port, interface
<1>12. Len(interface) = 1 /\ interface[1] = host /\ interface # <<"*">>
  BY <1>8, <1>9 DEF interface
<1>13. Bound = Ad!At(literal[host], port % 65536)
  BY <1>2, <1>3, <1>4, <1>10, <1>11, <1>12
<1> QED BY <1>4, <1>6, <1>13 DEF port

LEMMA AddressesPromised == ASSUME Ad!NicsNamed, AddressesInv PROVE Ad!AddressesSound
<1>1. Ad!TypeOK /\ Ad!NeverAborts /\ given \in Address
  BY DEF AddressesInv, Ad!TypeOK
<1>2. Ad!AllOrNothing
  <2>1. /\ binds \notin {"none", "ok"} => given_listener.phase = "none"
        /\ binds = "ok" => given.protocol = "pgm" \/ given_listener.phase = "listening"
        /\ given_listener.phase \in {"none", "listening"} =>
             /\ given_listener.s <=> given_listener.phase = "listening"
             /\ given_listener.has_file <=> given_listener.phase = "listening" /\ given.protocol = "ipc"
    BY DEF AddressesInv, ListenerSteps
  <2>2. /\ binds = "ok" /\ given.protocol = "pgm" => given_session.phase # "none"
        /\ connects # "ok" /\ given.protocol # "pgm" => given_session.phase = "none"
    BY DEF AddressesInv, SessionResolves
  <2> QED BY <2>1, <2>2 DEF Ad!AllOrNothing
<1>3. Ad!SamePlace
  <2> SUFFICES ASSUME given_session.phase = "connecting", given_listener.phase = "listening",
                      given.protocol = "tcp" => literal[Head(given.rest)] # NULL
               PROVE  given_session.addr = given_listener.addr
    BY DEF Ad!SamePlace
  <2>1. /\ given.protocol \in {"tcp", "ipc"} /\ Bound.rc = "ok" /\ given_listener.addr = Bound.addr
        /\ Formed /\ given_session.addr = Ad!set_address.addr /\ names \in Names
    BY DEF AddressesInv, ListenerSteps, SessionResolves
  <2>2. CASE given.protocol = "tcp"
    <3>1. Ad!set_address.rc = "ok"
      BY <2>1, <2>2, FormResolves
    <3> QED BY <1>1, <2>1, <2>2, <3>1, SamePlaceFound
  <2>3. CASE given.protocol = "ipc"
    BY <2>1, <2>3 DEF Bound, Ad!set_address
  <2> QED BY <2>1, <2>2, <2>3
<1>4. Ad!PortGiven
  <2>1. CASE given_listener.phase = "listening" /\ given.protocol = "tcp"
    <3> DEFINE last == atoi[Ad!Last(given.rest)]
               port == last % 65536
    <3>1. Ad!resolve_ip_interface.rc = "ok" /\ given_listener.addr = Ad!resolve_ip_interface.addr
      BY <2>1 DEF AddressesInv, ListenerSteps, Bound
    <3>2. (\A errno : Ad!Error(errno).rc = errno) /\ (\A ip, at : Ad!At(ip, at).addr.port = at)
      BY DEF Ad!Error, Ad!At
    <3>3. Len(given.rest) >= 2 /\ port # 0 /\ given_listener.addr.port = port
      BY <3>1, <3>2 DEF Ad!resolve_ip_interface
    <3>4. last \in Nat
      <4>1. given.rest \in Seq(DOMAIN atoi)
        BY <1>1, AddressesFacts
      <4>2. Ad!Last(given.rest) \in DOMAIN atoi
        BY <3>3, <4>1 DEF Ad!Last
      <4> QED BY <4>2, AddressesFacts
    <3> HIDE DEF last
    <3>5. port \in Nat /\ port < 65536
      BY <3>4
    <3> HIDE DEF port
    <3> QED BY <3>3, <3>5 DEF Ad!PortGiven
  <2>2. CASE ~(given_listener.phase = "listening" /\ given.protocol = "tcp")
    BY <2>2 DEF Ad!PortGiven
  <2> QED BY <2>1, <2>2
<1> QED BY <1>1, <1>2, <1>3, <1>4 DEF Ad!AddressesSound

LEMMA AddressesAlone == [ConnectionsNext]_connectionsVars => [Ad!Next]_(Ad!addressVars)
<1> SUFFICES ASSUME [ConnectionsNext]_connectionsVars, ~UNCHANGED addressVars PROVE Ad!Next
  BY Zenon DEF Ad!addressVars, addressVars
<1> QED BY Zenon DEF ConnectionsNext, OtherConnections, Stays, connectionsVars

LEMMA AddressesInvariant == ConnectionsSpec => []AddressesInv
<1>1. ConnectionsInit => AddressesInv
  BY AddressesBegin DEF ConnectionsInit
<1>2. AddressesInv /\ [ConnectionsNext]_connectionsVars => AddressesInv'
  BY AddressesAlone, AddressesKept
<1> QED BY <1>1, <1>2, PTL DEF ConnectionsSpec

\* session.cpp, options.cpp, ctx.cpp, socket_base.cpp, ip.cpp: for any number of
\* sockets, threads and parts of a message, and any addresses, a session has one
\* connection or one attempt at it, begins each with a whole message and terminates
\* only when what was sent has been read, if it lingers without limit.  It cannot drop
\* the rest of a message (session.cpp:126) only where it stopped lingering before all
\* of it was read.  Either side of a connection gets the ends, limits and thread it
\* asked for, if there is a thread of its affinity.  bind and connect do all of what
\* they are asked for or nothing, and a session ends the process afterwards only when
\* the name of the host it connects to is not known any more.
THEOREM ConnectionsSoundHolds ==
  Ep!ValuesFit /\ Ep!TypesMatch /\ Ad!NicsNamed => (ConnectionsSpec => []ConnectionsSound)
<1> SUFFICES ASSUME Ep!ValuesFit, Ep!TypesMatch, Ad!NicsNamed PROVE ConnectionsSpec => []ConnectionsSound
  OBVIOUS
<1>1. StrandedInv /\ EndpointsInv /\ AddressesInv => ConnectionsSound
  BY SessionPromised, EndpointsPromised, AddressesPromised DEF ConnectionsSound
<1> QED BY <1>1, SessionInvariant, EndpointsInvariant, AddressesInvariant, PTL

(***************************************************************************)
(* The pollers: what the tables of each say of the entries, whatever       *)
(* descriptors the handlers add and remove.                                *)
(***************************************************************************)
IsPolled(fd) == \E re \in Pol!Registered : entry[re].fd = fd
\* Each descriptor is one entry's, and an entry that is done with has none.
EntriesOwn ==
  /\ \A re, other \in Pol!Registered : entry[re].fd = entry[other].fd => re = other
  /\ \A re \in Reactor : entry[re].freed \/ (re \in retired /\ build \in {"kqueue", "epoll"}) => entry[re].fd = Pol!retired_fd

\* What was reported is of entries that had a descriptor then and are not freed yet.
BatchOf ==
  /\ Len(batch) \in Nat
  /\ build \in {"kqueue", "epoll"} =>
       \A k \in 1..Len(batch) : batch[k].key \in Reactor /\ entry[batch[k].key].fd # 0 /\ ~entry[batch[k].key].freed
  /\ build = "devpoll" => \A k \in 1..Len(batch) : batch[k].key \in Pol!Fd

\* poll_t: an entry's slot is the one that its descriptor's index gives, and no
\* other slot is that descriptor's.
HasSlot(re) ==
  /\ table[entry[re].fd].index \in 1..Len(slots) /\ table[entry[re].fd].reactor = re
  /\ slots[table[entry[re].fd].index].fd = entry[re].fd
  /\ slots[table[entry[re].fd].index].events = entry[re].events
SlotPolled(k) ==
  slots[k].fd # Pol!retired_fd => IsPolled(slots[k].fd) /\ table[slots[k].fd].index = k
SlotSeen(k) ==
  slots[k].fd # Pol!retired_fd /\ slots[k].revents # {} => seen[slots[k].fd] = table[slots[k].fd].reactor
PollTables ==
  /\ \A re \in Pol!Registered : HasSlot(re)
  /\ \A k \in 1..Len(slots) : SlotPolled(k)
  /\ pc = "dispatch" => \A k \in 1..Len(slots) : SlotSeen(k)

\* select_t: each entry has its slot and is in the sets it asked for; what is in
\* the sets is somebody's.
InSlot(re) == \E k \in 1..Len(slots) : slots[k].fd = entry[re].fd /\ slots[k].reactor = re
InSets(re) == \A way \in Pol!Direction : entry[re].fd \in source[way] <=> way \in entry[re].events
SlotUsed(k) == slots[k].fd # Pol!retired_fd => IsPolled(slots[k].fd)
SlotsDiffer == \A j, k \in 1..Len(slots) : slots[j].fd = slots[k].fd /\ slots[j].fd # Pol!retired_fd => j = k
SetsPolled == \A ev \in Pol!Event : \A fd \in source[ev] \union ready[ev] : IsPolled(fd)
ReadySeen(re) == \A ev \in Pol!Event : entry[re].fd \in ready[ev] => seen[entry[re].fd] = re
SelectTables ==
  /\ \A re \in Pol!Registered : InSlot(re) /\ InSets(re)
  /\ \A k \in 1..Len(slots) : SlotUsed(k)
  /\ SlotsDiffer /\ SetsPolled
  /\ pc = "dispatch" => \A re \in Pol!Registered : ReadySeen(re)

\* devpoll_t: the table has what each entry asked for; what was accepted before
\* the events were collected is still the same entry's.
InTable(re) ==
  /\ table[entry[re].fd].reactor = re /\ table[entry[re].fd].valid
  /\ table[entry[re].fd].events = entry[re].events
AcceptedSeen(re) == table[entry[re].fd].accepted => seen[entry[re].fd] = re
DevpollTables ==
  /\ \A re \in Pol!Registered : InTable(re)
  /\ \A fd \in Pol!Fd : table[fd].valid => IsPolled(fd)
  /\ pc = "dispatch" => \A re \in Pol!Registered : AcceptedSeen(re)

PollerInv ==
  /\ Pol!TypeOK /\ EntriesOwn /\ BatchOf
  /\ build = "poll" => PollTables
  /\ build = "select" => SelectTables
  /\ build = "devpoll" => DevpollTables
  /\ Pol!ReachesItsOwn /\ Pol!LoadRight

LEMMA PollerFacts ==
  /\ MaxFd \in Nat /\ MaxCalls \in Nat /\ None \notin Reactor /\ IsFiniteSet(Reactor)
  /\ \A S : Pol!Cardinality(S) = Cardinality(S)
<1>1. \A S : Pol!Cardinality(S) = Cardinality(S)
  BY DEF Cardinality, Pol!Cardinality
<1>2. IsFiniteSet(Reactor)
  BY ConnectionsAssumption, Zenon DEF ConnectionsAssumption, Pol!PollerAssumption, IsFiniteSet, Pol!IsFiniteSet
<1> QED BY <1>1, <1>2, ConnectionsAssumption DEF ConnectionsAssumption, Pol!PollerAssumption

LEMMA RegisteredOnes ==
  ASSUME Pol!TypeOK
  PROVE  /\ Pol!Registered \subseteq Reactor /\ IsFiniteSet(Pol!Registered)
         /\ \A re \in Pol!Registered : entry[re].fd \in 1..MaxFd /\ entry[re].fd # 0 /\ entry[re].fd # Pol!retired_fd
         /\ \A re \in Reactor : re \in Pol!Registered <=> entry[re].fd \notin {0, Pol!retired_fd}
<1>1. Pol!Registered \in SUBSET Reactor
  BY DEF Pol!Registered
<1>2. IsFiniteSet(Pol!Registered)
  BY <1>1, PollerFacts, FS_Subset
<1>3. entry \in [Reactor -> Pol!Entry] /\ MaxFd \in Nat
  BY PollerFacts DEF Pol!TypeOK
<1> QED BY <1>1, <1>2, <1>3 DEF Pol!Registered, Pol!Fd, Pol!retired_fd, Pol!Entry

\* The owner of a descriptor is the entry that has it.
LEMMA OwnerFound ==
  ASSUME Pol!TypeOK, EntriesOwn
  PROVE  /\ \A re \in Pol!Registered : Pol!Owner(entry[re].fd) = re
         /\ \A fd : ~IsPolled(fd) => Pol!Owner(fd) = None
         /\ \A fd : IsPolled(fd) => Pol!Owner(fd) \in Pol!Registered /\ entry[Pol!Owner(fd)].fd = fd
<1>1. \A fd : ~IsPolled(fd) => Pol!Owner(fd) = None
  BY Zenon DEF IsPolled, Pol!Owner
<1>2. ASSUME NEW fd, IsPolled(fd) PROVE Pol!Owner(fd) \in Pol!Registered /\ entry[Pol!Owner(fd)].fd = fd
  <2>1. \E re \in Pol!Registered : entry[re].fd = fd
    BY <1>2 DEF IsPolled
  <2>2. Pol!Owner(fd) = CHOOSE re \in Pol!Registered : entry[re].fd = fd
    BY <2>1, Zenon DEF Pol!Owner
  <2> QED BY <2>1, <2>2
<1>3. ASSUME NEW re \in Pol!Registered PROVE Pol!Owner(entry[re].fd) = re
  <2>1. IsPolled(entry[re].fd)
    BY DEF IsPolled
  <2> QED BY <1>2, <2>1 DEF EntriesOwn
<1> QED BY <1>1, <1>2, <1>3

\* While not all descriptors are taken, the next one to be opened is free.
LEMMA DescriptorFree ==
  ASSUME Pol!TypeOK, EntriesOwn, Cardinality(Pol!Registered) < MaxFd
  PROVE  Pol!FreeFd \in 1..MaxFd /\ ~IsPolled(Pol!FreeFd)
<1> DEFINE taken == {entry[re].fd : re \in Pol!Registered}
           free == {fd \in 1..MaxFd : ~IsPolled(fd)}
<1>1. IsFiniteSet(Pol!Registered) /\ MaxFd \in Nat
  BY RegisteredOnes, PollerFacts
<1>2. IsFiniteSet(taken) /\ Cardinality(taken) <= Cardinality(Pol!Registered)
  <2> DEFINE to == [re \in Pol!Registered |-> entry[re].fd]
  <2>1. to \in Surjection(Pol!Registered, taken)
    <3>1. to \in [Pol!Registered -> taken] /\ \A x \in taken : \E re \in Pol!Registered : to[re] = x
      OBVIOUS
    <3> HIDE DEF to, taken
    <3> QED BY <3>1 DEF Surjection
  <2> HIDE DEF to, taken
  <2> QED BY <1>1, <2>1, FS_Surjection
<1>3. free \in SUBSET Nat /\ free # {}
  <2>1. Cardinality(1..MaxFd) = MaxFd /\ IsFiniteSet(1..MaxFd)
    BY <1>1, FS_Interval
  <2>2. ~(1..MaxFd \subseteq taken)
    <3> SUFFICES ASSUME 1..MaxFd \subseteq taken PROVE FALSE
      OBVIOUS
    <3> HIDE DEF taken
    <3>1. Cardinality(1..MaxFd) <= Cardinality(taken)
      BY <1>2, FS_Subset
    <3>2. Cardinality(taken) \in Nat /\ Cardinality(Pol!Registered) \in Nat
      BY <1>1, <1>2, FS_CardinalityType
    <3> QED BY <1>1, <1>2, <2>1, <3>1, <3>2
  <2>3. free \in SUBSET Nat
    OBVIOUS
  <2>4. PICK fd \in 1..MaxFd : fd \notin taken
    BY <2>2
  <2>5. fd \in free
    BY <2>4 DEF IsPolled
  <2> QED BY <2>3, <2>5
<1> HIDE DEF free
<1>4. PICK least \in free : \A fd \in free : least <= fd
  BY <1>3, LeastNatural
<1> DEFINE Free(fd) == Pol!Owner(fd) = None /\ \A g \in 1..fd - 1 : Pol!Owner(g) # None
<1>5. \A fd : Pol!Owner(fd) = None <=> ~IsPolled(fd)
  BY OwnerFound, RegisteredOnes, PollerFacts
<1>6. least \in 1..MaxFd /\ Free(least)
  <2>1. least \in 1..MaxFd /\ ~IsPolled(least)
    BY <1>4 DEF free
  <2>2. ASSUME NEW g \in 1..least - 1 PROVE IsPolled(g)
    <3>1. g \in 1..MaxFd /\ g < least
      BY <1>1, <2>1
    <3>2. g \notin free
      BY <1>4, <2>1, <3>1
    <3> QED BY <3>1, <3>2 DEF free
  <2> QED BY <1>5, <2>1, <2>2
<1> HIDE DEF Free
<1>7. (CHOOSE fd \in 1..MaxFd : Free(fd)) \in 1..MaxFd /\ Free(CHOOSE fd \in 1..MaxFd : Free(fd))
  BY <1>6
<1>8. Pol!FreeFd = CHOOSE fd \in 1..MaxFd : Free(fd)
  BY Zenon DEF Pol!FreeFd, Pol!Fd, Free
<1>9. Free(Pol!FreeFd) => ~IsPolled(Pol!FreeFd)
  BY <1>5 DEF Free
<1> QED BY <1>7, <1>8, <1>9

(***************************************************************************)
(* add_fd.                                                                 *)
(***************************************************************************)
\* The entry that is added, whatever the build.
LEMMA EntryAdded ==
  ASSUME PollerInv, NEW re \in Reactor, NEW asked \in Pol!Asked, Pol!add_fd(re, asked),
         UNCHANGED <<build, stopping, pc, batch, i, seen, handling, dangling>>
  PROVE  /\ Pol!FreeFd \in 1..MaxFd /\ ~IsPolled(Pol!FreeFd) /\ re \notin Pol!Registered /\ asked \subseteq Pol!Direction
         /\ entry' \in [Reactor -> Pol!Entry]
         /\ entry'[re].fd = Pol!FreeFd /\ entry'[re].events = asked
         /\ \A other \in Reactor : other # re => entry'[other] = entry[other]
         /\ Pol!Registered' = Pol!Registered \union {re}
         /\ EntriesOwn' /\ Pol!LoadRight' /\ load' \in 0..MaxFd
         /\ (batch = batch' => BatchOf') /\ Pol!ReachesItsOwn'
<1> DEFINE fd == Pol!FreeFd
<1>1. /\ entry[re].fd = 0 /\ Cardinality(Pol!Registered) < MaxFd /\ load' = load + 1 /\ retired' = retired
      /\ entry' = [entry EXCEPT ![re].fd = fd, ![re].events = asked]
  BY PollerFacts DEF Pol!add_fd
<1>2. Pol!TypeOK /\ EntriesOwn /\ BatchOf
  BY DEF PollerInv
<1>3. fd \in 1..MaxFd /\ ~IsPolled(fd) /\ MaxFd \in Nat
  BY <1>1, <1>2, DescriptorFree, PollerFacts
<1> HIDE DEF fd
<1>4. asked \subseteq Pol!Direction
  BY DEF Pol!Asked, Pol!Direction
<1>5. entry \in [Reactor -> Pol!Entry]
  BY <1>2 DEF Pol!TypeOK
<1>6. /\ entry'[re].fd = fd /\ entry'[re].events = asked /\ entry'[re].freed = entry[re].freed
      /\ \A other \in Reactor : other # re => entry'[other] = entry[other]
  BY <1>1, <1>5 DEF Pol!Entry
<1>7. entry' \in [Reactor -> Pol!Entry]
  <2>1. entry' = [entry EXCEPT ![re] = [entry[re] EXCEPT !.fd = fd, !.events = asked]]
    BY <1>1, <1>5
  <2>2. [entry[re] EXCEPT !.fd = fd, !.events = asked] \in Pol!Entry
    BY <1>3, <1>4, <1>5 DEF Pol!Entry, Pol!Fd
  <2> QED BY <1>5, <2>1, <2>2
<1>8. re \notin Pol!Registered
  BY <1>1, <1>3 DEF Pol!Registered, Pol!Fd
<1>9. Pol!Registered' = Pol!Registered \union {re}
  BY <1>3, <1>6 DEF Pol!Registered, Pol!Fd
<1>10. EntriesOwn'
  <2>1. \A other \in Pol!Registered : entry[other].fd # fd
    BY <1>3 DEF IsPolled
  <2>2. \A one, other \in Pol!Registered' : entry'[one].fd = entry'[other].fd => one = other
    <3>1. \A one \in Pol!Registered : entry'[one] = entry[one]
      BY <1>2, <1>6, <1>8, RegisteredOnes
    <3> QED BY <1>2, <1>6, <1>9, <2>1, <3>1 DEF EntriesOwn
  <2>3. \A other \in Reactor : entry[other].freed \/ (other \in retired /\ build \in {"kqueue", "epoll"}) => entry[other].fd = 0 - 1
    BY <1>2 DEF EntriesOwn, Pol!retired_fd
  <2>4. ~entry[re].freed /\ ~(re \in retired /\ build \in {"kqueue", "epoll"})
    BY <1>1, <2>3
  <2>5. \A other \in Reactor : entry'[other].freed \/ (other \in retired' /\ build' \in {"kqueue", "epoll"}) => entry'[other].fd = 0 - 1
    BY <1>1, <1>6, <2>3, <2>4
  <2> QED BY <2>2, <2>5 DEF EntriesOwn, Pol!retired_fd
<1>11. Pol!LoadRight' /\ load' \in 0..MaxFd
  <2>1. IsFiniteSet(Pol!Registered)
    BY <1>2, RegisteredOnes
  <2>2. Cardinality(Pol!Registered') = Cardinality(Pol!Registered) + 1 /\ Cardinality(Pol!Registered) \in Nat
    BY <1>8, <1>9, <2>1, FS_AddElement, FS_CardinalityType
  <2>3. load = Cardinality(Pol!Registered)
    BY PollerFacts DEF PollerInv, Pol!LoadRight
  <2>4. load' = Cardinality(Pol!Registered')
    BY <1>1, <2>2, <2>3
  <2>5. Pol!LoadRight'
    BY <2>4, PollerFacts DEF Pol!LoadRight
  <2> QED BY <1>1, <1>3, <2>2, <2>3, <2>5
<1>12. BatchOf'
  <2>1. ASSUME build \in {"kqueue", "epoll"}, NEW k \in 1..Len(batch)
        PROVE  batch[k].key \in Reactor /\ entry'[batch[k].key].fd # 0 /\ ~entry'[batch[k].key].freed
    BY <1>1, <1>2, <1>6, <2>1 DEF BatchOf
  <2> QED BY <1>2, <2>1 DEF BatchOf
<1>13. Pol!ReachesItsOwn'
  BY DEF PollerInv, Pol!ReachesItsOwn
<1> QED BY <1>3, <1>4, <1>6, <1>7, <1>8, <1>9, <1>10, <1>11, <1>12, <1>13 DEF fd

LEMMA TablesTyped ==
  Pol!TypeOK <=>
    /\ build \in Builds /\ entry \in [Reactor -> Pol!Entry] /\ table \in [1..MaxFd -> Pol!FdEntry] /\ slots \in Seq(Pol!Slot)
    /\ source \in Pol!Sets /\ ready \in Pol!Sets /\ pending \in Seq(1..MaxFd) /\ retired \subseteq Reactor
    /\ load \in 0..MaxFd /\ stopping \in BOOLEAN /\ pc \in {"wait", "dispatch", "done"}
    /\ i \in 1..3 * (Len(batch) + Len(slots)) + 1 /\ calls \in 0..MaxCalls
    /\ (handling = None \/ handling.to \in Reactor) /\ moved \in BOOLEAN /\ dangling \in BOOLEAN
BY DEF Pol!TypeOK, Pol!Fd, Builds

\* What the other entries have is as before.
LEMMA PolledMore ==
  ASSUME PollerInv, NEW re \in Reactor, NEW fd, re \notin Pol!Registered, entry'[re].fd = fd,
         \A other \in Reactor : other # re => entry'[other] = entry[other],
         Pol!Registered' = Pol!Registered \union {re}
  PROVE  /\ \A g : IsPolled(g) => IsPolled(g)'
         /\ IsPolled(fd)'
         /\ \A other \in Pol!Registered : entry'[other] = entry[other] /\ (~IsPolled(fd) => entry[other].fd # fd)
BY RegisteredOnes DEF PollerInv, IsPolled

LEMMA AddedToPoll ==
  ASSUME PollerInv, build = "poll", NEW re \in Reactor, NEW asked \in SUBSET Pol!Direction, NEW fd \in 1..MaxFd,
         ~IsPolled(fd), re \notin Pol!Registered, entry'[re].fd = fd, entry'[re].events = asked,
         \A other \in Reactor : other # re => entry'[other] = entry[other],
         Pol!Registered' = Pol!Registered \union {re},
         Pol!poll_add_fd(re, fd, asked), UNCHANGED <<build, pc, seen>>
  PROVE  PollTables' /\ table' \in [1..MaxFd -> Pol!FdEntry] /\ slots' \in Seq(Pol!Slot) /\ Len(slots') >= Len(slots)
<1> DEFINE new == [fd |-> fd, reactor |-> re, events |-> asked, revents |-> {}]
<1>1. slots' = Append(slots, new) /\ table' = [table EXCEPT ![fd].index = Len(slots) + 1, ![fd].reactor = re]
  BY DEF Pol!poll_add_fd
<1>2. /\ table \in [1..MaxFd -> Pol!FdEntry] /\ slots \in Seq(Pol!Slot) /\ Len(slots) \in Nat /\ PollTables /\ Pol!TypeOK
      /\ MaxFd \in Nat
  BY TablesTyped, PollerFacts DEF PollerInv
<1>3. new \in Pol!Slot /\ new.fd = fd /\ new.reactor = re /\ new.events = asked /\ new.revents = {}
  BY DEF Pol!Slot, Pol!Fd
<1> HIDE DEF new
<1>4. /\ slots' \in Seq(Pol!Slot) /\ Len(slots') = Len(slots) + 1 /\ slots'[Len(slots) + 1] = new
      /\ \A k \in 1..Len(slots) : slots'[k] = slots[k]
  BY <1>1, <1>2, <1>3
<1>5. /\ table'[fd].index = Len(slots) + 1 /\ table'[fd].reactor = re
      /\ \A g \in 1..MaxFd : g # fd => table'[g] = table[g]
  BY <1>1, <1>2 DEF Pol!FdEntry
<1>6. table' \in [1..MaxFd -> Pol!FdEntry]
  <2> DEFINE at == Len(slots) + 1
  <2>1. at \in Int /\ table[fd] \in Pol!FdEntry
    BY <1>2
  <2>2. table' = [table EXCEPT ![fd] = [table[fd] EXCEPT !.index = at, !.reactor = re]]
    BY <1>1, <1>2
  <2> HIDE DEF at
  <2>3. [table[fd] EXCEPT !.index = at, !.reactor = re] \in Pol!FdEntry
    BY <2>1 DEF Pol!FdEntry
  <2> QED BY <1>2, <2>2, <2>3
<1>7. /\ \A g : IsPolled(g) => IsPolled(g)'
      /\ IsPolled(fd)'
      /\ \A other \in Pol!Registered : entry'[other] = entry[other] /\ entry[other].fd # fd
  BY PolledMore
<1>8. ASSUME NEW one \in Pol!Registered' PROVE HasSlot(one)'
  <2>1. CASE one = re
    BY <1>2, <1>3, <1>4, <1>5, <2>1 DEF HasSlot
  <2>2. CASE one \in Pol!Registered
    <3> DEFINE at == table[entry[one].fd].index
    <3>1. HasSlot(one)
      BY <1>2, <2>2 DEF PollTables
    <3>2. entry'[one] = entry[one] /\ table'[entry[one].fd] = table[entry[one].fd]
      BY <1>2, <1>5, <1>7, <2>2, RegisteredOnes
    <3>3. at \in 1..Len(slots)
      BY <3>1 DEF HasSlot
    <3>4. slots'[at] = slots[at] /\ at \in 1..Len(slots')
      BY <1>2, <1>4, <3>3
    <3> QED BY <3>1, <3>2, <3>4 DEF HasSlot
  <2> QED BY <2>1, <2>2
<1>9. ASSUME NEW k \in 1..Len(slots')
      PROVE  SlotPolled(k)' /\ (pc = "dispatch" => SlotSeen(k)')
  <2>1. CASE k = Len(slots) + 1
    <3>1. slots'[k] = new
      BY <1>4, <2>1
    <3> QED BY <1>3, <1>5, <1>7, <2>1, <3>1 DEF SlotPolled, SlotSeen
  <2>2. CASE k \in 1..Len(slots)
    <3>1. slots'[k] = slots[k] /\ SlotPolled(k) /\ (pc = "dispatch" => SlotSeen(k))
      BY <1>2, <1>4, <2>2 DEF PollTables
    <3>2. CASE slots[k].fd = Pol!retired_fd
      BY <3>1, <3>2 DEF SlotPolled, SlotSeen, Pol!retired_fd
    <3>3. CASE slots[k].fd # Pol!retired_fd
      <4>1. IsPolled(slots[k].fd) /\ table[slots[k].fd].index = k
        BY <3>1, <3>3 DEF SlotPolled
      <4>2. slots[k].fd # fd /\ slots[k].fd \in 1..MaxFd
        BY <1>2, <4>1, RegisteredOnes DEF IsPolled
      <4>3. table'[slots[k].fd] = table[slots[k].fd] /\ IsPolled(slots[k].fd)'
        BY <1>5, <1>7, <3>1, <4>1, <4>2
      <4> QED BY <3>1, <4>1, <4>3 DEF SlotPolled, SlotSeen
    <3> QED BY <3>2, <3>3
  <2> QED BY <1>2, <1>4, <2>1, <2>2
<1>10. PollTables'
  BY <1>8, <1>9 DEF PollTables
<1> QED BY <1>2, <1>4, <1>6, <1>10

LEMMA AddedToSelect ==
  ASSUME PollerInv, build = "select", NEW re \in Reactor, NEW asked \in SUBSET Pol!Direction, NEW fd \in 1..MaxFd,
         ~IsPolled(fd), re \notin Pol!Registered, entry'[re].fd = fd, entry'[re].events = asked,
         \A other \in Reactor : other # re => entry'[other] = entry[other],
         Pol!Registered' = Pol!Registered \union {re},
         Pol!select_add_fd(re, fd, asked), UNCHANGED <<build, pc, seen>>
  PROVE  SelectTables' /\ source' \in Pol!Sets /\ slots' \in Seq(Pol!Slot) /\ Len(slots') >= Len(slots)
<1> DEFINE new == [fd |-> fd, reactor |-> re, events |-> {}, revents |-> {}]
<1>1. /\ slots' = Append(slots, new) /\ ready' = ready
      /\ source' = [e \in Pol!Event |-> IF e \in asked \union {"err"} THEN source[e] \union {fd} ELSE source[e]]
  BY DEF Pol!select_add_fd
<1>2. /\ source \in Pol!Sets /\ slots \in Seq(Pol!Slot) /\ Len(slots) \in Nat /\ SelectTables /\ Pol!TypeOK
      /\ MaxFd \in Nat
  BY TablesTyped, PollerFacts DEF PollerInv
<1>3. new \in Pol!Slot /\ new.fd = fd /\ new.reactor = re
  BY DEF Pol!Slot, Pol!Fd
<1> HIDE DEF new
<1>4. /\ slots' \in Seq(Pol!Slot) /\ Len(slots') = Len(slots) + 1 /\ slots'[Len(slots) + 1] = new
      /\ \A k \in 1..Len(slots) : slots'[k] = slots[k]
  BY <1>1, <1>2, <1>3
<1>5. \A e \in Pol!Event : /\ \A g : g # fd => (g \in source'[e] <=> g \in source[e])
                           /\ fd \in source'[e] <=> e \in asked \union {"err"} \/ fd \in source[e]
                           /\ source[e] \subseteq source'[e] /\ source'[e] \subseteq source[e] \union {fd}
  BY <1>1
<1>6. source' \in Pol!Sets
  BY <1>1, <1>2 DEF Pol!Sets, Pol!Fd
<1>7. /\ \A g : IsPolled(g) => IsPolled(g)'
      /\ IsPolled(fd)'
      /\ \A other \in Pol!Registered : entry'[other] = entry[other] /\ entry[other].fd # fd
  BY PolledMore
<1>8. \A e \in Pol!Event : fd \notin source[e] \union ready[e]
  BY <1>2 DEF SelectTables, SetsPolled
<1>9. \A way \in Pol!Direction : way \in Pol!Event /\ way # "err"
  BY DEF Pol!Direction, Pol!Event
<1>10. ASSUME NEW one \in Pol!Registered' PROVE InSlot(one)' /\ InSets(one)' /\ (pc = "dispatch" => ReadySeen(one)')
  <2>1. CASE one = re
    <3>1. InSlot(one)'
      <4>1. slots'[Len(slots) + 1].fd = entry'[one].fd /\ slots'[Len(slots) + 1].reactor = one /\ Len(slots) + 1 \in 1..Len(slots')
        BY <1>2, <1>3, <1>4, <2>1
      <4> QED BY <4>1 DEF InSlot
    <3>2. InSets(one)'
      <4>1. \A way \in Pol!Direction : fd \in source'[way] <=> way \in asked
        BY <1>5, <1>8, <1>9
      <4> QED BY <2>1, <4>1 DEF InSets
    <3>3. ReadySeen(one)'
      BY <1>1, <1>8, <2>1 DEF ReadySeen
    <3> QED BY <3>1, <3>2, <3>3
  <2>2. CASE one \in Pol!Registered
    <3>1. InSlot(one) /\ InSets(one) /\ (pc = "dispatch" => ReadySeen(one)) /\ entry'[one] = entry[one] /\ entry[one].fd # fd
      BY <1>2, <1>7, <2>2 DEF SelectTables
    <3>2. InSlot(one)'
      <4>1. PICK k \in 1..Len(slots) : slots[k].fd = entry[one].fd /\ slots[k].reactor = one
        BY <3>1 DEF InSlot
      <4>2. k \in 1..Len(slots') /\ slots'[k] = slots[k]
        BY <1>2, <1>4
      <4> QED BY <3>1, <4>1, <4>2 DEF InSlot
    <3>3. InSets(one)'
      <4>1. \A way \in Pol!Direction : entry[one].fd \in source'[way] <=> entry[one].fd \in source[way]
        BY <1>5, <1>9, <3>1
      <4> QED BY <3>1, <4>1 DEF InSets
    <3>4. pc = "dispatch" => ReadySeen(one)'
      BY <1>1, <3>1 DEF ReadySeen
    <3> QED BY <3>2, <3>3, <3>4
  <2> QED BY <2>1, <2>2
<1>11. ASSUME NEW k \in 1..Len(slots') PROVE SlotUsed(k)'
  <2>1. CASE k = Len(slots) + 1
    BY <1>3, <1>4, <1>7, <2>1 DEF SlotUsed
  <2>2. CASE k \in 1..Len(slots)
    BY <1>2, <1>4, <1>7, <2>2 DEF SelectTables, SlotUsed
  <2> QED BY <1>2, <1>4, <2>1, <2>2
<1>12. SlotsDiffer'
  <2>1. \A k \in 1..Len(slots) : slots[k].fd # fd
    <3>1. fd # Pol!retired_fd
      BY <1>2 DEF Pol!retired_fd
    <3> QED BY <1>2, <3>1 DEF SelectTables, SlotUsed
  <2>2. ASSUME NEW j \in 1..Len(slots'), NEW k \in 1..Len(slots'), slots'[j].fd = slots'[k].fd, slots'[j].fd # 0 - 1
        PROVE  j = k
    <3>1. CASE j = Len(slots) + 1 \/ k = Len(slots) + 1
      BY <1>2, <1>3, <1>4, <2>1, <2>2, <3>1
    <3>2. CASE j \in 1..Len(slots) /\ k \in 1..Len(slots)
      BY <1>2, <1>4, <2>2, <3>2 DEF SelectTables, SlotsDiffer, Pol!retired_fd
    <3> QED BY <1>2, <1>4, <3>1, <3>2
  <2> QED BY <2>2 DEF SlotsDiffer, Pol!retired_fd
<1>13. SetsPolled'
  <2>1. ASSUME NEW ev \in Pol!Event, NEW g \in source'[ev] \union ready'[ev] PROVE IsPolled(g)'
    <3>1. CASE g = fd
      BY <1>7, <3>1
    <3>2. CASE g # fd
      <4>1. g \in source[ev] \union ready[ev]
        BY <1>1, <1>5, <2>1, <3>2
      <4> QED BY <1>2, <1>7, <4>1 DEF SelectTables, SetsPolled
    <3> QED BY <3>1, <3>2
  <2> QED BY <2>1 DEF SetsPolled
<1> QED BY <1>2, <1>4, <1>6, <1>10, <1>11, <1>12, <1>13 DEF SelectTables

LEMMA AddedToDevpoll ==
  ASSUME PollerInv, build = "devpoll", NEW re \in Reactor, NEW asked \in SUBSET Pol!Direction, NEW fd \in 1..MaxFd,
         ~IsPolled(fd), re \notin Pol!Registered, entry'[re].fd = fd, entry'[re].events = asked,
         \A other \in Reactor : other # re => entry'[other] = entry[other],
         Pol!Registered' = Pol!Registered \union {re},
         Pol!devpoll_add_fd(re, fd, asked), UNCHANGED <<build, pc, seen>>
  PROVE  DevpollTables' /\ table' \in [1..MaxFd -> Pol!FdEntry] /\ pending' \in Seq(1..MaxFd) /\ moved' \in BOOLEAN
<1>1. /\ table' = [table EXCEPT ![fd] = [table[fd] EXCEPT !.events = asked, !.reactor = re, !.valid = TRUE, !.accepted = FALSE]]
      /\ pending' = Append(pending, fd)
  BY DEF Pol!devpoll_add_fd
<1>2. /\ table \in [1..MaxFd -> Pol!FdEntry] /\ pending \in Seq(1..MaxFd) /\ DevpollTables /\ Pol!TypeOK
      /\ MaxFd \in Nat /\ moved \in BOOLEAN
  BY TablesTyped, PollerFacts DEF PollerInv
<1>3. moved' \in BOOLEAN
  <2> DEFINE grows == handling # None /\ \A g \in fd..MaxFd : table[g].reactor = None
  <2>1. moved' = moved \/ moved' = (moved \/ grows)
    BY Zenon DEF Pol!devpoll_add_fd
  <2> HIDE DEF grows
  <2> QED BY <1>2, <2>1, Zenon
<1>4. pending' \in Seq(1..MaxFd)
  BY <1>1, <1>2
<1> DEFINE new == [table[fd] EXCEPT !.events = asked, !.reactor = re, !.valid = TRUE, !.accepted = FALSE]
<1>5. new \in Pol!FdEntry /\ new.events = asked /\ new.reactor = re /\ new.valid /\ ~new.accepted
  BY <1>2 DEF Pol!FdEntry
<1> HIDE DEF new
<1>6. table' \in [1..MaxFd -> Pol!FdEntry] /\ table'[fd] = new /\ \A g \in 1..MaxFd : g # fd => table'[g] = table[g]
  BY <1>1, <1>2, <1>5 DEF new
<1>7. /\ \A g : IsPolled(g) => IsPolled(g)'
      /\ IsPolled(fd)'
      /\ \A other \in Pol!Registered : entry'[other] = entry[other] /\ entry[other].fd # fd
  BY PolledMore
<1>8. ASSUME NEW one \in Pol!Registered' PROVE InTable(one)' /\ (pc = "dispatch" => AcceptedSeen(one)')
  <2>1. CASE one = re
    BY <1>5, <1>6, <2>1 DEF InTable, AcceptedSeen
  <2>2. CASE one \in Pol!Registered
    <3>1. InTable(one) /\ (pc = "dispatch" => AcceptedSeen(one))
      BY <1>2, <2>2 DEF DevpollTables
    <3>2. entry'[one] = entry[one] /\ table'[entry[one].fd] = table[entry[one].fd]
      BY <1>2, <1>6, <1>7, <2>2, RegisteredOnes
    <3> QED BY <3>1, <3>2 DEF InTable, AcceptedSeen
  <2> QED BY <2>1, <2>2
<1>9. ASSUME NEW g \in 1..MaxFd, table'[g].valid PROVE IsPolled(g)'
  BY <1>2, <1>6, <1>7, <1>9 DEF DevpollTables, Pol!Fd
<1>10. DevpollTables'
  BY <1>8, <1>9 DEF DevpollTables, Pol!Fd
<1> QED BY <1>3, <1>4, <1>6, <1>10

\* As long as the reports do not become fewer, the place among them is right.
LEMMA SameBatch ==
  ASSUME Pol!TypeOK, BatchOf, UNCHANGED <<build, stopping, pc, batch, i, handling, dangling>>, calls' \in 0..MaxCalls,
         entry' \in [Reactor -> Pol!Entry], table' \in [1..MaxFd -> Pol!FdEntry], slots' \in Seq(Pol!Slot),
         Len(slots') >= Len(slots), source' \in Pol!Sets, ready' \in Pol!Sets, pending' \in Seq(1..MaxFd),
         retired' \subseteq Reactor, load' \in 0..MaxFd, moved' \in BOOLEAN
  PROVE  Pol!TypeOK'
<1>1. i' \in 1..3 * (Len(batch') + Len(slots')) + 1
  <2>1. Len(batch) \in Nat /\ Len(slots) \in Nat /\ Len(slots') \in Nat /\ i \in 1..3 * (Len(batch) + Len(slots)) + 1
    BY TablesTyped DEF BatchOf
  <2> QED BY <2>1
<1> QED BY <1>1, TablesTyped DEF Pol!TypeOK, Pol!Fd, Builds

\* What add_fd leaves in every build.
LEMMA PollerAdds ==
  ASSUME PollerInv, NEW re \in Reactor, NEW asked \in Pol!Asked, Pol!add_fd(re, asked),
         UNCHANGED <<build, stopping, pc, batch, i, seen, handling, dangling>>, calls' \in 0..MaxCalls
  PROVE  PollerInv'
<1> DEFINE fd == Pol!FreeFd
<1>1. /\ fd \in 1..MaxFd /\ ~IsPolled(fd) /\ re \notin Pol!Registered /\ asked \in SUBSET Pol!Direction
      /\ entry' \in [Reactor -> Pol!Entry]
      /\ entry'[re].fd = fd /\ entry'[re].events = asked
      /\ \A other \in Reactor : other # re => entry'[other] = entry[other]
      /\ Pol!Registered' = Pol!Registered \union {re}
      /\ EntriesOwn' /\ Pol!LoadRight' /\ load' \in 0..MaxFd /\ BatchOf' /\ Pol!ReachesItsOwn'
  BY EntryAdded
<1>2. /\ build = "kqueue" => Pol!kqueue_add_fd(re, fd, asked)
      /\ build = "epoll" => Pol!epoll_add_fd(re, fd, asked)
      /\ build = "poll" => Pol!poll_add_fd(re, fd, asked)
      /\ build = "select" => Pol!select_add_fd(re, fd, asked)
      /\ build = "devpoll" => Pol!devpoll_add_fd(re, fd, asked)
      /\ retired' = retired
  BY DEF Pol!add_fd
<1> HIDE DEF fd
<1>3. Pol!TypeOK /\ build \in Builds
  BY TablesTyped DEF PollerInv
<1>4. /\ table' \in [1..MaxFd -> Pol!FdEntry] /\ slots' \in Seq(Pol!Slot) /\ source' \in Pol!Sets /\ ready' = ready
      /\ pending' \in Seq(1..MaxFd) /\ moved' \in BOOLEAN /\ Len(slots') >= Len(slots)
      /\ build = "poll" => PollTables'
      /\ build = "select" => SelectTables'
      /\ build = "devpoll" => DevpollTables'
  <2>0. /\ table \in [1..MaxFd -> Pol!FdEntry] /\ slots \in Seq(Pol!Slot) /\ source \in Pol!Sets /\ pending \in Seq(1..MaxFd)
        /\ Len(slots) \in Nat /\ moved \in BOOLEAN
    BY <1>3, TablesTyped
  <2>1. CASE build \in {"kqueue", "epoll"}
    BY <1>2, <2>0, <2>1 DEF Pol!kqueue_add_fd, Pol!epoll_add_fd
  <2>2. CASE build = "poll"
    <3>1. PollTables' /\ table' \in [1..MaxFd -> Pol!FdEntry] /\ slots' \in Seq(Pol!Slot) /\ Len(slots') >= Len(slots)
      BY <1>1, <1>2, <2>2, AddedToPoll
    <3>2. UNCHANGED <<source, ready, pending, moved>>
      BY <1>2, <2>2 DEF Pol!poll_add_fd
    <3> QED BY <2>0, <2>2, <3>1, <3>2
  <2>3. CASE build = "select"
    <3>1. SelectTables' /\ source' \in Pol!Sets /\ slots' \in Seq(Pol!Slot) /\ Len(slots') >= Len(slots)
      BY <1>1, <1>2, <2>3, AddedToSelect
    <3>2. UNCHANGED <<table, ready, pending, moved>>
      BY <1>2, <2>3 DEF Pol!select_add_fd
    <3> QED BY <2>0, <2>3, <3>1, <3>2
  <2>4. CASE build = "devpoll"
    <3>1. DevpollTables' /\ table' \in [1..MaxFd -> Pol!FdEntry] /\ pending' \in Seq(1..MaxFd) /\ moved' \in BOOLEAN
      BY <1>1, <1>2, <2>4, AddedToDevpoll
    <3>2. UNCHANGED <<slots, source, ready>>
      BY <1>2, <2>4 DEF Pol!devpoll_add_fd
    <3> QED BY <2>0, <2>4, <3>1, <3>2
  <2> QED BY <1>3, <2>1, <2>2, <2>3, <2>4 DEF Builds
<1>5. Pol!TypeOK'
  <2>1. retired' \subseteq Reactor /\ ready' \in Pol!Sets /\ BatchOf
    BY <1>2, <1>3, <1>4, TablesTyped DEF PollerInv
  <2> QED BY <1>1, <1>3, <1>4, <2>1, SameBatch
<1> QED BY <1>1, <1>3, <1>4, <1>5 DEF PollerInv

(***************************************************************************)
(* rm_fd.                                                                  *)
(***************************************************************************)
\* The entry that is removed, whatever the build.
LEMMA EntryRemoved ==
  ASSUME PollerInv, NEW re \in Pol!Registered, entry' = [entry EXCEPT ![re].fd = Pol!retired_fd], load' = load - 1,
         retired' \subseteq retired \union {re}, UNCHANGED <<build, batch, handling>>
  PROVE  /\ entry' \in [Reactor -> Pol!Entry] /\ Pol!Registered' = Pol!Registered \ {re}
         /\ \A other \in Pol!Registered' : other # re /\ entry'[other] = entry[other] /\ entry[other].fd # entry[re].fd
         /\ \A fd : IsPolled(fd) /\ fd # entry[re].fd => \E other \in Pol!Registered' : entry'[other].fd = fd
         /\ EntriesOwn' /\ Pol!LoadRight' /\ load' \in 0..MaxFd /\ BatchOf' /\ Pol!ReachesItsOwn'
<1>1. Pol!TypeOK /\ EntriesOwn /\ BatchOf /\ MaxFd \in Nat
  BY PollerFacts DEF PollerInv
<1>2. entry \in [Reactor -> Pol!Entry] /\ re \in Reactor /\ load \in 0..MaxFd
  BY <1>1, RegisteredOnes DEF Pol!TypeOK
<1> DEFINE gone == [entry[re] EXCEPT !.fd = Pol!retired_fd]
<1>3. gone \in Pol!Entry /\ gone.fd = Pol!retired_fd /\ gone.freed = entry[re].freed
  BY <1>2 DEF Pol!Entry, Pol!retired_fd, Pol!Fd
<1>4. entry' = [entry EXCEPT ![re] = gone]
  BY <1>2
<1> HIDE DEF gone
<1>5. entry' \in [Reactor -> Pol!Entry] /\ entry'[re] = gone /\ \A other \in Reactor : other # re => entry'[other] = entry[other]
  BY <1>2, <1>3, <1>4
<1>6. Pol!Registered' = Pol!Registered \ {re}
  BY <1>1, <1>2, <1>3, <1>5 DEF Pol!Registered, Pol!Fd, Pol!retired_fd
<1>7. \A other \in Pol!Registered' : other # re /\ entry'[other] = entry[other] /\ entry[other].fd # entry[re].fd
  BY <1>1, <1>2, <1>5, <1>6, RegisteredOnes DEF EntriesOwn
<1>8. \A fd : IsPolled(fd) /\ fd # entry[re].fd => \E other \in Pol!Registered' : entry'[other].fd = fd
  <2>1. ASSUME NEW fd, IsPolled(fd), fd # entry[re].fd PROVE \E other \in Pol!Registered' : entry'[other].fd = fd
    <3>1. PICK other \in Pol!Registered : entry[other].fd = fd
      BY <2>1 DEF IsPolled
    <3>2. other \in Pol!Registered' /\ entry'[other] = entry[other]
      BY <1>6, <1>7, <2>1, <3>1
    <3> QED BY <3>1, <3>2
  <2> QED BY <2>1
<1>9. EntriesOwn'
  <2>1. \A one, other \in Pol!Registered' : entry'[one].fd = entry'[other].fd => one = other
    BY <1>1, <1>6, <1>7 DEF EntriesOwn
  <2>2. \A other \in Reactor : entry'[other].freed \/ (other \in retired' /\ build' \in {"kqueue", "epoll"})
                                => entry'[other].fd = 0 - 1
    BY <1>1, <1>3, <1>5 DEF EntriesOwn, Pol!retired_fd
  <2> QED BY <2>1, <2>2 DEF EntriesOwn, Pol!retired_fd
<1>10. Pol!LoadRight' /\ load' \in 0..MaxFd
  <2>1. IsFiniteSet(Pol!Registered)
    BY <1>1, RegisteredOnes
  <2>2. Cardinality(Pol!Registered') = Cardinality(Pol!Registered) - 1 /\ Cardinality(Pol!Registered') \in Nat
    <3>1. IsFiniteSet(Pol!Registered')
      BY <1>6, <2>1, FS_RemoveElement
    <3> QED BY <1>6, <2>1, <3>1, FS_RemoveElement, FS_CardinalityType
  <2>3. load = Cardinality(Pol!Registered)
    BY PollerFacts DEF PollerInv, Pol!LoadRight
  <2>4. load' = Cardinality(Pol!Registered')
    BY <2>2, <2>3
  <2>5. Pol!LoadRight'
    BY <2>4, PollerFacts DEF Pol!LoadRight
  <2> QED BY <1>1, <1>2, <2>2, <2>4, <2>5
<1>11. BatchOf'
  <2>1. ASSUME build \in {"kqueue", "epoll"}, NEW k \in 1..Len(batch)
        PROVE  batch[k].key \in Reactor /\ entry'[batch[k].key].fd # 0 /\ ~entry'[batch[k].key].freed
    BY <1>1, <1>3, <1>5, <2>1 DEF BatchOf, Pol!retired_fd
  <2> QED BY <1>1, <2>1 DEF BatchOf
<1>12. Pol!ReachesItsOwn'
  BY DEF PollerInv, Pol!ReachesItsOwn
<1> QED BY <1>5, <1>6, <1>7, <1>8, <1>9, <1>10, <1>11, <1>12

LEMMA RemovedFromPoll ==
  ASSUME PollerInv, build = "poll", NEW re \in Pol!Registered, Pol!poll_rm_fd(re, entry[re].fd), UNCHANGED <<build, pc, seen>>,
         \A other \in Pol!Registered' : other \in Pol!Registered /\ entry'[other] = entry[other] /\ entry[other].fd # entry[re].fd,
         \A fd : IsPolled(fd) /\ fd # entry[re].fd => \E other \in Pol!Registered' : entry'[other].fd = fd
  PROVE  PollTables' /\ table' \in [1..MaxFd -> Pol!FdEntry] /\ slots' \in Seq(Pol!Slot) /\ Len(slots') = Len(slots)
<1> DEFINE fd == entry[re].fd
           at == table[fd].index
<1>1. /\ slots' = [slots EXCEPT ![at].fd = Pol!retired_fd]
      /\ table' = [table EXCEPT ![fd].index = Pol!retired_fd]
  BY DEF Pol!poll_rm_fd
<1>2. /\ table \in [1..MaxFd -> Pol!FdEntry] /\ slots \in Seq(Pol!Slot) /\ Len(slots) \in Nat /\ PollTables /\ Pol!TypeOK
      /\ MaxFd \in Nat
  BY TablesTyped, PollerFacts DEF PollerInv
<1>3. HasSlot(re) /\ fd \in 1..MaxFd
  BY <1>2, RegisteredOnes DEF PollTables
<1>4. at \in 1..Len(slots) /\ slots[at].fd = fd
  BY <1>3 DEF HasSlot
<1> HIDE DEF at, fd
<1>5. Pol!retired_fd \in Int /\ Pol!retired_fd \notin 1..MaxFd
  BY <1>2 DEF Pol!retired_fd
<1>6. /\ slots' \in Seq(Pol!Slot) /\ Len(slots') = Len(slots) /\ slots'[at].fd = Pol!retired_fd
      /\ \A k \in 1..Len(slots) : k # at => slots'[k] = slots[k]
  <2> DEFINE empty == [slots[at] EXCEPT !.fd = Pol!retired_fd]
  <2>1. slots[at] \in Pol!Slot
    BY <1>2, <1>4
  <2>2. empty \in Pol!Slot /\ empty.fd = Pol!retired_fd
    BY <2>1 DEF Pol!Slot
  <2>3. slots' = [slots EXCEPT ![at] = empty]
    BY <1>1
  <2> HIDE DEF empty
  <2> QED BY <1>2, <1>4, <2>2, <2>3
<1>7. table' \in [1..MaxFd -> Pol!FdEntry] /\ \A g \in 1..MaxFd : g # fd => table'[g] = table[g]
  <2> DEFINE none == [table[fd] EXCEPT !.index = Pol!retired_fd]
  <2>1. table[fd] \in Pol!FdEntry
    BY <1>2, <1>3
  <2>2. none \in Pol!FdEntry
    BY <1>5, <2>1 DEF Pol!FdEntry
  <2>3. table' = [table EXCEPT ![fd] = none]
    BY <1>1
  <2> HIDE DEF none
  <2> QED BY <1>2, <1>3, <2>2, <2>3
<1>8. ASSUME NEW one \in Pol!Registered' PROVE HasSlot(one)'
  <2>1. one \in Pol!Registered /\ entry'[one] = entry[one] /\ entry[one].fd # fd
    BY DEF fd
  <2>2. HasSlot(one) /\ entry[one].fd \in 1..MaxFd
    BY <1>2, <2>1, RegisteredOnes DEF PollTables
  <2>3. table'[entry[one].fd] = table[entry[one].fd]
    BY <1>7, <2>1, <2>2
  <2>4. table[entry[one].fd].index \in 1..Len(slots) /\ table[entry[one].fd].index # at
    BY <1>4, <2>1, <2>2 DEF HasSlot
  <2>5. slots'[table[entry[one].fd].index] = slots[table[entry[one].fd].index]
    BY <1>6, <2>4
  <2> QED BY <1>6, <2>1, <2>2, <2>3, <2>5 DEF HasSlot
<1>9. ASSUME NEW k \in 1..Len(slots') PROVE SlotPolled(k)' /\ (pc = "dispatch" => SlotSeen(k)')
  <2>1. CASE slots'[k].fd = Pol!retired_fd
    BY <2>1 DEF SlotPolled, SlotSeen, Pol!retired_fd
  <2>2. CASE slots'[k].fd # Pol!retired_fd
    <3>1. k \in 1..Len(slots) /\ k # at
      BY <1>6, <2>2
    <3>2. slots'[k] = slots[k] /\ SlotPolled(k) /\ (pc = "dispatch" => SlotSeen(k))
      BY <1>2, <1>6, <3>1 DEF PollTables
    <3>3. IsPolled(slots[k].fd) /\ table[slots[k].fd].index = k
      BY <2>2, <3>2 DEF SlotPolled
    <3>4. slots[k].fd # fd /\ slots[k].fd \in 1..MaxFd
      BY <1>2, <3>1, <3>3, RegisteredOnes DEF IsPolled, at
    <3>5. table'[slots[k].fd] = table[slots[k].fd]
      BY <1>7, <3>4
    <3>6. IsPolled(slots[k].fd)'
      BY <3>2, <3>3, <3>4 DEF IsPolled, fd
    <3> QED BY <3>2, <3>3, <3>5, <3>6 DEF SlotPolled, SlotSeen
  <2> QED BY <2>1, <2>2
<1>10. PollTables'
  BY <1>8, <1>9 DEF PollTables
<1> QED BY <1>6, <1>7, <1>10

LEMMA RemovedFromSelect ==
  ASSUME PollerInv, build = "select", NEW re \in Pol!Registered, Pol!select_rm_fd(re, entry[re].fd), UNCHANGED <<build, pc, seen>>,
         \A other \in Pol!Registered' : other \in Pol!Registered /\ entry'[other] = entry[other] /\ entry[other].fd # entry[re].fd,
         \A fd : IsPolled(fd) /\ fd # entry[re].fd => \E other \in Pol!Registered' : entry'[other].fd = fd
  PROVE  SelectTables' /\ source' \in Pol!Sets /\ ready' \in Pol!Sets /\ slots' \in Seq(Pol!Slot) /\ Len(slots') = Len(slots)
<1> DEFINE fd == entry[re].fd
           at == Pol!SlotOf(fd)
<1>1. /\ slots' = [slots EXCEPT ![at].fd = Pol!retired_fd]
      /\ source' = [e \in Pol!Event |-> source[e] \ {fd}] /\ ready' = [e \in Pol!Event |-> ready[e] \ {fd}]
  BY DEF Pol!select_rm_fd
<1>2. /\ source \in Pol!Sets /\ ready \in Pol!Sets /\ slots \in Seq(Pol!Slot) /\ Len(slots) \in Nat /\ SelectTables /\ Pol!TypeOK
      /\ MaxFd \in Nat
  BY TablesTyped, PollerFacts DEF PollerInv
<1>3. fd \in 1..MaxFd
  BY <1>2, RegisteredOnes
<1>4. at \in 1..Len(slots) /\ slots[at].fd = fd
  <2>1. at = CHOOSE k \in 1..Len(slots) : slots[k].fd = fd
    BY DEF Pol!SlotOf
  <2>2. \E k \in 1..Len(slots) : slots[k].fd = fd
    BY <1>2 DEF SelectTables, InSlot
  <2> HIDE DEF at
  <2> QED BY <2>1, <2>2, Zenon
<1> HIDE DEF at, fd
<1>5. Pol!retired_fd \notin 1..MaxFd
  BY <1>2 DEF Pol!retired_fd
<1>6. /\ slots' \in Seq(Pol!Slot) /\ Len(slots') = Len(slots) /\ slots'[at].fd = Pol!retired_fd
      /\ \A k \in 1..Len(slots) : k # at => slots'[k] = slots[k]
  <2> DEFINE empty == [slots[at] EXCEPT !.fd = Pol!retired_fd]
  <2>1. slots[at] \in Pol!Slot
    BY <1>2, <1>4
  <2>2. empty \in Pol!Slot /\ empty.fd = Pol!retired_fd
    BY <2>1 DEF Pol!Slot
  <2>3. slots' = [slots EXCEPT ![at] = empty]
    BY <1>1
  <2> HIDE DEF empty
  <2> QED BY <1>2, <1>4, <2>2, <2>3
<1>7. source' \in Pol!Sets /\ ready' \in Pol!Sets
  BY <1>1, <1>2 DEF Pol!Sets
<1>8. \A e \in Pol!Event : source'[e] = source[e] \ {fd} /\ ready'[e] = ready[e] \ {fd}
  BY <1>1
<1>9. \A g : IsPolled(g) /\ g # fd => \E other \in Pol!Registered' : entry'[other].fd = g
  BY DEF fd
<1>10. ASSUME NEW one \in Pol!Registered' PROVE InSlot(one)' /\ InSets(one)' /\ (pc = "dispatch" => ReadySeen(one)')
  <2>1. one \in Pol!Registered /\ entry'[one] = entry[one] /\ entry[one].fd # fd
    BY DEF fd
  <2>2. InSlot(one) /\ InSets(one) /\ (pc = "dispatch" => ReadySeen(one))
    BY <1>2, <2>1 DEF SelectTables
  <2>3. InSlot(one)'
    <3>1. PICK k \in 1..Len(slots) : slots[k].fd = entry[one].fd /\ slots[k].reactor = one
      BY <2>2 DEF InSlot
    <3>2. k \in 1..Len(slots') /\ slots'[k] = slots[k]
      BY <1>4, <1>6, <2>1, <3>1
    <3> QED BY <2>1, <3>1, <3>2 DEF InSlot
  <2>4. InSets(one)'
    <3>1. \A way \in Pol!Direction : entry[one].fd \in source'[way] <=> entry[one].fd \in source[way]
      BY <1>8, <2>1 DEF Pol!Direction, Pol!Event
    <3> QED BY <2>1, <2>2, <3>1 DEF InSets
  <2>5. pc = "dispatch" => ReadySeen(one)'
    BY <1>8, <2>1, <2>2 DEF ReadySeen
  <2> QED BY <2>3, <2>4, <2>5
<1>11. ASSUME NEW k \in 1..Len(slots') PROVE SlotUsed(k)'
  <2>1. CASE k = at
    BY <1>6, <2>1 DEF SlotUsed, Pol!retired_fd
  <2>2. CASE k # at
    <3>1. k \in 1..Len(slots) /\ slots'[k] = slots[k] /\ SlotUsed(k)
      BY <1>2, <1>6, <2>2 DEF SelectTables
    <3>2. slots[k].fd # fd
      BY <1>2, <1>3, <1>4, <1>5, <2>2, <3>1 DEF SelectTables, SlotsDiffer
    <3> QED BY <1>9, <3>1, <3>2 DEF SlotUsed, IsPolled, Pol!retired_fd
  <2> QED BY <2>1, <2>2
<1>12. SlotsDiffer'
  <2>1. ASSUME NEW j \in 1..Len(slots'), NEW k \in 1..Len(slots'), slots'[j].fd = slots'[k].fd, slots'[j].fd # Pol!retired_fd
        PROVE  j = k
    <3>1. j # at /\ k # at
      BY <1>6, <2>1
    <3>2. j \in 1..Len(slots) /\ k \in 1..Len(slots) /\ slots'[j] = slots[j] /\ slots'[k] = slots[k]
      BY <1>6, <3>1
    <3> QED BY <1>2, <2>1, <3>2 DEF SelectTables, SlotsDiffer
  <2> QED BY <2>1 DEF SlotsDiffer, Pol!retired_fd
<1>13. SetsPolled'
  <2>1. ASSUME NEW ev \in Pol!Event, NEW g \in source'[ev] \union ready'[ev] PROVE IsPolled(g)'
    <3>1. g \in source[ev] \union ready[ev] /\ g # fd
      BY <1>8
    <3>2. IsPolled(g)
      BY <1>2, <3>1 DEF SelectTables, SetsPolled
    <3> QED BY <1>9, <3>1, <3>2 DEF IsPolled
  <2> QED BY <2>1 DEF SetsPolled
<1> QED BY <1>6, <1>7, <1>10, <1>11, <1>12, <1>13 DEF SelectTables

LEMMA RemovedFromDevpoll ==
  ASSUME PollerInv, build = "devpoll", NEW re \in Pol!Registered, Pol!devpoll_rm_fd(re, entry[re].fd), UNCHANGED <<build, pc, seen>>,
         \A other \in Pol!Registered' : other \in Pol!Registered /\ entry'[other] = entry[other] /\ entry[other].fd # entry[re].fd,
         \A fd : IsPolled(fd) /\ fd # entry[re].fd => \E other \in Pol!Registered' : entry'[other].fd = fd
  PROVE  DevpollTables' /\ table' \in [1..MaxFd -> Pol!FdEntry]
<1> DEFINE fd == entry[re].fd
           shut == [table[fd] EXCEPT !.valid = FALSE]
<1>1. table' = [table EXCEPT ![fd] = shut]
  BY DEF Pol!devpoll_rm_fd
<1>2. table \in [1..MaxFd -> Pol!FdEntry] /\ DevpollTables /\ Pol!TypeOK /\ fd \in 1..MaxFd
  BY TablesTyped, RegisteredOnes DEF PollerInv
<1> HIDE DEF fd
<1>3. shut \in Pol!FdEntry /\ ~shut.valid
  BY <1>2 DEF Pol!FdEntry
<1> HIDE DEF shut
<1>4. table' \in [1..MaxFd -> Pol!FdEntry] /\ table'[fd] = shut /\ \A g \in 1..MaxFd : g # fd => table'[g] = table[g]
  BY <1>1, <1>2, <1>3
<1>5. ASSUME NEW one \in Pol!Registered' PROVE InTable(one)' /\ (pc = "dispatch" => AcceptedSeen(one)')
  <2>1. one \in Pol!Registered /\ entry'[one] = entry[one] /\ entry[one].fd # fd
    BY DEF fd
  <2>2. InTable(one) /\ (pc = "dispatch" => AcceptedSeen(one)) /\ entry[one].fd \in 1..MaxFd
    BY <1>2, <2>1, RegisteredOnes DEF DevpollTables
  <2>3. table'[entry[one].fd] = table[entry[one].fd]
    BY <1>4, <2>1, <2>2
  <2> QED BY <2>1, <2>2, <2>3 DEF InTable, AcceptedSeen
<1>6. ASSUME NEW g \in 1..MaxFd, table'[g].valid PROVE IsPolled(g)'
  <2>1. g # fd /\ table[g].valid
    BY <1>3, <1>4, <1>6
  <2>2. IsPolled(g)
    BY <1>2, <2>1 DEF DevpollTables, Pol!Fd
  <2> QED BY <2>1, <2>2 DEF IsPolled, fd
<1> QED BY <1>4, <1>5, <1>6 DEF DevpollTables, Pol!Fd

\* What rm_fd leaves in every build.
LEMMA PollerRemoves ==
  ASSUME PollerInv, NEW re \in Reactor, Pol!rm_fd(re),
         UNCHANGED <<build, stopping, pc, batch, i, seen, handling, dangling>>, calls' \in 0..MaxCalls
  PROVE  PollerInv'
<1>1. /\ re \in Pol!Registered /\ entry' = [entry EXCEPT ![re].fd = Pol!retired_fd] /\ load' = load - 1 /\ moved' = moved
      /\ build = "kqueue" => Pol!kqueue_rm_fd(re, entry[re].fd)
      /\ build = "epoll" => Pol!epoll_rm_fd(re, entry[re].fd)
      /\ build = "poll" => Pol!poll_rm_fd(re, entry[re].fd)
      /\ build = "select" => Pol!select_rm_fd(re, entry[re].fd)
      /\ build = "devpoll" => Pol!devpoll_rm_fd(re, entry[re].fd)
  BY DEF Pol!rm_fd
<1>2. Pol!TypeOK /\ build \in Builds /\ BatchOf /\ retired \subseteq Reactor
  BY TablesTyped DEF PollerInv
<1>3. retired' \subseteq retired \union {re}
  BY <1>1, <1>2 DEF Pol!kqueue_rm_fd, Pol!epoll_rm_fd, Pol!poll_rm_fd, Pol!select_rm_fd, Pol!devpoll_rm_fd, Builds
<1>4. /\ entry' \in [Reactor -> Pol!Entry] /\ Pol!Registered' = Pol!Registered \ {re}
      /\ \A other \in Pol!Registered' : other # re /\ entry'[other] = entry[other] /\ entry[other].fd # entry[re].fd
      /\ \A fd : IsPolled(fd) /\ fd # entry[re].fd => \E other \in Pol!Registered' : entry'[other].fd = fd
      /\ EntriesOwn' /\ Pol!LoadRight' /\ load' \in 0..MaxFd /\ BatchOf' /\ Pol!ReachesItsOwn'
  BY <1>1, <1>3, EntryRemoved
<1>5. \A other \in Pol!Registered' : other \in Pol!Registered /\ entry'[other] = entry[other] /\ entry[other].fd # entry[re].fd
  BY <1>4
<1>6. /\ table' \in [1..MaxFd -> Pol!FdEntry] /\ slots' \in Seq(Pol!Slot) /\ source' \in Pol!Sets /\ ready' \in Pol!Sets
      /\ pending' = pending /\ Len(slots') >= Len(slots)
      /\ build = "poll" => PollTables'
      /\ build = "select" => SelectTables'
      /\ build = "devpoll" => DevpollTables'
  <2>0. /\ table \in [1..MaxFd -> Pol!FdEntry] /\ slots \in Seq(Pol!Slot) /\ source \in Pol!Sets /\ ready \in Pol!Sets
        /\ Len(slots) \in Nat
    BY <1>2, TablesTyped
  <2>1. CASE build \in {"kqueue", "epoll"}
    BY <1>1, <2>0, <2>1 DEF Pol!kqueue_rm_fd, Pol!epoll_rm_fd
  <2>2. CASE build = "poll"
    <3>1. PollTables' /\ table' \in [1..MaxFd -> Pol!FdEntry] /\ slots' \in Seq(Pol!Slot) /\ Len(slots') = Len(slots)
      BY <1>1, <1>4, <1>5, <2>2, RemovedFromPoll
    <3>2. UNCHANGED <<source, ready, pending>>
      BY <1>1, <2>2 DEF Pol!poll_rm_fd
    <3> QED BY <2>0, <2>2, <3>1, <3>2
  <2>3. CASE build = "select"
    <3>1. SelectTables' /\ source' \in Pol!Sets /\ ready' \in Pol!Sets /\ slots' \in Seq(Pol!Slot) /\ Len(slots') = Len(slots)
      BY <1>1, <1>4, <1>5, <2>3, RemovedFromSelect
    <3>2. UNCHANGED <<table, pending>>
      BY <1>1, <2>3 DEF Pol!select_rm_fd
    <3> QED BY <2>0, <2>3, <3>1, <3>2
  <2>4. CASE build = "devpoll"
    <3>1. DevpollTables' /\ table' \in [1..MaxFd -> Pol!FdEntry]
      BY <1>1, <1>4, <1>5, <2>4, RemovedFromDevpoll
    <3>2. UNCHANGED <<slots, source, ready, pending>>
      BY <1>1, <2>4 DEF Pol!devpoll_rm_fd
    <3> QED BY <2>0, <2>4, <3>1, <3>2
  <2> QED BY <1>2, <2>1, <2>2, <2>3, <2>4 DEF Builds
<1>7. Pol!TypeOK'
  <2>1. retired' \subseteq Reactor /\ moved' \in BOOLEAN /\ pending' \in Seq(1..MaxFd)
    BY <1>1, <1>2, <1>3, <1>6, TablesTyped
  <2> QED BY <1>2, <1>4, <1>6, <2>1, SameBatch
<1> QED BY <1>1, <1>2, <1>4, <1>6, <1>7 DEF PollerInv

(***************************************************************************)
(* set_pollin, reset_pollin, set_pollout and reset_pollout.                *)
(***************************************************************************)
LEMMA EntryAdjusted ==
  ASSUME PollerInv, NEW re \in Reactor, NEW added \in SUBSET Pol!Direction, NEW removed \in SUBSET Pol!Direction,
         Pol!Adjust(re, added, removed), UNCHANGED <<build, batch, handling>>
  PROVE  /\ re \in Pol!Registered /\ entry' \in [Reactor -> Pol!Entry] /\ Pol!Registered' = Pol!Registered
         /\ entry'[re].events = Pol!Changed(entry[re].events, added, removed) /\ entry'[re].fd = entry[re].fd
         /\ \A other \in Reactor : other # re => entry'[other] = entry[other]
         /\ \A g : IsPolled(g) => \E other \in Pol!Registered' : entry'[other].fd = g
         /\ EntriesOwn' /\ Pol!LoadRight' /\ BatchOf' /\ Pol!ReachesItsOwn'
<1>1. re \in Pol!Registered /\ entry' = [entry EXCEPT ![re].events = Pol!Changed(@, added, removed)] /\ UNCHANGED <<load, retired>>
  BY DEF Pol!Adjust
<1>2. Pol!TypeOK /\ EntriesOwn /\ BatchOf /\ entry \in [Reactor -> Pol!Entry]
  BY DEF PollerInv, Pol!TypeOK
<1> DEFINE wants == Pol!Changed(entry[re].events, added, removed)
           now == [entry[re] EXCEPT !.events = wants]
<1>3. wants \in SUBSET Pol!Direction
  BY <1>2 DEF Pol!Changed, Pol!Entry
<1>4. entry' = [entry EXCEPT ![re] = now]
  BY <1>1, <1>2
<1> HIDE DEF wants
<1>5. now \in Pol!Entry /\ now.events = wants /\ now.fd = entry[re].fd /\ now.freed = entry[re].freed
  BY <1>2, <1>3 DEF Pol!Entry
<1> HIDE DEF now
<1>6. entry' \in [Reactor -> Pol!Entry] /\ entry'[re] = now /\ \A other \in Reactor : other # re => entry'[other] = entry[other]
  BY <1>2, <1>4, <1>5
<1>7. \A other \in Reactor : entry'[other].fd = entry[other].fd /\ (entry'[other].freed <=> entry[other].freed)
  BY <1>5, <1>6
<1>8. Pol!Registered' = Pol!Registered
  BY <1>7 DEF Pol!Registered
<1>9. \A g : IsPolled(g) => \E other \in Pol!Registered' : entry'[other].fd = g
  BY <1>2, <1>7, <1>8, RegisteredOnes DEF IsPolled
<1>10. EntriesOwn'
  <2>1. \A one, other \in Pol!Registered' : entry'[one].fd = entry'[other].fd => one = other
    BY <1>2, <1>7, <1>8, RegisteredOnes DEF EntriesOwn
  <2>2. \A other \in Reactor : entry'[other].freed \/ (other \in retired' /\ build' \in {"kqueue", "epoll"})
                                => entry'[other].fd = 0 - 1
    BY <1>1, <1>2, <1>7 DEF EntriesOwn, Pol!retired_fd
  <2> QED BY <2>1, <2>2 DEF EntriesOwn, Pol!retired_fd
<1>11. Pol!LoadRight'
  BY <1>1, <1>8, PollerFacts DEF PollerInv, Pol!LoadRight
<1>12. BatchOf'
  <2>1. ASSUME build \in {"kqueue", "epoll"}, NEW k \in 1..Len(batch)
        PROVE  batch[k].key \in Reactor /\ entry'[batch[k].key].fd # 0 /\ ~entry'[batch[k].key].freed
    BY <1>2, <1>7, <2>1 DEF BatchOf
  <2> QED BY <1>2, <2>1 DEF BatchOf
<1>13. Pol!ReachesItsOwn'
  BY DEF PollerInv, Pol!ReachesItsOwn
<1> QED BY <1>1, <1>5, <1>6, <1>8, <1>9, <1>10, <1>11, <1>12, <1>13 DEF wants

LEMMA AdjustedInPoll ==
  ASSUME PollerInv, build = "poll", NEW re \in Pol!Registered, NEW added \in SUBSET Pol!Direction, NEW removed \in SUBSET Pol!Direction,
         slots' = [slots EXCEPT ![table[entry[re].fd].index].events = Pol!Changed(@, added, removed)],
         UNCHANGED <<build, pc, seen, table>>, Pol!Registered' = Pol!Registered,
         entry'[re].events = Pol!Changed(entry[re].events, added, removed), entry'[re].fd = entry[re].fd,
         \A other \in Reactor : other # re => entry'[other] = entry[other],
         \A g : IsPolled(g) => \E other \in Pol!Registered' : entry'[other].fd = g
  PROVE  PollTables' /\ slots' \in Seq(Pol!Slot) /\ Len(slots') = Len(slots)
<1> DEFINE at == table[entry[re].fd].index
           now == [slots[at] EXCEPT !.events = Pol!Changed(slots[at].events, added, removed)]
<1>1. /\ slots \in Seq(Pol!Slot) /\ Len(slots) \in Nat /\ PollTables /\ Pol!TypeOK /\ HasSlot(re) /\ EntriesOwn
  BY TablesTyped DEF PollerInv, PollTables
<1>2. at \in 1..Len(slots) /\ slots[at].fd = entry[re].fd /\ slots[at].events = entry[re].events
  BY <1>1 DEF HasSlot
<1> HIDE DEF at
<1>3. slots[at] \in Pol!Slot
  BY <1>1, <1>2
<1>4. slots' = [slots EXCEPT ![at] = now]
  BY <1>1, <1>2, <1>3 DEF at
<1>5. /\ now \in Pol!Slot /\ now.fd = slots[at].fd /\ now.reactor = slots[at].reactor /\ now.revents = slots[at].revents
      /\ now.events = Pol!Changed(slots[at].events, added, removed)
  <2> DEFINE wants == Pol!Changed(slots[at].events, added, removed)
  <2>1. wants \in SUBSET Pol!Direction
    BY <1>3 DEF Pol!Changed, Pol!Slot
  <2> HIDE DEF wants
  <2>2. [slots[at] EXCEPT !.events = wants] \in Pol!Slot
    BY <1>3, <2>1 DEF Pol!Slot
  <2>3. now = [slots[at] EXCEPT !.events = wants]
    BY DEF wants
  <2>4. now.events = wants /\ now.fd = slots[at].fd /\ now.reactor = slots[at].reactor /\ now.revents = slots[at].revents
    BY <1>3, <2>1, <2>3 DEF Pol!Slot
  <2> QED BY <2>2, <2>3, <2>4 DEF wants
<1> HIDE DEF now
<1>6. /\ slots' \in Seq(Pol!Slot) /\ Len(slots') = Len(slots) /\ slots'[at] = now
      /\ \A k \in 1..Len(slots) : k # at => slots'[k] = slots[k]
  <2>1. now \in Pol!Slot /\ slots \in Seq(Pol!Slot) /\ Len(slots) \in Nat /\ at \in 1..Len(slots)
    BY <1>1, <1>2, <1>5
  <2>2. slots' = [slots EXCEPT ![at] = now]
    BY <1>4
  <2>3. slots' \in Seq(Pol!Slot)
    <3>1. [slots EXCEPT ![at] = now] \in Seq(Pol!Slot)
      BY <2>1, ExceptSeq
    <3> QED BY <2>2, <3>1
  <2>4. Len(slots') = Len(slots)
    BY <2>1, <2>2
  <2>5. slots'[at] = now
    BY <2>1, <2>2
  <2>6. \A k \in 1..Len(slots) : k # at => slots'[k] = slots[k]
    BY <2>1, <2>2
  <2> QED BY <2>3, <2>4, <2>5, <2>6
<1>7. \A k \in 1..Len(slots) : slots'[k].fd = slots[k].fd /\ slots'[k].revents = slots[k].revents
  BY <1>5, <1>6
<1>8. ASSUME NEW one \in Pol!Registered' PROVE HasSlot(one)'
  <2>1. one \in Pol!Registered /\ HasSlot(one) /\ entry'[one].fd = entry[one].fd /\ one \in Reactor
    BY <1>1, RegisteredOnes DEF PollTables
  <2>2. table[entry[one].fd].index \in 1..Len(slots')
    BY <1>6, <2>1 DEF HasSlot
  <2>3. slots'[table[entry[one].fd].index].events = entry'[one].events
    <3>1. CASE one = re
      BY <1>2, <1>5, <1>6, <3>1 DEF at
    <3>2. CASE one # re
      <4>1. entry[one].fd # entry[re].fd
        BY <1>1, <2>1, <3>2 DEF EntriesOwn
      <4>2. table[entry[one].fd].index # at /\ entry'[one] = entry[one]
        BY <1>2, <2>1, <3>2, <4>1 DEF HasSlot
      <4> QED BY <1>6, <2>1, <4>2 DEF HasSlot
    <3> QED BY <3>1, <3>2
  <2> QED BY <1>7, <2>1, <2>2, <2>3 DEF HasSlot
<1>9. ASSUME NEW k \in 1..Len(slots') PROVE SlotPolled(k)' /\ (pc = "dispatch" => SlotSeen(k)')
  <2>1. k \in 1..Len(slots) /\ slots'[k].fd = slots[k].fd /\ slots'[k].revents = slots[k].revents
    BY <1>6, <1>7
  <2>2. SlotPolled(k) /\ (pc = "dispatch" => SlotSeen(k))
    BY <1>1, <2>1 DEF PollTables
  <2> QED BY <2>1, <2>2 DEF SlotPolled, SlotSeen, IsPolled, Pol!retired_fd
<1> QED BY <1>6, <1>8, <1>9 DEF PollTables

LEMMA AdjustedInSelect ==
  ASSUME PollerInv, build = "select", NEW re \in Pol!Registered, NEW added \in SUBSET Pol!Direction, NEW removed \in SUBSET Pol!Direction,
         source' = [e \in Pol!Event |-> IF e = "err" THEN source[e]
                      ELSE IF e \in Pol!Changed({d \in Pol!Direction : entry[re].fd \in source[d]}, added, removed)
                        THEN source[e] \union {entry[re].fd} ELSE source[e] \ {entry[re].fd}],
         UNCHANGED <<build, pc, seen, slots, ready>>, Pol!Registered' = Pol!Registered,
         entry'[re].events = Pol!Changed(entry[re].events, added, removed), entry'[re].fd = entry[re].fd,
         \A other \in Reactor : other # re => entry'[other] = entry[other],
         \A g : IsPolled(g) => \E other \in Pol!Registered' : entry'[other].fd = g
  PROVE  SelectTables' /\ source' \in Pol!Sets
<1> DEFINE fd == entry[re].fd
           asked == {d \in Pol!Direction : fd \in source[d]}
           wants == Pol!Changed(asked, added, removed)
<1>1. /\ source \in Pol!Sets /\ SelectTables /\ Pol!TypeOK /\ EntriesOwn /\ fd \in 1..MaxFd
  BY TablesTyped, RegisteredOnes DEF PollerInv
<1>2. asked = entry[re].events
  <2>1. InSets(re) /\ entry[re].events \subseteq Pol!Direction
    BY <1>1, RegisteredOnes DEF SelectTables, Pol!TypeOK, Pol!Entry
  <2> QED BY <2>1 DEF InSets
<1>3. entry'[re].events = wants
  BY <1>2
<1>4. wants \subseteq Pol!Direction
  BY DEF Pol!Changed
<1>5. source' = [e \in Pol!Event |-> IF e = "err" THEN source[e]
                      ELSE IF e \in wants THEN source[e] \union {fd} ELSE source[e] \ {fd}]
  OBVIOUS
<1> HIDE DEF wants, asked, fd
<1>6. \A way \in Pol!Direction : fd \in source'[way] <=> way \in wants
  BY <1>5 DEF Pol!Direction, Pol!Event
<1>7. \A e \in Pol!Event : \A g : g # fd => (g \in source'[e] <=> g \in source[e])
  BY <1>5
<1>8. source' \in Pol!Sets
  BY <1>1, <1>5 DEF Pol!Sets, Pol!Fd
<1>9. \A one \in Pol!Registered : one \in Reactor /\ entry'[one].fd = entry[one].fd
  BY <1>1, RegisteredOnes
<1>10. ASSUME NEW one \in Pol!Registered' PROVE InSlot(one)' /\ InSets(one)' /\ (pc = "dispatch" => ReadySeen(one)')
  <2>1. one \in Pol!Registered /\ entry'[one].fd = entry[one].fd
    BY <1>9
  <2>2. InSlot(one) /\ InSets(one) /\ (pc = "dispatch" => ReadySeen(one))
    BY <1>1, <2>1 DEF SelectTables
  <2>3. InSlot(one)'
    BY <2>1, <2>2 DEF InSlot
  <2>4. InSets(one)'
    <3>1. CASE one = re
      BY <1>3, <1>6, <2>1, <3>1 DEF InSets, fd
    <3>2. CASE one # re
      <4>1. entry[one].fd # fd /\ entry'[one] = entry[one]
        BY <1>1, <1>9, <2>1, <3>2 DEF EntriesOwn, fd
      <4>2. \A way \in Pol!Direction : entry[one].fd \in source'[way] <=> entry[one].fd \in source[way]
        BY <1>7, <4>1 DEF Pol!Direction, Pol!Event
      <4> QED BY <2>2, <4>1, <4>2 DEF InSets
    <3> QED BY <3>1, <3>2
  <2>5. pc = "dispatch" => ReadySeen(one)'
    BY <2>1, <2>2 DEF ReadySeen
  <2> QED BY <2>3, <2>4, <2>5
<1>11. \A g : IsPolled(g) => IsPolled(g)'
  BY DEF IsPolled
<1>12. ASSUME NEW k \in 1..Len(slots') PROVE SlotUsed(k)'
  <2>1. SlotUsed(k)
    BY <1>1 DEF SelectTables
  <2> QED BY <2>1, <1>11 DEF SlotUsed, Pol!retired_fd
<1>13. SlotsDiffer'
  BY <1>1 DEF SelectTables, SlotsDiffer, Pol!retired_fd
<1>14. SetsPolled'
  <2>1. ASSUME NEW ev \in Pol!Event, NEW g \in source'[ev] \union ready'[ev] PROVE IsPolled(g)'
    <3>1. CASE g = fd
      BY <1>11, <3>1 DEF IsPolled, fd
    <3>2. CASE g # fd
      <4>1. g \in source[ev] \union ready[ev]
        BY <1>7, <2>1, <3>2
      <4> QED BY <1>1, <1>11, <4>1 DEF SelectTables, SetsPolled
    <3> QED BY <3>1, <3>2
  <2> QED BY <2>1 DEF SetsPolled
<1> QED BY <1>8, <1>10, <1>12, <1>13, <1>14 DEF SelectTables

LEMMA AdjustedInDevpoll ==
  ASSUME PollerInv, build = "devpoll", NEW re \in Pol!Registered, NEW added \in SUBSET Pol!Direction, NEW removed \in SUBSET Pol!Direction,
         table' = [table EXCEPT ![entry[re].fd].events = Pol!Changed(@, added, removed)],
         UNCHANGED <<build, pc, seen>>, Pol!Registered' = Pol!Registered,
         entry'[re].events = Pol!Changed(entry[re].events, added, removed), entry'[re].fd = entry[re].fd,
         \A other \in Reactor : other # re => entry'[other] = entry[other],
         \A g : IsPolled(g) => \E other \in Pol!Registered' : entry'[other].fd = g
  PROVE  DevpollTables' /\ table' \in [1..MaxFd -> Pol!FdEntry]
<1> DEFINE fd == entry[re].fd
           wants == Pol!Changed(table[fd].events, added, removed)
           now == [table[fd] EXCEPT !.events = wants]
<1>1. /\ table \in [1..MaxFd -> Pol!FdEntry] /\ DevpollTables /\ Pol!TypeOK /\ EntriesOwn /\ fd \in 1..MaxFd
  BY TablesTyped, RegisteredOnes DEF PollerInv
<1>2. InTable(re)
  BY <1>1 DEF DevpollTables
<1>3. wants = entry'[re].events
  BY <1>2 DEF InTable
<1>4. wants \in SUBSET Pol!Direction
  BY <1>1 DEF Pol!Changed, Pol!FdEntry
<1>5. table' = [table EXCEPT ![fd] = now]
  BY <1>1
<1> HIDE DEF wants, fd
<1>6. /\ now \in Pol!FdEntry /\ now.events = wants /\ now.reactor = table[fd].reactor
      /\ (now.valid <=> table[fd].valid) /\ (now.accepted <=> table[fd].accepted)
  BY <1>1, <1>4 DEF Pol!FdEntry
<1> HIDE DEF now
<1>7. table' \in [1..MaxFd -> Pol!FdEntry] /\ table'[fd] = now /\ \A g \in 1..MaxFd : g # fd => table'[g] = table[g]
  BY <1>1, <1>5, <1>6
<1>8. ASSUME NEW one \in Pol!Registered' PROVE InTable(one)' /\ (pc = "dispatch" => AcceptedSeen(one)')
  <2>1. one \in Pol!Registered /\ entry'[one].fd = entry[one].fd /\ one \in Reactor /\ entry[one].fd \in 1..MaxFd
    BY <1>1, RegisteredOnes
  <2>2. InTable(one) /\ (pc = "dispatch" => AcceptedSeen(one))
    BY <1>1, <2>1 DEF DevpollTables
  <2>3. CASE one = re
    <3>1. table'[entry'[one].fd] = now /\ entry[one].fd = fd
      BY <1>7, <2>1, <2>3 DEF fd
    <3> QED BY <1>3, <1>6, <2>1, <2>2, <2>3, <3>1 DEF InTable, AcceptedSeen
  <2>4. CASE one # re
    <3>1. entry[one].fd # fd /\ entry'[one] = entry[one]
      BY <1>1, <2>1, <2>4 DEF EntriesOwn, fd
    <3>2. table'[entry[one].fd] = table[entry[one].fd]
      BY <1>7, <2>1, <3>1
    <3> QED BY <2>2, <3>1, <3>2 DEF InTable, AcceptedSeen
  <2> QED BY <2>3, <2>4
<1>9. ASSUME NEW g \in 1..MaxFd, table'[g].valid PROVE IsPolled(g)'
  <2>1. table[g].valid
    BY <1>6, <1>7, <1>9
  <2>2. IsPolled(g)
    BY <1>1, <2>1 DEF DevpollTables, Pol!Fd
  <2> QED BY <2>2 DEF IsPolled
<1> QED BY <1>7, <1>8, <1>9 DEF DevpollTables, Pol!Fd

LEMMA PollerAdjusts ==
  ASSUME PollerInv, NEW re \in Reactor, NEW added \in SUBSET Pol!Direction, NEW removed \in SUBSET Pol!Direction,
         Pol!Adjust(re, added, removed), UNCHANGED <<build, stopping, pc, batch, i, seen, handling, dangling>>, calls' \in 0..MaxCalls
  PROVE  PollerInv'
<1> DEFINE fd == entry[re].fd
<1>1. /\ re \in Pol!Registered /\ entry' \in [Reactor -> Pol!Entry] /\ Pol!Registered' = Pol!Registered
      /\ entry'[re].events = Pol!Changed(entry[re].events, added, removed) /\ entry'[re].fd = entry[re].fd
      /\ \A other \in Reactor : other # re => entry'[other] = entry[other]
      /\ \A g : IsPolled(g) => \E other \in Pol!Registered' : entry'[other].fd = g
      /\ EntriesOwn' /\ Pol!LoadRight' /\ BatchOf' /\ Pol!ReachesItsOwn'
  BY EntryAdjusted
<1>2. /\ build = "poll" => slots' = [slots EXCEPT ![table[fd].index].events = Pol!Changed(@, added, removed)]
      /\ build # "poll" => slots' = slots
  BY DEF Pol!Adjust
<1>3. /\ build = "select" =>
           source' = [e \in Pol!Event |-> IF e = "err" THEN source[e]
                        ELSE IF e \in Pol!Changed({d \in Pol!Direction : fd \in source[d]}, added, removed)
                          THEN source[e] \union {fd} ELSE source[e] \ {fd}]
      /\ build # "select" => source' = source
  BY DEF Pol!Adjust
<1>4. /\ build = "devpoll" => table' = [table EXCEPT ![fd].events = Pol!Changed(@, added, removed)]
      /\ build # "devpoll" => table' = table
  BY DEF Pol!Adjust
<1>5. UNCHANGED <<ready, pending, retired, load, moved>>
  BY DEF Pol!Adjust
<1>6. Pol!TypeOK /\ BatchOf
  BY DEF PollerInv
<1>7. /\ table \in [1..MaxFd -> Pol!FdEntry] /\ slots \in Seq(Pol!Slot) /\ source \in Pol!Sets /\ ready \in Pol!Sets
      /\ pending \in Seq(1..MaxFd) /\ retired \subseteq Reactor /\ load \in 0..MaxFd /\ moved \in BOOLEAN
      /\ build \in Builds /\ Len(slots) \in Nat
  BY <1>6, TablesTyped
<1>8. build = "poll" => PollTables' /\ slots' \in Seq(Pol!Slot) /\ Len(slots') = Len(slots)
  BY <1>1, <1>2, <1>4, AdjustedInPoll
<1>9. build = "select" => SelectTables' /\ source' \in Pol!Sets
  BY <1>1, <1>2, <1>3, <1>5, AdjustedInSelect
<1>10. build = "devpoll" => DevpollTables' /\ table' \in [1..MaxFd -> Pol!FdEntry]
  BY <1>1, <1>4, AdjustedInDevpoll
<1>11. table' \in [1..MaxFd -> Pol!FdEntry] /\ slots' \in Seq(Pol!Slot) /\ source' \in Pol!Sets /\ Len(slots') >= Len(slots)
  BY <1>2, <1>3, <1>4, <1>7, <1>8, <1>9, <1>10
<1>12. Pol!TypeOK'
  BY <1>1, <1>5, <1>6, <1>7, <1>11, SameBatch
<1> QED BY <1>1, <1>5, <1>6, <1>8, <1>9, <1>10, <1>12 DEF PollerInv

\* Every call of the poller is one of three.
LEMMA CallMade ==
  ASSUME Pol!Call
  PROVE  \E re \in Reactor :
           \/ \E asked \in Pol!Asked : Pol!add_fd(re, asked)
           \/ Pol!rm_fd(re)
           \/ \E added, removed \in SUBSET Pol!Direction : Pol!Adjust(re, added, removed)
<1>1. {"in"} \in SUBSET Pol!Direction /\ {"out"} \in SUBSET Pol!Direction /\ {} \in SUBSET Pol!Direction
  BY DEF Pol!Direction
<1>2. PICK re \in Reactor :
        \/ \E asked \in Pol!Asked : Pol!add_fd(re, asked)
        \/ Pol!rm_fd(re) \/ Pol!set_pollin(re) \/ Pol!reset_pollin(re) \/ Pol!set_pollout(re) \/ Pol!reset_pollout(re)
  BY DEF Pol!Call
<1>3. Pol!set_pollin(re) => Pol!Adjust(re, {"in"}, {})
  BY DEF Pol!set_pollin
<1>4. Pol!reset_pollin(re) => Pol!Adjust(re, {}, {"in"})
  BY DEF Pol!reset_pollin
<1>5. Pol!set_pollout(re) => Pol!Adjust(re, {"out"}, {})
  BY DEF Pol!set_pollout
<1>6. Pol!reset_pollout(re) => Pol!Adjust(re, {}, {"out"})
  BY DEF Pol!reset_pollout
<1> QED BY <1>1, <1>2, <1>3, <1>4, <1>5, <1>6

LEMMA PollerCalled ==
  ASSUME PollerInv, Pol!Call
  PROVE  PollerInv'
<1>1. /\ calls < MaxCalls /\ calls' = calls + 1
      /\ UNCHANGED <<build, stopping, pc, batch, i, seen, handling, dangling>>
  BY DEF Pol!Call, Pol!loopVars
<1>2. calls' \in 0..MaxCalls
  <2>1. calls \in 0..MaxCalls /\ MaxCalls \in Nat
    BY PollerFacts DEF PollerInv, Pol!TypeOK
  <2> QED BY <1>1, <2>1
<1>3. PICK re \in Reactor :
        \/ \E asked \in Pol!Asked : Pol!add_fd(re, asked)
        \/ Pol!rm_fd(re)
        \/ \E added, removed \in SUBSET Pol!Direction : Pol!Adjust(re, added, removed)
  BY CallMade
<1>4. CASE \E asked \in Pol!Asked : Pol!add_fd(re, asked)
  BY <1>1, <1>2, <1>4, PollerAdds
<1>5. CASE Pol!rm_fd(re)
  BY <1>1, <1>2, <1>5, PollerRemoves
<1>6. CASE \E added, removed \in SUBSET Pol!Direction : Pol!Adjust(re, added, removed)
  BY <1>1, <1>2, <1>6, PollerAdjusts
<1> QED BY <1>3, <1>4, <1>5, <1>6

(***************************************************************************)
(* The loop.                                                               *)
(***************************************************************************)
\* There are finitely many reports, and each is of an entry that is registered.
LEMMA ReportsFinite ==
  ASSUME Pol!TypeOK, NEW of \in [Pol!Registered -> SUBSET Pol!Event]
  PROVE  /\ IsFiniteSet(Pol!Reported(of))
         /\ build \in {"kqueue", "epoll"} => \A one \in Pol!Reported(of) : one.key \in Pol!Registered
         /\ build = "devpoll" => \A one \in Pol!Reported(of) : \E re \in Pol!Registered : one.key = entry[re].fd
<1>0. IsFiniteSet(Pol!Registered) /\ build \in Builds
  BY RegisteredOnes, TablesTyped
<1> DEFINE some == {re \in Pol!Registered : of[re] # {}}
<1>1. some \in SUBSET Pol!Registered
  OBVIOUS
<1>2. IsFiniteSet(some)
  BY <1>0, <1>1, FS_Subset
<1>3. CASE build = "kqueue"
  <2> DEFINE pairs == some \X Pol!Direction
             report(pair) == [key |-> pair[1], revents |-> {pair[2]} \union (of[pair[1]] \cap {"err"})]
             to == [pair \in pairs |-> report(pair)]
             all == {report(pair) : pair \in pairs}
  <2>1. Pol!Reported(of) = UNION {{[key |-> re, revents |-> {d} \union (of[re] \cap {"err"})] : d \in of[re] \cap Pol!Direction} : re \in some}
    BY <1>3 DEF Pol!Reported
  <2>2. ASSUME NEW one \in Pol!Reported(of) PROVE one.key \in Pol!Registered /\ one \in all
    <3>1. PICK re \in some : \E d \in of[re] \cap Pol!Direction : one = [key |-> re, revents |-> {d} \union (of[re] \cap {"err"})]
      BY <2>1
    <3>2. PICK d \in of[re] \cap Pol!Direction : one = [key |-> re, revents |-> {d} \union (of[re] \cap {"err"})]
      BY <3>1
    <3>3. one.key = re
      BY <3>2
    <3>4. <<re, d>> \in pairs /\ one = report(<<re, d>>)
      BY <3>2
    <3>5. one \in all
      BY <3>4, Zenon
    <3> QED BY <1>1, <3>3, <3>5
  <2>3. IsFiniteSet(Pol!Direction)
    <3>1. Pol!Direction = {"in"} \cup {"out"}
      BY DEF Pol!Direction
    <3> QED BY <3>1, FS_Singleton, FS_AddElement
  <2>4. IsFiniteSet(pairs)
    BY <1>2, <2>3, FS_Product
  <2>5. IsFiniteSet(all)
    <3>1. to \in [pairs -> all] /\ \A x \in all : \E pair \in pairs : to[pair] = x
      <4>1. to \in [pairs -> all]
        BY Zenon
      <4>2. ASSUME NEW x \in all PROVE \E pair \in pairs : to[pair] = x
        <5>1. PICK pair \in pairs : x = report(pair)
          BY Zenon
        <5>2. to[pair] = report(pair)
          BY Zenon
        <5> HIDE DEF to, report, pairs
        <5> QED BY <5>1, <5>2
      <4> QED BY <4>1, <4>2
    <3> HIDE DEF to, all, pairs
    <3>2. to \in Surjection(pairs, all)
      BY <3>1 DEF Surjection
    <3> QED BY <2>4, <3>2, FS_Surjection
  <2>6. Pol!Reported(of) \in SUBSET all
    BY <2>2
  <2> HIDE DEF all
  <2>7. IsFiniteSet(Pol!Reported(of))
    BY <2>5, <2>6, FS_Subset
  <2> QED BY <1>3, <2>2, <2>7
<1>4. CASE build = "epoll"
  <2> DEFINE to == [re \in some |-> [key |-> re, revents |-> of[re]]]
  <2>1. Pol!Reported(of) = {[key |-> re, revents |-> of[re]] : re \in some}
    BY <1>4 DEF Pol!Reported
  <2>2. to \in [some -> Pol!Reported(of)] /\ \A x \in Pol!Reported(of) : \E re \in some : to[re] = x
    BY <2>1
  <2>3. \A one \in Pol!Reported(of) : one.key \in Pol!Registered
    BY <1>1, <2>1
  <2> HIDE DEF to, some
  <2>4. to \in Surjection(some, Pol!Reported(of))
    BY <2>2 DEF Surjection
  <2>5. IsFiniteSet(Pol!Reported(of))
    BY <1>2, <2>4, FS_Surjection
  <2> QED BY <1>4, <2>3, <2>5
<1>5. CASE build = "devpoll"
  <2> DEFINE to == [re \in some |-> [key |-> entry[re].fd, revents |-> of[re]]]
  <2>1. Pol!Reported(of) = {[key |-> entry[re].fd, revents |-> of[re]] : re \in some}
    BY <1>5 DEF Pol!Reported
  <2>2. to \in [some -> Pol!Reported(of)] /\ \A x \in Pol!Reported(of) : \E re \in some : to[re] = x
    BY <2>1
  <2>3. \A one \in Pol!Reported(of) : \E re \in Pol!Registered : one.key = entry[re].fd
    BY <1>1, <2>1
  <2> HIDE DEF to, some
  <2>4. to \in Surjection(some, Pol!Reported(of))
    BY <2>2 DEF Surjection
  <2>5. IsFiniteSet(Pol!Reported(of))
    BY <1>2, <2>4, FS_Surjection
  <2> QED BY <1>5, <2>3, <2>5
<1>6. CASE build \in {"poll", "select"}
  <2>1. Pol!Reported(of) = {}
    BY <1>6 DEF Pol!Reported
  <2> QED BY <1>6, <2>1, FS_EmptySet
<1> QED BY <1>0, <1>3, <1>4, <1>5, <1>6 DEF Builds

\* One batch is collected: it is of the entries that are registered now.
LEMMA BatchCollected ==
  ASSUME PollerInv, NEW of \in [Pol!Registered -> SUBSET Pol!Event], batch' \in Pol!SetToSeqs(Pol!Reported(of)),
         UNCHANGED <<build, entry>>
  PROVE  BatchOf'
<1>1. Pol!TypeOK /\ EntriesOwn
  BY DEF PollerInv
<1> DEFINE all == Pol!Reported(of)
<1>2. /\ IsFiniteSet(all)
      /\ build \in {"kqueue", "epoll"} => \A one \in all : one.key \in Pol!Registered
      /\ build = "devpoll" => \A one \in all : \E re \in Pol!Registered : one.key = entry[re].fd
  BY <1>1, ReportsFinite
<1> HIDE DEF all
<1>3. Cardinality(all) \in Nat
  BY <1>2, FS_CardinalityType
<1>4. batch' \in [1..Cardinality(all) -> all]
  <2>1. batch' \in [1..Pol!Cardinality(all) -> all]
    BY DEF Pol!SetToSeqs, all
  <2> QED BY <2>1, PollerFacts
<1>5. Len(batch') = Cardinality(all) /\ \A k \in 1..Len(batch') : batch'[k] \in all
  BY <1>3, <1>4
<1>6. ASSUME build \in {"kqueue", "epoll"}, NEW k \in 1..Len(batch')
      PROVE  batch'[k].key \in Reactor /\ entry[batch'[k].key].fd # 0 /\ ~entry[batch'[k].key].freed
  <2>1. batch'[k].key \in Pol!Registered
    BY <1>2, <1>5, <1>6
  <2> QED BY <1>1, <2>1, RegisteredOnes DEF EntriesOwn
<1>7. ASSUME build = "devpoll", NEW k \in 1..Len(batch') PROVE batch'[k].key \in Pol!Fd
  <2>1. PICK re \in Pol!Registered : batch'[k].key = entry[re].fd
    BY <1>2, <1>5, <1>7
  <2> QED BY <1>1, <2>1, RegisteredOnes DEF Pol!Fd
<1> QED BY <1>3, <1>5, <1>6, <1>7 DEF BatchOf

LEMMA PollerWaits ==
  ASSUME PollerInv, Pol!Wait
  PROVE  PollerInv'
<1>1. PICK of \in [Pol!Registered -> SUBSET Pol!Event] :
        /\ \E b \in Pol!SetToSeqs(Pol!Reported(of)) : batch' = b
        /\ slots' = IF build # "poll" THEN slots
                    ELSE [k \in 1..Len(slots) |->
                           [slots[k] EXCEPT !.revents = IF slots[k].fd = Pol!retired_fd THEN {} ELSE of[Pol!Owner(slots[k].fd)]]]
        /\ ready' = IF build # "select" THEN ready
                    ELSE [e \in Pol!Event |-> {entry[re].fd : re \in {q \in Pol!Registered : e \in of[q]}}]
  BY DEF Pol!Wait
<1>2. /\ pc' = "dispatch" /\ i' = 1 /\ seen' = [fd \in Pol!Fd |-> Pol!Owner(fd)]
      /\ UNCHANGED <<build, entry, table, source, pending, retired, load, moved, dangling, stopping, handling, calls>>
  BY DEF Pol!Wait
<1>3. /\ Pol!TypeOK /\ EntriesOwn
      /\ table \in [1..MaxFd -> Pol!FdEntry] /\ slots \in Seq(Pol!Slot) /\ Len(slots) \in Nat /\ ready \in Pol!Sets /\ build \in Builds
  BY TablesTyped DEF PollerInv
<1>4. BatchOf'
  BY <1>1, <1>2, BatchCollected
<1>5. Pol!Registered' = Pol!Registered /\ \A g : IsPolled(g) => IsPolled(g)'
  BY <1>2 DEF Pol!Registered, IsPolled
<1>6. \A re \in Pol!Registered : entry[re].fd \in 1..MaxFd /\ seen'[entry[re].fd] = re
  BY <1>2, <1>3, RegisteredOnes, OwnerFound DEF Pol!Fd
<1>7. EntriesOwn' /\ Pol!LoadRight' /\ Pol!ReachesItsOwn'
  <2>1. EntriesOwn'
    BY <1>2, <1>3, <1>5 DEF EntriesOwn, Pol!retired_fd
  <2>2. Pol!LoadRight'
    BY <1>2, <1>5, PollerFacts DEF PollerInv, Pol!LoadRight
  <2> QED BY <1>2, <2>1, <2>2 DEF PollerInv, Pol!ReachesItsOwn
<1>8. build = "poll" => PollTables' /\ slots' \in Seq(Pol!Slot)
  <2> SUFFICES ASSUME build = "poll" PROVE PollTables' /\ slots' \in Seq(Pol!Slot)
    OBVIOUS
  <2> DEFINE events(k) == IF slots[k].fd = Pol!retired_fd THEN {} ELSE of[Pol!Owner(slots[k].fd)]
             now(k) == [slots[k] EXCEPT !.revents = events(k)]
  <2>1. slots' = [k \in 1..Len(slots) |-> now(k)]
    BY <1>1
  <2>2. PollTables
    BY DEF PollerInv
  <2>3. ASSUME NEW k \in 1..Len(slots) PROVE events(k) \in SUBSET Pol!Event /\ slots[k] \in Pol!Slot
    <3>1. slots[k].fd # Pol!retired_fd => Pol!Owner(slots[k].fd) \in Pol!Registered
      BY <1>3, <2>2, OwnerFound DEF PollTables, SlotPolled
    <3> QED BY <1>3, <3>1
  <2> HIDE DEF events
  <2>4. ASSUME NEW k \in 1..Len(slots)
        PROVE  now(k) \in Pol!Slot /\ now(k).fd = slots[k].fd /\ now(k).reactor = slots[k].reactor /\ now(k).events = slots[k].events
    BY <2>3 DEF Pol!Slot
  <2> HIDE DEF now
  <2>5. slots' \in Seq(Pol!Slot) /\ Len(slots') = Len(slots) /\ \A k \in 1..Len(slots) : slots'[k] = now(k)
    BY <1>3, <2>1, <2>4
  <2>6. ASSUME NEW one \in Pol!Registered' PROVE HasSlot(one)'
    <3>1. one \in Pol!Registered /\ HasSlot(one)
      BY <1>5, <2>2 DEF PollTables
    <3> QED BY <1>2, <2>4, <2>5, <3>1 DEF HasSlot
  <2>7. ASSUME NEW k \in 1..Len(slots') PROVE SlotPolled(k)' /\ SlotSeen(k)'
    <3>1. k \in 1..Len(slots) /\ slots'[k].fd = slots[k].fd /\ SlotPolled(k)
      BY <2>2, <2>4, <2>5 DEF PollTables
    <3>2. CASE slots[k].fd = Pol!retired_fd
      BY <3>1, <3>2 DEF SlotPolled, SlotSeen, Pol!retired_fd
    <3>3. CASE slots[k].fd # Pol!retired_fd
      <4>1. PICK re \in Pol!Registered : entry[re].fd = slots[k].fd
        BY <3>1, <3>3 DEF SlotPolled, IsPolled
      <4>2. seen'[slots[k].fd] = table[slots[k].fd].reactor
        BY <1>6, <2>2, <4>1 DEF PollTables, HasSlot
      <4>3. IsPolled(slots[k].fd)'
        BY <1>2, <1>5, <3>1, <4>1 DEF IsPolled
      <4> QED BY <1>2, <3>1, <3>3, <4>2, <4>3 DEF SlotPolled, SlotSeen
    <3> QED BY <3>2, <3>3
  <2>8. PollTables'
    BY <2>6, <2>7 DEF PollTables
  <2> QED BY <2>5, <2>8
<1>9. build = "select" => SelectTables' /\ ready' \in Pol!Sets
  <2> SUFFICES ASSUME build = "select" PROVE SelectTables' /\ ready' \in Pol!Sets
    OBVIOUS
  <2>1. ready' = [e \in Pol!Event |-> {entry[re].fd : re \in {q \in Pol!Registered : e \in of[q]}}] /\ slots' = slots
    BY <1>1
  <2>2. SelectTables
    BY DEF PollerInv
  <2>3. \A e \in Pol!Event : \A g \in ready'[e] : \E re \in Pol!Registered : entry[re].fd = g
    BY <2>1
  <2>4. ready' \in Pol!Sets
    <3>1. \A e \in Pol!Event : {entry[re].fd : re \in {q \in Pol!Registered : e \in of[q]}} \in SUBSET (1..MaxFd)
      BY <1>6
    <3> QED BY <2>1, <3>1 DEF Pol!Sets, Pol!Fd
  <2>5. ASSUME NEW one \in Pol!Registered' PROVE InSlot(one)' /\ InSets(one)' /\ ReadySeen(one)'
    <3>1. one \in Pol!Registered /\ InSlot(one) /\ InSets(one)
      BY <1>5, <2>2 DEF SelectTables
    <3>2. InSlot(one)' /\ InSets(one)'
      BY <1>2, <2>1, <3>1 DEF InSlot, InSets
    <3>3. ReadySeen(one)'
      BY <1>2, <1>6, <3>1 DEF ReadySeen
    <3> QED BY <3>2, <3>3
  <2>6. ASSUME NEW k \in 1..Len(slots') PROVE SlotUsed(k)'
    <3>1. SlotUsed(k)
      BY <2>1, <2>2 DEF SelectTables
    <3> QED BY <1>2, <1>5, <2>1, <3>1 DEF SlotUsed, IsPolled, Pol!retired_fd
  <2>7. SlotsDiffer'
    BY <2>1, <2>2 DEF SelectTables, SlotsDiffer, Pol!retired_fd
  <2>8. SetsPolled'
    <3>1. ASSUME NEW ev \in Pol!Event, NEW g \in source'[ev] \union ready'[ev] PROVE IsPolled(g)'
      <4>1. IsPolled(g)
        BY <1>2, <2>2, <2>3, <3>1 DEF SelectTables, SetsPolled, IsPolled
      <4> QED BY <1>5, <4>1
    <3> QED BY <3>1 DEF SetsPolled
  <2> QED BY <2>4, <2>5, <2>6, <2>7, <2>8 DEF SelectTables
<1>10. build = "devpoll" => DevpollTables'
  <2> SUFFICES ASSUME build = "devpoll" PROVE DevpollTables'
    OBVIOUS
  <2>1. DevpollTables
    BY DEF PollerInv
  <2>2. ASSUME NEW one \in Pol!Registered' PROVE InTable(one)' /\ AcceptedSeen(one)'
    BY <1>2, <1>5, <1>6, <2>1 DEF DevpollTables, InTable, AcceptedSeen
  <2>3. ASSUME NEW g \in 1..MaxFd, table'[g].valid PROVE IsPolled(g)'
    BY <1>2, <1>5, <2>1, <2>3 DEF DevpollTables, Pol!Fd
  <2> QED BY <2>2, <2>3 DEF DevpollTables, Pol!Fd
<1>11. slots' \in Seq(Pol!Slot) /\ ready' \in Pol!Sets
  BY <1>1, <1>3, <1>8, <1>9
<1>12. Pol!TypeOK'
  <2>1. i' \in 1..3 * (Len(batch') + Len(slots')) + 1
    <3>1. Len(batch') \in Nat /\ Len(slots') \in Nat
      BY <1>4, <1>11 DEF BatchOf
    <3> QED BY <1>2, <3>1
  <2> QED BY <1>2, <1>3, <1>11, <2>1 DEF Pol!TypeOK
<1> QED BY <1>2, <1>4, <1>7, <1>8, <1>9, <1>10, <1>12 DEF PollerInv

\* Which object an event is for is right as long as the object is there.
LEMMA ReportedRight ==
  ASSUME PollerInv, pc = "dispatch", NEW k \in 1..Pol!Count, Pol!Live(k), NEW e \in Pol!Event, Pol!Happened(k, e)
  PROVE  Pol!Target(k) \in Pol!Registered /\ Pol!Target(k) = Pol!Meant(k)
<1>1. Pol!TypeOK /\ EntriesOwn /\ BatchOf /\ build \in Builds /\ Len(slots) \in Nat /\ slots \in Seq(Pol!Slot)
  BY TablesTyped DEF PollerInv
<1>2. CASE build \in {"kqueue", "epoll"}
  <2>1. k \in 1..Len(batch) /\ entry[batch[k].key].fd # Pol!retired_fd
    BY <1>2 DEF Pol!Count, Pol!Live, Pol!Key
  <2>2. batch[k].key \in Reactor /\ entry[batch[k].key].fd # 0
    BY <1>1, <1>2, <2>1 DEF BatchOf
  <2>3. Pol!Target(k) = batch[k].key /\ Pol!Meant(k) = batch[k].key
    BY <1>2 DEF Pol!Target, Pol!Meant, Pol!Key
  <2> QED BY <1>1, <2>1, <2>2, <2>3, RegisteredOnes
<1>3. CASE build = "poll"
  <2>1. k \in 1..Len(slots) /\ slots[k].fd # Pol!retired_fd /\ e \in slots[k].revents /\ PollTables
    BY <1>3 DEF Pol!Count, Pol!Live, Pol!Happened, PollerInv
  <2>2. SlotPolled(k) /\ SlotSeen(k)
    BY <2>1 DEF PollTables
  <2>3. PICK re \in Pol!Registered : entry[re].fd = slots[k].fd
    BY <2>1, <2>2 DEF SlotPolled, IsPolled
  <2>4. table[slots[k].fd].reactor = re
    BY <2>1, <2>3 DEF PollTables, HasSlot
  <2>5. seen[slots[k].fd] = table[slots[k].fd].reactor
    BY <2>1, <2>2 DEF SlotSeen
  <2>6. Pol!Target(k) = table[slots[k].fd].reactor /\ Pol!Meant(k) = seen[slots[k].fd]
    BY <1>3 DEF Pol!Target, Pol!Meant
  <2> QED BY <2>4, <2>5, <2>6
<1>4. CASE build = "select"
  <2>1. k \in 1..Len(slots) /\ slots[k].fd # Pol!retired_fd /\ slots[k].fd \in ready[e] /\ SelectTables
    BY <1>4 DEF Pol!Count, Pol!Live, Pol!Happened, PollerInv
  <2>2. PICK re \in Pol!Registered : entry[re].fd = slots[k].fd
    BY <2>1 DEF SelectTables, SlotUsed, IsPolled
  <2>3. PICK j \in 1..Len(slots) : slots[j].fd = entry[re].fd /\ slots[j].reactor = re
    BY <2>1 DEF SelectTables, InSlot
  <2>4. j = k
    BY <2>1, <2>2, <2>3 DEF SelectTables, SlotsDiffer
  <2>5. seen[slots[k].fd] = re
    BY <2>1, <2>2 DEF SelectTables, ReadySeen
  <2>6. Pol!Target(k) = slots[k].reactor /\ Pol!Meant(k) = seen[slots[k].fd]
    BY <1>4 DEF Pol!Target, Pol!Meant
  <2> QED BY <2>3, <2>4, <2>5, <2>6
<1>5. CASE build = "devpoll"
  <2> DEFINE fd == batch[k].key
  <2>1. k \in 1..Len(batch) /\ table[fd].valid /\ table[fd].accepted /\ DevpollTables
    BY <1>5 DEF Pol!Count, Pol!Live, Pol!Key, PollerInv
  <2>2. fd \in Pol!Fd
    BY <1>1, <1>5, <2>1 DEF BatchOf
  <2>3. PICK re \in Pol!Registered : entry[re].fd = fd
    BY <2>1, <2>2 DEF DevpollTables, IsPolled
  <2>4. InTable(re) /\ AcceptedSeen(re)
    BY <2>1 DEF DevpollTables
  <2>5. table[fd].reactor = re /\ seen[fd] = re
    BY <2>1, <2>3, <2>4 DEF InTable, AcceptedSeen
  <2>6. Pol!Target(k) = table[fd].reactor /\ Pol!Meant(k) = seen[fd]
    BY <1>5 DEF Pol!Target, Pol!Meant, Pol!Key
  <2> QED BY <2>5, <2>6
<1> QED BY <1>1, <1>2, <1>3, <1>4, <1>5 DEF Builds

\* While the tables stay as they are, so does what is said of them.
LEMMA SameTables ==
  ASSUME PollerInv,
         UNCHANGED <<build, entry, table, slots, source, ready, pending, retired, load, batch, pc, seen>>
  PROVE  /\ EntriesOwn' /\ BatchOf' /\ Pol!LoadRight'
         /\ build = "poll" => PollTables'
         /\ build = "select" => SelectTables'
         /\ build = "devpoll" => DevpollTables'
<1>1. Pol!Registered' = Pol!Registered /\ (\A g : IsPolled(g)' <=> IsPolled(g))
  BY DEF Pol!Registered, IsPolled
<1>2. EntriesOwn'
  BY <1>1 DEF PollerInv, EntriesOwn, Pol!retired_fd
<1>3. BatchOf'
  BY DEF PollerInv, BatchOf, Pol!Fd
<1>4. Pol!LoadRight'
  BY <1>1, PollerFacts DEF PollerInv, Pol!LoadRight
<1>5. build = "poll" => PollTables'
  BY <1>1 DEF PollerInv, PollTables, HasSlot, SlotPolled, SlotSeen, IsPolled, Pol!retired_fd
<1>6. build = "select" => SelectTables'
  BY <1>1 DEF PollerInv, SelectTables, InSlot, InSets, SlotUsed, SlotsDiffer, SetsPolled, ReadySeen, IsPolled, Pol!retired_fd,
              Pol!Direction, Pol!Event
<1>7. build = "devpoll" => DevpollTables'
  BY <1>1 DEF PollerInv, DevpollTables, InTable, AcceptedSeen, IsPolled, Pol!Fd
<1> QED BY <1>2, <1>3, <1>4, <1>5, <1>6, <1>7

LEMMA PollerDispatches ==
  ASSUME PollerInv, Pol!Dispatch
  PROVE  PollerInv'
<1> DEFINE p == Pol!Min(Pol!Due)
           n == Pol!Report(p)
           ofStage == Pol!Stages[((p - 1) % 3) + 1]
<1>1. /\ pc = "dispatch" /\ Pol!Due # {} /\ i' = p + 1
      /\ handling' = [to |-> Pol!Target(n), meant |-> Pol!Meant(n), live |-> Pol!Target(n) \in Pol!Registered]
      /\ UNCHANGED <<build, entry, table, slots, source, ready, pending, retired, load, moved, dangling, stopping, pc, batch, calls, seen>>
  BY DEF Pol!Dispatch, Pol!tables
<1>2. Pol!TypeOK /\ Pol!Count \in Nat /\ Pol!Count <= Len(batch) + Len(slots) /\ i \in Nat /\ i >= 1
  <2>1. Pol!TypeOK /\ Len(batch) \in Nat /\ Len(slots) \in Nat
    BY TablesTyped DEF PollerInv, BatchOf
  <2> QED BY <2>1, TablesTyped DEF Pol!Count
<1>3. p \in Pol!Due
  <2>1. Pol!Due \in SUBSET Nat
    BY <1>2 DEF Pol!Due
  <2>2. \E least \in Pol!Due : \A other \in Pol!Due : least <= other
    BY <1>1, <2>1, LeastNatural
  <2>3. p = CHOOSE least \in Pol!Due : \A other \in Pol!Due : least <= other
    BY DEF Pol!Min
  <2> HIDE DEF p
  <2> QED BY <2>2, <2>3, Zenon
<1>4. p \in i..3 * Pol!Count /\ Pol!Live(n) /\ Pol!Happened(n, ofStage)
  BY <1>3 DEF Pol!Due
<1> HIDE DEF p
<1>5. p \in Nat /\ p >= 1 /\ p <= 3 * Pol!Count
  BY <1>2, <1>4
<1>6. n \in 1..Pol!Count
  <2>1. n = (p - 1) \div 3 + 1
    BY DEF Pol!Report
  <2> QED BY <1>2, <1>5, <2>1
<1>7. ofStage \in Pol!Event
  <2>1. (p - 1) % 3 \in 0..2
    BY <1>5
  <2>2. ((p - 1) % 3) + 1 \in {1, 2, 3}
    BY <2>1
  <2> QED BY <2>2 DEF Pol!Stages, Pol!Event, Pol!Direction
<1> HIDE DEF n, ofStage
<1>8. Pol!Target(n) \in Pol!Registered /\ Pol!Target(n) = Pol!Meant(n)
  BY <1>1, <1>4, <1>6, <1>7, ReportedRight
<1> DEFINE to == Pol!Target(n)
           meant == Pol!Meant(n)
           live == to \in Pol!Registered
<1> HIDE DEF live, to, meant
<1>9. handling'.to = to /\ handling'.meant = meant /\ (handling'.live <=> live)
  <2>1. handling' = [to |-> to, meant |-> meant, live |-> live]
    BY <1>1, Zenon DEF to, meant, live
  <2> QED BY <2>1, Zenon
<1>10. Pol!ReachesItsOwn' /\ handling'.to \in Reactor
  <2>1. to = meant /\ live /\ to \in Reactor
    BY <1>2, <1>8, RegisteredOnes DEF to, meant, live
  <2> QED BY <1>9, <2>1 DEF Pol!ReachesItsOwn
<1>11. Pol!TypeOK'
  <2>1. i' \in 1..3 * (Len(batch') + Len(slots')) + 1
    <3>1. Len(batch) \in Nat /\ Len(slots) \in Nat
      BY TablesTyped DEF PollerInv, BatchOf
    <3> QED BY <1>1, <1>2, <1>5, <3>1
  <2> QED BY <1>1, <1>2, <1>10, <2>1 DEF Pol!TypeOK
<1>12. Pol!Registered' = Pol!Registered /\ (\A g : IsPolled(g) <=> IsPolled(g)')
  BY <1>1 DEF Pol!Registered, IsPolled
<1> QED BY <1>1, <1>10, <1>11, <1>12, SameTables DEF PollerInv

\* The slots that stay keep their order and are all that is left.
LEMMA SlotsKept ==
  ASSUME slots \in Seq(Pol!Slot)
  PROVE  /\ Pol!Kept \in Seq(Pol!Slot)
         /\ \A n \in 1..Len(Pol!Kept) : \E k \in Pol!Staying : Pol!Kept[n] = slots[k] /\ Pol!Rank(k) = n
         /\ \A k \in Pol!Staying : Pol!Rank(k) \in 1..Len(Pol!Kept) /\ Pol!Kept[Pol!Rank(k)] = slots[k]
<1> DEFINE S == Pol!Staying
           N == Cardinality(S)
           upTo(k) == {j \in S : j <= k}
           rank == [k \in S |-> Cardinality(upTo(k))]
<1>1. S \in SUBSET (1..Len(slots)) /\ Len(slots) \in Nat
  BY DEF Pol!Staying
<1>2. IsFiniteSet(S) /\ N \in Nat
  <2> HIDE DEF S
  <2>1. IsFiniteSet(1..Len(slots))
    BY <1>1, FS_Interval
  <2>2. IsFiniteSet(S)
    BY <1>1, <2>1, FS_Subset
  <2> QED BY <2>2, FS_CardinalityType
<1>3. \A k \in S : Pol!Rank(k) = Cardinality(upTo(k))
  BY PollerFacts DEF Pol!Rank
<1> HIDE DEF S
<1>4. ASSUME NEW k \in S PROVE /\ IsFiniteSet(upTo(k)) /\ Cardinality(upTo(k)) \in 1..N
  <2>1. upTo(k) \in SUBSET S /\ k \in upTo(k)
    BY <1>1
  <2> HIDE DEF upTo
  <2>2. IsFiniteSet(upTo(k)) /\ Cardinality(upTo(k)) <= N /\ Cardinality(upTo(k)) \in Nat
    BY <1>2, <2>1, FS_Subset, FS_CardinalityType
  <2>3. Cardinality(upTo(k)) # 0
    BY <2>1, <2>2, FS_EmptySet
  <2> QED BY <1>2, <2>2, <2>3
<1>5. ASSUME NEW j \in S, NEW k \in S, j < k PROVE Cardinality(upTo(j)) < Cardinality(upTo(k))
  <2>1. upTo(j) \cup {k} \in SUBSET upTo(k) /\ k \notin upTo(j)
    <3>1. j \in Nat /\ k \in Nat /\ \A other \in S : other \in Nat
      BY <1>1
    <3>2. k \in upTo(k) /\ k \notin upTo(j)
      BY <1>5, <3>1
    <3>3. \A other \in upTo(j) : other \in upTo(k)
      BY <1>5, <3>1
    <3> HIDE DEF upTo
    <3> QED BY <3>2, <3>3
  <2> HIDE DEF upTo
  <2>2. IsFiniteSet(upTo(j)) /\ IsFiniteSet(upTo(k))
    BY <1>4
  <2>5. Cardinality(upTo(j)) \in Nat /\ Cardinality(upTo(k)) \in Nat
    BY <2>2, FS_CardinalityType
  <2>3. Cardinality(upTo(j) \cup {k}) = Cardinality(upTo(j)) + 1
    BY <2>1, <2>2, FS_AddElement
  <2>4. Cardinality(upTo(j) \cup {k}) <= Cardinality(upTo(k))
    BY <2>1, <2>2, FS_Subset
  <2> QED BY <2>3, <2>4, <2>5
<1> HIDE DEF upTo
<1>6. \A k \in S : rank[k] \in 1..N /\ rank[k] = Pol!Rank(k)
  BY <1>3, <1>4
<1>7. \A j, k \in S : rank[j] = rank[k] => j = k
  <2>1. ASSUME NEW j \in S, NEW k \in S, rank[j] = rank[k] PROVE j = k
    <3>1. ~(j < k) /\ ~(k < j)
      BY <1>4, <1>5, <2>1
    <3> QED BY <1>1, <3>1
  <2> QED BY <2>1
<1>8. rank \in [S -> 1..N]
  BY <1>6
<1> HIDE DEF rank, N
<1>9. \A n \in 1..N : \E k \in S : rank[k] = n
  <2>1. rank \in Injection(S, 1..N)
    BY <1>7, <1>8 DEF Injection, IsInjective
  <2>2. IsFiniteSet(1..N) /\ Cardinality(1..N) = Cardinality(S)
    BY <1>2, FS_Interval DEF N
  <2>3. rank \in Surjection(S, 1..N)
    BY <2>1, <2>2, FS_Injection
  <2> QED BY <2>3 DEF Surjection
<1>10. Pol!Kept = [n \in 1..N |-> slots[CHOOSE k \in S : Pol!Rank(k) = n]]
  BY PollerFacts DEF Pol!Kept, N, S
<1>11. ASSUME NEW n \in 1..N PROVE \E k \in S : Pol!Kept[n] = slots[k] /\ Pol!Rank(k) = n
  <2> DEFINE at == CHOOSE k \in S : Pol!Rank(k) = n
  <2>1. \E k \in S : Pol!Rank(k) = n
    BY <1>6, <1>9
  <2>2. at \in S /\ Pol!Rank(at) = n
    BY <2>1, Zenon
  <2>3. Pol!Kept[n] = slots[at]
    BY <1>10
  <2> QED BY <2>2, <2>3
<1>12. Pol!Kept \in Seq(Pol!Slot) /\ Len(Pol!Kept) = N
  <2>1. \A n \in 1..N : Pol!Kept[n] \in Pol!Slot
    BY <1>1, <1>11
  <2>2. Pol!Kept \in [1..N -> Pol!Slot]
    BY <1>10, <2>1
  <2> HIDE DEF N
  <2> QED BY <1>2, <2>2 DEF N
<1>13. ASSUME NEW k \in S PROVE Pol!Rank(k) \in 1..N /\ Pol!Kept[Pol!Rank(k)] = slots[k]
  <2>1. Pol!Rank(k) \in 1..N
    BY <1>6
  <2>2. PICK j \in S : Pol!Kept[Pol!Rank(k)] = slots[j] /\ Pol!Rank(j) = Pol!Rank(k)
    BY <1>11, <2>1
  <2>3. j = k
    BY <1>6, <1>7, <2>2
  <2> QED BY <2>1, <2>2, <2>3
<1> QED BY <1>11, <1>12, <1>13 DEF S

\* Two slots that are left are not of one descriptor.
LEMMA KeptDiffer ==
  ASSUME slots \in Seq(Pol!Slot), SlotsDiffer
  PROVE  \A m, n \in 1..Len(Pol!Kept) : Pol!Kept[m].fd = Pol!Kept[n].fd => m = n
<1>1. ASSUME NEW m \in 1..Len(Pol!Kept), NEW n \in 1..Len(Pol!Kept), Pol!Kept[m].fd = Pol!Kept[n].fd PROVE m = n
  <2>1. PICK j \in Pol!Staying : Pol!Kept[m] = slots[j] /\ Pol!Rank(j) = m
    BY SlotsKept
  <2>2. PICK k \in Pol!Staying : Pol!Kept[n] = slots[k] /\ Pol!Rank(k) = n
    BY SlotsKept
  <2>3. j \in 1..Len(slots) /\ k \in 1..Len(slots) /\ slots[j].fd # Pol!retired_fd
    BY DEF Pol!Staying
  <2>4. j = k
    BY <1>1, <2>1, <2>2, <2>3 DEF SlotsDiffer
  <2> QED BY <2>1, <2>2, <2>4
<1> QED BY <1>1

LEMMA CleanedInPoll ==
  ASSUME PollerInv, build = "poll", Pol!Cleaned, pc' # "dispatch", build' = build, Pol!Registered' = Pol!Registered,
         \A re \in Pol!Registered : entry'[re].fd = entry[re].fd /\ entry'[re].events = entry[re].events
  PROVE  PollTables' /\ table' \in [1..MaxFd -> Pol!FdEntry] /\ slots' \in Seq(Pol!Slot)
<1> DEFINE kept == Pol!Kept
           at(fd) == CHOOSE k \in 1..Len(kept) : kept[k].fd = fd
<1>1. /\ slots' = kept
      /\ table' = [fd \in 1..MaxFd |-> IF \E k \in 1..Len(kept) : kept[k].fd = fd
                                       THEN [table[fd] EXCEPT !.index = at(fd)] ELSE table[fd]]
  BY Zenon DEF Pol!Cleaned, Pol!Fd
<1>2. /\ table \in [1..MaxFd -> Pol!FdEntry] /\ slots \in Seq(Pol!Slot) /\ PollTables /\ Pol!TypeOK
  BY TablesTyped DEF PollerInv
<1>3. SlotsDiffer
  BY <1>2 DEF PollTables, SlotPolled, SlotsDiffer
<1>4. /\ kept \in Seq(Pol!Slot)
      /\ \A n \in 1..Len(kept) : \E k \in Pol!Staying : kept[n] = slots[k] /\ Pol!Rank(k) = n
      /\ \A k \in Pol!Staying : Pol!Rank(k) \in 1..Len(kept) /\ kept[Pol!Rank(k)] = slots[k]
      /\ \A m, n \in 1..Len(kept) : kept[m].fd = kept[n].fd => m = n
  BY <1>2, <1>3, SlotsKept, KeptDiffer
<1>5. Len(kept) \in Nat
  BY <1>4
<1> HIDE DEF kept
<1>6. ASSUME NEW n \in 1..Len(kept) PROVE at(kept[n].fd) = n
  <2> DEFINE m == at(kept[n].fd)
  <2>1. m \in 1..Len(kept) /\ kept[m].fd = kept[n].fd
    BY Zenon
  <2> HIDE DEF at
  <2> QED BY <1>4, <2>1
<1>7. \A fd : (\E k \in 1..Len(kept) : kept[k].fd = fd) => at(fd) \in 1..Len(kept) /\ kept[at(fd)].fd = fd
  BY Zenon
<1> HIDE DEF at
<1>8. ASSUME NEW fd \in 1..MaxFd
      PROVE  /\ table'[fd] \in Pol!FdEntry /\ table'[fd].reactor = table[fd].reactor
             /\ (\E k \in 1..Len(kept) : kept[k].fd = fd) => table'[fd].index = at(fd)
  <2>1. table[fd] \in Pol!FdEntry
    BY <1>2
  <2>2. CASE \E k \in 1..Len(kept) : kept[k].fd = fd
    <3>1. at(fd) \in Int
      BY <1>5, <1>7, <2>2
    <3>2. table'[fd] = [table[fd] EXCEPT !.index = at(fd)]
      BY <1>1, <2>2
    <3> QED BY <2>1, <3>1, <3>2 DEF Pol!FdEntry
  <2>3. CASE ~\E k \in 1..Len(kept) : kept[k].fd = fd
    BY <1>1, <2>1, <2>3
  <2> QED BY <2>2, <2>3
<1>9. table' \in [1..MaxFd -> Pol!FdEntry]
  BY <1>1, <1>8
<1>10. ASSUME NEW one \in Pol!Registered' PROVE HasSlot(one)'
  <2> DEFINE fd == entry[one].fd
             k == table[fd].index
  <2>1. one \in Pol!Registered /\ HasSlot(one) /\ fd \in 1..MaxFd /\ fd # Pol!retired_fd
    BY <1>2, RegisteredOnes DEF PollTables
  <2>2. k \in 1..Len(slots) /\ table[fd].reactor = one /\ slots[k].fd = fd /\ slots[k].events = entry[one].events
    BY <2>1 DEF HasSlot
  <2>3. entry'[one].fd = fd /\ entry'[one].events = entry[one].events
    BY <2>1
  <2> HIDE DEF k, fd
  <2>4. k \in Pol!Staying
    BY <2>1, <2>2 DEF Pol!Staying
  <2> DEFINE n == Pol!Rank(k)
  <2>5. n \in 1..Len(kept) /\ kept[n] = slots[k]
    BY <1>4, <2>4
  <2> HIDE DEF n
  <2>6. at(fd) = n
    BY <1>6, <2>2, <2>5
  <2>7. table'[fd].index = n /\ table'[fd].reactor = one
    BY <1>8, <2>1, <2>2, <2>5, <2>6
  <2> QED BY <1>1, <2>2, <2>3, <2>5, <2>7 DEF HasSlot
<1>11. ASSUME NEW n \in 1..Len(slots') PROVE SlotPolled(n)'
  <2>1. n \in 1..Len(kept) /\ slots'[n] = kept[n]
    BY <1>1
  <2>2. PICK k \in Pol!Staying : kept[n] = slots[k]
    BY <1>4, <2>1
  <2>3. IsPolled(slots[k].fd)
    BY <1>2 DEF PollTables, SlotPolled, Pol!Staying
  <2>4. PICK re \in Pol!Registered : entry[re].fd = slots[k].fd
    BY <2>3 DEF IsPolled
  <2>5. entry'[re].fd = kept[n].fd /\ kept[n].fd \in 1..MaxFd
    BY <1>2, <2>2, <2>4, RegisteredOnes
  <2>6. table'[kept[n].fd].index = n
    BY <1>6, <1>8, <2>1, <2>5
  <2>7. IsPolled(slots[n].fd)'
    BY <2>1, <2>4, <2>5 DEF IsPolled
  <2> QED BY <2>1, <2>6, <2>7 DEF SlotPolled
<1>12. PollTables'
  BY <1>10, <1>11 DEF PollTables
<1> QED BY <1>1, <1>4, <1>9, <1>12

LEMMA CleanedInSelect ==
  ASSUME PollerInv, build = "select", Pol!Cleaned, pc' # "dispatch", UNCHANGED <<build, source>>, ready' = [e \in Pol!Event |-> {}],
         Pol!Registered' = Pol!Registered,
         \A re \in Pol!Registered : entry'[re].fd = entry[re].fd /\ entry'[re].events = entry[re].events
  PROVE  SelectTables' /\ table' = table /\ slots' \in Seq(Pol!Slot)
<1> DEFINE kept == Pol!Kept
<1>1. slots' = kept /\ table' = table
  BY DEF Pol!Cleaned
<1>2. slots \in Seq(Pol!Slot) /\ SelectTables /\ Pol!TypeOK /\ SlotsDiffer
  BY TablesTyped DEF PollerInv, SelectTables
<1>3. /\ kept \in Seq(Pol!Slot)
      /\ \A n \in 1..Len(kept) : \E k \in Pol!Staying : kept[n] = slots[k] /\ Pol!Rank(k) = n
      /\ \A k \in Pol!Staying : Pol!Rank(k) \in 1..Len(kept) /\ kept[Pol!Rank(k)] = slots[k]
      /\ \A m, n \in 1..Len(kept) : kept[m].fd = kept[n].fd => m = n
  BY <1>2, SlotsKept, KeptDiffer
<1> HIDE DEF kept
<1>4. \A g : IsPolled(g) => IsPolled(g)'
  BY DEF IsPolled
<1>5. ASSUME NEW one \in Pol!Registered' PROVE InSlot(one)' /\ InSets(one)'
  <2>1. one \in Pol!Registered /\ InSlot(one) /\ InSets(one) /\ entry'[one].fd = entry[one].fd /\ entry'[one].events = entry[one].events
    BY <1>2 DEF SelectTables
  <2>2. PICK k \in 1..Len(slots) : slots[k].fd = entry[one].fd /\ slots[k].reactor = one
    BY <2>1 DEF InSlot
  <2>3. k \in Pol!Staying
    BY <1>2, <2>1, <2>2, RegisteredOnes DEF Pol!Staying
  <2>4. Pol!Rank(k) \in 1..Len(kept) /\ kept[Pol!Rank(k)] = slots[k]
    BY <1>3, <2>3
  <2>5. InSlot(one)'
    BY <1>1, <2>1, <2>2, <2>4 DEF InSlot
  <2>6. InSets(one)'
    BY <2>1 DEF InSets
  <2> QED BY <2>5, <2>6
<1>6. ASSUME NEW n \in 1..Len(slots') PROVE SlotUsed(n)'
  <2>1. n \in 1..Len(kept) /\ slots'[n] = kept[n]
    BY <1>1
  <2>2. PICK k \in Pol!Staying : kept[n] = slots[k]
    BY <1>3, <2>1
  <2>3. IsPolled(slots[k].fd)
    BY <1>2 DEF SelectTables, SlotUsed, Pol!Staying
  <2>4. IsPolled(slots[n].fd)'
    BY <2>1, <2>2, <2>3 DEF IsPolled
  <2> QED BY <2>4 DEF SlotUsed
<1>7. SlotsDiffer'
  BY <1>1, <1>3 DEF SlotsDiffer
<1>8. SetsPolled'
  <2>1. ASSUME NEW ev \in Pol!Event, NEW g \in source'[ev] \union ready'[ev] PROVE IsPolled(g)'
    <3>1. g \in source[ev]
      OBVIOUS
    <3> QED BY <1>2, <1>4, <3>1 DEF SelectTables, SetsPolled
  <2> QED BY <2>1 DEF SetsPolled
<1> QED BY <1>1, <1>3, <1>5, <1>6, <1>7, <1>8 DEF SelectTables

\* What devpoll_t accepts is not looked at before the next events are collected.
LEMMA Accepted ==
  ASSUME PollerInv, Pol!Accept, build' = build
  PROVE  /\ table' \in [1..MaxFd -> Pol!FdEntry] /\ pending' \in Seq(1..MaxFd)
         /\ build # "devpoll" => table' = table
         /\ \A fd \in 1..MaxFd : /\ table'[fd].reactor = table[fd].reactor /\ table'[fd].events = table[fd].events
                                 /\ table'[fd].valid <=> table[fd].valid
<1>1. /\ table' = IF build = "devpoll" THEN [fd \in Pol!Fd |-> IF fd \in Pol!Range(pending) THEN [table[fd] EXCEPT !.accepted = TRUE]
                                                               ELSE table[fd]] ELSE table
      /\ pending' = <<>>
  BY DEF Pol!Accept
<1>2. table \in [1..MaxFd -> Pol!FdEntry]
  BY TablesTyped DEF PollerInv
<1>3. CASE build = "devpoll"
  <2>1. \A fd \in 1..MaxFd : table'[fd] = IF fd \in Pol!Range(pending) THEN [table[fd] EXCEPT !.accepted = TRUE] ELSE table[fd]
    BY <1>1, <1>3 DEF Pol!Fd
  <2>2. ASSUME NEW fd \in 1..MaxFd
        PROVE  /\ table'[fd] \in Pol!FdEntry /\ table'[fd].reactor = table[fd].reactor /\ table'[fd].events = table[fd].events
               /\ table'[fd].valid <=> table[fd].valid
    <3>1. table[fd] \in Pol!FdEntry
      BY <1>2
    <3>2. CASE fd \in Pol!Range(pending)
      <4>1. table'[fd] = [table[fd] EXCEPT !.accepted = TRUE]
        BY <2>1, <3>2
      <4> QED BY <3>1, <4>1 DEF Pol!FdEntry
    <3>3. CASE fd \notin Pol!Range(pending)
      BY <2>1, <3>1, <3>3
    <3> QED BY <3>2, <3>3
  <2>3. table' \in [1..MaxFd -> Pol!FdEntry]
    BY <1>1, <1>3, <2>2 DEF Pol!Fd
  <2> QED BY <1>1, <1>3, <2>2, <2>3
<1>4. CASE build # "devpoll"
  BY <1>1, <1>2, <1>4
<1> QED BY <1>3, <1>4

\* The tables when nothing of them changes but what devpoll_t has accepted.
LEMMA TablesStay ==
  ASSUME PollerInv, pc' # "dispatch", UNCHANGED <<build, slots, source>>, ready' \in {ready, [e \in Pol!Event |-> {}]},
         build # "devpoll" => table' = table,
         \A fd \in 1..MaxFd : /\ table'[fd].reactor = table[fd].reactor /\ table'[fd].events = table[fd].events
                              /\ table'[fd].valid <=> table[fd].valid,
         Pol!Registered' = Pol!Registered,
         \A re \in Pol!Registered : entry'[re].fd = entry[re].fd /\ entry'[re].events = entry[re].events
  PROVE  /\ build = "poll" => PollTables'
         /\ build = "select" => SelectTables'
         /\ build = "devpoll" => DevpollTables'
<1>1. \A g : IsPolled(g) => \E other \in Pol!Registered' : entry'[other].fd = g
  BY DEF IsPolled
<1>2. \A re \in Pol!Registered : entry[re].fd \in 1..MaxFd
  BY RegisteredOnes DEF PollerInv
<1>3. CASE build = "poll"
  <2>1. PollTables /\ table' = table /\ slots' = slots
    BY <1>3 DEF PollerInv
  <2>2. ASSUME NEW one \in Pol!Registered' PROVE HasSlot(one)'
    <3>1. HasSlot(one) /\ entry'[one].fd = entry[one].fd /\ entry'[one].events = entry[one].events
      BY <2>1 DEF PollTables
    <3> QED BY <2>1, <3>1 DEF HasSlot
  <2>3. ASSUME NEW k \in 1..Len(slots') PROVE SlotPolled(k)'
    <3>1. SlotPolled(k)
      BY <2>1 DEF PollTables
    <3> QED BY <1>1, <2>1, <3>1 DEF SlotPolled, IsPolled, Pol!retired_fd
  <2> QED BY <1>3, <2>2, <2>3 DEF PollTables
<1>4. CASE build = "select"
  <2>1. SelectTables
    BY <1>4 DEF PollerInv
  <2>2. ASSUME NEW one \in Pol!Registered' PROVE InSlot(one)' /\ InSets(one)'
    <3>1. InSlot(one) /\ InSets(one) /\ entry'[one].fd = entry[one].fd /\ entry'[one].events = entry[one].events
      BY <2>1 DEF SelectTables
    <3> QED BY <3>1 DEF InSlot, InSets
  <2>3. ASSUME NEW k \in 1..Len(slots') PROVE SlotUsed(k)'
    <3>1. SlotUsed(k)
      BY <2>1 DEF SelectTables
    <3> QED BY <1>1, <3>1 DEF SlotUsed, IsPolled, Pol!retired_fd
  <2>4. SlotsDiffer'
    BY <2>1 DEF SelectTables, SlotsDiffer, Pol!retired_fd
  <2>5. SetsPolled'
    <3>1. ASSUME NEW ev \in Pol!Event, NEW g \in source'[ev] \union ready'[ev] PROVE IsPolled(g)'
      <4>1. g \in source[ev] \union ready[ev]
        OBVIOUS
      <4>2. IsPolled(g)
        BY <2>1, <4>1 DEF SelectTables, SetsPolled
      <4> QED BY <1>1, <4>2 DEF IsPolled
    <3> QED BY <3>1 DEF SetsPolled
  <2> QED BY <1>4, <2>2, <2>3, <2>4, <2>5 DEF SelectTables
<1>5. CASE build = "devpoll"
  <2>1. DevpollTables
    BY <1>5 DEF PollerInv
  <2>2. ASSUME NEW one \in Pol!Registered' PROVE InTable(one)'
    <3>1. InTable(one) /\ entry'[one].fd = entry[one].fd /\ entry'[one].events = entry[one].events /\ entry[one].fd \in 1..MaxFd
      BY <1>2, <2>1 DEF DevpollTables
    <3> QED BY <3>1 DEF InTable
  <2>3. ASSUME NEW g \in 1..MaxFd, table'[g].valid PROVE IsPolled(g)'
    <3>1. IsPolled(g)
      BY <2>1, <2>3 DEF DevpollTables, Pol!Fd
    <3> QED BY <1>1, <3>1 DEF IsPolled
  <2> QED BY <1>5, <2>2, <2>3 DEF DevpollTables, Pol!Fd
<1> QED BY <1>3, <1>4, <1>5

LEMMA PollerInterrupted ==
  ASSUME PollerInv, Pol!Interrupted
  PROVE  PollerInv'
<1>1. /\ pc = "wait" /\ Pol!Accept
      /\ UNCHANGED <<build, entry, slots, source, ready, retired, load, moved, dangling, stopping, pc, batch, i, seen, handling, calls>>
  BY DEF Pol!Interrupted, Pol!loopVars
<1>2. /\ table' \in [1..MaxFd -> Pol!FdEntry] /\ pending' \in Seq(1..MaxFd)
      /\ build # "devpoll" => table' = table
      /\ \A fd \in 1..MaxFd : /\ table'[fd].reactor = table[fd].reactor /\ table'[fd].events = table[fd].events
                              /\ table'[fd].valid <=> table[fd].valid
  BY <1>1, Accepted
<1>3. Pol!Registered' = Pol!Registered
  BY <1>1 DEF Pol!Registered
<1>4. /\ build = "poll" => PollTables'
      /\ build = "select" => SelectTables'
      /\ build = "devpoll" => DevpollTables'
  BY <1>1, <1>2, <1>3, TablesStay
<1>5. EntriesOwn'
  BY <1>1, <1>3 DEF PollerInv, EntriesOwn, Pol!retired_fd
<1>6. BatchOf' /\ Pol!ReachesItsOwn'
  BY <1>1 DEF PollerInv, BatchOf, Pol!Fd, Pol!ReachesItsOwn
<1>7. Pol!LoadRight'
  BY <1>1, <1>3, PollerFacts DEF PollerInv, Pol!LoadRight
<1>8. Pol!TypeOK'
  BY <1>1, <1>2 DEF PollerInv, Pol!TypeOK, Pol!Fd
<1> QED BY <1>1, <1>4, <1>5, <1>6, <1>7, <1>8 DEF PollerInv

LEMMA PollerCleansUp ==
  ASSUME PollerInv, Pol!CleanUp
  PROVE  PollerInv'
<1>1. /\ handling' = handling
      /\ retired' = {} /\ batch' = <<>> /\ i' = 1 /\ pc' = IF stopping THEN "done" ELSE "wait"
      /\ ready' = [e \in Pol!Event |-> {}]
      /\ UNCHANGED <<build, source, load, moved, dangling, stopping, handling, calls>>
  BY DEF Pol!CleanUp
<1>2. /\ build \in {"poll", "select"} /\ retired # {} => Pol!Cleaned /\ pending' = pending
      /\ ~(build \in {"poll", "select"} /\ retired # {}) =>
           slots' = slots /\ (UNCHANGED <<table, pending>> \/ Pol!Accept)
  BY DEF Pol!CleanUp
<1>3. entry' = IF build \in {"kqueue", "epoll"} THEN [re \in Reactor |-> [entry[re] EXCEPT !.freed = @ \/ re \in retired]] ELSE entry
  BY DEF Pol!CleanUp
<1>4. /\ Pol!TypeOK /\ EntriesOwn /\ entry \in [Reactor -> Pol!Entry] /\ table \in [1..MaxFd -> Pol!FdEntry]
      /\ slots \in Seq(Pol!Slot) /\ pending \in Seq(1..MaxFd) /\ build \in Builds /\ pc' # "dispatch" /\ pc' \in {"wait", "done"}
  BY <1>1, TablesTyped DEF PollerInv
<1>5. ASSUME NEW re \in Reactor
      PROVE  /\ entry'[re] \in Pol!Entry /\ entry'[re].fd = entry[re].fd /\ entry'[re].events = entry[re].events
             /\ entry'[re].freed => entry[re].freed \/ (re \in retired /\ build \in {"kqueue", "epoll"})
  <2>1. entry[re] \in Pol!Entry
    BY <1>4
  <2>2. CASE build \in {"kqueue", "epoll"}
    <3> DEFINE now == entry[re].freed \/ re \in retired
    <3>1. entry'[re] = [entry[re] EXCEPT !.freed = now]
      BY <1>3, <2>2
    <3>2. now \in BOOLEAN /\ (now => entry[re].freed \/ re \in retired)
      BY <2>1 DEF Pol!Entry
    <3> HIDE DEF now
    <3> QED BY <2>1, <2>2, <3>1, <3>2 DEF Pol!Entry
  <2>3. CASE build \notin {"kqueue", "epoll"}
    BY <1>3, <2>1, <2>3
  <2> QED BY <2>2, <2>3
<1>6. entry' \in [Reactor -> Pol!Entry]
  BY <1>3, <1>4, <1>5
<1>7. Pol!Registered' = Pol!Registered
  BY <1>5 DEF Pol!Registered
<1>8. \A re \in Pol!Registered : entry'[re].fd = entry[re].fd /\ entry'[re].events = entry[re].events
  BY <1>4, <1>5, RegisteredOnes
<1>9. EntriesOwn'
  <2>1. \A one, other \in Pol!Registered' : entry'[one].fd = entry'[other].fd => one = other
    BY <1>4, <1>7, <1>8 DEF EntriesOwn
  <2>2. \A other \in Reactor : entry'[other].freed \/ (other \in retired' /\ build' \in {"kqueue", "epoll"})
                                => entry'[other].fd = 0 - 1
    BY <1>1, <1>4, <1>5 DEF EntriesOwn, Pol!retired_fd
  <2> QED BY <2>1, <2>2 DEF EntriesOwn, Pol!retired_fd
<1>10. BatchOf'
  <2>1. Len(batch') = 0
    BY <1>1
  <2> QED BY <2>1 DEF BatchOf
<1>11. Pol!LoadRight' /\ Pol!ReachesItsOwn'
  <2>1. Pol!LoadRight'
    BY <1>1, <1>7, PollerFacts DEF PollerInv, Pol!LoadRight
  <2> QED BY <1>1, <2>1 DEF PollerInv, Pol!ReachesItsOwn
<1>12. /\ table' \in [1..MaxFd -> Pol!FdEntry] /\ slots' \in Seq(Pol!Slot) /\ pending' \in Seq(1..MaxFd)
       /\ build = "poll" => PollTables'
       /\ build = "select" => SelectTables'
       /\ build = "devpoll" => DevpollTables'
  <2>1. CASE build = "poll" /\ retired # {}
    BY <1>1, <1>2, <1>4, <1>7, <1>8, <2>1, CleanedInPoll
  <2>2. CASE build = "select" /\ retired # {}
    BY <1>1, <1>2, <1>4, <1>7, <1>8, <2>2, CleanedInSelect
  <2>3. CASE ~(build \in {"poll", "select"} /\ retired # {})
    <3>1. /\ table' \in [1..MaxFd -> Pol!FdEntry] /\ pending' \in Seq(1..MaxFd)
          /\ build # "devpoll" => table' = table
          /\ \A fd \in 1..MaxFd : /\ table'[fd].reactor = table[fd].reactor /\ table'[fd].events = table[fd].events
                                  /\ table'[fd].valid <=> table[fd].valid
      <4>1. CASE UNCHANGED <<table, pending>>
        BY <1>4, <4>1
      <4>2. CASE Pol!Accept
        BY <1>1, <4>2, Accepted
      <4> QED BY <1>2, <2>3, <4>1, <4>2
    <3>2. slots' = slots /\ ready' \in {ready, [e \in Pol!Event |-> {}]}
      BY <1>1, <1>2, <2>3
    <3>3. /\ build = "poll" => PollTables'
          /\ build = "select" => SelectTables'
          /\ build = "devpoll" => DevpollTables'
      BY <1>1, <1>4, <1>7, <1>8, <3>1, <3>2, TablesStay
    <3> QED BY <1>4, <3>1, <3>2, <3>3
  <2> QED BY <2>1, <2>2, <2>3
<1>13. Pol!TypeOK'
  <2>1. i' \in 1..3 * (Len(batch') + Len(slots')) + 1
    <3>1. Len(batch') = 0 /\ Len(slots') \in Nat
      BY <1>1, <1>12
    <3> QED BY <1>1, <3>1
  <2>2. ready' \in Pol!Sets
    BY <1>1 DEF Pol!Sets
  <2> QED BY <1>1, <1>4, <1>6, <1>12, <2>1, <2>2 DEF Pol!TypeOK, Pol!Fd
<1> QED BY <1>1, <1>9, <1>10, <1>11, <1>12, <1>13 DEF PollerInv

(***************************************************************************)
(* The invariant of the pollers and what they promise.                     *)
(***************************************************************************)
LEMMA PollerBegins ==
  ASSUME Pol!Init
  PROVE  PollerInv
<1>1. /\ build \in Builds
      /\ entry = [re \in Reactor |-> [fd |-> 0, events |-> {}, freed |-> FALSE]]
      /\ table = [fd \in 1..MaxFd |-> [reactor |-> None, events |-> {}, index |-> 0 - 1, valid |-> FALSE, accepted |-> FALSE]]
      /\ slots = <<>> /\ source = [e \in Pol!Event |-> {}] /\ ready = [e \in Pol!Event |-> {}]
      /\ pending = <<>> /\ retired = {} /\ load = 0 /\ stopping = FALSE
      /\ pc = "wait" /\ batch = <<>> /\ i = 1 /\ handling = None /\ calls = 0 /\ moved = FALSE /\ dangling = FALSE
  BY DEF Pol!Init, Pol!Fd, Pol!retired_fd
<1>2. MaxFd \in Nat /\ MaxCalls \in Nat
  BY PollerFacts
<1>3. entry \in [Reactor -> Pol!Entry] /\ \A re \in Reactor : entry[re].fd = 0 /\ ~entry[re].freed
  BY <1>1 DEF Pol!Entry
<1>4. table \in [1..MaxFd -> Pol!FdEntry] /\ \A fd \in 1..MaxFd : ~table[fd].valid
  BY <1>1 DEF Pol!FdEntry
<1>5. source \in Pol!Sets /\ ready \in Pol!Sets /\ \A e \in Pol!Event : source[e] = {} /\ ready[e] = {}
  BY <1>1 DEF Pol!Sets
<1>6. Pol!Registered = {}
  BY <1>2, <1>3 DEF Pol!Registered, Pol!Fd
<1>7. Len(slots) = 0 /\ Len(batch) = 0
  BY <1>1
<1>8. Pol!TypeOK
  <2>1. i \in 1..3 * (Len(batch) + Len(slots)) + 1
    BY <1>1, <1>7
  <2>2. slots \in Seq(Pol!Slot) /\ pending \in Seq(1..MaxFd)
    BY <1>1
  <2>3. load \in 0..MaxFd /\ calls \in 0..MaxCalls
    BY <1>1, <1>2
  <2>5. retired \subseteq Reactor
    BY <1>1, Zenon
  <2>6. moved \in BOOLEAN /\ dangling \in BOOLEAN /\ stopping \in BOOLEAN
    BY <1>1, Zenon
  <2>4. pc \in {"wait", "dispatch", "done"} /\ (handling = None \/ handling.to \in Reactor) /\ build \in Builds
    BY <1>1
  <2> QED BY <1>3, <1>4, <1>5, <2>1, <2>2, <2>3, <2>4, <2>5, <2>6, TablesTyped
<1>9. EntriesOwn
  BY <1>1, <1>3, <1>6 DEF EntriesOwn
<1>10. BatchOf
  BY <1>7 DEF BatchOf
<1>11. PollTables
  BY <1>6, <1>7 DEF PollTables
<1>12. SelectTables
  BY <1>5, <1>6, <1>7 DEF SelectTables, SlotsDiffer, SetsPolled
<1>13. DevpollTables
  BY <1>4, <1>6 DEF DevpollTables, Pol!Fd
<1>14. Pol!LoadRight
  BY <1>1, <1>6, PollerFacts, FS_EmptySet DEF Pol!LoadRight
<1>15. Pol!ReachesItsOwn
  BY <1>1 DEF Pol!ReachesItsOwn
<1> QED BY <1>8, <1>9, <1>10, <1>11, <1>12, <1>13, <1>14, <1>15 DEF PollerInv

LEMMA PollerSteps ==
  ASSUME PollerInv, [Pol!Next]_pollerVars
  PROVE  PollerInv'
<1>1. ASSUME Pol!Call PROVE PollerInv'
  BY <1>1, PollerCalled
<1>2. ASSUME Pol!stop PROVE PollerInv'
  <2>1. /\ stopping' = TRUE
        /\ UNCHANGED <<build, entry, table, slots, source, ready, pending, retired, load, moved, dangling, pc, batch, i, seen, handling, calls>>
    BY <1>2 DEF Pol!stop, Pol!tables, Pol!loopVars
  <2>2. Pol!TypeOK'
    BY <2>1 DEF PollerInv, Pol!TypeOK
  <2>3. Pol!ReachesItsOwn'
    BY <2>1 DEF PollerInv, Pol!ReachesItsOwn
  <2> QED BY <2>1, <2>2, <2>3, SameTables DEF PollerInv
<1>3. ASSUME Pol!Wait PROVE PollerInv'
  BY <1>3, PollerWaits
<1>4. ASSUME Pol!Interrupted PROVE PollerInv'
  BY <1>4, PollerInterrupted
<1>5. ASSUME Pol!Dispatch PROVE PollerInv'
  BY <1>5, PollerDispatches
<1>6. ASSUME Pol!Return PROVE PollerInv'
  <2>1. /\ handling' = None
        /\ UNCHANGED <<build, entry, table, slots, source, ready, pending, retired, load, stopping, pc, batch, i, seen, calls>>
    BY <1>6 DEF Pol!Return, Pol!loopVars
  <2>2. Pol!TypeOK'
    <3>1. moved' \in BOOLEAN /\ dangling' \in BOOLEAN
      BY <1>6, Zenon DEF Pol!Return
    <3> QED BY <2>1, <3>1 DEF PollerInv, Pol!TypeOK
  <2>3. Pol!ReachesItsOwn'
    BY <2>1 DEF Pol!ReachesItsOwn
  <2> QED BY <2>1, <2>2, <2>3, SameTables DEF PollerInv
<1>7. ASSUME Pol!CleanUp PROVE PollerInv'
  BY <1>7, PollerCleansUp
<1>8. ASSUME UNCHANGED pollerVars PROVE PollerInv'
  <2>1. UNCHANGED <<build, entry, table, slots, source, ready, pending, retired, load, moved, dangling, stopping, pc, batch, i, seen, handling, calls>>
    BY <1>8 DEF pollerVars
  <2>2. Pol!TypeOK'
    BY <2>1 DEF PollerInv, Pol!TypeOK
  <2>3. Pol!ReachesItsOwn'
    BY <2>1 DEF PollerInv, Pol!ReachesItsOwn
  <2> QED BY <2>1, <2>2, <2>3, SameTables DEF PollerInv
<1> QED BY <1>1, <1>2, <1>3, <1>4, <1>5, <1>6, <1>7, <1>8 DEF Pol!Next

(***************************************************************************)
(* The table of devpoll_t that moves.                                      *)
(***************************************************************************)
\* A descriptor that was added in this round is higher than any that was there before.
Newest(entries, added) == \E fd \in Pol!Range(added) : \A g \in fd + 1..MaxFd : entries[g].reactor = None

\* A handler has moved the table only by adding such a descriptor, and only the loop
\* that goes on after that handler uses what it was.
GrowthInv ==
  /\ handling # None => pc = "dispatch"
  /\ moved => build = "devpoll" /\ handling # None /\ Newest(table, pending)
  /\ dangling => build = "devpoll" /\ Newest(table, pending)

LEMMA NewestStays ==
  ASSUME NEW entries, NEW now, NEW added \in Seq(1..MaxFd), Newest(entries, added),
         \A g \in 1..MaxFd : now[g].reactor = entries[g].reactor
  PROVE  Newest(now, added)
<1>1. PICK fd \in Pol!Range(added) : \A g \in fd + 1..MaxFd : entries[g].reactor = None
  BY DEF Newest
<1>2. fd \in 1..MaxFd /\ MaxFd \in Nat
  BY PollerFacts DEF Pol!Range
<1>3. \A g \in fd + 1..MaxFd : now[g].reactor = None
  BY <1>1, <1>2
<1> QED BY <1>3 DEF Newest

\* The descriptor that is added is that one, if the table has grown, or it or another
\* is that was added before.
LEMMA NewestAdded ==
  ASSUME NEW entries, NEW now, NEW added \in Seq(1..MaxFd), NEW fd \in 1..MaxFd,
         \A g \in 1..MaxFd : g # fd => now[g] = entries[g],
         Newest(entries, added) \/ \A g \in fd..MaxFd : entries[g].reactor = None
  PROVE  Newest(now, Append(added, fd))
<1>1. MaxFd \in Nat /\ fd \in Pol!Range(Append(added, fd))
  <2>1. Len(added) + 1 \in DOMAIN Append(added, fd) /\ Append(added, fd)[Len(added) + 1] = fd
    OBVIOUS
  <2> QED BY <2>1, PollerFacts DEF Pol!Range
<1>2. CASE \A g \in fd + 1..MaxFd : entries[g].reactor = None
  <2>1. \A g \in fd + 1..MaxFd : now[g].reactor = None
    <3> SUFFICES ASSUME NEW g \in fd + 1..MaxFd PROVE now[g].reactor = None
      OBVIOUS
    <3>1. g \in 1..MaxFd /\ g # fd
      BY <1>1
    <3>2. now[g] = entries[g]
      BY <3>1
    <3>3. entries[g].reactor = None
      BY <1>2
    <3> QED BY <3>2, <3>3
  <2> QED BY <1>1, <2>1 DEF Newest
<1>3. CASE Newest(entries, added) /\ ~\A g \in fd + 1..MaxFd : entries[g].reactor = None
  <2>1. PICK old \in Pol!Range(added) : \A g \in old + 1..MaxFd : entries[g].reactor = None
    BY <1>3 DEF Newest
  <2>2. old \in 1..MaxFd /\ old \in Pol!Range(Append(added, fd))
    <3>1. PICK k \in DOMAIN added : added[k] = old
      BY DEF Pol!Range
    <3>2. k \in DOMAIN Append(added, fd) /\ Append(added, fd)[k] = old
      BY <3>1
    <3>3. old \in 1..MaxFd
      <4>1. DOMAIN added = 1..Len(added)
        OBVIOUS
      <4>2. k \in 1..Len(added)
        BY <3>1, <4>1
      <4>3. added[k] \in 1..MaxFd
        BY <4>2, ElementOfSeq, Zenon
      <4> QED BY <3>1, <4>3
    <3>4. old \in Pol!Range(Append(added, fd))
      BY <3>2, Zenon DEF Pol!Range
    <3> QED BY <3>3, <3>4
  <2>3. old > fd
    <3>1. PICK g \in fd + 1..MaxFd : entries[g].reactor # None
      BY <1>3
    <3>2. ~(g \in old + 1..MaxFd)
      BY <2>1, <3>1
    <3> QED BY <1>1, <2>2, <3>1, <3>2
  <2>4. \A g \in old + 1..MaxFd : now[g].reactor = None
    <3> SUFFICES ASSUME NEW g \in old + 1..MaxFd PROVE now[g].reactor = None
      OBVIOUS
    <3>1. g \in 1..MaxFd /\ g # fd
      BY <1>1, <2>2, <2>3
    <3>2. now[g] = entries[g]
      BY <3>1
    <3>3. entries[g].reactor = None
      BY <2>1
    <3> QED BY <3>2, <3>3
  <2> QED BY <2>2, <2>4 DEF Newest
<1>4. (\A g \in fd..MaxFd : entries[g].reactor = None) => \A g \in fd + 1..MaxFd : entries[g].reactor = None
  BY <1>1
<1> QED BY <1>2, <1>3, <1>4

LEMMA GrowthByCalls ==
  ASSUME PollerInv, GrowthInv, Pol!Call, ~dangling
  PROVE  GrowthInv'
<1>1. UNCHANGED <<build, stopping, pc, batch, i, seen, handling, dangling>>
  BY DEF Pol!Call, Pol!loopVars
<1>2. /\ table \in [1..MaxFd -> Pol!FdEntry] /\ pending \in Seq(1..MaxFd)
      /\ (handling # None => pc = "dispatch") /\ (moved => build = "devpoll" /\ handling # None /\ Newest(table, pending))
  BY TablesTyped DEF PollerInv, GrowthInv
<1>3. PICK re \in Reactor :
        \/ \E asked \in Pol!Asked : Pol!add_fd(re, asked)
        \/ Pol!rm_fd(re)
        \/ \E added, removed \in SUBSET Pol!Direction : Pol!Adjust(re, added, removed)
  BY CallMade
<1>4. CASE moved' = moved /\ (build = "devpoll" => pending' = pending /\ \A g \in 1..MaxFd : table'[g].reactor = table[g].reactor)
  <2>1. build = "devpoll" /\ Newest(table, pending) => Newest(table', pending')
    BY <1>2, <1>4, NewestStays
  <2> QED BY <1>1, <1>2, <1>4, <2>1 DEF GrowthInv
<1>5. ASSUME NEW asked \in Pol!Asked, Pol!add_fd(re, asked) PROVE GrowthInv'
  <2> DEFINE fd == Pol!FreeFd
  <2>1. fd \in 1..MaxFd
    BY <1>1, <1>5, EntryAdded
  <2>2. /\ build = "kqueue" => Pol!kqueue_add_fd(re, fd, asked)
        /\ build = "epoll" => Pol!epoll_add_fd(re, fd, asked)
        /\ build = "poll" => Pol!poll_add_fd(re, fd, asked)
        /\ build = "select" => Pol!select_add_fd(re, fd, asked)
        /\ build = "devpoll" => Pol!devpoll_add_fd(re, fd, asked)
    BY <1>5 DEF Pol!add_fd
  <2> HIDE DEF fd
  <2>3. CASE build # "devpoll"
    <3>1. build \in Builds
      BY TablesTyped DEF PollerInv
    <3>2. moved' = moved
      BY <2>2, <2>3, <3>1 DEF Pol!kqueue_add_fd, Pol!epoll_add_fd, Pol!poll_add_fd, Pol!select_add_fd, Builds
    <3> QED BY <1>4, <2>3, <3>2
  <2>4. CASE build = "devpoll"
    <3> DEFINE grows == handling # None /\ \A g \in fd..MaxFd : table[g].reactor = None
               new == [table[fd] EXCEPT !.events = asked, !.reactor = re, !.valid = TRUE, !.accepted = FALSE]
    <3>1. table' = [table EXCEPT ![fd] = new] /\ pending' = Append(pending, fd)
      BY <2>2, <2>4 DEF Pol!devpoll_add_fd
    <3>2. moved' = moved \/ moved' = (moved \/ grows)
      BY <2>2, <2>4, Zenon DEF Pol!devpoll_add_fd
    <3> HIDE DEF new
    <3>3. \A g \in 1..MaxFd : g # fd => table'[g] = table[g]
      BY <1>2, <3>1
    <3>4. moved' => moved \/ grows
      BY <3>2, Zenon
    <3>5. moved \/ grows => Newest(table', pending')
      BY <1>2, <2>1, <3>1, <3>3, NewestAdded
    <3>6. moved \/ grows => handling # None
      BY <1>2
    <3> HIDE DEF grows
    <3> QED BY <1>1, <1>2, <2>4, <3>4, <3>5, <3>6 DEF GrowthInv
  <2> QED BY <2>3, <2>4
<1>6. CASE Pol!rm_fd(re)
  <2>1. /\ re \in Pol!Registered /\ moved' = moved
        /\ build = "devpoll" => pending' = pending /\ table' = [table EXCEPT ![entry[re].fd].valid = FALSE]
    BY <1>6 DEF Pol!rm_fd, Pol!devpoll_rm_fd
  <2>2. ASSUME build = "devpoll", NEW g \in 1..MaxFd PROVE table'[g].reactor = table[g].reactor
    <3> DEFINE gone == [table[g] EXCEPT !.valid = FALSE]
    <3>1. gone.reactor = table[g].reactor
      BY <1>2 DEF Pol!FdEntry
    <3>2. table'[g] = table[g] \/ table'[g] = gone
      BY <1>2, <2>1, <2>2
    <3> HIDE DEF gone
    <3> QED BY <3>1, <3>2
  <2> QED BY <1>4, <2>1, <2>2
<1>7. ASSUME NEW added \in SUBSET Pol!Direction, NEW removed \in SUBSET Pol!Direction, Pol!Adjust(re, added, removed)
      PROVE  GrowthInv'
  <2> DEFINE wants == Pol!Changed(table[entry[re].fd].events, added, removed)
  <2>1. /\ moved' = moved /\ pending' = pending
        /\ build = "devpoll" => table' = [table EXCEPT ![entry[re].fd].events = wants]
    BY <1>7 DEF Pol!Adjust
  <2> HIDE DEF wants
  <2>2. ASSUME build = "devpoll", NEW g \in 1..MaxFd PROVE table'[g].reactor = table[g].reactor
    <3> DEFINE now == [table[g] EXCEPT !.events = wants]
    <3>1. now.reactor = table[g].reactor
      BY <1>2 DEF Pol!FdEntry
    <3>2. table'[g] = table[g] \/ table'[g] = now
      BY <1>2, <2>1, <2>2
    <3> HIDE DEF now
    <3> QED BY <3>1, <3>2
  <2> QED BY <1>4, <2>1, <2>2
<1> QED BY <1>3, <1>5, <1>6, <1>7

LEMMA GrowthKept ==
  ASSUME PollerInv, GrowthInv, [Pol!Next]_pollerVars
  PROVE  GrowthInv'
<1>1. CASE Pol!Call /\ ~dangling
  BY <1>1, GrowthByCalls
<1>2. CASE Pol!stop
  <2>1. UNCHANGED <<build, table, pending, moved, dangling, handling, pc>>
    BY <1>2 DEF Pol!stop, Pol!tables, Pol!loopVars
  <2> QED BY <2>1 DEF GrowthInv
<1>3. CASE Pol!Wait
  <2>1. UNCHANGED <<build, table, pending, moved, dangling, handling>> /\ pc' = "dispatch"
    BY <1>3 DEF Pol!Wait
  <2> QED BY <2>1 DEF GrowthInv
<1>4. CASE Pol!Interrupted /\ ~dangling
  <2>1. UNCHANGED <<build, moved, dangling, handling, pc>> /\ pc = "wait"
    BY <1>4 DEF Pol!Interrupted, Pol!loopVars
  <2> QED BY <1>4, <2>1 DEF GrowthInv
<1>5. CASE Pol!Dispatch
  <2>1. UNCHANGED <<build, table, pending, moved, dangling, pc>> /\ handling = None /\ pc = "dispatch"
    BY <1>5 DEF Pol!Dispatch, Pol!tables
  <2> QED BY <2>1 DEF GrowthInv
<1>6. CASE Pol!Return
  <2>1. UNCHANGED <<build, table, pending, pc>> /\ handling' = None
    BY <1>6 DEF Pol!Return, Pol!loopVars
  <2>2. ~moved' /\ (dangling' => moved)
    BY <1>6, Zenon DEF Pol!Return
  <2> QED BY <2>1, <2>2 DEF GrowthInv
<1>7. CASE Pol!CleanUp /\ ~dangling
  <2>1. UNCHANGED <<build, moved, dangling, handling>> /\ handling = None
    BY <1>7 DEF Pol!CleanUp
  <2> QED BY <1>7, <2>1 DEF GrowthInv
<1>8. CASE UNCHANGED pollerVars
  <2>1. UNCHANGED <<build, table, pending, moved, dangling, handling, pc>>
    BY <1>8 DEF pollerVars
  <2> QED BY <2>1 DEF GrowthInv
<1> QED BY <1>1, <1>2, <1>3, <1>4, <1>5, <1>6, <1>7, <1>8 DEF Pol!Next

\* What the invariants say of the entries and what is asked of the kernel.
LEMMA PollerPromised ==
  ASSUME PollerInv, GrowthInv
  PROVE  Pol!PollerSound
<1>1. Pol!TypeOK /\ BatchOf /\ build \in Builds
  BY TablesTyped DEF PollerInv
<1>2. Pol!EntriesLive
  <2>1. ASSUME build \in {"kqueue", "epoll"}, NEW k \in Pol!Report(i)..Len(batch) PROVE ~entry[batch[k].key].freed
    <3>1. Pol!Report(i) \in Nat /\ Pol!Report(i) >= 1
      <4>1. i \in Nat /\ i >= 1
        BY <1>1 DEF Pol!TypeOK
      <4> QED BY <4>1 DEF Pol!Report
    <3>2. k \in 1..Len(batch)
      BY <1>1, <3>1 DEF BatchOf
    <3> QED BY <1>1, <2>1, <3>2 DEF BatchOf
  <2> QED BY <2>1 DEF Pol!EntriesLive, Pol!Key
<1>3. Pol!PolledAsAsked
  <2>1. ASSUME NEW re \in Pol!Registered PROVE Pol!Wanted(re) = entry[re].events
    <3>1. CASE build \in {"kqueue", "epoll"}
      BY <3>1 DEF Pol!Wanted
    <3>2. CASE build = "poll"
      <4>1. HasSlot(re)
        BY <3>2 DEF PollerInv, PollTables
      <4> QED BY <3>2, <4>1 DEF Pol!Wanted, HasSlot
    <3>3. CASE build = "select"
      <4>1. InSets(re) /\ entry[re].events \subseteq Pol!Direction
        BY <1>1, <3>3, RegisteredOnes DEF PollerInv, SelectTables, Pol!TypeOK, Pol!Entry
      <4>2. Pol!Wanted(re) = {way \in Pol!Direction : entry[re].fd \in source[way]}
        BY <3>3 DEF Pol!Wanted
      <4> QED BY <4>1, <4>2 DEF InSets
    <3>4. CASE build = "devpoll"
      <4>1. InTable(re)
        BY <3>4 DEF PollerInv, DevpollTables
      <4> QED BY <3>4, <4>1 DEF Pol!Wanted, InTable
    <3> QED BY <1>1, <3>1, <3>2, <3>3, <3>4 DEF Builds
  <2> QED BY <2>1 DEF Pol!PolledAsAsked
<1>4. Pol!DanglesByGrowth
  BY DEF GrowthInv, Newest, Pol!DanglesByGrowth
<1> QED BY <1>1, <1>2, <1>3, <1>4 DEF PollerInv, Pol!PollerSound

LEMMA PollerAlone ==
  ASSUME [ConnectionsNext]_connectionsVars
  PROVE  [Pol!Next]_pollerVars
BY DEF ConnectionsNext, connectionsVars, OtherConnections, Stays

LEMMA PollerInvariant == ConnectionsSpec => [](PollerInv /\ GrowthInv)
<1>1. ConnectionsInit => PollerInv /\ GrowthInv
  <2>1. Pol!Init => ~moved /\ ~dangling /\ handling = None
    BY DEF Pol!Init
  <2> QED BY <2>1, PollerBegins DEF ConnectionsInit, GrowthInv
<1>2. PollerInv /\ GrowthInv /\ [ConnectionsNext]_connectionsVars => (PollerInv /\ GrowthInv)'
  BY PollerAlone, PollerSteps, GrowthKept
<1> QED BY <1>1, <1>2, PTL DEF ConnectionsSpec

\* kqueue.cpp, epoll.cpp, poll.cpp, select.cpp, devpoll.cpp: whatever descriptors
\* the handlers add and remove while the events of a batch are delivered, each
\* event reaches the object it was reported for, which still has its descriptor;
\* the kernel is asked for what the objects asked for; and memory that was freed is
\* used by devpoll_t only, after a handler added a descriptor higher than any before
\* (devpoll.cpp:63-71 and 168).
THEOREM PollerSoundHolds == ConnectionsSpec => []PollerSound
<1>1. PollerInv /\ GrowthInv => PollerSound
  BY PollerPromised DEF PollerSound
<1> QED BY <1>1, PollerInvariant, PTL
==============================================================================
