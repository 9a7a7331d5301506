-------------------------- MODULE ZmqThreadsProofs --------------------------
(***************************************************************************)
(* Proofs about the parts of ZeroMQ that run in several threads, for any   *)
(* number of senders, messages, sockets and connections.                   *)
(***************************************************************************)
EXTENDS ZmqThreads, FiniteSetTheorems, SequenceTheorems, WellFoundedInduction, TLAPS

(***************************************************************************)
(* The mailbox.  The argument counts the signals: a byte is in the socket  *)
(* pair, or owed by exactly one sender, if and only if the reader of the   *)
(* pipe was told of by a flush and has not become passive since.           *)
(***************************************************************************)
Holding == {"locked", "flush", "unlock", "unlockAndSignal"}

MutexInv ==
  /\ \A s \in Sender : sending[s] \in Holding <=> sync = s
  /\ partial = <<>>
  /\ unflushed # <<>> => \E s \in Sender : sending[s] = "flush"
  /\ \A s \in Sender : sending[s] = "flush" => unflushed # <<>>
  /\ \A s \in Sender : sending[s] = "locked" => sent[s] < MaxCommands

\* The byte that is still to be taken out by a mailbox becoming passive.
Draining == IF receiving = "drain" THEN 1 ELSE 0

SignalInv ==
  /\ active <=> reader = "awake"
  /\ reader = "awake" => /\ signals = 1 /\ Owing = {} /\ receiving \in {"idle", "read"}
  /\ reader = "asleep" => /\ signals = Draining /\ Owing = {} /\ flushed = <<>>
                          /\ receiving \in {"idle", "wait", "drain"}
  /\ reader = "signalled" =>
       /\ flushed # <<>>
       /\ receiving # "read"
       /\ \/ Owing = {} /\ signals = 1 + Draining
          \/ \E s \in Sender : Owing = {s} /\ signals = Draining
  /\ receiving = "signalled" => reader = "signalled" /\ Owing = {} /\ signals = 1
  /\ receiving = "read" => reader = "awake" /\ flushed # <<>>

\* No command is in two places, and none is anywhere before it was sent.
CommandsInv ==
  /\ \A i \in DOMAIN received : received[i][2] <= sent[received[i][1]]
  /\ \A i \in DOMAIN flushed : flushed[i][2] <= sent[flushed[i][1]]
  /\ \A i \in DOMAIN unflushed : unflushed[i][2] <= sent[unflushed[i][1]]
  /\ \A i, j \in DOMAIN flushed : flushed[i] = flushed[j] => i = j
  /\ \A i \in DOMAIN received, j \in DOMAIN flushed : received[i] # flushed[j]
  /\ \A i \in DOMAIN received, j \in DOMAIN unflushed : received[i] # unflushed[j]
  /\ \A i \in DOMAIN flushed, j \in DOMAIN unflushed : flushed[i] # unflushed[j]
  /\ \A i, j \in DOMAIN unflushed : unflushed[i] = unflushed[j] => i = j

IInv ==
  /\ TypeOK
  /\ MutexInv
  /\ SignalInv
  /\ CommandsInv
  /\ NoneInSendAfterwards
  /\ destroyed => Complete

\* The receiver is done with its last command only when every sender is out of
\* send(): a command that was received is nobody's any more.
LEMMA CompleteMeansSent ==
  ASSUME IInv, Complete, sync = Nobody
  PROVE  \A s \in Sender : sending[s] = "idle"
<1> SUFFICES ASSUME NEW s \in Sender, sending[s] # "idle" PROVE FALSE
  OBVIOUS
<1>1. sending[s] = "signal"
  BY MailboxAssumption DEF IInv, TypeOK, MutexInv, Holding, SendStep
<1>2. s \in Owing /\ flushed # <<>>
  BY <1>1 DEF Owing, IInv, SignalInv, TypeOK, cpipe!QueueTypeOK
<1>3. flushed \in Seq(Command) /\ 1 \in DOMAIN flushed /\ flushed[1] \in Command
  BY <1>2 DEF IInv, TypeOK, cpipe!QueueTypeOK
<1>4. PICK i \in DOMAIN received : received[i] = flushed[1]
  BY <1>3 DEF Complete
<1> QED
  BY <1>3, <1>4 DEF IInv, CommandsInv

LEMMA InitInv == Init => IInv
<1> SUFFICES ASSUME Init PROVE IInv
  OBVIOUS
<1> USE DEF Init
<1>1. TypeOK
  <2>1. cpipe!QueueTypeOK
    BY DEF cpipe!QueueTypeOK
  <2>2. sent \in [Sender -> 0..MaxCommands] /\ sending \in [Sender -> SendStep]
    BY MailboxAssumption DEF SendStep
  <2>3. received \in Seq(Command)
    OBVIOUS
  <2> QED BY <2>1, <2>2, <2>3 DEF TypeOK
<1>2. MutexInv
  BY MailboxAssumption DEF MutexInv, Holding
<1>3. SignalInv
  BY DEF SignalInv, Owing, Draining
<1> QED
  BY <1>1, <1>2, <1>3 DEF IInv, CommandsInv, NoneInSendAfterwards

LEMMA SendType ==
  ASSUME TypeOK, NEW s \in Sender, Lock(s) \/ (sent[s] < MaxCommands /\ Write(s)) \/ Flush(s) \/ Unlock(s) \/ SignalerSend(s)
  PROVE  TypeOK'
<1> USE MailboxAssumption DEF TypeOK, SenderUnchanged, SendStep, pipeVars, cpipe!QueueTypeOK
<1>1. CASE Lock(s)
  BY <1>1 DEF Lock
<1>2. CASE sent[s] < MaxCommands /\ Write(s)
  <2>1. <<s, sent[s] + 1>> \in Command
    BY <1>2 DEF Command
  <2>2. unflushed \o Append(partial, <<s, sent[s] + 1>>) \in Seq(Command)
    <3> DEFINE cmd == <<s, sent[s] + 1>>
    <3> HIDE DEF cmd
    <3>1. cmd \in Command
      BY <2>1 DEF cmd
    <3> QED BY <3>1 DEF cmd
  <2>3. unflushed' \in Seq(Command) /\ partial' = <<>>
    <3>1. partial' = <<>> /\ unflushed' = unflushed \o Append(partial, <<s, sent[s] + 1>>)
      BY <1>2 DEF Write, cpipe!Write
    <3>2. unflushed' \in Seq(Command)
      BY <3>1, <2>2, Zenon
    <3> QED BY <3>1, <3>2
  <2>4. sent' \in [Sender -> 0..MaxCommands] /\ sending' \in [Sender -> SendStep]
    BY <1>2 DEF Write
  <2>5. partial' \in Seq(Command)
    BY <2>3
  <2> QED BY <1>2, <2>3, <2>4, <2>5 DEF Write, cpipe!Write
<1>3. CASE Flush(s)
  BY <1>3 DEF Flush, cpipe!Flush
<1>4. CASE Unlock(s)
  BY <1>4 DEF Unlock
<1>5. CASE SignalerSend(s)
  BY <1>5 DEF SignalerSend
<1> QED BY <1>1, <1>2, <1>3, <1>4, <1>5

LEMMA RecvType == ASSUME TypeOK, SignalInv, RecvNext PROVE TypeOK'
<1> USE DEF TypeOK, ReceiverUnchanged, pipeVars, cpipe!QueueTypeOK
<1>1. CASE Recv
  <2>1. flushed # <<>> => Tail(flushed) \in Seq(Command) /\ Append(received, Head(flushed)) \in Seq(Command)
    OBVIOUS
  <2>2. received' \in Seq(Command) /\ flushed' \in Seq(Command) /\ partial' = partial /\ unflushed' = unflushed
    BY <1>1, <2>1 DEF Recv, cpipe!Read, cpipe!Sleep
  <2> QED BY <1>1, <2>2 DEF Recv, cpipe!Read, cpipe!Sleep
<1>2. CASE SignalerRecv
  BY <1>2 DEF SignalerRecv, SignalInv, Draining
<1>3. CASE WaitSignalled \/ WaitFailed \/ Activate \/ Destroy
  BY <1>3 DEF WaitSignalled, WaitFailed, Activate, Destroy, cpipe!Wake
<1>4. CASE ReadCommand
  BY <1>4 DEF ReadCommand, cpipe!Read
<1> QED BY <1>1, <1>2, <1>3, <1>4 DEF RecvNext

\* Only the sender that holds the mutex writes and flushes.
LEMMA MutexStep ==
  ASSUME IInv, SendNext \/ RecvNext PROVE MutexInv'
<1> USE MailboxAssumption DEF IInv, MutexInv, TypeOK, Holding, SendStep, pipeVars, SenderUnchanged
<1>1. ASSUME NEW s \in Sender, Lock(s) PROVE MutexInv'
  BY <1>1 DEF Lock
<1>2. ASSUME NEW s \in Sender, Write(s) PROVE MutexInv'
  BY <1>2 DEF Write, cpipe!Write, cpipe!QueueTypeOK
<1>3. ASSUME NEW s \in Sender, Flush(s) PROVE MutexInv'
  BY <1>3 DEF Flush, cpipe!Flush
<1>4. ASSUME NEW s \in Sender, Unlock(s) \/ SignalerSend(s) PROVE MutexInv'
  BY <1>4 DEF Unlock, SignalerSend
<1>5. CASE RecvNext
  BY <1>5 DEF RecvNext, Recv, SignalerRecv, WaitSignalled, WaitFailed, Activate, ReadCommand,
      Destroy, ReceiverUnchanged, cpipe!Read, cpipe!Sleep, cpipe!Wake
<1> QED BY <1>1, <1>2, <1>3, <1>4, <1>5 DEF SendNext

\* A flush that finds the reader asleep owes the signal that sends it.
LEMMA SignalSend ==
  ASSUME IInv, NEW s \in Sender, Lock(s) \/ Write(s) \/ Flush(s) \/ Unlock(s) \/ SignalerSend(s)
  PROVE  SignalInv'
<1> USE DEF IInv, SignalInv, TypeOK, cpipe!QueueTypeOK, SenderUnchanged, Draining, pipeVars
<1>1. CASE Lock(s) \/ Write(s) \/ Unlock(s)
  <2>1. Owing' = Owing
    BY <1>1 DEF Owing, Lock, Write, Unlock, SendStep
  <2> QED
    BY <1>1, <2>1 DEF Lock, Write, Unlock, cpipe!Write
<1>2. CASE Flush(s)
  <2>1. CASE reader = "asleep"
    <3>1. Owing' = {s}
      BY <1>2, <2>1 DEF Flush, Owing
    <3>2. flushed' # <<>>
      BY <1>2 DEF Flush, cpipe!Flush
    <3> QED BY <1>2, <2>1, <3>1, <3>2 DEF Flush, cpipe!Flush
  <2>2. CASE reader # "asleep"
    <3>1. Owing' = Owing
      BY <1>2, <2>2 DEF Flush, Owing
    <3>2. flushed' # <<>>
      BY <1>2 DEF Flush, cpipe!Flush
    <3> QED BY <1>2, <2>2, <3>1, <3>2 DEF Flush, cpipe!Flush
  <2> QED BY <2>1, <2>2
<1>3. CASE SignalerSend(s)
  <2>1. s \in Owing /\ Owing' = Owing \ {s}
    BY <1>3 DEF SignalerSend, Owing
  <2>2. reader = "signalled" /\ Owing = {s} /\ signals = Draining
    BY <2>1
  <2> QED
    BY <1>3, <2>1, <2>2 DEF SignalerSend
<1> QED BY <1>1, <1>2, <1>3

LEMMA SignalRecv == ASSUME IInv, RecvNext PROVE SignalInv'
<1> USE DEF IInv, SignalInv, TypeOK, cpipe!QueueTypeOK, ReceiverUnchanged, Draining, pipeVars
<1>0. Owing' = Owing
  BY DEF RecvNext, Recv, SignalerRecv, WaitSignalled, WaitFailed, Activate, ReadCommand, Destroy, Owing
<1>1. CASE Recv
  BY <1>0, <1>1 DEF Recv, cpipe!Read, cpipe!Sleep
<1>2. CASE SignalerRecv
  BY <1>0, <1>2 DEF SignalerRecv
<1>3. CASE WaitSignalled
  BY <1>0, <1>3 DEF WaitSignalled
<1>4. CASE WaitFailed \/ Destroy
  BY <1>0, <1>4 DEF WaitFailed, Destroy
<1>5. CASE Activate
  BY <1>0, <1>5 DEF Activate, cpipe!Wake
<1>6. CASE ReadCommand
  BY <1>0, <1>6 DEF ReadCommand, cpipe!Read
<1> QED BY <1>1, <1>2, <1>3, <1>4, <1>5, <1>6 DEF RecvNext

\* Writing adds a command that was nowhere before; flushing and reading only
\* move commands on.
LEMMA CommandsSend ==
  ASSUME IInv, NEW s \in Sender, Lock(s) \/ Write(s) \/ Flush(s) \/ Unlock(s) \/ SignalerSend(s)
  PROVE  CommandsInv'
<1> USE DEF IInv, TypeOK, cpipe!QueueTypeOK, SenderUnchanged, pipeVars
<1>1. CASE Lock(s) \/ Unlock(s) \/ SignalerSend(s)
  BY <1>1 DEF Lock, Unlock, SignalerSend, CommandsInv
<1>2. CASE Write(s)
  <2> DEFINE cmd == <<s, sent[s] + 1>>
  <2>1. unflushed = <<>> /\ partial = <<>>
    BY <1>2 DEF MutexInv, Write, Holding
  <2>2. unflushed' = <<cmd>> /\ flushed' = flushed /\ received' = received
    BY <1>2, <2>1 DEF Write, cpipe!Write
  <2>3. sent' = [sent EXCEPT ![s] = @ + 1]
    BY <1>2 DEF Write
  <2>4. \A t \in Sender : sent'[t] >= sent[t] /\ sent[t] \in Nat /\ sent'[t] \in Nat
    BY <2>3, MailboxAssumption
  <2>5. \A i \in DOMAIN received : received[i] \in Command
    OBVIOUS
  <2>6. \A i \in DOMAIN flushed : flushed[i] \in Command
    OBVIOUS
  <2>7. \A x \in Command : x[1] \in Sender /\ x[2] \in Nat /\ (x = cmd => x[2] = sent[x[1]] + 1)
    BY MailboxAssumption DEF Command
  <2>8. cmd[2] <= sent'[cmd[1]]
    BY <2>3, <2>4
  <2>9. /\ \A i \in DOMAIN received : received[i] # cmd /\ received[i][2] <= sent'[received[i][1]]
        /\ \A i \in DOMAIN flushed : flushed[i] # cmd /\ flushed[i][2] <= sent'[flushed[i][1]]
    <3>1. ASSUME NEW x \in Command, x[2] <= sent[x[1]]
          PROVE  x # cmd /\ x[2] <= sent'[x[1]]
      <4>1. x[1] \in Sender /\ x[2] \in Nat /\ (x = cmd => x[2] = sent[x[1]] + 1)
        BY <2>7
      <4> HIDE DEF cmd
      <4> QED BY <3>1, <4>1, <2>4
    <3> QED BY <2>5, <2>6, <3>1 DEF CommandsInv
  <2> HIDE DEF cmd
  <2>10. \A i \in DOMAIN unflushed' : i = 1 /\ unflushed'[i] = cmd
    BY <2>2
  <2> QED
    BY <2>2, <2>8, <2>9, <2>10 DEF CommandsInv
<1>3. CASE Flush(s)
  <2>1. flushed' = flushed \o unflushed /\ unflushed' = <<>> /\ received' = received /\ sent' = sent
    BY <1>3 DEF Flush, cpipe!Flush
  <2>2. \A i \in DOMAIN flushed' :
          IF i \in DOMAIN flushed THEN flushed'[i] = flushed[i]
          ELSE /\ i - Len(flushed) \in DOMAIN unflushed
               /\ flushed'[i] = unflushed[i - Len(flushed)]
    BY <2>1
  <2>3. \A i \in DOMAIN flushed' : i \in Nat /\ Len(flushed) \in Nat
    BY <2>1
  <2>4. \A i, j \in DOMAIN flushed' : flushed'[i] = flushed'[j] => i = j
    <3> SUFFICES ASSUME NEW i \in DOMAIN flushed', NEW j \in DOMAIN flushed', flushed'[i] = flushed'[j]
                 PROVE  i = j
      OBVIOUS
    <3>1. i - Len(flushed) = j - Len(flushed) => i = j
      BY <2>3
    <3>2. CASE i \in DOMAIN flushed /\ j \in DOMAIN flushed
      BY <3>2, <2>2 DEF CommandsInv
    <3>3. CASE i \notin DOMAIN flushed /\ j \notin DOMAIN flushed
      BY <3>1, <3>3, <2>2 DEF CommandsInv
    <3>4. CASE i \in DOMAIN flushed /\ j \notin DOMAIN flushed
      BY <3>4, <2>2 DEF CommandsInv
    <3>5. CASE i \notin DOMAIN flushed /\ j \in DOMAIN flushed
      BY <3>5, <2>2 DEF CommandsInv
    <3> QED BY <3>2, <3>3, <3>4, <3>5
  <2>5. \A i \in DOMAIN flushed' : /\ flushed'[i][2] <= sent[flushed'[i][1]]
                                  /\ \A j \in DOMAIN received : received[j] # flushed'[i]
    BY <2>2 DEF CommandsInv
  <2>6. DOMAIN unflushed' = {} /\ received' = received /\ sent' = sent
    BY <2>1
  <2> QED
    BY <2>4, <2>5, <2>6 DEF CommandsInv
<1> QED BY <1>1, <1>2, <1>3

LEMMA CommandsRecv == ASSUME IInv, RecvNext PROVE CommandsInv'
<1> USE DEF IInv, TypeOK, cpipe!QueueTypeOK, ReceiverUnchanged, pipeVars
<1>1. ASSUME cpipe!Read, received' = Append(received, Head(flushed)), UNCHANGED sent
      PROVE  CommandsInv'
  <2>1. flushed' = Tail(flushed) /\ unflushed' = unflushed /\ flushed # <<>>
    BY <1>1 DEF cpipe!Read
  <2>2. \A i \in DOMAIN flushed' : i \in Nat /\ i + 1 \in DOMAIN flushed /\ i + 1 # 1 /\ flushed'[i] = flushed[i + 1]
    BY <2>1
  <2>3. \A i \in DOMAIN received' :
          IF i \in DOMAIN received THEN received'[i] = received[i] ELSE received'[i] = flushed[1]
    BY <1>1, <2>1
  <2>4. 1 \in DOMAIN flushed
    BY <2>1
  <2> QED
    BY <1>1, <2>1, <2>2, <2>3, <2>4 DEF CommandsInv
<1>2. CASE UNCHANGED <<flushed, unflushed, received, sent>>
  BY <1>2 DEF CommandsInv
<1> QED
  BY <1>1, <1>2 DEF RecvNext, Recv, SignalerRecv, WaitSignalled, WaitFailed, Activate,
     ReadCommand, Destroy, cpipe!Sleep, cpipe!Wake

\* After the destructor nothing moves.
LEMMA DestroyedStep ==
  ASSUME IInv, SendNext \/ RecvNext PROVE NoneInSendAfterwards' /\ (destroyed => Complete)'
<1>1. CASE Destroy
  BY <1>1, CompleteMeansSent DEF Destroy, NoneInSendAfterwards, Complete
<1>2. CASE destroyed
  <2>1. \A s \in Sender : sending[s] = "idle" /\ sent[s] = MaxCommands
    <3> SUFFICES ASSUME NEW s \in Sender PROVE sending[s] = "idle" /\ sent[s] = MaxCommands
      OBVIOUS
    <3>1. <<s, MaxCommands>> \in Command
      BY MailboxAssumption DEF Command
    <3>2. PICK i \in DOMAIN received : received[i] = <<s, MaxCommands>>
      BY <1>2, <3>1 DEF IInv, Complete
    <3>3. MaxCommands <= sent[s]
      BY <3>2 DEF IInv, CommandsInv
    <3> QED
      BY <1>2, <3>3, MailboxAssumption DEF IInv, NoneInSendAfterwards, TypeOK
  <2>2. ~SendNext
    <3> SUFFICES ASSUME NEW s \in Sender, Lock(s) \/ Write(s) \/ Flush(s) \/ Unlock(s) \/ SignalerSend(s)
                 PROVE  FALSE
      BY DEF SendNext
    <3>1. sending[s] = "idle" /\ ~(sent[s] < MaxCommands)
      BY <2>1, MailboxAssumption
    <3> QED
      BY <3>1 DEF Lock, Write, Flush, Unlock, SignalerSend
  <2>3. sending' = sending /\ RecvNext
    BY <2>2 DEF RecvNext, Recv, SignalerRecv, WaitSignalled, WaitFailed, Activate, ReadCommand,
        Destroy, ReceiverUnchanged
  <2>4. \A i \in DOMAIN received : i \in DOMAIN received' /\ received'[i] = received[i]
    <3>1. received \in Seq(Command) /\ flushed \in Seq(Command)
      BY DEF IInv, TypeOK, cpipe!QueueTypeOK
    <3>2. received' = received \/ received' = Append(received, Head(flushed))
      BY <2>3 DEF RecvNext, Recv, SignalerRecv, WaitSignalled, WaitFailed, Activate, ReadCommand,
          Destroy
    <3> QED
      BY <3>1, <3>2
  <2> QED
    BY <1>2, <2>1, <2>3, <2>4 DEF IInv, Complete, NoneInSendAfterwards
<1>3. CASE ~destroyed /\ destroyed' = destroyed
  BY <1>3 DEF NoneInSendAfterwards
<1> QED
  BY <1>1, <1>2, <1>3
  DEF SendNext, RecvNext, Lock, Write, Flush, Unlock, SignalerSend, SenderUnchanged, Recv,
      SignalerRecv, WaitSignalled, WaitFailed, Activate, ReadCommand, ReceiverUnchanged

LEMMA StepInv == IInv /\ [Next]_vars => IInv'
<1> SUFFICES ASSUME IInv, [Next]_vars PROVE IInv'
  OBVIOUS
<1>1. CASE SendNext
  <2>1. PICK s \in Sender : Lock(s) \/ Write(s) \/ Flush(s) \/ Unlock(s) \/ SignalerSend(s)
    BY <1>1 DEF SendNext
  <2>2. TypeOK'
    BY <2>1, SendType DEF IInv, MutexInv, Write
  <2> QED
    BY <1>1, <2>1, <2>2, MutexStep, SignalSend, CommandsSend, DestroyedStep DEF IInv
<1>2. CASE RecvNext
  BY <1>2, RecvType, MutexStep, SignalRecv, CommandsRecv, DestroyedStep DEF IInv
<1>3. CASE UNCHANGED vars
  BY <1>3 DEF vars, pipeVars, IInv, TypeOK, cpipe!QueueTypeOK, MutexInv, Holding, SignalInv, Owing,
              Draining, CommandsInv, NoneInSendAfterwards, Complete
<1> QED
  BY <1>1, <1>2, <1>3 DEF Next

\* Every variable keeps its type.
THEOREM TypeCorrect == Spec => []TypeOK
<1>1. IInv => TypeOK
  BY DEF IInv
<1> QED
  BY InitInv, StepInv, <1>1, PTL DEF Spec

\* The code's assertions hold: a signal comes with a command, and a mailbox
\* that becomes passive finds its byte.
THEOREM AssertionsHoldAlways == Spec => []AssertionsHold
<1>1. IInv => AssertionsHold
  BY DEF IInv, SignalInv, AssertionsHold, Draining, TypeOK, cpipe!QueueTypeOK
<1> QED
  BY InitInv, StepInv, <1>1, PTL DEF Spec

\* No wake-up call is lost.
THEOREM NoLostWakeupHolds == Spec => []NoLostWakeup
<1>1. IInv => NoLostWakeup
  <2> SUFFICES ASSUME IInv, ~active, flushed # <<>> PROVE signals > 0 \/ Owing # {}
    BY DEF NoLostWakeup
  <2>1. reader = "signalled"
    BY DEF IInv, SignalInv, TypeOK, cpipe!QueueTypeOK
  <2> QED
    BY <2>1 DEF IInv, SignalInv, Draining
<1> QED
  BY InitInv, StepInv, <1>1, PTL DEF Spec

\* An active mailbox polls as readable.
THEOREM ActiveIsReadableHolds == Spec => []ActiveIsReadable
<1>1. IInv => ActiveIsReadable
  BY DEF IInv, SignalInv, ActiveIsReadable
<1> QED
  BY InitInv, StepInv, <1>1, PTL DEF Spec

\* No sender is inside send() when the mailbox disappears.
THEOREM NoneInSendAfterwardsHolds == Spec => []NoneInSendAfterwards
<1>1. IInv => NoneInSendAfterwards
  BY DEF IInv
<1> QED
  BY InitInv, StepInv, <1>1, PTL DEF Spec

\* All of them together: a mailbox is safe whatever the number of senders and
\* of commands, and wherever its threads are interrupted.
THEOREM MailboxSoundHolds == Spec => []MailboxSound
  BY TypeCorrect, AssertionsHoldAlways, NoLostWakeupHolds, ActiveIsReadableHolds,
     NoneInSendAfterwardsHolds, PTL DEF MailboxSound

(***************************************************************************)
(* The calls.                                                              *)
(***************************************************************************)
\* Messages are numbered modulo N, which stands for none where one may be held.
N == Calls!NoMessage

\* Where the calls can be, with the message that recv has fetched.
CallPlaces ==
  /\ call.name = "none" => call = Calls!NoCall
  /\ call.name = "recv" => call.at \in {"tick", "retry", "look", "wait", "fetch"}
  /\ call.name = "send" => call.at \in {"put", "wait"}
  /\ call.name \in {"poll_in", "poll_out"} => call.at \in {"retry", "wait", "check"}
  /\ call.held # N => call.name = "recv" /\ call.at = "tick"

CallTypes ==
  /\ in_pipe \in [end : Calls!End, held : Seq(Calls!Message)] /\ Len(in_pipe.held) <= MaxHeld
  /\ out_pipe \in [end : Calls!End, room : 0..Room]
  /\ written \in Calls!Message /\ returned \in Calls!Message
  /\ commands \subseteq {"stop", "activate_reader", "activate_writer"}
  /\ told_to_stop \in BOOLEAN /\ stopped \in BOOLEAN /\ ticks \in 0..inbound_poll_rate + 1
  /\ call \in [name : {"none", "recv", "send", "poll_in", "poll_out"},
               at : {"none", "tick", "retry", "look", "wait", "fetch", "put", "check"},
               block : BOOLEAN, held : Calls!Message \union {N}]

\* A message is lost for each signal at the most.
CallSignals == signals_left \in Nat /\ lost \in Nat /\ signals_left + lost <= MaxSignals

\* The messages between the last that was written and the last that was returned or
\* lost.
Numbered(a, b, f) == b = (a + Len(f)) % N /\ \A k \in 1..Len(f) : f[k] = (a + k) % N
Between == Numbered((returned + lost) % N, written, Calls!InFlight)

CallsInv ==
  /\ CallTypes /\ CallPlaces /\ CallSignals /\ Calls!NoSleepOverWork /\ Calls!WaitsOnlyAsleep
  /\ ~stopped => Between

LEMMA CallFacts ==
  /\ inbound_poll_rate \in Nat \ {0} /\ MaxHeld \in Nat /\ Room \in Nat /\ MaxSignals \in Nat
  /\ N = MaxHeld + MaxSignals + 2 /\ N \in Nat \ {0}
BY PartsAssumption DEF PartsAssumption, Calls!SocketCallsAssumption, N, Calls!NoMessage

LEMMA NumberItself == \A x \in 0..N - 1 : (x + 0) % N = x
BY CallFacts

LEMMA Wrapped ==
  \A x, y \in 0..N : x + y < 2 * N => (x + y) % N = IF x + y < N THEN x + y ELSE x + y - N
<1> SUFFICES ASSUME NEW x \in 0..N, NEW y \in 0..N, x + y < 2 * N
             PROVE  (x + y) % N = IF x + y < N THEN x + y ELSE x + y - N
  OBVIOUS
<1> DEFINE z == x + y
<1>1. N \in Nat \ {0} /\ z \in 0..2 * N - 1
  BY CallFacts
<1> HIDE DEF z
<1>2. z < N => z % N = z
  BY <1>1
<1>3. z >= N => z % N = z - N
  <2> DEFINE u == z - N
  <2> SUFFICES ASSUME z >= N PROVE z % N = u
    OBVIOUS
  <2>1. u \in 0..N - 1 /\ z = u + N
    BY <1>1
  <2> HIDE DEF u
  <2>2. (u + N) % N = u
    BY <1>1, <2>1
  <2> QED BY <2>1, <2>2
<1> QED BY <1>1, <1>2, <1>3 DEF z

\* The number of the last message that was returned or lost, and the next.
LEMMA LastGone ==
  ASSUME NEW a \in 0..N - 1, NEW x \in 0..MaxSignals
  PROVE  /\ (a + x) % N \in 0..N - 1 /\ (a + x) % N = IF a + x < N THEN a + x ELSE a + x - N
         /\ (a + (x + 1)) % N = (((a + x) % N) + 1) % N /\ (a + 0) % N = a
<1>1. /\ a \in 0..N /\ x \in 0..N /\ x + 1 \in 0..N /\ 1 \in 0..N /\ 0 \in 0..N
      /\ a + x < 2 * N /\ a + (x + 1) < 2 * N /\ a + 0 < 2 * N
  BY CallFacts
<1> DEFINE m == (a + x) % N
<1>2. m = IF a + x < N THEN a + x ELSE a + x - N
  BY <1>1, Wrapped
<1>3. m \in 0..N - 1 /\ m \in 0..N /\ m + 1 < 2 * N
  BY <1>1, <1>2, CallFacts
<1>4. (a + (x + 1)) % N = IF a + (x + 1) < N THEN a + (x + 1) ELSE a + (x + 1) - N
  BY <1>1, Wrapped
<1> HIDE DEF m
<1>5. (m + 1) % N = IF m + 1 < N THEN m + 1 ELSE m + 1 - N
  BY <1>1, <1>3, Wrapped
<1>6. (a + 0) % N = a
  BY CallFacts
<1>7. (a + (x + 1)) % N = (m + 1) % N
  BY <1>1, <1>2, <1>3, <1>4, <1>5, CallFacts
<1> QED BY <1>2, <1>3, <1>6, <1>7 DEF m

LEMMA GoneIs ==
  ASSUME CallsInv
  PROVE  /\ returned \in 0..N - 1 /\ written \in 0..N - 1 /\ Calls!Message = 0..N - 1 /\ lost \in 0..MaxSignals
         /\ (returned + lost) % N \in 0..N - 1 /\ (returned + (lost + 1)) % N = (((returned + lost) % N) + 1) % N
<1>1. Calls!Message = 0..N - 1
  BY CallFacts DEF Calls!Message
<1>2. returned \in 0..N - 1 /\ written \in 0..N - 1 /\ lost \in 0..MaxSignals
  BY <1>1, CallFacts DEF CallsInv, CallTypes, CallSignals
<1> QED BY <1>1, <1>2, LastGone

LEMMA InFlightIs ==
  ASSUME CallsInv
  PROVE  /\ Calls!InFlight \in Seq(Calls!Message) /\ Len(Calls!InFlight) \in Nat
         /\ call.held = N => Calls!InFlight = in_pipe.held /\ Len(Calls!InFlight) <= MaxHeld
         /\ call.held # N => /\ Calls!InFlight = <<call.held>> \o in_pipe.held /\ Len(Calls!InFlight) <= MaxHeld + 1
                             /\ Len(Calls!InFlight) = Len(in_pipe.held) + 1
<1>1. in_pipe.held \in Seq(Calls!Message) /\ Len(in_pipe.held) \in 0..MaxHeld /\ call.held \in Calls!Message \union {N}
  BY CallFacts DEF CallsInv, CallTypes
<1>2. CASE call.held = N
  <2>1. Calls!InFlight = <<>> \o in_pipe.held
    BY <1>2 DEF Calls!InFlight, N
  <2>2. <<>> \o in_pipe.held = in_pipe.held
    BY <1>1
  <2> QED BY <1>1, <1>2, <2>1, <2>2, CallFacts
<1>3. CASE call.held # N
  <2>1. Calls!InFlight = <<call.held>> \o in_pipe.held
    BY <1>3 DEF Calls!InFlight, N
  <2>2. call.held \in Calls!Message
    BY <1>1, <1>3
  <2>3. <<call.held>> \in Seq(Calls!Message) /\ Len(<<call.held>>) = 1
    BY <2>2
  <2>4. <<call.held>> \o in_pipe.held \in Seq(Calls!Message) /\ Len(<<call.held>> \o in_pipe.held) = 1 + Len(in_pipe.held)
    BY <1>1, <2>3
  <2> QED BY <1>1, <1>3, <2>1, <2>4, CallFacts
<1> QED BY <1>2, <1>3

LEMMA CallsAreSound == ASSUME CallsInv PROVE Calls!CallsSound
<1>1. Calls!TypeOK
  <2>1. {signals_left, lost} \subseteq 0..MaxSignals
    BY CallFacts DEF CallsInv, CallSignals
  <2> QED BY <2>1 DEF CallsInv, CallTypes, Calls!TypeOK, N
<1>2. Calls!NoneLost
  <2> SUFFICES ASSUME ~stopped
               PROVE  Calls!InFlight = [k \in 1..(written - returned - lost) % N |-> (returned + lost + k) % N]
    BY DEF Calls!NoneLost, N, CallsInv, CallSignals
  <2> DEFINE f == Calls!InFlight
             n == Len(f)
             m == (returned + lost) % N
  <2>1. f \in Seq(Calls!Message) /\ n \in 0..MaxHeld + 1
    BY InFlightIs, CallFacts
  <2>2. written = (m + n) % N /\ \A k \in 1..n : f[k] = (m + k) % N
    BY DEF CallsInv, Between, Numbered
  <2>3. returned \in 0..N - 1 /\ written \in 0..N - 1 /\ lost \in 0..MaxSignals /\ m \in 0..N - 1
    BY GoneIs
  <2>4. f = [k \in 1..n |-> f[k]]
    BY <2>1
  <2>5. m = returned + lost \/ m = returned + lost - N
    BY <2>3, LastGone
  <2> HIDE DEF f, n, m
  <2>6. (written - returned - lost) % N = n
    <3>1. n \in 0..N - 1 /\ n \in 0..N /\ m \in 0..N /\ m + n < 2 * N
      BY <2>1, <2>3, CallFacts
    <3>2. (m + n) % N = IF m + n < N THEN m + n ELSE m + n - N
      BY <3>1, Wrapped
    <3> DEFINE d == written - returned - lost
    <3>3. d = n \/ d = n - N \/ d = n - N - N
      BY <2>2, <2>3, <2>5, <3>1, <3>2, CallFacts
    <3>4. n % N = n /\ (n - N) % N = n /\ (n - N - N) % N = n
      BY <3>1, CallFacts
    <3> HIDE DEF d
    <3>5. d % N = n
      BY <3>3, <3>4
    <3> QED BY <3>5 DEF d
  <2>7. ASSUME NEW k \in 1..n PROVE (m + k) % N = (returned + lost + k) % N
    <3>1. k \in 0..N /\ m \in 0..N /\ m + k \in Nat
      BY <2>1, <2>3, CallFacts
    <3> DEFINE d == m + k
    <3>2. returned + lost + k = d \/ returned + lost + k = d + N
      BY <2>3, <2>5, <3>1, CallFacts
    <3>3. d \in 0..2 * N - 1
      BY <2>1, <3>1, CallFacts
    <3> HIDE DEF d
    <3>4. (d + N) % N = d % N
      <4>1. CASE d < N
        <5>1. d \in 0..N - 1
          BY <3>3, <4>1, CallFacts
        <5>2. d % N = d /\ (d + N) % N = d
          BY <5>1, CallFacts
        <5> QED BY <5>2
      <4>2. CASE d >= N
        <5> DEFINE rest == d - N
        <5>1. rest \in 0..N - 1 /\ d = rest + N /\ d + N = rest + N + N
          BY <3>3, <4>2, CallFacts
        <5> HIDE DEF rest
        <5>2. (rest + N) % N = rest /\ (rest + N + N) % N = rest
          BY <5>1, CallFacts
        <5> QED BY <5>1, <5>2
      <4> QED BY <3>3, <4>1, <4>2, CallFacts
    <3> QED BY <3>2, <3>4 DEF d
  <2>8. [k \in 1..n |-> f[k]] = [k \in 1..n |-> (returned + lost + k) % N]
    BY <2>2, <2>7
  <2> QED BY <2>4, <2>6, <2>8 DEF f
<1> QED BY <1>1, <1>2 DEF CallsInv, Calls!CallsSound

LEMMA CallsStart == ASSUME Calls!Init PROVE CallsInv
<1>1. CallTypes
  <2>1. in_pipe \in [end : Calls!End, held : Seq(Calls!Message)] /\ Len(in_pipe.held) = 0
    BY DEF Calls!Init, Calls!End
  <2>2. out_pipe \in [end : Calls!End, room : 0..Room]
    BY CallFacts DEF Calls!Init, Calls!End
  <2>3. written \in Calls!Message /\ returned \in Calls!Message /\ ticks \in 0..inbound_poll_rate + 1
    BY CallFacts DEF Calls!Init, Calls!Message
  <2>4. /\ call = [name |-> "none", at |-> "none", block |-> FALSE, held |-> N]
        /\ commands = {} /\ told_to_stop = FALSE /\ stopped = FALSE
    BY DEF Calls!Init, Calls!NoCall, N
  <2>5. call \in [name : {"none", "recv", "send", "poll_in", "poll_out"},
                  at : {"none", "tick", "retry", "look", "wait", "fetch", "put", "check"},
                  block : BOOLEAN, held : Calls!Message \union {N}]
    BY <2>4
  <2>6. commands \subseteq {"stop", "activate_reader", "activate_writer"} /\ told_to_stop \in BOOLEAN /\ stopped \in BOOLEAN
    BY <2>4
  <2>7. Len(in_pipe.held) <= MaxHeld
    BY <2>1, CallFacts
  <2> QED BY <2>1, <2>2, <2>3, <2>5, <2>6, <2>7 DEF CallTypes
<1>2. CallPlaces /\ Calls!NoSleepOverWork /\ Calls!WaitsOnlyAsleep
  BY CallFacts DEF Calls!Init, CallPlaces, Calls!NoSleepOverWork, Calls!WaitsOnlyAsleep, Calls!NoCall, N
<1>3. Between
  <2>1. Calls!InFlight = <<>> /\ written = 0 /\ returned = 0 /\ lost = 0
    BY DEF Calls!Init, Calls!InFlight, Calls!NoCall
  <2>2. 0 % N = 0 /\ 0 + 0 = 0
    BY CallFacts
  <2> QED BY <2>1, <2>2 DEF Between, Numbered
<1>4. CallSignals
  BY CallFacts DEF Calls!Init, CallSignals
<1> QED BY <1>1, <1>2, <1>3, <1>4 DEF CallsInv

\* One more message is written, or the first of them returned.
LEMMA NumberedMore ==
  ASSUME NEW a \in 0..N - 1, NEW b \in 0..N - 1, NEW f \in Seq(Calls!Message), Len(f) <= MaxHeld, Numbered(a, b, f)
  PROVE  Numbered(a, Calls!After(b), Append(f, Calls!After(b)))
<1> DEFINE n == Len(f)
           c == Calls!After(b)
<1>1. n \in 0..N - 2 /\ b = (a + n) % N /\ c = (b + 1) % N
  BY CallFacts DEF Numbered, Calls!After, N
<1>2. \A k \in 1..n : f[k] = (a + k) % N
  BY DEF Numbered
<1>3. Len(Append(f, c)) = n + 1 /\ Append(f, c)[n + 1] = c /\ \A k \in 1..n : Append(f, c)[k] = f[k]
  OBVIOUS
<1> HIDE DEF n, c
<1>4. c = (a + (n + 1)) % N
  <2>1. /\ a \in 0..N /\ n \in 0..N /\ b \in 0..N /\ 1 \in 0..N /\ n + 1 \in 0..N
        /\ a + n < 2 * N /\ b + 1 < 2 * N /\ a + (n + 1) < 2 * N
    BY <1>1, CallFacts
  <2>2. (a + n) % N = IF a + n < N THEN a + n ELSE a + n - N
    BY <2>1, Wrapped
  <2>3. (a + (n + 1)) % N = IF a + (n + 1) < N THEN a + (n + 1) ELSE a + (n + 1) - N
    BY <2>1, Wrapped
  <2>4. (b + 1) % N = IF b + 1 < N THEN b + 1 ELSE b + 1 - N
    BY <2>1, Wrapped
  <2>5. b = IF a + n < N THEN a + n ELSE a + n - N
    BY <1>1, <2>2
  <2>6. c = IF b + 1 < N THEN b + 1 ELSE b + 1 - N
    BY <1>1, <2>4
  <2> HIDE DEF c
  <2>7. c = IF a + (n + 1) < N THEN a + (n + 1) ELSE a + (n + 1) - N
    BY <1>1, <2>5, <2>6, CallFacts
  <2> QED BY <2>3, <2>7
<1>5. \A k \in 1..n + 1 : Append(f, c)[k] = (a + k) % N
  <2> SUFFICES ASSUME NEW k \in 1..n + 1 PROVE Append(f, c)[k] = (a + k) % N
    OBVIOUS
  <2>1. CASE k = n + 1
    <3> QED BY <1>3, <1>4, <2>1
  <2>2. CASE k # n + 1
    <3>1. k \in 1..n
      BY <1>1, <2>2
    <3> QED BY <1>2, <1>3, <3>1
  <2> QED BY <2>1, <2>2
<1> QED BY <1>3, <1>4, <1>5 DEF Numbered, c

LEMMA NumberedFewer ==
  ASSUME NEW a \in 0..N - 1, NEW b \in 0..N - 1, NEW f \in Seq(Calls!Message), f # <<>>, Len(f) <= MaxHeld + 1,
         Numbered(a, b, f)
  PROVE  Numbered(Head(f), b, Tail(f)) /\ Head(f) \in 0..N - 1
<1> DEFINE n == Len(f)
           h == Head(f)
<1>1. n \in 1..N - 1 /\ b = (a + n) % N /\ \A k \in 1..n : f[k] = (a + k) % N
  BY CallFacts DEF Numbered
<1>2. h = f[1] /\ Len(Tail(f)) = n - 1 /\ \A k \in 1..n - 1 : Tail(f)[k] = f[k + 1]
  BY <1>1
<1> HIDE DEF n, h
<1>3. h = (a + 1) % N /\ (a + 1) % N = IF a + 1 < N THEN a + 1 ELSE a + 1 - N
  <2>1. a \in 0..N /\ 1 \in 0..N /\ a + 1 < 2 * N
    BY CallFacts
  <2>2. (a + 1) % N = IF a + 1 < N THEN a + 1 ELSE a + 1 - N
    BY <2>1, Wrapped
  <2> QED BY <1>1, <1>2, <2>2
<1>4. ASSUME NEW k \in 0..n - 1 PROVE (h + k) % N = (a + (k + 1)) % N
  <2>1. /\ a \in 0..N /\ k + 1 \in 0..N /\ h \in 0..N - 1 /\ k \in 0..N /\ h \in 0..N
        /\ a + (k + 1) < 2 * N /\ h + k < 2 * N
    BY <1>1, <1>3, CallFacts
  <2>2. (a + (k + 1)) % N = IF a + (k + 1) < N THEN a + (k + 1) ELSE a + (k + 1) - N
    BY <2>1, Wrapped
  <2>3. (h + k) % N = IF h + k < N THEN h + k ELSE h + k - N
    BY <2>1, Wrapped
  <2>4. h = a + 1 \/ h = a + 1 - N
    BY <1>3, CallFacts
  <2>5. (IF a + (k + 1) < N THEN a + (k + 1) ELSE a + (k + 1) - N) = IF h + k < N THEN h + k ELSE h + k - N
    BY <2>1, <2>4, CallFacts
  <2> QED BY <2>2, <2>3, <2>5
<1>5. b = (h + (n - 1)) % N
  <2>1. n - 1 \in 0..n - 1 /\ a + (n - 1 + 1) = a + n
    BY <1>1
  <2> QED BY <1>1, <1>4, <2>1
<1>6. ASSUME NEW k \in 1..n - 1 PROVE Tail(f)[k] = (h + k) % N
  <2>1. k \in 0..n - 1 /\ k + 1 \in 1..n
    BY <1>1
  <2> QED BY <1>1, <1>2, <1>4, <2>1
<1>7. h \in 0..N - 1
  BY <1>3, CallFacts
<1>8. Len(Tail(f)) = n - 1 /\ b = (h + Len(Tail(f))) % N
  BY <1>2, <1>5
<1> QED BY <1>6, <1>7, <1>8 DEF Numbered, h

(***************************************************************************)
(* What the calls are made of.                                             *)
(***************************************************************************)
InDuty == in_pipe.end = "asleep" => in_pipe.held = <<>>
OutDuty == out_pipe.end = "asleep" => out_pipe.room = 0

\* A message is taken, or the reader put to sleep.
LEMMA XrecvDoes ==
  ASSUME CallsInv, Calls!Xrecv
  PROVE  /\ in_pipe' \in [end : Calls!End, held : Seq(Calls!Message)] /\ Len(in_pipe'.held) <= MaxHeld /\ InDuty'
         /\ in_pipe'.end = "signalled" => in_pipe.end = "signalled"
         /\ Calls!Readable => /\ in_pipe.held # <<>> /\ in_pipe'.held = Tail(in_pipe.held) /\ in_pipe'.end = in_pipe.end
                              /\ Head(in_pipe.held) \in Calls!Message
         /\ ~Calls!Readable => in_pipe'.held = in_pipe.held /\ in_pipe'.end # "awake"
<1>1. in_pipe \in [end : Calls!End, held : Seq(Calls!Message)] /\ Len(in_pipe.held) <= MaxHeld /\ InDuty
  BY DEF CallsInv, CallTypes, Calls!NoSleepOverWork, InDuty
<1>2. in_pipe.end \in {"awake", "asleep", "signalled"} /\ in_pipe.held \in Seq(Calls!Message)
  BY <1>1 DEF Calls!End
<1>3. CASE Calls!Readable
  <2>1. in_pipe.held # <<>> /\ in_pipe.end = "awake" /\ in_pipe' = [in_pipe EXCEPT !.held = Tail(in_pipe.held)]
    BY <1>3 DEF Calls!Xrecv, Calls!Readable
  <2>2. Tail(in_pipe.held) \in Seq(Calls!Message) /\ Len(Tail(in_pipe.held)) = Len(in_pipe.held) - 1
        /\ Head(in_pipe.held) \in Calls!Message
    BY <1>2, <2>1
  <2>3. in_pipe'.held = Tail(in_pipe.held) /\ in_pipe'.end = "awake"
    BY <1>1, <2>1
  <2>4. in_pipe' \in [end : Calls!End, held : Seq(Calls!Message)]
    BY <1>1, <2>1, <2>2
  <2>5. Len(in_pipe.held) \in Nat /\ Len(in_pipe'.held) <= MaxHeld
    BY <1>1, <1>2, <2>2, <2>3, CallFacts
  <2> QED BY <1>3, <2>1, <2>2, <2>3, <2>4, <2>5 DEF InDuty
<1>4. CASE ~Calls!Readable
  <2>1. in_pipe' = [in_pipe EXCEPT !.end = Calls!Asleep(in_pipe.end)]
    BY <1>4 DEF Calls!Xrecv
  <2>2. Calls!Asleep(in_pipe.end) \in {"asleep", "signalled"}
    BY <1>2 DEF Calls!Asleep
  <2>3. in_pipe'.held = in_pipe.held /\ in_pipe'.end = Calls!Asleep(in_pipe.end)
    BY <1>1, <2>1
  <2>4. in_pipe' \in [end : Calls!End, held : Seq(Calls!Message)]
    BY <1>1, <2>1, <2>2 DEF Calls!End
  <2>5. InDuty'
    BY <1>1, <1>2, <1>4, <2>3 DEF InDuty, Calls!Asleep, Calls!Readable
  <2>6. in_pipe'.end = "signalled" => in_pipe.end = "signalled"
    BY <1>2, <2>3 DEF Calls!Asleep
  <2> QED BY <1>1, <1>4, <2>2, <2>3, <2>4, <2>5, <2>6
<1> QED BY <1>3, <1>4

\* Commands are processed, unless a signal comes.
LEMMA CommandsDo ==
  ASSUME CallsInv, NEW ok \in BOOLEAN, NEW waits, Calls!ProcessCommands(ok, waits)
  PROVE  /\ in_pipe' \in [end : Calls!End, held : Seq(Calls!Message)] /\ in_pipe'.held = in_pipe.held
         /\ out_pipe' \in [end : Calls!End, room : 0..Room]
         /\ commands' \subseteq commands /\ stopped' \in BOOLEAN /\ (stopped => stopped')
         /\ signals_left' \in Nat /\ signals_left' <= signals_left
         /\ ~ok => stopped' \/ signals_left' + 1 = signals_left
         /\ Calls!NoSleepOverWork'
<1>1. /\ in_pipe \in [end : Calls!End, held : Seq(Calls!Message)] /\ out_pipe \in [end : Calls!End, room : 0..Room]
      /\ Calls!NoSleepOverWork /\ stopped \in BOOLEAN /\ signals_left \in Nat
  BY DEF CallsInv, CallTypes, CallSignals
<1>2. /\ signals_left' \in Nat /\ signals_left' <= signals_left
      /\ ~ok => stopped' \/ signals_left' + 1 = signals_left
  BY <1>1 DEF Calls!ProcessCommands
<1>3. CASE Calls!Process
  <2>1. /\ in_pipe' = IF "activate_reader" \in commands THEN [in_pipe EXCEPT !.end = "awake"] ELSE in_pipe
        /\ out_pipe' = IF "activate_writer" \in commands THEN [out_pipe EXCEPT !.end = "awake"] ELSE out_pipe
        /\ stopped' = (stopped \/ "stop" \in commands) /\ commands' = {}
    BY <1>3 DEF Calls!Process
  <2>2. /\ in_pipe' \in [end : Calls!End, held : Seq(Calls!Message)] /\ in_pipe'.held = in_pipe.held
        /\ in_pipe'.end = IF "activate_reader" \in commands THEN "awake" ELSE in_pipe.end
    BY <1>1, <2>1 DEF Calls!End
  <2>3. /\ out_pipe' \in [end : Calls!End, room : 0..Room] /\ out_pipe'.room = out_pipe.room
        /\ out_pipe'.end = IF "activate_writer" \in commands THEN "awake" ELSE out_pipe.end
    BY <1>1, <2>1 DEF Calls!End
  <2>4. Calls!NoSleepOverWork'
    BY <1>1, <2>2, <2>3 DEF Calls!NoSleepOverWork
  <2> QED BY <1>1, <1>2, <2>1, <2>2, <2>3, <2>4
<1>4. CASE UNCHANGED <<in_pipe, out_pipe, stopped, commands>>
  BY <1>1, <1>2, <1>4 DEF Calls!NoSleepOverWork
<1> QED BY <1>3, <1>4 DEF Calls!ProcessCommands

LEMMA SignalsKept ==
  ASSUME CallsInv, signals_left' \in Nat, signals_left' <= signals_left, lost' = lost \/ lost' = 0
  PROVE  CallSignals'
BY CallFacts DEF CallsInv, CallSignals

LEMMA OneOfEach ==
  ASSUME NEW before \in Nat, NEW left \in Nat, NEW gone \in Nat, NEW most \in Nat, left + 1 = before, before + gone <= most
  PROVE  gone + 1 \in Nat /\ left + (gone + 1) <= most
OBVIOUS

LEMMA SignalSpent ==
  ASSUME CallsInv, signals_left' \in Nat, signals_left' + 1 = signals_left, lost' = lost + 1
  PROVE  CallSignals'
<1>1. signals_left \in Nat /\ lost \in Nat /\ signals_left + lost <= MaxSignals /\ MaxSignals \in Nat
  BY CallFacts DEF CallsInv, CallSignals
<1>2. lost + 1 \in Nat /\ signals_left' + (lost + 1) <= MaxSignals
  BY <1>1, OneOfEach
<1> QED BY <1>2 DEF CallSignals

LEMMA SignalsUnmoved == ASSUME CallsInv, UNCHANGED <<signals_left, lost>> PROVE CallSignals'
BY DEF CallsInv, CallSignals

LEMMA BetweenKept ==
  ASSUME CallsInv, ~stopped, in_pipe'.held = in_pipe.held, call'.held = call.held, UNCHANGED <<written, returned, lost>>
  PROVE  Between'
<1>1. Calls!InFlight' = Calls!InFlight
  BY DEF Calls!InFlight
<1> QED BY <1>1 DEF Between, CallsInv

\* The message that has been returned was the first of those in flight.
LEMMA BetweenReturned ==
  ASSUME CallsInv, ~stopped, Calls!InFlight # <<>>, returned' = Head(Calls!InFlight), lost' = 0, written' = written,
         Calls!InFlight' = Tail(Calls!InFlight)
  PROVE  Between' /\ returned' \in Calls!Message
<1>1. (returned + lost) % N \in 0..N - 1 /\ written \in 0..N - 1 /\ Calls!Message = 0..N - 1
  BY GoneIs
<1>2. Calls!InFlight \in Seq(Calls!Message) /\ Len(Calls!InFlight) <= MaxHeld + 1
  BY InFlightIs, CallFacts
<1>3. Numbered((returned + lost) % N, written, Calls!InFlight)
  BY DEF CallsInv, Between
<1>4. Numbered(Head(Calls!InFlight), written, Tail(Calls!InFlight)) /\ Head(Calls!InFlight) \in 0..N - 1
  BY <1>1, <1>2, <1>3, NumberedFewer
<1>5. (returned' + lost') % N = returned'
  <2>1. returned' \in 0..N - 1
    BY <1>4
  <2>2. (returned' + 0) % N = returned'
    BY <2>1, NumberItself
  <2> QED BY <2>2
<1> QED BY <1>1, <1>4, <1>5 DEF Between

\* The first of those in flight is lost.
LEMMA BetweenLost ==
  ASSUME CallsInv, ~stopped, Calls!InFlight # <<>>, returned' = returned, lost' = lost + 1, written' = written,
         Calls!InFlight' = Tail(Calls!InFlight)
  PROVE  Between'
<1> DEFINE f == Calls!InFlight
           m == (returned + lost) % N
<1>1. m \in 0..N - 1 /\ written \in 0..N - 1 /\ Calls!Message = 0..N - 1 /\ (returned + (lost + 1)) % N = (m + 1) % N
  BY GoneIs
<1>2. f \in Seq(Calls!Message) /\ Len(f) <= MaxHeld + 1
  BY InFlightIs, CallFacts
<1>3. Numbered(m, written, f)
  BY DEF CallsInv, Between
<1> HIDE DEF m, f
<1>4. f # <<>>
  BY DEF f
<1>5. Numbered(Head(f), written, Tail(f))
  BY <1>1, <1>2, <1>3, <1>4, NumberedFewer
<1>6. Head(f) = (m + 1) % N
  BY <1>2, <1>3, <1>4 DEF Numbered
<1> QED BY <1>1, <1>5, <1>6 DEF Between, f

(***************************************************************************)
(* The steps.                                                              *)
(***************************************************************************)
LEMMA PeerWritesStep == ASSUME CallsInv, Calls!PeerWrites PROVE CallsInv'
<1>1. /\ in_pipe \in [end : Calls!End, held : Seq(Calls!Message)] /\ Len(in_pipe.held) < MaxHeld
      /\ written' = Calls!After(written)
      /\ in_pipe' = [end |-> Calls!Signalled(in_pipe.end), held |-> Append(in_pipe.held, written')]
      /\ commands' = IF in_pipe.end = "asleep" THEN commands \union {"activate_reader"} ELSE commands
      /\ UNCHANGED <<out_pipe, returned, told_to_stop, stopped, ticks, call, signals_left, lost>>
  BY DEF CallsInv, CallTypes, Calls!PeerWrites
<1>2. written' \in Calls!Message
  <2>1. written \in 0..N - 1 /\ Calls!Message = 0..N - 1
    BY GoneIs
  <2>2. (written + 1) % N \in 0..N - 1
    BY <2>1, CallFacts
  <2> QED BY <1>1, <2>1, <2>2 DEF Calls!After, N
<1>3. /\ in_pipe' \in [end : Calls!End, held : Seq(Calls!Message)] /\ Len(in_pipe'.held) <= MaxHeld
      /\ in_pipe'.held = Append(in_pipe.held, written') /\ in_pipe'.end = Calls!Signalled(in_pipe.end)
  <2>1. in_pipe.held \in Seq(Calls!Message) /\ in_pipe.end \in Calls!End
    BY <1>1
  <2>2. Append(in_pipe.held, written') \in Seq(Calls!Message) /\ Len(Append(in_pipe.held, written')) = Len(in_pipe.held) + 1
    BY <1>2, <2>1
  <2>3. Calls!Signalled(in_pipe.end) \in Calls!End
    BY <2>1 DEF Calls!Signalled, Calls!End
  <2>4. Len(in_pipe.held) \in Nat
    BY <2>1
  <2> QED BY <1>1, <2>2, <2>3, <2>4, CallFacts
<1>4. CallTypes' /\ CallPlaces'
  <2>1. commands' \subseteq {"stop", "activate_reader", "activate_writer"}
    BY <1>1 DEF CallsInv, CallTypes
  <2> QED BY <1>1, <1>2, <1>3, <2>1 DEF CallsInv, CallTypes, CallPlaces
<1>5. Calls!NoSleepOverWork' /\ Calls!WaitsOnlyAsleep'
  <2>1. in_pipe.end \in {"awake", "asleep", "signalled"}
    BY <1>1 DEF Calls!End
  <2> QED BY <1>1, <1>3, <2>1 DEF CallsInv, Calls!NoSleepOverWork, Calls!WaitsOnlyAsleep, Calls!Signalled
<1>6. ASSUME ~stopped PROVE Between'
  <2>1. (returned + lost) % N \in 0..N - 1 /\ written \in 0..N - 1
    BY GoneIs
  <2>2. in_pipe.held \in Seq(Calls!Message) /\ Len(in_pipe.held) \in Nat /\ call.held \in Calls!Message \union {N}
    BY <1>1 DEF CallsInv, CallTypes
  <2>3. Calls!InFlight' = Append(Calls!InFlight, written')
    <3>1. CASE call.held = N
      <4>1. Calls!InFlight = in_pipe.held
        BY <3>1, InFlightIs
      <4>2. Calls!InFlight' = <<>> \o Append(in_pipe.held, written')
        BY <1>1, <1>3, <3>1 DEF Calls!InFlight, N
      <4>3. Append(in_pipe.held, written') \in Seq(Calls!Message)
        BY <1>2, <2>2
      <4> QED BY <4>1, <4>2, <4>3
    <3>2. CASE call.held # N
      <4>1. Calls!InFlight = <<call.held>> \o in_pipe.held
        BY <3>2, InFlightIs
      <4>2. Calls!InFlight' = <<call.held>> \o Append(in_pipe.held, written')
        BY <1>1, <1>3, <3>2 DEF Calls!InFlight, N
      <4>3. <<call.held>> \o Append(in_pipe.held, written') = Append(<<call.held>> \o in_pipe.held, written')
        BY <1>2, <2>2, <3>2
      <4> QED BY <4>1, <4>2, <4>3
    <3> QED BY <3>1, <3>2
  <2>4. Calls!InFlight \in Seq(Calls!Message) /\ Len(Calls!InFlight) <= MaxHeld
    <3>1. Len(in_pipe.held) + 1 <= MaxHeld
      BY <1>1, <2>2, CallFacts
    <3> QED BY <3>1, InFlightIs, CallFacts
  <2>5. Numbered((returned + lost) % N, written, Calls!InFlight)
    BY <1>6 DEF CallsInv, Between
  <2>6. Numbered((returned + lost) % N, Calls!After(written), Append(Calls!InFlight, Calls!After(written)))
    BY <2>1, <2>4, <2>5, NumberedMore
  <2> QED BY <1>1, <2>3, <2>6 DEF Between
<1>7. CallSignals'
  BY <1>1, SignalsUnmoved
<1> QED BY <1>1, <1>4, <1>5, <1>6, <1>7 DEF CallsInv

LEMMA PeerReadsStep == ASSUME CallsInv, Calls!PeerReads PROVE CallsInv'
<1>1. /\ out_pipe \in [end : Calls!End, room : 0..Room] /\ out_pipe.room < Room
      /\ out_pipe' = [end |-> Calls!Signalled(out_pipe.end), room |-> out_pipe.room + 1]
      /\ commands' = IF out_pipe.end = "asleep" THEN commands \union {"activate_writer"} ELSE commands
      /\ UNCHANGED <<in_pipe, written, returned, told_to_stop, stopped, ticks, call, signals_left, lost>>
  BY DEF CallsInv, CallTypes, Calls!PeerReads
<1>2. out_pipe.end \in {"awake", "asleep", "signalled"} /\ out_pipe.room \in 0..Room
  BY <1>1 DEF Calls!End
<1>3. Calls!Signalled(out_pipe.end) \in Calls!End /\ out_pipe.room + 1 \in 0..Room
  BY <1>1, <1>2, CallFacts DEF Calls!Signalled, Calls!End
<1>4. out_pipe' \in [end : Calls!End, room : 0..Room] /\ out_pipe'.end = Calls!Signalled(out_pipe.end)
  BY <1>1, <1>3
<1>5. commands' \subseteq {"stop", "activate_reader", "activate_writer"}
  BY <1>1 DEF CallsInv, CallTypes
<1>6. CallTypes' /\ CallPlaces'
  BY <1>1, <1>4, <1>5 DEF CallsInv, CallTypes, CallPlaces
<1>7. Calls!NoSleepOverWork' /\ Calls!WaitsOnlyAsleep'
  BY <1>1, <1>2, <1>4 DEF CallsInv, Calls!NoSleepOverWork, Calls!WaitsOnlyAsleep, Calls!Signalled
<1>8. ~stopped => Between'
  BY <1>1, BetweenKept
<1>9. CallSignals'
  BY <1>1, SignalsUnmoved
<1> QED BY <1>1, <1>6, <1>7, <1>8, <1>9 DEF CallsInv

LEMMA StopStep == ASSUME CallsInv, Calls!Stop PROVE CallsInv'
<1>1. /\ told_to_stop' = TRUE /\ commands' = commands \union {"stop"}
      /\ UNCHANGED <<in_pipe, out_pipe, written, returned, stopped, ticks, call, signals_left, lost>>
  BY DEF Calls!Stop
<1>2. CallTypes' /\ CallPlaces'
  BY <1>1 DEF CallsInv, CallTypes, CallPlaces
<1>3. Calls!NoSleepOverWork' /\ Calls!WaitsOnlyAsleep'
  BY <1>1 DEF CallsInv, Calls!NoSleepOverWork, Calls!WaitsOnlyAsleep
<1>4. ~stopped => Between'
  BY <1>1, BetweenKept
<1>5. CallSignals'
  BY <1>1, SignalsUnmoved
<1> QED BY <1>1, <1>2, <1>3, <1>4, <1>5 DEF CallsInv

\* Where a call goes on, or that it returns.
CallType ==
  [name : {"none", "recv", "send", "poll_in", "poll_out"},
   at : {"none", "tick", "retry", "look", "wait", "fetch", "put", "check"},
   block : BOOLEAN, held : Calls!Message \union {N}]

LEMMA GoesTo ==
  ASSUME CallsInv, NEW place \in {"retry", "look", "wait", "fetch", "put", "check"}, Calls!Goes(place)
  PROVE  call' \in CallType /\ call'.name = call.name /\ call'.at = place /\ call'.held = call.held
BY DEF CallsInv, CallTypes, CallType, Calls!Goes

LEMMA Returns ==
  ASSUME CallsInv, Calls!Return
  PROVE  call' \in CallType /\ call' = Calls!NoCall /\ call'.at = "none" /\ call'.held = N /\ call'.name = "none"
BY DEF Calls!Return, Calls!NoCall, CallType, N

LEMMA RecvStartStep == ASSUME CallsInv, NEW block \in BOOLEAN, Calls!RecvStart(block) PROVE CallsInv'
<1> DEFINE message == IF Calls!Readable THEN Head(in_pipe.held) ELSE Calls!NoMessage
<1>1. /\ call = Calls!NoCall /\ ~stopped /\ Calls!Xrecv /\ ticks' = (IF ticks > inbound_poll_rate THEN ticks ELSE ticks + 1)
      /\ UNCHANGED <<out_pipe, written, commands, told_to_stop, stopped, signals_left>>
      /\ \/ /\ ticks' = inbound_poll_rate
            /\ call' = [name |-> "recv", at |-> "tick", block |-> block, held |-> message] /\ UNCHANGED <<returned, lost>>
         \/ ticks' # inbound_poll_rate /\ Calls!Readable /\ Calls!Return /\ returned' = message /\ lost' = 0
         \/ ticks' # inbound_poll_rate /\ ~Calls!Readable /\ Calls!Onwards(block, FALSE) /\ UNCHANGED <<returned, lost>>
  <2>1. Calls!Readable => message # Calls!NoMessage
    <3>1. in_pipe.held \in Seq(Calls!Message)
      BY DEF CallsInv, CallTypes
    <3>2. Calls!Readable => Head(in_pipe.held) \in Calls!Message
      BY <3>1 DEF Calls!Readable
    <3>3. Calls!Readable => Head(in_pipe.held) \in 0..N - 1
      BY <3>2, GoneIs
    <3> QED BY <3>3, CallFacts DEF N
  <2>2. ~Calls!Readable => message = Calls!NoMessage
    OBVIOUS
  <2> QED BY <2>1, <2>2 DEF Calls!RecvStart, Calls!Returned, Calls!NoneReturned
<1>2. /\ in_pipe' \in [end : Calls!End, held : Seq(Calls!Message)] /\ Len(in_pipe'.held) <= MaxHeld /\ InDuty'
      /\ in_pipe'.end = "signalled" => in_pipe.end = "signalled"
      /\ Calls!Readable => /\ in_pipe.held # <<>> /\ in_pipe'.held = Tail(in_pipe.held) /\ in_pipe'.end = in_pipe.end
                           /\ Head(in_pipe.held) \in Calls!Message
      /\ ~Calls!Readable => in_pipe'.held = in_pipe.held /\ in_pipe'.end # "awake"
  BY <1>1, XrecvDoes
<1>3. call.held = N /\ call.at = "none" /\ Calls!InFlight = in_pipe.held /\ in_pipe.held \in Seq(Calls!Message)
  <2>1. call.held = N /\ call.at = "none"
    BY <1>1 DEF Calls!NoCall, N
  <2> QED BY <2>1, InFlightIs
<1>4. ticks' \in 0..inbound_poll_rate + 1
  <2>1. ticks \in 0..inbound_poll_rate + 1
    BY DEF CallsInv, CallTypes
  <2> QED BY <1>1, <2>1, CallFacts
<1>5. message \in Calls!Message \union {N}
  BY <1>2 DEF N
<1>6. Calls!NoSleepOverWork'
  BY <1>1, <1>2 DEF CallsInv, Calls!NoSleepOverWork, InDuty
<1> HIDE DEF message
<1>7. CASE ticks' = inbound_poll_rate
  <2>1. call' = [name |-> "recv", at |-> "tick", block |-> block, held |-> message] /\ UNCHANGED <<returned, lost>>
    BY <1>1, <1>7
  <2>2. call' \in CallType /\ call'.name = "recv" /\ call'.at = "tick" /\ call'.held = message
    BY <1>5, <2>1 DEF CallType
  <2>3. CallTypes' /\ CallPlaces'
    BY <1>1, <1>2, <1>4, <1>7, <2>1, <2>2 DEF CallsInv, CallTypes, CallPlaces, CallType
  <2>4. Calls!WaitsOnlyAsleep'
    BY <2>2 DEF Calls!WaitsOnlyAsleep
  <2>5. Calls!InFlight' = Calls!InFlight
    <3>1. CASE Calls!Readable
      <4>1. message = Head(in_pipe.held) /\ message # N /\ in_pipe'.held = Tail(in_pipe.held)
        <5>1. Head(in_pipe.held) \in 0..N - 1
          BY <1>2, <3>1, GoneIs
        <5> QED BY <1>2, <3>1, <5>1, CallFacts DEF message
      <4>2. Calls!InFlight' = <<Head(in_pipe.held)>> \o Tail(in_pipe.held)
        BY <2>2, <4>1 DEF Calls!InFlight, N
      <4>3. <<Head(in_pipe.held)>> \o Tail(in_pipe.held) = in_pipe.held
        BY <1>2, <1>3, <3>1
      <4> QED BY <1>3, <4>2, <4>3
    <3>2. CASE ~Calls!Readable
      <4>1. message = N /\ in_pipe'.held = in_pipe.held
        BY <1>2, <3>2 DEF message, N
      <4>2. Calls!InFlight' = <<>> \o in_pipe.held
        BY <2>2, <4>1 DEF Calls!InFlight, N
      <4> QED BY <1>3, <4>2
    <3> QED BY <3>1, <3>2
  <2>6. Between'
    BY <1>1, <2>1, <2>5 DEF CallsInv, Between
  <2>7. CallSignals'
    BY <1>1, <2>1, SignalsUnmoved
  <2> QED BY <1>6, <2>3, <2>4, <2>6, <2>7 DEF CallsInv
<1>8. CASE ticks' # inbound_poll_rate /\ Calls!Readable
  <2>1. Calls!Return /\ returned' = Head(in_pipe.held) /\ lost' = 0
    BY <1>1, <1>8 DEF message
  <2>2. call' \in CallType /\ call' = Calls!NoCall /\ call'.at = "none" /\ call'.held = N /\ call'.name = "none"
    BY <2>1, Returns
  <2>3. CallTypes' /\ CallPlaces'
    <3>1. returned' \in Calls!Message
      BY <1>2, <1>8, <2>1
    <3> QED BY <1>1, <1>2, <1>4, <1>8, <2>2, <3>1 DEF CallsInv, CallTypes, CallPlaces, CallType
  <2>4. Calls!WaitsOnlyAsleep'
    BY <2>2 DEF Calls!WaitsOnlyAsleep
  <2>5. Calls!InFlight' = Tail(in_pipe.held)
    <3>1. Calls!InFlight' = <<>> \o Tail(in_pipe.held)
      BY <1>2, <1>8, <2>2 DEF Calls!InFlight, N
    <3>2. Tail(in_pipe.held) \in Seq(Calls!Message)
      BY <1>2, <1>3, <1>8
    <3> QED BY <3>1, <3>2
  <2>6. Between'
    BY <1>1, <1>2, <1>3, <1>8, <2>1, <2>5, BetweenReturned
  <2>7. CallSignals'
    BY <1>1, <2>1, CallFacts DEF CallsInv, CallSignals
  <2> QED BY <1>6, <2>3, <2>4, <2>6, <2>7 DEF CallsInv
<1>9. CASE ticks' # inbound_poll_rate /\ ~Calls!Readable
  <2>1. Calls!Onwards(block, FALSE) /\ UNCHANGED <<returned, lost>>
    BY <1>1, <1>9
  <2>2. call' \in CallType /\ call'.name = "recv" /\ call'.at \in {"retry", "wait"} /\ call'.held = N
    BY <2>1 DEF Calls!Onwards, CallType, N
  <2>3. CallTypes' /\ CallPlaces'
    BY <1>1, <1>2, <1>4, <1>9, <2>1, <2>2 DEF CallsInv, CallTypes, CallPlaces, CallType
  <2>4. Calls!WaitsOnlyAsleep'
    BY <1>2, <1>9, <2>2 DEF Calls!WaitsOnlyAsleep
  <2>5. Between'
    BY <1>1, <1>2, <1>3, <1>9, <2>1, <2>2, BetweenKept
  <2>6. CallSignals'
    BY <1>1, <2>1, SignalsUnmoved
  <2> QED BY <1>6, <2>3, <2>4, <2>5, <2>6 DEF CallsInv
<1> QED BY <1>7, <1>8, <1>9

LEMMA RecvTickStep == ASSUME CallsInv, Calls!RecvTick PROVE CallsInv'
<1>1. PICK ok \in BOOLEAN :
        /\ Calls!ProcessCommands(ok, FALSE)
        /\ ticks' = IF ok THEN 0 ELSE ticks
        /\ IF ~ok THEN /\ Calls!Return /\ UNCHANGED returned
                       /\ lost' = IF call.held # Calls!NoMessage /\ ~stopped' THEN lost + 1 ELSE lost
           ELSE IF call.held # Calls!NoMessage THEN Calls!Return /\ Calls!Returned(call.held)
           ELSE Calls!Onwards(call.block, TRUE) /\ Calls!NoneReturned
  BY DEF Calls!RecvTick
<1>2. /\ in_pipe' \in [end : Calls!End, held : Seq(Calls!Message)] /\ in_pipe'.held = in_pipe.held
      /\ out_pipe' \in [end : Calls!End, room : 0..Room]
      /\ commands' \subseteq commands /\ stopped' \in BOOLEAN /\ (stopped => stopped')
      /\ signals_left' \in Nat /\ signals_left' <= signals_left
      /\ ~ok => stopped' \/ signals_left' + 1 = signals_left
      /\ Calls!NoSleepOverWork'
  BY <1>1, CommandsDo
<1>3. /\ UNCHANGED <<written, told_to_stop>> /\ ticks' \in 0..inbound_poll_rate + 1
      /\ in_pipe.held \in Seq(Calls!Message) /\ call.held \in Calls!Message \union {N}
  BY <1>1, CallFacts DEF Calls!RecvTick, CallsInv, CallTypes
<1>4. CASE ~ok \/ call.held # N
  <2>1. /\ Calls!Return /\ returned' = IF ok THEN call.held ELSE returned
        /\ lost' = IF ok THEN 0 ELSE IF call.held # N /\ ~stopped' THEN lost + 1 ELSE lost
    BY <1>1, <1>4 DEF N, Calls!Returned
  <2>2. call' \in CallType /\ call' = Calls!NoCall /\ call'.at = "none" /\ call'.held = N /\ call'.name = "none"
    BY <2>1, Returns
  <2>3. CallTypes'
    <3>1. returned' \in Calls!Message
      BY <1>3, <1>4, <2>1 DEF CallsInv, CallTypes
    <3> QED BY <1>2, <1>3, <2>2, <3>1 DEF CallsInv, CallTypes, CallType
  <2>4. CallPlaces' /\ Calls!WaitsOnlyAsleep'
    BY <1>2, <1>3, <2>2 DEF CallPlaces, Calls!WaitsOnlyAsleep
  <2>5. Calls!InFlight' = in_pipe.held
    <3>1. Calls!InFlight' = <<>> \o in_pipe.held
      BY <1>2, <2>2 DEF Calls!InFlight, N
    <3> QED BY <1>3, <3>1
  <2>6. ASSUME ~stopped', call.held # N PROVE Between'
    <3>1. Calls!InFlight = <<call.held>> \o in_pipe.held /\ ~stopped
      BY <1>2, <2>6, InFlightIs
    <3>2. Calls!InFlight # <<>> /\ Head(Calls!InFlight) = call.held /\ Calls!InFlight' = Tail(Calls!InFlight)
      BY <1>3, <2>5, <2>6, <3>1
    <3>3. CASE ok
      BY <1>3, <2>1, <3>1, <3>2, <3>3, BetweenReturned
    <3>4. CASE ~ok
      BY <1>3, <2>1, <2>6, <3>1, <3>2, <3>4, BetweenLost
    <3> QED BY <3>3, <3>4
  <2>7. ASSUME ~stopped', call.held = N PROVE Between'
    <3>1. ~ok /\ ~stopped /\ UNCHANGED <<returned, lost>>
      BY <1>2, <1>4, <2>1, <2>7
    <3> QED BY <1>2, <1>3, <2>2, <2>7, <3>1, BetweenKept
  <2>8. CallSignals'
    <3>1. lost' = 0 \/ lost' = lost \/ (lost' = lost + 1 /\ signals_left' + 1 = signals_left)
      BY <1>2, <2>1
    <3>2. signals_left' \in Nat /\ signals_left' <= signals_left
      BY <1>2
    <3> QED BY <3>1, <3>2, SignalsKept, SignalSpent
  <2> QED BY <1>2, <2>3, <2>4, <2>6, <2>7, <2>8 DEF CallsInv
<1>5. CASE ok /\ call.held = N
  <2>1. Calls!Onwards(call.block, TRUE) /\ UNCHANGED <<returned, lost>>
    BY <1>1, <1>5 DEF N, Calls!NoneReturned
  <2>2. call' \in CallType /\ call'.name = "recv" /\ call'.at \in {"retry", "look"} /\ call'.held = N
    <3>1. call.block \in BOOLEAN
      BY DEF CallsInv, CallTypes
    <3> QED BY <2>1, <3>1 DEF Calls!Onwards, CallType, N
  <2>3. CallTypes'
    BY <1>2, <1>3, <2>1, <2>2 DEF CallsInv, CallTypes, CallType
  <2>4. CallPlaces' /\ Calls!WaitsOnlyAsleep'
    BY <1>2, <1>3, <1>5, <2>2 DEF CallPlaces, Calls!WaitsOnlyAsleep
  <2>5. ~stopped' => Between'
    BY <1>2, <1>3, <1>5, <2>1, <2>2, BetweenKept
  <2>6. CallSignals'
    BY <1>2, <2>1, SignalsKept
  <2> QED BY <1>2, <2>3, <2>4, <2>5, <2>6 DEF CallsInv
<1> QED BY <1>3, <1>4, <1>5

\* A call that has looked for commands: it goes on or returns.
LEMMA LookedStep ==
  ASSUME CallsInv, NEW ok \in BOOLEAN, NEW waits, Calls!ProcessCommands(ok, waits), NEW place \in {"fetch", "put", "check"},
         IF ok THEN Calls!Goes(place) ELSE Calls!Return,
         place = "fetch" => call.name = "recv", place = "put" => call.name = "send",
         place = "check" => call.name \in {"poll_in", "poll_out"},
         call.held = N, UNCHANGED <<written, returned, lost, told_to_stop>>, ticks' = 0 \/ ticks' = ticks
  PROVE  CallsInv'
<1>1. /\ in_pipe' \in [end : Calls!End, held : Seq(Calls!Message)] /\ in_pipe'.held = in_pipe.held
      /\ out_pipe' \in [end : Calls!End, room : 0..Room]
      /\ commands' \subseteq commands /\ stopped' \in BOOLEAN /\ (stopped => stopped')
      /\ signals_left' \in Nat /\ signals_left' <= signals_left
      /\ Calls!NoSleepOverWork'
  BY CommandsDo
<1>2. /\ call' \in CallType /\ call'.held = N /\ call'.at \in {place, "none"}
      /\ \/ call' = Calls!NoCall /\ call'.name = "none"
         \/ call'.name = call.name /\ call'.at = place
  <2>1. CASE ok
    BY <2>1, GoesTo
  <2>2. CASE ~ok
    BY <2>2, Returns
  <2> QED BY <2>1, <2>2
<1>3. ticks' \in 0..inbound_poll_rate + 1
  BY CallFacts DEF CallsInv, CallTypes
<1>4. CallTypes'
  BY <1>1, <1>2, <1>3 DEF CallsInv, CallTypes, CallType
<1>5. CallPlaces'
  <2>1. CASE call' = Calls!NoCall /\ call'.name = "none"
    BY <1>2, <1>3, <2>1 DEF CallPlaces, Calls!NoCall
  <2>2. CASE call'.name = call.name /\ call'.at = place
    BY <1>2, <1>3, <2>2 DEF CallPlaces
  <2> QED BY <1>2, <2>1, <2>2
<1>6. Calls!WaitsOnlyAsleep'
  BY <1>2 DEF Calls!WaitsOnlyAsleep
<1>7. ~stopped' => Between'
  BY <1>1, <1>2, BetweenKept
<1>8. CallSignals'
  BY <1>1, SignalsKept
<1> QED BY <1>1, <1>4, <1>5, <1>6, <1>7, <1>8 DEF CallsInv

LEMMA HeldAtTick == ASSUME CallsInv, call.at # "tick" PROVE call.held = N
BY DEF CallsInv, CallPlaces

LEMMA LookStep ==
  ASSUME CallsInv, Calls!RecvProcess \/ Calls!SendWait \/ Calls!PollCommands
  PROVE  CallsInv'
<1>1. CASE Calls!RecvProcess
  <2>1. PICK ok \in BOOLEAN : /\ Calls!ProcessCommands(ok, call.at = "wait")
                              /\ IF ok THEN Calls!Goes("fetch") ELSE Calls!Return
                              /\ ticks' = IF ok /\ call.at = "retry" THEN 0 ELSE ticks
    BY <1>1 DEF Calls!RecvProcess
  <2>2. call.name = "recv" /\ call.held = N /\ UNCHANGED <<written, returned, lost, told_to_stop>>
    BY <1>1, HeldAtTick DEF Calls!RecvProcess
  <2> QED BY <2>1, <2>2, LookedStep
<1>2. CASE Calls!SendWait
  <2>1. PICK ok \in BOOLEAN : Calls!ProcessCommands(ok, TRUE) /\ (IF ok THEN Calls!Goes("put") ELSE Calls!Return)
    BY <1>2 DEF Calls!SendWait
  <2>2. call.name = "send" /\ call.held = N /\ UNCHANGED <<written, returned, lost, told_to_stop, ticks>>
    BY <1>2, HeldAtTick DEF Calls!SendWait, Calls!At
  <2> QED BY <2>1, <2>2, LookedStep
<1>3. CASE Calls!PollCommands
  <2>1. PICK ok \in BOOLEAN : Calls!ProcessCommands(ok, call.at = "wait") /\ (IF ok THEN Calls!Goes("check") ELSE Calls!Return)
    BY <1>3 DEF Calls!PollCommands
  <2>2. call.name \in {"poll_in", "poll_out"} /\ call.held = N
        /\ UNCHANGED <<written, returned, lost, told_to_stop, ticks>>
    BY <1>3, HeldAtTick DEF Calls!PollCommands
  <2> QED BY <2>1, <2>2, LookedStep
<1> QED BY <1>1, <1>2, <1>3

LEMMA RecvFetchStep == ASSUME CallsInv, Calls!RecvFetch PROVE CallsInv'
<1>1. /\ Calls!Xrecv /\ call.name = "recv" /\ call.at = "fetch"
      /\ ticks' = IF Calls!Readable /\ call.block THEN 0 ELSE ticks
      /\ UNCHANGED <<out_pipe, written, commands, told_to_stop, stopped, signals_left>>
      /\ \/ Calls!Readable /\ Calls!Return /\ returned' = Head(in_pipe.held) /\ lost' = 0
         \/ ~Calls!Readable /\ UNCHANGED <<returned, lost>> /\ (Calls!Goes("wait") \/ Calls!Return)
  BY DEF Calls!RecvFetch, Calls!At, Calls!Returned, Calls!NoneReturned
<1>2. /\ in_pipe' \in [end : Calls!End, held : Seq(Calls!Message)] /\ Len(in_pipe'.held) <= MaxHeld /\ InDuty'
      /\ in_pipe'.end = "signalled" => in_pipe.end = "signalled"
      /\ Calls!Readable => /\ in_pipe.held # <<>> /\ in_pipe'.held = Tail(in_pipe.held) /\ in_pipe'.end = in_pipe.end
                           /\ Head(in_pipe.held) \in Calls!Message
      /\ ~Calls!Readable => in_pipe'.held = in_pipe.held /\ in_pipe'.end # "awake"
  BY <1>1, XrecvDoes
<1>3. call.held = N /\ Calls!InFlight = in_pipe.held /\ in_pipe.held \in Seq(Calls!Message)
  <2>1. call.held = N
    BY <1>1, HeldAtTick
  <2> QED BY <2>1, InFlightIs
<1>4. ticks' \in 0..inbound_poll_rate + 1
  BY <1>1, CallFacts DEF CallsInv, CallTypes
<1>5. Calls!NoSleepOverWork'
  BY <1>1, <1>2 DEF CallsInv, Calls!NoSleepOverWork, InDuty
<1>6. CASE Calls!Readable /\ Calls!Return /\ returned' = Head(in_pipe.held) /\ lost' = 0
  <2>2. call' \in CallType /\ call' = Calls!NoCall /\ call'.at = "none" /\ call'.held = N /\ call'.name = "none"
    BY <1>6, Returns
  <2>3. CallTypes'
    <3>1. returned' \in Calls!Message
      BY <1>2, <1>6
    <3> QED BY <1>1, <1>2, <1>4, <2>2, <3>1 DEF CallsInv, CallTypes, CallType
  <2>4. CallPlaces' /\ Calls!WaitsOnlyAsleep'
    BY <1>4, <2>2 DEF CallPlaces, Calls!WaitsOnlyAsleep
  <2>5. Calls!InFlight' = Tail(in_pipe.held)
    <3>1. Calls!InFlight' = <<>> \o Tail(in_pipe.held)
      BY <1>2, <1>6, <2>2 DEF Calls!InFlight, N
    <3>2. Tail(in_pipe.held) \in Seq(Calls!Message)
      BY <1>2, <1>3, <1>6
    <3> QED BY <3>1, <3>2
  <2>6. ~stopped => Between'
    BY <1>1, <1>2, <1>3, <1>6, <2>5, BetweenReturned
  <2>7. CallSignals'
    BY <1>1, <1>6, CallFacts DEF CallsInv, CallSignals
  <2> QED BY <1>1, <1>5, <2>3, <2>4, <2>6, <2>7 DEF CallsInv
<1>7. CASE ~Calls!Readable /\ UNCHANGED <<returned, lost>> /\ (Calls!Goes("wait") \/ Calls!Return)
  <2>1. /\ call' \in CallType /\ call'.held = N
        /\ \/ call' = Calls!NoCall /\ call'.name = "none" /\ call'.at = "none"
           \/ call'.name = "recv" /\ call'.at = "wait"
    <3>1. CASE Calls!Goes("wait")
      BY <1>1, <1>3, <3>1, GoesTo
    <3>2. CASE Calls!Return
      BY <3>2, Returns
    <3> QED BY <1>7, <3>1, <3>2
  <2>2. CallTypes'
    BY <1>1, <1>2, <1>4, <1>7, <2>1 DEF CallsInv, CallTypes, CallType
  <2>3. CallPlaces'
    BY <1>4, <2>1 DEF CallPlaces
  <2>4. Calls!WaitsOnlyAsleep'
    BY <1>2, <1>7, <2>1 DEF Calls!WaitsOnlyAsleep
  <2>5. ~stopped => Between'
    BY <1>1, <1>2, <1>3, <1>7, <2>1, BetweenKept
  <2>6. CallSignals'
    BY <1>1, <1>7, SignalsUnmoved
  <2> QED BY <1>1, <1>5, <2>2, <2>3, <2>4, <2>5, <2>6 DEF CallsInv
<1> QED BY <1>1, <1>6, <1>7

\* The other calls neither take messages nor bring them.
LEMMA SendStartStep ==
  ASSUME CallsInv, NEW block \in BOOLEAN, NEW throttled \in BOOLEAN, Calls!SendStart(block, throttled)
  PROVE  CallsInv'
<1> DEFINE at_put == [name |-> "send", at |-> "put", block |-> block, held |-> N]
<1>1. call = Calls!NoCall /\ ~stopped /\ call.held = N /\ call.at = "none" /\ UNCHANGED <<written, returned, lost, told_to_stop, ticks>>
  BY DEF Calls!SendStart, Calls!NoCall, N
<1>2. /\ in_pipe' \in [end : Calls!End, held : Seq(Calls!Message)] /\ in_pipe'.held = in_pipe.held
      /\ out_pipe' \in [end : Calls!End, room : 0..Room]
      /\ commands' \subseteq commands /\ stopped' \in BOOLEAN /\ signals_left' \in Nat /\ signals_left' <= signals_left
      /\ Calls!NoSleepOverWork' /\ (call' = at_put \/ call' = Calls!NoCall)
  <2>1. CASE throttled
    <3>1. UNCHANGED <<in_pipe, out_pipe, commands, stopped, signals_left>> /\ call' = at_put
      BY <2>1 DEF Calls!SendStart, N
    <3>2. signals_left' \in Nat /\ signals_left' <= signals_left
      BY <3>1 DEF CallsInv, CallSignals
    <3> QED BY <3>1, <3>2 DEF CallsInv, CallTypes, Calls!NoSleepOverWork
  <2>2. CASE ~throttled
    <3>1. PICK ok \in BOOLEAN : Calls!ProcessCommands(ok, FALSE) /\ call' = IF ok THEN at_put ELSE Calls!NoCall
      BY <2>2 DEF Calls!SendStart, N
    <3> QED BY <3>1, CommandsDo
  <2> QED BY <2>1, <2>2
<1>3. at_put \in CallType /\ Calls!NoCall \in CallType
  BY DEF CallType, Calls!NoCall, N
<1>4. /\ call' \in CallType /\ call'.held = N /\ call'.at \in {"none", "put"}
      /\ call'.name \in {"none", "send"} /\ (call'.name = "send" => call'.at = "put")
      /\ (call'.name = "none" => call' = Calls!NoCall)
  <2>1. CASE call' = at_put
    <3>1. call'.held = N /\ call'.at = "put" /\ call'.name = "send"
      BY <2>1
    <3> QED BY <1>3, <2>1, <3>1
  <2>2. CASE call' = Calls!NoCall
    <3>1. call'.held = N /\ call'.at = "none" /\ call'.name = "none"
      BY <2>2 DEF Calls!NoCall, N
    <3> QED BY <1>3, <2>2, <3>1
  <2> QED BY <1>2, <2>1, <2>2
<1>5. CallTypes'
  BY <1>1, <1>2, <1>4 DEF CallsInv, CallTypes, CallType
<1>6. CallPlaces'
  BY <1>4 DEF CallPlaces
<1>7. Calls!WaitsOnlyAsleep'
  BY <1>4 DEF Calls!WaitsOnlyAsleep
<1>8. Between'
  BY <1>1, <1>2, <1>4, BetweenKept
<1>9. CallSignals'
  BY <1>1, <1>2, SignalsKept
<1> QED BY <1>2, <1>5, <1>6, <1>7, <1>8, <1>9 DEF CallsInv

LEMMA SendPutStep == ASSUME CallsInv, Calls!SendPut PROVE CallsInv'
<1>1. /\ call.name = "send" /\ call.at = "put" /\ call.held = N /\ Calls!Xsend
      /\ IF Calls!Writable \/ ~call.block THEN Calls!Return ELSE Calls!Goes("wait")
      /\ UNCHANGED <<in_pipe, written, returned, lost, commands, told_to_stop, stopped, ticks, signals_left>>
  BY HeldAtTick DEF Calls!SendPut, Calls!At
<1>2. /\ out_pipe \in [end : Calls!End, room : 0..Room] /\ out_pipe.end \in {"awake", "asleep", "signalled"}
      /\ out_pipe.room \in 0..Room
  <2>1. out_pipe \in [end : Calls!End, room : 0..Room]
    BY DEF CallsInv, CallTypes
  <2> QED BY <2>1 DEF Calls!End
<1>3. /\ out_pipe' \in [end : Calls!End, room : 0..Room] /\ OutDuty'
      /\ out_pipe'.end = "signalled" => out_pipe.end = "signalled"
      /\ ~Calls!Writable => out_pipe'.end # "awake"
  <2>1. CASE Calls!Writable
    <3>1. out_pipe' = [out_pipe EXCEPT !.room = out_pipe.room - 1] /\ out_pipe.end = "awake" /\ out_pipe.room > 0
      BY <1>1, <2>1 DEF Calls!Xsend, Calls!Writable
    <3>2. out_pipe.room - 1 \in 0..Room
      BY <1>2, <3>1, CallFacts
    <3> QED BY <1>2, <2>1, <3>1, <3>2 DEF OutDuty
  <2>2. CASE ~Calls!Writable
    <3>1. out_pipe' = [out_pipe EXCEPT !.end = Calls!Asleep(out_pipe.end)]
      BY <1>1, <2>2 DEF Calls!Xsend
    <3>2. out_pipe'.end = Calls!Asleep(out_pipe.end) /\ out_pipe'.room = out_pipe.room
      BY <1>2, <3>1
    <3>3. OutDuty'
      BY <1>2, <2>2, <3>2, CallFacts DEF OutDuty, Calls!Writable, Calls!Asleep, CallsInv, Calls!NoSleepOverWork
    <3>4. Calls!Asleep(out_pipe.end) \in {"asleep", "signalled"}
      BY <1>2 DEF Calls!Asleep
    <3>5. Calls!Asleep(out_pipe.end) = "signalled" => out_pipe.end = "signalled"
      BY <1>2 DEF Calls!Asleep
    <3> QED BY <1>2, <3>1, <3>2, <3>3, <3>4, <3>5 DEF Calls!End
  <2> QED BY <2>1, <2>2
<1>4. /\ call' \in CallType /\ call'.held = N
      /\ \/ call' = Calls!NoCall /\ call'.name = "none" /\ call'.at = "none"
         \/ call'.name = "send" /\ call'.at = "wait" /\ ~Calls!Writable
  <2>1. CASE Calls!Writable \/ ~call.block
    BY <1>1, <2>1, Returns
  <2>2. CASE ~(Calls!Writable \/ ~call.block)
    BY <1>1, <2>2, GoesTo
  <2> QED BY <2>1, <2>2
<1>5. CallTypes' /\ CallPlaces'
  BY <1>1, <1>3, <1>4 DEF CallsInv, CallTypes, CallType, CallPlaces
<1>6. Calls!NoSleepOverWork'
  BY <1>1, <1>3 DEF CallsInv, Calls!NoSleepOverWork, OutDuty
<1>7. Calls!WaitsOnlyAsleep'
  BY <1>3, <1>4 DEF Calls!WaitsOnlyAsleep
<1>8. ~stopped => Between'
  BY <1>1, <1>4, BetweenKept
<1>9. CallSignals'
  BY <1>1, SignalsUnmoved
<1> QED BY <1>1, <1>5, <1>6, <1>7, <1>8, <1>9 DEF CallsInv

LEMMA PollStartStep == ASSUME CallsInv, NEW name \in {"poll_in", "poll_out"}, Calls!PollStart(name) PROVE CallsInv'
<1>1. /\ call = Calls!NoCall /\ call.held = N /\ call.at = "none"
      /\ call' = [name |-> name, at |-> "retry", block |-> TRUE, held |-> N]
      /\ UNCHANGED <<in_pipe, out_pipe, written, returned, lost, commands, told_to_stop, stopped, ticks, signals_left>>
  BY DEF Calls!PollStart, Calls!NoCall, N
<1>2. call' \in CallType /\ call'.held = N /\ call'.at = "retry" /\ call'.name = name
  BY <1>1 DEF CallType
<1>3. CallTypes' /\ CallPlaces'
  BY <1>1, <1>2 DEF CallsInv, CallTypes, CallType, CallPlaces
<1>4. Calls!NoSleepOverWork' /\ Calls!WaitsOnlyAsleep'
  BY <1>1, <1>2 DEF CallsInv, Calls!NoSleepOverWork, Calls!WaitsOnlyAsleep
<1>5. ~stopped => Between'
  BY <1>1, <1>2, BetweenKept
<1>6. CallSignals'
  BY <1>1, SignalsUnmoved
<1> QED BY <1>1, <1>3, <1>4, <1>5, <1>6 DEF CallsInv

LEMMA PollEventsStep == ASSUME CallsInv, Calls!PollEvents PROVE CallsInv'
<1>1. /\ call.at = "check" /\ call.held = N
      /\ out_pipe' = (IF Calls!Writable THEN out_pipe ELSE [out_pipe EXCEPT !.end = Calls!Asleep(out_pipe.end)])
      /\ in_pipe' = (IF Calls!Readable THEN in_pipe ELSE [in_pipe EXCEPT !.end = Calls!Asleep(in_pipe.end)])
      /\ IF (call.name = "poll_in" /\ Calls!Readable) \/ (call.name = "poll_out" /\ Calls!Writable)
           THEN Calls!Return ELSE Calls!Goes("wait")
      /\ UNCHANGED <<written, returned, lost, commands, told_to_stop, stopped, ticks, signals_left>>
  BY HeldAtTick DEF Calls!PollEvents
<1>2. call.name \in {"poll_in", "poll_out"}
  BY <1>1 DEF CallsInv, CallTypes, CallPlaces, Calls!NoCall
<1>3. /\ out_pipe \in [end : Calls!End, room : 0..Room] /\ in_pipe \in [end : Calls!End, held : Seq(Calls!Message)]
      /\ out_pipe.end \in {"awake", "asleep", "signalled"} /\ in_pipe.end \in {"awake", "asleep", "signalled"}
      /\ out_pipe.room \in 0..Room
  <2>1. out_pipe \in [end : Calls!End, room : 0..Room] /\ in_pipe \in [end : Calls!End, held : Seq(Calls!Message)]
    BY DEF CallsInv, CallTypes
  <2> QED BY <2>1 DEF Calls!End
<1>4. /\ out_pipe' \in [end : Calls!End, room : 0..Room] /\ out_pipe'.room = out_pipe.room
      /\ out_pipe'.end = IF Calls!Writable THEN out_pipe.end ELSE Calls!Asleep(out_pipe.end)
  BY <1>1, <1>3 DEF Calls!Asleep, Calls!End
<1>5. /\ in_pipe' \in [end : Calls!End, held : Seq(Calls!Message)] /\ in_pipe'.held = in_pipe.held
      /\ in_pipe'.end = IF Calls!Readable THEN in_pipe.end ELSE Calls!Asleep(in_pipe.end)
  BY <1>1, <1>3 DEF Calls!Asleep, Calls!End
<1>6. /\ call' \in CallType /\ call'.held = N
      /\ \/ call' = Calls!NoCall /\ call'.name = "none" /\ call'.at = "none"
         \/ /\ call'.name = call.name /\ call'.at = "wait"
            /\ call.name = "poll_in" => ~Calls!Readable
            /\ call.name = "poll_out" => ~Calls!Writable
  <2>1. CASE (call.name = "poll_in" /\ Calls!Readable) \/ (call.name = "poll_out" /\ Calls!Writable)
    BY <1>1, <2>1, Returns
  <2>2. CASE ~((call.name = "poll_in" /\ Calls!Readable) \/ (call.name = "poll_out" /\ Calls!Writable))
    BY <1>1, <2>2, GoesTo
  <2> QED BY <2>1, <2>2
<1>7. CallTypes' /\ CallPlaces'
  BY <1>1, <1>2, <1>4, <1>5, <1>6 DEF CallsInv, CallTypes, CallType, CallPlaces
<1>8. Calls!NoSleepOverWork'
  <2>1. (in_pipe'.end = "asleep" => in_pipe'.held = <<>>) /\ (in_pipe'.end = "signalled" => "activate_reader" \in commands')
    BY <1>1, <1>3, <1>5 DEF CallsInv, Calls!NoSleepOverWork, Calls!Asleep, Calls!Readable
  <2>2. (out_pipe'.end = "asleep" => out_pipe'.room = 0) /\ (out_pipe'.end = "signalled" => "activate_writer" \in commands')
    BY <1>1, <1>3, <1>4, CallFacts DEF CallsInv, Calls!NoSleepOverWork, Calls!Asleep, Calls!Writable
  <2> QED BY <2>1, <2>2 DEF Calls!NoSleepOverWork
<1>9. Calls!WaitsOnlyAsleep'
  BY <1>2, <1>3, <1>4, <1>5, <1>6 DEF Calls!WaitsOnlyAsleep, Calls!Asleep
<1>10. ~stopped => Between'
  BY <1>1, <1>5, <1>6, BetweenKept
<1>11. CallSignals'
  BY <1>1, SignalsUnmoved
<1> QED BY <1>1, <1>7, <1>8, <1>9, <1>10, <1>11 DEF CallsInv

LEMMA CallsStep == ASSUME CallsInv, Calls!Next PROVE CallsInv'
<1>1. CASE Calls!PeerWrites \/ Calls!PeerReads \/ Calls!Stop
  BY <1>1, PeerWritesStep, PeerReadsStep, StopStep
<1>2. CASE Calls!Calling
  BY <1>2, RecvStartStep, SendStartStep DEF Calls!Calling
<1>3. CASE Calls!PollStart("poll_in") \/ Calls!PollStart("poll_out")
  BY <1>3, PollStartStep
<1>4. CASE Calls!Proceeding
  BY <1>4, RecvTickStep, LookStep, RecvFetchStep, SendPutStep, PollEventsStep DEF Calls!Proceeding
<1> QED BY <1>1, <1>2, <1>3, <1>4 DEF Calls!Next

LEMMA CallsStutter == ASSUME CallsInv, UNCHANGED callVars PROVE CallsInv'
<1>1. Calls!InFlight' = Calls!InFlight
  BY DEF callVars, Calls!InFlight
<1>2. Between => Between'
  BY <1>1 DEF callVars, Between
<1> QED BY <1>2 DEF callVars, CallsInv, CallTypes, CallPlaces, CallSignals, Calls!NoSleepOverWork, Calls!WaitsOnlyAsleep

(***************************************************************************)
(* The context.                                                            *)
(***************************************************************************)
\* How many elements of a queue are in a set.
Places(q, S) == {j \in DOMAIN q : q[j] \in S}
Hits(q, S) == Cardinality(Places(q, S))

Lives == {"unborn", "open", "closed", "reaping", "leaving", "destroyed", "gone"}
Here == {"open", "closed", "reaping", "leaving"}
Reaped == {"reaping", "leaving", "destroyed"}
Reports == {"reap", "stop", "reaped"} \X (Socket \union {None})
Of(type) == {type} \X (Socket \union {None})
Awaited == {"bind", "term_ack"}

\* Ctx!TypeOK, without the bounds that follow from the parts below.
CtxTypes ==
  /\ ctx_terminating \in BOOLEAN /\ sockets \subseteq Socket
  /\ empty_slots \in Seq(Ctx!Slot) /\ slots \in [Ctx!Slot -> Socket \union {None}]
  /\ endpoints \in [Endpoint -> Socket \union {None}]
  /\ term \in {"idle", "stopping", "waiting", "interrupted", "deleting", "returned"}
  /\ term_mailbox \in {<<>>, <<"done">>} /\ interrupts \in 0..MaxInterrupts
  /\ life \in [Socket -> Lives] /\ tid \in [Socket -> Ctx!Slot]
  /\ ctx_terminated \in [Socket -> BOOLEAN] /\ owns \in [Socket -> BOOLEAN]
  /\ mailbox \in [Socket -> Seq({"stop", "bind", "term_ack"})]
  /\ pending \in [Socket -> Nat]
  /\ joining \in [Socket -> Socket \union {None}] /\ connects \in 0..MaxConnects
  /\ reaper_mailbox \in Seq(Reports) /\ reaper_sockets \in Nat /\ reaper_terminating \in BOOLEAN
  /\ reaper_doing \in {"nothing", "reaping", "polling", "finished"} \X (Socket \union {None})

\* A socket has its slot from its creation until it is destroyed.
SlotsInv ==
  /\ \A s \in Socket : s \in sockets <=> life[s] \in Here
  /\ \A s \in sockets : slots[tid[s]] = s
  /\ \A k \in Ctx!Slot : slots[k] # None => slots[k] \in sockets /\ tid[slots[k]] = k
  /\ \A i, j \in DOMAIN empty_slots : empty_slots[i] = empty_slots[j] => i = j
  /\ \A k \in Ctx!Slot : slots[k] = None <=> \E j \in DOMAIN empty_slots : empty_slots[j] = k

\* What a socket waits for: the binds of those that have found it, on their way
\* or not sent yet, and its objects, or the word that they are gone.
Finders(s) == {p \in Socket : joining[p] = s}
OwnsOne(s) == IF life[s] = "reaping" /\ owns[s] THEN 1 ELSE 0
Reaping(s) == IF life[s] \in {"unborn", "open", "closed"} THEN 0 ELSE 1

Waits(s) ==
  life[s] \notin {"destroyed", "gone"} =>
    pending[s] = Cardinality(Finders(s)) + Hits(mailbox[s], Awaited) + OwnsOne(s)

AwaitInv ==
  /\ \A s \in Socket : Waits(s)
  /\ \A s \in Socket : life[s] = "leaving" => pending[s] = 0
  /\ \A s \in Socket : pending[s] <= connects + Reaping(s)
  /\ \A s \in Socket : joining[s] # None => life[joining[s]] \in {"open", "closed", "reaping"}

\* What the reaper has in its mailbox and in its hands: every socket that is
\* closed and not gone is counted, or in one of the two.
Handled == {s \in Socket : life[s] \in Reaped /\ reaper_doing # <<"reaping", s>>}
GoneOnes == {s \in Socket : life[s] = "gone"}
ReaperInv ==
  /\ \A j \in DOMAIN reaper_mailbox : reaper_mailbox[j][1] = "reap" =>
       reaper_mailbox[j][2] \in Socket /\ life[reaper_mailbox[j][2]] = "closed"
  /\ \A i, j \in DOMAIN reaper_mailbox :
       reaper_mailbox[i][1] = "reap" /\ reaper_mailbox[i] = reaper_mailbox[j] => i = j
  /\ \A s \in Socket : life[s] = "destroyed" => reaper_doing \in {<<"reaping", s>>, <<"polling", s>>}
  /\ reaper_doing[1] = "reaping" => reaper_doing[2] \in Socket /\ life[reaper_doing[2]] \in {"leaving", "destroyed"}
  /\ reaper_doing[1] = "polling" => reaper_doing[2] \in Socket /\ life[reaper_doing[2]] = "destroyed"
  /\ reaper_doing[1] \in {"nothing", "finished"} => reaper_doing[2] = None
  /\ reaper_sockets = Cardinality(Handled) + Hits(reaper_mailbox, Of("reaped"))
  /\ Hits(reaper_mailbox, Of("reaped")) <= Cardinality(GoneOnes)
  /\ reaper_doing[1] # "finished" => term_mailbox = <<>>

StopInv ==
  /\ ctx_terminating <=> term \notin {"idle", "stopping"}
  /\ term = "idle" => life[Log] = "open"
  /\ Hits(reaper_mailbox, Of("stop")) + (IF reaper_terminating THEN 1 ELSE 0) <= 1
  /\ Hits(reaper_mailbox, Of("stop")) > 0 \/ reaper_terminating => sockets = {} /\ ctx_terminating
  /\ reaper_doing[1] = "finished" => reaper_terminating /\ Ctx!DoneWhenAllGone

CtxInv == CtxTypes /\ SlotsInv /\ AwaitInv /\ Ctx!EndpointsAlive /\ ReaperInv /\ StopInv

LEMMA CtxFacts ==
  /\ Log \in Socket /\ SysLog \in Endpoint /\ None \notin Socket /\ IsFiniteSet(Socket)
  /\ max_sockets \in Nat \ {0} /\ MaxConnects \in Nat /\ MaxInterrupts \in Nat
  /\ Ctx!Slot = 1..max_sockets + 1
<1>1. Ctx!IsFiniteSet(Socket) => IsFiniteSet(Socket)
  BY Zenon DEF Ctx!IsFiniteSet, IsFiniteSet
<1> QED BY <1>1, PartsAssumption DEF PartsAssumption, Ctx!ContextAssumption, Ctx!Slot

LEMMA HitsType ==
  ASSUME NEW X, NEW q \in Seq(X), NEW S
  PROVE  IsFiniteSet(Places(q, S)) /\ Hits(q, S) \in Nat /\ (Hits(q, S) = 0 <=> \A j \in DOMAIN q : q[j] \notin S)
<1>1. IsFiniteSet(1..Len(q)) /\ Places(q, S) \in SUBSET (1..Len(q))
  BY FS_Interval DEF Places
<1>2. IsFiniteSet(Places(q, S))
  BY <1>1, FS_Subset
<1>3. Hits(q, S) \in Nat /\ (Hits(q, S) = 0 <=> Places(q, S) = {})
  BY <1>2, FS_CardinalityType, FS_EmptySet DEF Hits
<1> QED BY <1>2, <1>3 DEF Places

LEMMA HitsAppend ==
  ASSUME NEW X, NEW q \in Seq(X), NEW e \in X, NEW S
  PROVE  Hits(Append(q, e), S) = Hits(q, S) + (IF e \in S THEN 1 ELSE 0)
<1> DEFINE new == Len(q) + 1
<1>1. IsFiniteSet(Places(q, S)) /\ Hits(q, S) \in Nat
  BY HitsType
<1>4. new \notin Places(q, S)
  BY DEF Places
<1>2. CASE e \in S
  <2>1. Places(Append(q, e), S) = Places(q, S) \union {new}
    BY <1>2 DEF Places
  <2> HIDE DEF new
  <2>2. Cardinality(Places(q, S) \union {new}) = Cardinality(Places(q, S)) + 1
    BY <1>1, <1>4, FS_AddElement
  <2> QED BY <1>2, <2>1, <2>2 DEF Hits
<1>3. CASE e \notin S
  <2>1. Places(Append(q, e), S) = Places(q, S)
    BY <1>3 DEF Places
  <2> QED BY <1>1, <1>3, <2>1 DEF Hits
<1> QED BY <1>2, <1>3

LEMMA HitsTail ==
  ASSUME NEW X, NEW q \in Seq(X), q # <<>>, NEW S
  PROVE  Hits(Tail(q), S) = Hits(q, S) - (IF Head(q) \in S THEN 1 ELSE 0)
<1> DEFINE before == Places(q, S)
           after == Places(Tail(q), S)
           f == [j \in after |-> j + 1]
<1>0. Tail(q) \in Seq(X) /\ Len(q) >= 1 /\ Head(q) = q[1] /\ Len(Tail(q)) = Len(q) - 1
      /\ \A j \in 1..Len(q) - 1 : Tail(q)[j] = q[j + 1]
  OBVIOUS
<1>1. IsFiniteSet(before) /\ IsFiniteSet(after) /\ Hits(q, S) \in Nat
  BY <1>0, HitsType
<1>2. after \subseteq 1..Len(q) - 1 /\ before \subseteq 1..Len(q)
  BY <1>0 DEF Places
<1>3. \A j \in 1..Len(q) - 1 : j \in after <=> j + 1 \in before
  BY <1>0 DEF Places
<1>4. 1 \in before <=> Head(q) \in S
  BY <1>0 DEF Places
<1> HIDE DEF before, after
<1>5. f \in [after -> before \ {1}]
  BY <1>2, <1>3
<1>6. \A i, j \in after : f[i] = f[j] => i = j
  BY <1>2
<1>7. \A k \in before \ {1} : k - 1 \in after /\ f[k - 1] = k
  <2> SUFFICES ASSUME NEW k \in before \ {1} PROVE k - 1 \in after /\ f[k - 1] = k
    OBVIOUS
  <2>1. k - 1 \in 1..Len(q) - 1 /\ (k - 1) + 1 = k
    BY <1>2
  <2> QED BY <1>3, <2>1
<1>8. f \in Bijection(after, before \ {1})
  BY <1>5, <1>6, <1>7 DEF Bijection, Injection, Surjection, IsInjective
<1>9. Cardinality(before \ {1}) = Cardinality(after)
  BY <1>1, <1>8, FS_Bijection DEF ExistsBijection
<1>10. Cardinality(before \ {1}) = IF 1 \in before THEN Cardinality(before) - 1 ELSE Cardinality(before)
  BY <1>1, FS_RemoveElement
<1> QED BY <1>1, <1>4, <1>9, <1>10 DEF Hits, before, after

LEMMA SetsOfSockets ==
  ASSUME NEW S, S \subseteq Socket
  PROVE  IsFiniteSet(S) /\ Cardinality(S) \in Nat /\ (Cardinality(S) = 0 <=> S = {})
<1>1. IsFiniteSet(S)
  BY CtxFacts, FS_Subset
<1> QED BY <1>1, FS_CardinalityType, FS_EmptySet

LEMMA OneMore ==
  ASSUME NEW S, NEW T, S \subseteq Socket, NEW x \in Socket, x \notin S, T = S \union {x}
  PROVE  Cardinality(T) = Cardinality(S) + 1
BY SetsOfSockets, FS_AddElement

LEMMA StopsArePlaces ==
  ASSUME CtxTypes
  PROVE  \A type \in {"reap", "stop", "reaped"} :
           Places(reaper_mailbox, Of(type)) = {j \in DOMAIN reaper_mailbox : reaper_mailbox[j][1] = type}
<1>1. \A j \in DOMAIN reaper_mailbox : reaper_mailbox[j] \in Reports
  BY DEF CtxTypes
<1>2. \A type \in {"reap", "stop", "reaped"} : \A r \in Reports : r \in Of(type) <=> r[1] = type
  BY DEF Reports, Of
<1> QED BY <1>1, <1>2 DEF Places

LEMMA ContextIsSound == ASSUME CtxInv PROVE Ctx!ContextSound
<1>1. Ctx!TypeOK
  <2>1. pending \in [Socket -> 0..MaxConnects + 1]
    <3>1. \A s \in Socket : pending[s] <= connects + 1
      <4>1. \A s \in Socket : Reaping(s) \in 0..1 /\ pending[s] <= connects + Reaping(s) /\ pending[s] \in Nat
        BY DEF CtxInv, AwaitInv, CtxTypes, Reaping
      <4>2. connects \in 0..MaxConnects
        BY DEF CtxInv, CtxTypes
      <4> QED BY <4>1, <4>2, CtxFacts
    <3>2. pending \in [Socket -> Nat] /\ connects \in 0..MaxConnects
      BY DEF CtxInv, CtxTypes
    <3>3. \A s \in Socket : pending[s] \in 0..MaxConnects + 1
      BY <3>1, <3>2, CtxFacts
    <3> QED BY <3>2, <3>3
  <2>2. reaper_sockets \in 0..Ctx!Cardinality(Socket)
    <3>1. Handled \subseteq Socket /\ GoneOnes \subseteq Socket /\ Handled \intersect GoneOnes = {}
      BY DEF Handled, GoneOnes, Reaped
    <3>2. Cardinality(Handled) \in Nat /\ Cardinality(GoneOnes) \in Nat /\ IsFiniteSet(Handled) /\ IsFiniteSet(GoneOnes)
      BY <3>1, SetsOfSockets
    <3>3. Cardinality(Handled \union GoneOnes) = Cardinality(Handled) + Cardinality(GoneOnes)
      <4>1. Cardinality(Handled \union GoneOnes) = Cardinality(Handled) + Cardinality(GoneOnes) - Cardinality(Handled \intersect GoneOnes)
        BY <3>2, FS_Union
      <4>2. Cardinality(Handled \intersect GoneOnes) = 0
        BY <3>1, FS_EmptySet
      <4> QED BY <3>2, <4>1, <4>2
    <3>4. Handled \union GoneOnes \in SUBSET Socket
      BY <3>1
    <3>5. Cardinality(Handled \union GoneOnes) <= Cardinality(Socket)
      BY <3>4, CtxFacts, FS_Subset
    <3>6. Hits(reaper_mailbox, Of("reaped")) \in Nat
      BY HitsType DEF CtxInv, CtxTypes
    <3>7. reaper_sockets = Cardinality(Handled) + Hits(reaper_mailbox, Of("reaped"))
          /\ Hits(reaper_mailbox, Of("reaped")) <= Cardinality(GoneOnes) /\ reaper_sockets \in Nat
      BY DEF CtxInv, ReaperInv, CtxTypes
    <3>8. Cardinality(Socket) \in Nat
      BY CtxFacts, FS_CardinalityType
    <3>9. reaper_sockets \in 0..Cardinality(Socket)
      BY <3>2, <3>3, <3>5, <3>6, <3>7, <3>8
    <3> QED BY <3>9 DEF Cardinality, Ctx!Cardinality
  <2> QED BY <2>1, <2>2 DEF CtxInv, CtxTypes, Ctx!TypeOK, Lives, Ctx!Slot
<1>2. Ctx!SlotsExclusive
  <2>1. Ctx!IsInjective(empty_slots)
    BY DEF CtxInv, SlotsInv, Ctx!IsInjective
  <2> QED BY <2>1 DEF CtxInv, SlotsInv, Ctx!SlotsExclusive
<1>3. Ctx!FoundStaysUntilBound
  <2> SUFFICES ASSUME NEW s \in Socket, joining[s] # None
               PROVE  life[joining[s]] \in {"open", "closed", "reaping"} /\ slots[tid[joining[s]]] = joining[s]
    BY DEF Ctx!FoundStaysUntilBound
  <2>1. joining[s] \in Socket /\ life[joining[s]] \in {"open", "closed", "reaping"}
    BY DEF CtxInv, CtxTypes, AwaitInv
  <2>2. joining[s] \in sockets
    BY <2>1 DEF CtxInv, SlotsInv, Here
  <2> QED BY <2>1, <2>2 DEF CtxInv, SlotsInv
<1>4. Ctx!StoppedOnce
  <2> DEFINE stops == {j \in DOMAIN reaper_mailbox : reaper_mailbox[j][1] = "stop"}
  <2>1. stops = Places(reaper_mailbox, Of("stop"))
    BY StopsArePlaces DEF CtxInv
  <2>2. Cardinality(stops) = Hits(reaper_mailbox, Of("stop"))
    BY <2>1 DEF Hits
  <2>3. Hits(reaper_mailbox, Of("stop")) \in Nat /\ (Hits(reaper_mailbox, Of("stop")) = 0 <=> Places(reaper_mailbox, Of("stop")) = {})
    <3>1. reaper_mailbox \in Seq(Reports)
      BY DEF CtxInv, CtxTypes
    <3> QED BY <3>1, HitsType, FS_EmptySet DEF Hits
  <2>4. Cardinality(stops) + (IF reaper_terminating THEN 1 ELSE 0) <= 1
    BY <2>2 DEF CtxInv, StopInv
  <2>5. stops # {} => sockets = {} /\ ctx_terminating
    BY <2>1, <2>3 DEF CtxInv, StopInv
  <2>6. Ctx!Cardinality(stops) = Cardinality(stops)
    BY DEF Cardinality, Ctx!Cardinality
  <2> HIDE DEF stops
  <2>7. Ctx!Cardinality(stops) + (IF reaper_terminating THEN 1 ELSE 0) <= 1
    BY <2>4, <2>6
  <2> QED BY <2>5, <2>7 DEF Ctx!StoppedOnce, stops
<1>5. Ctx!DoneWhenAllGone
  BY DEF CtxInv, StopInv, Ctx!DoneWhenAllGone
<1> QED BY <1>1, <1>2, <1>3, <1>4, <1>5 DEF CtxInv, Ctx!ContextSound

LEMMA CtxStart == ASSUME Ctx!Init PROVE CtxInv
<1> USE DEF Ctx!Init
<1>1. CtxTypes
  <2>1. empty_slots \in Seq(Ctx!Slot)
    <3>1. \A k \in 1..max_sockets : max_sockets + 2 - k \in 1..max_sockets + 1
      BY CtxFacts
    <3> QED BY <3>1, CtxFacts
  <2>2. slots \in [Ctx!Slot -> Socket \union {None}] /\ tid \in [Socket -> Ctx!Slot]
    BY CtxFacts
  <2>3. reaper_doing \in {"nothing", "reaping", "polling", "finished"} \X (Socket \union {None})
    BY DEF Ctx!Idle
  <2>4. life \in [Socket -> Lives] /\ mailbox \in [Socket -> Seq({"stop", "bind", "term_ack"})]
        /\ endpoints \in [Endpoint -> Socket \union {None}] /\ sockets \subseteq Socket
    BY CtxFacts DEF Lives
  <2>5. interrupts \in 0..MaxInterrupts /\ connects \in 0..MaxConnects /\ reaper_mailbox \in Seq(Reports)
    BY CtxFacts
  <2> QED BY <2>1, <2>2, <2>3, <2>4, <2>5 DEF CtxTypes
<1>2. SlotsInv
  <2>1. \A s \in Socket : s \in sockets <=> life[s] \in Here
    BY DEF Here
  <2>2. \A s \in sockets : slots[tid[s]] = s
    BY CtxFacts
  <2>3. \A k \in Ctx!Slot : slots[k] # None => slots[k] \in sockets /\ tid[slots[k]] = k
    BY CtxFacts
  <2>4. \A i, j \in DOMAIN empty_slots : empty_slots[i] = empty_slots[j] => i = j
    BY CtxFacts
  <2>5. \A k \in Ctx!Slot : slots[k] = None <=> \E j \in DOMAIN empty_slots : empty_slots[j] = k
    <3> SUFFICES ASSUME NEW k \in 1..max_sockets + 1
                 PROVE  slots[k] = None <=> \E j \in DOMAIN empty_slots : empty_slots[j] = k
      BY CtxFacts
    <3>1. slots[k] = None <=> k # 1
      BY CtxFacts
    <3>2. k # 1 => max_sockets + 2 - k \in 1..max_sockets /\ max_sockets + 2 - (max_sockets + 2 - k) = k
      BY CtxFacts
    <3>3. \A j \in 1..max_sockets : max_sockets + 2 - j # 1
      BY CtxFacts
    <3> QED BY <3>1, <3>2, <3>3
  <2> QED BY <2>1, <2>2, <2>3, <2>4, <2>5 DEF SlotsInv
<1>3. AwaitInv
  <2>1. \A s \in Socket : Finders(s) = {} /\ Places(mailbox[s], Awaited) = {} /\ OwnsOne(s) = 0
    BY CtxFacts DEF Finders, Places, OwnsOne
  <2>2. Cardinality({}) = 0
    BY FS_EmptySet
  <2>3. \A s \in Socket : Cardinality(Finders(s)) = 0 /\ Hits(mailbox[s], Awaited) = 0
    BY <2>1, <2>2 DEF Hits
  <2> QED BY <2>1, <2>3 DEF AwaitInv, Reaping, Waits
<1>4. Ctx!EndpointsAlive
  BY CtxFacts DEF Ctx!EndpointsAlive
<1>5. Hits(reaper_mailbox, Of("reaped")) = 0 /\ Hits(reaper_mailbox, Of("stop")) = 0
  <2>1. Places(reaper_mailbox, Of("reaped")) = {} /\ Places(reaper_mailbox, Of("stop")) = {}
    BY DEF Places
  <2> QED BY <2>1, FS_EmptySet DEF Hits
<1>6. ReaperInv
  <2>1. Handled = {} /\ GoneOnes = {}
    BY DEF Handled, GoneOnes, Reaped
  <2>2. Cardinality(Handled) = 0 /\ Cardinality(GoneOnes) = 0
    BY <2>1, FS_EmptySet
  <2>3. reaper_doing[1] = "nothing" /\ reaper_doing[2] = None
    BY DEF Ctx!Idle
  <2> QED BY <1>5, <2>2, <2>3 DEF ReaperInv
<1>7. StopInv
  BY <1>5, CtxFacts DEF StopInv, Ctx!Idle
<1> QED BY <1>1, <1>2, <1>3, <1>4, <1>6, <1>7 DEF CtxInv

(***************************************************************************)
(* What a step keeps of each part when it leaves its variables alone.      *)
(***************************************************************************)
LEMMA SlotsKept ==
  ASSUME CtxInv, UNCHANGED <<sockets, slots, empty_slots, tid>>,
         \A s \in Socket : life'[s] \in Here <=> life[s] \in Here
  PROVE  SlotsInv'
BY DEF CtxInv, SlotsInv

LEMMA WaitsKept ==
  ASSUME NEW s \in Socket, Waits(s), Finders(s)' = Finders(s), Hits(mailbox'[s], Awaited) = Hits(mailbox[s], Awaited),
         pending'[s] = pending[s], OwnsOne(s)' = OwnsOne(s),
         life[s] \in {"destroyed", "gone"} => life'[s] \in {"destroyed", "gone"}
  PROVE  Waits(s)'
BY DEF Waits

Early == {"unborn", "open", "closed"}

LEMMA AwaitKept ==
  ASSUME CtxInv, UNCHANGED <<joining, pending, mailbox, owns, connects>>,
         \A s \in Socket : \/ life'[s] = life[s]
                           \/ life[s] \in Early /\ life'[s] \in {"open", "closed"}
                           \/ life[s] \in {"leaving", "destroyed"} /\ life'[s] \in {"destroyed", "gone"}
  PROVE  AwaitInv'
<1>1. \A s \in Socket : Waits(s)'
  <2> SUFFICES ASSUME NEW s \in Socket PROVE Waits(s)'
    OBVIOUS
  <2>1. Finders(s)' = Finders(s) /\ OwnsOne(s)' = OwnsOne(s)
    BY DEF Finders, OwnsOne, Early
  <2>2. Waits(s) /\ (life[s] \in {"destroyed", "gone"} => life'[s] \in {"destroyed", "gone"})
    BY DEF CtxInv, AwaitInv, Early
  <2> QED BY <2>1, <2>2, WaitsKept
<1>2. \A s \in Socket : life'[s] = "leaving" => pending'[s] = 0
  BY DEF CtxInv, AwaitInv
<1>3. \A s \in Socket : pending'[s] <= connects' + Reaping(s)'
  BY DEF CtxInv, AwaitInv, Reaping, Early
<1>4. \A s \in Socket : joining'[s] # None => life'[joining'[s]] \in {"open", "closed", "reaping"}
  <2> SUFFICES ASSUME NEW s \in Socket, joining[s] # None PROVE life'[joining[s]] \in {"open", "closed", "reaping"}
    OBVIOUS
  <2>1. joining[s] \in Socket /\ life[joining[s]] \in {"open", "closed", "reaping"}
    BY DEF CtxInv, CtxTypes, AwaitInv
  <2> QED BY <2>1
<1> QED BY <1>1, <1>2, <1>3, <1>4 DEF AwaitInv

LEMMA EndpointsKept ==
  ASSUME CtxInv, endpoints' = endpoints,
         \A s \in Socket : life[s] \in {"open", "closed"} => life'[s] \in {"open", "closed"}
  PROVE  Ctx!EndpointsAlive'
BY DEF CtxInv, CtxTypes, Ctx!EndpointsAlive

LEMMA ReaperKept ==
  ASSUME CtxInv, UNCHANGED <<reaper_mailbox, reaper_sockets, reaper_doing, term_mailbox>>,
         \A s \in Socket : \/ life'[s] = life[s]
                           \/ life[s] = "unborn" /\ life'[s] = "open"
                           \/ life[s] = "reaping" /\ life'[s] = "leaving"
  PROVE  ReaperInv'
<1>1. Handled' = Handled /\ GoneOnes' = GoneOnes
  BY DEF Handled, GoneOnes, Reaped
<1>2. \A s \in Socket : life'[s] = "destroyed" <=> life[s] = "destroyed"
  OBVIOUS
<1>3. \A s \in Socket : /\ life[s] = "closed" => life'[s] = "closed"
                        /\ life[s] \in {"leaving", "destroyed"} => life'[s] \in {"leaving", "destroyed"}
  OBVIOUS
<1>4. ReaperInv
  BY DEF CtxInv
<1> QED BY <1>1, <1>2, <1>3, <1>4 DEF ReaperInv

LEMMA StopKept ==
  ASSUME CtxInv, UNCHANGED <<ctx_terminating, sockets, reaper_mailbox, reaper_terminating, reaper_doing>>,
         term' = term \/ (term \notin {"idle", "stopping"} /\ term' \notin {"idle", "stopping"}),
         life'[Log] = life[Log], reaper_doing[1] = "finished" => life' = life
  PROVE  StopInv'
BY DEF CtxInv, StopInv, Ctx!DoneWhenAllGone

LEMMA WhenFinished ==
  ASSUME CtxInv, reaper_doing[1] = "finished"
  PROVE  /\ sockets = {} /\ ctx_terminating /\ reaper_mailbox = <<>> /\ term \notin {"idle", "stopping"}
         /\ \A s \in Socket : life[s] \in {"unborn", "gone"}
BY DEF CtxInv, StopInv, Ctx!DoneWhenAllGone

LEMMA ReportAppended ==
  ASSUME CtxInv, NEW type \in {"reap", "stop", "reaped"}, NEW x \in Socket \union {None},
         reaper_mailbox' = Append(reaper_mailbox, <<type, x>>)
  PROVE  /\ reaper_mailbox' \in Seq(Reports)
         /\ \A t \in {"reap", "stop", "reaped"} :
              Hits(reaper_mailbox', Of(t)) = Hits(reaper_mailbox, Of(t)) + (IF t = type THEN 1 ELSE 0)
         /\ DOMAIN reaper_mailbox' = DOMAIN reaper_mailbox \union {Len(reaper_mailbox) + 1}
         /\ Len(reaper_mailbox) + 1 \notin DOMAIN reaper_mailbox
         /\ \A j \in DOMAIN reaper_mailbox : reaper_mailbox'[j] = reaper_mailbox[j]
         /\ reaper_mailbox'[Len(reaper_mailbox) + 1] = <<type, x>>
<1>1. reaper_mailbox \in Seq(Reports) /\ <<type, x>> \in Reports
  BY DEF CtxInv, CtxTypes, Reports
<1>2. \A t \in {"reap", "stop", "reaped"} : <<type, x>> \in Of(t) <=> t = type
  BY DEF Of
<1>3. \A t \in {"reap", "stop", "reaped"} :
        Hits(reaper_mailbox', Of(t)) = Hits(reaper_mailbox, Of(t)) + (IF t = type THEN 1 ELSE 0)
  <2> SUFFICES ASSUME NEW t \in {"reap", "stop", "reaped"}
               PROVE  Hits(reaper_mailbox', Of(t)) = Hits(reaper_mailbox, Of(t)) + (IF t = type THEN 1 ELSE 0)
    OBVIOUS
  <2> DEFINE e == <<type, x>>
  <2>1. e \in Reports /\ (e \in Of(t) <=> t = type) /\ reaper_mailbox' = Append(reaper_mailbox, e)
    BY <1>1, <1>2
  <2> HIDE DEF e
  <2>2. Hits(Append(reaper_mailbox, e), Of(t)) = Hits(reaper_mailbox, Of(t)) + (IF e \in Of(t) THEN 1 ELSE 0)
    BY <1>1, <2>1, HitsAppend
  <2> QED BY <2>1, <2>2
<1> QED BY <1>1, <1>3

LEMMA ReportTaken ==
  ASSUME CtxInv, reaper_mailbox # <<>>, reaper_mailbox' = Tail(reaper_mailbox)
  PROVE  /\ reaper_mailbox' \in Seq(Reports) /\ Head(reaper_mailbox) \in Reports
         /\ Head(reaper_mailbox) = reaper_mailbox[1] /\ 1 \in DOMAIN reaper_mailbox
         /\ \A t \in {"reap", "stop", "reaped"} :
              Hits(reaper_mailbox', Of(t)) = Hits(reaper_mailbox, Of(t)) - (IF Head(reaper_mailbox)[1] = t THEN 1 ELSE 0)
         /\ \A j \in DOMAIN reaper_mailbox' : j \in Nat \ {0} /\ j + 1 \in DOMAIN reaper_mailbox /\ reaper_mailbox'[j] = reaper_mailbox[j + 1]
<1>1. reaper_mailbox \in Seq(Reports)
  BY DEF CtxInv, CtxTypes
<1>2. Head(reaper_mailbox) \in Reports /\ Head(reaper_mailbox) = reaper_mailbox[1] /\ 1 \in DOMAIN reaper_mailbox
  BY <1>1
<1>3. \A t \in {"reap", "stop", "reaped"} : Head(reaper_mailbox) \in Of(t) <=> Head(reaper_mailbox)[1] = t
  BY <1>2 DEF Of, Reports
<1>4. \A t \in {"reap", "stop", "reaped"} :
        Hits(reaper_mailbox', Of(t)) = Hits(reaper_mailbox, Of(t)) - (IF Head(reaper_mailbox)[1] = t THEN 1 ELSE 0)
  <2> SUFFICES ASSUME NEW t \in {"reap", "stop", "reaped"}
               PROVE  Hits(Tail(reaper_mailbox), Of(t)) = Hits(reaper_mailbox, Of(t)) - (IF Head(reaper_mailbox)[1] = t THEN 1 ELSE 0)
    OBVIOUS
  <2>1. Hits(Tail(reaper_mailbox), Of(t)) = Hits(reaper_mailbox, Of(t)) - (IF Head(reaper_mailbox) \in Of(t) THEN 1 ELSE 0)
    BY <1>1, HitsTail
  <2> QED BY <1>3, <2>1
<1>5. \A j \in DOMAIN reaper_mailbox' : j \in Nat \ {0} /\ j + 1 \in DOMAIN reaper_mailbox /\ reaper_mailbox'[j] = reaper_mailbox[j + 1]
  BY <1>1
<1>6. reaper_mailbox' \in Seq(Reports)
  BY <1>1
<1> QED BY <1>2, <1>4, <1>5, <1>6

\* The numbers of the reports.
LEMMA HitsReports == ASSUME CtxTypes PROVE \A t \in {"reap", "stop", "reaped"} : Hits(reaper_mailbox, Of(t)) \in Nat
BY HitsType DEF CtxTypes

\* Closing a socket hands it to the reaper.
LEMMA ReaperTold ==
  ASSUME CtxInv, NEW s \in Socket, life[s] = "open", life' = [life EXCEPT ![s] = "closed"],
         reaper_mailbox' = Append(reaper_mailbox, <<"reap", s>>), UNCHANGED <<reaper_sockets, reaper_doing, term_mailbox>>
  PROVE  ReaperInv'
<1> DEFINE new == Len(reaper_mailbox) + 1
<1>1. /\ \A t \in {"reap", "stop", "reaped"} : Hits(reaper_mailbox', Of(t)) = Hits(reaper_mailbox, Of(t)) + (IF t = "reap" THEN 1 ELSE 0)
      /\ DOMAIN reaper_mailbox' = DOMAIN reaper_mailbox \union {new} /\ new \notin DOMAIN reaper_mailbox
      /\ \A j \in DOMAIN reaper_mailbox : reaper_mailbox'[j] = reaper_mailbox[j]
      /\ reaper_mailbox'[new] = <<"reap", s>>
  BY ReportAppended
<1>2. Hits(reaper_mailbox', Of("reaped")) = Hits(reaper_mailbox, Of("reaped"))
  BY <1>1, HitsReports DEF CtxInv
<1>3. ReaperInv /\ life \in [Socket -> Lives]
  BY DEF CtxInv, CtxTypes
<1>4. Handled' = Handled /\ GoneOnes' = GoneOnes
  BY <1>3 DEF Handled, GoneOnes, Reaped
<1> HIDE DEF new
<1>5. \A j \in DOMAIN reaper_mailbox' : reaper_mailbox'[j][1] = "reap" =>
        reaper_mailbox'[j][2] \in Socket /\ life'[reaper_mailbox'[j][2]] = "closed"
  BY <1>1, <1>3 DEF ReaperInv
<1>6. \A i, j \in DOMAIN reaper_mailbox' :
        reaper_mailbox'[i][1] = "reap" /\ reaper_mailbox'[i] = reaper_mailbox'[j] => i = j
  <2>1. \A j \in DOMAIN reaper_mailbox : reaper_mailbox[j] # <<"reap", s>>
    BY <1>3 DEF ReaperInv
  <2> QED BY <1>1, <1>3, <2>1 DEF ReaperInv
<1>7. \A x \in Socket : life'[x] = "destroyed" => life[x] = "destroyed"
  BY <1>3
<1>8. \A x \in Socket : life[x] \in {"leaving", "destroyed"} => life'[x] = life[x]
  BY <1>3
<1> QED BY <1>2, <1>3, <1>4, <1>5, <1>6, <1>7, <1>8 DEF ReaperInv

(***************************************************************************)
(* The steps.                                                              *)
(***************************************************************************)
LEMMA CreateStep == ASSUME CtxInv, NEW s \in Socket, Ctx!CreateSocket(s) PROVE CtxInv'
<1> USE DEF Ctx!CreateSocket
<1> DEFINE k == empty_slots[Len(empty_slots)]
<1>1. empty_slots \in Seq(Ctx!Slot) /\ empty_slots # <<>> /\ life \in [Socket -> Lives] /\ tid \in [Socket -> Ctx!Slot]
      /\ slots \in [Ctx!Slot -> Socket \union {None}] /\ sockets \subseteq Socket
  BY DEF CtxInv, CtxTypes
<1>2. Ctx!Last(empty_slots) = k /\ k \in Ctx!Slot
  BY <1>1 DEF Ctx!Last
<1>3. /\ empty_slots' \in Seq(Ctx!Slot) /\ DOMAIN empty_slots' = 1..Len(empty_slots) - 1
      /\ \A j \in 1..Len(empty_slots) - 1 : empty_slots'[j] = empty_slots[j]
  <2>1. empty_slots' = SubSeq(empty_slots, 1, Len(empty_slots) - 1)
    BY DEF Ctx!Front
  <2>2. Len(empty_slots) \in Nat \ {0}
    BY <1>1
  <2> QED BY <1>1, <2>1, <2>2
<1>4. slots[k] = None
  BY <1>1, <1>2 DEF CtxInv, SlotsInv
<1>5. s \notin sockets /\ life[s] = "unborn" /\ None \notin Socket
  BY CtxFacts DEF CtxInv, SlotsInv, Here
<1>6. CtxTypes'
  <2>1. life' \in [Socket -> Lives] /\ tid' \in [Socket -> Ctx!Slot] /\ slots' \in [Ctx!Slot -> Socket \union {None}]
        /\ sockets' \subseteq Socket
    BY <1>1, <1>2 DEF Lives
  <2> QED BY <1>3, <2>1 DEF CtxInv, CtxTypes, Ctx!termVars, Ctx!ownVars, Ctx!joinVars, Ctx!reaperVars
<1>7. SlotsInv'
  <2>1. SlotsInv
    BY DEF CtxInv
  <2>2. \A x \in Socket : x \in sockets' <=> life'[x] \in Here
    BY <1>1, <2>1 DEF SlotsInv, Here
  <2>3. \A x \in sockets : tid[x] # k
    BY <1>2, <1>4, <1>5, <1>1, <2>1 DEF SlotsInv
  <2>4. \A x \in sockets' : slots'[tid'[x]] = x
    <3> SUFFICES ASSUME NEW x \in sockets' PROVE slots'[tid'[x]] = x
      OBVIOUS
    <3>1. CASE x = s
      BY <1>1, <1>2, <3>1
    <3>2. CASE x # s
      <4>1. x \in sockets /\ tid'[x] = tid[x] /\ tid[x] # k /\ slots[tid[x]] = x /\ tid[x] \in Ctx!Slot
        BY <1>1, <1>2, <2>1, <2>3, <3>2 DEF SlotsInv
      <4> QED BY <1>1, <1>2, <4>1
    <3> QED BY <3>1, <3>2
  <2>5. \A i \in Ctx!Slot : slots'[i] # None => slots'[i] \in sockets' /\ tid'[slots'[i]] = i
    <3> SUFFICES ASSUME NEW i \in Ctx!Slot, slots'[i] # None PROVE slots'[i] \in sockets' /\ tid'[slots'[i]] = i
      OBVIOUS
    <3>1. CASE i = k
      BY <1>1, <1>2, <3>1
    <3>2. CASE i # k
      <4>1. slots'[i] = slots[i] /\ slots[i] \in sockets /\ tid[slots[i]] = i /\ slots[i] # s
        BY <1>1, <1>2, <1>5, <2>1, <3>2 DEF SlotsInv
      <4> QED BY <1>1, <1>2, <4>1
    <3> QED BY <3>1, <3>2
  <2>6. \A i, j \in DOMAIN empty_slots' : empty_slots'[i] = empty_slots'[j] => i = j
    BY <1>1, <1>3, <2>1 DEF SlotsInv
  <2>7. \A i \in Ctx!Slot : slots'[i] = None <=> \E j \in DOMAIN empty_slots' : empty_slots'[j] = i
    <3> SUFFICES ASSUME NEW i \in Ctx!Slot
                 PROVE  slots'[i] = None <=> \E j \in DOMAIN empty_slots' : empty_slots'[j] = i
      OBVIOUS
    <3>1. CASE i = k
      <4>1. slots'[i] # None
        BY <1>1, <1>2, <1>5, <3>1
      <4>2. \A j \in DOMAIN empty_slots' : empty_slots'[j] # k
        <5>1. \A j \in 1..Len(empty_slots) - 1 : j # Len(empty_slots) /\ j \in DOMAIN empty_slots /\ Len(empty_slots) \in DOMAIN empty_slots
          BY <1>1
        <5> QED BY <1>3, <2>1, <5>1 DEF SlotsInv
      <4> QED BY <3>1, <4>1, <4>2
    <3>2. CASE i # k
      <4>1. slots'[i] = slots[i]
        BY <1>1, <1>2, <3>2
      <4>2. \A j \in DOMAIN empty_slots : empty_slots[j] = i => j \in DOMAIN empty_slots'
        BY <1>1, <1>3, <3>2
      <4>3. DOMAIN empty_slots' \subseteq DOMAIN empty_slots
        BY <1>1, <1>3
      <4> QED BY <1>3, <2>1, <4>1, <4>2, <4>3 DEF SlotsInv
    <3> QED BY <3>1, <3>2
  <2> QED BY <2>2, <2>4, <2>5, <2>6, <2>7 DEF SlotsInv
<1>8. \A x \in Socket : life'[x] = life[x] \/ (life[x] = "unborn" /\ life'[x] = "open")
  <2>1. life' = [life EXCEPT ![s] = "open"] /\ life[s] = "unborn" /\ life \in [Socket -> Lives]
    BY <1>1
  <2> QED BY <2>1
<1>9. AwaitInv'
  <2>1. \A x \in Socket : life'[x] = life[x] \/ (life[x] \in Early /\ life'[x] \in {"open", "closed"})
    BY <1>8 DEF Early
  <2> QED BY <2>1, AwaitKept DEF Ctx!joinVars, Ctx!ownVars
<1>10. Ctx!EndpointsAlive'
  BY <1>8, EndpointsKept
<1>11. ReaperInv'
  BY <1>8, ReaperKept DEF Ctx!termVars, Ctx!reaperVars
<1>12. StopInv'
  <2>1. ~ctx_terminating /\ reaper_doing[1] # "finished" /\ sockets' # {}
    BY WhenFinished
  <2>2. StopInv
    BY DEF CtxInv
  <2>3. Hits(reaper_mailbox, Of("stop")) \in Nat
    BY HitsReports DEF CtxInv
  <2>4. term = "idle" => life'[Log] = "open"
    BY <1>8, <2>2, CtxFacts DEF StopInv
  <2> QED BY <2>1, <2>2, <2>3, <2>4 DEF StopInv, Ctx!termVars, Ctx!reaperVars, Ctx!DoneWhenAllGone
<1> QED BY <1>6, <1>7, <1>9, <1>10, <1>11, <1>12 DEF CtxInv

LEMMA LaunchStep == ASSUME CtxInv, NEW s \in Socket, Ctx!LaunchChild(s) PROVE CtxInv'
<1> USE DEF Ctx!LaunchChild, Ctx!Usable, Ctx!ctxVars, Ctx!termVars, Ctx!joinVars, Ctx!reaperVars
<1>1. owns' \in [Socket -> BOOLEAN] /\ \A x \in Socket : x # s => owns'[x] = owns[x]
  BY DEF CtxInv, CtxTypes
<1>2. CtxTypes'
  BY <1>1 DEF CtxInv, CtxTypes
<1>3. SlotsInv'
  BY SlotsKept
<1>4. AwaitInv'
  <2>1. \A x \in Socket : Waits(x)'
    <3> SUFFICES ASSUME NEW x \in Socket PROVE Waits(x)'
      OBVIOUS
    <3>1. Finders(x)' = Finders(x) /\ OwnsOne(x)' = OwnsOne(x)
      BY <1>1 DEF Finders, OwnsOne
    <3>2. Waits(x)
      BY DEF CtxInv, AwaitInv
    <3> QED BY <3>1, <3>2, WaitsKept
  <2> QED BY <2>1 DEF CtxInv, AwaitInv, Reaping
<1>5. Ctx!EndpointsAlive'
  BY EndpointsKept
<1>6. ReaperInv'
  BY ReaperKept
<1>7. StopInv'
  BY StopKept
<1> QED BY <1>2, <1>3, <1>4, <1>5, <1>6, <1>7 DEF CtxInv

LEMMA BindStep == ASSUME CtxInv, NEW s \in Socket, NEW e \in Endpoint, Ctx!Bind(s, e) PROVE CtxInv'
<1> USE DEF Ctx!Bind, Ctx!Usable, Ctx!ctxVars, Ctx!termVars, Ctx!ownVars, Ctx!joinVars, Ctx!reaperVars
<1>1. CtxTypes'
  <2>1. endpoints' \in [Endpoint -> Socket \union {None}]
    BY DEF CtxInv, CtxTypes
  <2> QED BY <2>1 DEF CtxInv, CtxTypes
<1>2. SlotsInv'
  BY SlotsKept
<1>3. AwaitInv'
  BY AwaitKept
<1>4. Ctx!EndpointsAlive'
  BY DEF CtxInv, CtxTypes, Ctx!EndpointsAlive
<1>5. ReaperInv'
  BY ReaperKept
<1>6. StopInv'
  BY StopKept
<1> QED BY <1>1, <1>2, <1>3, <1>4, <1>5, <1>6 DEF CtxInv

\* Of the terms of Waits.
LEMMA WaitTypes ==
  ASSUME CtxInv, NEW s \in Socket
  PROVE  /\ Finders(s) \subseteq Socket /\ Cardinality(Finders(s)) \in Nat
         /\ mailbox[s] \in Seq({"stop", "bind", "term_ack"}) /\ Hits(mailbox[s], Awaited) \in Nat
         /\ OwnsOne(s) \in 0..1 /\ pending[s] \in Nat /\ connects \in Nat
<1>1. Finders(s) \subseteq Socket
  BY DEF Finders
<1>2. Cardinality(Finders(s)) \in Nat
  BY <1>1, SetsOfSockets
<1>3. mailbox[s] \in Seq({"stop", "bind", "term_ack"}) /\ pending[s] \in Nat /\ connects \in Nat
  BY DEF CtxInv, CtxTypes
<1>4. Hits(mailbox[s], Awaited) \in Nat
  BY <1>3, HitsType
<1> QED BY <1>1, <1>2, <1>3, <1>4 DEF OwnsOne

LEMMA ConnectStep == ASSUME CtxInv, NEW s \in Socket, NEW e \in Endpoint, Ctx!Connect(s, e) PROVE CtxInv'
<1> USE DEF Ctx!Connect, Ctx!Usable, Ctx!ctxVars, Ctx!termVars, Ctx!reaperVars
<1> DEFINE p == endpoints[e]
<1>1. p \in Socket /\ life[p] \in {"open", "closed"} /\ None \notin Socket /\ joining[s] = None
      /\ pending' = [pending EXCEPT ![p] = @ + 1] /\ joining' = [joining EXCEPT ![s] = p] /\ connects' = connects + 1
  BY CtxFacts DEF CtxInv, CtxTypes, Ctx!EndpointsAlive
<1>2. pending \in [Socket -> Nat] /\ joining \in [Socket -> Socket \union {None}] /\ connects \in 0..MaxConnects
  BY DEF CtxInv, CtxTypes
<1> HIDE DEF p
<1>3. CtxTypes'
  <2>1. pending' \in [Socket -> Nat] /\ joining' \in [Socket -> Socket \union {None}]
    BY <1>1, <1>2
  <2>2. connects' \in 0..MaxConnects
    BY <1>1, <1>2, CtxFacts
  <2> QED BY <2>1, <2>2 DEF CtxInv, CtxTypes
<1>4. SlotsInv'
  BY SlotsKept
<1>5. AwaitInv'
  <2>1. \A x \in Socket : Waits(x)'
    <3> SUFFICES ASSUME NEW x \in Socket PROVE Waits(x)'
      OBVIOUS
    <3>1. Waits(x) /\ OwnsOne(x)' = OwnsOne(x)
      BY DEF CtxInv, AwaitInv, OwnsOne
    <3>2. CASE x = p
      <4>1. Finders(x)' = Finders(x) \union {s} /\ s \notin Finders(x)
        BY <1>1, <1>2, <3>2 DEF Finders
      <4>2. Cardinality(Finders(x)') = Cardinality(Finders(x)) + 1
        BY <4>1, WaitTypes, OneMore
      <4>3. pending'[x] = pending[x] + 1
        BY <1>1, <1>2, <3>2
      <4>4. mailbox' = mailbox /\ life' = life
        OBVIOUS
      <4>5. pending[x] = Cardinality(Finders(x)) + Hits(mailbox[x], Awaited) + OwnsOne(x)
        BY <1>1, <3>1, <3>2 DEF Waits
      <4>6. Cardinality(Finders(x)) \in Nat /\ Hits(mailbox[x], Awaited) \in Nat /\ OwnsOne(x) \in 0..1
        BY WaitTypes
      <4>7. pending'[x] = Cardinality(Finders(x)') + Hits(mailbox[x], Awaited) + OwnsOne(x)'
        BY <3>1, <4>2, <4>3, <4>5, <4>6
      <4> QED BY <4>4, <4>7 DEF Waits
    <3>3. CASE x # p
      <4>1. Finders(x)' = Finders(x) /\ pending'[x] = pending[x]
        BY <1>1, <1>2, <3>3 DEF Finders
      <4> QED BY <3>1, <4>1, WaitsKept
    <3> QED BY <3>2, <3>3
  <2>2. \A x \in Socket : life'[x] = "leaving" => pending'[x] = 0
    BY <1>1, <1>2 DEF CtxInv, AwaitInv
  <2>3. \A x \in Socket : pending'[x] <= connects' + Reaping(x)'
    <3> SUFFICES ASSUME NEW x \in Socket PROVE pending'[x] <= connects' + Reaping(x)'
      OBVIOUS
    <3>1. pending[x] <= connects + Reaping(x) /\ Reaping(x)' = Reaping(x) /\ Reaping(x) \in 0..1
      BY DEF CtxInv, AwaitInv, Reaping
    <3>2. pending'[x] <= pending[x] + 1 /\ pending'[x] \in Nat
      BY <1>1, <1>2
    <3> QED BY <1>1, <1>2, <3>1, <3>2, CtxFacts
  <2>4. \A x \in Socket : joining'[x] # None => life'[joining'[x]] \in {"open", "closed", "reaping"}
    BY <1>1, <1>2 DEF CtxInv, AwaitInv
  <2> QED BY <2>1, <2>2, <2>3, <2>4 DEF AwaitInv
<1>6. Ctx!EndpointsAlive'
  BY EndpointsKept
<1>7. ReaperInv'
  BY ReaperKept
<1>8. StopInv'
  BY StopKept
<1> QED BY <1>3, <1>4, <1>5, <1>6, <1>7, <1>8 DEF CtxInv

\* The commands in a mailbox that get one more.
LEMMA MailAppended ==
  ASSUME CtxInv, NEW p \in Socket, NEW cmd \in {"stop", "bind", "term_ack"}
  PROVE  /\ Append(mailbox[p], cmd) \in Seq({"stop", "bind", "term_ack"})
         /\ Hits(Append(mailbox[p], cmd), Awaited) = Hits(mailbox[p], Awaited) + (IF cmd = "stop" THEN 0 ELSE 1)
<1>1. mailbox[p] \in Seq({"stop", "bind", "term_ack"})
  BY DEF CtxInv, CtxTypes
<1>2. cmd \in Awaited <=> cmd # "stop"
  BY DEF Awaited
<1>3. Hits(Append(mailbox[p], cmd), Awaited) = Hits(mailbox[p], Awaited) + (IF cmd \in Awaited THEN 1 ELSE 0)
  BY <1>1, HitsAppend
<1> QED BY <1>1, <1>2, <1>3

LEMMA SendBindStep == ASSUME CtxInv, NEW s \in Socket, Ctx!SendBind(s) PROVE CtxInv'
<1> USE DEF Ctx!SendBind, Ctx!ctxVars, Ctx!termVars, Ctx!ownVars, Ctx!reaperVars
<1> DEFINE p == joining[s]
<1>1. p \in Socket /\ life[p] \in {"open", "closed", "reaping"} /\ None \notin Socket
  BY CtxFacts DEF CtxInv, CtxTypes, AwaitInv
<1>2. slots[tid[p]] = p
  BY <1>1 DEF CtxInv, SlotsInv, Here
<1>3. mailbox' = [mailbox EXCEPT ![p] = Append(@, "bind")]
  BY <1>1, <1>2
<1>4. joining' = [joining EXCEPT ![s] = None] /\ joining[s] = p
  OBVIOUS
<1>5. mailbox \in [Socket -> Seq({"stop", "bind", "term_ack"})] /\ joining \in [Socket -> Socket \union {None}]
  BY DEF CtxInv, CtxTypes
<1> HIDE DEF p
<1>6. CtxTypes'
  <2>1. mailbox' \in [Socket -> Seq({"stop", "bind", "term_ack"})] /\ joining' \in [Socket -> Socket \union {None}]
    BY <1>1, <1>3, <1>4, <1>5
  <2> QED BY <2>1 DEF CtxInv, CtxTypes
<1>7. SlotsInv'
  BY SlotsKept
<1>8. AwaitInv'
  <2>1. \A x \in Socket : Waits(x)'
    <3> SUFFICES ASSUME NEW x \in Socket PROVE Waits(x)'
      OBVIOUS
    <3>1. Waits(x) /\ OwnsOne(x)' = OwnsOne(x)
      BY DEF CtxInv, AwaitInv, OwnsOne
    <3>2. CASE x = p
      <4>1. Finders(x) = Finders(x)' \union {s} /\ s \notin Finders(x)' /\ Finders(x)' \subseteq Socket
        BY <1>1, <1>4, <1>5, <3>2 DEF Finders
      <4>2. Cardinality(Finders(x)) = Cardinality(Finders(x)') + 1
        BY <4>1, OneMore
      <4>3. Hits(mailbox'[x], Awaited) = Hits(mailbox[x], Awaited) + 1
        <5>1. mailbox'[x] = Append(mailbox[x], "bind")
          BY <1>3, <1>5, <3>2
        <5> QED BY <5>1, MailAppended
      <4>4. Cardinality(Finders(x)') \in Nat /\ Hits(mailbox[x], Awaited) \in Nat /\ OwnsOne(x) \in 0..1
        BY <4>1, WaitTypes, SetsOfSockets
      <4>5. pending[x] = Cardinality(Finders(x)) + Hits(mailbox[x], Awaited) + OwnsOne(x)
        BY <1>1, <3>1, <3>2 DEF Waits
      <4>6. pending[x] = Cardinality(Finders(x)') + Hits(mailbox'[x], Awaited) + OwnsOne(x)'
        BY <3>1, <4>2, <4>3, <4>4, <4>5
      <4>7. pending' = pending
        OBVIOUS
      <4> QED BY <4>6, <4>7 DEF Waits
    <3>3. CASE x # p
      <4>1. Finders(x)' = Finders(x) /\ mailbox'[x] = mailbox[x]
        BY <1>1, <1>3, <1>4, <1>5, <3>3 DEF Finders
      <4> QED BY <3>1, <4>1, WaitsKept
    <3> QED BY <3>2, <3>3
  <2>2. \A x \in Socket : joining'[x] # None => joining'[x] = joining[x]
    BY <1>4, <1>5
  <2> QED BY <2>1, <2>2 DEF CtxInv, AwaitInv, Reaping
<1>9. Ctx!EndpointsAlive'
  BY EndpointsKept
<1>10. ReaperInv'
  BY ReaperKept
<1>11. StopInv'
  BY StopKept
<1> QED BY <1>6, <1>7, <1>8, <1>9, <1>10, <1>11 DEF CtxInv

\* zmq_close, and the log socket closed by zmq_term.
LEMMA CloseDoes ==
  ASSUME CtxInv, NEW s \in Socket, life[s] = "open", life' = [life EXCEPT ![s] = "closed"],
         reaper_mailbox' = Append(reaper_mailbox, <<"reap", s>>),
         UNCHANGED <<Ctx!ctxVars, endpoints, term_mailbox, interrupts, tid, mailbox, ctx_terminated, Ctx!ownVars,
                     Ctx!joinVars, reaper_sockets, reaper_terminating, reaper_doing>>,
         \/ term' = term /\ (s = Log => term # "idle")
         \/ term = "idle" /\ term' = "stopping"
  PROVE  CtxInv'
<1> USE DEF Ctx!ctxVars, Ctx!ownVars, Ctx!joinVars
<1>1. life \in [Socket -> Lives] /\ \A x \in Socket : life'[x] = IF x = s THEN "closed" ELSE life[x]
  BY DEF CtxInv, CtxTypes
<1>2. /\ reaper_mailbox' \in Seq(Reports)
      /\ \A t \in {"reap", "stop", "reaped"} : Hits(reaper_mailbox', Of(t)) = Hits(reaper_mailbox, Of(t)) + (IF t = "reap" THEN 1 ELSE 0)
  BY ReportAppended
<1>3. CtxTypes'
  <2>1. life' \in [Socket -> Lives]
    BY <1>1 DEF Lives
  <2>2. term' \in {"idle", "stopping", "waiting", "interrupted", "deleting", "returned"}
    BY DEF CtxInv, CtxTypes
  <2> QED BY <1>2, <2>1, <2>2 DEF CtxInv, CtxTypes
<1>4. SlotsInv'
  BY <1>1, SlotsKept DEF Here
<1>5. AwaitInv'
  <2>1. \A x \in Socket : life'[x] = life[x] \/ (life[x] \in Early /\ life'[x] \in {"open", "closed"})
    BY <1>1 DEF Early
  <2> QED BY <2>1, AwaitKept
<1>6. Ctx!EndpointsAlive'
  <2>1. \A x \in Socket : life[x] \in {"open", "closed"} => life'[x] \in {"open", "closed"}
    BY <1>1
  <2> QED BY <2>1, EndpointsKept
<1>7. ReaperInv'
  BY ReaperTold
<1>8. StopInv'
  <2>1. Hits(reaper_mailbox', Of("stop")) = Hits(reaper_mailbox, Of("stop"))
    BY <1>2, HitsReports DEF CtxInv
  <2>2. reaper_doing[1] # "finished"
    BY WhenFinished
  <2>3. StopInv
    BY DEF CtxInv
  <2>4. term' = "idle" => life'[Log] = "open"
    BY <1>1, <2>3, CtxFacts DEF StopInv
  <2> QED BY <2>1, <2>2, <2>3, <2>4 DEF StopInv
<1> QED BY <1>3, <1>4, <1>5, <1>6, <1>7, <1>8 DEF CtxInv

LEMMA CloseStep == ASSUME CtxInv, NEW s \in Socket, Ctx!Close(s) PROVE CtxInv'
<1>1. life[s] = "open" /\ s # Log /\ life' = [life EXCEPT ![s] = "closed"] /\ term' = term
      /\ reaper_mailbox' = Append(reaper_mailbox, <<"reap", s>>)
  BY DEF Ctx!Close, Ctx!Usable, Ctx!termVars
<1>2. UNCHANGED <<Ctx!ctxVars, endpoints, term_mailbox, interrupts, tid, mailbox, ctx_terminated, Ctx!ownVars,
                  Ctx!joinVars, reaper_sockets, reaper_terminating, reaper_doing>>
  BY DEF Ctx!Close, Ctx!termVars
<1> QED BY <1>1, <1>2, CloseDoes

\* The steps of zmq_term that touch nothing but its own state.
LEMMA TermKept ==
  ASSUME CtxInv, UNCHANGED <<Ctx!ctxVars, endpoints, life, tid, mailbox, ctx_terminated, Ctx!ownVars, Ctx!joinVars,
                             Ctx!reaperVars>>,
         term' \in {"idle", "stopping", "waiting", "interrupted", "deleting", "returned"},
         term \notin {"idle", "stopping"}, term' \notin {"idle", "stopping"},
         term_mailbox' \in {<<>>, term_mailbox}, interrupts' \in 0..MaxInterrupts
  PROVE  CtxInv'
<1> USE DEF Ctx!ctxVars, Ctx!ownVars, Ctx!joinVars, Ctx!reaperVars
<1>1. CtxTypes'
  BY DEF CtxInv, CtxTypes
<1>2. SlotsInv'
  BY SlotsKept
<1>3. AwaitInv'
  BY AwaitKept
<1>4. Ctx!EndpointsAlive'
  BY EndpointsKept
<1>5. ReaperInv'
  <2>1. Handled' = Handled /\ GoneOnes' = GoneOnes
    BY DEF Handled, GoneOnes
  <2> QED BY <2>1 DEF CtxInv, ReaperInv
<1>6. StopInv'
  BY StopKept
<1> QED BY <1>1, <1>2, <1>3, <1>4, <1>5, <1>6 DEF CtxInv

LEMMA StartTermStep == ASSUME CtxInv, Ctx!StartTerm PROVE CtxInv'
<1> USE DEF Ctx!StartTerm
<1>1. ctx_terminating <=> term \notin {"idle", "stopping"}
  BY DEF CtxInv, StopInv
<1>2. CASE ctx_terminating
  <2>1. UNCHANGED <<Ctx!ctxVars, endpoints, life, tid, mailbox, ctx_terminated, Ctx!ownVars, Ctx!joinVars,
                    Ctx!reaperVars>>
    BY <1>2 DEF Ctx!reaperVars
  <2>2. term' = "waiting" /\ term \notin {"idle", "stopping"} /\ term_mailbox' = term_mailbox /\ interrupts' \in 0..MaxInterrupts
    BY <1>1, <1>2 DEF CtxInv, CtxTypes
  <2> QED BY <2>1, <2>2, TermKept
<1>3. CASE ~ctx_terminating
  <2>1. term = "idle" /\ term' = "stopping" /\ life' = [life EXCEPT ![Log] = "closed"]
        /\ reaper_mailbox' = Append(reaper_mailbox, <<"reap", Log>>)
    BY <1>1, <1>3
  <2>2. Log \in Socket /\ life[Log] = "open"
    BY <2>1, CtxFacts DEF CtxInv, StopInv
  <2>3. UNCHANGED <<Ctx!ctxVars, endpoints, term_mailbox, interrupts, tid, mailbox, ctx_terminated, Ctx!ownVars,
                    Ctx!joinVars, reaper_sockets, reaper_terminating, reaper_doing>>
    OBVIOUS
  <2> QED BY <2>1, <2>2, <2>3, CloseDoes
<1> QED BY <1>2, <1>3

LEMMA InterruptStep == ASSUME CtxInv, Ctx!Interrupt PROVE CtxInv'
<1>1. term = "waiting" /\ term' = "interrupted" /\ term_mailbox' = term_mailbox /\ interrupts' \in 0..MaxInterrupts
  BY CtxFacts DEF Ctx!Interrupt, CtxInv, CtxTypes
<1>2. UNCHANGED <<Ctx!ctxVars, endpoints, life, tid, mailbox, ctx_terminated, Ctx!ownVars, Ctx!joinVars, Ctx!reaperVars>>
  BY DEF Ctx!Interrupt
<1> QED BY <1>1, <1>2, TermKept

LEMMA ReceiveDoneStep == ASSUME CtxInv, Ctx!ReceiveDone PROVE CtxInv'
<1>1. term = "waiting" /\ term' = "deleting" /\ term_mailbox' = <<>> /\ interrupts' \in 0..MaxInterrupts
  BY DEF Ctx!ReceiveDone, CtxInv, CtxTypes
<1>2. UNCHANGED <<Ctx!ctxVars, endpoints, life, tid, mailbox, ctx_terminated, Ctx!ownVars, Ctx!joinVars, Ctx!reaperVars>>
  BY DEF Ctx!ReceiveDone
<1> QED BY <1>1, <1>2, TermKept

LEMMA DeleteContextStep == ASSUME CtxInv, Ctx!DeleteContext PROVE CtxInv'
<1>1. term = "deleting" /\ term' = "returned" /\ term_mailbox' = term_mailbox /\ interrupts' \in 0..MaxInterrupts
  BY DEF Ctx!DeleteContext, CtxInv, CtxTypes
<1>2. UNCHANGED <<Ctx!ctxVars, endpoints, life, tid, mailbox, ctx_terminated, Ctx!ownVars, Ctx!joinVars, Ctx!reaperVars>>
  BY DEF Ctx!DeleteContext
<1> QED BY <1>1, <1>2, TermKept

LEMMA StopSocketsStep == ASSUME CtxInv, Ctx!StopSockets PROVE CtxInv'
<1> USE DEF Ctx!StopSockets, Ctx!ownVars, Ctx!joinVars
<1>1. mailbox \in [Socket -> Seq({"stop", "bind", "term_ack"})] /\ sockets \subseteq Socket
      /\ reaper_mailbox \in Seq(Reports) /\ ~ctx_terminating
  BY DEF CtxInv, CtxTypes, StopInv
<1>2. reaper_mailbox' = reaper_mailbox \/ (sockets = {} /\ reaper_mailbox' = Append(reaper_mailbox, <<"stop", None>>))
  OBVIOUS
<1>3. \A s \in Socket : mailbox'[s] = mailbox[s] \/ mailbox'[s] = Append(mailbox[s], "stop")
  BY <1>1
<1>4. \A s \in Socket : mailbox'[s] \in Seq({"stop", "bind", "term_ack"}) /\ Hits(mailbox'[s], Awaited) = Hits(mailbox[s], Awaited)
  <2> SUFFICES ASSUME NEW s \in Socket
               PROVE  mailbox'[s] \in Seq({"stop", "bind", "term_ack"}) /\ Hits(mailbox'[s], Awaited) = Hits(mailbox[s], Awaited)
    OBVIOUS
  <2>1. CASE mailbox'[s] = mailbox[s]
    BY <1>1, <2>1
  <2>2. CASE mailbox'[s] = Append(mailbox[s], "stop")
    BY <2>2, MailAppended, WaitTypes
  <2> QED BY <1>3, <2>1, <2>2
<1>5. Hits(reaper_mailbox, Of("stop")) = 0 /\ ~reaper_terminating /\ reaper_doing[1] # "finished"
  BY <1>1, HitsReports, WhenFinished DEF CtxInv, StopInv
<1>6. /\ reaper_mailbox' \in Seq(Reports)
      /\ Hits(reaper_mailbox', Of("reaped")) = Hits(reaper_mailbox, Of("reaped"))
      /\ Hits(reaper_mailbox', Of("stop")) \in 0..1
      /\ Hits(reaper_mailbox', Of("stop")) > 0 => sockets = {}
      /\ \A j \in DOMAIN reaper_mailbox' : reaper_mailbox'[j][1] = "reap" => j \in DOMAIN reaper_mailbox /\ reaper_mailbox'[j] = reaper_mailbox[j]
  <2>1. CASE reaper_mailbox' = reaper_mailbox
    BY <1>1, <1>5, <2>1
  <2>2. CASE sockets = {} /\ reaper_mailbox' = Append(reaper_mailbox, <<"stop", None>>)
    <3> DEFINE new == Len(reaper_mailbox) + 1
    <3>1. /\ reaper_mailbox' \in Seq(Reports)
          /\ \A t \in {"reap", "stop", "reaped"} : Hits(reaper_mailbox', Of(t)) = Hits(reaper_mailbox, Of(t)) + (IF t = "stop" THEN 1 ELSE 0)
          /\ DOMAIN reaper_mailbox' = DOMAIN reaper_mailbox \union {new}
          /\ \A j \in DOMAIN reaper_mailbox : reaper_mailbox'[j] = reaper_mailbox[j]
          /\ reaper_mailbox'[new] = <<"stop", None>>
      BY <2>2, ReportAppended
    <3> HIDE DEF new
    <3>2. Hits(reaper_mailbox', Of("reaped")) = Hits(reaper_mailbox, Of("reaped")) /\ Hits(reaper_mailbox', Of("stop")) = 1
      BY <1>5, <3>1, HitsReports DEF CtxInv
    <3>3. \A j \in DOMAIN reaper_mailbox' : reaper_mailbox'[j][1] = "reap" => j # new
      BY <3>1
    <3> QED BY <2>2, <3>1, <3>2, <3>3
  <2> QED BY <1>2, <2>1, <2>2
<1>7. CtxTypes'
  <2>1. mailbox' \in [Socket -> Seq({"stop", "bind", "term_ack"})]
    <3>1. mailbox' = [s \in Socket |-> mailbox'[s]]
      BY <1>1
    <3> QED BY <1>4, <3>1
  <2> QED BY <1>6, <2>1 DEF CtxInv, CtxTypes
<1>8. SlotsInv'
  BY SlotsKept
<1>9. AwaitInv'
  <2>1. \A s \in Socket : Waits(s)'
    <3> SUFFICES ASSUME NEW s \in Socket PROVE Waits(s)'
      OBVIOUS
    <3>1. Waits(s) /\ Finders(s)' = Finders(s) /\ OwnsOne(s)' = OwnsOne(s) /\ life' = life /\ pending' = pending
      BY DEF CtxInv, AwaitInv, Finders, OwnsOne
    <3> QED BY <1>4, <3>1, WaitsKept
  <2> QED BY <2>1 DEF CtxInv, AwaitInv, Reaping
<1>10. Ctx!EndpointsAlive'
  BY EndpointsKept
<1>11. ReaperInv'
  <2>1. Handled' = Handled /\ GoneOnes' = GoneOnes /\ UNCHANGED <<life, reaper_doing, reaper_sockets, term_mailbox>>
    BY DEF Handled, GoneOnes
  <2>2. ReaperInv
    BY DEF CtxInv
  <2>3. \A i, j \in DOMAIN reaper_mailbox' :
          reaper_mailbox'[i][1] = "reap" /\ reaper_mailbox'[i] = reaper_mailbox'[j] => i = j
    <3> SUFFICES ASSUME NEW i \in DOMAIN reaper_mailbox', NEW j \in DOMAIN reaper_mailbox',
                        reaper_mailbox'[i][1] = "reap", reaper_mailbox'[i] = reaper_mailbox'[j]
                 PROVE  i = j
      OBVIOUS
    <3>1. reaper_mailbox'[j][1] = "reap"
      OBVIOUS
    <3>2. {i, j} \subseteq DOMAIN reaper_mailbox /\ reaper_mailbox'[i] = reaper_mailbox[i] /\ reaper_mailbox'[j] = reaper_mailbox[j]
      BY <1>6, <3>1
    <3> QED BY <2>2, <3>2 DEF ReaperInv
  <2>4. \A j \in DOMAIN reaper_mailbox' : reaper_mailbox'[j][1] = "reap" =>
          reaper_mailbox'[j][2] \in Socket /\ life'[reaper_mailbox'[j][2]] = "closed"
    BY <1>6, <2>1, <2>2 DEF ReaperInv
  <2> QED BY <1>6, <2>1, <2>2, <2>3, <2>4 DEF ReaperInv
<1>12. StopInv'
  BY <1>5, <1>6 DEF StopInv
<1> QED BY <1>7, <1>8, <1>9, <1>10, <1>11, <1>12 DEF CtxInv

LEMMA TreeGoneStep == ASSUME CtxInv, NEW s \in Socket, Ctx!TreeGone(s) PROVE CtxInv'
<1> USE DEF Ctx!TreeGone, Ctx!ctxVars, Ctx!termVars, Ctx!joinVars, Ctx!reaperVars
<1>1. mailbox \in [Socket -> Seq({"stop", "bind", "term_ack"})] /\ owns \in [Socket -> BOOLEAN]
  BY DEF CtxInv, CtxTypes
<1>2. mailbox' = [mailbox EXCEPT ![s] = Append(@, "term_ack")] /\ owns' = [owns EXCEPT ![s] = FALSE]
      /\ life[s] = "reaping" /\ owns[s] /\ UNCHANGED <<life, pending, joining, connects>>
  OBVIOUS
<1>3. /\ Append(mailbox[s], "term_ack") \in Seq({"stop", "bind", "term_ack"})
      /\ Hits(Append(mailbox[s], "term_ack"), Awaited) = Hits(mailbox[s], Awaited) + 1
  BY MailAppended
<1>4. CtxTypes'
  <2>1. mailbox' \in [Socket -> Seq({"stop", "bind", "term_ack"})] /\ owns' \in [Socket -> BOOLEAN]
    BY <1>1, <1>2, <1>3
  <2> QED BY <2>1 DEF CtxInv, CtxTypes
<1>5. SlotsInv'
  BY SlotsKept
<1>6. AwaitInv'
  <2>1. \A x \in Socket : Waits(x)'
    <3> SUFFICES ASSUME NEW x \in Socket PROVE Waits(x)'
      OBVIOUS
    <3>1. Waits(x) /\ Finders(x)' = Finders(x)
      BY DEF CtxInv, AwaitInv, Finders
    <3>2. CASE x = s
      <4>1. OwnsOne(x) = 1 /\ OwnsOne(x)' = 0
        BY <1>1, <1>2, <3>2 DEF OwnsOne
      <4>2. Hits(mailbox'[x], Awaited) = Hits(mailbox[x], Awaited) + 1
        BY <1>1, <1>2, <1>3, <3>2
      <4>3. Cardinality(Finders(x)) \in Nat /\ Hits(mailbox[x], Awaited) \in Nat
        BY WaitTypes
      <4>4. pending[x] = Cardinality(Finders(x)) + Hits(mailbox[x], Awaited) + OwnsOne(x)
        BY <1>2, <3>1, <3>2 DEF Waits
      <4>5. pending[x] = Cardinality(Finders(x)) + Hits(mailbox'[x], Awaited) + OwnsOne(x)'
        BY <4>1, <4>2, <4>3, <4>4
      <4> QED BY <1>2, <3>1, <4>5 DEF Waits
    <3>3. CASE x # s
      <4>1. OwnsOne(x)' = OwnsOne(x) /\ mailbox'[x] = mailbox[x]
        BY <1>1, <1>2, <3>3 DEF OwnsOne
      <4> QED BY <1>2, <3>1, <4>1, WaitsKept
    <3> QED BY <3>2, <3>3
  <2> QED BY <1>2, <2>1 DEF CtxInv, AwaitInv, Reaping
<1>7. Ctx!EndpointsAlive'
  BY EndpointsKept
<1>8. ReaperInv'
  BY ReaperKept
<1>9. StopInv'
  BY StopKept
<1> QED BY <1>4, <1>5, <1>6, <1>7, <1>8, <1>9 DEF CtxInv

\* A command that is processed is one less to wait for, unless it is stop.
LEMMA ProcessCommandStep == ASSUME CtxInv, NEW s \in Socket, Ctx!ProcessCommand(s) PROVE CtxInv'
<1> DEFINE cmd == Head(mailbox[s])
           less == IF cmd = "stop" THEN 0 ELSE 1
           awaited == pending[s] - less
           lives == IF life[s] = "reaping" /\ awaited = 0 THEN "leaving" ELSE life[s]
<1>1. mailbox[s] # <<>> /\ mailbox \in [Socket -> Seq({"stop", "bind", "term_ack"})] /\ pending \in [Socket -> Nat]
      /\ life \in [Socket -> Lives] /\ ctx_terminated \in [Socket -> BOOLEAN]
  BY DEF Ctx!ProcessCommand, CtxInv, CtxTypes
<1>2. cmd \in {"stop", "bind", "term_ack"} /\ Tail(mailbox[s]) \in Seq({"stop", "bind", "term_ack"})
      /\ (cmd \in Awaited <=> cmd # "stop")
  BY <1>1 DEF Awaited
<1>3. Hits(Tail(mailbox[s]), Awaited) = Hits(mailbox[s], Awaited) - less
  <2>1. mailbox[s] \in Seq({"stop", "bind", "term_ack"}) /\ mailbox[s] # <<>>
    BY <1>1
  <2>2. Hits(Tail(mailbox[s]), Awaited) = Hits(mailbox[s], Awaited) - (IF cmd \in Awaited THEN 1 ELSE 0)
    BY <2>1, HitsTail
  <2> QED BY <1>2, <2>2
<1>4. Hits(mailbox[s], Awaited) \in Nat /\ Hits(Tail(mailbox[s]), Awaited) \in Nat
  BY <1>1, <1>2, HitsType
<1>5. life[s] \in {"open", "reaping", "leaving"}
  BY DEF Ctx!ProcessCommand
<1>6. pending[s] = Cardinality(Finders(s)) + Hits(mailbox[s], Awaited) + OwnsOne(s)
      /\ Cardinality(Finders(s)) \in Nat /\ OwnsOne(s) \in 0..1
  BY <1>5, WaitTypes DEF CtxInv, AwaitInv, Waits
<1>7. awaited \in Nat /\ awaited <= pending[s] /\ awaited = Cardinality(Finders(s)) + Hits(Tail(mailbox[s]), Awaited) + OwnsOne(s)
  BY <1>3, <1>4, <1>6
<1>8. /\ pending' = [pending EXCEPT ![s] = awaited]
      /\ ctx_terminated' = [ctx_terminated EXCEPT ![s] = @ \/ cmd = "stop"]
      /\ life' = [life EXCEPT ![s] = lives]
      /\ mailbox' = [mailbox EXCEPT ![s] = Tail(@)]
  <2>1. pending[s] \in Nat
    BY <1>1
  <2>2. (IF cmd = "stop" THEN pending[s] ELSE pending[s] - 1) = awaited
    BY <2>1
  <2> QED BY <2>2 DEF Ctx!ProcessCommand, Ctx!Leaves
<1>9. UNCHANGED <<Ctx!ctxVars, endpoints, Ctx!termVars, tid, owns, Ctx!joinVars, Ctx!reaperVars>>
  BY DEF Ctx!ProcessCommand
<1> HIDE DEF cmd, awaited, less
<1>10. \A x \in Socket : \/ life'[x] = life[x]
                         \/ x = s /\ life[x] = "reaping" /\ life'[x] = "leaving" /\ awaited = 0
  BY <1>1, <1>8
<1> HIDE DEF lives
<1> USE DEF Ctx!ctxVars, Ctx!termVars, Ctx!joinVars, Ctx!reaperVars
<1>11. CtxTypes'
  <2>1. pending' \in [Socket -> Nat] /\ mailbox' \in [Socket -> Seq({"stop", "bind", "term_ack"})]
    BY <1>1, <1>2, <1>7, <1>8
  <2>2. ctx_terminated' \in [Socket -> BOOLEAN]
    BY <1>1, <1>8
  <2>3. life' \in [Socket -> Lives]
    <3>1. lives \in Lives
      BY <1>1 DEF lives, Lives
    <3> QED BY <1>1, <1>8, <3>1
  <2> QED BY <1>9, <2>1, <2>2, <2>3 DEF CtxInv, CtxTypes
<1>12. SlotsInv'
  <2>1. \A x \in Socket : life'[x] \in Here <=> life[x] \in Here
    BY <1>10 DEF Here
  <2> QED BY <1>9, <2>1, SlotsKept
<1>13. AwaitInv'
  <2>1. OwnsOne(s) = 0 \/ lives # "leaving" \/ life[s] = "leaving"
    BY <1>4, <1>6, <1>7 DEF lives
  <2>2. \A x \in Socket : OwnsOne(x)' = OwnsOne(x)
    <3> SUFFICES ASSUME NEW x \in Socket PROVE OwnsOne(x)' = OwnsOne(x)
      OBVIOUS
    <3>1. CASE life'[x] = life[x]
      BY <1>9, <3>1 DEF OwnsOne
    <3>2. CASE x = s /\ life[x] = "reaping" /\ life'[x] = "leaving" /\ awaited = 0
      <4>1. OwnsOne(x)' = 0
        BY <3>2 DEF OwnsOne
      <4>2. OwnsOne(x) = 0
        BY <1>4, <1>6, <1>7, <3>2
      <4> QED BY <4>1, <4>2
    <3> QED BY <1>10, <3>1, <3>2
  <2>3. \A x \in Socket : Waits(x)'
    <3> SUFFICES ASSUME NEW x \in Socket PROVE Waits(x)'
      OBVIOUS
    <3>1. Waits(x) /\ Finders(x)' = Finders(x) /\ OwnsOne(x)' = OwnsOne(x)
      BY <1>9, <2>2 DEF CtxInv, AwaitInv, Finders
    <3>2. CASE x = s
      <4>1. pending'[x] = awaited /\ mailbox'[x] = Tail(mailbox[s])
        BY <1>1, <1>8, <3>2
      <4> QED BY <1>7, <3>1, <3>2, <4>1 DEF Waits
    <3>3. CASE x # s
      <4>1. pending'[x] = pending[x] /\ mailbox'[x] = mailbox[x] /\ life'[x] = life[x]
        BY <1>1, <1>8, <3>3
      <4> QED BY <3>1, <4>1, WaitsKept
    <3> QED BY <3>2, <3>3
  <2>4. \A x \in Socket : life'[x] = "leaving" => pending'[x] = 0
    <3> SUFFICES ASSUME NEW x \in Socket, life'[x] = "leaving" PROVE pending'[x] = 0
      OBVIOUS
    <3>1. pending'[x] = IF x = s THEN awaited ELSE pending[x]
      BY <1>1, <1>8
    <3>2. CASE life[x] = "leaving"
      <4>1. pending[x] = 0
        BY <3>2 DEF CtxInv, AwaitInv
      <4> QED BY <1>7, <3>1, <4>1
    <3> QED BY <1>10, <3>1, <3>2
  <2>5. \A x \in Socket : pending'[x] <= connects' + Reaping(x)'
    <3> SUFFICES ASSUME NEW x \in Socket PROVE pending'[x] <= connects' + Reaping(x)'
      OBVIOUS
    <3>1. pending[x] <= connects + Reaping(x) /\ pending[x] \in Nat /\ connects \in Nat /\ Reaping(x) \in 0..1
      BY WaitTypes DEF CtxInv, AwaitInv, Reaping
    <3>2. Reaping(x)' = Reaping(x) /\ connects' = connects
      BY <1>9, <1>10 DEF Reaping
    <3>3. pending'[x] <= pending[x] /\ pending'[x] \in Nat
      BY <1>1, <1>7, <1>8
    <3> QED BY <3>1, <3>2, <3>3
  <2>6. \A x \in Socket : joining'[x] # None => life'[joining'[x]] \in {"open", "closed", "reaping"}
    <3> SUFFICES ASSUME NEW x \in Socket, joining[x] # None PROVE life'[joining[x]] \in {"open", "closed", "reaping"}
      BY <1>9
    <3>1. joining[x] \in Socket /\ life[joining[x]] \in {"open", "closed", "reaping"}
      BY DEF CtxInv, CtxTypes, AwaitInv
    <3>2. joining[x] = s => awaited # 0
      <4> SUFFICES ASSUME joining[x] = s PROVE awaited # 0
        OBVIOUS
      <4>1. Finders(s) # {}
        BY DEF Finders
      <4>2. Cardinality(Finders(s)) # 0
        BY <4>1, WaitTypes, SetsOfSockets
      <4> QED BY <1>4, <1>6, <1>7, <4>2
    <3> QED BY <1>10, <3>1, <3>2
  <2> QED BY <2>3, <2>4, <2>5, <2>6 DEF AwaitInv
<1>14. Ctx!EndpointsAlive'
  <2>1. \A x \in Socket : life[x] \in {"open", "closed"} => life'[x] \in {"open", "closed"}
    BY <1>10
  <2> QED BY <1>9, <2>1, EndpointsKept
<1>15. ReaperInv'
  BY <1>9, <1>10, ReaperKept
<1>16. StopInv'
  <2>1. reaper_doing[1] = "finished" => life' = life
    <3> SUFFICES ASSUME reaper_doing[1] = "finished" PROVE FALSE
      OBVIOUS
    <3> QED BY <1>5, WhenFinished
  <2>2. term = "idle" => life'[Log] = "open"
    BY <1>10, CtxFacts DEF CtxInv, StopInv
  <2> QED BY <1>9, <2>1, <2>2 DEF CtxInv, StopInv, Ctx!DoneWhenAllGone
<1> QED BY <1>11, <1>12, <1>13, <1>14, <1>15, <1>16 DEF CtxInv

\* A report that was taken leaves those of the others in their order.
LEMMA ReapsLeft ==
  ASSUME CtxInv, reaper_mailbox # <<>>, reaper_mailbox' = Tail(reaper_mailbox)
  PROVE  /\ \A i, j \in DOMAIN reaper_mailbox' :
              reaper_mailbox'[i][1] = "reap" /\ reaper_mailbox'[i] = reaper_mailbox'[j] => i = j
         /\ \A j \in DOMAIN reaper_mailbox' : reaper_mailbox'[j][1] = "reap" =>
              /\ reaper_mailbox'[j][2] \in Socket /\ life[reaper_mailbox'[j][2]] = "closed"
              /\ reaper_mailbox'[j] # Head(reaper_mailbox)
<1>1. /\ Head(reaper_mailbox) = reaper_mailbox[1] /\ 1 \in DOMAIN reaper_mailbox
      /\ \A j \in DOMAIN reaper_mailbox' : j \in Nat \ {0} /\ j + 1 \in DOMAIN reaper_mailbox /\ reaper_mailbox'[j] = reaper_mailbox[j + 1]
  BY ReportTaken
<1>2. ReaperInv
  BY DEF CtxInv
<1>3. \A i, j \in DOMAIN reaper_mailbox' :
        reaper_mailbox'[i][1] = "reap" /\ reaper_mailbox'[i] = reaper_mailbox'[j] => i = j
  <2> SUFFICES ASSUME NEW i \in DOMAIN reaper_mailbox', NEW j \in DOMAIN reaper_mailbox',
                      reaper_mailbox'[i][1] = "reap", reaper_mailbox'[i] = reaper_mailbox'[j]
               PROVE  i = j
    OBVIOUS
  <2>1. reaper_mailbox[i + 1][1] = "reap" /\ reaper_mailbox[i + 1] = reaper_mailbox[j + 1]
        /\ i + 1 \in DOMAIN reaper_mailbox /\ j + 1 \in DOMAIN reaper_mailbox /\ i \in Nat /\ j \in Nat
    BY <1>1
  <2>2. i + 1 = j + 1
    BY <1>2, <2>1 DEF ReaperInv
  <2> QED BY <2>1, <2>2
<1>4. ASSUME NEW j \in DOMAIN reaper_mailbox', reaper_mailbox'[j][1] = "reap"
      PROVE  /\ reaper_mailbox'[j][2] \in Socket /\ life[reaper_mailbox'[j][2]] = "closed"
             /\ reaper_mailbox'[j] # Head(reaper_mailbox)
  <2>1. j + 1 \in DOMAIN reaper_mailbox /\ reaper_mailbox'[j] = reaper_mailbox[j + 1] /\ j + 1 # 1
    BY <1>1, <1>4
  <2>2. reaper_mailbox[j + 1][1] = "reap"
    BY <1>4, <2>1
  <2>3. reaper_mailbox[j + 1] # reaper_mailbox[1]
    BY <1>1, <1>2, <2>1, <2>2 DEF ReaperInv
  <2> QED BY <1>1, <1>2, <2>1, <2>2, <2>3 DEF ReaperInv
<1> QED BY <1>3, <1>4

\* The socket is counted as the reaper's, or in its hands and going at once.
LEMMA ProcessReapStep == ASSUME CtxInv, Ctx!ProcessReap PROVE CtxInv'
<1> DEFINE s == Head(reaper_mailbox)[2]
           mine == IF owns[s] THEN 1 ELSE 0
           awaited == pending[s] + mine
           at == IF awaited = 0 THEN "leaving" ELSE "reaping"
<1>0. reaper_mailbox # <<>> /\ reaper_mailbox' = Tail(reaper_mailbox) /\ Head(reaper_mailbox)[1] = "reap"
      /\ reaper_doing[1] = "nothing" /\ reaper_doing[2] = None
  BY DEF Ctx!ProcessReap, Ctx!ReaperGets, Ctx!Idle
<1>1. /\ reaper_mailbox' \in Seq(Reports)
      /\ \A t \in {"reap", "stop", "reaped"} :
           Hits(reaper_mailbox', Of(t)) = Hits(reaper_mailbox, Of(t)) - (IF Head(reaper_mailbox)[1] = t THEN 1 ELSE 0)
      /\ Head(reaper_mailbox) = reaper_mailbox[1] /\ 1 \in DOMAIN reaper_mailbox /\ Head(reaper_mailbox) \in Reports
  BY <1>0, ReportTaken
<1>2. Hits(reaper_mailbox', Of("stop")) = Hits(reaper_mailbox, Of("stop"))
      /\ Hits(reaper_mailbox', Of("reaped")) = Hits(reaper_mailbox, Of("reaped"))
  BY <1>0, <1>1, HitsReports DEF CtxInv
<1>3. s \in Socket /\ life[s] = "closed"
  BY <1>0, <1>1 DEF CtxInv, ReaperInv
<1>4. life \in [Socket -> Lives] /\ pending \in [Socket -> Nat] /\ reaper_sockets \in Nat
      /\ endpoints \in [Endpoint -> Socket \union {None}]
  BY DEF CtxInv, CtxTypes
<1>5. awaited \in Nat /\ mine \in 0..1 /\ awaited = pending[s] + mine
  BY <1>3, <1>4
<1>6. at = Ctx!Leaves("reaping", awaited) /\ (at = "leaving" <=> awaited = 0) /\ at \in {"reaping", "leaving"}
  BY DEF Ctx!Leaves
<1>7. /\ endpoints' = [e \in Endpoint |-> IF endpoints[e] = s THEN None ELSE endpoints[e]]
      /\ pending' = [pending EXCEPT ![s] = awaited] /\ life' = [life EXCEPT ![s] = at]
      /\ at = "leaving" => reaper_doing' = <<"reaping", s>> /\ reaper_sockets' = reaper_sockets
      /\ at = "reaping" => reaper_doing' = reaper_doing /\ reaper_sockets' = reaper_sockets + 1
      /\ UNCHANGED <<Ctx!ctxVars, Ctx!termVars, tid, mailbox, ctx_terminated, owns, Ctx!joinVars, reaper_terminating>>
  BY <1>6 DEF Ctx!ProcessReap
<1> HIDE DEF awaited, at, mine
<1>8. \A x \in Socket : life'[x] = IF x = s THEN at ELSE life[x]
  BY <1>4, <1>7
<1>9. \A x \in Socket : pending'[x] = IF x = s THEN awaited ELSE pending[x]
  BY <1>4, <1>7
<1>10. \A j \in DOMAIN reaper_mailbox' : reaper_mailbox'[j][1] = "reap" =>
         reaper_mailbox'[j][2] \in Socket /\ reaper_mailbox'[j][2] # s /\ life[reaper_mailbox'[j][2]] = "closed"
  <2> SUFFICES ASSUME NEW j \in DOMAIN reaper_mailbox', reaper_mailbox'[j][1] = "reap"
               PROVE  reaper_mailbox'[j][2] \in Socket /\ reaper_mailbox'[j][2] # s /\ life[reaper_mailbox'[j][2]] = "closed"
    OBVIOUS
  <2>1. /\ reaper_mailbox'[j][2] \in Socket /\ life[reaper_mailbox'[j][2]] = "closed"
        /\ reaper_mailbox'[j] # Head(reaper_mailbox)
    BY <1>0, ReapsLeft
  <2>2. reaper_mailbox'[j] \in Reports
    BY <1>1
  <2>3. reaper_mailbox'[j] = <<"reap", reaper_mailbox'[j][2]>> /\ Head(reaper_mailbox) = <<"reap", s>>
    BY <1>0, <1>1, <2>2 DEF Reports
  <2> QED BY <2>1, <2>3
<1>11. \A i, j \in DOMAIN reaper_mailbox' :
         reaper_mailbox'[i][1] = "reap" /\ reaper_mailbox'[i] = reaper_mailbox'[j] => i = j
  BY <1>0, ReapsLeft
<1> HIDE DEF s
<1> USE DEF Ctx!ctxVars, Ctx!termVars, Ctx!joinVars
<1>12. CtxTypes'
  <2>1. at \in Lives
    BY <1>6 DEF Lives
  <2>3. pending' \in [Socket -> Nat] /\ life' \in [Socket -> Lives]
    BY <1>3, <1>4, <1>5, <1>7, <2>1
  <2>4. endpoints' \in [Endpoint -> Socket \union {None}]
    BY <1>4, <1>7
  <2>2. reaper_sockets' \in Nat /\ reaper_doing' \in {"nothing", "reaping", "polling", "finished"} \X (Socket \union {None})
    BY <1>3, <1>4, <1>6, <1>7 DEF CtxInv, CtxTypes
  <2> QED BY <1>1, <1>7, <2>2, <2>3, <2>4 DEF CtxInv, CtxTypes
<1>13. SlotsInv'
  <2>1. \A x \in Socket : life'[x] \in Here <=> life[x] \in Here
    BY <1>3, <1>6, <1>8 DEF Here
  <2> QED BY <1>7, <2>1, SlotsKept
<1>14. AwaitInv'
  <2>1. \A x \in Socket : Waits(x)'
    <3> SUFFICES ASSUME NEW x \in Socket PROVE Waits(x)'
      OBVIOUS
    <3>1. Waits(x) /\ Finders(x)' = Finders(x) /\ mailbox' = mailbox
      BY <1>7 DEF CtxInv, AwaitInv, Finders
    <3>2. CASE x = s
      <4>1. pending[x] = Cardinality(Finders(x)) + Hits(mailbox[x], Awaited) + OwnsOne(x)
        BY <1>3, <3>1, <3>2 DEF Waits
      <4>2. Cardinality(Finders(x)) \in Nat /\ Hits(mailbox[x], Awaited) \in Nat /\ OwnsOne(x) = 0
        BY <1>3, <3>2, WaitTypes DEF OwnsOne
      <4>3. OwnsOne(x)' = mine
        <5>1. CASE at = "reaping"
          BY <1>3, <1>7, <1>8, <3>2, <5>1 DEF OwnsOne, mine
        <5>2. CASE at = "leaving"
          <6>1. OwnsOne(x)' = 0
            BY <1>3, <1>8, <3>2, <5>2 DEF OwnsOne
          <6>2. mine = 0
            BY <1>3, <1>4, <1>5, <1>6, <5>2
          <6> QED BY <6>1, <6>2
        <5> QED BY <1>6, <5>1, <5>2
      <4>4. pending'[x] = pending[x] + mine
        BY <1>3, <1>5, <1>9, <3>2
      <4>5. pending'[x] = Cardinality(Finders(x)) + Hits(mailbox[x], Awaited) + OwnsOne(x)'
        BY <1>5, <4>1, <4>2, <4>3, <4>4
      <4> QED BY <3>1, <4>5 DEF Waits
    <3>3. CASE x # s
      <4>1. pending'[x] = pending[x] /\ life'[x] = life[x] /\ OwnsOne(x)' = OwnsOne(x)
        BY <1>7, <1>8, <1>9, <3>3 DEF OwnsOne
      <4> QED BY <3>1, <4>1, WaitsKept
    <3> QED BY <3>2, <3>3
  <2>2. \A x \in Socket : life'[x] = "leaving" => pending'[x] = 0
    BY <1>6, <1>8, <1>9 DEF CtxInv, AwaitInv
  <2>3. \A x \in Socket : pending'[x] <= connects' + Reaping(x)'
    <3> SUFFICES ASSUME NEW x \in Socket PROVE pending'[x] <= connects' + Reaping(x)'
      OBVIOUS
    <3>1. pending[x] <= connects + Reaping(x) /\ pending[x] \in Nat /\ connects \in Nat /\ connects' = connects
      BY <1>7, WaitTypes DEF CtxInv, AwaitInv
    <3>2. CASE x = s
      <4>1. Reaping(x) = 0 /\ Reaping(x)' = 1
        BY <1>3, <1>6, <1>8, <3>2 DEF Reaping
      <4> QED BY <1>5, <1>9, <3>1, <3>2, <4>1
    <3>3. CASE x # s
      BY <1>8, <1>9, <3>1, <3>3 DEF Reaping
    <3> QED BY <3>2, <3>3
  <2>4. \A x \in Socket : joining'[x] # None => life'[joining'[x]] \in {"open", "closed", "reaping"}
    <3> SUFFICES ASSUME NEW x \in Socket, joining[x] # None PROVE life'[joining[x]] \in {"open", "closed", "reaping"}
      BY <1>7
    <3>1. joining[x] \in Socket /\ life[joining[x]] \in {"open", "closed", "reaping"}
      BY DEF CtxInv, CtxTypes, AwaitInv
    <3>2. joining[x] = s => at = "reaping"
      <4> SUFFICES ASSUME joining[x] = s PROVE at = "reaping"
        OBVIOUS
      <4>1. Finders(s) # {} /\ Waits(s)
        BY <1>3 DEF Finders, CtxInv, AwaitInv
      <4>2. Cardinality(Finders(s)) \in Nat /\ Cardinality(Finders(s)) # 0 /\ Hits(mailbox[s], Awaited) \in Nat /\ OwnsOne(s) \in 0..1
        BY <1>3, <4>1, WaitTypes, SetsOfSockets
      <4>3. pending[s] = Cardinality(Finders(s)) + Hits(mailbox[s], Awaited) + OwnsOne(s)
        BY <1>3, <4>1 DEF Waits
      <4>4. pending[s] \in Nat /\ pending[s] # 0
        BY <4>2, <4>3
      <4>5. awaited # 0
        BY <1>5, <4>4
      <4> QED BY <1>6, <4>5
    <3> QED BY <1>8, <3>1, <3>2
  <2> QED BY <2>1, <2>2, <2>3, <2>4 DEF AwaitInv
<1>15. Ctx!EndpointsAlive'
  <2> SUFFICES ASSUME NEW e \in Endpoint, endpoints'[e] # None PROVE life'[endpoints'[e]] \in {"open", "closed"}
    BY DEF Ctx!EndpointsAlive
  <2>1. endpoints'[e] = endpoints[e] /\ endpoints[e] # s /\ endpoints[e] \in Socket
    BY <1>4, <1>7
  <2>2. life[endpoints[e]] \in {"open", "closed"}
    BY <2>1 DEF CtxInv, Ctx!EndpointsAlive
  <2> QED BY <1>8, <2>1, <2>2
<1>16. ReaperInv'
  <2>1. ReaperInv
    BY DEF CtxInv
  <2>2. GoneOnes' = GoneOnes
    BY <1>3, <1>6, <1>8 DEF GoneOnes
  <2>3. Handled \subseteq Socket /\ s \notin Handled /\ Cardinality(Handled) \in Nat
    <3>1. Handled \subseteq Socket /\ s \notin Handled
      BY <1>3 DEF Handled, Reaped
    <3> QED BY <3>1, SetsOfSockets
  <2>4. \A x \in Socket : x \in Handled <=> life[x] \in Reaped
    BY <1>0 DEF Handled
  <2>5. reaper_sockets' = Cardinality(Handled') + Hits(reaper_mailbox', Of("reaped"))
    <3>1. CASE at = "reaping"
      <4>1. Handled' = Handled \union {s}
        BY <1>3, <1>0, <1>7, <1>8, <2>3, <2>4, <3>1 DEF Handled, Reaped
      <4>2. Cardinality(Handled') = Cardinality(Handled) + 1
        BY <1>3, <2>3, <4>1, OneMore
      <4>3. Hits(reaper_mailbox, Of("reaped")) \in Nat
        BY HitsReports DEF CtxInv
      <4>4. reaper_sockets' = reaper_sockets + 1 /\ reaper_sockets = Cardinality(Handled) + Hits(reaper_mailbox, Of("reaped"))
        BY <1>7, <2>1, <3>1 DEF ReaperInv
      <4> QED BY <1>2, <2>3, <4>2, <4>3, <4>4
    <3>2. CASE at = "leaving"
      <4>1. Handled' = Handled
        <5>1. \A x \in Socket : (reaper_doing' # <<"reaping", x>>) <=> x # s
          BY <1>7, <3>2
        <5>2. \A x \in Socket : x \in Handled' <=> life'[x] \in Reaped /\ x # s
          BY <5>1 DEF Handled
        <5>3. \A x \in Socket : x \in Handled' <=> x \in Handled
          BY <1>8, <2>3, <2>4, <5>2
        <5> QED BY <5>3 DEF Handled
      <4> QED BY <1>2, <1>7, <2>1, <3>2, <4>1 DEF ReaperInv
    <3> QED BY <1>6, <3>1, <3>2
  <2>6. \A x \in Socket : life'[x] # "destroyed"
    <3>1. \A x \in Socket : life[x] # "destroyed"
      BY <1>0, <2>1 DEF ReaperInv
    <3> QED BY <1>6, <1>8, <3>1
  <2>7. /\ reaper_doing'[1] = "reaping" => reaper_doing'[2] \in Socket /\ life'[reaper_doing'[2]] \in {"leaving", "destroyed"}
        /\ reaper_doing'[1] # "polling" /\ reaper_doing'[1] # "finished"
        /\ reaper_doing'[1] = "nothing" => reaper_doing'[2] = None
    BY <1>0, <1>3, <1>6, <1>7, <1>8
  <2>8. \A j \in DOMAIN reaper_mailbox' : reaper_mailbox'[j][1] = "reap" =>
          reaper_mailbox'[j][2] \in Socket /\ life'[reaper_mailbox'[j][2]] = "closed"
    BY <1>8, <1>10
  <2>9. term_mailbox' = <<>> /\ Hits(reaper_mailbox', Of("reaped")) <= Cardinality(GoneOnes')
    BY <1>0, <1>2, <1>7, <2>1, <2>2 DEF ReaperInv
  <2> QED BY <1>11, <2>5, <2>6, <2>7, <2>8, <2>9 DEF ReaperInv
<1>17. StopInv'
  <2>1. reaper_doing'[1] # "finished"
    BY <1>0, <1>6, <1>7
  <2>2. term = "idle" => life'[Log] = "open"
    BY <1>3, <1>8, CtxFacts DEF CtxInv, StopInv
  <2>3. UNCHANGED <<term, ctx_terminating, sockets, reaper_terminating>>
    BY <1>7
  <2> QED BY <1>2, <2>1, <2>2, <2>3 DEF CtxInv, StopInv
<1> QED BY <1>12, <1>13, <1>14, <1>15, <1>16, <1>17 DEF CtxInv

LEMMA DestroyStep == ASSUME CtxInv, NEW s \in Socket, Ctx!DestroySocket(s) PROVE CtxInv'
<1> DEFINE k == tid[s]
           n == Len(empty_slots) + 1
<1>1. /\ life[s] = "leaving" /\ life' = [life EXCEPT ![s] = "destroyed"]
      /\ empty_slots' = Append(empty_slots, k) /\ slots' = [slots EXCEPT ![k] = None] /\ sockets' = sockets \ {s}
      /\ reaper_mailbox' = IF ctx_terminating /\ sockets = {s} THEN Append(reaper_mailbox, <<"stop", None>>) ELSE reaper_mailbox
      /\ UNCHANGED <<ctx_terminating, endpoints, term, term_mailbox, interrupts, tid, mailbox, ctx_terminated,
                     owns, pending, joining, connects, reaper_sockets, reaper_terminating>>
      /\ \/ reaper_doing = <<"reaping", s>> /\ reaper_doing' = reaper_doing
         \/ reaper_doing = Ctx!Idle /\ reaper_doing' = <<"polling", s>>
  BY DEF Ctx!DestroySocket, Ctx!Destroying, Ctx!termVars, Ctx!ownVars, Ctx!joinVars
<1>2. /\ life \in [Socket -> Lives] /\ empty_slots \in Seq(Ctx!Slot) /\ slots \in [Ctx!Slot -> Socket \union {None}]
      /\ tid \in [Socket -> Ctx!Slot] /\ sockets \subseteq Socket /\ reaper_mailbox \in Seq(Reports)
      /\ SlotsInv /\ ReaperInv /\ StopInv
  BY DEF CtxInv, CtxTypes
<1>3. \A x \in Socket : life'[x] = IF x = s THEN "destroyed" ELSE life[x]
  BY <1>1, <1>2
<1>4. k \in Ctx!Slot /\ s \in sockets /\ slots[k] = s /\ None \notin Socket
  BY <1>1, <1>2, CtxFacts DEF SlotsInv, Here
<1>5. /\ empty_slots' \in Seq(Ctx!Slot) /\ DOMAIN empty_slots' = DOMAIN empty_slots \union {n} /\ n \notin DOMAIN empty_slots
      /\ (\A j \in DOMAIN empty_slots : empty_slots'[j] = empty_slots[j]) /\ empty_slots'[n] = k
  <2>1. empty_slots' = Append(empty_slots, k) /\ empty_slots \in Seq(Ctx!Slot) /\ k \in Ctx!Slot
    BY <1>1, <1>2, <1>4
  <2> HIDE DEF k
  <2> QED BY <2>1
<1> HIDE DEF n
<1>6. SlotsInv'
  <2>1. \A x \in Socket : x \in sockets' <=> life'[x] \in Here
    BY <1>1, <1>2, <1>3 DEF SlotsInv, Here
  <2>2. \A x \in sockets' : slots'[tid'[x]] = x
    <3> SUFFICES ASSUME NEW x \in sockets' PROVE slots'[tid'[x]] = x
      OBVIOUS
    <3>1. x \in sockets /\ x # s /\ slots[tid[x]] = x /\ tid[x] \in Ctx!Slot /\ tid'[x] = tid[x]
      BY <1>1, <1>2 DEF SlotsInv
    <3>2. tid[x] # k
      BY <1>4, <3>1
    <3> QED BY <1>1, <1>2, <3>1, <3>2
  <2>3. \A i \in Ctx!Slot : slots'[i] # None => slots'[i] \in sockets' /\ tid'[slots'[i]] = i
    <3> SUFFICES ASSUME NEW i \in Ctx!Slot, slots'[i] # None PROVE slots'[i] \in sockets' /\ tid'[slots'[i]] = i
      OBVIOUS
    <3>1. i # k /\ slots'[i] = slots[i]
      BY <1>1, <1>2
    <3>2. slots[i] \in sockets /\ tid[slots[i]] = i
      BY <1>2, <3>1 DEF SlotsInv
    <3>3. slots[i] # s
      BY <3>1, <3>2
    <3> QED BY <1>1, <3>1, <3>2, <3>3
  <2>4. \A j \in DOMAIN empty_slots : empty_slots[j] # k
    BY <1>2, <1>4 DEF SlotsInv
  <2>5. \A i, j \in DOMAIN empty_slots' : empty_slots'[i] = empty_slots'[j] => i = j
    BY <1>2, <1>5, <2>4 DEF SlotsInv
  <2>6. \A i \in Ctx!Slot : slots'[i] = None <=> \E j \in DOMAIN empty_slots' : empty_slots'[j] = i
    <3> SUFFICES ASSUME NEW i \in Ctx!Slot PROVE slots'[i] = None <=> \E j \in DOMAIN empty_slots' : empty_slots'[j] = i
      OBVIOUS
    <3>1. CASE i = k
      BY <1>1, <1>2, <1>5, <3>1
    <3>2. CASE i # k
      <4>1. slots'[i] = slots[i]
        BY <1>1, <1>2, <3>2
      <4> QED BY <1>2, <1>5, <3>2, <4>1 DEF SlotsInv
    <3> QED BY <3>1, <3>2
  <2> QED BY <2>1, <2>2, <2>3, <2>5, <2>6 DEF SlotsInv
<1>7. Hits(reaper_mailbox, Of("stop")) \in Nat /\ Hits(reaper_mailbox, Of("reaped")) \in Nat
  BY HitsReports DEF CtxInv
<1>8. Hits(reaper_mailbox, Of("stop")) = 0 /\ ~reaper_terminating /\ reaper_doing[1] # "finished"
  BY <1>2, <1>4, <1>7 DEF StopInv
<1>9. /\ reaper_mailbox' \in Seq(Reports)
      /\ Hits(reaper_mailbox', Of("reaped")) = Hits(reaper_mailbox, Of("reaped"))
      /\ Hits(reaper_mailbox', Of("stop")) \in 0..1
      /\ Hits(reaper_mailbox', Of("stop")) > 0 => sockets' = {} /\ ctx_terminating
      /\ \A j \in DOMAIN reaper_mailbox' : reaper_mailbox'[j][1] = "reap" => j \in DOMAIN reaper_mailbox /\ reaper_mailbox'[j] = reaper_mailbox[j]
  <2>1. CASE ~(ctx_terminating /\ sockets = {s})
    <3>1. reaper_mailbox' = reaper_mailbox
      BY <1>1, <2>1
    <3> QED BY <1>2, <1>8, <3>1
  <2>2. CASE ctx_terminating /\ sockets = {s}
    <3> DEFINE new == Len(reaper_mailbox) + 1
    <3>0. reaper_mailbox' = Append(reaper_mailbox, <<"stop", None>>)
      BY <1>1, <2>2
    <3>1. /\ reaper_mailbox' \in Seq(Reports)
          /\ \A t \in {"reap", "stop", "reaped"} : Hits(reaper_mailbox', Of(t)) = Hits(reaper_mailbox, Of(t)) + (IF t = "stop" THEN 1 ELSE 0)
          /\ DOMAIN reaper_mailbox' = DOMAIN reaper_mailbox \union {new}
          /\ \A j \in DOMAIN reaper_mailbox : reaper_mailbox'[j] = reaper_mailbox[j]
          /\ reaper_mailbox'[new] = <<"stop", None>>
      BY <3>0, ReportAppended
    <3> HIDE DEF new
    <3>2. Hits(reaper_mailbox', Of("reaped")) = Hits(reaper_mailbox, Of("reaped")) /\ Hits(reaper_mailbox', Of("stop")) = 1
      BY <1>7, <1>8, <3>1
    <3>3. \A j \in DOMAIN reaper_mailbox' : reaper_mailbox'[j][1] = "reap" => j # new
      BY <3>1
    <3>4. sockets' = {}
      BY <1>1, <2>2
    <3> QED BY <2>2, <3>1, <3>2, <3>3, <3>4
  <2> QED BY <2>1, <2>2
<1>10. CtxTypes'
  <2>1. life' \in [Socket -> Lives] /\ slots' \in [Ctx!Slot -> Socket \union {None}] /\ sockets' \subseteq Socket
    BY <1>1, <1>2, <1>4 DEF Lives
  <2>2. reaper_doing' \in {"nothing", "reaping", "polling", "finished"} \X (Socket \union {None})
    BY <1>1
  <2> QED BY <1>1, <1>5, <1>9, <2>1, <2>2 DEF CtxInv, CtxTypes
<1>11. AwaitInv'
  <2>1. \A x \in Socket : life'[x] = life[x] \/ (life[x] \in {"leaving", "destroyed"} /\ life'[x] \in {"destroyed", "gone"})
    BY <1>1, <1>3
  <2> QED BY <1>1, <2>1, AwaitKept
<1>12. Ctx!EndpointsAlive'
  <2>1. \A x \in Socket : life[x] \in {"open", "closed"} => life'[x] \in {"open", "closed"}
    BY <1>1, <1>3
  <2> QED BY <1>1, <2>1, EndpointsKept
<1>13. ReaperInv'
  <2>1. GoneOnes' = GoneOnes
    BY <1>1, <1>3 DEF GoneOnes
  <2>2. Handled' = Handled
    <3>1. \A x \in Socket : reaper_doing # <<"reaping", x>> <=> reaper_doing' # <<"reaping", x>>
      BY <1>1 DEF Ctx!Idle
    <3>2. \A x \in Socket : life'[x] \in Reaped <=> life[x] \in Reaped
      BY <1>1, <1>3 DEF Reaped
    <3> QED BY <3>1, <3>2 DEF Handled
  <2>3. \A i, j \in DOMAIN reaper_mailbox' :
          reaper_mailbox'[i][1] = "reap" /\ reaper_mailbox'[i] = reaper_mailbox'[j] => i = j
    <3> SUFFICES ASSUME NEW i \in DOMAIN reaper_mailbox', NEW j \in DOMAIN reaper_mailbox',
                        reaper_mailbox'[i][1] = "reap", reaper_mailbox'[i] = reaper_mailbox'[j]
                 PROVE  i = j
      OBVIOUS
    <3>1. reaper_mailbox'[j][1] = "reap"
      OBVIOUS
    <3>2. {i, j} \subseteq DOMAIN reaper_mailbox /\ reaper_mailbox'[i] = reaper_mailbox[i] /\ reaper_mailbox'[j] = reaper_mailbox[j]
      BY <1>9, <3>1
    <3> QED BY <1>2, <3>2 DEF ReaperInv
  <2>4. \A j \in DOMAIN reaper_mailbox' : reaper_mailbox'[j][1] = "reap" =>
          reaper_mailbox'[j][2] \in Socket /\ life'[reaper_mailbox'[j][2]] = "closed"
    BY <1>1, <1>2, <1>3, <1>9 DEF ReaperInv
  <2>5. reaper_doing' \in {<<"reaping", s>>, <<"polling", s>>}
    BY <1>1
  <2>6. \A x \in Socket : life[x] = "destroyed" => x = s
    <3>1. \A x \in Socket : life[x] = "destroyed" => reaper_doing \in {<<"reaping", x>>, <<"polling", x>>}
      BY <1>2 DEF ReaperInv
    <3> QED BY <1>1, <3>1 DEF Ctx!Idle
  <2>7. \A x \in Socket : life'[x] = "destroyed" => reaper_doing' \in {<<"reaping", x>>, <<"polling", x>>}
    BY <1>3, <2>5, <2>6
  <2>8. reaper_doing'[1] \in {"reaping", "polling"} /\ reaper_doing'[2] = s /\ life'[s] = "destroyed"
    BY <1>3, <2>5
  <2>9. reaper_sockets' = Cardinality(Handled') + Hits(reaper_mailbox', Of("reaped"))
        /\ Hits(reaper_mailbox', Of("reaped")) <= Cardinality(GoneOnes') /\ term_mailbox' = <<>>
    BY <1>1, <1>2, <1>8, <1>9, <2>1, <2>2 DEF ReaperInv
  <2> QED BY <2>3, <2>4, <2>7, <2>8, <2>9 DEF ReaperInv
<1>14. StopInv'
  <2>1. reaper_doing'[1] # "finished"
    BY <1>1, <1>8
  <2>2. term = "idle" => life'[Log] = "open"
    BY <1>1, <1>2, <1>3, CtxFacts DEF StopInv
  <2> QED BY <1>1, <1>2, <1>8, <1>9, <2>1, <2>2 DEF StopInv
<1> QED BY <1>6, <1>10, <1>11, <1>12, <1>13, <1>14 DEF CtxInv

LEMMA DeallocateStep == ASSUME CtxInv, Ctx!Deallocate PROVE CtxInv'
<1> DEFINE s == reaper_doing[2]
           new == Len(reaper_mailbox) + 1
<1>1. /\ s # None /\ life[s] = "destroyed" /\ life' = [life EXCEPT ![s] = "gone"]
      /\ reaper_mailbox' = Append(reaper_mailbox, <<"reaped", None>>)
      /\ reaper_sockets' = IF reaper_doing[1] = "reaping" THEN reaper_sockets + 1 ELSE reaper_sockets
      /\ reaper_doing' = <<"nothing", None>>
      /\ UNCHANGED <<ctx_terminating, sockets, empty_slots, slots, endpoints, term, term_mailbox, interrupts, tid,
                     mailbox, ctx_terminated, owns, pending, joining, connects, reaper_terminating>>
  BY DEF Ctx!Deallocate, Ctx!Idle, Ctx!ctxVars, Ctx!termVars, Ctx!ownVars, Ctx!joinVars
<1>2. /\ life \in [Socket -> Lives] /\ reaper_sockets \in Nat /\ s \in Socket /\ ReaperInv /\ StopInv
      /\ reaper_doing = <<reaper_doing[1], s>> /\ reaper_doing[1] \in {"nothing", "reaping", "polling", "finished"}
  BY <1>1 DEF CtxInv, CtxTypes
<1>3. \A x \in Socket : life'[x] = IF x = s THEN "gone" ELSE life[x]
  BY <1>1, <1>2
<1>4. reaper_doing[1] \in {"reaping", "polling"}
  BY <1>1, <1>2 DEF ReaperInv
<1>5. /\ reaper_mailbox' \in Seq(Reports)
      /\ \A t \in {"reap", "stop", "reaped"} : Hits(reaper_mailbox', Of(t)) = Hits(reaper_mailbox, Of(t)) + (IF t = "reaped" THEN 1 ELSE 0)
      /\ DOMAIN reaper_mailbox' = DOMAIN reaper_mailbox \union {new}
      /\ \A j \in DOMAIN reaper_mailbox : reaper_mailbox'[j] = reaper_mailbox[j]
      /\ reaper_mailbox'[new] = <<"reaped", None>>
  BY <1>1, ReportAppended
<1> HIDE DEF new
<1>6. Hits(reaper_mailbox', Of("stop")) = Hits(reaper_mailbox, Of("stop"))
      /\ Hits(reaper_mailbox', Of("reaped")) = Hits(reaper_mailbox, Of("reaped")) + 1 /\ Hits(reaper_mailbox, Of("reaped")) \in Nat
  BY <1>5, HitsReports DEF CtxInv
<1>7. \A j \in DOMAIN reaper_mailbox' : reaper_mailbox'[j][1] = "reap" => j \in DOMAIN reaper_mailbox /\ reaper_mailbox'[j] = reaper_mailbox[j]
  BY <1>5
<1>8. CtxTypes'
  <2>1. life' \in [Socket -> Lives] /\ reaper_sockets' \in Nat
    BY <1>1, <1>2 DEF Lives
  <2>2. reaper_doing' \in {"nothing", "reaping", "polling", "finished"} \X (Socket \union {None})
    BY <1>1
  <2> QED BY <1>1, <1>5, <2>1, <2>2 DEF CtxInv, CtxTypes
<1> HIDE DEF s
<1>9. SlotsInv'
  <2>1. \A x \in Socket : life'[x] \in Here <=> life[x] \in Here
    BY <1>1, <1>3 DEF Here
  <2> QED BY <1>1, <2>1, SlotsKept
<1>10. AwaitInv'
  <2>1. \A x \in Socket : life'[x] = life[x] \/ (life[x] \in {"leaving", "destroyed"} /\ life'[x] \in {"destroyed", "gone"})
    BY <1>1, <1>3
  <2> QED BY <1>1, <2>1, AwaitKept
<1>11. Ctx!EndpointsAlive'
  <2>1. \A x \in Socket : life[x] \in {"open", "closed"} => life'[x] \in {"open", "closed"}
    BY <1>1, <1>3
  <2> QED BY <1>1, <2>1, EndpointsKept
<1>12. ReaperInv'
  <2>1. Cardinality(GoneOnes') = Cardinality(GoneOnes) + 1
    <3>1. GoneOnes' = GoneOnes \union {s} /\ s \notin GoneOnes /\ GoneOnes \subseteq Socket
      BY <1>1, <1>2, <1>3 DEF GoneOnes
    <3> QED BY <1>2, <3>1, OneMore
  <2>2. Cardinality(GoneOnes) \in Nat /\ Cardinality(Handled) \in Nat /\ Cardinality(Handled') \in Nat
        /\ Handled \subseteq Socket /\ Handled' \subseteq Socket
    <3>1. GoneOnes \subseteq Socket /\ Handled \subseteq Socket /\ Handled' \subseteq Socket
      BY DEF GoneOnes, Handled
    <3> QED BY <3>1, SetsOfSockets
  <2>3. \A x \in Socket : x \in Handled' <=> life[x] \in Reaped /\ x # s
    <3>1. \A x \in Socket : reaper_doing' # <<"reaping", x>>
      BY <1>1
    <3>2. \A x \in Socket : life'[x] \in Reaped <=> life[x] \in Reaped /\ x # s
      BY <1>3 DEF Reaped
    <3> QED BY <3>1, <3>2 DEF Handled
  <2>4. reaper_sockets' = Cardinality(Handled') + Hits(reaper_mailbox', Of("reaped"))
    <3>1. CASE reaper_doing[1] = "reaping"
      <4>1. \A x \in Socket : x \in Handled <=> life[x] \in Reaped /\ x # s
        <5>1. \A x \in Socket : reaper_doing # <<"reaping", x>> <=> x # s
          BY <1>2, <3>1
        <5> QED BY <5>1 DEF Handled
      <4>2. Handled' = Handled
        BY <2>2, <2>3, <4>1
      <4>3. reaper_sockets' = reaper_sockets + 1 /\ reaper_sockets = Cardinality(Handled) + Hits(reaper_mailbox, Of("reaped"))
        BY <1>1, <1>2, <3>1 DEF ReaperInv
      <4> QED BY <1>6, <2>2, <4>2, <4>3
    <3>2. CASE reaper_doing[1] = "polling"
      <4>1. \A x \in Socket : x \in Handled <=> life[x] \in Reaped
        BY <3>2 DEF Handled
      <4>2. Handled = Handled' \union {s} /\ s \notin Handled'
        BY <1>1, <1>2, <2>2, <2>3, <4>1 DEF Reaped
      <4>3. Cardinality(Handled) = Cardinality(Handled') + 1
        BY <1>2, <2>2, <4>2, OneMore
      <4>4. reaper_sockets' = reaper_sockets /\ reaper_sockets = Cardinality(Handled) + Hits(reaper_mailbox, Of("reaped"))
        BY <1>1, <1>2, <3>2 DEF ReaperInv
      <4> QED BY <1>6, <2>2, <4>3, <4>4
    <3> QED BY <1>4, <3>1, <3>2
  <2>5. \A i, j \in DOMAIN reaper_mailbox' :
          reaper_mailbox'[i][1] = "reap" /\ reaper_mailbox'[i] = reaper_mailbox'[j] => i = j
    <3> SUFFICES ASSUME NEW i \in DOMAIN reaper_mailbox', NEW j \in DOMAIN reaper_mailbox',
                        reaper_mailbox'[i][1] = "reap", reaper_mailbox'[i] = reaper_mailbox'[j]
                 PROVE  i = j
      OBVIOUS
    <3>1. reaper_mailbox'[j][1] = "reap"
      OBVIOUS
    <3>2. {i, j} \subseteq DOMAIN reaper_mailbox /\ reaper_mailbox'[i] = reaper_mailbox[i] /\ reaper_mailbox'[j] = reaper_mailbox[j]
      BY <1>7, <3>1
    <3> QED BY <1>2, <3>2 DEF ReaperInv
  <2>6. \A j \in DOMAIN reaper_mailbox' : reaper_mailbox'[j][1] = "reap" =>
          reaper_mailbox'[j][2] \in Socket /\ life'[reaper_mailbox'[j][2]] = "closed"
    BY <1>1, <1>2, <1>3, <1>7 DEF ReaperInv
  <2>7. \A x \in Socket : life'[x] # "destroyed"
    <3>1. \A x \in Socket : life[x] = "destroyed" => x = s
      <4>1. \A x \in Socket : life[x] = "destroyed" => reaper_doing \in {<<"reaping", x>>, <<"polling", x>>}
        BY <1>2 DEF ReaperInv
      <4> QED BY <1>2, <4>1
    <3> QED BY <1>3, <3>1
  <2>8. reaper_doing'[1] = "nothing" /\ reaper_doing'[2] = None
    BY <1>1
  <2>9. Hits(reaper_mailbox', Of("reaped")) <= Cardinality(GoneOnes') /\ term_mailbox' = <<>>
    <3>1. Hits(reaper_mailbox, Of("reaped")) <= Cardinality(GoneOnes) /\ term_mailbox = <<>>
      BY <1>2, <1>4 DEF ReaperInv
    <3> QED BY <1>1, <1>6, <2>1, <2>2, <3>1
  <2> QED BY <2>4, <2>5, <2>6, <2>7, <2>8, <2>9 DEF ReaperInv
<1>13. StopInv'
  <2>1. reaper_doing'[1] # "finished"
    BY <1>1
  <2>2. term = "idle" => life'[Log] = "open"
    BY <1>1, <1>2, <1>3, CtxFacts DEF StopInv
  <2> QED BY <1>1, <1>2, <1>6, <2>1, <2>2 DEF StopInv
<1> QED BY <1>8, <1>9, <1>10, <1>11, <1>12, <1>13 DEF CtxInv

\* The reaper ends when it has been told to stop and counts no socket: then no
\* socket is left, and no report of any.
LEMMA FinishDoes ==
  ASSUME CtxInv, NEW type \in {"stop", "reaped"}, Ctx!ReaperGets(type), NEW finished \in BOOLEAN, Ctx!FinishIf(finished),
         reaper_sockets' = reaper_sockets - (IF type = "reaped" THEN 1 ELSE 0),
         reaper_terminating' = (reaper_terminating \/ type = "stop"),
         finished => reaper_sockets' = 0 /\ reaper_terminating'
  PROVE  CtxInv'
<1> DEFINE ending == IF finished THEN <<"finished", None>> ELSE reaper_doing
<1>1. /\ reaper_mailbox # <<>> /\ reaper_mailbox' = Tail(reaper_mailbox) /\ Head(reaper_mailbox)[1] = type
      /\ reaper_doing = <<"nothing", None>> /\ reaper_doing' = ending
      /\ term_mailbox' = IF finished THEN Append(term_mailbox, "done") ELSE term_mailbox
      /\ UNCHANGED <<Ctx!ctxVars, endpoints, term, interrupts, life, tid, mailbox, ctx_terminated, Ctx!ownVars, Ctx!joinVars>>
  BY DEF Ctx!ReaperGets, Ctx!FinishIf, Ctx!Idle
<1> USE DEF Ctx!ctxVars, Ctx!ownVars, Ctx!joinVars
<1>2. /\ reaper_mailbox' \in Seq(Reports)
      /\ \A t \in {"reap", "stop", "reaped"} :
           Hits(reaper_mailbox', Of(t)) = Hits(reaper_mailbox, Of(t)) - (IF type = t THEN 1 ELSE 0)
  BY <1>1, ReportTaken
<1>3. ReaperInv /\ StopInv /\ SlotsInv /\ reaper_sockets \in Nat /\ reaper_terminating \in BOOLEAN /\ life \in [Socket -> Lives]
  BY DEF CtxInv, CtxTypes
<1>4. \A t \in {"reap", "stop", "reaped"} : Hits(reaper_mailbox, Of(t)) \in Nat /\ Hits(reaper_mailbox', Of(t)) \in Nat
  <2>1. reaper_mailbox \in Seq(Reports)
    BY DEF CtxInv, CtxTypes
  <2> QED BY <1>2, <2>1, HitsType
<1>5. Handled \subseteq Socket /\ Cardinality(Handled) \in Nat /\ (Cardinality(Handled) = 0 <=> Handled = {})
  BY SetsOfSockets DEF Handled
<1>6. \A x \in Socket : reaper_doing # <<"reaping", x>> /\ ending # <<"reaping", x>>
  BY <1>1
<1>7. Handled' = Handled /\ GoneOnes' = GoneOnes /\ \A x \in Socket : x \in Handled <=> life[x] \in Reaped
  BY <1>1, <1>6 DEF Handled, GoneOnes
<1>8. reaper_sockets' = Cardinality(Handled) + Hits(reaper_mailbox', Of("reaped"))
  <2>1. reaper_sockets = Cardinality(Handled) + Hits(reaper_mailbox, Of("reaped"))
    BY <1>3 DEF ReaperInv
  <2>2. Hits(reaper_mailbox', Of("reaped")) = Hits(reaper_mailbox, Of("reaped")) - (IF type = "reaped" THEN 1 ELSE 0)
    BY <1>2
  <2>3. Hits(reaper_mailbox', Of("reaped")) \in Nat /\ Hits(reaper_mailbox, Of("reaped")) \in Nat
    BY <1>4
  <2> QED BY <1>5, <2>1, <2>2, <2>3
<1>9. reaper_sockets' \in Nat
  <2>1. Hits(reaper_mailbox', Of("reaped")) \in Nat
    BY <1>4
  <2> QED BY <1>5, <1>8, <2>1
<1>10. CtxTypes'
  <2>1. term_mailbox = <<>> /\ term_mailbox' \in {<<>>, <<"done">>}
    BY <1>1, <1>3 DEF ReaperInv
  <2>2. reaper_doing' \in {"nothing", "reaping", "polling", "finished"} \X (Socket \union {None})
    BY <1>1
  <2> QED BY <1>1, <1>2, <1>3, <1>9, <2>1, <2>2 DEF CtxInv, CtxTypes
<1>11. SlotsInv'
  BY <1>1, SlotsKept
<1>12. AwaitInv'
  BY <1>1, AwaitKept
<1>13. Ctx!EndpointsAlive'
  BY <1>1, EndpointsKept
<1>14. ReaperInv'
  <2>1. /\ \A i, j \in DOMAIN reaper_mailbox' :
             reaper_mailbox'[i][1] = "reap" /\ reaper_mailbox'[i] = reaper_mailbox'[j] => i = j
        /\ \A j \in DOMAIN reaper_mailbox' : reaper_mailbox'[j][1] = "reap" =>
             reaper_mailbox'[j][2] \in Socket /\ life[reaper_mailbox'[j][2]] = "closed"
    BY <1>1, ReapsLeft
  <2>2. \A x \in Socket : life[x] # "destroyed"
    BY <1>1, <1>3 DEF ReaperInv
  <2>3. reaper_doing'[1] \in {"nothing", "finished"} /\ reaper_doing'[2] = None /\ (reaper_doing'[1] # "finished" => ~finished)
    BY <1>1
  <2>4. Hits(reaper_mailbox', Of("reaped")) <= Cardinality(GoneOnes)
    <3>1. Hits(reaper_mailbox, Of("reaped")) <= Cardinality(GoneOnes)
      BY <1>3 DEF ReaperInv
    <3>2. Hits(reaper_mailbox', Of("reaped")) <= Hits(reaper_mailbox, Of("reaped"))
      BY <1>2, <1>4
    <3>3. Cardinality(GoneOnes) \in Nat
      BY SetsOfSockets DEF GoneOnes
    <3> QED BY <1>4, <3>1, <3>2, <3>3
  <2>5. reaper_doing'[1] # "finished" => term_mailbox' = <<>>
    BY <1>1, <1>3, <2>3 DEF ReaperInv
  <2>6. life' = life
    BY <1>1
  <2> QED BY <1>7, <1>8, <2>1, <2>2, <2>3, <2>4, <2>5, <2>6 DEF ReaperInv
<1>15. StopInv'
  <2> DEFINE stops == Hits(reaper_mailbox, Of("stop"))
             left == Hits(reaper_mailbox', Of("stop"))
  <2>1. stops \in Nat /\ left \in Nat /\ left = stops - (IF type = "stop" THEN 1 ELSE 0)
    BY <1>2, <1>4
  <2>2. stops + (IF reaper_terminating THEN 1 ELSE 0) <= 1 /\ (stops > 0 \/ reaper_terminating => sockets = {} /\ ctx_terminating)
    BY <1>3 DEF StopInv
  <2> HIDE DEF stops, left
  <2>3. left + (IF reaper_terminating' THEN 1 ELSE 0) <= 1
    BY <1>3, <2>1, <2>2
  <2>4. left > 0 \/ reaper_terminating' => sockets = {} /\ ctx_terminating
    BY <1>3, <2>1, <2>2
  <2>5. ASSUME finished PROVE reaper_terminating' /\ Ctx!DoneWhenAllGone'
    <3>1. sockets = {} /\ left = 0 /\ reaper_sockets' = 0 /\ reaper_terminating'
      BY <1>3, <2>1, <2>3, <2>4, <2>5
    <3>2. Handled = {} /\ Hits(reaper_mailbox', Of("reaped")) = 0
      BY <1>4, <1>5, <1>8, <3>1
    <3>3. \A x \in Socket : life[x] \in {"unborn", "gone"}
      BY <1>3, <1>7, <3>1, <3>2 DEF SlotsInv, Here, Reaped, Lives
    <3>4. \A j \in DOMAIN reaper_mailbox' : reaper_mailbox'[j] \notin Of("reaped") /\ reaper_mailbox'[j] \notin Of("stop")
      BY <1>2, <3>1, <3>2, HitsType DEF left
    <3>5. \A j \in DOMAIN reaper_mailbox' : reaper_mailbox'[j][1] # "reap"
      <4> SUFFICES ASSUME NEW j \in DOMAIN reaper_mailbox', reaper_mailbox'[j][1] = "reap" PROVE FALSE
        OBVIOUS
      <4>1. reaper_mailbox'[j][2] \in Socket /\ life[reaper_mailbox'[j][2]] = "closed"
        BY <1>1, ReapsLeft
      <4> QED BY <3>3, <4>1
    <3>6. DOMAIN reaper_mailbox' = {}
      <4>1. \A j \in DOMAIN reaper_mailbox' : reaper_mailbox'[j] \in Reports
        BY <1>2
      <4>2. \A r \in Reports : r[1] # "reap" => r \in Of("reaped") \/ r \in Of("stop")
        BY DEF Reports, Of
      <4> QED BY <3>4, <3>5, <4>1, <4>2
    <3>7. reaper_mailbox' = <<>>
      BY <1>2, <3>6
    <3> QED BY <1>1, <3>1, <3>3, <3>7 DEF Ctx!DoneWhenAllGone
  <2>6. reaper_doing'[1] = "finished" => finished
    BY <1>1
  <2> QED BY <1>1, <1>3, <2>3, <2>4, <2>5, <2>6 DEF StopInv, left
<1> QED BY <1>10, <1>11, <1>12, <1>13, <1>14, <1>15 DEF CtxInv

LEMMA ProcessStopStep == ASSUME CtxInv, Ctx!ProcessStop PROVE CtxInv'
<1> DEFINE finished == reaper_sockets = 0
<1>1. reaper_sockets \in Nat /\ reaper_terminating \in BOOLEAN
  BY DEF CtxInv, CtxTypes
<1>2. Ctx!ReaperGets("stop") /\ Ctx!FinishIf(finished) /\ reaper_sockets' = reaper_sockets /\ reaper_terminating' = TRUE
  BY DEF Ctx!ProcessStop
<1>3. reaper_sockets' = reaper_sockets - (IF "stop" = "reaped" THEN 1 ELSE 0)
  BY <1>1, <1>2
<1>4. reaper_terminating' = (reaper_terminating \/ "stop" = "stop")
  BY <1>2
<1>5. finished \in BOOLEAN /\ (finished => reaper_sockets' = 0 /\ reaper_terminating')
  BY <1>2
<1> HIDE DEF finished
<1> QED BY <1>2, <1>3, <1>4, <1>5, FinishDoes

LEMMA ProcessReapedStep == ASSUME CtxInv, Ctx!ProcessReaped PROVE CtxInv'
<1> DEFINE finished == reaper_sockets' = 0 /\ reaper_terminating
<1>1. reaper_sockets \in Nat /\ reaper_terminating \in BOOLEAN
  BY DEF CtxInv, CtxTypes
<1>2. Ctx!ReaperGets("reaped") /\ Ctx!FinishIf(finished) /\ reaper_sockets' = reaper_sockets - 1
      /\ reaper_terminating' = reaper_terminating
  BY DEF Ctx!ProcessReaped
<1>3. reaper_sockets' = reaper_sockets - (IF "reaped" = "reaped" THEN 1 ELSE 0) /\ finished \in BOOLEAN
      /\ reaper_terminating' = (reaper_terminating \/ "reaped" = "stop")
      /\ (finished => reaper_sockets' = 0 /\ reaper_terminating')
  BY <1>1, <1>2
<1> QED BY <1>2, <1>3, FinishDoes

LEMMA ContextStep == ASSUME CtxInv, Ctx!Next PROVE CtxInv'
<1>1. CASE \E s \in Socket : Ctx!CreateSocket(s) \/ Ctx!LaunchChild(s) \/ Ctx!SendBind(s) \/ Ctx!Close(s)
  BY <1>1, CreateStep, LaunchStep, SendBindStep, CloseStep
<1>2. CASE \E s \in Socket, e \in Endpoint : Ctx!Bind(s, e) \/ Ctx!Connect(s, e)
  BY <1>2, BindStep, ConnectStep
<1>3. CASE \E s \in Socket : Ctx!ProcessCommand(s) \/ Ctx!TreeGone(s)
  BY <1>3, ProcessCommandStep, TreeGoneStep
<1>4. CASE Ctx!Term \/ Ctx!Interrupt
  BY <1>4, StartTermStep, StopSocketsStep, ReceiveDoneStep, DeleteContextStep, InterruptStep DEF Ctx!Term
<1>5. CASE Ctx!Reaper
  BY <1>5, ProcessReapStep, ProcessStopStep, ProcessReapedStep, DeallocateStep, DestroyStep DEF Ctx!Reaper
<1> QED BY <1>1, <1>2, <1>3, <1>4, <1>5 DEF Ctx!Next

LEMMA ContextStutter == ASSUME CtxInv, UNCHANGED contextVars PROVE CtxInv'
<1> USE DEF contextVars
<1>1. CtxTypes'
  BY DEF CtxInv, CtxTypes
<1>2. SlotsInv'
  BY SlotsKept
<1>3. AwaitInv'
  BY AwaitKept
<1>4. Ctx!EndpointsAlive'
  BY EndpointsKept
<1>5. ReaperInv'
  BY ReaperKept
<1>6. StopInv'
  BY StopKept
<1> QED BY <1>1, <1>2, <1>3, <1>4, <1>5, <1>6 DEF CtxInv

(***************************************************************************)
(* The pipes.                                                              *)
(***************************************************************************)
\* The parts with which messages end.
Ends == {p \in Pi!Part : ~Pi!More(p)}

\* How far the swap can be read back to after a rollback.
Kept == IF commit > 0 THEN commit ELSE 0

\* What is in the pipe: up to the end of the last message that is complete, and
\* the parts of the one that is not.
WholeOf(l, f, u, s, k) == <<l>> \o (f \o (u \o SubSeq(s, 1, k)))
BrokenOf(p, s, k) == p \o SubSeq(s, k + 1, Len(s))
Whole == WholeOf(last_read, pipe_flushed, pipe_unflushed, swap, Kept)
Broken == BrokenOf(pipe_partial, swap, Kept)
Closed(s) == s # <<>> => s[Len(s)] = Delimiter \/ ~Pi!More(s[Len(s)])
Chained(s) == \A j \in 1..Len(s) - 1 : Pi!Follows(s[j + 1], s[j])

PipeModes ==
  /\ pipe_unflushed \in Seq(Pi!Part) /\ pipe_partial \in Seq(Pi!Part)
  /\ swapping => pipe_partial = <<>> /\ Pi!hwm > 0
  /\ ~swapping => swap = <<>>
  /\ commit <= Len(swap)
  /\ \A i \in DOMAIN swap : i > commit => Pi!More(swap[i])
  /\ commit >= 1 => ~Pi!More(swap[commit])
  /\ pending_delimiter => writer_terminating
  /\ writer_terminating => ~writer_active /\ ~Pi!More(last_written)

\* The commands: the last that the reader sends asks for the termination, and
\* the last that the writer sends says that it is gone.
PipeCommands ==
  /\ \A j \in DOMAIN toWriter : toWriter[j][1] = "pipe_term" => j = Len(toWriter) /\ reader_terminating
  /\ writer_gone => toWriter = <<>> /\ reader_terminating
  /\ \A j \in DOMAIN toReader : toReader[j] = "pipe_term_ack" => j = Len(toReader) /\ writer_gone
  /\ reader_gone => writer_gone /\ toReader = <<>>

\* The counts that the reader has sent lie between the writer's and its own, and
\* what it has not read yet was written.
PipeCounts ==
  /\ \A j \in DOMAIN toWriter : toWriter[j][1] = "activate_writer" => msgs_read <= toWriter[j][2] /\ toWriter[j][2] <= reader_read
  /\ \A i, j \in DOMAIN toWriter : i <= j /\ toWriter[j][1] = "activate_writer" => toWriter[i][2] <= toWriter[j][2]
  /\ msgs_read <= reader_read /\ reader_read <= msgs_written
  /\ ~reader_gone => reader_read + Hits(pipe_flushed, Ends) + Hits(pipe_unflushed, Ends) = msgs_written
  /\ msgs_written + Hits(swap, Ends) = Pi!LastComplete[1]
  /\ Pi!hwm > 0 => msgs_written - msgs_read <= Pi!hwm
  /\ Pi!hwm > 0 /\ ~swapping /\ Pi!More(last_written) => msgs_written - msgs_read < Pi!hwm

PipeChain ==
  /\ Chained(Whole \o Broken)
  /\ Closed(pipe_flushed) /\ Closed(pipe_unflushed)
  /\ \A j \in DOMAIN Broken : Pi!More(Broken[j])
  /\ writer_terminating => Broken = <<>>
  /\ LET q == Whole[Len(Whole)]
     IN IF q = Delimiter THEN writer_terminating /\ ~swapping
        ELSE ~Pi!More(q) /\ (~writer_terminating => q[1] = Pi!LastComplete[1])
  /\ ~writer_terminating => (Pi!More(last_written) <=> Broken # <<>>)
  /\ Broken # <<>> => Broken[Len(Broken)] = last_written

PipeInv ==
  /\ Pi!TypeOK /\ PipeModes /\ PipeCommands /\ PipeCounts
  /\ ~reader_gone /\ rollback_ok => PipeChain

\* What the pipe may hold, with what the reader has before it reads anything.
Item == Pi!Part \union {Pi!NoPart, Delimiter}

LEMMA PipeFacts ==
  /\ PipeKinds # {} /\ PipeKinds \subseteq [hwm : Nat, swap_size : Nat, batches : BOOLEAN]
  /\ max_wm_delta \in Nat \ {0} /\ MaxMessages \in Nat \ {0} /\ MaxParts \in Nat \ {0}
  /\ Delimiter \notin Pi!Part /\ Delimiter # Pi!NoPart /\ Pi!NoPart = <<0, 1, FALSE>>
  /\ Pi!Part = (1..MaxMessages) \X (1..MaxParts) \X BOOLEAN
BY PartsAssumption DEF PartsAssumption, Pi!PipeAssumption, Pi!NoPart, Pi!Part

LEMMA PartFields ==
  /\ \A p \in Pi!Part : p[1] \in 1..MaxMessages /\ p[2] \in 1..MaxParts /\ p[3] \in BOOLEAN /\ p = <<p[1], p[2], p[3]>>
  /\ Pi!NoPart[1] = 0 /\ Pi!NoPart[2] = 1 /\ Pi!NoPart[3] = FALSE
  /\ \A p \in Pi!Part \union {Pi!NoPart} : p # Delimiter /\ p[1] \in 0..MaxMessages /\ p[2] \in 1..MaxParts /\ p[3] \in BOOLEAN
<1>1. \A p \in Pi!Part : p[1] \in 1..MaxMessages /\ p[2] \in 1..MaxParts /\ p[3] \in BOOLEAN /\ p = <<p[1], p[2], p[3]>>
  BY PipeFacts
<1>2. Pi!NoPart[1] = 0 /\ Pi!NoPart[2] = 1 /\ Pi!NoPart[3] = FALSE
  BY PipeFacts
<1>3. \A p \in Pi!Part \union {Pi!NoPart} : p # Delimiter
  BY PipeFacts
<1>4. 1 \in 1..MaxParts /\ 0 \in 0..MaxMessages /\ \A x \in 1..MaxMessages : x \in 0..MaxMessages
  BY PipeFacts
<1>5. \A p \in Pi!Part \union {Pi!NoPart} : p[1] \in 0..MaxMessages /\ p[2] \in 1..MaxParts /\ p[3] \in BOOLEAN
  BY <1>1, <1>2, <1>4
<1> QED BY <1>1, <1>2, <1>3, <1>5

LEMMA KindFields == ASSUME Pi!TypeOK PROVE Pi!hwm \in Nat /\ Pi!SwapSize \in Nat /\ Pi!Batches \in BOOLEAN /\ Pi!lwm \in Nat
<1>1. created \in [hwm : Nat, swap_size : Nat, batches : BOOLEAN]
  BY PipeFacts DEF Pi!TypeOK
<1>2. Pi!hwm \in Nat /\ Pi!SwapSize \in Nat /\ Pi!Batches \in BOOLEAN
  BY <1>1 DEF Pi!hwm, Pi!SwapSize, Pi!Batches
<1> QED BY <1>2, PipeFacts DEF Pi!lwm

(***************************************************************************)
(* Sequences.                                                              *)
(***************************************************************************)
LEMMA LeastNatural ==
  ASSUME NEW S \in SUBSET Nat, S # {}
  PROVE  \E x \in S : \A y \in S : x <= y
<1> DEFINE R == OpToRel(<, Nat)
<1>1. R = {ss \in Nat \X Nat : ss[1] < ss[2]}
  BY DEF OpToRel
<1>2. IsWellFoundedOn(R, Nat)
  BY NatLessThanWellFounded
<1> HIDE DEF R
<1>3. PICK x \in S : \A y \in S : <<y, x>> \notin R
  BY <1>2, WFMin
<1>4. \A y \in S : x \in Nat /\ y \in Nat /\ ~(y < x)
  BY <1>1, <1>3
<1> QED BY <1>4

LEMMA HitsConcat ==
  ASSUME NEW X, NEW s \in Seq(X), NEW t \in Seq(X), NEW S
  PROVE  Hits(s \o t, S) = Hits(s, S) + Hits(t, S)
<1> DEFINE first == Places(s, S)
           second == Places(t, S)
           shifted == Places(s \o t, S) \ first
           n == Len(s)
           f == [j \in second |-> n + j]
<1>0. n \in Nat /\ Len(t) \in Nat /\ Len(s \o t) = n + Len(t) /\ s \o t \in Seq(X)
      /\ (\A j \in 1..n : (s \o t)[j] = s[j]) /\ (\A j \in 1..Len(t) : (s \o t)[n + j] = t[j])
  BY ConcatProperties
<1>1. first \subseteq 1..n /\ second \subseteq 1..Len(t) /\ first \subseteq Places(s \o t, S)
  BY <1>0 DEF Places
<1>2. \A j \in 1..Len(t) : j \in second <=> n + j \in shifted
  BY <1>0 DEF Places
<1>3. \A k \in shifted : k \in Nat /\ k - n \in 1..Len(t)
  BY <1>0 DEF Places
<1>4. IsFiniteSet(first) /\ IsFiniteSet(second) /\ IsFiniteSet(Places(s \o t, S))
  BY <1>0, HitsType
<1> HIDE DEF first, second, shifted, n
<1>5. f \in [second -> shifted] /\ \A i, j \in second : f[i] = f[j] => i = j
  BY <1>0, <1>1, <1>2
<1>6. \A k \in shifted : k - n \in second /\ f[k - n] = k
  <2> SUFFICES ASSUME NEW k \in shifted PROVE k - n \in second /\ f[k - n] = k
    OBVIOUS
  <2>1. k - n \in 1..Len(t) /\ n + (k - n) = k
    BY <1>0, <1>3
  <2> QED BY <1>2, <2>1
<1>7. f \in Bijection(second, shifted)
  BY <1>5, <1>6 DEF Bijection, Injection, Surjection, IsInjective
<1>8. IsFiniteSet(shifted) /\ Cardinality(shifted) = Cardinality(second)
  BY <1>4, <1>7, FS_Bijection DEF ExistsBijection
<1>9. Places(s \o t, S) = first \union shifted /\ first \intersect shifted = {}
  BY <1>1 DEF shifted
<1>10. Cardinality(first \union shifted) = Cardinality(first) + Cardinality(shifted) - Cardinality(first \intersect shifted)
  BY <1>4, <1>8, FS_Union
<1>11. Cardinality(first \intersect shifted) = 0 /\ Cardinality(first) \in Nat /\ Cardinality(second) \in Nat
  BY <1>4, <1>9, FS_EmptySet, FS_CardinalityType
<1> QED BY <1>8, <1>9, <1>10, <1>11 DEF Hits, first, second

LEMMA HitsEmpty == ASSUME NEW S PROVE Hits(<<>>, S) = 0
<1>1. Places(<<>>, S) = {}
  BY DEF Places
<1> QED BY <1>1, FS_EmptySet DEF Hits

LEMMA HitsOne ==
  ASSUME NEW X, NEW x \in X, NEW S
  PROVE  Hits(<<x>>, S) = IF x \in S THEN 1 ELSE 0
<1>1. <<>> \in Seq(X) /\ Append(<<>>, x) = <<x>>
  OBVIOUS
<1>2. Hits(<<>>, S) = 0
  BY HitsEmpty
<1>3. Hits(Append(<<>>, x), S) = Hits(<<>>, S) + (IF x \in S THEN 1 ELSE 0)
  BY <1>1, HitsAppend
<1> QED BY <1>1, <1>2, <1>3

LEMMA ChainAppend ==
  ASSUME NEW X, NEW s \in Seq(X), s # <<>>, NEW e \in X, Chained(s), Pi!Follows(e, s[Len(s)])
  PROVE  Chained(Append(s, e))
<1>1. Len(s) \in Nat \ {0} /\ Len(Append(s, e)) = Len(s) + 1 /\ Append(s, e)[Len(s) + 1] = e
      /\ \A j \in 1..Len(s) : Append(s, e)[j] = s[j]
  BY AppendProperties, EmptySeq
<1> SUFFICES ASSUME NEW j \in 1..Len(s) PROVE Pi!Follows(Append(s, e)[j + 1], Append(s, e)[j])
  BY <1>1 DEF Chained
<1>2. CASE j = Len(s)
  BY <1>1, <1>2
<1>3. CASE j # Len(s)
  <2>1. j \in 1..Len(s) - 1 /\ j + 1 \in 1..Len(s)
    BY <1>1, <1>3
  <2>2. Pi!Follows(s[j + 1], s[j])
    BY <2>1 DEF Chained
  <2> QED BY <1>1, <2>1, <2>2
<1> QED BY <1>2, <1>3

LEMMA ChainPrefix ==
  ASSUME NEW X, NEW s \in Seq(X), NEW t \in Seq(X), Chained(s \o t)
  PROVE  Chained(s)
<1>1. Len(s) \in Nat /\ Len(t) \in Nat /\ Len(s \o t) = Len(s) + Len(t) /\ \A j \in 1..Len(s) : (s \o t)[j] = s[j]
  BY ConcatProperties
<1> SUFFICES ASSUME NEW j \in 1..Len(s) - 1 PROVE Pi!Follows(s[j + 1], s[j])
  BY DEF Chained
<1>2. j \in 1..Len(s \o t) - 1 /\ j \in 1..Len(s) /\ j + 1 \in 1..Len(s)
  BY <1>1
<1>3. Pi!Follows((s \o t)[j + 1], (s \o t)[j])
  BY <1>2 DEF Chained
<1> QED BY <1>1, <1>2, <1>3

LEMMA ChainTail ==
  ASSUME NEW X, NEW s \in Seq(X), s # <<>>, Chained(s)
  PROVE  Chained(Tail(s))
<1>1. Len(s) \in Nat \ {0} /\ Len(Tail(s)) = Len(s) - 1 /\ \A j \in 1..Len(s) - 1 : Tail(s)[j] = s[j + 1]
  BY HeadTailProperties, EmptySeq
<1> SUFFICES ASSUME NEW j \in 1..Len(Tail(s)) - 1 PROVE Pi!Follows(Tail(s)[j + 1], Tail(s)[j])
  BY DEF Chained
<1>2. j \in 1..Len(s) - 1 /\ j + 1 \in 1..Len(s) - 1
  BY <1>1
<1>3. Pi!Follows(s[(j + 1) + 1], s[j + 1])
  BY <1>2 DEF Chained
<1> QED BY <1>1, <1>2, <1>3

\* Concatenation, with a name that the provers do not look into.
Cat(s, t) == s \o t

LEMMA CatFacts ==
  ASSUME NEW X, NEW s \in Seq(X), NEW t \in Seq(X), NEW u \in Seq(X)
  PROVE  Cat(s, t) \in Seq(X) /\ Cat(Cat(s, t), u) = Cat(s, Cat(t, u)) /\ Cat(s, <<>>) = s /\ Cat(<<>>, s) = s
<1>1. Cat(s, t) \in Seq(X) /\ Cat(Cat(s, t), u) = Cat(s, Cat(t, u))
  BY ConcatProperties, ConcatAssociative DEF Cat
<1>2. Cat(s, <<>>) = s /\ Cat(<<>>, s) = s
  BY ConcatEmptySeq DEF Cat
<1> QED BY <1>1, <1>2

LEMMA Regrouped ==
  ASSUME NEW X, NEW l \in Seq(X), NEW f \in Seq(X), NEW u \in Seq(X), NEW x \in Seq(X), NEW t \in Seq(X)
  PROVE  Cat(Cat(l, Cat(f, Cat(u, x))), t) = Cat(Cat(Cat(l, f), u), Cat(x, t))
<1> DEFINE S == Seq(X)
<1>1. \A a, b \in S : Cat(a, b) \in S
  BY CatFacts
<1>2. \A a, b, c \in S : Cat(Cat(a, b), c) = Cat(a, Cat(b, c))
  BY CatFacts
<1>3. l \in S /\ f \in S /\ u \in S /\ x \in S /\ t \in S
  OBVIOUS
<1> HIDE DEF S
<1> QED BY <1>1, <1>2, <1>3

LEMMA Slice ==
  ASSUME NEW X, NEW s \in Seq(X), NEW a \in 0..Len(s), NEW b \in a..Len(s)
  PROVE  /\ SubSeq(s, a + 1, b) \in Seq(X) /\ Len(SubSeq(s, a + 1, b)) = b - a
         /\ \A i \in 1..b - a : SubSeq(s, a + 1, b)[i] = s[a + i]
<1>1. Len(s) \in Nat /\ a \in Nat /\ b \in Nat /\ a <= b /\ b <= Len(s) /\ a + 1 \in Int
  OBVIOUS
<1>2. \A i \in (a + 1)..b : s[i] \in X
  BY <1>1
<1>3. SubSeq(s, a + 1, b) \in Seq(X) /\ Len(SubSeq(s, a + 1, b)) = (IF a + 1 <= b THEN b - (a + 1) + 1 ELSE 0)
      /\ \A i \in 1..b - (a + 1) + 1 : SubSeq(s, a + 1, b)[i] = s[(a + 1) + i - 1]
  BY <1>1, <1>2, SubSeqProperties
<1>4. b - (a + 1) + 1 = b - a /\ \A i \in 1..b - a : (a + 1) + i - 1 = a + i
  BY <1>1
<1> QED BY <1>1, <1>3, <1>4

LEMMA SliceOfSlice ==
  ASSUME NEW X, NEW s \in Seq(X), NEW a \in 0..Len(s), NEW b \in a..Len(s), NEW c \in 0..b - a, NEW d \in c..b - a
  PROVE  SubSeq(SubSeq(s, a + 1, b), c + 1, d) = SubSeq(s, (a + c) + 1, a + d)
<1> DEFINE u == SubSeq(s, a + 1, b)
           v == SubSeq(u, c + 1, d)
           w == SubSeq(s, (a + c) + 1, a + d)
<1>1. Len(s) \in Nat /\ a + c \in 0..Len(s) /\ a + d \in (a + c)..Len(s) /\ (a + d) - (a + c) = d - c /\ c \in Nat /\ d \in Nat /\ c <= d /\ d <= b - a
  OBVIOUS
<1>2. u \in Seq(X) /\ Len(u) = b - a /\ \A i \in 1..b - a : u[i] = s[a + i]
  BY Slice
<1>3. w \in Seq(X) /\ Len(w) = d - c /\ \A i \in 1..d - c : w[i] = s[(a + c) + i]
  BY <1>1, Slice
<1> HIDE DEF u
<1>4. v \in Seq(X) /\ Len(v) = d - c /\ \A i \in 1..d - c : v[i] = u[c + i]
  BY <1>1, <1>2, Slice
<1> HIDE DEF v, w
<1>5. \A i \in 1..d - c : c + i \in 1..b - a /\ a + (c + i) = (a + c) + i
  BY <1>1
<1>6. \A i \in 1..Len(v) : v[i] = w[i]
  BY <1>2, <1>3, <1>4, <1>5
<1>7. v = w
  BY <1>3, <1>4, <1>6, SeqEqual
<1> QED BY <1>7 DEF u, v, w

LEMMA SliceJoin ==
  ASSUME NEW X, NEW s \in Seq(X), NEW a \in 0..Len(s), NEW b \in a..Len(s), NEW c \in b..Len(s)
  PROVE  SubSeq(s, a + 1, b) \o SubSeq(s, b + 1, c) = SubSeq(s, a + 1, c)
<1>1. a + 1 \in 1..Len(s) + 1 /\ b \in (a + 1) - 1..Len(s)
  OBVIOUS
<1> QED BY <1>1, ConcatAdjacentSubSeq

LEMMA SliceWhole ==
  ASSUME NEW X, NEW s \in Seq(X)
  PROVE  SubSeq(s, 1, Len(s)) = s /\ SubSeq(s, 1, 0) = <<>> /\ SubSeq(s, Len(s) + 1, Len(s)) = <<>>
<1>1. Len(s) \in Nat /\ 0 < 1 /\ Len(s) < Len(s) + 1 /\ Len(s) \in Int /\ Len(s) + 1 \in Int
  OBVIOUS
<1> QED BY <1>1, SubSeqFull, SubSeqEmpty

LEMMA SliceAppend ==
  ASSUME NEW X, NEW s \in Seq(X), NEW e \in X, NEW a \in 0..Len(s)
  PROVE  /\ \A b \in a..Len(s) : SubSeq(Append(s, e), a + 1, b) = SubSeq(s, a + 1, b)
         /\ SubSeq(Append(s, e), a + 1, Len(s) + 1) = Append(SubSeq(s, a + 1, Len(s)), e)
<1> DEFINE u == Append(s, e)
<1>1. u \in Seq(X) /\ Len(u) = Len(s) + 1 /\ Len(s) \in Nat /\ a \in 0..Len(u) /\ u[Len(s) + 1] = e
      /\ \A i \in 1..Len(s) : u[i] = s[i]
  BY AppendProperties
<1>2. ASSUME NEW b \in a..Len(s) PROVE SubSeq(u, a + 1, b) = SubSeq(s, a + 1, b)
  <2>1. b \in a..Len(u) /\ \A i \in 1..b - a : a + i \in 1..Len(s)
    BY <1>1
  <2>2. SubSeq(s, a + 1, b) \in Seq(X) /\ Len(SubSeq(s, a + 1, b)) = b - a /\ \A i \in 1..b - a : SubSeq(s, a + 1, b)[i] = s[a + i]
    BY Slice
  <2> HIDE DEF u
  <2>3. SubSeq(u, a + 1, b) \in Seq(X) /\ Len(SubSeq(u, a + 1, b)) = b - a /\ \A i \in 1..b - a : SubSeq(u, a + 1, b)[i] = u[a + i]
    BY <1>1, <2>1, Slice
  <2>4. \A i \in 1..b - a : SubSeq(u, a + 1, b)[i] = SubSeq(s, a + 1, b)[i]
    BY <1>1, <2>1, <2>2, <2>3
  <2> QED BY <2>2, <2>3, <2>4, SeqEqual
<1>3. SubSeq(u, a + 1, Len(s) + 1) = Append(SubSeq(s, a + 1, Len(s)), e)
  <2> DEFINE v == SubSeq(s, a + 1, Len(s))
             w == SubSeq(u, a + 1, Len(u))
             z == Append(v, e)
  <2>1. v \in Seq(X) /\ Len(v) = Len(s) - a /\ \A i \in 1..Len(s) - a : v[i] = s[a + i]
    BY <1>1, Slice
  <2> HIDE DEF u, v
  <2>2. w \in Seq(X) /\ Len(w) = Len(u) - a /\ \A i \in 1..Len(u) - a : w[i] = u[a + i]
    BY <1>1, Slice
  <2>3. z \in Seq(X) /\ Len(z) = Len(v) + 1 /\ z[Len(v) + 1] = e /\ \A i \in 1..Len(v) : z[i] = v[i]
    BY <2>1, AppendProperties
  <2> HIDE DEF w, z
  <2>4. Len(w) = Len(z) /\ Len(z) = Len(s) - a + 1
    BY <1>1, <2>1, <2>2, <2>3
  <2>5. \A i \in 1..Len(w) : w[i] = z[i]
    <3> SUFFICES ASSUME NEW i \in 1..Len(w) PROVE w[i] = z[i]
      OBVIOUS
    <3>1. CASE i = Len(s) - a + 1
      <4>1. a + i = Len(s) + 1 /\ i = Len(v) + 1
        BY <1>1, <2>1, <3>1
      <4> QED BY <1>1, <2>2, <2>3, <2>4, <4>1
    <3>2. CASE i # Len(s) - a + 1
      <4>1. i \in 1..Len(s) - a /\ a + i \in 1..Len(s) /\ i \in 1..Len(v)
        BY <1>1, <2>1, <2>4, <3>2
      <4> QED BY <1>1, <2>1, <2>2, <2>3, <2>4, <4>1
    <3> QED BY <3>1, <3>2
  <2>6. w = z
    BY <2>2, <2>3, <2>4, <2>5, SeqEqual
  <2> QED BY <1>1, <2>6 DEF v, w, z
<1> QED BY <1>2, <1>3

LEMMA LastConcat ==
  ASSUME NEW X, NEW s \in Seq(X), NEW t \in Seq(X)
  PROVE  /\ t # <<>> => s \o t # <<>> /\ (s \o t)[Len(s \o t)] = t[Len(t)]
         /\ t = <<>> => s \o t = s
<1>1. Len(s) \in Nat /\ Len(t) \in Nat /\ Len(s \o t) = Len(s) + Len(t) /\ s \o t \in Seq(X)
      /\ \A j \in 1..Len(t) : (s \o t)[Len(s) + j] = t[j]
  BY ConcatProperties
<1>2. CASE t # <<>>
  <2>1. Len(t) \in 1..Len(t) /\ Len(s \o t) > 0
    BY <1>1, <1>2, EmptySeq
  <2> QED BY <1>1, <1>2, <2>1
<1>3. CASE t = <<>>
  BY <1>3, ConcatEmptySeq
<1> QED BY <1>2, <1>3

LEMMA ClosedConcat ==
  ASSUME NEW X, NEW s \in Seq(X), NEW t \in Seq(X), Closed(s), Closed(t)
  PROVE  Closed(s \o t)
BY LastConcat DEF Closed

(***************************************************************************)
(* What is in the pipe.                                                    *)
(***************************************************************************)
LEMMA PipeTypes ==
  ASSUME Pi!TypeOK, PipeModes
  PROVE  /\ last_read \in Item /\ pipe_flushed \in Seq(Item) /\ pipe_unflushed \in Seq(Item) /\ pipe_partial \in Seq(Item)
         /\ swap \in Seq(Pi!Part) /\ swap \in Seq(Item) /\ Kept \in 0..Len(swap) /\ commit \in Int /\ Len(swap) \in Nat
         /\ <<last_read>> \in Seq(Item)
<1>1. swap \in Seq(Pi!Part) /\ commit \in Int /\ last_read \in Pi!Part \union {Pi!NoPart} /\ pipe_flushed \in Seq(Pi!Part \union {Delimiter})
      /\ commit <= Len(swap)
  BY DEF Pi!TypeOK, Pi!ypipe!QueueTypeOK, PipeModes
<1>2. Pi!Part \subseteq Item /\ Pi!Part \union {Delimiter} \subseteq Item /\ Pi!Part \union {Pi!NoPart} \subseteq Item
  BY DEF Item
<1>3. swap \in Seq(Item) /\ pipe_flushed \in Seq(Item)
  BY <1>1, <1>2, SeqMonotonic
<1>4. pipe_unflushed \in Seq(Item) /\ pipe_partial \in Seq(Item)
  BY <1>2, SeqMonotonic DEF PipeModes
<1>5. Len(swap) \in Nat /\ Kept \in 0..Len(swap)
  BY <1>1 DEF Kept
<1>6. last_read \in Item /\ <<last_read>> \in Seq(Item)
  BY <1>1, <1>2
<1> QED BY <1>1, <1>3, <1>4, <1>5, <1>6

LEMMA WholeTypes ==
  ASSUME Pi!TypeOK, PipeModes
  PROVE  /\ SubSeq(swap, 1, Kept) \in Seq(Item) /\ SubSeq(swap, Kept + 1, Len(swap)) \in Seq(Item)
         /\ pipe_unflushed \o SubSeq(swap, 1, Kept) \in Seq(Item)
         /\ pipe_flushed \o (pipe_unflushed \o SubSeq(swap, 1, Kept)) \in Seq(Item)
         /\ Whole \in Seq(Item) /\ Whole # <<>> /\ Len(Whole) \in Nat \ {0} /\ Broken \in Seq(Item)
         /\ Broken \in Seq(Pi!Part)
<1>1. Kept \in 0..Len(swap) /\ Len(swap) \in Kept..Len(swap) /\ 0 \in 0..Len(swap) /\ Kept \in 0..Len(swap) /\ swap \in Seq(Item) /\ swap \in Seq(Pi!Part)
  BY PipeTypes
<1>2. SubSeq(swap, 0 + 1, Kept) \in Seq(Item) /\ SubSeq(swap, Kept + 1, Len(swap)) \in Seq(Item) /\ SubSeq(swap, Kept + 1, Len(swap)) \in Seq(Pi!Part)
  BY <1>1, Slice
<1>3. 0 + 1 = 1
  OBVIOUS
<1>4. pipe_unflushed \o SubSeq(swap, 1, Kept) \in Seq(Item)
  BY <1>2, <1>3, PipeTypes, ConcatProperties
<1>5. pipe_flushed \o (pipe_unflushed \o SubSeq(swap, 1, Kept)) \in Seq(Item)
  BY <1>4, PipeTypes, ConcatProperties
<1>6. Whole \in Seq(Item) /\ Len(Whole) = Len(<<last_read>>) + Len(pipe_flushed \o (pipe_unflushed \o SubSeq(swap, 1, Kept)))
  BY <1>5, PipeTypes, ConcatProperties DEF Whole, WholeOf
<1>7. Len(Whole) \in Nat \ {0} /\ Whole # <<>>
  BY <1>5, <1>6
<1>8. Broken \in Seq(Item) /\ Broken \in Seq(Pi!Part)
  BY <1>2, PipeTypes, ConcatProperties DEF Broken, BrokenOf, PipeModes
<1> QED BY <1>2, <1>3, <1>4, <1>5, <1>6, <1>7, <1>8

\* Whole messages, and then the broken one, are what is in the pipe.
LEMMA WholeAndBroken == ASSUME Pi!TypeOK, PipeModes PROVE Whole \o Broken = Pi!InPipe
<1> DEFINE l == <<last_read>>
           f == pipe_flushed
           u == pipe_unflushed
           p == pipe_partial
           x == SubSeq(swap, 1, Kept)
           y == SubSeq(swap, Kept + 1, Len(swap))
<1>1. l \in Seq(Item) /\ f \in Seq(Item) /\ u \in Seq(Item) /\ p \in Seq(Item) /\ x \in Seq(Item) /\ y \in Seq(Item) /\ swap \in Seq(Item)
  BY PipeTypes, WholeTypes
<1>2. x \o y = swap
  <2>1. 0 \in 0..Len(swap) /\ Kept \in 0..Len(swap) /\ Len(swap) \in Kept..Len(swap) /\ 0 + 1 = 1
    BY PipeTypes
  <2>2. SubSeq(swap, 0 + 1, Kept) \o SubSeq(swap, Kept + 1, Len(swap)) = SubSeq(swap, 0 + 1, Len(swap))
    BY <1>1, <2>1, SliceJoin
  <2> QED BY <1>1, <2>1, <2>2, SliceWhole
<1>3. x \o (p \o y) = p \o swap
  <2>1. CASE swapping
    <3>1. p = <<>>
      BY <2>1 DEF PipeModes
    <3>2. p \o y = y /\ p \o swap = swap
      BY <1>1, <3>1, ConcatEmptySeq
    <3> QED BY <1>2, <3>2
  <2>2. CASE ~swapping
    <3>1. swap = <<>>
      BY <2>2 DEF PipeModes
    <3>2. x = <<>> /\ y = <<>>
      BY <1>1, <1>2, <3>1, ConcatEqualIffEmpty
    <3>3. x \o (p \o y) = p \o y
      BY <1>1, <3>2, ConcatProperties, ConcatEmptySeq
    <3> QED BY <3>1, <3>2, <3>3
  <2> QED BY <2>1, <2>2
<1> DEFINE S == Seq(Item)
<1>4. (\A a, b \in S : Cat(a, b) \in S) /\ \A a, b, c \in S : Cat(Cat(a, b), c) = Cat(a, Cat(b, c))
  BY CatFacts
<1>5. l \in S /\ f \in S /\ u \in S /\ p \in S /\ x \in S /\ y \in S /\ swap \in S /\ Cat(x, Cat(p, y)) = Cat(p, swap)
  BY <1>1, <1>3 DEF Cat
<1> HIDE DEF S, l, f, u, p, x, y
<1> DEFINE v == Cat(p, y)
           lfu == Cat(Cat(l, f), u)
<1>6. Cat(Cat(l, Cat(f, Cat(u, x))), v) = Cat(lfu, Cat(x, v))
  <2>1. v \in S
    BY <1>4, <1>5
  <2> HIDE DEF v
  <2> QED BY <1>5, <2>1, Regrouped DEF S
<1>7. Cat(lfu, Cat(p, swap)) = Cat(Cat(lfu, p), swap)
  <2>1. lfu \in S
    BY <1>4, <1>5
  <2> HIDE DEF lfu
  <2> QED BY <1>4, <1>5, <2>1
<1>8. Cat(Cat(l, Cat(f, Cat(u, x))), Cat(p, y)) = Cat(Cat(Cat(Cat(l, f), u), p), swap)
  BY <1>5, <1>6, <1>7
<1> QED BY <1>8 DEF Cat, Whole, WholeOf, Broken, BrokenOf, Pi!InPipe, l, f, u, p, x, y

LEMMA PipeIsSound == ASSUME PipeInv PROVE Pi!PipeSound
<1>1. Pi!TypeOK /\ PipeModes /\ PipeCommands /\ PipeCounts
  BY DEF PipeInv
<1>2. Pi!WatermarkKept
  BY <1>1 DEF PipeCounts, Pi!WatermarkKept
<1>3. Pi!EndsAlive
  BY <1>1 DEF PipeCommands, Pi!EndsAlive
<1>4. Pi!MessagesWhole
  <2> SUFFICES ASSUME ~reader_gone, rollback_ok PROVE
        /\ \A j \in 1..Len(Pi!InPipe) - 1 : Pi!Follows(Pi!InPipe[j + 1], Pi!InPipe[j])
        /\ pipe_flushed # <<>> => pipe_flushed[Len(pipe_flushed)] = Delimiter \/ ~Pi!More(pipe_flushed[Len(pipe_flushed)])
    BY DEF Pi!MessagesWhole
  <2>1. Chained(Whole \o Broken) /\ Closed(pipe_flushed)
    BY DEF PipeInv, PipeChain
  <2>2. Chained(Pi!InPipe)
    BY <1>1, <2>1, WholeAndBroken
  <2> QED BY <2>1, <2>2 DEF Chained, Closed
<1> QED BY <1>1, <1>2, <1>3, <1>4 DEF Pi!PipeSound

LEMMA PipeStart == ASSUME Pi!Init PROVE PipeInv
<1>1. /\ created \in PipeKinds /\ pipe_partial = <<>> /\ pipe_unflushed = <<>> /\ pipe_flushed = <<>> /\ pipe_reader = "awake"
      /\ reader_active = TRUE /\ reader_read = 0 /\ reader_terminating = FALSE /\ reader_gone = FALSE
      /\ writer_active = TRUE /\ msgs_read = 0 /\ msgs_written = 0 /\ swapping = FALSE /\ pending_delimiter = FALSE
      /\ writer_terminating = FALSE /\ writer_gone = FALSE
      /\ swap = <<>> /\ commit \in {-1, 0} /\ rollback_ok = TRUE /\ toReader = <<>> /\ toWriter = <<>>
      /\ last_written = Pi!NoPart /\ last_read = Pi!NoPart
  BY DEF Pi!Init, Pi!ypipe!Init
<1>2. created \in [hwm : Nat, swap_size : Nat, batches : BOOLEAN] /\ created.swap_size \in Nat /\ created.hwm \in Nat /\ 0 \in 0..MaxMessages
  BY <1>1, PipeFacts
<1>3. Pi!TypeOK
  <2>1. \A S : <<>> \in Seq(S) /\ Len(<<>>) = 0
    BY EmptySeq
  <2>2. Pi!ypipe!QueueTypeOK
    BY <1>1, <2>1 DEF Pi!ypipe!QueueTypeOK
  <2>3. {reader_read, msgs_read, msgs_written} \subseteq 0..MaxMessages /\ {last_written, last_read} \subseteq Pi!Part \union {Pi!NoPart} /\ commit \in Int
    BY <1>1, <1>2
  <2>4. swap \in Seq(Pi!Part) /\ Len(swap) <= Pi!SwapSize
    BY <1>1, <1>2, <2>1 DEF Pi!SwapSize
  <2>5. toReader \in Seq({"activate_reader", "pipe_term_ack"}) /\ toWriter \in Seq(Pi!Command)
    BY <1>1, <2>1
  <2> QED BY <1>1, <2>2, <2>3, <2>4, <2>5 DEF Pi!TypeOK
<1>4. PipeModes
  <2>1. ~Pi!More(last_written)
    BY <1>1, PartFields DEF Pi!More
  <2> QED BY <1>1, <2>1, EmptySeq DEF PipeModes
<1>5. PipeCommands
  BY <1>1 DEF PipeCommands
<1>6. Hits(<<>>, Ends) = 0
  BY HitsEmpty
<1>7. PipeCounts
  <2>1. Pi!LastComplete[1] = 0 /\ ~Pi!More(last_written)
    BY <1>1, PartFields DEF Pi!LastComplete, Pi!More
  <2> QED BY <1>1, <1>2, <1>6, <2>1 DEF PipeCounts, Pi!hwm
<1>8. PipeChain
  <2>1. Kept = 0
    BY <1>1 DEF Kept
  <2>2. SubSeq(swap, 1, Kept) = <<>> /\ SubSeq(swap, Kept + 1, Len(swap)) = <<>>
    BY <1>1, <2>1, SliceWhole, EmptySeq
  <2>3. Whole = <<Pi!NoPart>> /\ Broken = <<>>
    <3>1. <<Pi!NoPart>> \in Seq({Pi!NoPart}) /\ <<>> \in Seq({Pi!NoPart})
      BY EmptySeq
    <3>2. <<>> \o <<>> = <<>> /\ <<Pi!NoPart>> \o <<>> = <<Pi!NoPart>>
      BY <3>1, ConcatEmptySeq
    <3> QED BY <1>1, <2>2, <3>2 DEF Whole, WholeOf, Broken, BrokenOf
  <2>4. Whole \o Broken = <<Pi!NoPart>>
    <3>1. <<Pi!NoPart>> \in Seq({Pi!NoPart})
      OBVIOUS
    <3> QED BY <2>3, <3>1, ConcatEmptySeq
  <2>5. Chained(<<Pi!NoPart>>)
    BY DEF Chained
  <2>6. ~Pi!More(Pi!NoPart) /\ Pi!NoPart # Delimiter /\ Pi!LastComplete = Pi!NoPart
    BY <1>1, PartFields, PipeFacts DEF Pi!More, Pi!LastComplete
  <2>7. Whole[Len(Whole)] = Pi!NoPart
    BY <2>3
  <2> QED BY <1>1, <2>3, <2>4, <2>5, <2>6, <2>7 DEF PipeChain, Closed
<1> QED BY <1>3, <1>4, <1>5, <1>7, <1>8 DEF PipeInv

(***************************************************************************)
(* What is kept by a step that does not touch it.                          *)
(***************************************************************************)
LEMMA ModesKept ==
  ASSUME PipeModes, UNCHANGED <<created, pipe_unflushed, pipe_partial, swapping, swap, commit, last_written, pending_delimiter, writer_terminating>>,
         writer_terminating => ~writer_active'
  PROVE  PipeModes'
BY DEF PipeModes, Pi!hwm, Pi!More

LEMMA CountsKept ==
  ASSUME PipeCounts, UNCHANGED <<created, msgs_read, msgs_written, reader_read, pipe_flushed, pipe_unflushed, swap, swapping, last_written, reader_gone>>,
         toWriter' = toWriter \/ toWriter' = Append(toWriter, <<"pipe_term">>), toWriter \in Seq(Pi!Command)
  PROVE  PipeCounts'
<1>1. /\ Hits(pipe_flushed, Ends)' = Hits(pipe_flushed, Ends) /\ Hits(pipe_unflushed, Ends)' = Hits(pipe_unflushed, Ends)
      /\ Hits(swap, Ends)' = Hits(swap, Ends) /\ Pi!LastComplete' = Pi!LastComplete /\ Pi!hwm' = Pi!hwm /\ Pi!More(last_written)' = Pi!More(last_written)
  BY DEF Hits, Places, Ends, Pi!LastComplete, Pi!More, Pi!hwm
<1>2. \A j \in DOMAIN toWriter' : toWriter'[j][1] = "activate_writer" => j \in DOMAIN toWriter /\ toWriter'[j] = toWriter[j]
  <2>1. CASE toWriter' = toWriter
    BY <2>1
  <2>2. CASE toWriter' = Append(toWriter, <<"pipe_term">>)
    <3>1. Len(toWriter) \in Nat /\ DOMAIN toWriter' = 1..Len(toWriter) + 1 /\ toWriter'[Len(toWriter) + 1] = <<"pipe_term">> /\ DOMAIN toWriter = 1..Len(toWriter)
          /\ \A j \in 1..Len(toWriter) : toWriter'[j] = toWriter[j]
      BY <2>2
    <3> QED BY <3>1
  <2> QED BY <2>1, <2>2
<1>3. \A i, j \in DOMAIN toWriter' : i <= j /\ toWriter'[j][1] = "activate_writer" => i \in DOMAIN toWriter /\ toWriter'[i] = toWriter[i]
  <2>1. CASE toWriter' = toWriter
    BY <2>1
  <2>2. CASE toWriter' = Append(toWriter, <<"pipe_term">>)
    <3>1. Len(toWriter) \in Nat /\ DOMAIN toWriter' = 1..Len(toWriter) + 1 /\ toWriter'[Len(toWriter) + 1] = <<"pipe_term">> /\ DOMAIN toWriter = 1..Len(toWriter)
          /\ \A j \in 1..Len(toWriter) : toWriter'[j] = toWriter[j]
      BY <2>2
    <3> QED BY <1>2, <3>1
  <2> QED BY <2>1, <2>2
<1>4. \A j \in DOMAIN toWriter' : toWriter'[j][1] = "activate_writer" => msgs_read <= toWriter'[j][2] /\ toWriter'[j][2] <= reader_read
  BY <1>2 DEF PipeCounts
<1>5. \A i, j \in DOMAIN toWriter' : i <= j /\ toWriter'[j][1] = "activate_writer" => toWriter'[i][2] <= toWriter'[j][2]
  BY <1>2, <1>3 DEF PipeCounts
<1> QED BY <1>1, <1>4, <1>5 DEF PipeCounts

LEMMA ChainKept ==
  ASSUME PipeChain, UNCHANGED <<last_read, pipe_flushed, pipe_unflushed, pipe_partial, swap, commit, swapping, writer_terminating, last_written>>
  PROVE  PipeChain'
<1>1. Kept' = Kept
  BY DEF Kept
<1>2. Whole' = Whole /\ Broken' = Broken /\ Pi!LastComplete' = Pi!LastComplete
  BY <1>1 DEF Whole, WholeOf, Broken, BrokenOf, Pi!LastComplete
<1>3. Chained(Whole \o Broken)' = Chained(Whole \o Broken)
  BY <1>2 DEF Chained
<1>4. Closed(pipe_flushed)' = Closed(pipe_flushed) /\ Closed(pipe_unflushed)' = Closed(pipe_unflushed)
  BY DEF Closed
<1> QED BY <1>2, <1>3, <1>4 DEF PipeChain

(***************************************************************************)
(* The chain of the parts in the pipe.                                     *)
(***************************************************************************)
LEMMA ChainLonger ==
  ASSUME NEW X, NEW w \in Seq(X), NEW b \in Seq(X), NEW e \in X, w # <<>>, Chained(w \o b), Pi!Follows(e, (w \o b)[Len(w \o b)])
  PROVE  Chained(w \o Append(b, e)) /\ Chained((w \o Append(b, e)) \o <<>>)
<1>1. w \o b \in Seq(X) /\ w \o b # <<>>
  BY ConcatProperties, ConcatEqualIffEmpty
<1>2. Chained(Append(w \o b, e))
  BY <1>1, ChainAppend
<1>3. Append(w \o b, e) \in Seq(X)
  BY <1>1, AppendProperties
<1>4. w \o Append(b, e) = Append(w \o b, e)
  <2> DEFINE wb == w \o b
             one == <<e>>
  <2>1. Append(b, e) = Cat(b, one) /\ one \in Seq(X)
    BY AppendIsConcat DEF Cat
  <2>2. wb \in Seq(X) /\ wb = Cat(w, b)
    BY <1>1 DEF Cat
  <2> HIDE DEF wb
  <2>3. Append(wb, e) = Cat(wb, one)
    BY <2>2, AppendIsConcat DEF Cat
  <2> HIDE DEF one
  <2>4. Cat(Cat(w, b), one) = Cat(w, Cat(b, one))
    BY <2>1, CatFacts
  <2>5. Append(wb, e) = Cat(w, Append(b, e))
    BY <2>1, <2>2, <2>3, <2>4
  <2> QED BY <2>5 DEF Cat, wb
<1>5. Append(w \o b, e) \o <<>> = Append(w \o b, e)
  BY <1>3, ConcatEmptySeq
<1> QED BY <1>2, <1>4, <1>5

LEMMA NextPart ==
  ASSUME PipeInv, rollback_ok, ~reader_gone, ~writer_terminating, NEW p \in Pi!NextParts, last_written' = p
  PROVE  /\ p \in Pi!Part /\ p \in Item /\ Pi!More(p) \in BOOLEAN /\ (p \in Ends <=> ~Pi!More(p)) /\ p # Delimiter
         /\ Pi!Follows(p, (Whole \o Broken)[Len(Whole \o Broken)])
         /\ Pi!LastComplete'[1] = Pi!LastComplete[1] + (IF Pi!More(p) THEN 0 ELSE 1)
         /\ Pi!LastComplete'[1] \in 0..MaxMessages
         /\ ~Pi!More(p) => Pi!LastComplete' = p
<1> DEFINE lw == last_written
           k == IF Pi!More(lw) THEN lw[2] + 1 ELSE 1
           id == IF Pi!More(lw) THEN lw[1] ELSE lw[1] + 1
<1>1. p \in Pi!Part /\ p[1] = id /\ p[2] = k
  <2>1. p \in {<<id, k, more>> : more \in {b \in BOOLEAN : b => k < MaxParts}} \intersect Pi!Part
    BY DEF Pi!NextParts
  <2> HIDE DEF id, k
  <2> QED BY <2>1
<1>2. Pi!TypeOK /\ PipeModes /\ PipeChain
  BY DEF PipeInv
<1>3. lw \in Pi!Part \union {Pi!NoPart} /\ lw[1] \in 0..MaxMessages /\ lw[2] \in 1..MaxParts /\ lw[3] \in BOOLEAN
  BY <1>2, PartFields DEF Pi!TypeOK
<1>4. p[1] \in 1..MaxMessages /\ p[3] \in BOOLEAN /\ p # Delimiter /\ MaxMessages \in Nat
  BY <1>1, PartFields, PipeFacts
<1>5. Pi!LastComplete = (IF Pi!More(lw) THEN <<lw[1] - 1, 1, FALSE>> ELSE lw) /\ Pi!LastComplete' = (IF Pi!More(p) THEN <<p[1] - 1, 1, FALSE>> ELSE p)
  BY DEF Pi!LastComplete, Pi!More
<1>6. Pi!LastComplete'[1] = Pi!LastComplete[1] + (IF Pi!More(p) THEN 0 ELSE 1) /\ Pi!LastComplete'[1] \in 0..MaxMessages
  <2>1. Pi!LastComplete[1] = (IF Pi!More(lw) THEN lw[1] - 1 ELSE lw[1]) /\ Pi!LastComplete'[1] = (IF Pi!More(p) THEN p[1] - 1 ELSE p[1])
    BY <1>5
  <2> QED BY <1>1, <1>3, <1>4, <2>1
<1>7. Whole \in Seq(Item) /\ Whole # <<>> /\ Broken \in Seq(Item)
  BY <1>2, WholeTypes
<1>8. Pi!Follows(p, (Whole \o Broken)[Len(Whole \o Broken)])
  <2>1. CASE Broken # <<>>
    <3>1. (Whole \o Broken)[Len(Whole \o Broken)] = lw /\ Pi!More(lw)
      BY <1>2, <1>7, <2>1, LastConcat DEF PipeChain
    <3>2. lw # Delimiter
      BY <1>3, PartFields
    <3> QED BY <1>1, <1>4, <3>1, <3>2 DEF Pi!Follows
  <2>2. CASE Broken = <<>>
    <3> DEFINE q == Whole[Len(Whole)]
    <3>1. (Whole \o Broken)[Len(Whole \o Broken)] = q
      BY <1>7, <2>2, LastConcat
    <3>2. ~Pi!More(lw) /\ q # Delimiter /\ ~Pi!More(q) /\ q[1] = Pi!LastComplete[1]
      BY <1>2, <2>2 DEF PipeChain
    <3>3. q[1] = lw[1]
      BY <1>5, <3>2
    <3> HIDE DEF q
    <3> QED BY <1>1, <1>4, <3>1, <3>2, <3>3 DEF Pi!Follows
  <2> QED BY <2>1, <2>2
<1> HIDE DEF lw
<1> QED BY <1>1, <1>4, <1>5, <1>6, <1>8 DEF Pi!More, Ends, Item

LEMMA EmptySwap ==
  ASSUME NEW l \in Item, NEW f \in Seq(Item), NEW u \in Seq(Item), NEW p \in Seq(Item)
  PROVE  WholeOf(l, f, u, <<>>, 0) = <<l>> \o (f \o u) /\ BrokenOf(p, <<>>, 0) = p
<1>1. SubSeq(<<>>, 1, 0) = <<>> /\ SubSeq(<<>>, 0 + 1, Len(<<>>)) = <<>>
  BY SliceWhole, EmptySeq
<1>2. u \o <<>> = u /\ p \o <<>> = p
  BY ConcatEmptySeq
<1> QED BY <1>1, <1>2 DEF WholeOf, BrokenOf

LEMMA LaterParts ==
  ASSUME NEW l \in Item, NEW f \in Seq(Item), NEW u \in Seq(Item), NEW x \in Seq(Item), NEW a \in Seq(Item)
  PROVE  Cat(<<l>>, Cat(f, Cat(u, Cat(x, a)))) = Cat(Cat(<<l>>, Cat(f, Cat(u, x))), a)
<1> DEFINE one == <<l>>
           S == Seq(Item)
           ux == Cat(u, x)
           fux == Cat(f, ux)
<1>1. \A i, j, k \in S : Cat(i, j) \in S /\ Cat(Cat(i, j), k) = Cat(i, Cat(j, k))
  BY CatFacts
<1>2. one \in S /\ f \in S /\ u \in S /\ x \in S /\ a \in S
  OBVIOUS
<1> HIDE DEF one, S
<1>3. Cat(u, Cat(x, a)) = Cat(ux, a) /\ ux \in S
  BY <1>1, <1>2
<1> HIDE DEF ux
<1>4. Cat(f, Cat(ux, a)) = Cat(fux, a) /\ fux \in S
  BY <1>1, <1>2, <1>3
<1> HIDE DEF fux
<1>5. Cat(one, Cat(fux, a)) = Cat(Cat(one, fux), a)
  BY <1>1, <1>2, <1>4
<1>6. Cat(one, Cat(f, Cat(u, Cat(x, a)))) = Cat(Cat(one, fux), a)
  BY <1>3, <1>4, <1>5
<1> QED BY <1>6 DEF one, fux, ux

LEMMA LaterUnflushed ==
  ASSUME NEW l \in Item, NEW f \in Seq(Item), NEW u \in Seq(Item), NEW a \in Seq(Item)
  PROVE  <<l>> \o (f \o (u \o a)) = (<<l>> \o (f \o u)) \o a
<1> DEFINE none == <<>>
<1>1. none \in Seq(Item) /\ Cat(none, a) = a /\ Cat(u, none) = u
  BY EmptySeq, CatFacts
<1> HIDE DEF none
<1>2. Cat(<<l>>, Cat(f, Cat(u, Cat(none, a)))) = Cat(Cat(<<l>>, Cat(f, Cat(u, none))), a)
  BY <1>1, LaterParts
<1>3. Cat(<<l>>, Cat(f, Cat(u, a))) = Cat(Cat(<<l>>, Cat(f, u)), a)
  BY <1>1, <1>2
<1> QED BY <1>3 DEF Cat

LEMMA SwappedOnce ==
  ASSUME NEW l \in Item, NEW f \in Seq(Item), NEW u \in Seq(Item), NEW s \in Seq(Item), NEW e \in Item, NEW k \in 0..Len(s)
  PROVE  /\ WholeOf(l, f, u, Append(s, e), k) = WholeOf(l, f, u, s, k)
         /\ BrokenOf(<<>>, Append(s, e), k) = Append(BrokenOf(<<>>, s, k), e)
         /\ WholeOf(l, f, u, Append(s, e), Len(s) + 1) = Cat(WholeOf(l, f, u, s, k), Append(BrokenOf(<<>>, s, k), e))
         /\ BrokenOf(<<>>, Append(s, e), Len(s) + 1) = <<>>
<1> DEFINE v == Append(s, e)
           x == SubSeq(s, 1, k)
           y == SubSeq(s, k + 1, Len(s))
           z == Append(y, e)
<1>1. v \in Seq(Item) /\ Len(v) = Len(s) + 1 /\ Len(s) \in Nat /\ k \in Nat
  OBVIOUS
<1>2. 0 \in 0..Len(s) /\ k \in 0..Len(s) /\ Len(s) \in k..Len(s) /\ 0 + 1 = 1
  OBVIOUS
<1>3. SubSeq(v, 1, k) = x /\ SubSeq(v, k + 1, Len(s) + 1) = z
  <2>1. SubSeq(v, 0 + 1, k) = SubSeq(s, 0 + 1, k)
    BY <1>2, SliceAppend
  <2>2. SubSeq(v, k + 1, Len(s) + 1) = z
    BY <1>2, SliceAppend
  <2> QED BY <1>2, <2>1, <2>2
<1>4. x \in Seq(Item) /\ y \in Seq(Item) /\ z \in Seq(Item)
  BY <1>2, Slice
<1> HIDE DEF v, x, y
<1>5. SubSeq(v, 1, Len(v)) = v /\ SubSeq(v, Len(v) + 1, Len(v)) = <<>>
  BY <1>1, SliceWhole
<1>6. x \o z = v
  <2>1. k \in 0..Len(v) /\ Len(v) \in k..Len(v) /\ 0 \in 0..Len(v)
    BY <1>1, <1>2
  <2>2. SubSeq(v, 0 + 1, k) \o SubSeq(v, k + 1, Len(v)) = SubSeq(v, 0 + 1, Len(v))
    BY <1>1, <2>1, SliceJoin
  <2> QED BY <1>1, <1>2, <1>3, <1>5, <2>2
<1>7. <<>> \o y = y /\ <<>> \o z = z /\ <<>> \o <<>> = <<>>
  BY <1>4, ConcatEmptySeq, EmptySeq
<1> HIDE DEF z
<1>8. <<l>> \o (f \o (u \o v)) = (<<l>> \o (f \o (u \o x))) \o z
  <2>1. Cat(<<l>>, Cat(f, Cat(u, Cat(x, z)))) = Cat(Cat(<<l>>, Cat(f, Cat(u, x))), z)
    BY <1>4, LaterParts
  <2>2. Cat(x, z) = v
    BY <1>6 DEF Cat
  <2>3. Cat(<<l>>, Cat(f, Cat(u, v))) = Cat(Cat(<<l>>, Cat(f, Cat(u, x))), z)
    BY <2>1, <2>2
  <2> QED BY <2>3 DEF Cat
<1>9. WholeOf(l, f, u, v, k) = <<l>> \o (f \o (u \o x)) /\ BrokenOf(<<>>, v, k) = z
  BY <1>1, <1>3, <1>7 DEF WholeOf, BrokenOf
<1>10. WholeOf(l, f, u, s, k) = <<l>> \o (f \o (u \o x)) /\ BrokenOf(<<>>, s, k) = y
  BY <1>7 DEF WholeOf, BrokenOf, x, y
<1>11. WholeOf(l, f, u, v, Len(s) + 1) = <<l>> \o (f \o (u \o v)) /\ BrokenOf(<<>>, v, Len(s) + 1) = <<>>
  BY <1>1, <1>5, <1>7 DEF WholeOf, BrokenOf
<1>12. WholeOf(l, f, u, v, Len(s) + 1) = Cat(WholeOf(l, f, u, s, k), z)
  BY <1>8, <1>10, <1>11 DEF Cat
<1> QED BY <1>9, <1>10, <1>11, <1>12 DEF v, z

LEMMA ChainWritten ==
  ASSUME PipeInv, rollback_ok, ~reader_gone, ~writer_terminating, ~writer_terminating', NEW p \in Pi!NextParts, last_written' = p,
         (Pi!More(p) /\ Whole' = Whole /\ Broken' = Append(Broken, p)) \/ (~Pi!More(p) /\ Whole' = Whole \o Append(Broken, p) /\ Broken' = <<>>),
         Closed(pipe_flushed)', Closed(pipe_unflushed)'
  PROVE  PipeChain'
<1>1. Pi!TypeOK /\ PipeModes /\ PipeChain
  BY DEF PipeInv
<1>2. /\ p \in Pi!Part /\ p \in Item /\ (p \in Ends <=> ~Pi!More(p)) /\ p # Delimiter
      /\ Pi!Follows(p, (Whole \o Broken)[Len(Whole \o Broken)])
      /\ Pi!LastComplete'[1] = Pi!LastComplete[1] + (IF Pi!More(p) THEN 0 ELSE 1)
      /\ ~Pi!More(p) => Pi!LastComplete' = p
  BY NextPart
<1>3. Whole \in Seq(Item) /\ Whole # <<>> /\ Broken \in Seq(Item) /\ Broken \in Seq(Pi!Part)
  BY <1>1, WholeTypes
<1>4. Chained(Whole \o Append(Broken, p)) /\ Chained((Whole \o Append(Broken, p)) \o <<>>)
  BY <1>1, <1>2, <1>3, ChainLonger DEF PipeChain
<1>5. Append(Broken, p) \in Seq(Item) /\ Append(Broken, p) # <<>> /\ Len(Append(Broken, p)) = Len(Broken) + 1 /\ Append(Broken, p)[Len(Broken) + 1] = p
      /\ \A j \in 1..Len(Broken) : Append(Broken, p)[j] = Broken[j]
  BY <1>2, <1>3, AppendProperties
<1>6. Pi!More(last_written)' = Pi!More(p)
  BY DEF Pi!More
<1>7. CASE Pi!More(p)
  <2>1. Whole' = Whole /\ Broken' = Append(Broken, p)
    BY <1>7
  <2>2. Chained(Whole \o Broken)'
    BY <1>4, <2>1 DEF Chained
  <2>3. \A j \in DOMAIN Broken' : Pi!More(Broken'[j])
    <3>1. DOMAIN Broken' = 1..Len(Broken) + 1 /\ DOMAIN Broken = 1..Len(Broken) /\ Len(Broken) \in Nat
      BY <1>2, <1>3, <2>1
    <3>2. \A j \in 1..Len(Broken) : Pi!More(Broken[j])
      BY <1>1, <3>1 DEF PipeChain
    <3> QED BY <1>5, <1>7, <2>1, <3>1, <3>2
  <2>4. Pi!LastComplete'[1] = Pi!LastComplete[1]
    <3>1. Pi!LastComplete[1] \in Int
      BY <1>1, PartFields DEF Pi!LastComplete, Pi!TypeOK
    <3> QED BY <1>2, <1>7, <3>1
  <2>5. LET q == Whole'[Len(Whole')]
        IN IF q = Delimiter THEN writer_terminating' /\ ~swapping'
           ELSE ~Pi!More(q) /\ (~writer_terminating' => q[1] = Pi!LastComplete'[1])
    BY <1>1, <2>1, <2>4 DEF PipeChain
  <2>6. Broken' # <<>> /\ Broken'[Len(Broken')] = p
    BY <1>5, <2>1
  <2> QED BY <1>6, <1>7, <2>2, <2>3, <2>5, <2>6 DEF PipeChain
<1>8. CASE ~Pi!More(p)
  <2>1. Whole' = Whole \o Append(Broken, p) /\ Broken' = <<>>
    BY <1>8
  <2>2. Chained(Whole \o Broken)'
    BY <1>4, <2>1 DEF Chained
  <2>3. Whole'[Len(Whole')] = p
    BY <1>3, <1>5, <2>1, LastConcat
  <2> QED BY <1>2, <1>6, <1>8, <2>1, <2>2, <2>3 DEF PipeChain
<1> QED BY <1>7, <1>8

LEMMA WriteStep == ASSUME PipeInv, rollback_ok, NEW p \in Pi!NextParts, Pi!Write(p) PROVE PipeInv'
<1>1. Pi!TypeOK /\ PipeModes /\ PipeCommands /\ PipeCounts
  BY DEF PipeInv
<1>2. /\ UNCHANGED <<created, reader_active, reader_read, reader_terminating, reader_gone, last_read, toWriter>>
      /\ UNCHANGED <<writer_active, pending_delimiter, writer_terminating, writer_gone, rollback_ok, msgs_read, toReader>>
      /\ last_written' = p /\ ~writer_gone /\ writer_active /\ swapping' = (swapping \/ Pi!pipe_full)
      /\ IF swapping THEN Pi!Fits ELSE Pi!pipe_full => Pi!SwapSize > 0
  BY DEF Pi!Write, Pi!ReaderUnchanged, Pi!readerVars
<1>3. ~reader_gone /\ ~writer_terminating /\ PipeChain
  BY <1>1, <1>2 DEF PipeCommands, PipeModes, PipeInv
<1>4. /\ p \in Pi!Part /\ p \in Item /\ (p \in Ends <=> ~Pi!More(p))
      /\ Pi!LastComplete'[1] = Pi!LastComplete[1] + (IF Pi!More(p) THEN 0 ELSE 1)
      /\ Pi!LastComplete'[1] \in 0..MaxMessages
  BY <1>2, <1>3, NextPart
<1>5. /\ last_read \in Item /\ pipe_flushed \in Seq(Item) /\ pipe_unflushed \in Seq(Item) /\ pipe_partial \in Seq(Item)
      /\ swap \in Seq(Pi!Part) /\ swap \in Seq(Item) /\ Kept \in 0..Len(swap) /\ commit \in Int /\ Len(swap) \in Nat
      /\ pipe_unflushed \in Seq(Pi!Part) /\ pipe_partial \in Seq(Pi!Part)
  BY <1>1, PipeTypes DEF PipeModes
<1>6. Pi!hwm \in Nat /\ Pi!hwm' = Pi!hwm /\ Pi!SwapSize \in Nat /\ Pi!SwapSize' = Pi!SwapSize
      /\ {msgs_written, msgs_read, reader_read} \subseteq 0..MaxMessages /\ MaxMessages \in Nat /\ Pi!LastComplete[1] \in Int
  <2>1. Pi!LastComplete[1] \in Int
    BY <1>1, PartFields DEF Pi!LastComplete, Pi!TypeOK
  <2> QED BY <1>1, <1>2, <2>1, KindFields, PipeFacts DEF Pi!TypeOK, Pi!hwm, Pi!SwapSize
<1>7. PipeCommands'
  BY <1>1, <1>2 DEF PipeCommands
<1>8. Hits(swap, Ends) \in Nat /\ Hits(pipe_unflushed, Ends) \in Nat /\ Hits(pipe_flushed, Ends) \in Nat
  BY <1>5, HitsType
<1>9. ~swapping => swap = <<>> /\ Kept = 0 /\ Whole = <<last_read>> \o (pipe_flushed \o pipe_unflushed) /\ Broken = pipe_partial
  <2> SUFFICES ASSUME ~swapping PROVE swap = <<>> /\ Kept = 0 /\ Whole = <<last_read>> \o (pipe_flushed \o pipe_unflushed) /\ Broken = pipe_partial
    OBVIOUS
  <2>1. swap = <<>> /\ Kept = 0
    BY <1>1, <1>5 DEF PipeModes
  <2> QED BY <1>5, <2>1, EmptySwap DEF Whole, Broken
<1>10. \A j \in DOMAIN pipe_partial : ~swapping => pipe_partial[j] \notin Ends
  BY <1>3, <1>9 DEF PipeChain, Ends
<1>11. CASE ~swapping'
  <2>1. ~swapping /\ ~Pi!pipe_full
    BY <1>2, <1>11
  <2>2. /\ UNCHANGED <<pipe_flushed, pipe_reader, swap, commit>>
        /\ IF Pi!More(p) THEN pipe_partial' = Append(pipe_partial, p) /\ UNCHANGED pipe_unflushed
                         ELSE pipe_partial' = <<>> /\ pipe_unflushed' = pipe_unflushed \o Append(pipe_partial, p)
        /\ msgs_written' = IF Pi!More(p) THEN msgs_written ELSE msgs_written + 1
    BY <1>11 DEF Pi!Write, Pi!ypipe!Write
  <2> DEFINE a == Append(pipe_partial, p)
  <2>3. a \in Seq(Pi!Part) /\ a \in Seq(Item) /\ Hits(a, Ends) = (IF Pi!More(p) THEN 0 ELSE 1)
        /\ Len(a) = Len(pipe_partial) + 1 /\ a # <<>> /\ a[Len(a)] = p
    <3>1. Hits(pipe_partial, Ends) = 0
      BY <1>5, <1>10, <2>1, HitsType
    <3>2. Hits(a, Ends) = Hits(pipe_partial, Ends) + (IF p \in Ends THEN 1 ELSE 0)
      BY <1>4, <1>5, HitsAppend
    <3>3. a \in Seq(Pi!Part) /\ a \in Seq(Item) /\ Len(a) = Len(pipe_partial) + 1 /\ a # <<>> /\ a[Len(pipe_partial) + 1] = p
      BY <1>4, <1>5, AppendProperties
    <3> QED BY <1>4, <3>1, <3>2, <3>3
  <2> HIDE DEF a
  <2>4. pipe_unflushed \o a \in Seq(Pi!Part) /\ Hits(pipe_unflushed \o a, Ends) = Hits(pipe_unflushed, Ends) + Hits(a, Ends)
    BY <1>5, <2>3, ConcatProperties, HitsConcat
  <2>5. pipe_unflushed' \in Seq(Pi!Part) /\ pipe_partial' \in Seq(Pi!Part) /\ Hits(pipe_unflushed', Ends) = Hits(pipe_unflushed, Ends) + (IF Pi!More(p) THEN 0 ELSE 1)
    <3>1. CASE Pi!More(p)
      <4>1. pipe_unflushed' = pipe_unflushed /\ pipe_partial' = a
        BY <2>2, <3>1 DEF a
      <4> QED BY <1>5, <1>8, <2>3, <3>1, <4>1
    <3>2. CASE ~Pi!More(p)
      BY <1>5, <2>2, <2>3, <2>4, <3>2, EmptySeq DEF a
    <3> QED BY <3>1, <3>2
  <2>6. msgs_written' = Pi!LastComplete'[1] /\ msgs_written' \in 0..MaxMessages /\ msgs_written = Pi!LastComplete[1]
    <3>1. Hits(swap, Ends) = 0
      BY <1>9, <2>1, HitsEmpty
    <3>2. msgs_written = Pi!LastComplete[1]
      BY <1>1, <1>6, <3>1 DEF PipeCounts
    <3> QED BY <1>4, <1>6, <2>2, <3>2
  <2>7. Pi!TypeOK'
    <3>1. Pi!Part \subseteq Pi!Part \union {Delimiter}
      OBVIOUS
    <3>2. Pi!ypipe!QueueTypeOK'
      BY <1>1, <2>2, <2>5, <3>1, SeqMonotonic DEF Pi!ypipe!QueueTypeOK, Pi!TypeOK
    <3>3. swap' \in Seq(Pi!Part) /\ Len(swap') <= Pi!SwapSize'
      BY <1>1, <1>6, <2>2 DEF Pi!TypeOK
    <3> QED BY <1>1, <1>2, <1>4, <2>2, <2>6, <3>2, <3>3 DEF Pi!TypeOK
  <2>8. PipeModes'
    BY <1>1, <1>2, <1>3, <1>6, <1>9, <1>11, <2>1, <2>2, <2>5 DEF PipeModes, Pi!More
  <2>9. PipeCounts'
    <3>1. Pi!hwm > 0 => msgs_written - msgs_read < Pi!hwm
      BY <1>1, <1>6, <2>1 DEF PipeCounts, Pi!pipe_full
    <3>2. msgs_written' - msgs_read = (msgs_written - msgs_read) + (IF Pi!More(p) THEN 0 ELSE 1) /\ msgs_written <= msgs_written'
      BY <1>6, <2>2
    <3>3. Pi!hwm > 0 => msgs_written' - msgs_read <= Pi!hwm
      BY <1>6, <3>1, <3>2
    <3>4. Pi!hwm > 0 /\ Pi!More(p) => msgs_written' - msgs_read < Pi!hwm
      BY <1>6, <3>1, <3>2
    <3>5. reader_read + Hits(pipe_flushed, Ends) + Hits(pipe_unflushed, Ends) = msgs_written /\ reader_read <= msgs_written
      BY <1>1, <1>3 DEF PipeCounts
    <3>6. reader_read + Hits(pipe_flushed, Ends) + Hits(pipe_unflushed', Ends) = msgs_written' /\ reader_read <= msgs_written'
      BY <1>6, <1>8, <2>2, <2>5, <3>5
    <3>7. Hits(swap', Ends) = 0
      BY <1>9, <2>1, <2>2, HitsEmpty
    <3>8. msgs_written' + Hits(swap', Ends) = Pi!LastComplete'[1]
      BY <1>6, <2>6, <3>7
    <3>9. Ends' = Ends /\ (Pi!More(last_written))' = Pi!More(p) /\ Hits(pipe_flushed, Ends)' = Hits(pipe_flushed, Ends)
          /\ Hits(pipe_unflushed, Ends)' = Hits(pipe_unflushed', Ends) /\ Hits(swap, Ends)' = Hits(swap', Ends)
      BY <1>2, <2>2 DEF Hits, Places, Ends, Pi!More
    <3> QED BY <1>1, <1>2, <1>6, <3>3, <3>4, <3>6, <3>8, <3>9 DEF PipeCounts
  <2>10. Kept' = 0 /\ Whole' = <<last_read>> \o (pipe_flushed \o pipe_unflushed') /\ Broken' = pipe_partial'
    <3>1. Kept' = 0 /\ swap' = <<>>
      BY <1>9, <2>1, <2>2 DEF Kept
    <3>2. Pi!Part \subseteq Item
      BY DEF Item
    <3>3. pipe_unflushed' \in Seq(Item) /\ pipe_partial' \in Seq(Item)
      BY <2>5, <3>2, SeqMonotonic
    <3>4. Whole' = WholeOf(last_read, pipe_flushed, pipe_unflushed', <<>>, 0) /\ Broken' = BrokenOf(pipe_partial', <<>>, 0)
      BY <1>2, <2>2, <3>1 DEF Whole, Broken
    <3> QED BY <1>5, <3>1, <3>3, <3>4, EmptySwap
  <2>11. (Pi!More(p) /\ Whole' = Whole /\ Broken' = Append(Broken, p)) \/ (~Pi!More(p) /\ Whole' = Whole \o Append(Broken, p) /\ Broken' = <<>>)
    <3>1. CASE Pi!More(p)
      BY <1>9, <2>1, <2>2, <2>10, <3>1
    <3>2. CASE ~Pi!More(p)
      <4>1. Whole' = <<last_read>> \o (pipe_flushed \o (pipe_unflushed \o a)) /\ Whole = <<last_read>> \o (pipe_flushed \o pipe_unflushed)
            /\ Broken' = <<>> /\ a = Append(Broken, p)
        BY <1>9, <2>1, <2>2, <2>10, <3>2 DEF a
      <4>2. <<last_read>> \o (pipe_flushed \o (pipe_unflushed \o a)) = (<<last_read>> \o (pipe_flushed \o pipe_unflushed)) \o a
        BY <1>5, <2>3, LaterUnflushed
      <4> QED BY <3>2, <4>1, <4>2
    <3> QED BY <3>1, <3>2
  <2>12. Closed(pipe_flushed)' /\ Closed(pipe_unflushed)'
    <3>1. Closed(pipe_flushed) /\ Closed(pipe_unflushed)
      BY <1>3 DEF PipeChain
    <3>2. ~Pi!More(p) => Closed(a)
      BY <2>3 DEF Closed
    <3>3. ~Pi!More(p) => Closed(pipe_unflushed \o a)
      BY <1>5, <2>3, <3>1, <3>2, ClosedConcat
    <3> QED BY <2>2, <3>1, <3>3 DEF Closed, a
  <2>13. PipeChain'
    BY <1>2, <1>3, <2>11, <2>12, ChainWritten
  <2> QED BY <1>7, <2>7, <2>8, <2>9, <2>13 DEF PipeInv
<1>12. CASE swapping'
  <2>1. /\ swap' = Append(swap, p) /\ commit' = (IF Pi!More(p) THEN commit ELSE Len(swap'))
        /\ UNCHANGED <<pipe_flushed, pipe_unflushed, pipe_partial, pipe_reader, msgs_written>>
    BY <1>12 DEF Pi!Write, Pi!ypipeVars
  <2>2. pipe_partial = <<>> /\ Pi!hwm > 0 /\ Len(swap) < Pi!SwapSize
    <3>1. CASE swapping
      BY <1>1, <1>2, <3>1 DEF PipeModes, Pi!Fits
    <3>2. CASE ~swapping
      <4>1. Pi!pipe_full /\ Pi!SwapSize > 0 /\ Pi!hwm > 0 /\ msgs_written - msgs_read = Pi!hwm
        BY <1>2, <1>12, <3>2 DEF Pi!pipe_full
      <4>2. ~Pi!More(last_written)
        BY <1>1, <1>6, <3>2, <4>1 DEF PipeCounts
      <4>3. Broken = <<>>
        BY <1>3, <4>2 DEF PipeChain
      <4> QED BY <1>9, <3>2, <4>1, <4>3
    <3> QED BY <3>1, <3>2
  <2>3. swap' \in Seq(Pi!Part) /\ Len(swap') = Len(swap) + 1 /\ swap'[Len(swap) + 1] = p /\ \A j \in 1..Len(swap) : swap'[j] = swap[j]
    BY <1>4, <1>5, <2>1, AppendProperties
  <2>4. Hits(swap', Ends) = Hits(swap, Ends) + (IF Pi!More(p) THEN 0 ELSE 1)
    BY <1>4, <1>5, <1>8, <2>1, HitsAppend
  <2>5. Pi!TypeOK'
    <3>1. Pi!ypipe!QueueTypeOK'
      BY <1>1, <2>1 DEF Pi!ypipe!QueueTypeOK, Pi!TypeOK
    <3>2. Len(swap') <= Pi!SwapSize' /\ commit' \in Int
      BY <1>5, <1>6, <2>1, <2>2, <2>3
    <3> QED BY <1>1, <1>2, <1>4, <1>12, <2>1, <2>3, <3>1, <3>2 DEF Pi!TypeOK
  <2>6. PipeModes'
    <3>1. DOMAIN swap' = 1..Len(swap) + 1 /\ DOMAIN swap = 1..Len(swap)
      BY <1>5, <2>3
    <3>2. commit' <= Len(swap') /\ (commit' >= 1 => ~Pi!More(swap'[commit']))
      BY <1>1, <1>5, <2>1, <2>3 DEF PipeModes
    <3>3. \A i \in DOMAIN swap' : i > commit' => Pi!More(swap'[i])
      BY <1>1, <1>5, <2>1, <2>3, <3>1 DEF PipeModes
    <3> QED BY <1>1, <1>2, <1>3, <1>5, <1>6, <1>12, <2>1, <2>2, <3>2, <3>3 DEF PipeModes
  <2>7. PipeCounts'
    <3>1. msgs_written' + Hits(swap', Ends) = Pi!LastComplete'[1]
      BY <1>1, <1>4, <1>6, <1>8, <2>1, <2>4 DEF PipeCounts
    <3>2. Hits(pipe_flushed, Ends)' = Hits(pipe_flushed, Ends)
          /\ Hits(pipe_unflushed, Ends)' = Hits(pipe_unflushed, Ends) /\ Hits(swap, Ends)' = Hits(swap', Ends)
      BY <1>2, <2>1 DEF Hits, Places, Ends, Pi!More
    <3> QED BY <1>1, <1>2, <1>6, <1>12, <2>1, <3>1, <3>2 DEF PipeCounts
  <2>8. Whole = WholeOf(last_read, pipe_flushed, pipe_unflushed, swap, Kept) /\ Broken = BrokenOf(<<>>, swap, Kept)
    BY <2>2 DEF Whole, Broken
  <2>9. (Pi!More(p) /\ Whole' = Whole /\ Broken' = Append(Broken, p)) \/ (~Pi!More(p) /\ Whole' = Whole \o Append(Broken, p) /\ Broken' = <<>>)
    <3>0. /\ WholeOf(last_read, pipe_flushed, pipe_unflushed, Append(swap, p), Kept) = WholeOf(last_read, pipe_flushed, pipe_unflushed, swap, Kept)
          /\ BrokenOf(<<>>, Append(swap, p), Kept) = Append(BrokenOf(<<>>, swap, Kept), p)
          /\ WholeOf(last_read, pipe_flushed, pipe_unflushed, Append(swap, p), Len(swap) + 1)
               = Cat(WholeOf(last_read, pipe_flushed, pipe_unflushed, swap, Kept), Append(BrokenOf(<<>>, swap, Kept), p))
          /\ BrokenOf(<<>>, Append(swap, p), Len(swap) + 1) = <<>>
      <4>1. last_read \in Item /\ pipe_flushed \in Seq(Item) /\ pipe_unflushed \in Seq(Item) /\ swap \in Seq(Item) /\ p \in Item /\ Kept \in 0..Len(swap)
        BY <1>4, <1>5
      <4> DEFINE l == last_read
                 f == pipe_flushed
                 u == pipe_unflushed
                 s == swap
                 k == Kept
      <4>2. l \in Item /\ f \in Seq(Item) /\ u \in Seq(Item) /\ s \in Seq(Item) /\ k \in 0..Len(s)
        BY <4>1
      <4> HIDE DEF l, f, u, s, k
      <4>3. WholeOf(l, f, u, Append(s, p), k) = WholeOf(l, f, u, s, k)
        BY <4>1, <4>2, SwappedOnce
      <4>4. BrokenOf(<<>>, Append(s, p), k) = Append(BrokenOf(<<>>, s, k), p)
        BY <4>1, <4>2, SwappedOnce
      <4>5. WholeOf(l, f, u, Append(s, p), Len(s) + 1) = Cat(WholeOf(l, f, u, s, k), Append(BrokenOf(<<>>, s, k), p))
        BY <4>1, <4>2, SwappedOnce
      <4>6. BrokenOf(<<>>, Append(s, p), Len(s) + 1) = <<>>
        BY <4>1, <4>2, SwappedOnce
      <4> QED BY <4>3, <4>4, <4>5, <4>6 DEF l, f, u, s, k
    <3>1. CASE Pi!More(p)
      <4>1. Kept' = Kept
        BY <2>1, <3>1 DEF Kept
      <4>2. Whole' = WholeOf(last_read, pipe_flushed, pipe_unflushed, Append(swap, p), Kept) /\ Broken' = BrokenOf(<<>>, Append(swap, p), Kept)
        BY <1>2, <2>1, <2>2, <4>1 DEF Whole, Broken
      <4> QED BY <2>8, <3>0, <3>1, <4>2
    <3>2. CASE ~Pi!More(p)
      <4>1. Kept' = Len(swap) + 1
        BY <1>5, <2>1, <2>3, <3>2 DEF Kept
      <4>2. Whole' = WholeOf(last_read, pipe_flushed, pipe_unflushed, Append(swap, p), Len(swap) + 1) /\ Broken' = BrokenOf(<<>>, Append(swap, p), Len(swap) + 1)
        BY <1>2, <2>1, <2>2, <4>1 DEF Whole, Broken
      <4> QED BY <2>8, <3>0, <3>2, <4>2 DEF Cat
    <3> QED BY <3>1, <3>2
  <2>10. Closed(pipe_flushed)' /\ Closed(pipe_unflushed)'
    BY <1>3, <2>1 DEF PipeChain, Closed
  <2>11. PipeChain'
    BY <1>2, <1>3, <2>9, <2>10, ChainWritten
  <2> QED BY <1>7, <2>5, <2>6, <2>7, <2>11 DEF PipeInv
<1> QED BY <1>11, <1>12

LEMMA CommandsKept ==
  ASSUME PipeCommands, UNCHANGED <<toWriter, reader_terminating, writer_gone, reader_gone>>, toReader \in Seq({"activate_reader", "pipe_term_ack"}),
         toReader' = toReader \/ (~writer_gone /\ toReader' = Append(toReader, "activate_reader"))
  PROVE  PipeCommands' /\ toReader' \in Seq({"activate_reader", "pipe_term_ack"})
<1>1. CASE toReader' = toReader
  BY <1>1 DEF PipeCommands
<1>2. CASE ~writer_gone /\ toReader' = Append(toReader, "activate_reader")
  <2>1. Len(toReader) \in Nat /\ DOMAIN toReader' = 1..Len(toReader) + 1 /\ toReader'[Len(toReader) + 1] = "activate_reader" /\ DOMAIN toReader = 1..Len(toReader)
        /\ (\A j \in 1..Len(toReader) : toReader'[j] = toReader[j]) /\ toReader' \in Seq({"activate_reader", "pipe_term_ack"})
    BY <1>2
  <2>2. \A j \in DOMAIN toReader' : toReader'[j] # "pipe_term_ack"
    <3>1. \A j \in 1..Len(toReader) : toReader[j] # "pipe_term_ack"
      BY <1>2, <2>1 DEF PipeCommands
    <3> QED BY <2>1, <3>1
  <2>3. ~reader_gone
    BY <1>2 DEF PipeCommands
  <2> QED BY <1>2, <2>1, <2>2, <2>3 DEF PipeCommands
<1> QED BY <1>1, <1>2

LEMMA Woken ==
  ASSUME Pi!TypeOK, NEW queued \in BOOLEAN, Pi!Wakes(queued), ~writer_gone
  PROVE  pipe_reader' \in {"awake", "asleep", "signalled"} /\ (toReader' = toReader \/ (~writer_gone /\ toReader' = Append(toReader, "activate_reader")))
BY DEF Pi!Wakes, Pi!TypeOK, Pi!ypipe!QueueTypeOK

LEMMA CheckWriteFailsStep == ASSUME PipeInv, rollback_ok, Pi!CheckWriteFails PROVE PipeInv'
<1>1. Pi!TypeOK /\ PipeModes /\ PipeCommands /\ PipeCounts /\ toWriter \in Seq(Pi!Command) /\ toReader \in Seq({"activate_reader", "pipe_term_ack"})
  BY DEF PipeInv, Pi!TypeOK
<1>2. /\ UNCHANGED <<created, reader_active, reader_read, reader_terminating, reader_gone, last_read, toWriter>>
      /\ UNCHANGED <<pipe_partial, pipe_unflushed, pipe_flushed, pipe_reader, swap, commit, rollback_ok, msgs_read, msgs_written>>
      /\ UNCHANGED <<swapping, pending_delimiter, writer_terminating, writer_gone, last_written, toReader>> /\ writer_active' = FALSE
  BY DEF Pi!CheckWriteFails, Pi!ReaderUnchanged, Pi!readerVars, Pi!ypipeVars, Pi!swapVars, Pi!countVars, Pi!modeVars
<1>3. Pi!TypeOK'
  BY <1>1, <1>2 DEF Pi!TypeOK, Pi!ypipe!QueueTypeOK, Pi!SwapSize
<1>4. PipeModes'
  BY <1>1, <1>2, ModesKept
<1>5. PipeCommands'
  BY <1>1, <1>2, CommandsKept
<1>6. PipeCounts'
  BY <1>1, <1>2, CountsKept
<1>7. ~reader_gone /\ rollback_ok => PipeChain'
  BY <1>2, ChainKept DEF PipeInv
<1> QED BY <1>2, <1>3, <1>4, <1>5, <1>6, <1>7 DEF PipeInv

LEMMA FlushStep == ASSUME PipeInv, rollback_ok, Pi!Flush PROVE PipeInv'
<1>1. Pi!TypeOK /\ PipeModes /\ PipeCommands /\ PipeCounts /\ toWriter \in Seq(Pi!Command) /\ toReader \in Seq({"activate_reader", "pipe_term_ack"})
  BY DEF PipeInv, Pi!TypeOK
<1>2. /\ UNCHANGED <<created, reader_active, reader_read, reader_terminating, reader_gone, last_read, toWriter>>
      /\ UNCHANGED <<pipe_partial, swap, commit, rollback_ok, msgs_read, msgs_written>>
      /\ UNCHANGED <<swapping, pending_delimiter, writer_terminating, writer_gone, writer_active, last_written>>
      /\ ~writer_gone /\ ~swapping /\ Pi!Wakes(TRUE)
      /\ pipe_flushed' = pipe_flushed \o pipe_unflushed /\ pipe_unflushed' = <<>>
  BY DEF Pi!Flush, Pi!ReaderUnchanged, Pi!readerVars, Pi!writerVars, Pi!swapVars, Pi!countVars, Pi!modeVars
<1>3. /\ last_read \in Item /\ pipe_flushed \in Seq(Item) /\ pipe_unflushed \in Seq(Item) /\ pipe_partial \in Seq(Item)
      /\ pipe_unflushed \in Seq(Pi!Part) /\ Kept \in 0..Len(swap)
  BY <1>1, PipeTypes DEF PipeModes
<1>4. ~reader_gone /\ PipeChain
  BY <1>1, <1>2 DEF PipeCommands, PipeInv
<1>5. pipe_reader' \in {"awake", "asleep", "signalled"} /\ (toReader' = toReader \/ (~writer_gone /\ toReader' = Append(toReader, "activate_reader")))
  BY <1>1, <1>2, Woken
<1>6. PipeCommands' /\ toReader' \in Seq({"activate_reader", "pipe_term_ack"})
  BY <1>1, <1>2, <1>5, CommandsKept
<1>7. pipe_flushed' \in Seq(Pi!Part \union {Delimiter})
  <2>1. pipe_unflushed \in Seq(Pi!Part \union {Delimiter})
    BY <1>3, SeqMonotonic
  <2> QED BY <1>1, <1>2, <2>1, ConcatProperties DEF Pi!TypeOK, Pi!ypipe!QueueTypeOK
<1>8. Pi!TypeOK'
  <2>1. Pi!ypipe!QueueTypeOK'
    BY <1>1, <1>2, <1>5, <1>7, EmptySeq DEF Pi!ypipe!QueueTypeOK, Pi!TypeOK
  <2> QED BY <1>1, <1>2, <1>6, <2>1 DEF Pi!TypeOK, Pi!SwapSize
<1>9. PipeModes'
  BY <1>1, <1>2, EmptySeq DEF PipeModes, Pi!hwm, Pi!More
<1>10. PipeCounts'
  <2>1. Hits(pipe_flushed', Ends) = Hits(pipe_flushed, Ends) + Hits(pipe_unflushed, Ends)
    BY <1>2, <1>3, HitsConcat
  <2>2. Hits(pipe_unflushed', Ends) = 0
    BY <1>2, HitsEmpty
  <2>3. Hits(pipe_flushed, Ends) \in Nat /\ Hits(pipe_unflushed, Ends) \in Nat /\ {reader_read, msgs_written} \subseteq Nat
    BY <1>1, <1>3, HitsType, PipeFacts DEF Pi!TypeOK
  <2>4. reader_read + Hits(pipe_flushed', Ends) + Hits(pipe_unflushed', Ends) = msgs_written
    BY <1>1, <1>4, <2>1, <2>2, <2>3 DEF PipeCounts
  <2>5. Hits(pipe_flushed, Ends)' = Hits(pipe_flushed', Ends) /\ Hits(pipe_unflushed, Ends)' = Hits(pipe_unflushed', Ends) /\ Hits(swap, Ends)' = Hits(swap, Ends)
    BY <1>2 DEF Hits, Places, Ends, Pi!More
  <2> QED BY <1>1, <1>2, <2>4, <2>5 DEF PipeCounts, Pi!hwm, Pi!More, Pi!LastComplete
<1>11. Whole' = Whole /\ Broken' = Broken
  <2>1. swap = <<>> /\ swap' = <<>> /\ Kept = 0 /\ Kept' = 0
    BY <1>1, <1>2, <1>3 DEF PipeModes, Kept
  <2>2. pipe_flushed' \in Seq(Item) /\ pipe_unflushed' \in Seq(Item)
    BY <1>2, <1>3, ConcatProperties, EmptySeq
  <2>3. Whole = <<last_read>> \o (pipe_flushed \o pipe_unflushed) /\ Broken = pipe_partial
    BY <1>3, <2>1, EmptySwap DEF Whole, Broken
  <2>4. Whole' = WholeOf(last_read, pipe_flushed', pipe_unflushed', <<>>, 0) /\ Broken' = BrokenOf(pipe_partial, <<>>, 0)
    BY <1>2, <2>1 DEF Whole, Broken
  <2>5. Whole' = <<last_read>> \o (pipe_flushed' \o pipe_unflushed') /\ Broken' = pipe_partial
    BY <1>3, <2>2, <2>4, EmptySwap
  <2>6. pipe_flushed' \o pipe_unflushed' = pipe_flushed \o pipe_unflushed
    <3>1. pipe_flushed' \o <<>> = pipe_flushed'
      BY <2>2, ConcatEmptySeq
    <3> QED BY <1>2, <3>1
  <2> QED BY <2>3, <2>5, <2>6
<1>12. PipeChain'
  <2>1. Closed(pipe_flushed') /\ Closed(<<>>)
    <3>1. Closed(pipe_flushed \o pipe_unflushed)
      BY <1>3, <1>4, ClosedConcat DEF PipeChain
    <3> QED BY <1>2, <3>1 DEF Closed
  <2>2. Chained(Whole \o Broken)' = Chained(Whole \o Broken)
    BY <1>11 DEF Chained
  <2>3. Closed(pipe_flushed)' /\ Closed(pipe_unflushed)'
    BY <1>2, <2>1 DEF Closed
  <2>4. Pi!LastComplete' = Pi!LastComplete /\ Pi!More(last_written)' = Pi!More(last_written)
    BY <1>2 DEF Pi!LastComplete, Pi!More
  <2> QED BY <1>2, <1>4, <1>11, <2>2, <2>3, <2>4 DEF PipeChain
<1> QED BY <1>6, <1>8, <1>9, <1>10, <1>12 DEF PipeInv

\* A rollback of the swap keeps what is complete, and as long as it does not leave
\* the swap wrong it keeps no more than that.
LEMMA RolledBack ==
  ASSUME Pi!TypeOK, PipeModes, Pi!RollbackSwap
  PROVE  /\ commit' = commit /\ Kept' = Kept /\ rollback_ok' \in BOOLEAN
         /\ swap' \in Seq(Pi!Part) /\ Len(swap') <= Len(swap) /\ commit' <= Len(swap')
         /\ \A j \in DOMAIN swap' : swap'[j] = swap[j] /\ j \in DOMAIN swap
         /\ Hits(swap', Ends) = Hits(swap, Ends)
         /\ rollback_ok' =>
              /\ \A l \in Item, f, u \in Seq(Item) : WholeOf(l, f, u, swap', Kept) = WholeOf(l, f, u, swap, Kept)
              /\ BrokenOf(<<>>, swap', Kept) = <<>>
<1>1. swap \in Seq(Pi!Part) /\ swap \in Seq(Item) /\ Kept \in 0..Len(swap) /\ commit \in Int /\ Len(swap) \in Nat /\ commit <= Len(swap)
  BY PipeTypes DEF PipeModes
<1>2. 0 \in 0..Len(swap) /\ Kept \in 0..Len(swap) /\ Len(swap) \in Kept..Len(swap) /\ 0 + 1 = 1 /\ Kept - 0 = Kept
  BY <1>1
<1>3. SubSeq(swap, 1, Kept) \in Seq(Pi!Part) /\ Len(SubSeq(swap, 1, Kept)) = Kept /\ \A i \in 1..Kept : SubSeq(swap, 1, Kept)[i] = swap[i]
  <2>1. SubSeq(swap, 0 + 1, Kept) \in Seq(Pi!Part) /\ Len(SubSeq(swap, 0 + 1, Kept)) = Kept - 0
        /\ \A i \in 1..Kept - 0 : SubSeq(swap, 0 + 1, Kept)[i] = swap[0 + i]
    BY <1>1, <1>2, Slice
  <2> QED BY <1>2, <2>1
<1>4. commit' = commit /\ rollback_ok' \in BOOLEAN /\ (swap' = SubSeq(swap, 1, Kept) \/ (swap' = swap /\ rollback_ok' = FALSE))
  <2>1. CASE Pi!NothingToRollback
    <3>1. swap' = swap /\ commit' = commit /\ rollback_ok' = rollback_ok
      BY <2>1 DEF Pi!RollbackSwap, Pi!swapVars
    <3>2. Kept = Len(swap)
      BY <1>1, <2>1, EmptySeq DEF Pi!NothingToRollback, Kept
    <3>3. SubSeq(swap, 1, Len(swap)) = swap
      BY <1>1, SliceWhole
    <3> QED BY <3>1, <3>2, <3>3 DEF Pi!TypeOK
  <2>2. CASE ~Pi!NothingToRollback
    <3>1. commit' = commit /\ ((commit >= 0 /\ swap' = SubSeq(swap, 1, commit) /\ rollback_ok' = rollback_ok) \/ (rollback_ok' = FALSE /\ swap' = swap))
      BY <2>2 DEF Pi!RollbackSwap
    <3>2. commit >= 0 => SubSeq(swap, 1, commit) = SubSeq(swap, 1, Kept)
      BY <1>1 DEF Kept
    <3> QED BY <3>1, <3>2 DEF Pi!TypeOK
  <2> QED BY <2>1, <2>2
<1>5. Kept' = Kept
  BY <1>4 DEF Kept
<1>6. CASE swap' = SubSeq(swap, 1, Kept)
  <2>1. swap' \in Seq(Pi!Part) /\ Len(swap') = Kept /\ \A j \in DOMAIN swap' : swap'[j] = swap[j] /\ j \in DOMAIN swap
    BY <1>1, <1>3, <1>6
  <2>2. Hits(swap', Ends) = Hits(swap, Ends)
    <3> DEFINE x == SubSeq(swap, 0 + 1, Kept)
               y == SubSeq(swap, Kept + 1, Len(swap))
    <3>1. x \o y = SubSeq(swap, 0 + 1, Len(swap))
      BY <1>1, <1>2, SliceJoin
    <3>2. x \in Seq(Pi!Part) /\ y \in Seq(Pi!Part) /\ Len(y) = Len(swap) - Kept /\ \A i \in 1..Len(swap) - Kept : y[i] = swap[Kept + i]
      BY <1>1, <1>2, Slice
    <3>3. \A j \in DOMAIN y : y[j] \notin Ends
      <4> SUFFICES ASSUME NEW j \in 1..Len(swap) - Kept PROVE y[j] \notin Ends
        BY <3>2
      <4>1. Kept + j \in DOMAIN swap /\ Kept + j > commit
        BY <1>1 DEF Kept
      <4> QED BY <3>2, <4>1 DEF PipeModes, Ends
    <3>4. x \o y = swap /\ x = swap'
      BY <1>1, <1>2, <1>6, <3>1, SliceWhole
    <3> HIDE DEF x, y
    <3>5. Hits(y, Ends) = 0 /\ Hits(x, Ends) \in Nat
      BY <3>2, <3>3, HitsType
    <3>6. Hits(x \o y, Ends) = Hits(x, Ends) + Hits(y, Ends)
      BY <3>2, HitsConcat
    <3> QED BY <3>4, <3>5, <3>6
  <2>3. SubSeq(swap', 1, Kept) = swap' /\ SubSeq(swap', Kept + 1, Len(swap')) = <<>>
    BY <2>1, SliceWhole
  <2>4. \A l \in Item, f, u \in Seq(Item) : WholeOf(l, f, u, swap', Kept) = WholeOf(l, f, u, swap, Kept)
    BY <1>6, <2>3 DEF WholeOf
  <2>5. BrokenOf(<<>>, swap', Kept) = <<>>
    <3>1. <<>> \o <<>> = <<>>
      BY ConcatEmptySeq, EmptySeq
    <3> QED BY <2>3, <3>1 DEF BrokenOf
  <2>6. commit' <= Len(swap') /\ Len(swap') <= Len(swap)
    BY <1>1, <1>4, <2>1 DEF Kept
  <2> QED BY <1>4, <1>5, <2>1, <2>2, <2>4, <2>5, <2>6
<1>7. CASE swap' = swap /\ rollback_ok' = FALSE
  BY <1>1, <1>4, <1>5, <1>7
<1> QED BY <1>4, <1>6, <1>7

\* What was written last, once the incomplete message is taken back.
LEMMA LastCompleteType ==
  ASSUME Pi!TypeOK, last_written' = Pi!LastComplete
  PROVE  last_written' \in Pi!Part \union {Pi!NoPart} /\ ~Pi!More(last_written)' /\ Pi!LastComplete' = Pi!LastComplete
<1>1. last_written \in Pi!Part \union {Pi!NoPart} /\ last_written[1] \in 0..MaxMessages /\ last_written[3] \in BOOLEAN /\ MaxMessages \in Nat
  BY PartFields, PipeFacts DEF Pi!TypeOK
<1>2. CASE Pi!More(last_written)
  <2>1. Pi!LastComplete = <<last_written[1] - 1, 1, FALSE>>
    BY <1>2 DEF Pi!LastComplete
  <2>2. last_written # Pi!NoPart /\ last_written \in Pi!Part /\ last_written[1] \in 1..MaxMessages
    BY <1>1, <1>2, PartFields DEF Pi!More
  <2>3. Pi!LastComplete \in Pi!Part \union {Pi!NoPart}
    <3>1. CASE last_written[1] = 1
      <4>1. Pi!LastComplete = <<0, 1, FALSE>>
        BY <2>1, <3>1
      <4> QED BY <4>1, PipeFacts
    <3>2. CASE last_written[1] # 1
      <4>1. last_written[1] - 1 \in 1..MaxMessages /\ 1 \in 1..MaxParts
        BY <1>1, <2>2, <3>2, PipeFacts
      <4> QED BY <2>1, <4>1, PipeFacts
    <3> QED BY <3>1, <3>2
  <2>4. ~Pi!More(last_written)'
    BY <2>1 DEF Pi!More
  <2>5. Pi!LastComplete' = last_written'
    BY <2>4 DEF Pi!LastComplete, Pi!More
  <2> QED BY <2>3, <2>4, <2>5
<1>3. CASE ~Pi!More(last_written)
  <2>1. Pi!LastComplete = last_written
    BY <1>3 DEF Pi!LastComplete
  <2> QED BY <1>1, <1>3, <2>1 DEF Pi!LastComplete, Pi!More
<1> QED BY <1>2, <1>3

\* What is complete stays a chain when the rest is taken back.
LEMMA ChainRolled ==
  ASSUME Pi!TypeOK, PipeModes, PipeChain, Whole' = Whole, Broken' = <<>>, ~Pi!More(last_written)', Pi!LastComplete' = Pi!LastComplete,
         Closed(pipe_flushed)', Closed(pipe_unflushed)', ~writer_terminating
  PROVE  PipeChain'
<1>1. Whole \in Seq(Item) /\ Broken \in Seq(Item)
  BY WholeTypes
<1>2. Chained(Whole)
  BY <1>1, ChainPrefix DEF PipeChain
<1>3. Whole \o <<>> = Whole
  BY <1>1, ConcatEmptySeq
<1>4. Chained(Whole \o Broken)'
  BY <1>2, <1>3 DEF Chained
<1>5. LET q == Whole'[Len(Whole')] IN q # Delimiter /\ ~Pi!More(q) /\ q[1] = Pi!LastComplete'[1]
  BY DEF PipeChain
<1> QED BY <1>4, <1>5 DEF PipeChain

LEMMA RollbackStep == ASSUME PipeInv, rollback_ok, Pi!Rollback PROVE PipeInv'
<1>1. Pi!TypeOK /\ PipeModes /\ PipeCommands /\ PipeCounts /\ toWriter \in Seq(Pi!Command) /\ toReader \in Seq({"activate_reader", "pipe_term_ack"})
  BY DEF PipeInv, Pi!TypeOK
<1>2. /\ UNCHANGED <<created, reader_active, reader_read, reader_terminating, reader_gone, last_read, toWriter>>
      /\ UNCHANGED <<pipe_unflushed, pipe_flushed, pipe_reader, msgs_read, msgs_written, writer_active, toReader>>
      /\ UNCHANGED <<swapping, pending_delimiter, writer_terminating, writer_gone>>
      /\ ~writer_gone /\ Pi!More(last_written) /\ last_written' = Pi!LastComplete
      /\ IF swapping THEN Pi!RollbackSwap /\ UNCHANGED pipe_partial ELSE pipe_partial' = <<>> /\ UNCHANGED <<swap, commit, rollback_ok>>
  BY DEF Pi!Rollback, Pi!ReaderUnchanged, Pi!readerVars, Pi!swapVars, Pi!countVars, Pi!modeVars
<1>3. ~reader_gone /\ PipeChain /\ ~writer_terminating
  BY <1>1, <1>2 DEF PipeCommands, PipeInv, PipeModes
<1>4. /\ last_read \in Item /\ pipe_flushed \in Seq(Item) /\ pipe_unflushed \in Seq(Item) /\ pipe_partial \in Seq(Item)
      /\ pipe_unflushed \in Seq(Pi!Part) /\ pipe_partial \in Seq(Pi!Part)
  BY <1>1, PipeTypes DEF PipeModes
<1>5. last_written' \in Pi!Part \union {Pi!NoPart} /\ ~Pi!More(last_written)' /\ Pi!LastComplete' = Pi!LastComplete
  BY <1>1, <1>2, LastCompleteType
<1>6. /\ swap' \in Seq(Pi!Part) /\ Len(swap') <= Len(swap) /\ commit' = commit /\ commit' <= Len(swap')
      /\ rollback_ok' \in BOOLEAN /\ (~swapping => swap' = <<>>)
      /\ (\A j \in DOMAIN swap' : swap'[j] = swap[j] /\ j \in DOMAIN swap) /\ Hits(swap', Ends) = Hits(swap, Ends)
      /\ pipe_partial' \in Seq(Pi!Part) /\ (swapping => pipe_partial' = <<>>)
      /\ (rollback_ok' => Whole' = Whole /\ Broken' = <<>>)
  <2>1. CASE swapping
    <3>1. /\ commit' = commit /\ Kept' = Kept /\ rollback_ok' \in BOOLEAN
          /\ swap' \in Seq(Pi!Part) /\ Len(swap') <= Len(swap) /\ commit' <= Len(swap')
          /\ \A j \in DOMAIN swap' : swap'[j] = swap[j] /\ j \in DOMAIN swap
          /\ Hits(swap', Ends) = Hits(swap, Ends)
          /\ rollback_ok' =>
               /\ \A l \in Item, f, u \in Seq(Item) : WholeOf(l, f, u, swap', Kept) = WholeOf(l, f, u, swap, Kept)
               /\ BrokenOf(<<>>, swap', Kept) = <<>>
      BY <1>1, <1>2, <2>1, RolledBack
    <3>2. pipe_partial' = <<>>
      BY <1>1, <1>2, <2>1 DEF PipeModes
    <3>3. rollback_ok' => Whole' = Whole /\ Broken' = <<>>
      BY <1>2, <1>4, <3>1, <3>2 DEF Whole, Broken
    <3> QED BY <2>1, <3>1, <3>2, <3>3, EmptySeq
  <2>2. CASE ~swapping
    <3>1. swap = <<>> /\ swap' = <<>> /\ commit' = commit /\ rollback_ok' = rollback_ok /\ pipe_partial' = <<>> /\ commit <= Len(swap)
      BY <1>1, <1>2, <2>2 DEF PipeModes
    <3>2. Kept = 0 /\ Kept' = 0
      BY <1>1, <3>1, EmptySeq DEF Kept, Pi!TypeOK
    <3>3. Whole' = Whole
      BY <1>2, <3>1, <3>2 DEF Whole
    <3>4. Broken' = <<>>
      <4>1. <<>> \in Seq(Item)
        BY EmptySeq
      <4>2. BrokenOf(<<>>, <<>>, 0) = <<>>
        BY <1>4, <4>1, EmptySwap
      <4> QED BY <3>1, <3>2, <4>2 DEF Broken
    <3> QED BY <1>1, <2>2, <3>1, <3>3, <3>4, EmptySeq DEF Pi!TypeOK, PipeModes
  <2> QED BY <2>1, <2>2
<1>7. PipeCommands'
  BY <1>1, <1>2, CommandsKept
<1>8. Pi!TypeOK'
  <2>1. Pi!ypipe!QueueTypeOK'
    <3>1. pipe_partial' \in Seq(Pi!Part \union {Delimiter})
      BY <1>6, SeqMonotonic
    <3> QED BY <1>1, <1>2, <3>1 DEF Pi!ypipe!QueueTypeOK, Pi!TypeOK
  <2>2. Len(swap') <= Pi!SwapSize' /\ commit' \in Int
    <3>1. Len(swap) \in Nat /\ Len(swap') \in Nat /\ Pi!SwapSize \in Nat /\ Pi!SwapSize' = Pi!SwapSize /\ Len(swap) <= Pi!SwapSize
      BY <1>1, <1>2, <1>6, KindFields DEF Pi!SwapSize, Pi!TypeOK
    <3> QED BY <1>1, <1>6, <3>1 DEF Pi!TypeOK
  <2> QED BY <1>1, <1>2, <1>5, <1>6, <2>1, <2>2 DEF Pi!TypeOK
<1>9. PipeModes'
  <2>1. \A i \in DOMAIN swap' : i > commit' => Pi!More(swap'[i])
    BY <1>1, <1>6 DEF PipeModes
  <2>2. commit' >= 1 => ~Pi!More(swap'[commit'])
    <3>1. commit >= 1 => commit \in DOMAIN swap'
      BY <1>1, <1>6 DEF Pi!TypeOK
    <3> QED BY <1>1, <1>6, <3>1 DEF PipeModes
  <2> QED BY <1>1, <1>2, <1>3, <1>5, <1>6, <2>1, <2>2 DEF PipeModes, Pi!hwm
<1>10. PipeCounts'
  <2>1. Hits(pipe_flushed, Ends)' = Hits(pipe_flushed, Ends) /\ Hits(pipe_unflushed, Ends)' = Hits(pipe_unflushed, Ends) /\ Hits(swap, Ends)' = Hits(swap', Ends)
    BY <1>2 DEF Hits, Places, Ends, Pi!More
  <2> QED BY <1>1, <1>2, <1>5, <1>6, <2>1 DEF PipeCounts, Pi!hwm
<1>11. rollback_ok' => PipeChain'
  <2>1. Closed(pipe_flushed)' /\ Closed(pipe_unflushed)'
    BY <1>2, <1>3 DEF PipeChain, Closed
  <2> QED BY <1>1, <1>3, <1>5, <1>6, <2>1, ChainRolled
<1> QED BY <1>7, <1>8, <1>9, <1>10, <1>11 DEF PipeInv

\* The delimiter goes in behind what is complete.
LEMMA ChainDelimited ==
  ASSUME Pi!TypeOK, PipeModes, PipeChain, Whole' = Append(Whole, Delimiter), Broken' = <<>>,
         Whole[Len(Whole)] # Delimiter, ~Pi!More(last_written)', Closed(pipe_flushed)', Closed(pipe_unflushed)', writer_terminating', ~swapping'
  PROVE  PipeChain'
<1>1. Whole \in Seq(Item) /\ Whole # <<>> /\ Broken \in Seq(Item) /\ Delimiter \in Item
  BY WholeTypes DEF Item
<1>2. Chained(Whole)
  BY <1>1, ChainPrefix DEF PipeChain
<1>3. Pi!Follows(Delimiter, Whole[Len(Whole)])
  BY DEF PipeChain, Pi!Follows
<1>4. Chained(Append(Whole, Delimiter)) /\ Append(Whole, Delimiter) \in Seq(Item)
      /\ Append(Whole, Delimiter)[Len(Append(Whole, Delimiter))] = Delimiter
  BY <1>1, <1>2, <1>3, ChainAppend, AppendProperties
<1>5. Append(Whole, Delimiter) \o <<>> = Append(Whole, Delimiter)
  BY <1>4, ConcatEmptySeq
<1>6. Chained(Whole \o Broken)'
  BY <1>4, <1>5 DEF Chained
<1>7. Whole'[Len(Whole')] = Delimiter
  BY <1>4
<1> QED BY <1>6, <1>7 DEF PipeChain

LEMMA TerminateWriterStep == ASSUME PipeInv, rollback_ok, Pi!TerminateWriter PROVE PipeInv'
<1>1. Pi!TypeOK /\ PipeModes /\ PipeCommands /\ PipeCounts /\ toWriter \in Seq(Pi!Command) /\ toReader \in Seq({"activate_reader", "pipe_term_ack"})
  BY DEF PipeInv, Pi!TypeOK
<1>2. /\ UNCHANGED <<created, reader_active, reader_read, reader_terminating, reader_gone, last_read, toWriter>>
      /\ UNCHANGED <<msgs_read, msgs_written, swapping, writer_gone>>
      /\ ~writer_gone /\ ~writer_terminating /\ last_written' = Pi!LastComplete /\ writer_terminating' = TRUE /\ writer_active' = FALSE
  BY DEF Pi!TerminateWriter, Pi!ReaderUnchanged, Pi!readerVars, Pi!countVars
<1>3. ~reader_gone /\ PipeChain
  BY <1>1, <1>2 DEF PipeCommands, PipeInv
<1>4. /\ last_read \in Item /\ pipe_flushed \in Seq(Item) /\ pipe_unflushed \in Seq(Item) /\ pipe_partial \in Seq(Item)
      /\ pipe_unflushed \in Seq(Pi!Part) /\ pipe_partial \in Seq(Pi!Part)
  BY <1>1, PipeTypes DEF PipeModes
<1>5. last_written' \in Pi!Part \union {Pi!NoPart} /\ ~Pi!More(last_written)' /\ Pi!LastComplete' = Pi!LastComplete
  BY <1>1, <1>2, LastCompleteType
<1>6. CASE swapping
  <2>1. Pi!RollbackSwap /\ pending_delimiter' = TRUE /\ UNCHANGED <<pipe_partial, pipe_unflushed, pipe_flushed, pipe_reader, toReader>>
    BY <1>6 DEF Pi!TerminateWriter, Pi!ypipeVars
  <2>2. /\ commit' = commit /\ Kept' = Kept /\ rollback_ok' \in BOOLEAN
        /\ swap' \in Seq(Pi!Part) /\ Len(swap') <= Len(swap) /\ commit' <= Len(swap')
        /\ \A j \in DOMAIN swap' : swap'[j] = swap[j] /\ j \in DOMAIN swap
        /\ Hits(swap', Ends) = Hits(swap, Ends)
        /\ rollback_ok' =>
             /\ \A l \in Item, f, u \in Seq(Item) : WholeOf(l, f, u, swap', Kept) = WholeOf(l, f, u, swap, Kept)
             /\ BrokenOf(<<>>, swap', Kept) = <<>>
    BY <1>1, <2>1, RolledBack
  <2>3. pipe_partial' = <<>>
    BY <1>1, <1>6, <2>1 DEF PipeModes
  <2>4. rollback_ok' => Whole' = Whole /\ Broken' = <<>>
    BY <1>2, <1>4, <2>1, <2>2, <2>3 DEF Whole, Broken
  <2>5. PipeCommands'
    BY <1>1, <1>2, <2>1, CommandsKept
  <2>6. Pi!TypeOK'
    <3>1. Len(swap') <= Pi!SwapSize' /\ commit' \in Int
      <4>1. Len(swap) \in Nat /\ Len(swap') \in Nat /\ Pi!SwapSize \in Nat /\ Pi!SwapSize' = Pi!SwapSize /\ Len(swap) <= Pi!SwapSize
        BY <1>1, <1>2, <2>2, KindFields DEF Pi!SwapSize, Pi!TypeOK
      <4> QED BY <1>1, <2>2, <4>1 DEF Pi!TypeOK
    <3>2. Pi!ypipe!QueueTypeOK'
      BY <1>1, <2>1 DEF Pi!ypipe!QueueTypeOK, Pi!TypeOK
    <3> QED BY <1>1, <1>2, <1>5, <2>1, <2>2, <3>1, <3>2 DEF Pi!TypeOK
  <2>7. PipeModes'
    <3>1. \A i \in DOMAIN swap' : i > commit' => Pi!More(swap'[i])
      BY <1>1, <2>2 DEF PipeModes
    <3>2. commit' >= 1 => ~Pi!More(swap'[commit'])
      <4>1. commit >= 1 => commit \in DOMAIN swap'
        BY <1>1, <2>2 DEF Pi!TypeOK
      <4> QED BY <1>1, <2>2, <4>1 DEF PipeModes
    <3> QED BY <1>1, <1>2, <1>5, <1>6, <2>1, <2>2, <2>3, <3>1, <3>2 DEF PipeModes, Pi!hwm
  <2>8. PipeCounts'
    <3>1. Hits(pipe_flushed, Ends)' = Hits(pipe_flushed, Ends) /\ Hits(pipe_unflushed, Ends)' = Hits(pipe_unflushed, Ends) /\ Hits(swap, Ends)' = Hits(swap', Ends)
      BY <2>1 DEF Hits, Places, Ends, Pi!More
    <3> QED BY <1>1, <1>2, <1>5, <2>2, <3>1 DEF PipeCounts, Pi!hwm
  <2>9. rollback_ok' => PipeChain'
    <3>1. Closed(pipe_flushed)' /\ Closed(pipe_unflushed)'
      BY <1>3, <2>1 DEF PipeChain, Closed
    <3> QED BY <1>1, <1>2, <1>3, <1>5, <2>4, <3>1, ChainRolled
  <2> QED BY <2>5, <2>6, <2>7, <2>8, <2>9 DEF PipeInv
<1>7. CASE ~swapping
  <2>1. /\ pipe_partial' = <<>> /\ pipe_unflushed' = <<>> /\ pipe_flushed' = pipe_flushed \o pipe_unflushed \o <<Delimiter>>
        /\ Pi!Wakes(TRUE) /\ UNCHANGED <<swap, commit, rollback_ok, pending_delimiter>>
    BY <1>7 DEF Pi!TerminateWriter, Pi!swapVars
  <2>2. swap = <<>> /\ swap' = <<>> /\ Kept = 0 /\ Kept' = 0
    <3>1. swap = <<>> /\ commit <= Len(swap) /\ commit \in Int /\ Len(<<>>) = 0
      BY <1>1, <1>7, EmptySeq DEF PipeModes, Pi!TypeOK
    <3> QED BY <2>1, <3>1 DEF Kept
  <2>3. pipe_reader' \in {"awake", "asleep", "signalled"} /\ (toReader' = toReader \/ (~writer_gone /\ toReader' = Append(toReader, "activate_reader")))
    BY <1>1, <1>2, <2>1, Woken
  <2>4. PipeCommands' /\ toReader' \in Seq({"activate_reader", "pipe_term_ack"})
    BY <1>1, <1>2, <2>3, CommandsKept
  <2> DEFINE fu == pipe_flushed \o pipe_unflushed
             one == <<Delimiter>>
             W == Pi!Part \union {Delimiter}
  <2>5. pipe_flushed \in Seq(W) /\ pipe_unflushed \in Seq(W) /\ one \in Seq(W) /\ one \in Seq(Item) /\ Delimiter \notin Ends /\ fu \in Seq(W) /\ fu \in Seq(Item)
    <3>1. pipe_flushed \in Seq(W) /\ pipe_unflushed \in Seq(W)
      BY <1>1, <1>4, SeqMonotonic DEF Pi!TypeOK, Pi!ypipe!QueueTypeOK
    <3>2. one \in Seq(W) /\ one \in Seq(Item) /\ Delimiter \notin Ends
      BY PipeFacts DEF Item, Ends
    <3> QED BY <1>4, <3>1, <3>2, ConcatProperties
  <2>6. Hits(fu, Ends) = Hits(pipe_flushed, Ends) + Hits(pipe_unflushed, Ends) /\ Hits(one, Ends) = 0
    <3>1. Hits(one, Ends) = 0
      BY <2>5, HitsOne DEF Item
    <3> QED BY <1>4, <3>1, HitsConcat
  <2>7. Closed(fu) /\ Closed(one)
    <3>1. Closed(fu)
      BY <1>3, <1>4, ClosedConcat DEF PipeChain
    <3>2. Closed(one)
      BY DEF Closed
    <3> QED BY <3>1, <3>2
  <2>8. Whole = <<last_read>> \o fu /\ Broken = pipe_partial
    BY <1>4, <2>2, EmptySwap DEF Whole, Broken
  <2> HIDE DEF fu, one
  <2>9. pipe_flushed' = fu \o one
    BY <2>1 DEF fu, one
  <2>10. pipe_flushed' \in Seq(W) /\ pipe_flushed' \in Seq(Item) /\ Hits(pipe_flushed', Ends) = Hits(fu, Ends) + Hits(one, Ends) /\ Closed(pipe_flushed')
    <3>1. fu \o one \in Seq(W) /\ fu \o one \in Seq(Item)
      BY <2>5, ConcatProperties
    <3>2. Hits(fu \o one, Ends) = Hits(fu, Ends) + Hits(one, Ends)
      BY <2>5, HitsConcat
    <3>3. Closed(fu \o one)
      BY <2>5, <2>7, ClosedConcat
    <3> QED BY <2>9, <3>1, <3>2, <3>3
  <2>11. Pi!TypeOK'
    <3>1. Pi!ypipe!QueueTypeOK'
      BY <2>1, <2>3, <2>10, EmptySeq DEF Pi!ypipe!QueueTypeOK
    <3>2. Len(swap') <= Pi!SwapSize'
      BY <1>1, <1>2, <2>1 DEF Pi!TypeOK, Pi!SwapSize
    <3> QED BY <1>1, <1>2, <1>5, <2>1, <2>4, <3>1, <3>2 DEF Pi!TypeOK
  <2>12. PipeModes'
    BY <1>1, <1>2, <1>5, <1>7, <2>1, <2>2, EmptySeq DEF PipeModes
  <2>13. PipeCounts'
    <3>1. Hits(pipe_unflushed', Ends) = 0
      BY <2>1, HitsEmpty
    <3>2. Hits(pipe_flushed, Ends) \in Nat /\ Hits(pipe_unflushed, Ends) \in Nat /\ {reader_read, msgs_written} \subseteq Nat
      BY <1>1, <1>4, HitsType, PipeFacts DEF Pi!TypeOK
    <3>3. reader_read + Hits(pipe_flushed', Ends) + Hits(pipe_unflushed', Ends) = msgs_written
      BY <1>1, <1>3, <2>6, <2>10, <3>1, <3>2 DEF PipeCounts
    <3>4. Hits(pipe_flushed, Ends)' = Hits(pipe_flushed', Ends) /\ Hits(pipe_unflushed, Ends)' = Hits(pipe_unflushed', Ends) /\ Hits(swap, Ends)' = Hits(swap, Ends)
      BY <2>1 DEF Hits, Places, Ends, Pi!More
    <3> QED BY <1>1, <1>2, <1>5, <3>3, <3>4 DEF PipeCounts, Pi!hwm
  <2>14. Whole' = Append(Whole, Delimiter) /\ Broken' = <<>>
    <3> DEFINE none == <<>>
               l == <<last_read>>
    <3>1. none \in Seq(Item) /\ l \in Seq(Item)
      BY <1>4, EmptySeq
    <3>2. Whole' = WholeOf(last_read, pipe_flushed', none, none, 0) /\ Broken' = BrokenOf(none, none, 0)
      BY <1>2, <2>1, <2>2 DEF Whole, Broken
    <3>3. WholeOf(last_read, pipe_flushed', none, none, 0) = l \o (pipe_flushed' \o none) /\ BrokenOf(none, none, 0) = none
      BY <1>4, <2>10, <3>1, EmptySwap
    <3>4. pipe_flushed' \o none = pipe_flushed'
      BY <2>10, ConcatEmptySeq
    <3>5. Whole' = l \o pipe_flushed'
      BY <3>2, <3>3, <3>4
    <3> HIDE DEF l, none
    <3>6. Cat(l, Cat(fu, one)) = Cat(Cat(l, fu), one)
      BY <2>5, <3>1, CatFacts
    <3>7. Whole' = Cat(Cat(l, fu), one) /\ Whole = Cat(l, fu)
      BY <2>8, <2>9, <3>5, <3>6 DEF Cat, l
    <3>8. Whole \in Seq(Item) /\ Delimiter \in Item
      BY <1>1, WholeTypes DEF Item
    <3>9. Append(Whole, Delimiter) = Cat(Whole, one)
      BY <3>8, AppendIsConcat DEF Cat, one
    <3> QED BY <3>2, <3>3, <3>7, <3>9 DEF none
  <2>15. PipeChain'
    <3>1. Closed(pipe_flushed)' /\ Closed(pipe_unflushed)'
      BY <2>1, <2>10 DEF Closed
    <3>2. Whole[Len(Whole)] # Delimiter
      BY <1>2, <1>3 DEF PipeChain
    <3> QED BY <1>1, <1>2, <1>3, <1>5, <1>7, <2>14, <3>1, <3>2, ChainDelimited
  <2> QED BY <2>4, <2>11, <2>12, <2>13, <2>15 DEF PipeInv
<1> QED BY <1>6, <1>7

(***************************************************************************)
(* The reader's steps.                                                     *)
(***************************************************************************)
LEMMA TermAppended ==
  ASSUME PipeCommands, ~reader_terminating, reader_terminating' = TRUE, toWriter \in Seq(Pi!Command),
         toWriter' = Append(toWriter, <<"pipe_term">>), UNCHANGED <<toReader, writer_gone, reader_gone>>
  PROVE  PipeCommands' /\ toWriter' \in Seq(Pi!Command)
<1>1. <<"pipe_term">> \in Pi!Command
  BY DEF Pi!Command
<1>2. Len(toWriter) \in Nat /\ DOMAIN toWriter' = 1..Len(toWriter) + 1 /\ DOMAIN toWriter = 1..Len(toWriter)
      /\ (\A j \in 1..Len(toWriter) : toWriter'[j] = toWriter[j]) /\ toWriter' \in Seq(Pi!Command) /\ Len(toWriter') = Len(toWriter) + 1
  BY <1>1, AppendProperties
<1>3. \A j \in 1..Len(toWriter) : toWriter[j][1] # "pipe_term"
  BY <1>2 DEF PipeCommands
<1>4. \A j \in DOMAIN toWriter' : toWriter'[j][1] = "pipe_term" => j = Len(toWriter') /\ reader_terminating'
  BY <1>2, <1>3
<1>5. ~writer_gone
  BY DEF PipeCommands
<1> QED BY <1>2, <1>4, <1>5 DEF PipeCommands

LEMMA FindNothingStep == ASSUME PipeInv, rollback_ok, Pi!FindNothing PROVE PipeInv'
<1>1. Pi!TypeOK /\ PipeModes /\ PipeCommands /\ PipeCounts /\ toWriter \in Seq(Pi!Command) /\ toReader \in Seq({"activate_reader", "pipe_term_ack"})
  BY DEF PipeInv, Pi!TypeOK
<1>2. /\ UNCHANGED <<created, pipe_partial, pipe_unflushed, pipe_flushed, swap, commit, rollback_ok, msgs_read, msgs_written>>
      /\ UNCHANGED <<swapping, pending_delimiter, writer_terminating, writer_gone, writer_active, last_written, toReader>>
      /\ UNCHANGED <<reader_read, reader_terminating, reader_gone, last_read, toWriter>> /\ pipe_reader' = "asleep" /\ reader_active' = FALSE
  BY DEF Pi!FindNothing, Pi!ypipe!Sleep, Pi!WriterUnchanged, Pi!writerVars, Pi!swapVars, Pi!countVars, Pi!modeVars
<1>3. Pi!TypeOK'
  BY <1>1, <1>2 DEF Pi!TypeOK, Pi!ypipe!QueueTypeOK, Pi!SwapSize
<1>4. PipeModes'
  BY <1>1, <1>2, ModesKept DEF PipeModes
<1>5. PipeCommands'
  BY <1>1, <1>2, CommandsKept
<1>6. PipeCounts'
  BY <1>1, <1>2, CountsKept
<1>7. ~reader_gone /\ rollback_ok => PipeChain'
  BY <1>2, ChainKept DEF PipeInv
<1> QED BY <1>2, <1>3, <1>4, <1>5, <1>6, <1>7 DEF PipeInv

LEMMA CloseReaderStep == ASSUME PipeInv, rollback_ok, Pi!CloseReader PROVE PipeInv'
<1>1. Pi!TypeOK /\ PipeModes /\ PipeCommands /\ PipeCounts /\ toWriter \in Seq(Pi!Command) /\ toReader \in Seq({"activate_reader", "pipe_term_ack"})
  BY DEF PipeInv, Pi!TypeOK
<1>2. /\ UNCHANGED <<created, pipe_partial, pipe_unflushed, pipe_flushed, pipe_reader, swap, commit, rollback_ok, msgs_read, msgs_written>>
      /\ UNCHANGED <<swapping, pending_delimiter, writer_terminating, writer_gone, writer_active, last_written, toReader>>
      /\ UNCHANGED <<reader_read, reader_gone, last_read>> /\ Pi!TerminateReader
  BY DEF Pi!CloseReader, Pi!ypipeVars, Pi!WriterUnchanged, Pi!writerVars, Pi!swapVars, Pi!countVars, Pi!modeVars
<1>3. PipeCommands' /\ toWriter' \in Seq(Pi!Command) /\ (toWriter' = toWriter \/ toWriter' = Append(toWriter, <<"pipe_term">>))
      /\ reader_active' \in BOOLEAN /\ reader_terminating' \in BOOLEAN
  <2>1. CASE reader_terminating
    <3>1. UNCHANGED <<reader_active, reader_terminating, toWriter>>
      BY <1>2, <2>1 DEF Pi!TerminateReader
    <3> QED BY <1>1, <1>2, <3>1, CommandsKept DEF Pi!TypeOK
  <2>2. CASE ~reader_terminating
    <3>1. reader_active' = FALSE /\ reader_terminating' = TRUE /\ toWriter' = Append(toWriter, <<"pipe_term">>)
      BY <1>2, <2>2 DEF Pi!TerminateReader
    <3>2. PipeCommands' /\ toWriter' \in Seq(Pi!Command)
      BY <1>1, <1>2, <2>2, <3>1, TermAppended
    <3> QED BY <3>1, <3>2
  <2> QED BY <2>1, <2>2
<1>4. Pi!TypeOK'
  BY <1>1, <1>2, <1>3 DEF Pi!TypeOK, Pi!ypipe!QueueTypeOK, Pi!SwapSize
<1>5. PipeModes'
  BY <1>1, <1>2, ModesKept DEF PipeModes
<1>6. PipeCounts'
  BY <1>1, <1>2, <1>3, CountsKept
<1>7. ~reader_gone /\ rollback_ok => PipeChain'
  BY <1>2, ChainKept DEF PipeInv
<1> QED BY <1>2, <1>3, <1>4, <1>5, <1>6, <1>7 DEF PipeInv

LEMMA ActivateReaderStep == ASSUME PipeInv, rollback_ok, Pi!ProcessActivateReader PROVE PipeInv'
<1>1. Pi!TypeOK /\ PipeModes /\ PipeCommands /\ PipeCounts /\ toWriter \in Seq(Pi!Command) /\ toReader \in Seq({"activate_reader", "pipe_term_ack"})
  BY DEF PipeInv, Pi!TypeOK
<1>2. /\ UNCHANGED <<created, pipe_partial, pipe_unflushed, pipe_flushed, swap, commit, rollback_ok, msgs_read, msgs_written>>
      /\ UNCHANGED <<swapping, pending_delimiter, writer_terminating, writer_gone, writer_active, last_written>>
      /\ UNCHANGED <<reader_read, reader_terminating, reader_gone, last_read, toWriter>> /\ pipe_reader' = "awake" /\ reader_active' = TRUE
      /\ toReader # <<>> /\ toReader' = Tail(toReader)
  BY DEF Pi!ProcessActivateReader, Pi!ypipe!Wake, Pi!writerVars, Pi!swapVars, Pi!countVars, Pi!modeVars
<1>3. Len(toReader) \in Nat \ {0} /\ toReader' \in Seq({"activate_reader", "pipe_term_ack"}) /\ Len(toReader') = Len(toReader) - 1
      /\ DOMAIN toReader = 1..Len(toReader) /\ DOMAIN toReader' = 1..Len(toReader) - 1 /\ \A j \in 1..Len(toReader) - 1 : toReader'[j] = toReader[j + 1]
  BY <1>1, <1>2
<1>4. Pi!TypeOK'
  BY <1>1, <1>2, <1>3 DEF Pi!TypeOK, Pi!ypipe!QueueTypeOK, Pi!SwapSize
<1>5. PipeModes'
  BY <1>1, <1>2, ModesKept DEF PipeModes
<1>6. PipeCommands'
  <2>1. \A j \in DOMAIN toReader' : toReader'[j] = "pipe_term_ack" => j = Len(toReader') /\ writer_gone
    <3> SUFFICES ASSUME NEW j \in 1..Len(toReader) - 1, toReader[j + 1] = "pipe_term_ack" PROVE j = Len(toReader) - 1 /\ writer_gone
      BY <1>3
    <3>1. j + 1 \in DOMAIN toReader /\ j \in Nat
      BY <1>3
    <3>2. j + 1 = Len(toReader) /\ writer_gone
      BY <1>1, <3>1 DEF PipeCommands
    <3> QED BY <1>3, <3>1, <3>2
  <2>2. ~reader_gone
    BY <1>1, <1>2 DEF PipeCommands
  <2> QED BY <1>1, <1>2, <2>1, <2>2 DEF PipeCommands
<1>7. PipeCounts'
  BY <1>1, <1>2, CountsKept
<1>8. ~reader_gone /\ rollback_ok => PipeChain'
  BY <1>2, ChainKept DEF PipeInv
<1> QED BY <1>2, <1>4, <1>5, <1>6, <1>7, <1>8 DEF PipeInv

LEMMA PipeTermStep == ASSUME PipeInv, rollback_ok, Pi!ProcessPipeTerm PROVE PipeInv'
<1>1. Pi!TypeOK /\ PipeModes /\ PipeCommands /\ PipeCounts /\ toWriter \in Seq(Pi!Command) /\ toReader \in Seq({"activate_reader", "pipe_term_ack"})
  BY DEF PipeInv, Pi!TypeOK
<1>2. /\ UNCHANGED <<created, pipe_partial, pipe_unflushed, pipe_flushed, pipe_reader, swap, commit, rollback_ok, msgs_read, msgs_written>>
      /\ UNCHANGED <<swapping, pending_delimiter, writer_terminating, writer_active, last_written>>
      /\ UNCHANGED <<reader_active, reader_read, reader_terminating, reader_gone, last_read>>
      /\ toWriter # <<>> /\ Head(toWriter)[1] = "pipe_term" /\ toWriter' = Tail(toWriter)
      /\ toReader' = Append(toReader, "pipe_term_ack") /\ writer_gone' = TRUE
  BY DEF Pi!ProcessPipeTerm, Pi!ypipeVars, Pi!readerVars, Pi!swapVars, Pi!countVars
<1>3. toWriter' = <<>> /\ reader_terminating /\ ~writer_gone /\ ~reader_gone
  <2>1. Len(toWriter) \in Nat \ {0} /\ Head(toWriter) = toWriter[1] /\ 1 \in DOMAIN toWriter /\ Len(toWriter') = Len(toWriter) - 1 /\ toWriter' \in Seq(Pi!Command)
    BY <1>1, <1>2
  <2>2. 1 = Len(toWriter) /\ reader_terminating
    BY <1>1, <1>2, <2>1 DEF PipeCommands
  <2>3. toWriter' = <<>>
    <3>0. Len(toWriter') = Len(toWriter) - 1 /\ Len(toWriter) = 1
      BY <2>1, <2>2, Zenon
    <3>1. Len(toWriter') = 0
      BY <3>0
    <3> QED BY <2>1, <3>1, EmptySeq
  <2> QED BY <1>1, <1>2, <2>2, <2>3 DEF PipeCommands
<1>4. Len(toReader) \in Nat /\ DOMAIN toReader' = 1..Len(toReader) + 1 /\ DOMAIN toReader = 1..Len(toReader) /\ Len(toReader') = Len(toReader) + 1
      /\ (\A j \in 1..Len(toReader) : toReader'[j] = toReader[j]) /\ toReader' \in Seq({"activate_reader", "pipe_term_ack"})
  BY <1>1, <1>2
<1>5. Pi!TypeOK'
  BY <1>1, <1>2, <1>3, <1>4, EmptySeq DEF Pi!TypeOK, Pi!ypipe!QueueTypeOK, Pi!SwapSize
<1>6. PipeModes'
  BY <1>1, <1>2, ModesKept DEF PipeModes
<1>7. PipeCommands'
  <2>1. \A j \in DOMAIN toReader' : toReader'[j] = "pipe_term_ack" => j = Len(toReader')
    <3>1. \A j \in 1..Len(toReader) : toReader[j] # "pipe_term_ack"
      BY <1>1, <1>3, <1>4 DEF PipeCommands
    <3> QED BY <1>4, <3>1
  <2> QED BY <1>2, <1>3, <2>1 DEF PipeCommands
<1>8. PipeCounts'
  <2>1. /\ Hits(pipe_flushed, Ends)' = Hits(pipe_flushed, Ends) /\ Hits(pipe_unflushed, Ends)' = Hits(pipe_unflushed, Ends)
        /\ Hits(swap, Ends)' = Hits(swap, Ends) /\ Pi!LastComplete' = Pi!LastComplete /\ Pi!hwm' = Pi!hwm /\ Pi!More(last_written)' = Pi!More(last_written)
    BY <1>2 DEF Hits, Places, Ends, Pi!LastComplete, Pi!More, Pi!hwm
  <2> QED BY <1>1, <1>2, <1>3, <2>1 DEF PipeCounts
<1>9. ~reader_gone /\ rollback_ok => PipeChain'
  BY <1>2, ChainKept DEF PipeInv
<1> QED BY <1>2, <1>5, <1>6, <1>7, <1>8, <1>9 DEF PipeInv

LEMMA PipeTermAckStep == ASSUME PipeInv, rollback_ok, Pi!ProcessPipeTermAck PROVE PipeInv'
<1>1. Pi!TypeOK /\ PipeModes /\ PipeCommands /\ PipeCounts /\ toWriter \in Seq(Pi!Command) /\ toReader \in Seq({"activate_reader", "pipe_term_ack"})
  BY DEF PipeInv, Pi!TypeOK
<1>2. /\ UNCHANGED <<created, pipe_reader, swap, commit, rollback_ok, msgs_read, msgs_written>>
      /\ UNCHANGED <<swapping, pending_delimiter, writer_terminating, writer_gone, writer_active, last_written>>
      /\ UNCHANGED <<reader_active, reader_read, reader_terminating, last_read, toWriter>>
      /\ toReader # <<>> /\ Head(toReader) = "pipe_term_ack" /\ toReader' = Tail(toReader) /\ reader_gone' = TRUE
      /\ pipe_partial' = <<>> /\ pipe_unflushed' = <<>> /\ pipe_flushed' = <<>>
  BY DEF Pi!ProcessPipeTermAck, Pi!writerVars, Pi!swapVars, Pi!countVars, Pi!modeVars
<1>3. toReader' = <<>> /\ writer_gone
  <2>1. Len(toReader) \in Nat \ {0} /\ Head(toReader) = toReader[1] /\ 1 \in DOMAIN toReader /\ Len(toReader') = Len(toReader) - 1
        /\ toReader' \in Seq({"activate_reader", "pipe_term_ack"})
    BY <1>1, <1>2
  <2>2. 1 = Len(toReader) /\ writer_gone
    BY <1>1, <1>2, <2>1 DEF PipeCommands
  <2>3. toReader' = <<>>
    <3>0. Len(toReader') = Len(toReader) - 1 /\ Len(toReader) = 1
      BY <2>1, <2>2, Zenon
    <3>1. Len(toReader') = 0
      BY <3>0
    <3> QED BY <2>1, <3>1, EmptySeq
  <2> QED BY <2>2, <2>3
<1>4. Pi!TypeOK'
  <2>1. Pi!ypipe!QueueTypeOK'
    BY <1>1, <1>2, EmptySeq DEF Pi!TypeOK, Pi!ypipe!QueueTypeOK
  <2> QED BY <1>1, <1>2, <1>3, <2>1, EmptySeq DEF Pi!TypeOK, Pi!SwapSize
<1>5. PipeModes'
  BY <1>1, <1>2, EmptySeq DEF PipeModes, Pi!hwm, Pi!More
<1>6. PipeCommands'
  BY <1>1, <1>2, <1>3 DEF PipeCommands
<1>7. PipeCounts'
  <2>1. /\ Hits(swap, Ends)' = Hits(swap, Ends) /\ Pi!LastComplete' = Pi!LastComplete /\ Pi!hwm' = Pi!hwm /\ Pi!More(last_written)' = Pi!More(last_written)
    BY <1>2 DEF Hits, Places, Ends, Pi!LastComplete, Pi!More, Pi!hwm
  <2> QED BY <1>1, <1>2, <2>1 DEF PipeCounts
<1> QED BY <1>2, <1>4, <1>5, <1>6, <1>7 DEF PipeInv

LEMMA FirstRead ==
  ASSUME NEW X, NEW e \in X, NEW s \in Seq(X)
  PROVE  Tail(<<e>> \o s) = s /\ (<<e>> \o s)[1] = e /\ Len(<<e>> \o s) = Len(s) + 1 /\ \A j \in 1..Len(s) : (<<e>> \o s)[j + 1] = s[j]
<1> DEFINE one == <<e>>
           v == one \o s
<1>1. one \in Seq(X) /\ Len(one) = 1 /\ one[1] = e /\ Len(s) \in Nat
  OBVIOUS
<1> HIDE DEF one
<1>2. v \in Seq(X) /\ Len(v) = Len(s) + 1 /\ \A i \in 1..1 + Len(s) : v[i] = IF i <= 1 THEN one[i] ELSE s[i - 1]
  <2>1. v \in Seq(X) /\ Len(v) = Len(one) + Len(s) /\ \A i \in 1..Len(one) + Len(s) : v[i] = IF i <= Len(one) THEN one[i] ELSE s[i - Len(one)]
    BY <1>1, ConcatProperties
  <2> HIDE DEF v
  <2>2. Len(v) = 1 + Len(s) /\ \A i \in 1..1 + Len(s) : v[i] = IF i <= 1 THEN one[i] ELSE s[i - 1]
    BY <1>1, <2>1, Zenon
  <2> QED BY <1>1, <2>1, <2>2
<1> HIDE DEF v
<1>3. v[1] = e /\ \A j \in 1..Len(s) : v[j + 1] = s[j]
  <2>1. \A j \in 1..Len(s) : j + 1 \in 1..1 + Len(s) /\ ~(j + 1 <= 1) /\ (j + 1) - 1 = j
    BY <1>1
  <2>2. 1 \in 1..1 + Len(s)
    BY <1>1
  <2>3. v[1] = one[1]
    BY <1>2, <2>2
  <2>4. \A j \in 1..Len(s) : v[j + 1] = s[(j + 1) - 1]
    BY <1>2, <2>1
  <2> QED BY <1>1, <2>1, <2>3, <2>4
<1>4. v # <<>>
  BY <1>1, <1>2, EmptySeq
<1>5. Tail(v) \in Seq(X) /\ Len(Tail(v)) = Len(v) - 1 /\ \A i \in 1..Len(Tail(v)) : Tail(v)[i] = v[i + 1]
  BY <1>2, <1>4, HeadTailProperties
<1>6. Len(Tail(v)) = Len(s) /\ \A i \in 1..Len(s) : Tail(v)[i] = s[i]
  BY <1>1, <1>2, <1>3, <1>5
<1>7. Tail(v) = s
  BY <1>5, <1>6, SeqEqual
<1> QED BY <1>2, <1>3, <1>7 DEF v, one

LEMMA HeadAndTail ==
  ASSUME NEW X, NEW s \in Seq(X), s # <<>>
  PROVE  s = <<Head(s)>> \o Tail(s) /\ Head(s) \in X /\ Tail(s) \in Seq(X) /\ Head(s) = s[1]
<1> DEFINE e == Head(s)
           r == Tail(s)
           v == <<e>> \o r
<1>1. e \in X /\ r \in Seq(X) /\ Len(r) = Len(s) - 1 /\ Len(s) \in Nat \ {0} /\ e = s[1] /\ \A i \in 1..Len(r) : r[i] = s[i + 1]
  BY HeadTailProperties, EmptySeq
<1> HIDE DEF e, r
<1>2. v \in Seq(X) /\ v[1] = e /\ Len(v) = Len(r) + 1 /\ \A j \in 1..Len(r) : v[j + 1] = r[j]
  BY <1>1, FirstRead, ConcatProperties
<1> HIDE DEF v
<1>3. \A i \in 1..Len(s) : v[i] = s[i]
  <2> SUFFICES ASSUME NEW i \in 1..Len(s) PROVE v[i] = s[i]
    OBVIOUS
  <2>1. CASE i = 1
    BY <1>1, <1>2, <2>1
  <2>2. CASE i # 1
    <3>1. i - 1 \in 1..Len(r) /\ (i - 1) + 1 = i
      BY <1>1, <2>2
    <3>2. v[(i - 1) + 1] = r[i - 1] /\ r[i - 1] = s[(i - 1) + 1]
      BY <1>1, <1>2, <3>1
    <3> QED BY <3>1, <3>2
  <2> QED BY <2>1, <2>2
<1>4. v = s
  BY <1>1, <1>2, <1>3, SeqEqual
<1> QED BY <1>1, <1>4 DEF v, e, r

LEMMA PartRead ==
  ASSUME NEW l \in Item, NEW f \in Seq(Item), NEW r \in Seq(Item), f # <<>>
  PROVE  Tail(<<l>> \o (f \o r)) = <<Head(f)>> \o (Tail(f) \o r) /\ (<<l>> \o (f \o r))[1] = l /\ (<<l>> \o (f \o r))[2] = Head(f)
<1> DEFINE h == Head(f)
           t == Tail(f)
           one == <<h>>
           fr == f \o r
<1>1. h \in Item /\ t \in Seq(Item) /\ one \in Seq(Item) /\ fr \in Seq(Item) /\ f = one \o t /\ t \o r \in Seq(Item)
  BY HeadAndTail, ConcatProperties
<1>2. Tail(<<l>> \o fr) = fr /\ (<<l>> \o fr)[1] = l /\ Len(<<l>> \o fr) = Len(fr) + 1 /\ \A j \in 1..Len(fr) : (<<l>> \o fr)[j + 1] = fr[j]
  BY <1>1, FirstRead
<1> HIDE DEF h, t, one
<1>3. fr = one \o (t \o r)
  <2>1. Cat(Cat(one, t), r) = Cat(one, Cat(t, r))
    BY <1>1, CatFacts
  <2>2. fr = Cat(Cat(one, t), r)
    BY <1>1 DEF Cat
  <2> QED BY <2>1, <2>2 DEF Cat
<1> HIDE DEF fr
<1>4. fr[1] = h /\ 1 \in 1..Len(fr)
  <2> DEFINE tr == t \o r
  <2>1. tr \in Seq(Item)
    BY <1>1
  <2> HIDE DEF tr
  <2>2. (<<h>> \o tr)[1] = h /\ Len(<<h>> \o tr) = Len(tr) + 1 /\ Len(tr) \in Nat
    BY <1>1, <2>1, FirstRead
  <2>3. fr = <<h>> \o tr
    BY <1>3 DEF tr, one
  <2> QED BY <2>2, <2>3
<1>5. (<<l>> \o fr)[2] = h
  <2>1. (<<l>> \o fr)[1 + 1] = fr[1]
    BY <1>2, <1>4
  <2> QED BY <1>4, <2>1
<1> QED BY <1>2, <1>3, <1>5 DEF fr, h, t, one

LEMMA FindDelimiterStep == ASSUME PipeInv, rollback_ok, Pi!FindDelimiter PROVE PipeInv'
<1>1. Pi!TypeOK /\ PipeModes /\ PipeCommands /\ PipeCounts /\ toWriter \in Seq(Pi!Command) /\ toReader \in Seq({"activate_reader", "pipe_term_ack"})
  BY DEF PipeInv, Pi!TypeOK
<1>2. /\ UNCHANGED <<created, pipe_partial, pipe_unflushed, pipe_reader, swap, commit, rollback_ok, msgs_read, msgs_written>>
      /\ UNCHANGED <<swapping, pending_delimiter, writer_terminating, writer_gone, writer_active, last_written, toReader>>
      /\ UNCHANGED <<reader_read, reader_gone, last_read>>
      /\ ~reader_gone /\ ~reader_terminating /\ pipe_flushed # <<>> /\ Head(pipe_flushed) = Delimiter /\ pipe_flushed' = Tail(pipe_flushed)
      /\ reader_active' = FALSE /\ reader_terminating' = TRUE /\ toWriter' = Append(toWriter, <<"pipe_term">>)
  BY DEF Pi!FindDelimiter, Pi!Reading, Pi!ypipe!Read, Pi!TerminateReader, Pi!WriterUnchanged, Pi!writerVars, Pi!swapVars, Pi!countVars, Pi!modeVars
<1>3. PipeCommands' /\ toWriter' \in Seq(Pi!Command)
  BY <1>1, <1>2, TermAppended
<1>4. PipeChain
  BY <1>2 DEF PipeInv
<1>5. /\ last_read \in Item /\ pipe_flushed \in Seq(Item) /\ pipe_unflushed \in Seq(Item)
      /\ last_read # Delimiter /\ pipe_flushed \in Seq(Pi!Part \union {Delimiter})
  BY <1>1, PipeTypes, PartFields DEF Pi!TypeOK, Pi!ypipe!QueueTypeOK
<1>6. Pi!TypeOK'
  <2>1. pipe_flushed' \in Seq(Pi!Part \union {Delimiter})
    BY <1>2, <1>5, HeadTailProperties
  <2>2. Pi!ypipe!QueueTypeOK'
    BY <1>1, <1>2, <2>1 DEF Pi!TypeOK, Pi!ypipe!QueueTypeOK
  <2> QED BY <1>1, <1>2, <1>3, <2>2 DEF Pi!TypeOK, Pi!SwapSize
<1>7. PipeModes'
  BY <1>1, <1>2, ModesKept DEF PipeModes
<1>8. PipeCounts'
  <2>1. Hits(pipe_flushed', Ends) = Hits(pipe_flushed, Ends)
    <3>1. Delimiter \notin Ends
      BY PipeFacts DEF Ends
    <3>2. Hits(Tail(pipe_flushed), Ends) = Hits(pipe_flushed, Ends) - 0 /\ Hits(pipe_flushed, Ends) \in Nat
      BY <1>2, <1>5, <3>1, HitsTail, HitsType
    <3> QED BY <1>2, <3>2
  <2>2. /\ Hits(pipe_flushed, Ends)' = Hits(pipe_flushed', Ends) /\ Hits(pipe_unflushed, Ends)' = Hits(pipe_unflushed, Ends)
        /\ Hits(swap, Ends)' = Hits(swap, Ends) /\ Pi!LastComplete' = Pi!LastComplete /\ Pi!hwm' = Pi!hwm /\ Pi!More(last_written)' = Pi!More(last_written)
    BY <1>2 DEF Hits, Places, Ends, Pi!LastComplete, Pi!More, Pi!hwm
  <2>3. \A j \in DOMAIN toWriter' : toWriter'[j][1] = "activate_writer" => msgs_read <= toWriter'[j][2] /\ toWriter'[j][2] <= reader_read
    <3>1. Len(toWriter) \in Nat /\ DOMAIN toWriter' = 1..Len(toWriter) + 1 /\ toWriter'[Len(toWriter) + 1] = <<"pipe_term">> /\ DOMAIN toWriter = 1..Len(toWriter)
          /\ \A j \in 1..Len(toWriter) : toWriter'[j] = toWriter[j]
      BY <1>1, <1>2
    <3> QED BY <1>1, <3>1 DEF PipeCounts
  <2>4. \A i, j \in DOMAIN toWriter' : i <= j /\ toWriter'[j][1] = "activate_writer" => toWriter'[i][2] <= toWriter'[j][2]
    <3>1. Len(toWriter) \in Nat /\ DOMAIN toWriter' = 1..Len(toWriter) + 1 /\ toWriter'[Len(toWriter) + 1] = <<"pipe_term">> /\ DOMAIN toWriter = 1..Len(toWriter)
          /\ \A j \in 1..Len(toWriter) : toWriter'[j] = toWriter[j]
      BY <1>1, <1>2
    <3>2. \A i, j \in DOMAIN toWriter' : i <= j /\ toWriter'[j][1] = "activate_writer" => i \in DOMAIN toWriter /\ j \in DOMAIN toWriter
      BY <3>1
    <3> QED BY <1>1, <3>1, <3>2 DEF PipeCounts
  <2> QED BY <1>1, <1>2, <2>1, <2>2, <2>3, <2>4 DEF PipeCounts
<1>9. PipeChain'
  <2> DEFINE x == SubSeq(swap, 1, Kept)
             r == pipe_unflushed \o x
             f == pipe_flushed
             l == last_read
             fr == f \o r
             t == Tail(f)
             tr == t \o r
             w == Whole
             b == Broken
             wb == w \o b
  <2>1. r \in Seq(Item) /\ fr \in Seq(Item) /\ w \in Seq(Item) /\ b \in Seq(Item) /\ w = <<l>> \o fr
    BY <1>1, WholeTypes DEF Whole, WholeOf
  <2>2. l \in Item /\ f \in Seq(Item) /\ f # <<>> /\ t \in Seq(Item) /\ Len(t) = Len(f) - 1 /\ Len(f) \in Nat \ {0}
    BY <1>2, <1>5, HeadTailProperties, EmptySeq
  <2>3. Whole' = <<l>> \o tr /\ Broken' = b
    BY <1>2 DEF Whole, WholeOf, Broken, Kept
  <2>4. w[1] = l /\ w[2] = Delimiter
    BY <1>2, <2>1, <2>2, PartRead
  <2>5. Len(w) = Len(fr) + 1
    <3> HIDE DEF fr
    <3> QED BY <2>1, <2>2, FirstRead
  <2>6. Len(fr) = Len(f) + Len(r) /\ Len(r) \in Nat
    BY <2>1, <2>2, ConcatProperties
  <2>7. Chained(wb) /\ (w[Len(w)] = Delimiter => writer_terminating)
    BY <1>4 DEF PipeChain
  <2> HIDE DEF w, b, f, r, l, t, fr
  <2>8. wb \in Seq(Item) /\ Len(wb) = Len(w) + Len(b) /\ Len(b) \in Nat /\ wb[1] = l /\ wb[2] = Delimiter
    <3>1. wb \in Seq(Item) /\ Len(wb) = Len(w) + Len(b) /\ \A i \in 1..Len(w) + Len(b) : wb[i] = IF i <= Len(w) THEN w[i] ELSE b[i - Len(w)]
      BY <2>1, ConcatProperties
    <3>2. Len(b) \in Nat /\ Len(w) \in Nat /\ 2 <= Len(w)
      BY <2>1, <2>2, <2>5, <2>6
    <3> HIDE DEF wb
    <3>3. 1 \in 1..Len(w) + Len(b) /\ 2 \in 1..Len(w) + Len(b) /\ 1 <= Len(w) /\ 2 <= Len(w)
      BY <3>2
    <3> QED BY <2>4, <3>1, <3>2, <3>3
  <2> HIDE DEF wb
  <2>9. ~Pi!More(l) /\ Len(wb) = 2
    <3>1. Len(wb) \in Nat /\ Len(wb) >= 2
      BY <2>2, <2>5, <2>6, <2>8
    <3>2. Pi!Follows(wb[1 + 1], wb[1])
      <4>1. 1 \in 1..Len(wb) - 1
        BY <3>1
      <4> QED BY <2>7, <4>1 DEF Chained
    <3>3. Len(wb) > 2 => Pi!Follows(wb[2 + 1], wb[2])
      <4>1. Len(wb) > 2 => 2 \in 1..Len(wb) - 1
        BY <3>1
      <4> QED BY <2>7, <4>1 DEF Chained
    <3>4. ~Pi!More(l)
      <4>1. Pi!Follows(Delimiter, l)
        BY <2>8, <3>2
      <4> QED BY <4>1 DEF Pi!Follows
    <3>5. ~(Len(wb) > 2)
      <4>1. ~Pi!Follows(wb[2 + 1], Delimiter)
        BY DEF Pi!Follows
      <4> QED BY <2>8, <3>3, <4>1
    <3>6. Len(wb) = 2
      BY <3>1, <3>5
    <3> QED BY <3>4, <3>6, Zenon
  <2>10. Len(t) = 0 /\ Len(r) = 0 /\ Len(b) = 0 /\ Len(w) = 2
    <3>1. Len(wb) = 2 /\ Len(wb) = Len(w) + Len(b) /\ Len(b) \in Nat
      BY <2>8, <2>9, Zenon
    <3>2. Len(w) = Len(f) + Len(r) + 1 /\ Len(r) \in Nat /\ Len(f) \in Nat /\ Len(f) # 0 /\ Len(t) = Len(f) - 1
      BY <2>2, <2>5, <2>6
    <3>3. \A lw, lb, lf, lr \in Nat : lw + lb = 2 /\ lw = lf + lr + 1 /\ lf # 0 => lf = 1 /\ lr = 0 /\ lb = 0 /\ lw = 2
      OBVIOUS
    <3>4. Len(w) \in Nat
      BY <3>2
    <3>5. Len(f) = 1 /\ Len(r) = 0 /\ Len(b) = 0 /\ Len(w) = 2
      BY <3>1, <3>2, <3>3, <3>4
    <3> QED BY <3>2, <3>5
  <2>11. t = <<>> /\ r = <<>> /\ b = <<>> /\ writer_terminating
    BY <2>1, <2>2, <2>4, <2>7, <2>10, EmptySeq
  <2>12. Whole' = <<l>> /\ Broken' = <<>>
    <3>1. <<>> \o <<>> = <<>> /\ <<l>> \o <<>> = <<l>>
      BY <2>2, ConcatEmptySeq, EmptySeq
    <3> QED BY <2>3, <2>11, <3>1
  <2>13. Chained(Whole \o Broken)'
    <3>1. <<l>> \o <<>> = <<l>>
      BY <2>2, ConcatEmptySeq
    <3>2. Chained(<<l>>)
      BY DEF Chained
    <3> QED BY <2>12, <3>1, <3>2 DEF Chained
  <2>14. Closed(pipe_flushed)' /\ Closed(pipe_unflushed)'
    BY <1>2, <1>4, <2>11 DEF PipeChain, Closed, t, f
  <2>15. Whole'[Len(Whole')] = l /\ l # Delimiter
    BY <1>5, <2>12 DEF l
  <2> QED BY <1>2, <2>9, <2>11, <2>12, <2>13, <2>14, <2>15 DEF PipeChain
<1> QED BY <1>2, <1>3, <1>6, <1>7, <1>8, <1>9 DEF PipeInv

LEMMA ClosedTail ==
  ASSUME NEW X, NEW s \in Seq(X), s # <<>>, Closed(s)
  PROVE  Closed(Tail(s))
<1> DEFINE r == Tail(s)
<1>1. r \in Seq(X) /\ Len(r) = Len(s) - 1 /\ Len(s) \in Nat \ {0} /\ \A i \in 1..Len(r) : r[i] = s[i + 1]
  BY HeadTailProperties, EmptySeq
<1> HIDE DEF r
<1>2. CASE r # <<>>
  <2>1. Len(r) \in 1..Len(r) /\ Len(r) + 1 = Len(s)
    BY <1>1, <1>2, EmptySeq
  <2>2. r[Len(r)] = s[Len(s)]
    BY <1>1, <2>1
  <2> QED BY <2>2 DEF Closed, r
<1>3. CASE r = <<>>
  BY <1>3 DEF Closed, r
<1> QED BY <1>2, <1>3

\* The reader's count goes up and may be sent.
LEMMA CountSent ==
  ASSUME PipeInv, ~reader_terminating, ~reader_gone, NEW n \in Nat, reader_read' \in 0..MaxMessages, reader_read <= reader_read', reader_read' <= msgs_written,
         toWriter' = (IF n > 0 /\ reader_read' % n = 0 THEN Append(toWriter, <<"activate_writer", reader_read'>>) ELSE toWriter),
         UNCHANGED <<toReader, reader_terminating, writer_gone, reader_gone, msgs_read, msgs_written>>
  PROVE  /\ PipeCommands' /\ toWriter' \in Seq(Pi!Command)
         /\ \A j \in DOMAIN toWriter' : toWriter'[j][1] = "activate_writer" => msgs_read <= toWriter'[j][2] /\ toWriter'[j][2] <= reader_read'
         /\ \A i, j \in DOMAIN toWriter' : i <= j /\ toWriter'[j][1] = "activate_writer" => toWriter'[i][2] <= toWriter'[j][2]
<1>1. Pi!TypeOK /\ PipeModes /\ PipeCommands /\ PipeCounts /\ toWriter \in Seq(Pi!Command)
  BY DEF PipeInv, Pi!TypeOK
<1>2. {reader_read, msgs_read, reader_read'} \subseteq Nat /\ msgs_read <= reader_read
  BY <1>1, PipeFacts DEF Pi!TypeOK, PipeCounts
<1>3. \A j \in DOMAIN toWriter : toWriter[j] \in Pi!Command /\ toWriter[j][1] = "activate_writer" /\ toWriter[j][2] \in Nat /\ toWriter[j][2] <= reader_read
  <2> SUFFICES ASSUME NEW j \in DOMAIN toWriter PROVE toWriter[j] \in Pi!Command /\ toWriter[j][1] = "activate_writer" /\ toWriter[j][2] \in Nat /\ toWriter[j][2] <= reader_read
    OBVIOUS
  <2>1. toWriter[j] \in Pi!Command
    BY <1>1
  <2>2. toWriter[j][1] # "pipe_term"
    BY <1>1 DEF PipeCommands
  <2>3. toWriter[j][1] = "activate_writer" /\ toWriter[j][2] \in 0..MaxMessages
    BY <2>1, <2>2 DEF Pi!Command
  <2>4. toWriter[j][2] <= reader_read
    BY <1>1, <2>3 DEF PipeCounts
  <2> QED BY <2>1, <2>3, <2>4, PipeFacts
<1>4. ~writer_gone
  BY <1>1 DEF PipeCommands
<1>5. CASE toWriter' = toWriter
  <2>1. PipeCommands'
    BY <1>1, <1>5 DEF PipeCommands
  <2>2. \A j \in DOMAIN toWriter : toWriter[j][2] <= reader_read'
    BY <1>2, <1>3
  <2> QED BY <1>1, <1>5, <2>1, <2>2 DEF PipeCounts
<1>6. CASE toWriter' = Append(toWriter, <<"activate_writer", reader_read'>>)
  <2> DEFINE c == <<"activate_writer", reader_read'>>
  <2>1. c \in Pi!Command /\ c[1] = "activate_writer" /\ c[2] = reader_read'
    BY DEF Pi!Command
  <2> HIDE DEF c
  <2>2. toWriter' = Append(toWriter, c)
    BY <1>6 DEF c
  <2> DEFINE n0 == Len(toWriter)
  <2>3. /\ toWriter' \in Seq(Pi!Command) /\ n0 \in Nat /\ Len(toWriter') = n0 + 1 /\ toWriter'[n0 + 1] = c
        /\ \A j \in 1..n0 : toWriter'[j] = toWriter[j]
    <3>1. Append(toWriter, c) \in Seq(Pi!Command) /\ Len(Append(toWriter, c)) = Len(toWriter) + 1
          /\ (\A i \in 1..Len(toWriter) : Append(toWriter, c)[i] = toWriter[i]) /\ Append(toWriter, c)[Len(toWriter) + 1] = c
      BY <1>1, <2>1, AppendProperties
    <3>2. Len(toWriter) \in Nat
      BY <1>1
    <3> QED BY <2>2, <3>1, <3>2, Zenon
  <2>a. DOMAIN toWriter' = 1..n0 + 1 /\ DOMAIN toWriter = 1..n0
    <3>1. DOMAIN toWriter' = 1..Len(toWriter')
      BY <2>3, LenProperties
    <3>2. DOMAIN toWriter = 1..Len(toWriter)
      BY <1>1
    <3> QED BY <2>3, <3>1, <3>2
  <2> HIDE DEF n0
  <2>b. \A j \in 1..n0 + 1 : j = n0 + 1 \/ j \in 1..n0
    BY <2>3
  <2>c. \A j \in DOMAIN toWriter' : (j = n0 + 1 /\ toWriter'[j] = c) \/ (j \in DOMAIN toWriter /\ toWriter'[j] = toWriter[j])
    BY <2>3, <2>a, <2>b
  <2>4. \A j \in DOMAIN toWriter' : toWriter'[j][1] # "pipe_term"
    <3> SUFFICES ASSUME NEW j \in DOMAIN toWriter' PROVE toWriter'[j][1] # "pipe_term"
      OBVIOUS
    <3>1. CASE toWriter'[j] = c
      BY <2>1, <3>1
    <3>2. CASE j \in DOMAIN toWriter /\ toWriter'[j] = toWriter[j]
      BY <1>3, <3>2
    <3> QED BY <2>c, <3>1, <3>2
  <2>5. PipeCommands'
    <3>1. \A j \in DOMAIN toReader : toReader[j] = "pipe_term_ack" => j = Len(toReader) /\ writer_gone
      BY <1>1 DEF PipeCommands
    <3> QED BY <1>4, <2>4, <3>1 DEF PipeCommands
  <2>6. \A j \in DOMAIN toWriter' : msgs_read <= toWriter'[j][2] /\ toWriter'[j][2] <= reader_read'
    <3> SUFFICES ASSUME NEW j \in DOMAIN toWriter' PROVE msgs_read <= toWriter'[j][2] /\ toWriter'[j][2] <= reader_read'
      OBVIOUS
    <3>1. CASE toWriter'[j] = c
      <4>1. msgs_read <= reader_read' /\ reader_read' <= reader_read'
        BY <1>2
      <4> QED BY <2>1, <3>1, <4>1
    <3>2. CASE j \in DOMAIN toWriter /\ toWriter'[j] = toWriter[j]
      <4>1. msgs_read <= toWriter[j][2] /\ toWriter[j][2] <= reader_read /\ toWriter[j][2] \in Nat
        BY <1>1, <1>3, <3>2 DEF PipeCounts
      <4> DEFINE m == toWriter[j][2]
      <4>2. m \in Nat /\ msgs_read <= m /\ m <= reader_read /\ toWriter'[j][2] = m
        BY <3>2, <4>1
      <4> HIDE DEF m
      <4>3. m <= reader_read'
        BY <1>2, <4>2
      <4> QED BY <4>2, <4>3
    <3> QED BY <2>c, <3>1, <3>2
  <2>7. \A i, j \in DOMAIN toWriter' : i <= j => toWriter'[i][2] <= toWriter'[j][2]
    <3> SUFFICES ASSUME NEW i \in DOMAIN toWriter', NEW j \in DOMAIN toWriter', i <= j PROVE toWriter'[i][2] <= toWriter'[j][2]
      OBVIOUS
    <3>1. CASE toWriter'[j] = c
      BY <2>1, <2>6, <3>1
    <3>2. CASE j \in DOMAIN toWriter /\ toWriter'[j] = toWriter[j]
      <4>1. i # n0 + 1
        BY <2>3, <2>a, <3>2
      <4>2. i \in DOMAIN toWriter /\ toWriter'[i] = toWriter[i]
        BY <2>c, <4>1
      <4> QED BY <1>1, <1>3, <3>2, <4>2 DEF PipeCounts
    <3> QED BY <2>c, <3>1, <3>2
  <2> QED BY <2>3, <2>5, <2>6, <2>7
<1> QED BY <1>5, <1>6

LEMMA ReadPartStep == ASSUME PipeInv, rollback_ok, Pi!ReadPart PROVE PipeInv'
<1> DEFINE h == Head(pipe_flushed)
<1>1. Pi!TypeOK /\ PipeModes /\ PipeCommands /\ PipeCounts /\ toWriter \in Seq(Pi!Command) /\ toReader \in Seq({"activate_reader", "pipe_term_ack"})
  BY DEF PipeInv, Pi!TypeOK
<1>2. /\ UNCHANGED <<created, pipe_partial, pipe_unflushed, pipe_reader, swap, commit, rollback_ok, msgs_read, msgs_written>>
      /\ UNCHANGED <<swapping, pending_delimiter, writer_terminating, writer_gone, writer_active, last_written, toReader>>
      /\ UNCHANGED <<reader_active, reader_terminating, reader_gone>>
      /\ ~reader_gone /\ ~reader_terminating /\ pipe_flushed # <<>> /\ h # Delimiter /\ pipe_flushed' = Tail(pipe_flushed)
      /\ last_read' = h /\ reader_read' = (IF Pi!More(h) THEN reader_read ELSE reader_read + 1)
      /\ toWriter' = (IF Pi!lwm > 0 /\ reader_read' % Pi!lwm = 0 THEN Append(toWriter, <<"activate_writer", reader_read'>>) ELSE toWriter)
  BY DEF Pi!ReadPart, Pi!Reading, Pi!ypipe!Read, Pi!WriterUnchanged, Pi!writerVars, Pi!swapVars, Pi!countVars, Pi!modeVars
<1>3. PipeChain
  BY <1>2 DEF PipeInv
<1>4. /\ last_read \in Item /\ pipe_flushed \in Seq(Item) /\ pipe_unflushed \in Seq(Item)
      /\ last_read # Delimiter /\ pipe_flushed \in Seq(Pi!Part \union {Delimiter}) /\ pipe_unflushed \in Seq(Pi!Part)
  BY <1>1, PipeTypes, PartFields DEF Pi!TypeOK, Pi!ypipe!QueueTypeOK, PipeModes
<1>5. h \in Pi!Part /\ pipe_flushed' \in Seq(Pi!Part \union {Delimiter}) /\ (h \in Ends <=> ~Pi!More(h))
  <2>1. h \in Pi!Part \union {Delimiter} /\ pipe_flushed' \in Seq(Pi!Part \union {Delimiter})
    BY <1>2, <1>4, HeadTailProperties
  <2> QED BY <1>2, <2>1 DEF Ends
<1> HIDE DEF h
<1>6. Hits(pipe_flushed', Ends) = Hits(pipe_flushed, Ends) - (IF Pi!More(h) THEN 0 ELSE 1) /\ Hits(pipe_flushed, Ends) \in Nat
      /\ Hits(pipe_flushed', Ends) \in Nat /\ Hits(pipe_unflushed, Ends) \in Nat
  <2>1. Hits(Tail(pipe_flushed), Ends) = Hits(pipe_flushed, Ends) - (IF h \in Ends THEN 1 ELSE 0)
    BY <1>2, <1>4, HitsTail DEF h
  <2>2. Hits(pipe_flushed, Ends) \in Nat /\ Hits(pipe_flushed', Ends) \in Nat /\ Hits(pipe_unflushed, Ends) \in Nat
    BY <1>4, <1>5, HitsType
  <2> QED BY <1>2, <1>5, <2>1, <2>2
<1>7. reader_read' + Hits(pipe_flushed', Ends) + Hits(pipe_unflushed, Ends) = msgs_written /\ {reader_read, msgs_written, msgs_read} \subseteq 0..MaxMessages
      /\ MaxMessages \in Nat
  <2>1. {reader_read, msgs_written, msgs_read} \subseteq 0..MaxMessages /\ MaxMessages \in Nat
    BY <1>1, PipeFacts DEF Pi!TypeOK
  <2>2. reader_read + Hits(pipe_flushed, Ends) + Hits(pipe_unflushed, Ends) = msgs_written
    BY <1>1, <1>2 DEF PipeCounts
  <2> QED BY <1>2, <1>6, <2>1, <2>2
<1>8. reader_read <= reader_read' /\ reader_read' <= msgs_written /\ reader_read' \in 0..MaxMessages
  <2>1. reader_read' \in Nat /\ reader_read <= reader_read'
    BY <1>2, <1>7
  <2> QED BY <1>6, <1>7, <2>1
<1>9. /\ PipeCommands' /\ toWriter' \in Seq(Pi!Command)
      /\ \A j \in DOMAIN toWriter' : toWriter'[j][1] = "activate_writer" => msgs_read <= toWriter'[j][2] /\ toWriter'[j][2] <= reader_read'
      /\ \A i, j \in DOMAIN toWriter' : i <= j /\ toWriter'[j][1] = "activate_writer" => toWriter'[i][2] <= toWriter'[j][2]
  <2>1. Pi!lwm \in Nat
    BY <1>1, KindFields
  <2> QED BY <1>2, <1>8, <2>1, CountSent
<1>10. Pi!TypeOK'
  <2>1. Pi!ypipe!QueueTypeOK'
    BY <1>1, <1>2, <1>5 DEF Pi!TypeOK, Pi!ypipe!QueueTypeOK
  <2> QED BY <1>1, <1>2, <1>5, <1>8, <1>9, <2>1 DEF Pi!TypeOK, Pi!SwapSize
<1>11. PipeModes'
  BY <1>1, <1>2, ModesKept DEF PipeModes
<1>12. PipeCounts'
  <2>1. /\ Hits(pipe_flushed, Ends)' = Hits(pipe_flushed', Ends) /\ Hits(pipe_unflushed, Ends)' = Hits(pipe_unflushed, Ends)
        /\ Hits(swap, Ends)' = Hits(swap, Ends) /\ Pi!LastComplete' = Pi!LastComplete /\ Pi!hwm' = Pi!hwm /\ Pi!More(last_written)' = Pi!More(last_written)
    BY <1>2 DEF Hits, Places, Ends, Pi!LastComplete, Pi!More, Pi!hwm
  <2>2. msgs_read <= reader_read'
    BY <1>1, <1>7, <1>8 DEF PipeCounts
  <2> QED BY <1>1, <1>2, <1>7, <1>8, <1>9, <2>1, <2>2 DEF PipeCounts
<1>13. PipeChain'
  <2> DEFINE x == SubSeq(swap, 1, Kept)
             r == pipe_unflushed \o x
             f == pipe_flushed
             l == last_read
             fr == f \o r
             w == Whole
             v == <<h>> \o (Tail(f) \o r)
             b == Broken
  <2>1. r \in Seq(Item) /\ fr \in Seq(Item) /\ w \in Seq(Item) /\ b \in Seq(Item) /\ w = <<l>> \o fr
    BY <1>1, WholeTypes DEF Whole, WholeOf
  <2>2. l \in Item /\ f \in Seq(Item) /\ f # <<>>
    BY <1>2, <1>4
  <2>3. Whole' = v /\ Broken' = b
    BY <1>2 DEF Whole, WholeOf, Broken, Kept
  <2>4. Tail(w) = v
    BY <2>1, <2>2, PartRead DEF h
  <2>5. Chained(w \o b) /\ LET q == w[Len(w)]
                            IN IF q = Delimiter THEN writer_terminating /\ ~swapping
                               ELSE ~Pi!More(q) /\ (~writer_terminating => q[1] = Pi!LastComplete[1])
    BY <1>3 DEF PipeChain
  <2>6. w = <<l>> \o v /\ v \in Seq(Item) /\ v # <<>>
    <3>1. Tail(w) = fr
      <4> HIDE DEF fr
      <4> QED BY <2>1, <2>2, FirstRead
    <3>2. fr # <<>>
      BY <2>1, <2>2, ConcatEqualIffEmpty
    <3> QED BY <2>1, <2>4, <3>1, <3>2
  <2> HIDE DEF w, b, f, r, l, fr, v
  <2>7. w[Len(w)] = v[Len(v)]
    <3> DEFINE one == <<l>>
    <3>1. one \in Seq(Item)
      BY <2>2
    <3> HIDE DEF one
    <3>2. (one \o v)[Len(one \o v)] = v[Len(v)]
      BY <2>6, <3>1, LastConcat
    <3> QED BY <2>6, <3>2 DEF one
  <2>8. Chained(v \o b)
    <3> DEFINE one == <<l>>
               vb == v \o b
    <3>1. one \in Seq(Item) /\ vb \in Seq(Item) /\ vb = Cat(v, b)
      BY <2>1, <2>2, <2>6, ConcatProperties DEF Cat
    <3> HIDE DEF vb
    <3>2. <<l>> \o vb \in Seq(Item) /\ Tail(<<l>> \o vb) = vb /\ <<l>> \o vb # <<>>
      <4>1. <<l>> \o vb \in Seq(Item) /\ <<l>> \o vb # <<>>
        BY <3>1, ConcatProperties, ConcatEqualIffEmpty
      <4> QED BY <2>2, <3>1, <4>1, FirstRead
    <3>3. w \o b = <<l>> \o vb
      <4> HIDE DEF one
      <4>1. Cat(Cat(one, v), b) = Cat(one, Cat(v, b))
        BY <2>1, <2>6, <3>1, CatFacts
      <4>2. w = Cat(one, v)
        BY <2>6 DEF Cat, one
      <4>3. Cat(w, b) = Cat(one, vb)
        BY <3>1, <4>1, <4>2
      <4> QED BY <4>3 DEF Cat, one
    <3>4. Chained(Tail(<<l>> \o vb))
      BY <2>5, <3>2, <3>3, ChainTail
    <3> QED BY <3>2, <3>4 DEF vb
  <2>9. Chained(Whole \o Broken)'
    BY <2>3, <2>8 DEF Chained
  <2>10. Closed(pipe_flushed)' /\ Closed(pipe_unflushed)'
    <3>1. Closed(Tail(pipe_flushed))
      BY <1>2, <1>3, <1>4, ClosedTail DEF PipeChain
    <3> QED BY <1>2, <1>3, <3>1 DEF PipeChain, Closed
  <2>11. Pi!LastComplete' = Pi!LastComplete /\ Pi!More(last_written)' = Pi!More(last_written) /\ Broken' = Broken
    BY <1>2, <2>3 DEF Pi!LastComplete, Pi!More, b
  <2> QED BY <1>2, <1>3, <2>3, <2>5, <2>7, <2>9, <2>10, <2>11 DEF PipeChain
<1> QED BY <1>2, <1>9, <1>10, <1>11, <1>12, <1>13 DEF PipeInv

(***************************************************************************)
(* The swap is moved into the pipe.                                        *)
(***************************************************************************)
\* The ends of messages among the first parts of the swap.
Ended(k) == Hits(SubSeq(swap, 1, k), Ends)

LEMMA Prefix ==
  ASSUME NEW k \in 0..Len(swap), swap \in Seq(Pi!Part)
  PROVE  /\ SubSeq(swap, 1, k) \in Seq(Pi!Part) /\ Len(SubSeq(swap, 1, k)) = k /\ \A i \in 1..k : SubSeq(swap, 1, k)[i] = swap[i]
         /\ Ended(k) \in Nat /\ Pi!Completed(SubSeq(swap, 1, k)) = Ended(k)
<1>1. 0 \in 0..Len(swap) /\ k \in 0..Len(swap) /\ 0 + 1 = 1 /\ k - 0 = k
  OBVIOUS
<1>2. SubSeq(swap, 0 + 1, k) \in Seq(Pi!Part) /\ Len(SubSeq(swap, 0 + 1, k)) = k - 0 /\ \A i \in 1..k - 0 : SubSeq(swap, 0 + 1, k)[i] = swap[0 + i]
  BY <1>1, Slice
<1> DEFINE s == SubSeq(swap, 1, k)
<1>3. s \in Seq(Pi!Part) /\ Len(s) = k /\ \A i \in 1..k : s[i] = swap[i]
  BY <1>1, <1>2
<1>4. Hits(s, Ends) \in Nat
  BY <1>3, HitsType
<1> HIDE DEF s
<1>5. {j \in DOMAIN s : ~Pi!More(s[j])} = Places(s, Ends)
  <2>1. \A j \in DOMAIN s : s[j] \in Pi!Part
    BY <1>3
  <2>2. \A j \in DOMAIN s : s[j] \in Ends <=> ~Pi!More(s[j])
    BY <2>1 DEF Ends
  <2>3. Places(s, Ends) = {j \in DOMAIN s : s[j] \in Ends}
    BY <1>3 DEF Places
  <2> QED BY <2>2, <2>3
<1>6. Pi!Completed(s) = Hits(s, Ends)
  <2>1. Pi!Completed(s) = Cardinality({j \in DOMAIN s : ~Pi!More(s[j])})
    BY DEF Pi!Completed, Pi!Cardinality, Cardinality
  <2> QED BY <1>5, <2>1 DEF Hits
<1> QED BY <1>3, <1>4, <1>6 DEF s, Ended

LEMMA OneMoreEnded ==
  ASSUME NEW k \in 1..Len(swap), swap \in Seq(Pi!Part)
  PROVE  Ended(k) = Ended(k - 1) + (IF Pi!More(swap[k]) THEN 0 ELSE 1)
<1> DEFINE s == SubSeq(swap, 1, k - 1)
           one == <<swap[k]>>
<1>1. 1 \in 1..Len(swap) /\ k \in 1..Len(swap) /\ k - 1 \in 0..Len(swap)
  OBVIOUS
<1>2. SubSeq(swap, 1, k) = s \o one
  BY <1>1, SubSeqRecursiveSecond
<1>3. s \in Seq(Pi!Part) /\ swap[k] \in Pi!Part /\ one \in Seq(Pi!Part)
  BY <1>1, Prefix
<1> HIDE DEF s
<1>4. Hits(one, Ends) = IF swap[k] \in Ends THEN 1 ELSE 0
  BY <1>3, HitsOne
<1> HIDE DEF one
<1>5. Hits(s \o one, Ends) = Hits(s, Ends) + Hits(one, Ends)
  BY <1>3, HitsConcat
<1>6. swap[k] \in Ends <=> ~Pi!More(swap[k])
  BY <1>3 DEF Ends
<1>7. Ended(k) = Hits(s, Ends) + Hits(one, Ends) /\ Ended(k - 1) = Hits(s, Ends)
  BY <1>2, <1>5 DEF Ended, s
<1> QED BY <1>4, <1>6, <1>7

LEMMA NoneEnded == Ended(0) = 0
<1>1. SubSeq(swap, 1, 0) = <<>>
  BY SubSeqEmpty
<1> QED BY <1>1, HitsEmpty DEF Ended

LEMMA MovableFacts ==
  ASSUME swap \in Seq(Pi!Part), NEW room \in Nat
  PROVE  /\ Pi!Movable(room) \in 0..Len(swap) /\ Ended(Pi!Movable(room)) \in 0..room
         /\ \A j \in 0..Pi!Movable(room) - 1 : Ended(j) < room
         /\ Pi!Movable(room) # Len(swap) => Ended(Pi!Movable(room)) = room
<1> DEFINE S == {j \in 0..Len(swap) : j = Len(swap) \/ room <= Ended(j)}
           P(k) == /\ k = Len(swap) \/ Pi!Completed(SubSeq(swap, 1, k)) = room
                   /\ \A j \in 0..k - 1 : Pi!Completed(SubSeq(swap, 1, j)) < room
<1>1. Len(swap) \in Nat /\ \A j \in 0..Len(swap) : Ended(j) \in Nat /\ Pi!Completed(SubSeq(swap, 1, j)) = Ended(j)
  BY Prefix
<1>2. Len(swap) \in S /\ S \in SUBSET Nat
  BY <1>1
<1>3. PICK k \in S : \A y \in S : k <= y
  BY <1>2, LeastNatural
<1>4. \A j \in 0..k - 1 : j \in 0..Len(swap) /\ Ended(j) < room
  <2> SUFFICES ASSUME NEW j \in 0..k - 1 PROVE j \in 0..Len(swap) /\ Ended(j) < room
    OBVIOUS
  <2>1. k \in 0..Len(swap) /\ j \in 0..Len(swap) /\ ~(k <= j)
    BY <1>1
  <2>2. j \notin S
    BY <1>3, <2>1
  <2>3. ~(room <= Ended(j)) /\ Ended(j) \in Nat
    BY <1>1, <2>1, <2>2
  <2> QED BY <2>1, <2>3
<1>5. k = Len(swap) \/ Ended(k) = room
  <2> SUFFICES ASSUME k # Len(swap) PROVE Ended(k) = room
    OBVIOUS
  <2>1. k \in 0..Len(swap) /\ room <= Ended(k) /\ Ended(k) \in Nat
    BY <1>1
  <2>2. CASE k = 0
    BY <2>1, <2>2, NoneEnded
  <2>3. CASE k # 0
    <3>1. k \in 1..Len(swap) /\ k - 1 \in 0..k - 1 /\ k - 1 \in 0..Len(swap)
      BY <2>1, <2>3
    <3>2. Ended(k - 1) < room /\ Ended(k - 1) \in Nat
      BY <1>1, <1>4, <3>1
    <3>3. Ended(k) <= Ended(k - 1) + 1
      BY <3>1, <3>2, OneMoreEnded
    <3> QED BY <2>1, <3>2, <3>3
  <2> QED BY <2>2, <2>3
<1>6. k \in 0..Len(swap) /\ P(k)
  BY <1>1, <1>4, <1>5
<1> HIDE DEF S, P
<1>7. Pi!Movable(room) = CHOOSE j \in 0..Len(swap) : P(j)
  BY DEF P, Pi!Movable
<1> DEFINE m == Pi!Movable(room)
<1>8. m \in 0..Len(swap) /\ P(m)
  BY <1>6, <1>7
<1> HIDE DEF m
<1>9. /\ m \in 0..Len(swap) /\ (m = Len(swap) \/ Ended(m) = room)
      /\ \A j \in 0..m - 1 : j \in 0..Len(swap) /\ Ended(j) < room
  BY <1>1, <1>8 DEF P
<1>10. Ended(m) \in 0..room
  <2>1. CASE m = 0
    BY <2>1, NoneEnded
  <2>2. CASE m # 0
    <3>1. m \in 1..Len(swap) /\ m - 1 \in 0..m - 1
      BY <1>1, <1>9, <2>2
    <3>2. Ended(m - 1) < room /\ Ended(m - 1) \in Nat /\ Ended(m) \in Nat
      BY <1>1, <1>9, <3>1
    <3>3. Ended(m) <= Ended(m - 1) + 1
      BY <3>1, <3>2, OneMoreEnded
    <3> QED BY <3>2, <3>3
  <2> QED BY <2>1, <2>2
<1> QED BY <1>9, <1>10 DEF m

LEMMA LastEnd ==
  ASSUME NEW X, NEW m \in Seq(X), NEW w \in 0..Len(m), w = 0 \/ ~Pi!More(m[w]), \A i \in w + 1..Len(m) : Pi!More(m[i])
  PROVE  w = CHOOSE j \in 0..Len(m) : (j = 0 \/ ~Pi!More(m[j])) /\ \A i \in j + 1..Len(m) : Pi!More(m[i])
<1> DEFINE P(j) == (j = 0 \/ ~Pi!More(m[j])) /\ \A i \in j + 1..Len(m) : Pi!More(m[i])
           c == CHOOSE j \in 0..Len(m) : P(j)
<1>1. P(w)
  OBVIOUS
<1>2. c \in 0..Len(m) /\ P(c)
  <2> HIDE DEF P
  <2> QED BY <1>1
<1> HIDE DEF c
<1>3. Len(m) \in Nat /\ w \in Nat /\ c \in Nat
  BY <1>2
<1>4. ~(w < c)
  <2> SUFFICES ASSUME w < c PROVE FALSE
    OBVIOUS
  <2>1. c # 0 /\ c \in w + 1..Len(m)
    BY <1>2, <1>3
  <2> QED BY <1>2, <2>1
<1>5. ~(c < w)
  <2> SUFFICES ASSUME c < w PROVE FALSE
    OBVIOUS
  <2>1. w # 0 /\ w \in c + 1..Len(m)
    BY <1>3
  <2> QED BY <1>2, <2>1
<1>6. w = c
  BY <1>3, <1>4, <1>5
<1> QED BY <1>6 DEF c

LEMMA SplitConcat ==
  ASSUME NEW X, NEW s \in Seq(X), NEW t \in Seq(X)
  PROVE  SubSeq(s \o t, 1, Len(s)) = s /\ SubSeq(s \o t, Len(s) + 1, Len(s \o t)) = t
<1> DEFINE v == s \o t
           n == Len(s)
<1>1. v \in Seq(X) /\ Len(v) = n + Len(t) /\ n \in Nat /\ Len(t) \in Nat /\ \A i \in 1..n + Len(t) : v[i] = IF i <= n THEN s[i] ELSE t[i - n]
  BY ConcatProperties
<1> HIDE DEF v, n
<1>2. 0 \in 0..Len(v) /\ n \in 0..Len(v) /\ Len(v) \in n..Len(v) /\ 0 + 1 = 1 /\ n - 0 = n /\ Len(v) - n = Len(t)
  BY <1>1
<1>3. SubSeq(v, 1, n) \in Seq(X) /\ Len(SubSeq(v, 1, n)) = n /\ \A i \in 1..n : SubSeq(v, 1, n)[i] = v[i]
  <2>1. SubSeq(v, 0 + 1, n) \in Seq(X) /\ Len(SubSeq(v, 0 + 1, n)) = n - 0 /\ \A i \in 1..n - 0 : SubSeq(v, 0 + 1, n)[i] = v[0 + i]
    BY <1>1, <1>2, Slice
  <2> QED BY <1>2, <2>1
<1>4. SubSeq(v, n + 1, Len(v)) \in Seq(X) /\ Len(SubSeq(v, n + 1, Len(v))) = Len(t) /\ \A i \in 1..Len(t) : SubSeq(v, n + 1, Len(v))[i] = v[n + i]
  <2>1. SubSeq(v, n + 1, Len(v)) \in Seq(X) /\ Len(SubSeq(v, n + 1, Len(v))) = Len(v) - n
        /\ \A i \in 1..Len(v) - n : SubSeq(v, n + 1, Len(v))[i] = v[n + i]
    BY <1>1, <1>2, Slice
  <2> QED BY <1>2, <2>1
<1>5. \A i \in 1..n : v[i] = s[i]
  BY <1>1
<1>6. \A i \in 1..Len(t) : v[n + i] = t[i]
  <2> SUFFICES ASSUME NEW i \in 1..Len(t) PROVE v[n + i] = t[i]
    OBVIOUS
  <2>1. n + i \in 1..n + Len(t) /\ ~(n + i <= n) /\ (n + i) - n = i
    BY <1>1
  <2> QED BY <1>1, <2>1
<1>7. SubSeq(v, 1, n) = s
  <2>1. \A i \in 1..n : SubSeq(v, 1, n)[i] = s[i]
    BY <1>3, <1>5
  <2> QED BY <1>3, <2>1, SeqEqual DEF n
<1>8. SubSeq(v, n + 1, Len(v)) = t
  <2>1. \A i \in 1..Len(t) : SubSeq(v, n + 1, Len(v))[i] = t[i]
    BY <1>4, <1>6
  <2> QED BY <1>4, <2>1, SeqEqual
<1> QED BY <1>7, <1>8 DEF v, n

\* The oldest of the counts sent is taken.
LEMMA CountTaken ==
  ASSUME Pi!TypeOK, PipeCommands, PipeCounts, toWriter # <<>>, Head(toWriter)[1] = "activate_writer",
         toWriter' = Tail(toWriter), msgs_read' = Head(toWriter)[2], reader_read' = reader_read, reader_terminating' = reader_terminating
  PROVE  /\ msgs_read' \in 0..MaxMessages /\ msgs_read <= msgs_read' /\ msgs_read' <= reader_read
         /\ toWriter' \in Seq(Pi!Command)
         /\ \A j \in DOMAIN toWriter' : toWriter'[j][1] = "pipe_term" => j = Len(toWriter') /\ reader_terminating'
         /\ \A j \in DOMAIN toWriter' : toWriter'[j][1] = "activate_writer" => msgs_read' <= toWriter'[j][2] /\ toWriter'[j][2] <= reader_read
         /\ \A i, j \in DOMAIN toWriter' : i <= j /\ toWriter'[j][1] = "activate_writer" => toWriter'[i][2] <= toWriter'[j][2]
<1> DEFINE s == toWriter
           t == Tail(toWriter)
<1>1. toWriter \in Seq(Pi!Command)
  BY DEF Pi!TypeOK
<1>2. /\ t \in Seq(Pi!Command) /\ Len(s) \in Nat \ {0} /\ Len(t) = Len(s) - 1 /\ Head(s) = s[1] /\ DOMAIN s = 1..Len(s) /\ DOMAIN t = 1..Len(t)
      /\ \A i \in 1..Len(t) : t[i] = s[i + 1]
  BY <1>1, HeadTailProperties, EmptySeq
<1>3. toWriter' = t
  OBVIOUS
<1> HIDE DEF t
<1>4. \A j \in DOMAIN t : j + 1 \in DOMAIN s /\ t[j] = s[j + 1] /\ j \in Nat
  BY <1>2
<1>5. 1 \in DOMAIN s /\ s[1] \in Pi!Command /\ s[1][1] = "activate_writer"
  BY <1>1, <1>2
<1>6. s[1][2] \in 0..MaxMessages
  BY <1>5 DEF Pi!Command
<1>7. msgs_read <= s[1][2] /\ s[1][2] <= reader_read
  BY <1>5 DEF PipeCounts
<1>8. \A j \in DOMAIN t : t[j][1] = "pipe_term" => j = Len(t) /\ reader_terminating
  <2> SUFFICES ASSUME NEW j \in DOMAIN t, t[j][1] = "pipe_term" PROVE j = Len(t) /\ reader_terminating
    OBVIOUS
  <2>1. j + 1 \in DOMAIN s /\ s[j + 1][1] = "pipe_term"
    BY <1>4
  <2>2. j + 1 = Len(s) /\ reader_terminating
    BY <2>1 DEF PipeCommands
  <2> QED BY <1>2, <1>4, <2>2
<1>9. \A j \in DOMAIN t : t[j][1] = "activate_writer" => s[1][2] <= t[j][2] /\ t[j][2] <= reader_read
  <2> SUFFICES ASSUME NEW j \in DOMAIN t, t[j][1] = "activate_writer" PROVE s[1][2] <= t[j][2] /\ t[j][2] <= reader_read
    OBVIOUS
  <2>1. j + 1 \in DOMAIN s /\ s[j + 1][1] = "activate_writer" /\ 1 <= j + 1
    BY <1>4
  <2>2. s[1][2] <= s[j + 1][2] /\ s[j + 1][2] <= reader_read
    BY <1>5, <2>1 DEF PipeCounts
  <2> QED BY <1>4, <2>2
<1>10. \A i, j \in DOMAIN t : i <= j /\ t[j][1] = "activate_writer" => t[i][2] <= t[j][2]
  <2> SUFFICES ASSUME NEW i \in DOMAIN t, NEW j \in DOMAIN t, i <= j, t[j][1] = "activate_writer" PROVE t[i][2] <= t[j][2]
    OBVIOUS
  <2>1. i + 1 \in DOMAIN s /\ j + 1 \in DOMAIN s /\ s[j + 1][1] = "activate_writer" /\ i + 1 <= j + 1
    BY <1>4
  <2>2. s[i + 1][2] <= s[j + 1][2]
    BY <2>1 DEF PipeCounts
  <2> QED BY <1>4, <2>2
<1>11. msgs_read' = s[1][2]
  BY <1>2
<1> QED BY <1>2, <1>3, <1>6, <1>7, <1>8, <1>9, <1>10, <1>11

\* The swap in three parts: what is moved and ends messages, what is moved of
\* the broken one, and what stays.
LEMMA SwapSplit ==
  ASSUME Pi!TypeOK, PipeModes, NEW room \in Nat, NEW k, k = Pi!Movable(room), NEW z, z = (IF k <= Kept THEN k ELSE Kept)
  PROVE  /\ k \in 0..Len(swap) /\ z \in 0..k /\ z <= Kept /\ (Kept < k => k = Len(swap))
         /\ SubSeq(swap, 1, z) \in Seq(Pi!Part) /\ SubSeq(swap, z + 1, k) \in Seq(Pi!Part)
         /\ SubSeq(swap, 1, k) = SubSeq(swap, 1, z) \o SubSeq(swap, z + 1, k)
         /\ Closed(SubSeq(swap, 1, z))
         /\ \A i \in DOMAIN SubSeq(swap, z + 1, k) : Pi!More(SubSeq(swap, z + 1, k)[i])
         /\ Hits(SubSeq(swap, 1, z), Ends) = Ended(k)
<1> DEFINE n == Len(swap)
           a == SubSeq(swap, 1, z)
           b == SubSeq(swap, z + 1, k)
<1>1. swap \in Seq(Pi!Part) /\ n \in Nat /\ Kept \in 0..n /\ commit \in Int /\ DOMAIN swap = 1..n
  BY PipeTypes
<1>2. k \in 0..n /\ (\A j \in 0..k - 1 : Ended(j) < room) /\ (k # n => Ended(k) = room)
  BY <1>1, MovableFacts
<1>3. (\A i \in Kept + 1..n : Pi!More(swap[i])) /\ (Kept >= 1 => ~Pi!More(swap[Kept]))
  <2>1. commit <= Kept /\ (Kept >= 1 => Kept = commit)
    BY <1>1 DEF Kept
  <2>2. \A i \in Kept + 1..n : i \in DOMAIN swap /\ i > commit
    BY <1>1, <2>1
  <2> QED BY <2>1, <2>2 DEF PipeModes
<1>4. z \in 0..k /\ z \in 0..n /\ z <= Kept /\ 0 \in 0..n /\ k \in z..n /\ z \in 0..n /\ 0 + 1 = 1
  BY <1>1, <1>2
<1> HIDE DEF n
<1>5. Kept < k => k = n
  <2> SUFFICES ASSUME Kept < k, k # n PROVE FALSE
    OBVIOUS
  <2>1. k \in 1..Len(swap) /\ k \in Kept + 1..n /\ k - 1 \in 0..k - 1 /\ k - 1 \in 0..Len(swap)
    BY <1>1, <1>2 DEF n
  <2>2. Ended(k - 1) \in Nat
    BY <1>1, <2>1, Prefix
  <2>3. Ended(k) = Ended(k - 1) + (IF Pi!More(swap[k]) THEN 0 ELSE 1)
    BY <1>1, <2>1, OneMoreEnded
  <2>4. Ended(k) = Ended(k - 1)
    BY <1>3, <2>1, <2>2, <2>3
  <2>5. Ended(k - 1) < room /\ Ended(k) = room
    BY <1>2, <2>1
  <2> QED BY <2>2, <2>4, <2>5
<1>6. a \in Seq(Pi!Part) /\ Len(a) = z /\ \A i \in 1..z : a[i] = swap[i]
  BY <1>1, <1>4, Prefix DEF n
<1>7. b \in Seq(Pi!Part) /\ Len(b) = k - z /\ \A i \in 1..k - z : b[i] = swap[z + i]
  BY <1>1, <1>2, <1>4, Slice DEF n
<1>8. SubSeq(swap, 1, k) = a \o b
  <2>1. SubSeq(swap, 0 + 1, z) \o SubSeq(swap, z + 1, k) = SubSeq(swap, 0 + 1, k)
    BY <1>1, <1>4, SliceJoin DEF n
  <2> QED BY <1>4, <2>1
<1>9. Closed(a)
  <2> SUFFICES ASSUME a # <<>> PROVE ~Pi!More(swap[z])
    <3>1. a # <<>> => z \in 1..z
      BY <1>4, <1>6, EmptySeq
    <3> QED BY <1>6, <3>1 DEF Closed
  <2>1. z \in Nat \ {0}
    BY <1>4, <1>6, EmptySeq
  <2>2. CASE z = Kept
    BY <1>3, <2>1, <2>2
  <2>3. CASE z # Kept
    <3>1. z = k /\ k < Kept /\ k # n /\ k \in 1..Len(swap) /\ k - 1 \in 0..k - 1 /\ k - 1 \in 0..Len(swap)
      BY <1>1, <1>2, <1>4, <2>1, <2>3 DEF n
    <3>2. Ended(k - 1) < room /\ Ended(k) = room
      BY <1>2, <3>1
    <3>3. Ended(k) = Ended(k - 1) + (IF Pi!More(swap[k]) THEN 0 ELSE 1) /\ Ended(k - 1) \in Nat
      BY <1>1, <3>1, OneMoreEnded, Prefix
    <3>4. ~Pi!More(swap[k])
      <4> DEFINE e == Ended(k - 1)
      <4>1. e \in Nat /\ e < room /\ Pi!More(swap[k]) => room = e + 0
        BY <3>2, <3>3
      <4>2. e \in Nat /\ e < room
        BY <3>2, <3>3
      <4> HIDE DEF e
      <4> QED BY <4>1, <4>2
    <3> QED BY <3>1, <3>4
  <2> QED BY <2>2, <2>3
<1>10. \A i \in DOMAIN b : Pi!More(b[i])
  <2> SUFFICES ASSUME NEW i \in DOMAIN b PROVE Pi!More(b[i])
    OBVIOUS
  <2>1. i \in 1..k - z
    <3>1. DOMAIN b = 1..Len(b)
      BY <1>7, LenProperties
    <3> QED BY <1>7, <3>1
  <2>2. z = Kept /\ z + i \in Kept + 1..n
    BY <1>1, <1>2, <1>4, <2>1
  <2> QED BY <1>3, <1>7, <2>1, <2>2
<1> HIDE DEF a, b
<1>11. Hits(a, Ends) = Ended(k)
  <2>1. Hits(b, Ends) = 0
    <3>1. \A i \in DOMAIN b : b[i] \notin Ends
      BY <1>10 DEF Ends
    <3>2. DOMAIN b = 1..Len(b)
      BY <1>7, LenProperties
    <3>3. Places(b, Ends) = {}
      BY <3>1, <3>2 DEF Places
    <3> QED BY <3>3, FS_EmptySet DEF Hits
  <2>2. Hits(a \o b, Ends) = Hits(a, Ends) + Hits(b, Ends)
    BY <1>6, <1>7, HitsConcat
  <2>3. Hits(a, Ends) \in Nat
    BY <1>6, HitsType
  <2>4. Ended(k) = Hits(a \o b, Ends)
    BY <1>8 DEF Ended
  <2> QED BY <2>1, <2>2, <2>3, <2>4
<1> QED BY <1>2, <1>4, <1>5, <1>6, <1>7, <1>8, <1>9, <1>10, <1>11 DEF a, b, n

LEMMA SliceOfRest ==
  ASSUME NEW X, NEW s \in Seq(X), NEW k \in 0..Len(s), NEW q \in 0..Len(s) - k
  PROVE  /\ SubSeq(SubSeq(s, k + 1, Len(s)), 1, q) = SubSeq(s, k + 1, k + q)
         /\ SubSeq(SubSeq(s, k + 1, Len(s)), q + 1, Len(s) - k) = SubSeq(s, (k + q) + 1, Len(s))
<1> DEFINE n == Len(s)
<1>1. n \in Nat /\ k \in 0..n /\ n \in k..n /\ q \in 0..n - k /\ q \in q..n - k /\ 0 \in 0..n - k /\ n - k \in q..n - k /\ k + 0 = k /\ 0 + 1 = 1 /\ k + (n - k) = n
  OBVIOUS
<1>2. SubSeq(SubSeq(s, k + 1, n), 0 + 1, q) = SubSeq(s, (k + 0) + 1, k + q)
  <2>1. k \in 0..Len(s) /\ n \in k..Len(s) /\ 0 \in 0..n - k /\ q \in 0..n - k
    BY <1>1
  <2> HIDE DEF n
  <2> QED BY <2>1, SliceOfSlice
<1>3. SubSeq(SubSeq(s, k + 1, n), q + 1, n - k) = SubSeq(s, (k + q) + 1, k + (n - k))
  <2>1. k \in 0..Len(s) /\ n \in k..Len(s) /\ q \in 0..n - k /\ n - k \in q..n - k
    BY <1>1
  <2> HIDE DEF n
  <2> QED BY <2>1, SliceOfSlice
<1> QED BY <1>1, <1>2, <1>3

\* The swap that is left, and where it can be rolled back to.
LEMMA SwapLeft ==
  ASSUME Pi!TypeOK, PipeModes, NEW k \in 0..Len(swap), Kept < k => k = Len(swap), NEW z, z = (IF k <= Kept THEN k ELSE Kept),
         swap' = SubSeq(swap, k + 1, Len(swap)), commit' = commit - k
  PROVE  /\ swap' \in Seq(Pi!Part) /\ Len(swap') = Len(swap) - k /\ Kept' \in 0..Len(swap')
         /\ commit' \in Int /\ commit' <= Len(swap')
         /\ \A i \in DOMAIN swap' : i > commit' => Pi!More(swap'[i])
         /\ commit' >= 1 => ~Pi!More(swap'[commit'])
         /\ Hits(swap, Ends) = Ended(k) + Hits(swap', Ends)
         /\ SubSeq(swap, 1, z) \o SubSeq(swap', 1, Kept') = SubSeq(swap, 1, Kept)
         /\ SubSeq(swap, z + 1, k) \o SubSeq(swap', Kept' + 1, Len(swap')) = SubSeq(swap, Kept + 1, Len(swap))
<1> DEFINE n == Len(swap)
           m == Len(swap')
<1>0. k \in 0..n
  OBVIOUS
<1>1. swap \in Seq(Pi!Part) /\ n \in Nat /\ Kept \in 0..n /\ commit \in Int /\ DOMAIN swap = 1..n /\ commit <= Kept /\ (Kept >= 1 => Kept = commit)
  BY PipeTypes DEF Kept
<1>2. swap' \in Seq(Pi!Part) /\ m = n - k /\ \A i \in 1..n - k : swap'[i] = swap[k + i]
  <2>1. k \in 0..n /\ n \in k..n
    <3> HIDE DEF n
    <3> QED BY <1>0, <1>1
  <2> QED BY <1>1, <2>1, Slice
<1>3. DOMAIN swap' = 1..m
  BY <1>2, LenProperties
<1>4. commit' \in Int /\ commit' <= m
  <2>1. commit <= n
    BY DEF PipeModes
  <2> HIDE DEF n, m
  <2> QED BY <1>0, <1>1, <1>2, <2>1
<1>5. Kept' \in 0..m /\ Kept' = IF k <= Kept THEN Kept - k ELSE 0
  <2>1. Kept' = IF commit - k > 0 THEN commit - k ELSE 0
    BY DEF Kept
  <2>2. commit <= n
    BY DEF PipeModes
  <2> HIDE DEF n, m
  <2> QED BY <1>0, <1>1, <1>2, <2>1, <2>2
<1> HIDE DEF n, m
<1>6. \A i \in DOMAIN swap' : i > commit' => Pi!More(swap'[i])
  <2> SUFFICES ASSUME NEW i \in DOMAIN swap', i > commit' PROVE Pi!More(swap'[i])
    OBVIOUS
  <2>0. i \in 1..n - k
    BY <1>2, <1>3
  <2>1. k + i \in DOMAIN swap /\ k + i > commit
    BY <1>0, <1>1, <2>0
  <2> QED BY <1>2, <2>0, <2>1 DEF PipeModes
<1>7. commit' >= 1 => ~Pi!More(swap'[commit'])
  <2> SUFFICES ASSUME commit' >= 1 PROVE ~Pi!More(swap'[commit'])
    OBVIOUS
  <2>1. commit' \in 1..n - k /\ k + commit' = commit /\ commit >= 1
    BY <1>0, <1>1, <1>2, <1>4
  <2> QED BY <1>2, <2>1 DEF PipeModes
<1>8. Hits(swap, Ends) = Ended(k) + Hits(swap', Ends)
  <2>1. SubSeq(swap, 1, k) \o swap' = swap
    <3>1. 0 \in 0..n /\ k \in 0..n /\ n \in k..n /\ 0 + 1 = 1
      BY <1>0, <1>1
    <3>2. SubSeq(swap, 0 + 1, k) \o SubSeq(swap, k + 1, n) = SubSeq(swap, 0 + 1, n)
      BY <1>1, <3>1, SliceJoin DEF n
    <3> QED BY <1>1, <3>1, <3>2, SliceWhole DEF n
  <2>2. SubSeq(swap, 1, k) \in Seq(Pi!Part)
    BY <1>1, Prefix
  <2>3. Hits(SubSeq(swap, 1, k) \o swap', Ends) = Hits(SubSeq(swap, 1, k), Ends) + Hits(swap', Ends)
    BY <1>2, <2>2, HitsConcat
  <2> QED BY <2>1, <2>3 DEF Ended
<1>9. CASE k <= Kept
  <2>1. z = k /\ Kept' = Kept - k /\ 0 \in 0..n /\ k \in 0..n /\ Kept \in k..n /\ n \in k..n /\ n \in Kept..n /\ 0 + 1 = 1 /\ k + 0 = k /\ k + Kept' = Kept
        /\ 0 \in 0..n - k /\ Kept' \in 0..n - k /\ n - k \in Kept'..n - k /\ k + (n - k) = n
    BY <1>0, <1>1, <1>2, <1>5, <1>9
  <2>2. SubSeq(swap', 1, Kept') = SubSeq(swap, k + 1, Kept)
    <3>1. \A q \in 0..Len(swap) - k : SubSeq(SubSeq(swap, k + 1, Len(swap)), 1, q) = SubSeq(swap, k + 1, k + q)
      BY <1>1, SliceOfRest
    <3> QED BY <2>1, <3>1 DEF n
  <2>3. SubSeq(swap', Kept' + 1, m) = SubSeq(swap, Kept + 1, n)
    <3>1. \A q \in 0..Len(swap) - k : SubSeq(SubSeq(swap, k + 1, Len(swap)), q + 1, Len(swap) - k) = SubSeq(swap, (k + q) + 1, Len(swap))
      BY <1>1, SliceOfRest
    <3> QED BY <1>2, <2>1, <3>1 DEF n
  <2>4. SubSeq(swap, 1, z) \o SubSeq(swap', 1, Kept') = SubSeq(swap, 1, Kept)
    <3>1. SubSeq(swap, 0 + 1, k) \o SubSeq(swap, k + 1, Kept) = SubSeq(swap, 0 + 1, Kept)
      BY <1>1, <2>1, SliceJoin DEF n
    <3> QED BY <2>1, <2>2, <3>1
  <2>5. SubSeq(swap, z + 1, k) = <<>>
    BY <2>1, SubSeqEmpty
  <2>6. SubSeq(swap, Kept + 1, n) \in Seq(Pi!Part)
    BY <1>1, <2>1, Slice DEF n
  <2>7. <<>> \o SubSeq(swap, Kept + 1, n) = SubSeq(swap, Kept + 1, n)
    BY <2>6, ConcatEmptySeq
  <2>8. SubSeq(swap, z + 1, k) \o SubSeq(swap', Kept' + 1, Len(swap')) = SubSeq(swap, Kept + 1, Len(swap))
    BY <2>3, <2>5, <2>7 DEF m, n
  <2> QED BY <1>2, <1>4, <1>5, <1>6, <1>7, <1>8, <2>4, <2>8 DEF m, n
<1>10. CASE Kept < k
  <2>1. z = Kept /\ Kept' = 0 /\ k = n /\ m = 0
    BY <1>0, <1>1, <1>2, <1>5, <1>10 DEF n
  <2>2. swap' = <<>>
    BY <1>2, <2>1, EmptySeq DEF m
  <2>3. SubSeq(swap', 1, Kept') = <<>> /\ SubSeq(swap', Kept' + 1, Len(swap')) = <<>>
    BY <2>1, SubSeqEmpty DEF m
  <2>4. SubSeq(swap, 1, Kept) \in Seq(Pi!Part) /\ SubSeq(swap, Kept + 1, n) \in Seq(Pi!Part)
    <3>1. n \in Kept..n
      BY <1>1
    <3> QED BY <1>1, <3>1, Slice, Prefix DEF n
  <2>5. SubSeq(swap, 1, Kept) \o <<>> = SubSeq(swap, 1, Kept) /\ SubSeq(swap, Kept + 1, n) \o <<>> = SubSeq(swap, Kept + 1, n)
    BY <2>4, ConcatEmptySeq
  <2>6. SubSeq(swap, 1, z) \o SubSeq(swap', 1, Kept') = SubSeq(swap, 1, Kept)
        /\ SubSeq(swap, z + 1, k) \o SubSeq(swap', Kept' + 1, Len(swap')) = SubSeq(swap, Kept + 1, Len(swap))
    BY <2>1, <2>3, <2>5 DEF n
  <2> QED BY <1>2, <1>4, <1>5, <1>6, <1>7, <1>8, <2>6 DEF m, n
<1>11. k <= Kept \/ Kept < k
  BY <1>0, <1>1
<1> QED BY <1>9, <1>10, <1>11

\* Nothing else is in the pipe than before.
LEMMA ChainMoved ==
  ASSUME PipeChain, swapping, Whole' = Whole, Broken' = Broken, UNCHANGED <<last_written, writer_terminating>>,
         Closed(pipe_flushed)', Closed(pipe_unflushed)'
  PROVE  PipeChain'
<1>1. Chained(Whole \o Broken)' = Chained(Whole \o Broken)
  BY DEF Chained
<1>2. Pi!LastComplete' = Pi!LastComplete /\ Pi!More(last_written)' = Pi!More(last_written)
  BY DEF Pi!LastComplete, Pi!More
<1>4. LET q == Whole'[Len(Whole')]
      IN q # Delimiter /\ ~Pi!More(q) /\ (~writer_terminating => q[1] = Pi!LastComplete[1])
  BY DEF PipeChain
<1> QED BY <1>1, <1>2, <1>4 DEF PipeChain

\* What the call moves into the pipe.
LEMMA Unswapped ==
  ASSUME Pi!TypeOK, PipeModes, swapping, Closed(pipe_unflushed), NEW k, NEW z,
         Pi!hwm - (msgs_written - Head(toWriter)[2]) \in Nat, k = Pi!Movable(Pi!hwm - (msgs_written - Head(toWriter)[2])),
         z = (IF k <= Kept THEN k ELSE Kept), Pi!Unswap(Head(toWriter)[2])
  PROVE  /\ swap' = SubSeq(swap, k + 1, Len(swap)) /\ commit' = commit - k
         /\ msgs_written' = msgs_written + Ended(k) /\ swapping' = (k # Len(swap))
         /\ pipe_partial' = SubSeq(swap, z + 1, k) /\ pipe_unflushed' = <<>>
         /\ pipe_flushed' = (pipe_flushed \o (pipe_unflushed \o SubSeq(swap, 1, z)))
                              \o (IF k = Len(swap) /\ pending_delimiter THEN <<Delimiter>> ELSE <<>>)
         /\ Closed(pipe_unflushed \o SubSeq(swap, 1, z))
         /\ Pi!Wakes(pipe_flushed' # pipe_flushed)
<1> DEFINE room == Pi!hwm - (msgs_written - Head(toWriter)[2])
           a == SubSeq(swap, 1, z)
           b == SubSeq(swap, z + 1, k)
           x == SubSeq(swap, 1, k)
           u == pipe_unflushed
           ua == u \o a
           moved == pipe_unflushed \o pipe_partial \o SubSeq(swap, 1, k)
           whole == CHOOSE j \in 0..Len(moved) :
                      (j = 0 \/ ~Pi!More(moved[j])) /\ \A i \in j + 1..Len(moved) : Pi!More(moved[i])
<1>1. k = Pi!Movable(room) /\ room \in Nat /\ swap \in Seq(Pi!Part)
  BY DEF Pi!TypeOK
<1>2. /\ swap' = SubSeq(swap, k + 1, Len(swap)) /\ commit' = commit - k
      /\ msgs_written' = msgs_written + Pi!Completed(x) /\ swapping' = ~(k = Len(swap))
      /\ pipe_partial' = SubSeq(moved, whole + 1, Len(moved)) /\ pipe_unflushed' = <<>>
      /\ pipe_flushed' = (pipe_flushed \o SubSeq(moved, 1, whole)) \o (IF k = Len(swap) /\ pending_delimiter THEN <<Delimiter>> ELSE <<>>)
      /\ Pi!Wakes(pipe_flushed' # pipe_flushed)
  BY Zenon DEF Pi!Unswap
<1>3. /\ k \in 0..Len(swap) /\ a \in Seq(Pi!Part) /\ b \in Seq(Pi!Part) /\ x = a \o b /\ Closed(a)
      /\ \A i \in DOMAIN b : Pi!More(b[i])
  <2> HIDE DEF room
  <2> QED BY <1>1, SwapSplit
<1>4. Pi!Completed(x) = Ended(k)
  BY <1>1, <1>3, Prefix
<1>5. u \in Seq(Pi!Part) /\ pipe_partial = <<>>
  BY DEF PipeModes
<1> HIDE DEF a, b, x, u
<1>6. ua \in Seq(Pi!Part) /\ Closed(ua)
  <2>1. Closed(u)
    BY DEF u
  <2> QED BY <1>3, <1>5, <2>1, ConcatProperties, ClosedConcat
<1>7. moved = ua \o b
  <2> DEFINE none == pipe_partial
  <2>1. Cat(u, none) = u
    BY <1>5, CatFacts
  <2>2. moved = Cat(Cat(u, none), x)
    BY DEF Cat, u, x
  <2> HIDE DEF none, moved
  <2>3. moved = Cat(u, Cat(a, b))
    BY <1>3, <2>1, <2>2 DEF Cat
  <2>4. Cat(Cat(u, a), b) = Cat(u, Cat(a, b))
    BY <1>3, <1>5, CatFacts
  <2> QED BY <2>3, <2>4 DEF Cat
<1> DEFINE w == Len(ua)
<1> HIDE DEF ua
<1>8. moved \in Seq(Pi!Part) /\ Len(moved) = w + Len(b) /\ w \in Nat /\ Len(b) \in Nat /\ \A i \in 1..w : moved[i] = ua[i]
  <2>1. ua \o b \in Seq(Pi!Part) /\ Len(ua \o b) = Len(ua) + Len(b) /\ \A i \in 1..Len(ua) : (ua \o b)[i] = ua[i]
    BY <1>3, <1>6, ConcatProperties
  <2>2. Len(ua) \in Nat /\ Len(b) \in Nat
    BY <1>3, <1>6
  <2> HIDE DEF moved
  <2> QED BY <1>7, <2>1, <2>2, Zenon
<1>9. \A i \in 1..Len(b) : moved[w + i] = b[i] /\ i \in DOMAIN b
  <2>1. \A i \in 1..Len(b) : (ua \o b)[w + i] = b[i]
    BY <1>3, <1>6, ConcatProperties
  <2>2. DOMAIN b = 1..Len(b)
    BY <1>3, LenProperties
  <2> QED BY <1>7, <2>1, <2>2
<1>10. w = 0 \/ ~Pi!More(moved[w])
  <2> SUFFICES ASSUME w # 0 PROVE ~Pi!More(moved[w])
    OBVIOUS
  <2>1. w \in 1..w /\ ua # <<>>
    BY <1>6, <1>8, EmptySeq
  <2>2. ua[w] \in Pi!Part /\ ua[w] # Delimiter
    BY <1>6, <2>1, PipeFacts
  <2> QED BY <1>6, <1>8, <2>1, <2>2 DEF Closed
<1>11. SubSeq(ua \o b, 1, w) = ua /\ SubSeq(ua \o b, w + 1, Len(ua \o b)) = b
  BY <1>3, <1>6, SplitConcat
<1>12. w = whole
  <2> HIDE DEF moved, w
  <2>1. w \in 0..Len(moved) /\ \A i \in w + 1..Len(moved) : i - w \in 1..Len(b) /\ w + (i - w) = i
    BY <1>8
  <2>2. \A i \in w + 1..Len(moved) : Pi!More(moved[i])
    BY <1>3, <1>9, <2>1
  <2> QED BY <1>8, <1>10, <2>1, <2>2, LastEnd
<1> HIDE DEF moved, whole, w
<1>13. SubSeq(moved, 1, whole) = ua /\ SubSeq(moved, whole + 1, Len(moved)) = b
  BY <1>7, <1>11, <1>12
<1> QED BY <1>2, <1>4, <1>6, <1>13 DEF ua, u, a, b

LEMMA ActivateWriterStep == ASSUME PipeInv, rollback_ok, Pi!ProcessActivateWriter PROVE PipeInv'
<1> DEFINE n == Head(toWriter)[2]
<1>1. Pi!TypeOK /\ PipeModes /\ PipeCommands /\ PipeCounts /\ toWriter \in Seq(Pi!Command) /\ toReader \in Seq({"activate_reader", "pipe_term_ack"})
  BY DEF PipeInv, Pi!TypeOK
<1>2. /\ toWriter # <<>> /\ Head(toWriter)[1] = "activate_writer" /\ toWriter' = Tail(toWriter) /\ msgs_read' = n
      /\ writer_active' = (writer_active \/ ~writer_terminating)
      /\ UNCHANGED <<created, reader_active, reader_read, reader_terminating, reader_gone, last_read>>
      /\ UNCHANGED <<rollback_ok, pending_delimiter, writer_terminating, writer_gone, last_written>>
  BY DEF Pi!ProcessActivateWriter, Pi!readerVars
<1>3. ~writer_gone /\ ~reader_gone /\ PipeChain
  BY <1>1, <1>2 DEF PipeCommands, PipeInv
<1>4. /\ msgs_read' \in 0..MaxMessages /\ msgs_read <= msgs_read' /\ msgs_read' <= reader_read
      /\ toWriter' \in Seq(Pi!Command)
      /\ \A j \in DOMAIN toWriter' : toWriter'[j][1] = "pipe_term" => j = Len(toWriter') /\ reader_terminating'
      /\ \A j \in DOMAIN toWriter' : toWriter'[j][1] = "activate_writer" => msgs_read' <= toWriter'[j][2] /\ toWriter'[j][2] <= reader_read
      /\ \A i, j \in DOMAIN toWriter' : i <= j /\ toWriter'[j][1] = "activate_writer" => toWriter'[i][2] <= toWriter'[j][2]
  BY <1>1, <1>2, CountTaken
<1>5. writer_active' \in BOOLEAN /\ (writer_terminating => ~writer_active')
  BY <1>1, <1>2 DEF Pi!TypeOK, PipeModes
<1>6. Pi!hwm' = Pi!hwm /\ Pi!SwapSize' = Pi!SwapSize /\ Pi!LastComplete' = Pi!LastComplete /\ Pi!More(last_written)' = Pi!More(last_written)
  BY <1>2 DEF Pi!hwm, Pi!SwapSize, Pi!LastComplete, Pi!More
<1>7. {reader_read, msgs_read, msgs_read', msgs_written} \subseteq Nat /\ Pi!hwm \in Nat
  <2>1. {reader_read, msgs_read, msgs_written} \subseteq 0..MaxMessages /\ msgs_read' \in 0..MaxMessages /\ MaxMessages \in Nat
    BY <1>1, <1>4, PipeFacts DEF Pi!TypeOK
  <2>2. Pi!hwm \in Nat
    BY <1>1, KindFields
  <2> QED BY <2>1, <2>2
<1>8. CASE ~swapping
  <2>1. UNCHANGED <<pipe_partial, pipe_unflushed, pipe_flushed, pipe_reader, swap, commit, msgs_written, swapping, toReader>>
    BY <1>8 DEF Pi!ProcessActivateWriter, Pi!ypipeVars
  <2>2. Pi!TypeOK'
    BY <1>1, <1>2, <1>4, <1>5, <1>6, <2>1 DEF Pi!TypeOK, Pi!ypipe!QueueTypeOK
  <2>3. PipeModes'
    BY <1>1, <1>2, <1>5, <2>1, ModesKept
  <2>4. PipeCommands'
    BY <1>1, <1>2, <1>3, <1>4, <2>1 DEF PipeCommands
  <2>5. PipeCounts'
    <3>1. Hits(pipe_flushed, Ends)' = Hits(pipe_flushed, Ends) /\ Hits(pipe_unflushed, Ends)' = Hits(pipe_unflushed, Ends) /\ Hits(swap, Ends)' = Hits(swap, Ends)
      BY <2>1 DEF Hits, Places, Ends, Pi!More
    <3>2. /\ msgs_read' <= reader_read' /\ reader_read' <= msgs_written'
          /\ Pi!hwm' > 0 => msgs_written' - msgs_read' <= Pi!hwm'
          /\ Pi!hwm' > 0 /\ ~swapping' /\ Pi!More(last_written)' => msgs_written' - msgs_read' < Pi!hwm'
      BY <1>1, <1>2, <1>4, <1>6, <1>7, <2>1 DEF PipeCounts
    <3>3. ~reader_gone' => reader_read' + Hits(pipe_flushed, Ends)' + Hits(pipe_unflushed, Ends)' = msgs_written'
      BY <1>1, <1>2, <2>1, <3>1 DEF PipeCounts
    <3>4. msgs_written' + Hits(swap, Ends)' = Pi!LastComplete'[1]
      BY <1>1, <1>6, <2>1, <3>1 DEF PipeCounts
    <3> QED BY <1>2, <1>4, <3>2, <3>3, <3>4 DEF PipeCounts
  <2>6. PipeChain'
    BY <1>2, <1>3, <2>1, ChainKept
  <2> QED BY <2>2, <2>3, <2>4, <2>5, <2>6 DEF PipeInv
<1>9. CASE swapping
  <2> DEFINE room == Pi!hwm - (msgs_written - n)
  <2>1. room \in Nat /\ Pi!hwm > 0
    <3>1. msgs_written - msgs_read <= Pi!hwm /\ Pi!hwm > 0 /\ n \in Nat /\ msgs_read <= n
      BY <1>1, <1>2, <1>4, <1>7, <1>9 DEF PipeModes, PipeCounts
    <3> HIDE DEF n
    <3> QED BY <1>7, <3>1
  <2>2. PICK k \in 0..Len(swap) : k = Pi!Movable(room)
    <3> HIDE DEF room
    <3>1. Pi!Movable(room) \in 0..Len(swap)
      BY <1>1, <2>1, MovableFacts DEF Pi!TypeOK
    <3> QED BY <3>1
  <2>3. PICK z : z = IF k <= Kept THEN k ELSE Kept
    OBVIOUS
  <2> DEFINE a == SubSeq(swap, 1, z)
             b == SubSeq(swap, z + 1, k)
             u == pipe_unflushed
             f == pipe_flushed
             d == IF k = Len(swap) /\ pending_delimiter THEN <<Delimiter>> ELSE <<>>
             W == Pi!Part \union {Delimiter}
  <2>4. Pi!Unswap(n)
    BY <1>9 DEF Pi!ProcessActivateWriter
  <2>5. /\ swap' = SubSeq(swap, k + 1, Len(swap)) /\ commit' = commit - k
        /\ msgs_written' = msgs_written + Ended(k) /\ swapping' = (k # Len(swap))
        /\ pipe_partial' = b /\ pipe_unflushed' = <<>>
        /\ pipe_flushed' = (f \o (u \o a)) \o d
        /\ Closed(u \o a)
        /\ Pi!Wakes(pipe_flushed' # pipe_flushed)
    <3>1. Closed(pipe_unflushed)
      BY <1>3 DEF PipeChain
    <3>2. Pi!hwm - (msgs_written - n) \in Nat /\ k = Pi!Movable(Pi!hwm - (msgs_written - n))
      BY <2>1, <2>2
    <3> HIDE DEF n, room, a, b, u, f, d
    <3>3. /\ swap' = SubSeq(swap, k + 1, Len(swap)) /\ commit' = commit - k
          /\ msgs_written' = msgs_written + Ended(k) /\ swapping' = (k # Len(swap))
          /\ pipe_partial' = SubSeq(swap, z + 1, k) /\ pipe_unflushed' = <<>>
          /\ pipe_flushed' = (pipe_flushed \o (pipe_unflushed \o SubSeq(swap, 1, z)))
                              \o (IF k = Len(swap) /\ pending_delimiter THEN <<Delimiter>> ELSE <<>>)
          /\ Closed(pipe_unflushed \o SubSeq(swap, 1, z))
          /\ Pi!Wakes(pipe_flushed' # pipe_flushed)
      <4>1. Pi!TypeOK /\ PipeModes /\ swapping /\ Closed(pipe_unflushed)
        BY <1>1, <1>9, <3>1
      <4>2. Pi!hwm - (msgs_written - Head(toWriter)[2]) \in Nat /\ k = Pi!Movable(Pi!hwm - (msgs_written - Head(toWriter)[2]))
        BY <3>2 DEF n
      <4>3. z = (IF k <= Kept THEN k ELSE Kept)
        BY <2>3
      <4>4. Pi!Unswap(Head(toWriter)[2])
        BY <2>4 DEF n
      <4>5. swap' = SubSeq(swap, k + 1, Len(swap)) /\ commit' = commit - k
        BY <4>1, <4>2, <4>3, <4>4, Unswapped
      <4>6. msgs_written' = msgs_written + Ended(k) /\ swapping' = (k # Len(swap))
        BY <4>1, <4>2, <4>3, <4>4, Unswapped
      <4>7. pipe_partial' = SubSeq(swap, z + 1, k) /\ pipe_unflushed' = <<>>
        BY <4>1, <4>2, <4>3, <4>4, Unswapped
      <4>8. pipe_flushed' = (pipe_flushed \o (pipe_unflushed \o SubSeq(swap, 1, z)))
                              \o (IF k = Len(swap) /\ pending_delimiter THEN <<Delimiter>> ELSE <<>>)
        BY <4>1, <4>2, <4>3, <4>4, Unswapped, Zenon
      <4>9. Closed(pipe_unflushed \o SubSeq(swap, 1, z))
        BY <4>1, <4>2, <4>3, <4>4, Unswapped, Zenon
      <4>10. Pi!Wakes(pipe_flushed' # pipe_flushed)
        BY <4>1, <4>2, <4>3, <4>4, Unswapped, Zenon
      <4> QED BY <4>5, <4>6, <4>7, <4>8, <4>9, <4>10
    <3> QED BY <3>3 DEF a, b, u, f, d
  <2>6. /\ z \in 0..k /\ z <= Kept /\ (Kept < k => k = Len(swap))
        /\ a \in Seq(Pi!Part) /\ b \in Seq(Pi!Part) /\ Closed(a) /\ Hits(a, Ends) = Ended(k)
        /\ \A i \in DOMAIN b : Pi!More(b[i])
    <3> HIDE DEF room
    <3> QED BY <1>1, <2>1, <2>2, <2>3, SwapSplit
  <2>7. /\ swap' \in Seq(Pi!Part) /\ Len(swap') = Len(swap) - k /\ Kept' \in 0..Len(swap')
        /\ commit' \in Int /\ commit' <= Len(swap')
        /\ \A i \in DOMAIN swap' : i > commit' => Pi!More(swap'[i])
        /\ commit' >= 1 => ~Pi!More(swap'[commit'])
        /\ Hits(swap, Ends) = Ended(k) + Hits(swap', Ends)
        /\ a \o SubSeq(swap', 1, Kept') = SubSeq(swap, 1, Kept)
        /\ b \o SubSeq(swap', Kept' + 1, Len(swap')) = SubSeq(swap, Kept + 1, Len(swap))
    BY <1>1, <2>2, <2>3, <2>5, <2>6, SwapLeft
  <2>8. Ended(k) \in 0..room /\ (\A j \in 0..k - 1 : Ended(j) < room) /\ swap \in Seq(Pi!Part) /\ Len(swap) \in Nat /\ Kept \in 0..Len(swap)
    <3>1. swap \in Seq(Pi!Part) /\ Len(swap) \in Nat /\ Kept \in 0..Len(swap)
      BY <1>1, PipeTypes
    <3> HIDE DEF room
    <3> QED BY <2>1, <2>2, <3>1, MovableFacts
  <2>9. u \in Seq(Pi!Part) /\ u \in Seq(W) /\ a \in Seq(W) /\ f \in Seq(W) /\ d \in Seq(W) /\ Delimiter \notin Ends
    <3>1. u \in Seq(Pi!Part) /\ f \in Seq(W)
      BY <1>1 DEF PipeModes, Pi!TypeOK, Pi!ypipe!QueueTypeOK
    <3>2. u \in Seq(W) /\ a \in Seq(W)
      BY <2>6, <3>1, SeqMonotonic
    <3>3. <<Delimiter>> \in Seq(W) /\ <<>> \in Seq(W)
      BY EmptySeq
    <3>4. Delimiter \notin Ends
      BY PipeFacts DEF Ends
    <3> QED BY <3>1, <3>2, <3>3, <3>4
  <2>10. Hits(d, Ends) = 0 /\ Closed(d)
    <3>1. Delimiter \in W
      OBVIOUS
    <3> HIDE DEF W
    <3>2. Hits(<<Delimiter>>, Ends) = 0
      BY <2>9, <3>1, HitsOne
    <3>3. Hits(<<>>, Ends) = 0 /\ Closed(<<>>) /\ Closed(<<Delimiter>>)
      BY HitsEmpty DEF Closed
    <3> QED BY <3>2, <3>3
  <2> HIDE DEF a, b, u, f, d, W
  <2> DEFINE ua == u \o a
             fua == f \o ua
  <2>11. ua \in Seq(W) /\ fua \in Seq(W) /\ fua \o d \in Seq(W)
    <3>1. ua \in Seq(W)
      BY <2>9, ConcatProperties
    <3> HIDE DEF ua
    <3>2. fua \in Seq(W)
      BY <2>9, <3>1, ConcatProperties
    <3> HIDE DEF fua
    <3> QED BY <2>9, <3>1, <3>2, ConcatProperties
  <2>12. Closed(fua \o d)
    <3>1. Closed(f) /\ Closed(ua)
      BY <1>3, <2>5 DEF PipeChain, f, u
    <3> HIDE DEF ua
    <3>2. Closed(fua)
      BY <2>9, <2>11, <3>1, ClosedConcat
    <3> HIDE DEF fua
    <3> QED BY <2>9, <2>10, <2>11, <3>2, ClosedConcat
  <2>13. Hits(fua \o d, Ends) = Hits(f, Ends) + Hits(u, Ends) + Ended(k) /\ Hits(f, Ends) \in Nat /\ Hits(u, Ends) \in Nat /\ Ended(k) \in Nat
    <3>1. Hits(ua, Ends) = Hits(u, Ends) + Hits(a, Ends)
      BY <2>9, HitsConcat
    <3> HIDE DEF ua
    <3>2. Hits(fua, Ends) = Hits(f, Ends) + Hits(ua, Ends)
      BY <2>9, <2>11, HitsConcat
    <3> HIDE DEF fua
    <3>3. Hits(fua \o d, Ends) = Hits(fua, Ends) + Hits(d, Ends)
      BY <2>9, <2>11, HitsConcat
    <3>4. Hits(f, Ends) \in Nat /\ Hits(u, Ends) \in Nat /\ Hits(a, Ends) \in Nat
      BY <2>6, <2>9, HitsType
    <3> QED BY <2>6, <2>10, <3>1, <3>2, <3>3, <3>4
  <2>14. pipe_flushed' = fua \o d
    BY <2>5
  <2> HIDE DEF ua, fua
  <2>15. pipe_reader' \in {"awake", "asleep", "signalled"} /\ (toReader' = toReader \/ (~writer_gone /\ toReader' = Append(toReader, "activate_reader")))
    BY <1>1, <1>3, <2>5, Woken
  <2>16. PipeCommands' /\ toReader' \in Seq({"activate_reader", "pipe_term_ack"})
    <3>1. /\ toReader' \in Seq({"activate_reader", "pipe_term_ack"})
          /\ \A j \in DOMAIN toReader' : toReader'[j] # "pipe_term_ack"
      <4>1. \A j \in DOMAIN toReader : toReader[j] # "pipe_term_ack"
        BY <1>1, <1>3 DEF PipeCommands
      <4>2. CASE toReader' = toReader
        BY <1>1, <4>1, <4>2
      <4>3. CASE toReader' = Append(toReader, "activate_reader")
        <5>1. Len(toReader) \in Nat /\ DOMAIN toReader' = 1..Len(toReader) + 1 /\ toReader'[Len(toReader) + 1] = "activate_reader" /\ DOMAIN toReader = 1..Len(toReader)
              /\ (\A j \in 1..Len(toReader) : toReader'[j] = toReader[j]) /\ toReader' \in Seq({"activate_reader", "pipe_term_ack"})
          BY <1>1, <4>3
        <5> QED BY <4>1, <5>1
      <4> QED BY <2>15, <4>2, <4>3
    <3> QED BY <1>2, <1>3, <1>4, <3>1 DEF PipeCommands
  <2>17. msgs_written' + Hits(swap', Ends) = Pi!LastComplete[1] /\ Hits(swap', Ends) \in Nat /\ msgs_written' \in 0..MaxMessages
    <3>1. Hits(swap', Ends) \in Nat
      BY <2>7, HitsType
    <3>2. msgs_written + Hits(swap, Ends) = Pi!LastComplete[1]
      BY <1>1 DEF PipeCounts
    <3>3. Pi!LastComplete[1] <= MaxMessages /\ MaxMessages \in Nat
      <4>1. last_written[1] \in 0..MaxMessages /\ MaxMessages \in Nat
        BY <1>1, PartFields, PipeFacts DEF Pi!TypeOK
      <4>2. Pi!LastComplete[1] = (IF Pi!More(last_written) THEN last_written[1] - 1 ELSE last_written[1])
        BY DEF Pi!LastComplete
      <4> QED BY <4>1, <4>2
    <3> DEFINE h == Hits(swap', Ends)
               g == Hits(swap, Ends)
               c == Pi!LastComplete[1]
    <3>4. h \in Nat /\ msgs_written + g = c /\ g = Ended(k) + h /\ c <= MaxMessages /\ msgs_written' = msgs_written + Ended(k) /\ msgs_written \in Nat /\ Ended(k) \in Nat
      BY <1>7, <2>5, <2>7, <2>13, <3>1, <3>2, <3>3
    <3> HIDE DEF h, g, c
    <3>5. msgs_written' + h = c /\ msgs_written' \in 0..MaxMessages
      BY <3>3, <3>4
    <3> QED BY <3>1, <3>5 DEF h, c
  <2>18. Pi!TypeOK'
    <3>1. Pi!ypipe!QueueTypeOK'
      <4>1. pipe_partial' \in Seq(W) /\ pipe_unflushed' \in Seq(W) /\ pipe_flushed' \in Seq(W)
        BY <2>5, <2>6, <2>11, <2>14, EmptySeq, SeqMonotonic DEF W
      <4> QED BY <2>15, <4>1 DEF Pi!ypipe!QueueTypeOK, W
    <3>2. Len(swap') <= Pi!SwapSize'
      <4>1. Len(swap) <= Pi!SwapSize /\ Pi!SwapSize \in Nat /\ Len(swap') = Len(swap) - k /\ k \in Nat
        BY <1>1, <2>2, <2>7, KindFields DEF Pi!TypeOK
      <4> QED BY <1>6, <2>8, <4>1
    <3>3. swapping' \in BOOLEAN
      BY <2>5
    <3>4. created' \in PipeKinds /\ {last_written', last_read'} \subseteq Pi!Part \union {Pi!NoPart}
      BY <1>1, <1>2 DEF Pi!TypeOK
    <3>5. {reader_active', reader_terminating', reader_gone', writer_active', swapping', pending_delimiter', writer_terminating', writer_gone', rollback_ok'} \subseteq BOOLEAN
      BY <1>1, <1>2, <1>5, <3>3 DEF Pi!TypeOK
    <3>6. {reader_read', msgs_read', msgs_written'} \subseteq 0..MaxMessages
      BY <1>1, <1>2, <1>4, <2>17 DEF Pi!TypeOK
    <3> QED BY <1>4, <2>7, <2>16, <3>1, <3>2, <3>4, <3>5, <3>6 DEF Pi!TypeOK
  <2>19. PipeModes'
    <3>1. swapping' => pipe_partial' = <<>> /\ Pi!hwm' > 0
      <4>1. ASSUME swapping' PROVE b = <<>>
        <5>0. k # Len(swap)
          BY <2>5, <4>1
        <5>1. k <= Kept
          BY <2>2, <2>6, <2>8, <5>0
        <5>2. z = k
          BY <2>3, <5>1
        <5> QED BY <2>2, <2>8, <5>2, SubSeqEmpty DEF b
      <4> QED BY <1>6, <2>1, <2>5, <4>1
    <3>2. ~swapping' => swap' = <<>>
      <4>1. ASSUME ~swapping' PROVE Len(swap') = 0
        <5>1. k = Len(swap)
          BY <2>5, <4>1
        <5> QED BY <2>7, <2>8, <5>1
      <4> QED BY <2>7, <4>1, EmptySeq
    <3>3. pipe_unflushed' \in Seq(Pi!Part) /\ pipe_partial' \in Seq(Pi!Part)
      BY <2>5, <2>6, EmptySeq
    <3>4. (pending_delimiter' => writer_terminating') /\ (writer_terminating' => ~writer_active' /\ ~Pi!More(last_written'))
      BY <1>1, <1>2, <1>5 DEF PipeModes
    <3> QED BY <2>7, <3>1, <3>2, <3>3, <3>4 DEF PipeModes, Pi!More
  <2>20. Broken = SubSeq(swap, Kept + 1, Len(swap)) /\ SubSeq(swap, Kept + 1, Len(swap)) \in Seq(Item)
    <3>1. pipe_partial = <<>> /\ SubSeq(swap, Kept + 1, Len(swap)) \in Seq(Item)
      BY <1>1, <1>9, WholeTypes DEF PipeModes
    <3>2. <<>> \o SubSeq(swap, Kept + 1, Len(swap)) = SubSeq(swap, Kept + 1, Len(swap))
      BY <3>1, ConcatEmptySeq
    <3> QED BY <3>1, <3>2 DEF Broken, BrokenOf
  <2>21. Broken' = Broken
    BY <2>5, <2>7, <2>20 DEF Broken, BrokenOf
  <2>22. PipeCounts'
    <3>1. Hits(pipe_flushed, Ends)' = Hits(fua \o d, Ends) /\ Hits(pipe_unflushed, Ends)' = 0 /\ Hits(swap, Ends)' = Hits(swap', Ends)
      <4>1. Hits(pipe_unflushed', Ends) = 0
        BY <2>5, HitsEmpty
      <4> QED BY <2>14, <4>1 DEF Hits, Places, Ends, Pi!More
    <3>2. ~reader_gone' => reader_read' + Hits(pipe_flushed, Ends)' + Hits(pipe_unflushed, Ends)' = msgs_written'
      <4>1. reader_read + Hits(f, Ends) + Hits(u, Ends) = msgs_written
        BY <1>1, <1>3 DEF PipeCounts, f, u
      <4> QED BY <1>2, <1>7, <2>5, <2>13, <3>1, <4>1
    <3>3. msgs_written' + Hits(swap, Ends)' = Pi!LastComplete'[1]
      BY <1>6, <2>17, <3>1
    <3>4. /\ msgs_read' <= reader_read' /\ reader_read' <= msgs_written'
          /\ msgs_written' - msgs_read' <= Pi!hwm'
      <4>1. reader_read <= msgs_written
        BY <1>1 DEF PipeCounts
      <4>2. Ended(k) \in Nat /\ Ended(k) <= Pi!hwm - (msgs_written - msgs_read')
        BY <1>2, <2>1, <2>8
      <4> DEFINE e == Ended(k)
      <4>3. e \in Nat /\ e <= Pi!hwm - (msgs_written - msgs_read') /\ msgs_written' = msgs_written + e
        BY <2>5, <4>2
      <4> HIDE DEF e
      <4>4. \A h, m, r, w, g \in Nat : g <= h - (w - m) /\ r <= w => r <= w + g /\ (w + g) - m <= h
        OBVIOUS
      <4>5. reader_read <= msgs_written + e /\ (msgs_written + e) - msgs_read' <= Pi!hwm
        BY <1>7, <4>1, <4>3, <4>4
      <4>6. msgs_read' <= reader_read /\ reader_read' = reader_read
        BY <1>2, <1>4
      <4> QED BY <1>6, <4>3, <4>5, <4>6
    <3>5. ~swapping' /\ Pi!More(last_written)' => msgs_written' - msgs_read' < Pi!hwm'
      <4> SUFFICES ASSUME ~swapping', Pi!More(last_written) PROVE msgs_written' - msgs_read' < Pi!hwm'
        BY <1>6
      <4>1. k = Len(swap) /\ ~writer_terminating
        BY <1>1, <2>5 DEF PipeModes
      <4>2. Broken # <<>>
        BY <1>3, <4>1 DEF PipeChain
      <4>3. Kept < Len(swap)
        <5>1. ASSUME Kept = Len(swap) PROVE FALSE
          BY <2>8, <2>20, <4>2, <5>1, SubSeqEmpty
        <5> QED BY <2>8, <5>1
      <4>4. k \in 1..Len(swap) /\ k \in DOMAIN swap /\ k > commit /\ k - 1 \in 0..k - 1 /\ k - 1 \in 0..Len(swap)
        <5>1. commit <= Kept /\ commit \in Int /\ DOMAIN swap = 1..Len(swap)
          BY <1>1, <2>8, PipeTypes DEF Kept
        <5> QED BY <2>8, <4>1, <4>3, <5>1
      <4>5. Pi!More(swap[k])
        BY <1>1, <4>4 DEF PipeModes
      <4>6. Ended(k) = Ended(k - 1) + 0 /\ Ended(k - 1) \in Nat /\ Ended(k - 1) < room
        BY <2>8, <4>4, <4>5, OneMoreEnded, Prefix
      <4> DEFINE e == Ended(k - 1)
      <4>7. e \in Nat /\ e < Pi!hwm - (msgs_written - msgs_read') /\ msgs_written' = msgs_written + (e + 0)
        BY <1>2, <2>5, <4>6
      <4> HIDE DEF e
      <4> QED BY <1>6, <1>7, <4>7
    <3> QED BY <1>2, <1>4, <3>2, <3>3, <3>4, <3>5 DEF PipeCounts
  <2>23. Closed(pipe_flushed)' /\ Closed(pipe_unflushed)'
    BY <2>5, <2>12, <2>14 DEF Closed
  <2> DEFINE x == SubSeq(swap, 1, Kept)
             y == SubSeq(swap', 1, Kept')
             l == <<last_read>>
  <2>24. /\ l \in Seq(Item) /\ f \in Seq(Item) /\ u \in Seq(Item) /\ a \in Seq(Item) /\ x \in Seq(Item) /\ y \in Seq(Item) /\ d \in Seq(Item)
         /\ Cat(a, y) = x
    <3>1. l \in Seq(Item) /\ f \in Seq(Item) /\ u \in Seq(Item) /\ x \in Seq(Item)
      BY <1>1, PipeTypes, WholeTypes DEF f, u
    <3>2. Pi!Part \subseteq Item /\ Delimiter \in Item
      BY DEF Item
    <3>3. y \in Seq(Pi!Part)
      <4>1. \A q \in 0..Len(swap') : SubSeq(swap', 0 + 1, q) \in Seq(Pi!Part)
        <5>1. Len(swap') \in Nat
          BY <2>7
        <5>2. 0 \in 0..Len(swap') /\ \A q \in 0..Len(swap') : q \in 0..Len(swap')
          BY <5>1
        <5> QED BY <2>7, <5>2, Slice
      <4>2. 0 + 1 = 1
        OBVIOUS
      <4> QED BY <2>7, <4>1, <4>2
    <3>4. a \in Seq(Item) /\ y \in Seq(Item)
      BY <2>6, <3>2, <3>3, SeqMonotonic
    <3>5. d \in Seq(Item)
      BY <3>2, EmptySeq DEF d
    <3> QED BY <2>7, <3>1, <3>4, <3>5 DEF Cat
  <2>25. Whole = Cat(l, Cat(f, Cat(u, Cat(a, y)))) /\ Whole' = Cat(l, Cat(Cat(Cat(f, Cat(u, a)), d), y))
    <3>1. <<>> \o y = y
      BY <2>24, ConcatEmptySeq
    <3>2. Whole = l \o (f \o (u \o x))
      BY DEF Whole, WholeOf, f, u
    <3>3. Whole' = l \o ((fua \o d) \o (<<>> \o y))
      BY <1>2, <2>5, <2>14 DEF Whole, WholeOf
    <3> HIDE DEF l, x, y
    <3> QED BY <2>24, <3>1, <3>2, <3>3 DEF Cat, fua, ua
  <2> DEFINE S == Seq(Item)
  <2>26. (\A s, t \in S : Cat(s, t) \in S) /\ (\A r, s, t \in S : Cat(Cat(r, s), t) = Cat(r, Cat(s, t))) /\ \A s \in S : Cat(s, <<>>) = s
    <3>1. \A s, t \in S : Cat(s, t) \in S
      BY CatFacts
    <3>2. \A r, s, t \in S : Cat(Cat(r, s), t) = Cat(r, Cat(s, t))
      BY CatFacts
    <3>3. \A s \in S : Cat(s, <<>>) = s
      BY ConcatEmptySeq DEF Cat
    <3> QED BY <3>1, <3>2, <3>3
  <2>27. l \in S /\ f \in S /\ u \in S /\ a \in S /\ y \in S /\ d \in S
    BY <2>24
  <2>28. ASSUME ~(k = Len(swap) /\ pending_delimiter) PROVE PipeChain'
    <3>1. d = <<>>
      BY <2>28 DEF d
    <3> HIDE DEF S, l, x, y
    <3>2. Cat(f, Cat(u, a)) \in S /\ Cat(u, a) \in S
      BY <2>26, <2>27
    <3>3. Cat(Cat(f, Cat(u, a)), d) = Cat(f, Cat(u, a))
      BY <2>26, <3>1, <3>2
    <3>4. Cat(Cat(f, Cat(u, a)), y) = Cat(f, Cat(u, Cat(a, y)))
      BY <2>26, <2>27, <3>2
    <3>5. Whole' = Whole
      BY <2>25, <3>3, <3>4
    <3> QED BY <1>2, <1>3, <1>9, <2>21, <2>23, <3>5, ChainMoved
  <2>29. ASSUME k = Len(swap) /\ pending_delimiter PROVE PipeChain'
    <3>1. d = <<Delimiter>> /\ writer_terminating /\ ~swapping' /\ ~Pi!More(last_written)
      BY <1>1, <2>5, <2>29 DEF d, PipeModes
    <3>2. y = <<>>
      <4>1. Len(swap') = 0
        BY <2>7, <2>8, <2>29
      <4>2. Kept' = 0
        BY <2>7, <4>1
      <4> QED BY <4>2, SubSeqEmpty
    <3> HIDE DEF S, l, x, y
    <3>3. Cat(f, Cat(u, a)) \in S /\ Cat(u, a) \in S /\ Cat(Cat(f, Cat(u, a)), d) \in S
      BY <2>26, <2>27
    <3>4. Whole = Cat(l, Cat(f, Cat(u, a)))
      BY <2>25, <2>26, <2>27, <3>2
    <3>5. Whole' = Cat(l, Cat(Cat(f, Cat(u, a)), d))
      BY <2>25, <2>26, <3>2, <3>3
    <3>6. Whole' = Cat(Whole, d)
      BY <2>26, <2>27, <3>3, <3>4, <3>5
    <3>7. Whole' = Append(Whole, Delimiter)
      <4>1. Whole \in Seq(Item) /\ Delimiter \in Item
        BY <1>1, WholeTypes DEF Item
      <4>2. Append(Whole, Delimiter) = Whole \o <<Delimiter>>
        BY <4>1, AppendIsConcat
      <4> QED BY <3>1, <3>6, <4>2 DEF Cat
    <3>8. Broken = <<>>
      BY <1>3, <3>1 DEF PipeChain
    <3>9. Whole[Len(Whole)] # Delimiter
      BY <1>3, <1>9 DEF PipeChain
    <3> QED BY <1>1, <1>2, <1>3, <1>6, <2>21, <2>23, <3>1, <3>7, <3>8, <3>9, ChainDelimited
  <2>30. PipeChain'
    BY <2>28, <2>29
  <2> QED BY <2>16, <2>18, <2>19, <2>22, <2>30 DEF PipeInv
<1> QED BY <1>8, <1>9

LEMMA PipeStep == ASSUME PipeInv, Pi!Next PROVE PipeInv'
<1>1. rollback_ok /\ (Pi!WriterNext \/ Pi!ReaderNext)
  BY DEF Pi!Next
<1>2. CASE Pi!CheckWriteFails
  BY <1>1, <1>2, CheckWriteFailsStep
<1>3. CASE \E p \in Pi!NextParts : Pi!Write(p)
  <2>1. PICK p \in Pi!NextParts : Pi!Write(p)
    BY <1>3
  <2> QED BY <1>1, <2>1, WriteStep
<1>4. CASE Pi!Flush
  BY <1>1, <1>4, FlushStep
<1>5. CASE Pi!Rollback
  BY <1>1, <1>5, RollbackStep
<1>6. CASE Pi!TerminateWriter
  BY <1>1, <1>6, TerminateWriterStep
<1>7. CASE Pi!ProcessActivateWriter
  BY <1>1, <1>7, ActivateWriterStep
<1>8. CASE Pi!ProcessPipeTerm
  BY <1>1, <1>8, PipeTermStep
<1>9. CASE Pi!FindNothing
  BY <1>1, <1>9, FindNothingStep
<1>10. CASE Pi!FindDelimiter
  BY <1>1, <1>10, FindDelimiterStep
<1>11. CASE Pi!ReadPart
  BY <1>1, <1>11, ReadPartStep
<1>12. CASE Pi!CloseReader
  BY <1>1, <1>12, CloseReaderStep
<1>13. CASE Pi!ProcessActivateReader
  BY <1>1, <1>13, ActivateReaderStep
<1>14. CASE Pi!ProcessPipeTermAck
  BY <1>1, <1>14, PipeTermAckStep
<1> QED BY <1>1, <1>2, <1>3, <1>4, <1>5, <1>6, <1>7, <1>8, <1>9, <1>10, <1>11, <1>12, <1>13, <1>14 DEF Pi!WriterNext, Pi!ReaderNext

LEMMA PipeStutter == ASSUME PipeInv, UNCHANGED pipeEndVars PROVE PipeInv'
<1>1. /\ UNCHANGED <<created, pipe_partial, pipe_unflushed, pipe_flushed, pipe_reader, reader_active, reader_read>>
      /\ UNCHANGED <<reader_terminating, reader_gone, last_read, writer_active, msgs_read, msgs_written, swapping>>
      /\ UNCHANGED <<pending_delimiter, writer_terminating, writer_gone, swap, commit, rollback_ok, toReader, toWriter, last_written>>
  BY DEF pipeEndVars
<1>2. Pi!TypeOK /\ PipeModes /\ PipeCommands /\ PipeCounts /\ toWriter \in Seq(Pi!Command)
  BY DEF PipeInv, Pi!TypeOK
<1>3. Pi!TypeOK'
  BY <1>1, <1>2 DEF Pi!TypeOK, Pi!ypipe!QueueTypeOK, Pi!SwapSize
<1>4. PipeModes'
  <2>1. writer_terminating => ~writer_active'
    BY <1>1, <1>2 DEF PipeModes
  <2> QED BY <1>1, <1>2, <2>1, ModesKept
<1>5. PipeCommands'
  BY <1>1, <1>2 DEF PipeCommands
<1>6. PipeCounts'
  BY <1>1, <1>2, CountsKept
<1>7. ~reader_gone /\ rollback_ok => PipeChain'
  BY <1>1, ChainKept DEF PipeInv
<1> QED BY <1>1, <1>3, <1>4, <1>5, <1>6, <1>7 DEF PipeInv

(***************************************************************************)
(* The parts side by side: a step of one leaves the others alone.          *)
(***************************************************************************)
LEMMA PartsKeep ==
  ASSUME [PartsNext]_partVars
  PROVE  /\ [Next]_mailboxVars /\ [Pi!Next]_pipeEndVars /\ [Tree!Next]_ownVars
         /\ [Ctx!Next]_contextVars /\ [Calls!Next]_callVars
<1> DEFINE Kinds == {"mailbox", "pipe", "own", "context", "calls"}
<1>1. CASE UNCHANGED partVars
  BY <1>1 DEF partVars
<1>2. ASSUME NEW mine \in Kinds, Others(mine), NEW others \in Kinds \ {mine}
      PROVE  /\ others = "mailbox" => UNCHANGED mailboxVars
             /\ others = "pipe" => UNCHANGED pipeEndVars
             /\ others = "own" => UNCHANGED ownVars
             /\ others = "context" => UNCHANGED contextVars
             /\ others = "calls" => UNCHANGED callVars
  BY <1>2 DEF Others
<1>3. CASE PartsNext
  BY <1>2, <1>3 DEF PartsNext
<1> QED BY <1>1, <1>3

\* mailbox.cpp, beside the other parts.
THEOREM MailboxOfParts == PartsSpec => []MailboxSound
<1>1. PartsInit => Init
  BY DEF PartsInit
<1>2. [PartsNext]_partVars => [Next]_vars
  BY PartsKeep DEF mailboxVars
<1>3. PartsSpec => Spec
  BY <1>1, <1>2, PTL DEF PartsSpec, Spec
<1> QED BY <1>3, MailboxSoundHolds, PTL

\* The pipes, and the calls of a socket.
LEMMA TrafficStep ==
  ASSUME PipeInv, CallsInv, [PartsNext]_partVars
  PROVE  PipeInv' /\ CallsInv'
BY PartsKeep, PipeStep, PipeStutter, CallsStep, CallsStutter

\* pipe.cpp, socket_base.cpp, zmq.cpp: for any watermark, any size of the swap and
\* any number of messages, those of a pipe arrive whole and in order until a rollback
\* leaves its swap wrong (swap.cpp:176), the watermark is kept, and no end sends a
\* command to one that is gone; a call skips no message but those that a signal makes
\* a recv lose (socket_base.cpp:572), one at the most for each signal, and none waits
\* without a command to come.
THEOREM TrafficSoundHolds == PartsSpec => []TrafficSound
<1> DEFINE Inv == PipeInv /\ CallsInv
<1>1. PartsInit => Inv
  BY PipeStart, CallsStart DEF PartsInit
<1>2. Inv /\ [PartsNext]_partVars => Inv'
  BY TrafficStep
<1>3. Inv => TrafficSound
  BY PipeIsSound, CallsAreSound DEF TrafficSound
<1> HIDE DEF Inv
<1> QED BY <1>1, <1>2, <1>3, PTL DEF PartsSpec

\* ctx.cpp, reaper.cpp, socket_base.cpp: for any number of sockets, endpoints,
\* connections and interruptions, a slot belongs to one socket, a socket that was
\* found stays until it is sent the bind, the reaper ends after the last socket,
\* and zmq_term returns when all are gone.
THEOREM ContextSoundHolds == PartsSpec => []Ctx!ContextSound
<1>1. PartsInit => CtxInv
  BY CtxStart DEF PartsInit
<1>2. CtxInv /\ [PartsNext]_partVars => CtxInv'
  BY PartsKeep, ContextStep, ContextStutter
<1>3. CtxInv => Ctx!ContextSound
  BY ContextIsSound
<1> QED BY <1>1, <1>2, <1>3, PTL DEF PartsSpec
=============================================================================
