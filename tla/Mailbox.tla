------------------------------ MODULE Mailbox ------------------------------
(***************************************************************************)
(* mailbox_t: commands of any number of sending threads to one receiving   *)
(* thread, through a ypipe_t whose writing side is serialized by a mutex.  *)
(* The receiver is woken by a byte in a socket pair, which stays there     *)
(* while the mailbox is active, so that its descriptor polls as readable.  *)
(*                                                                         *)
(* The thread that receives also destroys the mailbox, once it has got all *)
(* the commands that were to come (own_t and ctx_t count them).            *)
(***************************************************************************)
EXTENDS Integers, Sequences

CONSTANTS
  Sender,
  MaxCommands,  \* commands each sender sends
  Nobody        \* the mutex is free

ASSUME MailboxAssumption == MaxCommands \in Nat \ {0} /\ Nobody \notin Sender

VARIABLES
  partial, unflushed, flushed, reader,  \* cpipe
  sync,      \* who holds the mutex
  signals,   \* bytes in the socket pair
  active,
  sending,   \* where each sender is in send()
  sent,      \* how many commands each sender has written
  receiving, \* where the receiver is in recv()
  received,  \* the commands it returned
  destroyed

pipeVars == <<partial, unflushed, flushed, reader>>
vars == <<pipeVars, sync, signals, active, sending, sent, receiving, received, destroyed>>

Command == Sender \X (1..MaxCommands)

\* The commands that were to come have been received.
Complete == \A cmd \in Command : \E i \in DOMAIN received : received[i] = cmd

cpipe == INSTANCE FlushedQueue WITH Value <- Command

SendStep == {"idle", "locked", "flush", "unlock", "unlockAndSignal", "signal"}

TypeOK ==
  /\ cpipe!QueueTypeOK
  /\ sync \in Sender \union {Nobody}
  /\ signals \in Nat
  /\ active \in BOOLEAN
  /\ sending \in [Sender -> SendStep]
  /\ sent \in [Sender -> 0..MaxCommands]
  /\ receiving \in {"idle", "drain", "wait", "signalled", "read"}
  /\ received \in Seq(Command)
  /\ destroyed \in BOOLEAN

\* The constructor reads the empty pipe to put it into its passive state.
Init ==
  /\ partial = <<>> /\ unflushed = <<>> /\ flushed = <<>> /\ reader = "asleep"
  /\ sync = Nobody
  /\ signals = 0
  /\ active = FALSE
  /\ sending = [s \in Sender |-> "idle"]
  /\ sent = [s \in Sender |-> 0]
  /\ receiving = "idle"
  /\ received = <<>>
  /\ destroyed = FALSE

(***************************************************************************)
(* send.                                                                   *)
(***************************************************************************)
SenderUnchanged == UNCHANGED <<active, receiving, received, destroyed>>

Lock(s) ==
  /\ sending[s] = "idle" /\ sent[s] < MaxCommands
  /\ sync = Nobody
  /\ sync' = s
  /\ sending' = [sending EXCEPT ![s] = "locked"]
  /\ UNCHANGED <<pipeVars, signals, sent>> /\ SenderUnchanged

Write(s) ==
  /\ sending[s] = "locked"
  /\ cpipe!Write(<<s, sent[s] + 1>>, FALSE)
  /\ sent' = [sent EXCEPT ![s] = @ + 1]
  /\ sending' = [sending EXCEPT ![s] = "flush"]
  /\ UNCHANGED <<sync, signals>> /\ SenderUnchanged

\* Mutant of Flush: what flush returns is ignored.
FlushOnly(s) ==
  /\ sending[s] = "flush"
  /\ cpipe!Flush
  /\ sending' = [sending EXCEPT ![s] = "unlock"]
  /\ UNCHANGED <<sync, signals, sent>> /\ SenderUnchanged

Flush(s) ==
  /\ sending[s] = "flush"
  /\ cpipe!Flush
  /\ sending' = [sending EXCEPT ![s] = IF reader = "asleep" THEN "unlockAndSignal" ELSE "unlock"]
  /\ UNCHANGED <<sync, signals, sent>> /\ SenderUnchanged

Unlock(s) ==
  /\ sending[s] \in {"unlock", "unlockAndSignal"}
  /\ sync' = Nobody
  /\ sending' = [sending EXCEPT ![s] = IF @ = "unlock" THEN "idle" ELSE "signal"]
  /\ UNCHANGED <<pipeVars, signals, sent>> /\ SenderUnchanged

SignalerSend(s) ==
  /\ sending[s] = "signal"
  /\ signals' = signals + 1
  /\ sending' = [sending EXCEPT ![s] = "idle"]
  /\ UNCHANGED <<pipeVars, sync, sent>> /\ SenderUnchanged

(***************************************************************************)
(* recv.                                                                   *)
(***************************************************************************)
ReceiverUnchanged == UNCHANGED <<sync, sending, sent, destroyed>>

\* recv is called: read at once if the mailbox is active, else wait.
Recv ==
  /\ receiving = "idle" /\ ~Complete
  /\ IF ~active
       THEN /\ receiving' = "wait"
            /\ UNCHANGED <<pipeVars, received, active>>
       ELSE IF flushed # <<>>
         THEN /\ cpipe!Read
              /\ received' = Append(received, Head(flushed))
              /\ UNCHANGED <<receiving, active>>
         ELSE /\ cpipe!Sleep
              /\ active' = FALSE
              /\ receiving' = "drain"
              /\ UNCHANGED received
  /\ UNCHANGED signals /\ ReceiverUnchanged

\* The byte that woke the mailbox is taken out now that it is passive again.
SignalerRecv ==
  /\ receiving = "drain"
  /\ signals' = signals - 1
  /\ receiving' = "wait"
  /\ UNCHANGED <<pipeVars, active, received>> /\ ReceiverUnchanged

\* wait comes back: with a signal, or interrupted, or because time is up.
WaitSignalled ==
  /\ receiving = "wait" /\ signals > 0
  /\ receiving' = "signalled"
  /\ UNCHANGED <<pipeVars, signals, active, received>> /\ ReceiverUnchanged

WaitFailed ==
  /\ receiving = "wait"
  /\ receiving' = "idle"
  /\ UNCHANGED <<pipeVars, signals, active, received>> /\ ReceiverUnchanged

\* Mutant of Activate: the byte is taken out already.
ActivateDraining ==
  /\ receiving = "signalled"
  /\ active' = TRUE
  /\ cpipe!Wake
  /\ signals' = signals - 1
  /\ receiving' = "read"
  /\ UNCHANGED received /\ ReceiverUnchanged

\* The mailbox is active again, and so is the reader of the pipe.
Activate ==
  /\ receiving = "signalled"
  /\ active' = TRUE
  /\ cpipe!Wake
  /\ receiving' = "read"
  /\ UNCHANGED <<signals, received>> /\ ReceiverUnchanged

\* The code asserts that there is a command.
ReadCommand ==
  /\ receiving = "read"
  /\ cpipe!Read
  /\ received' = Append(received, Head(flushed))
  /\ receiving' = "idle"
  /\ UNCHANGED <<signals, active>> /\ ReceiverUnchanged

\* The destructor waits until it can have the mutex.
Destroy ==
  /\ receiving = "idle" /\ Complete /\ ~destroyed
  /\ sync = Nobody
  /\ destroyed' = TRUE
  /\ UNCHANGED <<pipeVars, sync, signals, active, sending, sent, receiving, received>>

SendNext == \E s \in Sender : Lock(s) \/ Write(s) \/ Flush(s) \/ Unlock(s) \/ SignalerSend(s)
RecvNext == Recv \/ SignalerRecv \/ WaitSignalled \/ WaitFailed \/ Activate \/ ReadCommand \/ Destroy
Next == SendNext \/ RecvNext

\* A thread inside send() goes on; the receiver keeps calling recv and does
\* not miss a signal for ever, although wait may be interrupted.
SendGoesOn(s) == Write(s) \/ Flush(s) \/ Unlock(s) \/ SignalerSend(s)
RecvGoesOn == Recv \/ SignalerRecv \/ Activate \/ ReadCommand
Fairness ==
  (\A s \in Sender : WF_vars(SendGoesOn(s))) /\ WF_vars(RecvGoesOn) /\ SF_vars(WaitSignalled)

Spec == Init /\ [][Next]_vars
FairSpec == Spec /\ Fairness

(***************************************************************************)
(* Properties.                                                             *)
(***************************************************************************)

\* Senders that found the reader asleep and have not signalled yet.
Owing == {s \in Sender : sending[s] \in {"unlockAndSignal", "signal"}}

\* mailbox.cpp:74 and signaler.cpp:195: after a signal there is a command to
\* read, and when a mailbox becomes passive there is a byte to take out, since
\* both are asserted by the code.
AssertionsHold ==
  /\ receiving \in {"signalled", "read"} => flushed # <<>>
  /\ receiving = "drain" => signals > 0

\* A passive mailbox with a command in it has its signal, or a sender that is
\* about to send it: a receiver never waits beside a command.
NoLostWakeup == ~active /\ flushed # <<>> => signals > 0 \/ Owing # {}

\* The descriptor is polled from outside: an active mailbox is readable, so
\* whoever polls before the commands are used up does not block on them.
ActiveIsReadable == active => signals > 0

\* mailbox.cpp:39, "other threads might still be in our send() method": none
\* touches the mutex, the pipe or the socket pair after the destructor.
NoneInSendAfterwards == destroyed => \A s \in Sender : sending[s] = "idle"

\* Every command is received, and those of each sender in the order it sent them.
AllReceived ==
  <>[](\A s \in Sender :
         SelectSeq(received, LAMBDA c : c[1] = s) = [k \in 1..sent[s] |-> <<s, k>>])

\* The safety of a mailbox: the code's assertions hold, no receiver waits beside
\* a command, whoever polls the descriptor finds out about it, and no sender is
\* still inside when the mailbox goes.
MailboxSound == TypeOK /\ AssertionsHold /\ NoLostWakeup /\ ActiveIsReadable /\ NoneInSendAfterwards
=============================================================================
