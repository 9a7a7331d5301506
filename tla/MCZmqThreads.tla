---------------------------- MODULE MCZmqThreads ----------------------------
(***************************************************************************)
(* Small instances of the parts of ZeroMQ that run in several threads.     *)
(***************************************************************************)
EXTENDS ZmqThreads, TLC

CONSTANTS
  socket, listener, init, session,   \* a tree of objects
  reaper, io1, io2                   \* threads

\* A pipe that is full stops its session, which writes batches; or it has a
\* swap, and a socket or a session writes to it.
Swapped(batches) == [hwm |-> 2, swap_size |-> 3, batches |-> batches]
FullOrSwapped ==
  {[hwm |-> 3, swap_size |-> 0, batches |-> TRUE], Swapped(FALSE), Swapped(TRUE)}
SwappedBatches == {Swapped(TRUE)}

\* The root in the reaper's thread and its objects in two I/O threads; or all of
\* these in one, with a session that has a name and an endpoint that is found.
InTwo == socket :> reaper @@ listener :> io1 @@ init :> io1 @@ session :> io2
InOne == socket :> reaper @@ listener :> io1 @@ init :> io1 @@ session :> io1
TwoOrOne == {[home |-> InTwo, named |-> {}, finds |-> 0], [home |-> InOne, named |-> {session}, finds |-> 1]}
=============================================================================
