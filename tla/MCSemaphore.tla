---------------------------- MODULE MCSemaphore ----------------------------
(* Instances of Semaphore for TLC.                                         *)
EXTENDS Semaphore, TLC

CONSTANTS waiter, signaler, a, b

\* Every list shape that takes its own path: none, one, two, one semaphore
\* twice.
AllWaitLists ==
  {<<>>, << <<a, 1>> >>, << <<a, 1>>, <<b, 1>> >>, << <<a, 1>>, <<a, 2>> >>}
AllSignalLists ==
  {<<>>, << <<a, 1>> >>, << <<a, 2>> >>, << <<b, 1>>, <<a, 1>> >>}

\* Two semaphores and single or paired lists, for the violation run.
PairLists == { << <<a, 1>> >>, << <<a, 1>>, <<b, 1>> >> }
PairSignals == { << <<a, 1>> >>, << <<b, 1>>, <<a, 1>> >> }

\* One thread waits, the others do everything else.
OneWaiter == [t \in Threads |-> IF t = waiter THEN {"wait"} ELSE Ops \ {"wait"}]
=============================================================================
