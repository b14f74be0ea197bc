------------------------------ MODULE SendWindow ------------------------------
(***************************************************************************)
(* What rd's ByteBufferAsyncProcessor promises to the wire that owns it:   *)
(* the packages handed to put are numbered 1, 2, 3, ... in the order they  *)
(* were put, a number is first transmitted only after every smaller one,   *)
(* and only transmitted packages that are not yet acknowledged are ever    *)
(* transmitted again.  Threads, locks and the three queues are not visible *)
(* here: ByteBufferAsyncProcessor.tla is shown to implement this module.   *)
(***************************************************************************)
EXTENDS Naturals

VARIABLES
  total,    \* packages accepted by put so far
  high,     \* the largest package number transmitted so far
  acked     \* the largest package number acknowledged so far

window == <<total, high, acked>>

WindowInit == total = 0 /\ high = 0 /\ acked = 0

\* Some packages are accepted and will get the next numbers.
Accept ==
  /\ total' \in Nat /\ total' > total
  /\ UNCHANGED <<high, acked>>

\* The oldest package that was never transmitted is transmitted.
Transmit ==
  /\ high < total
  /\ high' = high + 1
  /\ UNCHANGED <<total, acked>>

\* The peer confirms a transmitted package, and with it all smaller ones.
Acknowledge ==
  /\ acked' \in acked + 1 .. high
  /\ UNCHANGED <<total, high>>

WindowNext == Accept \/ Transmit \/ Acknowledge

WindowSpec == WindowInit /\ [][WindowNext]_window
===============================================================================
