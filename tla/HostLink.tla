------------------------------- MODULE HostLink -------------------------------
(***************************************************************************)
(* What the exchange of fragments between the host and one controller      *)
(* promises: in each direction a fragment is taken once, and the next one  *)
(* is offered only after that.                                             *)
(***************************************************************************)
EXTENDS Naturals

CONSTANTS Numbers   \* fragments are numbered modulo this, which is more than 1

VARIABLES
  toDevice, taken,    \* number of the fragment the host offers, and of the
                      \* last one the controller has taken
  toHost, seen        \* the same for the fragments of the controller

Offer(offered, got, offeredNext, gotNext) ==
  /\ offered = got
  /\ offeredNext = (offered + 1) % Numbers
  /\ gotNext = got

Take(offered, got, offeredNext, gotNext) ==
  /\ offered # got
  /\ gotNext = offered
  /\ offeredNext = offered

Same(offered, got, offeredNext, gotNext) == offeredNext = offered /\ gotNext = got

Step(offered, got, offeredNext, gotNext) ==
  \/ Offer(offered, got, offeredNext, gotNext)
  \/ Take(offered, got, offeredNext, gotNext)

Init == toDevice = 0 /\ taken = 0 /\ toHost = 0 /\ seen = 0

\* The directions are independent of each other.
Next ==
  \/ /\ Step(toDevice, taken, toDevice', taken')
     /\ Same(toHost, seen, toHost', seen') \/ Step(toHost, seen, toHost', seen')
  \/ /\ Same(toDevice, taken, toDevice', taken')
     /\ Step(toHost, seen, toHost', seen')

Spec == Init /\ [][Next]_<<toDevice, taken, toHost, seen>>

=============================================================================
