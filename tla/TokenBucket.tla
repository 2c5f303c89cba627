---------------------------- MODULE TokenBucket ----------------------------
(***************************************************************************)
(* What one bucket of a meter promises: credit is earned no faster than    *)
(* the rate allows, is never hoarded beyond the burst size, and every byte *)
(* let through is paid for.                                                *)
(*                                                                         *)
(* Credit is counted in units of 1 / Byte of a byte, fine enough for the   *)
(* rate to be a whole number of units per clock tick.                      *)
(***************************************************************************)
EXTENDS Naturals

CONSTANTS Byte, Burst

VARIABLES
  rate,       \* units earned per tick
  since,      \* when the bucket was configured
  clock,      \* when it was last refilled
  credit,     \* units in it
  passed      \* bytes let through since it was configured

bucket == <<rate, since, clock, credit, passed>>

Full == Byte * Burst

Fresh == rate \in Nat /\ clock = since /\ credit = Full /\ passed = 0

Init == since \in Nat /\ Fresh

Configure == clock <= since' /\ Fresh'

\* A refill for the time gone by, then a packet that pays or stays out.  A
\* full bucket keeps the fraction of a byte that was left over.
Serve ==
  /\ clock <= clock'
  /\ passed <= passed'
  /\ credit' + Byte * (passed' - passed) <= credit + rate * (clock' - clock)
  /\ credit' < Full + Byte
  /\ UNCHANGED <<rate, since>>

Next == Configure \/ Serve

Spec == Init /\ [][Next]_bucket

\* Over any time since its configuration the bucket lets through at most one
\* burst more than its rate.
Conforms == credit + Byte * passed <= Full + rate * (clock - since)
=============================================================================
