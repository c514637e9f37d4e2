---------------------------- MODULE MC_QemuTimer ----------------------------
(* Instantiates QemuTimer for TLC: two timers on the virtual clock (so     *)
(* that ties, re-arming and ordering can happen on one list) and one on    *)
(* the realtime clock.                                                     *)
EXTENDS QemuTimer, TLC

CONSTANTS a, b, r

MCClockOf == (a :> VIRTUAL) @@ (b :> VIRTUAL) @@ (r :> REALTIME)

\* one timer on each of the two clocks, for the liveness run
MCClockOfPair == (a :> VIRTUAL) @@ (r :> REALTIME)

\* a and b play the same role; r is on another clock
MCSymmetry == Permutations({a, b})

=============================================================================
