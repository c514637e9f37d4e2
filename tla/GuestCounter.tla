---------------------------- MODULE GuestCounter ----------------------------
(* What the guest cycle counter (cpu_get_ticks) and the virtual clock      *)
(* (cpu_get_clock) promise their readers: a counter that never goes back,  *)
(* and that is frozen at the value it held when it was stopped until it    *)
(* is started again.  count is the last value a reader has seen.           *)
EXTENDS Integers

VARIABLES count, running

Init == count = 0 /\ running = FALSE

\* the counter is started; a reader sees no jump
Start == ~running /\ running' /\ count' = count

\* the counter is stopped, at a value no smaller than any value seen
Stop == running /\ ~running' /\ count' >= count

\* while running, a reader may see it advance
Advance == running /\ count' > count /\ running' = running

Next == Start \/ Stop \/ Advance

Spec == Init /\ [][Next]_<<count, running>>
=============================================================================
