---------------------------- MODULE TimerService ----------------------------
(* What the timer lists of qemu-timer.c promise their callers (spec 4.2):  *)
(* a timer is armed with a deadline on its clock or not armed; arming and  *)
(* cancelling replace that state; a callback is run only for an armed      *)
(* timer whose deadline its clock has reached, never before an armed timer *)
(* of the same clock with an earlier deadline, and running it disarms the  *)
(* timer first, so it runs once per arming.  While a callback runs, it may *)
(* arm or cancel one timer.                                                *)
EXTENDS Integers

CONSTANTS Timers, Clocks, ClockOf, NoCallback

NoDeadline == -1

VARIABLES armed,    \* the deadline of each timer, or NoDeadline
          now,      \* the current time of each clock
          running   \* the timer whose callback runs, or NoCallback

vars == <<armed, now, running>>

Init ==
  /\ armed = [t \in Timers |-> NoDeadline]
  /\ now = [c \in Clocks |-> 0]
  /\ running = NoCallback

\* the state of at most one timer changes, to a deadline or to not armed
OneTimerSet ==
  \E u \in Timers :
    /\ armed'[u] \in Nat \cup {NoDeadline}
    /\ \A v \in Timers \ {u} : armed'[v] = armed[v]

ArmOrCancel ==
  /\ running = NoCallback
  /\ OneTimerSet
  /\ UNCHANGED <<now, running>>

Fire(t) ==
  /\ running = NoCallback
  /\ armed[t] # NoDeadline
  /\ armed[t] <= now[ClockOf[t]]
  /\ \A u \in Timers : ClockOf[u] = ClockOf[t] /\ armed[u] # NoDeadline
                         => armed[t] <= armed[u]
  /\ armed' = [armed EXCEPT ![t] = NoDeadline]
  /\ running' = t
  /\ UNCHANGED now

CallbackReturns ==
  /\ running # NoCallback
  /\ running' = NoCallback
  /\ OneTimerSet
  /\ UNCHANGED now

Advance ==
  /\ \A c \in Clocks : now'[c] \in Nat /\ now'[c] >= now[c]
  /\ UNCHANGED <<armed, running>>

Next == ArmOrCancel \/ (\E t \in Timers : Fire(t)) \/ CallbackReturns \/ Advance

Spec == Init /\ [][Next]_vars
=============================================================================
