----------------------------- MODULE QemuTimer -----------------------------
(***************************************************************************)
(* The timer core of qemu-timer.c: the per-clock sorted lists              *)
(* active_timers[], the active alarm backend (its host timer and the       *)
(* pending/expired flags written by host_alarm_handler in signal context)  *)
(* and the main loop's dispatch qemu_run_all_timers, whose callbacks may   *)
(* arm and cancel timers while the list is being walked.                   *)
(*                                                                         *)
(* Time is discrete.  One unit is MIN_TIMER_REARM_NS.  The realtime and    *)
(* host clocks both advance with host time (rt); the virtual clock         *)
(* (cpu_get_clock, non-icount) advances only while the VM runs, because    *)
(* vm_stop/vm_start call cpu_disable_ticks/cpu_enable_ticks.               *)
(***************************************************************************)
EXTENDS Integers, Sequences, SequencesExt

CONSTANTS
  Timers,          \* the QEMUTimer objects device code has created
  ClockOf,         \* ts->clock->type of each timer
  Dynticks,        \* TRUE iff the active backend has a rearm hook (dynticks)
  PERIOD,          \* interrupt period of a fixed-frequency backend
  MIN_TIMER_REARM, \* MIN_TIMER_REARM_NS, in model time units
  Delays,          \* offsets a caller adds to the clock when arming
  CallbackDelays,  \* offsets a timer callback adds when it re-arms a timer
  MaxTime          \* bound on host time (the only unbounded counter)

REALTIME == "rt"
VIRTUAL  == "vm"
HOST     == "host"
Clocks   == {REALTIME, VIRTUAL, HOST}

INT32_MAX == 2147483647
NoTimer   == -1          \* the host timer is disarmed (it_value = 0)

ASSUME ClockOf \in [Timers -> Clocks]
ASSUME Delays \subseteq Nat /\ CallbackDelays \subseteq Nat /\ MIN_TIMER_REARM \in Nat \ {0}
ASSUME PERIOD \in Nat \ {0} /\ MaxTime \in Nat

VARIABLES
  active_timers,   \* active_timers[c]: the sorted list of armed timers of c
  expire_time,     \* ts->expire_time (kept after the timer leaves its list)
  arm_order,       \* history: timers in the order they were last armed
  enabled,         \* clock->enabled
  vm_running,      \* vm_running, toggled by vm_start / vm_stop
  rt,              \* host time
  vm_time,         \* value of the virtual clock
  pending,         \* alarm_timer->pending
  expired,         \* alarm_timer->expired
  host_timer,      \* instant the backend's host timer fires, or NoTimer
  ml,              \* where the main loop is in qemu_run_all_timers
  to_run,          \* clocks qemu_run_all_timers has still to run
  current_time,    \* current_time read by qemu_run_timers at its start
  cb_timer,        \* timer whose callback is running
  fired_in_pass    \* history: timers fired by the running qemu_run_timers

vars == <<active_timers, expire_time, arm_order, enabled, vm_running, rt,
          vm_time, pending, expired, host_timer, ml, to_run, current_time,
          cb_timer, fired_in_pass>>

MainLoopStates == {"idle", "rearm", "run", "scan", "cb"}

-----------------------------------------------------------------------------
(* Clocks and the deadline of the alarm.                                   *)

\* qemu_get_clock_ns (non-icount)
Now(c) == IF c = VIRTUAL THEN vm_time ELSE rt

\* qemu_timer_pending
TimerPending(t) == Contains(active_timers[ClockOf[t]], t)

\* qemu_next_alarm_deadline over lists l and expiry times e (!use_icount)
AlarmDeadline(l, e) ==
  LET vmDelta == IF l[VIRTUAL] # <<>> THEN e[l[VIRTUAL][1]] - vm_time
                                      ELSE INT32_MAX
      others  == {e[l[c][1]] - rt : c \in {k \in {HOST, REALTIME} : l[k] # <<>>}}
  IN  Min(others \cup {vmDelta})

\* dynticks_rearm_timer: the new host timer for lists l and times e
DynticksRearm(l, e) ==
  LET nearest == Max({AlarmDeadline(l, e), MIN_TIMER_REARM})
      current == IF host_timer = NoTimer THEN 0 ELSE host_timer - rt
  IN  IF \A c \in Clocks : l[c] = <<>> THEN host_timer
      ELSE IF current # 0 /\ current <= nearest THEN host_timer
      ELSE rt + nearest

\* qemu_rearm_alarm_timer: a no-op unless the backend has dynticks
RearmAlarmTimer(l, e) == IF Dynticks THEN DynticksRearm(l, e) ELSE host_timer

-----------------------------------------------------------------------------
(* List operations.                                                        *)

\* mutant: a new timer goes before the timers of equal expiry
InsertPosTiesFirst(l, e) ==
  LET later == {i \in 1..Len(l) : expire_time[l[i]] >= e}
  IN  IF later = {} THEN Len(l) + 1 ELSE Min(later)

\* the slot qemu_mod_timer_ns links into: before the first later timer
InsertPos(l, e) ==
  LET later == {i \in 1..Len(l) : expire_time[l[i]] > e}
  IN  IF later = {} THEN Len(l) + 1 ELSE Min(later)

\* qemu_del_timer
DelTimer(t) ==
  /\ active_timers' = [active_timers EXCEPT ![ClockOf[t]] = RemoveFirst(@, t)]
  /\ UNCHANGED <<expire_time, arm_order, host_timer>>

\* mutant: the new expiry is linked in without first unlinking the timer
ModTimerNoUnlink(t, e) ==
  LET c     == ClockOf[t]
      l     == active_timers[c]
      pos   == InsertPos(l, e)
      lists == [active_timers EXCEPT ![c] = InsertAt(l, pos, t)]
      exp   == [expire_time EXCEPT ![t] = e]
  IN  /\ active_timers' = lists
      /\ expire_time' = exp
      /\ arm_order' = Append(Remove(arm_order, t), t)
      /\ host_timer' = IF pos = 1 /\ ~pending THEN RearmAlarmTimer(lists, exp)
                                              ELSE host_timer

\* qemu_mod_timer_ns: unlink, insert sorted, rearm if it became the head
ModTimer(t, e) ==
  LET c     == ClockOf[t]
      l     == RemoveFirst(active_timers[c], t)
      pos   == InsertPos(l, e)
      lists == [active_timers EXCEPT ![c] = InsertAt(l, pos, t)]
      exp   == [expire_time EXCEPT ![t] = e]
  IN  /\ active_timers' = lists
      /\ expire_time' = exp
      /\ arm_order' = Append(Remove(arm_order, t), t)
      /\ host_timer' = IF pos = 1 /\ ~pending THEN RearmAlarmTimer(lists, exp)
                                              ELSE host_timer

-----------------------------------------------------------------------------
(* Actions of main-loop code outside qemu_run_all_timers: device I/O       *)
(* handlers and the CPU arm and cancel timers, the monitor starts and      *)
(* stops the VM and enables clocks.                                        *)

Idle == ml = "idle"

\* qemu_mod_timer(ts, qemu_get_clock(ts->clock) + d)
ArmTimer(t, d) ==
  /\ Idle
  /\ ModTimer(t, Now(ClockOf[t]) + d)
  /\ UNCHANGED <<enabled, vm_running, rt, vm_time, pending, expired, ml,
                 to_run, current_time, cb_timer, fired_in_pass>>

\* qemu_del_timer(ts)
CancelTimer(t) ==
  /\ Idle
  /\ DelTimer(t)
  /\ UNCHANGED <<enabled, vm_running, rt, vm_time, pending, expired, ml,
                 to_run, current_time, cb_timer, fired_in_pass>>

\* qemu_clock_enable(clock, b)
ClockEnable(c, b) ==
  /\ Idle
  /\ enabled[c] # b
  /\ enabled' = [enabled EXCEPT ![c] = b]
  /\ UNCHANGED <<active_timers, expire_time, arm_order, vm_running, rt,
                 vm_time, pending, expired, host_timer, ml, to_run,
                 current_time, cb_timer, fired_in_pass>>

\* vm_start: cpu_enable_ticks, then the change-state handler
\* alarm_timer_on_change_state_rearm(running = 1)
VmStart ==
  /\ Idle
  /\ ~vm_running
  /\ vm_running' = TRUE
  /\ host_timer' = RearmAlarmTimer(active_timers, expire_time)
  /\ UNCHANGED <<active_timers, expire_time, arm_order, enabled, rt, vm_time,
                 pending, expired, ml, to_run, current_time, cb_timer,
                 fired_in_pass>>

\* vm_stop: cpu_disable_ticks freezes the virtual clock
VmStop ==
  /\ Idle
  /\ vm_running
  /\ vm_running' = FALSE
  /\ UNCHANGED <<active_timers, expire_time, arm_order, enabled, rt, vm_time,
                 pending, expired, host_timer, ml, to_run, current_time,
                 cb_timer, fired_in_pass>>

-----------------------------------------------------------------------------
(* Host time and the host alarm signal.                                    *)

SignalDue == host_timer # NoTimer /\ host_timer <= rt

\* host time advances; a due signal is delivered first
Tick ==
  /\ rt < MaxTime
  /\ ~SignalDue
  /\ rt' = rt + 1
  /\ vm_time' = IF vm_running THEN vm_time + 1 ELSE vm_time
  /\ UNCHANGED <<active_timers, expire_time, arm_order, enabled, vm_running,
                 pending, expired, host_timer, ml, to_run, current_time,
                 cb_timer, fired_in_pass>>

\* host_alarm_handler, in signal context, between any two main-loop steps
HostAlarmHandler ==
  /\ SignalDue
  /\ host_timer' = IF Dynticks THEN NoTimer ELSE rt + PERIOD
  /\ IF Dynticks \/ AlarmDeadline(active_timers, expire_time) <= 0
     THEN /\ expired' = Dynticks
          /\ pending' = TRUE
     ELSE UNCHANGED <<expired, pending>>
  /\ UNCHANGED <<active_timers, expire_time, arm_order, enabled, vm_running,
                 rt, vm_time, ml, to_run, current_time, cb_timer,
                 fired_in_pass>>

-----------------------------------------------------------------------------
(* qemu_run_all_timers, one step per statement that a signal may split.    *)

\* mutant: the vm_clock list is not walked
RunAllTimersNoVirtual ==
  /\ Idle
  /\ pending' = FALSE
  /\ ml' = "rearm"
  /\ to_run' = <<REALTIME, HOST>>
  /\ UNCHANGED <<active_timers, expire_time, arm_order, enabled, vm_running,
                 rt, vm_time, expired, host_timer, current_time, cb_timer,
                 fired_in_pass>>

\* alarm_timer->pending = 0
RunAllTimers ==
  /\ Idle
  /\ pending' = FALSE
  /\ ml' = "rearm"
  /\ to_run' = IF vm_running THEN <<VIRTUAL, REALTIME, HOST>>
                             ELSE <<REALTIME, HOST>>
  /\ UNCHANGED <<active_timers, expire_time, arm_order, enabled, vm_running,
                 rt, vm_time, expired, host_timer, current_time, cb_timer,
                 fired_in_pass>>

\* if (alarm_timer->expired) { expired = 0; qemu_rearm_alarm_timer(); }
RearmIfExpired ==
  /\ ml = "rearm"
  /\ ml' = "run"
  /\ IF expired
     THEN /\ expired' = FALSE
          /\ host_timer' = RearmAlarmTimer(active_timers, expire_time)
     ELSE UNCHANGED <<expired, host_timer>>
  /\ UNCHANGED <<active_timers, expire_time, arm_order, enabled, vm_running,
                 rt, vm_time, pending, to_run, current_time, cb_timer,
                 fired_in_pass>>

\* qemu_run_timers on a disabled clock returns at once
RunTimersDisabled ==
  /\ ml = "run"
  /\ to_run # <<>>
  /\ ~enabled[Head(to_run)]
  /\ to_run' = Tail(to_run)
  /\ UNCHANGED <<active_timers, expire_time, arm_order, enabled, vm_running,
                 rt, vm_time, pending, expired, host_timer, ml, current_time,
                 cb_timer, fired_in_pass>>

\* qemu_run_timers: current_time = qemu_get_clock_ns(clock), read once
RunTimers ==
  /\ ml = "run"
  /\ to_run # <<>>
  /\ enabled[Head(to_run)]
  /\ ml' = "scan"
  /\ current_time' = Now(Head(to_run))
  /\ fired_in_pass' = {}
  /\ UNCHANGED <<active_timers, expire_time, arm_order, enabled, vm_running,
                 rt, vm_time, pending, expired, host_timer, to_run, cb_timer>>

\* mutant: the loop re-reads the clock instead of using current_time
HeadExpiredNow(c, now) ==
  /\ active_timers[c] # <<>>
  /\ expire_time[active_timers[c][1]] <= Now(c)

\* the loop condition of qemu_run_timers: the head of c is due at now
HeadExpired(c, now) ==
  /\ active_timers[c] # <<>>
  /\ expire_time[active_timers[c][1]] <= now

\* mutant: the callback is called with the timer still linked
PopExpiredNoUnlink ==
  LET c == Head(to_run)
      l == active_timers[c]
  IN  /\ ml = "scan"
      /\ HeadExpired(c, current_time)
      /\ active_timers' = active_timers
      /\ cb_timer' = l[1]
      /\ fired_in_pass' = fired_in_pass \cup {l[1]}
      /\ ml' = "cb"
      /\ UNCHANGED <<expire_time, arm_order, enabled, vm_running, rt, vm_time,
                     pending, expired, host_timer, to_run, current_time>>

\* the head has expired: unlink it before calling its callback
PopExpired ==
  LET c == Head(to_run)
      l == active_timers[c]
  IN  /\ ml = "scan"
      /\ HeadExpired(c, current_time)
      /\ active_timers' = [active_timers EXCEPT ![c] = Tail(l)]
      /\ cb_timer' = l[1]
      /\ fired_in_pass' = fired_in_pass \cup {l[1]}
      /\ ml' = "cb"
      /\ UNCHANGED <<expire_time, arm_order, enabled, vm_running, rt, vm_time,
                     pending, expired, host_timer, to_run, current_time>>

\* ts->cb(ts->opaque): device code run from the loop.  It may re-arm any
\* timer (itself included) at the clock's current instant or later, cancel
\* one, enable or disable a clock, stop the VM, or do nothing.  A timer
\* re-armed at an instant not in the future may run again in this pass
\* (lines 496-505), so the history forgets that it has fired.
Callback ==
  /\ ml = "cb"
  /\ ml' = "scan"
  /\ \/ \E t \in Timers, d \in CallbackDelays :
          /\ ModTimer(t, Now(ClockOf[t]) + d)
          /\ fired_in_pass' = IF d > 0 THEN fired_in_pass ELSE fired_in_pass \ {t}
          /\ UNCHANGED <<enabled, vm_running>>
     \/ \E t \in Timers :
          DelTimer(t) /\ UNCHANGED <<enabled, vm_running, fired_in_pass>>
     \/ \E t \in Timers, b \in BOOLEAN :
          /\ enabled' = [enabled EXCEPT ![ClockOf[t]] = b]
          /\ UNCHANGED <<active_timers, expire_time, arm_order, host_timer,
                         vm_running, fired_in_pass>>
     \/ /\ vm_running' = FALSE
        /\ UNCHANGED <<active_timers, expire_time, arm_order, host_timer,
                       enabled, fired_in_pass>>
     \/ UNCHANGED <<active_timers, expire_time, arm_order, host_timer,
                    enabled, vm_running, fired_in_pass>>
  /\ UNCHANGED <<rt, vm_time, pending, expired, to_run, current_time, cb_timer>>

\* the head is absent or later than current_time: this clock is done
ScanDone ==
  /\ ml = "scan"
  /\ ~HeadExpired(Head(to_run), current_time)
  /\ ml' = "run"
  /\ to_run' = Tail(to_run)
  /\ UNCHANGED <<active_timers, expire_time, arm_order, enabled, vm_running,
                 rt, vm_time, pending, expired, host_timer, current_time,
                 cb_timer, fired_in_pass>>

RunAllDone ==
  /\ ml = "run"
  /\ to_run = <<>>
  /\ ml' = "idle"
  /\ UNCHANGED <<active_timers, expire_time, arm_order, enabled, vm_running,
                 rt, vm_time, pending, expired, host_timer, to_run,
                 current_time, cb_timer, fired_in_pass>>

-----------------------------------------------------------------------------
(* init_timer_alarm has returned: the lists are empty, the backend is      *)
(* started and "first event is at time 0" (pending = 1).  The VM is not    *)
(* running yet (vm_start comes later, or never with -S).                   *)

Init ==
  /\ active_timers = [c \in Clocks |-> <<>>]
  /\ expire_time = [t \in Timers |-> 0]
  /\ arm_order = <<>>
  /\ enabled = [c \in Clocks |-> TRUE]
  /\ vm_running = FALSE
  /\ rt = 0
  /\ vm_time = 0
  /\ pending = TRUE
  /\ expired = FALSE
  /\ host_timer = IF Dynticks THEN NoTimer ELSE PERIOD
  /\ ml = "idle"
  /\ to_run = <<>>
  /\ current_time = 0
  /\ cb_timer = CHOOSE t \in Timers : TRUE
  /\ fired_in_pass = {}

Next ==
  \/ \E t \in Timers, d \in Delays : ArmTimer(t, d)
  \/ \E t \in Timers : CancelTimer(t)
  \/ \E t \in Timers, b \in BOOLEAN : ClockEnable(ClockOf[t], b)
  \/ VmStart
  \/ VmStop
  \/ Tick
  \/ HostAlarmHandler
  \/ RunAllTimers
  \/ RearmIfExpired
  \/ RunTimersDisabled
  \/ RunTimers
  \/ PopExpired
  \/ Callback
  \/ ScanDone
  \/ RunAllDone

Spec == Init /\ [][Next]_vars

\* The state after init_timer_alarm and a first qemu_run_all_timers that
\* found no timer armed: pending is clear, the host timer not yet armed.
SteadyInit ==
  /\ active_timers = [c \in Clocks |-> <<>>]
  /\ expire_time = [t \in Timers |-> 0]
  /\ arm_order = <<>>
  /\ enabled = [c \in Clocks |-> TRUE]
  /\ vm_running \in BOOLEAN
  /\ rt = 0 /\ vm_time = 0
  /\ pending = FALSE
  /\ expired = FALSE
  /\ host_timer = IF Dynticks THEN NoTimer ELSE PERIOD
  /\ ml = "idle"
  /\ to_run = <<>>
  /\ current_time = 0
  /\ cb_timer = CHOOSE t \in Timers : TRUE
  /\ fired_in_pass = {}

SteadySpec == SteadyInit /\ [][Next]_vars

\* The main loop: it blocks for at most qemu_calculate_timeout() (5000 ms
\* without icount) and then calls qemu_run_all_timers, whether or not the
\* alarm has fired, and it runs each pass to the end on one thread (a
\* signal only sets flags).  Weak fairness on the dispatch and on each step
\* of the walk; none on the host alarm, which is the part that can fail.
Walk == RearmIfExpired \/ RunTimersDisabled \/ RunTimers \/ PopExpired
        \/ Callback \/ ScanDone \/ RunAllDone

FairSpec == Spec /\ WF_vars(RunAllTimers) /\ WF_vars(Walk)

\* The state without data no later step reads: the expiry of an unarmed
\* timer (overwritten before it is read again), and the main loop's locals
\* outside the steps that use them.  A TLC VIEW.
Armed == {t \in Timers : TimerPending(t)}
StateView ==
  <<active_timers, [t \in Armed |-> expire_time[t]],
    SelectSeq(arm_order, LAMBDA t : t \in Armed), enabled, vm_running, rt,
    vm_time, pending, expired, host_timer, ml, to_run,
    IF ml \in {"scan", "cb"} THEN current_time ELSE 0,
    IF ml = "cb" THEN <<cb_timer>> ELSE <<>>,
    IF ml \in {"scan", "cb"} THEN fired_in_pass ELSE {}>>

-----------------------------------------------------------------------------
(* Properties.                                                             *)

\* Every variable has the type of the C object it models; a list, being
\* linked through the single ts->next field, holds a timer at most once.
TypeOK ==
  /\ active_timers \in [Clocks -> Seq(Timers)]
  /\ \A c \in Clocks : IsInjective(active_timers[c])
  /\ expire_time \in [Timers -> Nat]
  /\ arm_order \in Seq(Timers)
  /\ enabled \in [Clocks -> BOOLEAN]
  /\ vm_running \in BOOLEAN
  /\ rt \in 0..MaxTime /\ vm_time \in 0..rt
  /\ pending \in BOOLEAN /\ expired \in BOOLEAN
  /\ host_timer \in {NoTimer} \cup Nat
  /\ ml \in MainLoopStates
  /\ to_run \in Seq(Clocks)
  /\ current_time \in Nat
  /\ cb_timer \in Timers
  /\ fired_in_pass \subseteq Timers

\* Every list that qemu_mod_timer_ns, qemu_del_timer and the callbacks run
\* by qemu_run_timers leave behind holds only timers of its own clock, each
\* once, ascending by expire_time, and timers with equal expiry in the
\* order they were armed (FIFO ties).
ListsWellFormed ==
  \A c \in Clocks :
    LET l == active_timers[c]
        rank(x) == SelectInSeq(arm_order, LAMBDA v : v = x)
        armedBefore(x, y) == rank(x) < rank(y)
    IN  /\ \A i \in 1..Len(l) : ClockOf[l[i]] = c
        /\ \A i, j \in 1..Len(l) : i < j =>
             \/ expire_time[l[i]] < expire_time[l[j]]
             \/ expire_time[l[i]] = expire_time[l[j]] /\ armedBefore(l[i], l[j])

\* Spec 8: qemu_run_timers calls a timer's callback at most once per arm,
\* and a timer that a callback re-arms to a future instant is not called
\* again in the same pass, even while time moves on during the pass.  This
\* rests on current_time being read once at line 494: the loop compares
\* each head with the instant the pass started, not with the clock.
FiresOncePerPass ==
  [][ml = "scan" /\ ml' = "cb" => cb_timer' \notin fired_in_pass]_vars

\* a clock whose timers qemu_run_all_timers would run now
Runnable(c) == enabled[c] /\ (c = VIRTUAL => vm_running)

\* an armed timer that has expired on a clock qemu_run_all_timers walks
Due(t) == TimerPending(t) /\ expire_time[t] <= Now(ClockOf[t])
          /\ Runnable(ClockOf[t])

\* Every timer that falls due is eventually run (or cancelled, re-armed
\* later, or its clock stopped), whatever the host alarm does: even a
\* timer the alarm protocol strands (NoStrandedTimer) is run by the next
\* dispatch the main loop's timeout forces, because qemu_run_all_timers
\* walks every runnable clock and qemu_run_timers pops every expired head.
DueTimerRuns == \A t \in Timers : Due(t) ~> ~Due(t)

\* No runnable armed timer is ever stranded: whenever the main loop goes
\* back to sleep, a dispatch is pending or the dynticks host timer is
\* armed.  This is what qemu_mod_timer_ns relies on when it skips the
\* rearm because alarm_timer->pending is set: the pending dispatch is
\* expected to rearm.
NoStrandedTimer ==
  Idle =>
    \A c \in Clocks :
      Runnable(c) /\ active_timers[c] # <<>> => pending \/ host_timer # NoTimer

Service == INSTANCE TimerService
             WITH armed <- [t \in Timers |-> IF TimerPending(t) THEN expire_time[t]
                                                               ELSE -1],
                  now <- [c \in Clocks |-> Now(c)],
                  running <- IF ml = "cb" THEN cb_timer ELSE "none",
                  NoCallback <- "none"

\* The lists, qemu_mod_timer_ns, qemu_del_timer and qemu_run_timers
\* together implement the timer service of the spec: a callback runs only
\* for a pending timer whose expiry its clock has reached, in expiry order
\* per clock, after the timer has been unlinked.
ServiceRefinement == Service!Spec

\* The deadline the spec (4.3, rearm protocol) gives the dynticks rearm:
\* the nearest head expiry over the enabled clocks, INT32_MAX if none.
EnabledDeadline(l, e) ==
  LET ds == {e[l[c][1]] - Now(c) : c \in {k \in Clocks : enabled[k] /\ l[k] # <<>>}}
  IN  IF ds = {} THEN INT32_MAX ELSE Min(ds)

\* dynticks_rearm_timer only programs the host timer for a deadline of an
\* enabled clock: it never arms it earlier than the nearest enabled
\* deadline (clamped to MIN_TIMER_REARM), so a timer on a disabled clock
\* cannot keep waking the host.
RearmOnlyForEnabled ==
  [][host_timer' # host_timer /\ host_timer' # NoTimer =>
       host_timer' >= rt' + Max({EnabledDeadline(active_timers', expire_time'),
                                 MIN_TIMER_REARM})]_vars
=============================================================================
