------------------------------ MODULE CpuTicks ------------------------------
(* The guest cycle counter and the virtual clock of qemu-timer.c without  *)
(* icount: TimersState, cpu_get_ticks, cpu_get_clock, cpu_enable_ticks and *)
(* cpu_disable_ticks, against a host cycle counter that can go backwards   *)
(* (software suspend) and a monotonic host clock.                          *)
EXTENDS Integers

CONSTANTS MaxHost,      \* cpu_get_real_ticks ranges over 0..MaxHost
          MaxClock,     \* get_clock ranges over 0..MaxClock
          MaxSuspends   \* bound on backward jumps of the host counter

VARIABLES real_ticks,     \* cpu_get_real_ticks()
          host_clock,     \* get_clock()
          suspends,       \* backward jumps of real_ticks so far
          ticks_prev,     \* timers_state.cpu_ticks_prev
          ticks_offset,   \* timers_state.cpu_ticks_offset
          clock_offset,   \* timers_state.cpu_clock_offset
          ticks_enabled,  \* timers_state.cpu_ticks_enabled
          last_ticks,     \* the last value cpu_get_ticks returned
          last_clock      \* the last value cpu_get_clock returned

vars == <<real_ticks, host_clock, suspends, ticks_prev, ticks_offset,
          clock_offset, ticks_enabled, last_ticks, last_clock>>
host == <<real_ticks, host_clock, suspends>>

-----------------------------------------------------------------------------
\* The effect of one call of cpu_get_ticks: the new cpu_ticks_prev and
\* cpu_ticks_offset, and the value returned.
TicksRead ==
  IF ~ticks_enabled
  THEN [prev |-> ticks_prev, offset |-> ticks_offset, value |-> ticks_offset]
  ELSE LET off == IF ticks_prev > real_ticks
                  THEN ticks_offset + ticks_prev - real_ticks
                  ELSE ticks_offset
       IN  [prev |-> real_ticks, offset |-> off, value |-> real_ticks + off]

\* mutant: cpu_get_clock without its !cpu_ticks_enabled branch
ClockReadIgnoringEnabled == host_clock + clock_offset

\* cpu_get_clock (pure)
ClockRead == IF ticks_enabled THEN host_clock + clock_offset ELSE clock_offset

\* a reader calls cpu_get_ticks
GetTicks ==
  /\ ticks_prev' = TicksRead.prev
  /\ ticks_offset' = TicksRead.offset
  /\ last_ticks' = TicksRead.value
  /\ UNCHANGED <<host, clock_offset, ticks_enabled, last_clock>>

\* a reader calls cpu_get_clock (qemu_get_clock_ns(vm_clock))
GetClock ==
  /\ last_clock' = ClockRead
  /\ UNCHANGED <<host, ticks_prev, ticks_offset, clock_offset, ticks_enabled,
                 last_ticks>>

\* cpu_enable_ticks (vm_start): re-base both offsets on the host sources
EnableTicks ==
  /\ ~ticks_enabled
  /\ ticks_offset' = ticks_offset - real_ticks
  /\ clock_offset' = clock_offset - host_clock
  /\ ticks_enabled' = TRUE
  /\ UNCHANGED <<host, ticks_prev, last_ticks, last_clock>>

\* mutant: cpu_ticks_enabled cleared before the two reads
DisableTicksEarlyClear ==
  /\ ticks_enabled
  /\ ticks_enabled' = FALSE
  /\ UNCHANGED <<host, ticks_prev, ticks_offset, clock_offset>>
  /\ last_ticks' = ticks_offset
  /\ last_clock' = clock_offset

\* cpu_disable_ticks (vm_stop): freeze both at their current values, which
\* are the values every later read returns until the next enable
DisableTicks ==
  /\ ticks_enabled
  /\ ticks_prev' = TicksRead.prev
  /\ ticks_offset' = TicksRead.value
  /\ clock_offset' = ClockRead
  /\ ticks_enabled' = FALSE
  /\ last_ticks' = TicksRead.value
  /\ last_clock' = ClockRead
  /\ UNCHANGED host

-----------------------------------------------------------------------------
(* The host time sources.                                                  *)

HostTicksAdvance ==
  /\ real_ticks < MaxHost
  /\ real_ticks' = real_ticks + 1
  /\ UNCHANGED <<host_clock, suspends>>

\* software suspend: the host cycle counter restarts lower
HostSuspend ==
  /\ suspends < MaxSuspends
  /\ real_ticks' \in 0..(real_ticks - 1)
  /\ suspends' = suspends + 1
  /\ UNCHANGED host_clock

HostClockAdvance ==
  /\ host_clock < MaxClock
  /\ host_clock' = host_clock + 1
  /\ UNCHANGED <<real_ticks, suspends>>

HostStep ==
  /\ HostTicksAdvance \/ HostSuspend \/ HostClockAdvance
  /\ UNCHANGED <<ticks_prev, ticks_offset, clock_offset, ticks_enabled,
                 last_ticks, last_clock>>

-----------------------------------------------------------------------------
\* TimersState is zero-initialised; the VM starts stopped
Init ==
  /\ real_ticks \in 0..MaxHost
  /\ host_clock \in 0..MaxClock
  /\ suspends = 0
  /\ ticks_prev = 0 /\ ticks_offset = 0 /\ clock_offset = 0
  /\ ticks_enabled = FALSE
  /\ last_ticks = 0 /\ last_clock = 0

Next == GetTicks \/ GetClock \/ EnableTicks \/ DisableTicks \/ HostStep

Spec == Init /\ [][Next]_vars

-----------------------------------------------------------------------------
(* Properties.                                                             *)

\* The variables have the types of TimersState's fields; the offsets are
\* signed (int64_t) and negative while the counters run, but the virtual
\* clock a reader sees, built on the monotonic get_clock, is never negative.
TypeOK ==
  /\ real_ticks \in 0..MaxHost /\ host_clock \in 0..MaxClock
  /\ suspends \in 0..MaxSuspends
  /\ ticks_prev \in 0..MaxHost
  /\ ticks_offset \in Int /\ clock_offset \in Int
  /\ ticks_enabled \in BOOLEAN
  /\ last_ticks \in Int /\ last_clock \in Nat

Ticks == INSTANCE GuestCounter WITH count <- last_ticks, running <- ticks_enabled
Clock == INSTANCE GuestCounter WITH count <- last_clock, running <- ticks_enabled

\* cpu_get_ticks implements a guest counter: the values it returns never go
\* back, even when the host cycle counter does (the cpu_ticks_prev
\* compensation), and while the VM is stopped it keeps returning the value
\* cpu_disable_ticks froze.
TicksRefinement == Ticks!Spec

\* cpu_get_clock (the non-icount virtual clock) implements the same
\* counter: frozen at the cpu_disable_ticks value while stopped, and
\* re-based by cpu_enable_ticks so that it never jumps back.
ClockRefinement == Clock!Spec
=============================================================================
