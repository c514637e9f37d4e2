------------------------------- MODULE Icount -------------------------------
(* Instruction-counted virtual time of qemu-timer.c: configure_icount      *)
(* ("-icount N", use_icount = 1, or "-icount auto", use_icount = 2), the   *)
(* rate controller icount_adjust, run from the rt and vm adjustment timers, *)
(* and qemu_calculate_timeout, which advances qemu_icount to the deadline  *)
(* qemu_next_deadline gives when the guest is idle and behind.  Times are  *)
(* abstract nanoseconds; ICOUNT_WOBBLE and the 10 ms advance cap are       *)
(* constants so that they can be scaled together with the clocks.          *)
EXTENDS Integers, FiniteSetsExt

CONSTANTS MAX_ICOUNT_SHIFT,  \* 10
          ICOUNT_WOBBLE,     \* get_ticks_per_sec() / 10
          MAX_ADVANCE,       \* 10000000: cap on one advance to a deadline
          InitShift,         \* 3: configure_icount("auto")
          FixedShifts,       \* shifts given as "-icount N"
          HostDeadlines,     \* distances to the HOST list's head, when it has one
          HostSteps,         \* amounts the host clock advances by at once
          MaxIcount, MaxHost \* bounds on qemu_icount and on the host clock

ASSUME InitShift \in 0..MAX_ICOUNT_SHIFT
ASSUME FixedShifts \subseteq 0..MAX_ICOUNT_SHIFT /\ HostDeadlines \subseteq Nat /\ HostSteps \subseteq Nat \ {0}

VARIABLES shift,       \* icount_time_shift
          bias,        \* qemu_icount_bias
          icount,      \* qemu_icount (instructions executed)
          last_delta,  \* the static last_delta of icount_adjust
          host,        \* cpu_get_clock(): host monotonic time, frozen while stopped
          vm_running,  \* vm_running
          use_icount,  \* 1: fixed shift, 2: adaptive
          vm_timer     \* expire_time of icount_vm_timer (NoTimer: not created)

vars == <<shift, bias, icount, last_delta, host, vm_running, use_icount, vm_timer>>

NoTimer == -1
INT32_MAX == 2147483647

-----------------------------------------------------------------------------
\* cpu_get_icount(): qemu_icount_bias + (qemu_icount << icount_time_shift),
\* also what qemu_get_clock_ns(vm_clock) returns under icount
VmTime == bias + icount * 2^shift

\* mutant: the carry of the round-up is one too large
IcountRoundPlusOne(count, s) == (count + 2^s) \div 2^s

\* qemu_icount_round: instructions needed to cover count nanoseconds
IcountRound(count, s) == (count + 2^s - 1) \div 2^s

\* delta of icount_adjust: how far virtual time is ahead of host time
IcountDelta == VmTime - host

\* qemu_icount_delta: 0 with a fixed shift, else VmTime - cpu_get_clock()
QemuIcountDelta == IF use_icount = 1 THEN 0 ELSE VmTime - host

\* mutant: the VIRTUAL list is left out of the deadline
NextDeadlineHostOnly(hd) ==
  LET d == IF hd # NoTimer /\ hd < INT32_MAX THEN hd ELSE INT32_MAX
  IN  IF d < 0 THEN 0 ELSE d

\* qemu_next_deadline: INT32_MAX, or the distance to the VIRTUAL list's
\* head (icount_vm_timer), or to the HOST list's head hd if nearer,
\* clamped at 0
NextDeadline(hd) ==
  LET v == IF vm_timer # NoTimer THEN vm_timer - VmTime ELSE INT32_MAX
      d == IF hd # NoTimer /\ hd < v THEN hd ELSE v
  IN  IF d < 0 THEN 0 ELSE d

\* icount_adjust, first correction: the guest is getting too far ahead
ShiftDown ==
  IF /\ IcountDelta > 0
     /\ last_delta + ICOUNT_WOBBLE < IcountDelta * 2
     /\ shift > 0
  THEN shift - 1 ELSE shift

\* mutant: the shift is raised without the MAX_ICOUNT_SHIFT check
AdjustedShiftNoCeiling ==
  IF IcountDelta < 0 /\ last_delta - ICOUNT_WOBBLE > IcountDelta * 2
  THEN ShiftDown + 1 ELSE ShiftDown

\* icount_adjust, second correction: the guest is getting too far behind
AdjustedShift ==
  IF /\ IcountDelta < 0
     /\ last_delta - ICOUNT_WOBBLE > IcountDelta * 2
     /\ ShiftDown < MAX_ICOUNT_SHIFT
  THEN ShiftDown + 1 ELSE ShiftDown

\* mutant: the bias is re-based with the shift from before the adjustment
RebasedBiasStale(s) == VmTime - icount * 2^shift

\* qemu_icount_bias = cur_icount - (qemu_icount << icount_time_shift)
RebasedBias(s) == VmTime - icount * 2^s

\* icount_adjust: nudge the shift by one when the guest runs too far ahead
\* of or behind host time, then re-base the bias so that virtual time is
\* continuous; it does nothing while the VM is stopped
IcountAdjust ==
  /\ vm_running
  /\ shift' = AdjustedShift
  /\ last_delta' = IcountDelta
  /\ bias' = RebasedBias(AdjustedShift)
  /\ UNCHANGED <<icount, host, vm_running, use_icount>>

\* icount_adjust_rt: icount_rt_timer, every 1000 ms of rt_clock (which is
\* not modelled, so it may fire at any time)
IcountAdjustRt ==
  /\ use_icount = 2
  /\ IcountAdjust
  /\ UNCHANGED vm_timer

\* icount_adjust_vm: icount_vm_timer has expired and qemu_run_timers runs
\* it (vm_clock timers run only while the VM runs); it re-arms itself one
\* wobble ahead on vm_clock, then adjusts
IcountAdjustVm ==
  /\ vm_timer # NoTimer
  /\ VmTime >= vm_timer
  /\ vm_timer' = VmTime + ICOUNT_WOBBLE
  /\ IcountAdjust

\* qemu_calculate_timeout with use_icount and vm_running: when virtual
\* time is not ahead of host time, advance qemu_icount by the next
\* deadline, capped; otherwise only a timeout is computed
CalculateTimeout ==
  /\ vm_running
  /\ QemuIcountDelta <= 0
  /\ \E hd \in HostDeadlines \cup {NoTimer} :
       LET add == Min({NextDeadline(hd), MAX_ADVANCE})
       IN  /\ icount + IcountRound(add, shift) <= MaxIcount
           /\ icount' = icount + IcountRound(add, shift)
  /\ UNCHANGED <<shift, bias, last_delta, host, vm_running, use_icount, vm_timer>>

\* the CPU executes one instruction
Execute ==
  /\ vm_running
  /\ icount < MaxIcount
  /\ icount' = icount + 1
  /\ UNCHANGED <<shift, bias, last_delta, host, vm_running, use_icount, vm_timer>>

\* host time passes; cpu_get_clock is frozen while the VM is stopped
HostAdvance ==
  /\ vm_running
  /\ \E s \in HostSteps : host + s <= MaxHost /\ host' = host + s
  /\ UNCHANGED <<shift, bias, icount, last_delta, vm_running, use_icount, vm_timer>>

\* vm_start / vm_stop
VmStart == ~vm_running /\ vm_running' = TRUE /\ UNCHANGED <<shift, bias, icount, last_delta, host, use_icount, vm_timer>>
VmStop  == vm_running /\ vm_running' = FALSE /\ UNCHANGED <<shift, bias, icount, last_delta, host, use_icount, vm_timer>>

\* configure_icount before the VM starts, all else zero-initialised:
\* "-icount N" takes the shift N; "auto" starts at shift 3 and arms
\* icount_vm_timer a tenth of a second ahead on vm_clock (icount_rt_timer
\* is IcountAdjustRt)
Init ==
  /\ \/ use_icount = 1 /\ shift \in FixedShifts /\ vm_timer = NoTimer
     \/ use_icount = 2 /\ shift = InitShift /\ vm_timer = ICOUNT_WOBBLE
  /\ bias = 0 /\ icount = 0 /\ last_delta = 0 /\ host = 0
  /\ vm_running = FALSE

Next == IcountAdjustRt \/ IcountAdjustVm \/ CalculateTimeout \/ Execute
        \/ HostAdvance \/ VmStart \/ VmStop

Spec == Init /\ [][Next]_vars

-----------------------------------------------------------------------------
(* Properties.                                                             *)

\* The variables have their types; in particular icount_adjust keeps the
\* shift within [0, MAX_ICOUNT_SHIFT], as the spec requires.
TypeOK ==
  /\ shift \in 0..MAX_ICOUNT_SHIFT
  /\ bias \in Int /\ last_delta \in Int
  /\ icount \in 0..MaxIcount /\ host \in 0..MaxHost
  /\ vm_running \in BOOLEAN
  /\ use_icount \in {1, 2} /\ vm_timer \in Int

\* Virtual time never goes back: neither a change of icount_time_shift by
\* icount_adjust (which must re-base qemu_icount_bias with the new shift)
\* nor any other step makes qemu_get_clock_ns(vm_clock) decrease.
VirtualTimeNeverBack == [][VmTime' >= VmTime]_vars

\* qemu_icount_round is the ceiling of count / 2^shift at every shift the
\* controller reaches, so qemu_calculate_timeout advances virtual time
\* by at least the deadline it aims for, and by less than one instruction
\* more.
RoundIsCeiling ==
  \A c \in 0..MAX_ADVANCE :
    LET n == IcountRound(c, shift)
    IN  n * 2^shift >= c /\ (n - 1) * 2^shift < c

\* When the guest is idle, qemu_calculate_timeout advances virtual time to
\* the next event, but never a whole instruction past icount_vm_timer if
\* that timer was not yet due: qemu_next_deadline must take the VIRTUAL
\* list into account, the HOST list may only make the step shorter, the
\* 10 ms cap applies after the minimum, and qemu_icount_round rounds up
\* by less than one instruction.
AdvanceStopsAtTimer ==
  [][CalculateTimeout /\ vm_timer # NoTimer /\ VmTime < vm_timer
       => VmTime' < vm_timer + 2^shift]_vars
=============================================================================
