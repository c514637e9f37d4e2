---------------------------- MODULE AlarmConfig ----------------------------
(* Selection of the host alarm backend in qemu-timer.c: configure_alarms   *)
(* (one call per -clock option) reorders the static array alarm_timers[]  *)
(* in place and disables the entries not named; init_timer_alarm starts   *)
(* the enabled entries in array order until one succeeds; quit_timers      *)
(* stops it.  An entry is the backend it belongs to and whether its name  *)
(* is still set (configure_alarms disables an entry by clearing its name). *)
EXTENDS Integers, SequencesExt

CONSTANTS Bogus,        \* names given to -clock that are no backend
          MaxOptLen,    \* bound on the number of names in one -clock option
          MaxConfigure  \* bound on the number of -clock options

\* alarm_timers[] of the Linux build, in order of precedence
AlarmTimers == <<"dynticks", "hpet", "rtc", "unix">>
Known == ToSet(AlarmTimers)
Names == Known \cup Bogus
None == "none"
\* count = ARRAY_SIZE(alarm_timers) - 1
Count == Len(AlarmTimers)
Entries == [id : Known, named : BOOLEAN]

VARIABLES order,      \* alarm_timers[0..count-1]
          phase,      \* where start-up is
          active,     \* alarm_timer: the backend in use, or None (NULL)
          starts,     \* which backends' start() succeeds on this host
          requested,  \* history: the names of the last -clock option
          warned,     \* names reported as "Unknown clock"
          configs     \* -clock options processed so far

vars == <<order, phase, active, starts, requested, warned, configs>>

Phases == {"boot", "exit", "started", "failed", "quit"}

-----------------------------------------------------------------------------
\* mutant: the displaced entry is overwritten instead of swapped
SwapOverwrite(arr, i, j) == [arr EXCEPT ![j] = arr[i]]

\* tmp = alarm_timers[i]; alarm_timers[i] = alarm_timers[cur];
\* alarm_timers[cur] = tmp
Swap(arr, i, j) == [arr EXCEPT ![i] = arr[j], ![j] = arr[i]]

\* the search loop of configure_alarms: the first index whose entry has the
\* name, or whose name is NULL, or Count + 1 ("i == count") if neither
SearchPos(arr, name) ==
  LET stop == SelectInSeq(arr, LAMBDA e : ~e.named \/ e.id = name)
  IN  IF stop = 0 THEN Count + 1 ELSE stop

\* mutant: a name already at position cur is taken as placed before
RECURSIVE ReorderIgnoreAtCur(_, _, _, _)
ReorderIgnoreAtCur(arr, cur, names, unk) ==
  IF names = <<>> THEN [arr |-> arr, cur |-> cur, unknown |-> unk]
  ELSE LET name == Head(names)
           i    == SearchPos(arr, name)
       IN  IF i = Count + 1
           THEN ReorderIgnoreAtCur(arr, cur, Tail(names), unk \cup {name})
           ELSE IF i - 1 <= cur
           THEN ReorderIgnoreAtCur(arr, cur, Tail(names), unk)
           ELSE ReorderIgnoreAtCur(Swap(arr, i, cur + 1), cur + 1, Tail(names), unk)

\* the strtok loop of configure_alarms over the names of one option: the
\* reordered array, cur (entries placed) and the names reported unknown;
\* indices are 1-based, cur counts entries as in the code
RECURSIVE Reorder(_, _, _, _)
Reorder(arr, cur, names, unk) ==
  IF names = <<>> THEN [arr |-> arr, cur |-> cur, unknown |-> unk]
  ELSE LET name == Head(names)
           i    == SearchPos(arr, name)
       IN  IF i = Count + 1
           THEN Reorder(arr, cur, Tail(names), unk \cup {name})
           ELSE IF i - 1 < cur
           THEN Reorder(arr, cur, Tail(names), unk)
           ELSE Reorder(Swap(arr, i, cur + 1), cur + 1, Tail(names), unk)

\* configure_alarms(opt) for an option other than "?": reorder, then
\* disable the entries after cur, or print the list and exit(1) if no name
\* was placed
ConfigureAlarms(opt) ==
  LET r == Reorder(order, 0, opt, {})
  IN  /\ phase = "boot"
      /\ configs < MaxConfigure
      /\ configs' = configs + 1
      /\ warned' = warned \cup r.unknown
      /\ requested' = opt
      /\ IF r.cur = 0
         THEN phase' = "exit" /\ order' = r.arr
         ELSE /\ order' = [k \in 1..Count |->
                             IF k <= r.cur THEN r.arr[k]
                             ELSE [r.arr[k] EXCEPT !.named = FALSE]]
              /\ UNCHANGED phase
      /\ UNCHANGED <<active, starts>>

\* the entries init_timer_alarm tries: those before the first NULL name
Enabled ==
  LET stop == SelectInSeq(order, LAMBDA e : ~e.named)
  IN  IF stop = 0 THEN order ELSE SubSeq(order, 1, stop - 1)

\* init_timer_alarm: start the enabled entries in order until one succeeds
InitTimerAlarm ==
  LET k == SelectInSeq(Enabled, LAMBDA e : starts[e.id])
  IN  /\ phase = "boot"
      /\ IF k = 0
         THEN phase' = "failed" /\ UNCHANGED active
         ELSE phase' = "started" /\ active' = Enabled[k].id
      /\ UNCHANGED <<order, starts, requested, warned, configs>>

\* quit_timers: alarm_timer = NULL, then stop the backend
QuitTimers ==
  /\ phase = "started"
  /\ phase' = "quit"
  /\ active' = None
  /\ UNCHANGED <<order, starts, requested, warned, configs>>

Init ==
  /\ order = [k \in 1..Count |-> [id |-> AlarmTimers[k], named |-> TRUE]]
  /\ phase = "boot"
  /\ active = None
  /\ starts \in [Known -> BOOLEAN]
  /\ requested = <<>>
  /\ warned = {}
  /\ configs = 0

Next ==
  \/ \E opt \in BoundedSeq(Names, MaxOptLen) : ConfigureAlarms(opt)
  \/ InitTimerAlarm
  \/ QuitTimers

Spec == Init /\ [][Next]_vars

-----------------------------------------------------------------------------
(* What the spec (4.3, 7) says start-up selects, for the last -clock       *)
(* option: its known names, each once, in the order first given; with no   *)
(* option, every backend in order of precedence.                           *)

RequestedOrder(opt) ==
  FoldLeft(LAMBDA acc, n : IF n \in Known /\ ~Contains(acc, n)
                           THEN Append(acc, n) ELSE acc,
           <<>>, opt)

Candidates == IF configs = 0 THEN AlarmTimers ELSE RequestedOrder(requested)

\* alarm_timers[] always holds each backend exactly once: configure_alarms
\* only swaps entries and clears names.
TypeOK ==
  /\ order \in [1..Count -> Entries]
  /\ {order[k].id : k \in 1..Count} = Known
  /\ phase \in Phases
  /\ active \in Known \cup {None}
  /\ starts \in [Known -> BOOLEAN]
  /\ warned \subseteq Names
  /\ configs \in 0..MaxConfigure

\* The backend configure_alarms and init_timer_alarm select is the first
\* requested one whose start succeeds; start-up fails only if none of the
\* requested backends starts, and configure_alarms exits only if no name
\* of the option is a backend.
SelectsFirstStartable ==
  LET k == SelectInSeq(Candidates, LAMBDA n : starts[n])
  IN  /\ phase = "exit"    => Candidates = <<>>
      /\ phase = "failed"  => Candidates # <<>> /\ k = 0
      /\ phase = "started" => k # 0 /\ active = Candidates[k]

\* configure_alarms reports every name of a -clock option that is no
\* backend ("Unknown clock") and ignores it.
UnknownNamesWarned == ToSet(requested) \ Known \subseteq warned
=============================================================================
