# Model-checking the QEMU timer subsystem of iDeviceEmulator

This directory holds TLA+ models of the code under `src/Main/linux/`, together with
the TLC configurations that check them. The repository carries a QEMU snapshot. Its
timing core is `qemu-timer.c`. The rest are device models, stubs and headers.

## Inventory of the system

| Part | Source | What it does | Status |
|---|---|---|---|
| Clock domains and tick counter | qemu-timer.c 58-156, 367-387, 509-533 | `QEMUClock` rt/vm/host. `cpu_get_ticks`/`cpu_get_clock` keep the virtual clock frozen while the VM is stopped. `qemu_clock_enable` | partly (QemuTimer, Icount) |
| Timer lists | qemu-timer.c 389-507 | one list per clock, sorted by expiry. Operations: `qemu_mod_timer_ns`, `qemu_del_timer`, `qemu_timer_pending`, `qemu_timer_expired`, and `qemu_run_timers` (the expiry walk) | modelled (QemuTimer) |
| Alarm runtime | qemu-timer.c 167-301, 604-670, 824-902 | `host_alarm_handler` runs in signal context and sets `pending`/`expired`. `qemu_run_all_timers` dispatches from the main loop. `dynticks_rearm_timer` arms a one-shot host timer | modelled (QemuTimer) |
| Alarm configuration and shutdown | qemu-timer.c 303-365, 1020-1054 | `configure_alarms` (`-clock` list), `init_timer_alarm` start with fallback, `quit_timers` | partly (AlarmConfig) |
| Deadline calculator | qemu-timer.c 672-719, 1056-1092 | `qemu_next_alarm_deadline` (used by the rearm), `qemu_next_deadline`, `qemu_calculate_timeout` (icount) | partly (QemuTimer, Icount) |
| Icount controller | qemu-timer.c 228-281, 573-602, 1056-1092 | adapts `icount_time_shift` to keep the virtual clock near real time | partly (Icount) |
| Timer save/restore | qemu-timer.c 535-571 | `qemu_put_timer`/`qemu_get_timer` with `-1` as "not pending" | not modelled (see below; hazards listed) |
| Win32 backends | qemu-timer.c 905-1012 | multimedia timer one-shot rearm | not modelled (Windows build) |
| OMAP GPMC | hw/omap_gpmc.c | register file. Chip-select regions are mapped and unmapped on CONFIG7 writes, attach and soft reset | partly (OmapGpmc) |
| virtio-9p local backend | hw/virtio-9p-local.c | 9P file operations on a host directory under the security models mapped, passthrough and none | partly (VirtFsLocal): every metadata-changing operation except link |
| PCnet PCI, PC/PIIX | hw/pcnet-pci.c, hw/pc_piix.c | MMIO wrappers, board construction | not modelled: no runtime state |
| qemu-tool stubs, headers | qemu-tool.c, *.h | empty stubs, declarations | not modelled |

### How the parts interact

Device models and the CPU loop arm timers with `qemu_mod_timer`. A timer is inserted
into its clock's list. If it becomes the head and no alarm is pending, the host timer
is re-armed. The host timer fires a signal. `host_alarm_handler` then sets `pending`,
and, for dynticks, `expired`. The main loop calls `qemu_run_all_timers`. That function
clears `pending`, re-arms if `expired` is set, and then walks each clock's list. The walk
unlinks expired heads and calls their callbacks, and the callbacks arm and cancel more
timers. When `vm_stop` runs, the virtual clock freezes and its list is skipped. When
`vm_start` runs, the alarm is re-armed.

### What is hard to test here

- **Signal interleaving.** The handler can land between any two statements of the main
  loop. The tests never pin it to the gap between `pending = 0` and `if (expired)`.
- **The startup protocol.** `pending = 1` is forced at init without `expired`.
- **Callbacks that re-arm their own timer** while the walk runs on a time value read once.
- **Tie order** between timers with equal expiry.
- **Clock state.** Disabled clocks and a stopped VM change which lists are walked and
  which deadlines count.

Every hazard is listed with its source line in `PROJECT.json`.

## Modules

### QemuTimer.tla: the timer lists and the dynticks/periodic alarm protocol

State:

| Variable | Models |
|---|---|
| `active_timers[c]` | the sorted list of clock `c`, as a sequence of timer ids |
| `expire_time[t]` | `ts->expire_time` |
| `enabled[c]` | `clock->enabled` |
| `vm_running` | `vm_running` |
| `rt`, `vm_time` | the host and virtual clocks (abstract nanoseconds) |
| `pending`, `expired` | `alarm_timer->pending` and `alarm_timer->expired` |
| `host_timer` | the absolute instant the one-shot host timer fires, or `NoTimer` |
| `ml` | the main loop's program counter inside `qemu_run_all_timers`/`qemu_run_timers` |
| `to_run`, `current_time`, `cb_timer` | that function's locals |


`arm_order` and `fired_in_pass` are history variables used only by the properties.
`fired_in_pass` holds the timers run so far in the current `qemu_run_timers` pass,
less those a callback has re-armed at an instant that is not in the future.

Actions:

| Action | Code |
|---|---|
| `ArmTimer` | `qemu_mod_timer`/`qemu_mod_timer_ns`, including its conditional `qemu_rearm_alarm_timer` |
| `CancelTimer` | `qemu_del_timer` |
| `ClockEnable` | `qemu_clock_enable` |
| `VmStart` | `vm_start` → `alarm_timer_on_change_state_rearm` |
| `VmStop` | `cpu_disable_ticks` |
| `Tick` | time passing |
| `HostAlarmHandler` | the signal. It may occur at any main-loop step |
| `RunAllTimers`, `RearmIfExpired`, `RunTimers`, `RunTimersDisabled`, `PopExpired`, `Callback`, `ScanDone`, `RunAllDone` | the statements of `qemu_run_all_timers` and `qemu_run_timers`, one atomic step each, so that the signal can fall between them |

A callback (`ts->cb`, lines 504-505) may do any one of these:
- re-arm any timer, itself included, at `Now + d` for `d` in `CallbackDelays`. A delay
  of 0 re-arms at the current instant, which is not after `current_time`, so the loop
  runs that timer again in the same pass;
- cancel a timer;
- enable or disable a clock;
- stop the VM;
- do nothing.

`Dynticks` selects the backend:
- `TRUE` is the one-shot `dynticks` backend, rearmed by `dynticks_rearm_timer`.
- `FALSE` is a fixed-frequency backend (`unix`, `rtc`, `hpet`). It fires every `PERIOD`.
  Its handler sets `pending` only when `qemu_next_alarm_deadline() <= 0`.

`Spec` starts from `init_timer_alarm`'s state. `SteadySpec` starts after the first
dispatch, with `pending` clear.

Properties:
- `TypeOK`: the types, and each list holds a timer at most once (one `next` field).
- `ListsWellFormed`: every list holds timers of its own clock only, sorted by expiry.
  Timers with equal expiry appear in the order they were armed, which is the FIFO tie
  rule of the strict `>` at line 443.
- `FiresOncePerPass` (action property): within one `qemu_run_timers` pass, no timer
  is called twice, even when its callback re-arms it. This depends on
  `current_time` being read once (line 494).
- `RearmOnlyForEnabled` (action property): the dynticks rearm never programs the host
  timer earlier than the nearest deadline of an enabled clock (clamped), which is the
  spec's rearm protocol.
- `NoStrandedTimer`: whenever the main loop is idle and a runnable clock has a
  non-empty list, either an alarm is pending (the next dispatch will come) or a host
  timer is armed.
- `DueTimerRuns` (liveness, under `FairSpec`): every timer that falls due on a
  runnable clock is eventually run, cancelled or re-armed later, or its clock
  stops. This holds although the alarm can strand a timer. The main loop dispatches
  anyway when its 5000 ms timeout expires, and every dispatch walks every runnable
  clock.

`FairSpec` adds weak fairness on `RunAllTimers` and on the steps of the walk. See
Fairness below.

### TimerService.tla: the abstract timer service

`TimerService` states what the lists promise their callers (spec §4.2). It keeps only
three things: each timer's deadline (`armed`, or `NoDeadline`), each clock's `now`, and
the timer whose callback is `running`.

Its actions:
- Arming or cancelling one timer.
- `Fire(t)`: only for an armed timer whose clock has reached its deadline, and only if
  no armed timer of the same clock has an earlier deadline. It disarms the timer.
- The callback's return, which may arm or cancel one timer.
- Clocks advancing.

`QemuTimer` instantiates it, and `ServiceRefinement == Service!Spec` is checked. The
mapping is:
- `armed[t]` is `expire_time[t]` if `qemu_timer_pending(t)`, and `NoDeadline`
  otherwise;
- `now[c]` is `qemu_get_clock_ns(c)`;
- `running` is `cb_timer` while the main loop is in a callback.

The mutant that calls the callback with the timer still linked breaks the refinement.

### CpuTicks.tla and GuestCounter.tla: the guest tick counter and the virtual clock

`CpuTicks` holds the fields of `TimersState`:
- `ticks_prev`, `ticks_offset`, `clock_offset`, `ticks_enabled`.

It also holds the host sources:
- `real_ticks`, which is `cpu_get_real_ticks`. It advances by one, or jumps back to any
  lower value at most `MaxSuspends` times. The comment at line 92 calls this software
  suspend.
- `host_clock`, which is `get_clock`. It is monotonic.

`last_ticks` and `last_clock` are the last values a reader got.

Actions:

| Action | Code |
|---|---|
| `GetTicks` | `cpu_get_ticks`, which updates `cpu_ticks_prev`/`cpu_ticks_offset` |
| `GetClock` | `cpu_get_clock` |
| `EnableTicks` | `cpu_enable_ticks` (`vm_start`) |
| `DisableTicks` | `cpu_disable_ticks` (`vm_stop`), which freezes both values |
| `HostStep` | host time |

`GuestCounter` is the abstract specification both readers promise, taken from spec
§4.1. The value a reader sees never goes back. While the counter is stopped, the value
stays at what it held at the stop. `CpuTicks` instantiates it twice, with
`count <- last_ticks` and with `count <- last_clock`, and `running <- ticks_enabled`.
The refinement is checked as the properties `TicksRefinement` and `ClockRefinement`.

### Icount.tla: instruction-counted virtual time (`-icount N` and `-icount auto`)

State:

| Variable | Models |
|---|---|
| `shift` | `icount_time_shift` |
| `bias` | `qemu_icount_bias` |
| `icount` | `qemu_icount` |
| `last_delta` | the static `last_delta` of `icount_adjust` |
| `host` | `cpu_get_clock()` |
| `vm_running` | `vm_running` |

Virtual time is `VmTime == bias + icount * 2^shift`. This is `cpu_get_icount`, which
lives outside `src/` and is modelled from the spec.

Actions:

| Action | Code |
|---|---|
| `IcountAdjustRt` | `icount_adjust_rt`. The rt clock is not modelled, so it may fire at any time |
| `IcountAdjustVm` | `icount_adjust_vm`: fires once `icount_vm_timer` has expired, re-arms it one wobble ahead, then adjusts |
| `CalculateTimeout` | the icount branch of `qemu_calculate_timeout`. When `qemu_icount_delta` is not positive, `qemu_icount` advances by `qemu_icount_round(min(qemu_next_deadline(), 10 ms))` |
| `Execute` | the guest executing an instruction |
| `HostAdvance` | host time passing |
| `VmStart`, `VmStop` | `vm_start`, `vm_stop` |

`icount_adjust` itself (`IcountAdjust`) is split into `IcountDelta`, `ShiftDown`,
`AdjustedShift` and `RebasedBias`, in the order of the code. `Init` is
`configure_icount`: either a fixed shift from `FixedShifts`, or `auto`, which starts at
shift 3 and arms `icount_vm_timer`.

`NextDeadline` is `qemu_next_deadline`. Its VIRTUAL term is `icount_vm_timer`, and its
HOST term is an input from `HostDeadlines` or no timer. Other device timers on vm_clock
are not modelled. They could only make the deadline nearer.

Times are abstract nanoseconds. An instruction is small next to `ICOUNT_WOBBLE` (20
units), and the advance cap `MAX_ADVANCE` is 5. In the code the cap is a tenth of the
wobble (10 ms against 100 ms). It is a quarter here, because the instruction count
is bounded at 4: with a smaller cap, no idle advance ever starts close enough to
`icount_vm_timer` for the timer to bound it. With 5, that case is reached.

Properties:
- `TypeOK`, which includes `shift \in 0..MAX_ICOUNT_SHIFT`.
- `VirtualTimeNeverBack`: no step decreases `VmTime`, in particular not the re-basing
  of the bias when the shift changes.
- `RoundIsCeiling`: `qemu_icount_round` is the ceiling of `count / 2^shift` at every
  reachable shift, over the whole range of the capped advance.
- `AdvanceStopsAtTimer` (action property): an idle advance never carries virtual time
  a whole instruction past `icount_vm_timer` when it was not yet due.

The controller can undo its previous correction at the next adjustment: the
`last_delta` comparison is meant as hysteresis (spec §4.5), but the FIXME at line 247
says the algorithm is prone to oscillation. This is listed as a hazard in
`PROJECT.json`, not as a run, because the code admits it.

### AlarmConfig.tla: choosing the alarm backend

`order` is `alarm_timers[]`. Each entry is a record of the backend it belongs to and
whether its `name` is still set. `configure_alarms` disables an entry by clearing its
name, and the later loops stop at the first cleared name.

Actions:

| Action | Code |
|---|---|
| `ConfigureAlarms(opt)` | one `-clock` option. Its `strtok` loop is the recursive operator `Reorder`, with `SearchPos` for the search loop and `Swap` for the three-assignment swap |
| `InitTimerAlarm` | `init_timer_alarm` |
| `QuitTimers` | `quit_timers` |

`starts`, chosen in `Init`, says which backends' `start()` succeed on the host.
`requested` and `warned` record the last option and the names reported unknown.

`Candidates` is the spec's reference (§4.3, §7): the known names of the option, each
once, in the order given, or all backends when there is no option.

Properties:
- `TypeOK`: the array always holds each backend once.
- `SelectsFirstStartable`: start-up selects the first candidate that starts, fails
  only if none does, and exits only if there is no candidate.
- `UnknownNamesWarned`: every unknown name of an option was reported.

### OmapGpmc.tla: the OMAP memory controller's chip-select file

The board attaches devices to chip-selects with `omap_gpmc_attach`. The guest then
programs `GPMC_CONFIG7` of each chip-select. That register holds CSVALID,
BASEADDRESS and MASKADDRESS. The controller maps the device at the address and size
these fields give. It does so either by registering the device's `iomemtype` in the
physical memory map, or by calling the device's `base_update` and `unmap` callbacks.

State, in 16 MiB blocks (every region is a whole number of them):
- `config7`, `attached`, `base` and `size` are the fields of `cs_file[i]`;
- `phys` is what `cpu_register_physical_memory` last registered on each block;
- `dev_base` is what a callback device was last told;
- `irqen` and `sysconfig` are the registers of the same names;
- `guest` marks the end of board init.

`irqst` is not a variable. Only reset ever writes it, and it writes 0, so the
interrupt line stays low.

Actions:
- `Attach`: `omap_gpmc_attach`.
- `WriteConfig7`: unmap the old mapping, then map the new one. Both happen only when a
  bit of `0xf7f` changes.
- `WriteSysconfig`: SOFTRESET runs `omap_gpmc_reset`. Its loop is a `FoldLeft` over
  the chip-selects in index order, followed by the second map of chip-select 0.
- `WriteIrqStatus` and `WriteIrqEnable`.

Three defects are listed as hazards, not runs. The first two are single assignments,
and the code admits the third (the TODO in `omap_gpmc_cs_map`):
- the base is passed as `value & 0x1f`, although the register field has 6 bits;
- an IRQSTATUS write sets `irqen = ~value`;
- overlapping regions are not checked, so unmapping one chip-select can leave
  unassigned blocks inside another chip-select's mapped region.

Properties:
- `MappedOnlyIfValid`: a chip-select is mapped only while CSVALID is set and a device
  is attached.
- `NoStaleRegistration`: no block of the physical map stays routed to a chip-select
  whose current region does not contain it.
- `ResetLeavesBootRouted` (action property): after a soft reset, every block of chip-
  select 0's region is routed to chip-select 0. The reset loop maps chip-select 0
  first. It then unmaps each later valid chip-select, which registers
  `IO_MEM_UNASSIGNED` over that chip-select's whole region, also where it overlaps
  chip-select 0 (line 91). Only the map after the loop (line 127) routes those blocks
  back. The configuration reaches this: chip-select 1 is memory-type and can be mapped
  at base 0 (CONFIG7 0xf40 or 0xf60) before the reset.

The sequential steps of a handler compose as functions on the record `St`.
`IoMem = {0, 1}` are memory-type devices. Chip-select 2 uses callbacks.

### VirtFsLocal.tla: the virtio-9p local filesystem backend

`hw/virtio-9p-local.c` carries out 9P requests on a host directory. `fs_sm`
is the export's security model, fixed at start:
- **mapped**: files are created with QEMU's own owner and a fixed mode
  (`SM_LOCAL_MODE_BITS` or `SM_LOCAL_DIR_MODE_BITS`). The client's uid, gid, mode and
  rdev are kept in the `user.virtfs.*` xattrs, and `local_lstat` reads them back.
- **passthrough**: the client's values go to the host file with `chmod` and `lchown`.
- **none**: as passthrough, but a failing `lchown` is ignored.

State:
- `ino` maps each path of `Paths` to `Absent` or to an inode record: kind, host uid,
  gid and mode, and the four xattrs (`NoXattr` when unset).
- `last` records the operation, path, credentials and return value of the last
  call. It is read only as `last'` by the action properties, and the VIEW
  `StateView` leaves it out.

Every operation is one action. Each action is the whole function: the host calls
it makes happen in order on a record `[fs, err]`. After the first failure, `Run`
skips the rest. `\E f \in FailPoints` chooses which host call fails, if any.
`ErrEnd` is the `err_end:` label, which removes the half-made file.

| Action | Code |
|---|---|
| `LocalMknod`, `LocalMkdir`, `LocalOpen2`, `LocalSymlink` | the four creates. `open2` is also taken without `O_EXCL`. Mapped `LocalSymlink` writes the mode xattr as `fc_mode \| S_IFLNK` (`LinkCred`; `S_IFLNK` is an abstract bit above the permission values) |
| `LocalChmod`, `LocalChown` | `local_chmod`, `local_chown` |
| `LocalRemove`, `LocalRename` | `local_remove`, `local_rename` |

Properties:
- `MappedHostAttrsFixed`: under mapped, every host file keeps QEMU's uid and gid and
  one of the two fixed modes. No chmod or chown of the guest reaches the host file.
- `FailedCreateLeavesNoTrace`: a create that fails on a path that did not exist
  leaves it absent, whichever host call failed.
- `CreateReportsCredentials`: a create that returns 0 under mapped or passthrough
  makes `lstat` report the uid and gid asked for. This is violated (see Runs).

Bounds: two symmetric paths; three credentials (all fields set, all -1, and uid only);
all three models; any single host call failing. This gives 6.6k states in 16 s.

### MC_QemuTimer.tla

Three timers are instantiated as model values:
- `a` and `b` are on the virtual clock. They are symmetric, so `Permutations({a, b})`
  is used as the symmetry set.
- `r` is on the realtime clock.

The VIEW `StateView` drops data the code can no longer observe: the expiry of an
unarmed timer, and the locals of a finished pass.

## Runs

| Run | Config | Expect | Checks |
|---|---|---|---|
| `timer_lists` | MC_QemuTimer_dynticks.cfg | pass | `TypeOK`, `ListsWellFormed`, `FiresOncePerPass`, `ServiceRefinement` under `Spec` with the dynticks backend (537k states, 100 s) |
| `timers_eventually_run` | MC_QemuTimer_live.cfg | pass | `DueTimerRuns` under `FairSpec`, from start-up, with one timer on vm_clock and one on rt_clock, callbacks re-arming only to future instants (91k states, 45 s) |
| `guest_clock` | MC_CpuTicks.cfg | pass | `TypeOK`, `ClockRefinement`: `cpu_get_clock` refines `GuestCounter` |
| `guest_ticks_backjump` | MC_CpuTicks_backjump.cfg | violation | `TicksRefinement`: `cpu_get_ticks` goes backwards (see below) |
| `icount_controller` | MC_Icount.cfg | pass | `TypeOK`, `RoundIsCeiling`, `VirtualTimeNeverBack`, `AdvanceStopsAtTimer`, under both modes (1.55M states, 18 s; the shift reaches both 0 and 10) |
| `alarm_selection` | MC_AlarmConfig.cfg | pass | `TypeOK`, `SelectsFirstStartable` for one `-clock` option of up to 3 names over the 4 backends and one unknown name, on all 16 hosts (6671 states) |
| `alarm_second_clock_option` | MC_AlarmConfig_twice.cfg | violation | `UnknownNamesWarned` with two `-clock` options. `-clock dynticks -clock bogus` reports nothing: the search stops at the entry the first call disabled, swaps it to the front, and start-up later fails |
| `rearm_for_disabled_clock` | MC_QemuTimer_disabled.cfg | violation | `RearmOnlyForEnabled` under `SteadySpec`: with VIRTUAL disabled, arming a due VIRTUAL timer programs the host timer for `rt + MIN_TIMER_REARM`, although no enabled clock has a timer. `qemu_next_alarm_deadline` ignores `enabled` (spec §4.3 says enabled domains only), so the host wakes every 250 µs for a timer that cannot run |
| `stranded_by_signal_race` | MC_QemuTimer_race.cfg | violation | `NoStrandedTimer` under `SteadySpec`: the signal race in `qemu_run_all_timers` strands a timer armed after it |
| `gpmc_chip_selects` | MC_OmapGpmc.cfg | pass | `TypeOK`, `MappedOnlyIfValid`, `NoStaleRegistration`, `ResetLeavesBootRouted`. Three chip-selects, seven CONFIG7 values, soft resets and IRQ writes (16.8k states, 50 s) |
| `virtfs_local_ops` | MC_VirtFsLocal.cfg | pass | `TypeOK`, `MappedHostAttrsFixed`, `FailedCreateLeavesNoTrace`. All operations under all three models, with any one host call failing (6.6k states, 16 s) |
| `virtfs_mapped_mknod_creds` | MC_VirtFsLocal_mknod.cfg | violation | `CreateReportsCredentials`. Under mapped, `local_mknod` ignores the result of `local_set_xattr`: its `if (err == -1)` tests the earlier mknod's result. A failing setxattr therefore returns 0, and `lstat` reports QEMU's uid |

Bounds for `timer_lists`:
- three timers on two clocks;
- delays {0, 1, 2} for the main loop and for callbacks. From the main loop, 0 makes a
  timer expire at once. From a callback, it re-arms at the current instant, so the
  timer runs again in the same pass. A probe whose history keeps such a timer finds
  `FiresOncePerPass` violated, which shows that the case is reached;
- `MaxTime = 2`, `MIN_TIMER_REARM = 1`.

With these bounds, a callback can re-arm to the current instant, and two timers can
tie on one clock. 

`guest_ticks_backjump` fails in four steps:
1. The VM starts at host tick 1. `cpu_ticks_offset` becomes -1, and `cpu_ticks_prev`
   is left at 0.
2. The host counter drops to 0.
3. `cpu_get_ticks` finds `prev > ticks` false, so it does not compensate. It returns
   -1, after 0.

`cpu_enable_ticks` never refreshes `cpu_ticks_prev`. The compensation therefore
compares against a value from before the stop. For `CpuTicks` the bounds are host
values 0..3 and two suspends, which give about 29k states. They are enough to reach
every order of enable, disable, suspend and read.

The traces of the `QemuTimer` violation runs are short: 3 steps for `rearm_for_disabled_clock` and about 20 for `stranded_by_signal_race`. They are
the two QemuTimer findings recorded in `PROJECT.json`.

`NoStrandedTimer` is also broken from start-up. `init_timer_alarm` sets `pending`
without `expired`, so a timer armed before the first dispatch gets no host timer. A
run showed this under `Spec`. It was retired to make room for
`timers_eventually_run`, and the hazard at line 1039 keeps the description.
`DueTimerRuns` shows that either stranded timer is still run, late, on the main
loop's timeout.

`timers_eventually_run` leaves out symmetry, because symmetry is unsound with
liveness. It therefore uses one timer per clock. Ties and re-arming within a list are
the subject of `timer_lists`. Its callbacks re-arm only to future instants
(`CallbackDelays = {1, 2}`), which is the contract of spec §8. With a delay of 0, TLC
finds a pass that never ends: a callback re-arms its timer at `current_time`, the loop
pops it again, and so on forever. The other clock is then never walked. This is listed
as a liveness hazard at line 496.

Mutants:
- `ModTimer` without the initial `qemu_del_timer` breaks `TypeOK` (a timer linked twice).
- `InsertPos` with `>=` (ties first) breaks `ListsWellFormed`.
- `HeadExpired` that re-reads the clock instead of using `current_time` breaks
  `FiresOncePerPass`.
- `DecodeOK` without the mask check breaks `TypeOK` (a 256 MiB region).
- `Config7Changed` that ignores CSVALID breaks `MappedOnlyIfValid`.
- `GpmcReset` without the second map of chip-select 0 breaks `ResetLeavesBootRouted`.
- `CsUnmap` that keeps the region registered breaks `NoStaleRegistration`.
- `SetXattr` that writes the -1 fields too breaks `TypeOK` (an xattr holding -1).
- `ErrEnd` that does not remove the file breaks `FailedCreateLeavesNoTrace`.
- `LocalChmod` that chmods the host file under mapped breaks `MappedHostAttrsFixed`.
- `RunAllTimers` that leaves vm_clock out of `to_run` breaks `DueTimerRuns`.
- `NextDeadline` that ignores the VIRTUAL list breaks `AdvanceStopsAtTimer`.

Bounds for `OmapGpmc`:
- Three chip-selects. Chip-select 0 is the one reset maps. Two memory-type devices
  can overlap, and one callback device exercises `base_update`/`unmap`.
- Seven CONFIG7 values:
  - 0xf40 and 0xf00: valid and invalid at base 0;
  - 0xc44: 64 MiB at base 4;
  - 0x841: misaligned, rejected;
  - 0xf80: a change outside 0xf7f, ignored;
  - 0xf60: base bit 5, which is mapped at base 0 (`value & 0x1f`). This is listed as a hazard;
  - 0x040: a bad mask.
- Together these reach every branch of `omap_gpmc_cs_map` and of the CONFIG7 write.
  Reset is reached with chip-selects mapped, invalid and overlapping.

`AlarmConfig` runs with `CHECK_DEADLOCK FALSE`. Start-up really ends: in `exit(1)`,
in a failed `init_timer_alarm` (fatal in `vl.c`), or after `quit_timers`.

### Fairness

The safety runs assume no fairness. `NoStrandedTimer` is stated as a state invariant
rather than as liveness, for two reasons:
- Its violation is reachable in finitely many steps.
- The liveness form (`[]<>` of a callback call) would need fairness on the signal.
  The code gives that fairness only when a host timer is armed, and that missing
  host timer is exactly the bug.

The fairness the code does justify is in `FairSpec`:
- **Weak fairness on `RunAllTimers`.** The main loop blocks in select for at most
  `qemu_calculate_timeout()`, which is 5000 ms without icount (line 1066). It then
  calls `qemu_run_all_timers` whether or not the alarm has fired.
- **Weak fairness on the steps of the walk.** The main loop runs a pass to the end on
  one thread, and a signal only sets flags.

No fairness is assumed on `HostAlarmHandler` or on `Tick`. `DueTimerRuns` is checked
under `FairSpec`, with callbacks that re-arm only to future instants. A pass ends only
under that contract: a callback that re-arms its timer at the current instant keeps
the pass going forever (the hazard at line 496).

The other components have no eventuality to check:
- GPMC and virtio-9p are register and request handlers that complete in one step.
- Icount's eventualities depend on its bounds on the host clock and the instruction
  count.

## Plan for the next modules

1. **NextDeadline against the spec**: `qemu_next_deadline` is now in Icount. The
   code leaves out the REALTIME clock and the enable flags. Checking this against
   the spec's definition (§4.4) needs a violation run.
2. **VirtFsLocal, link**: `local_link` with inodes shared by two paths, so that a
   mapped chmod through one name shows through the other.
3. **OmapGpmc, the rest**: the prefetch engine's start and stop (PREFETCH_CONTROL)
   and the ECC pointer. Both are register data with one guard each, so they are low
   priority.

## What is not modelled, and why

- **Timer save/restore** (`qemu_put_timer`, `qemu_get_timer`, `vmstate_timers`).
  Modelled, the pair is an encoding (expiry, or -1 for "not pending") and its
  decoding through `qemu_mod_timer_ns`/`qemu_del_timer`. For every non-negative
  expiry the round trip holds by construction. It fails only for an armed expiry of
  exactly -1, and only a caller outside this repository can produce one. Then a restore
  cancels a timer that was armed. Both save/restore hazards are listed. Loading
  `cpu_ticks_offset` and `cpu_clock_offset` sets the guest clocks back to the snapshot
  by design; the table itself is data for savevm.c. The spec (§3) says icount's shift
  and bias are persisted too. No vmstate here holds them, which is listed as a hazard.

- **Host system calls** (`timer_settime`, `ioctl` of rtc/hpet, `setitimer`). They are
  abstracted to an absolute firing instant.
- **Timer scale.** All timers are nanosecond timers.
- **The iothread build.** There, the signal is handled synchronously on a dedicated
  thread. The model assumes asynchronous delivery, as in the non-iothread build the
  spec describes.
- **virtio-9p, the rest.** `local_link` needs inodes shared by several paths. The
  other calls (open, read, write, readlink, fsync, truncate, utimensat, statfs, and the
  xattr calls of `virtio-9p-xattr.c`) move data and change no metadata the properties
  read. The client's flags come from `v9fs_lcreate` and the guest driver, neither of
  which is in this repository. The model therefore lets `O_EXCL` vary.
- **PCnet PCI and PC/PIIX.** PC/PIIX is board construction. PCnet PCI is the PCI
  glue of a device whose state machine (CSRs, BCRs, descriptor rings) lives in
  pcnet.c, which is not in this repository. The glue's only state is the 16-byte
  APROM. Its byte handler honours BCR2.APROMWE, a pcnet.c register. Its word and long
  MMIO handlers write and read bytes `addr+1..addr+3` through `addr & 15`, so an
  access at offsets 0xd-0xf wraps onto prom[0..2], the MAC address. This is listed as
  a hazard. The round trip through those handlers is consistent, because reads wrap
  the same way. Only a property about the bytes outside the access would show the
  wrap, and that would restate the mask.
