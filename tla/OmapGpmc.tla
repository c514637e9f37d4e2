---------------------------- MODULE OmapGpmc ----------------------------
(***************************************************************************)
(* The OMAP General-Purpose Memory Controller of hw/omap_gpmc.c: the       *)
(* chip-select file (CONFIG7 of each chip-select decides whether and where *)
(* the device behind it is mapped), the board's omap_gpmc_attach, the      *)
(* soft reset of GPMC_SYSCONFIG and the interrupt-enable register.         *)
(*                                                                         *)
(* Addresses are counted in 16 MiB blocks: cs_map sets base = BASE << 24  *)
(* and size = ((0xf & ~MASK) + 1) << 24, so every region is a whole       *)
(* number of blocks.  The physical memory map is a function from blocks   *)
(* to the chip-select whose iomemtype is registered there.  CONFIG1-6,    *)
(* the prefetch engine and ECC are plain register stores and are left out.*)
(***************************************************************************)
EXTENDS Integers, Bitwise, SequencesExt

CONSTANTS
    NCS,            \* chip-selects in cs_file (8 in the code)
    IoMem,          \* chip-selects attached with a nonzero iomemtype
    Config7Values,  \* values the guest writes to GPMC_CONFIG7
    IrqValues,      \* values the guest writes to IRQSTATUS / IRQENABLE
    SysconfigValues,\* values the guest writes to GPMC_SYSCONFIG
    NBlocks         \* 16 MiB blocks of physical address space modelled

CS == 0..NCS-1
Blocks == 0..NBlocks-1
Unassigned == -1    \* IO_MEM_UNASSIGNED
NoBase == -1        \* the device's unmap callback has run last

VARIABLES
    config7,    \* cs_file[i].config[6]
    attached,   \* cs_file[i].opaque # NULL
    base,       \* cs_file[i].base, in blocks
    size,       \* cs_file[i].size, in blocks (0: not mapped)
    dev_base,   \* what base_update/unmap last told a callback device
    phys,       \* cpu_register_physical_memory's view of each block
    irqen,      \* s->irqen (uint16_t)
    sysconfig,  \* s->sysconfig
    guest       \* board init is over and the guest drives the registers

vars == <<config7, attached, base, size, dev_base, phys, irqen, sysconfig, guest>>

(* Bit fields of a CONFIG7 value. *)
CSVALID(v) == (v \div 64) % 2 = 1
MaskArg(v) == (v \div 256) % 16     \* value >> 8 & 0xf
BaseArg(v) == v & 31                \* value & 0x1f, passed as `base`

(* Decode check of omap_gpmc_cs_map, without the mask validity test. *)
DecodeOKNoMaskCheck(b, m) ==
    /\ b >= 0 /\ b < 64
    /\ (b & 15 & (15 - m)) = 0

(* Decode check of omap_gpmc_cs_map: a legal mask, base < 0x40 and base   *)
(* aligned to the region size.  15 - m is 0x0f & ~mask.                    *)
DecodeOK(b, m) ==
    /\ m \in {8, 12, 14, 15}
    /\ b >= 0 /\ b < 64
    /\ (b & 15 & (15 - m)) = 0

(* size = (0x0fffffff & ~(mask << 24)) + 1, in blocks *)
RegionSize(m) == (15 - m) + 1

Region(b, n) == {k \in Blocks : b <= k /\ k < b + n}

(* The controller's state as one record, so that the sequential steps of  *)
(* a handler (unmap, then map; the reset loop) compose as functions.      *)
St == [config7 |-> config7, attached |-> attached, base |-> base,
       size |-> size, dev |-> dev_base, phys |-> phys]

Apply(r) ==
    /\ config7' = r.config7 /\ attached' = r.attached /\ base' = r.base
    /\ size' = r.size /\ dev_base' = r.dev /\ phys' = r.phys

Register(p, R, owner) == [k \in Blocks |-> IF k \in R THEN owner ELSE p[k]]

(* omap_gpmc_cs_map: reject a bad decoding, do nothing for an empty        *)
(* chip-select, else set base and size, register the iomemtype (IoMem)    *)
(* or call base_update (the other devices).                               *)
CsMap(s, i, b, m) ==
    IF ~DecodeOK(b, m) \/ ~s.attached[i] THEN s
    ELSE [s EXCEPT !.base[i] = b, !.size[i] = RegionSize(m),
                   !.phys = IF i \in IoMem
                            THEN Register(@, Region(b, RegionSize(m)), i)
                            ELSE @,
                   !.dev[i] = IF i \in IoMem THEN @ ELSE b]

(* omap_gpmc_cs_unmap that leaves the region registered. *)
CsUnmapKeepRegistration(s, i) ==
    IF s.size[i] = 0 THEN s
    ELSE [s EXCEPT !.dev[i] = IF i \in IoMem THEN @ ELSE NoBase,
                   !.base[i] = 0, !.size[i] = 0]

(* omap_gpmc_cs_unmap: only a mapped chip-select (size # 0) is undone:   *)
(* the unmap callback runs, or IO_MEM_UNASSIGNED is registered over the   *)
(* region, and base and size are cleared.                                 *)
CsUnmap(s, i) ==
    IF s.size[i] = 0 THEN s
    ELSE [s EXCEPT !.dev[i] = IF i \in IoMem THEN @ ELSE NoBase,
                   !.phys = IF i \in IoMem
                            THEN Register(@, Region(s.base[i], s.size[i]), Unassigned)
                            ELSE @,
                   !.base[i] = 0, !.size[i] = 0]

(* One iteration of the reset loop: unmap if CSVALID, reload CONFIG7     *)
(* (CSVALID only for chip-select 0, MASK 0xf), map if CSVALID.            *)
ResetCs(s, i) ==
    LET s1 == IF CSVALID(s.config7[i]) THEN CsUnmap(s, i) ELSE s
        s2 == [s1 EXCEPT !.config7[i] = IF i = 0 THEN 3904 ELSE 3840]
    IN IF CSVALID(s2.config7[i])
       THEN CsMap(s2, i, BaseArg(s2.config7[i]), MaskArg(s2.config7[i]))
       ELSE s2

(* omap_gpmc_reset without the second map of chip-select 0 (line 127). *)
GpmcResetNoRemap(s) ==
    FoldLeft(ResetCs, s, [k \in 1..NCS |-> k - 1])

(* omap_gpmc_reset: the loop over every chip-select, then chip-select 0  *)
(* is mapped at (0, 0xf) once more.                                       *)
GpmcReset(s) ==
    CsMap(FoldLeft(ResetCs, s, [k \in 1..NCS |-> k - 1]), 0, 0, 15)

(* omap_gpmc_init on zeroed memory: reset leaves chip-select 0 valid but *)
(* nothing is attached, so nothing is mapped.                             *)
Init ==
    /\ config7 = [i \in CS |-> IF i = 0 THEN 3904 ELSE 3840]
    /\ attached = [i \in CS |-> FALSE]
    /\ base = [i \in CS |-> 0]
    /\ size = [i \in CS |-> 0]
    /\ dev_base = [i \in CS |-> NoBase]
    /\ phys = [k \in Blocks |-> Unassigned]
    /\ irqen = 0
    /\ sysconfig = 0
    /\ guest = FALSE

(* omap_gpmc_attach, during board init: install the device, map it if    *)
(* its CONFIG7 is already CSVALID.                                        *)
Attach(i) ==
    /\ ~guest
    /\ ~attached[i]
    /\ LET s1 == [St EXCEPT !.attached[i] = TRUE]
       IN Apply(IF CSVALID(config7[i])
                THEN CsMap(s1, i, BaseArg(config7[i]), MaskArg(config7[i]))
                ELSE s1)
    /\ UNCHANGED <<irqen, sysconfig, guest>>

BoardDone ==
    /\ ~guest
    /\ guest' = TRUE
    /\ UNCHANGED <<config7, attached, base, size, dev_base, phys, irqen, sysconfig>>

(* GPMC_CONFIG7 write: only when a bit of 0xf7f changes is the old       *)
(* mapping undone (if CSVALID) and the new one made (if CSVALID); the     *)
(* register keeps value & 0xf7f either way.                               *)
Config7ChangedIgnoringValid(old, v) == (old ^^ v) & 3903 # 0

Config7Changed(old, v) == (old ^^ v) & 3967 # 0

WriteConfig7(i, v) ==
    /\ guest
    /\ LET s0 == St
           s1 == IF CSVALID(config7[i]) THEN CsUnmap(s0, i) ELSE s0
           s2 == IF CSVALID(v) THEN CsMap(s1, i, BaseArg(v), MaskArg(v)) ELSE s1
           s3 == IF Config7Changed(config7[i], v) THEN s2 ELSE s0
       IN Apply([s3 EXCEPT !.config7[i] = v & 3967])
    /\ UNCHANGED <<irqen, sysconfig, guest>>

(* GPMC_SYSCONFIG write: SOFTRESET (bit 1) runs omap_gpmc_reset, then    *)
(* sysconfig = value & 0x19.                                              *)
WriteSysconfig(v) ==
    /\ guest
    /\ IF v & 2 # 0
       THEN Apply(GpmcReset(St)) /\ irqen' = 0
       ELSE UNCHANGED <<config7, attached, base, size, dev_base, phys, irqen>>
    /\ sysconfig' = v & 25
    /\ UNCHANGED guest

(* GPMC_IRQSTATUS write: s->irqen = ~value, truncated to uint16_t. *)
WriteIrqStatus(v) ==
    /\ guest
    /\ irqen' = 65535 - (v % 65536)
    /\ UNCHANGED <<config7, attached, base, size, dev_base, phys, sysconfig, guest>>

(* GPMC_IRQENABLE write: s->irqen = value & 0xf03. *)
WriteIrqEnable(v) ==
    /\ guest
    /\ irqen' = v & 3843
    /\ UNCHANGED <<config7, attached, base, size, dev_base, phys, sysconfig, guest>>

Next ==
    \/ \E i \in CS : Attach(i)
    \/ BoardDone
    \/ \E i \in CS, v \in Config7Values : WriteConfig7(i, v)
    \/ \E v \in SysconfigValues : WriteSysconfig(v)
    \/ \E v \in IrqValues : WriteIrqStatus(v)
    \/ \E v \in IrqValues : WriteIrqEnable(v)

Spec == Init /\ [][Next]_vars

-----------------------------------------------------------------------------
(* Every field has its type; a mapped region has one of the four sizes   *)
(* cs_map's mask check admits.                                            *)
TypeOK ==
    /\ config7 \in [CS -> 0..4095]
    /\ attached \in [CS -> BOOLEAN]
    /\ base \in [CS -> 0..63]
    /\ size \in [CS -> {0, 1, 2, 4, 8}]
    /\ dev_base \in [CS -> 0..63 \cup {NoBase}]
    /\ phys \in [Blocks -> CS \cup {Unassigned}]
    /\ irqen \in 0..65535
    /\ sysconfig \in 0..255
    /\ guest \in BOOLEAN

(* A chip-select is mapped only while its CONFIG7 says CSVALID and a     *)
(* device is attached: the CONFIG7 write and the reset loop must unmap    *)
(* before CSVALID is cleared.                                              *)
MappedOnlyIfValid ==
    \A i \in CS : size[i] # 0 => CSVALID(config7[i]) /\ attached[i]

(* A soft reset leaves chip-select 0, the boot device, reachable: every  *)
(* block of its region is routed to it.  The reset loop maps chip-select  *)
(* 0 first and unmaps the others after it, and an unmap registers         *)
(* IO_MEM_UNASSIGNED over its whole region (line 91), also where it       *)
(* overlaps chip-select 0; the map at line 127, after the loop, is what   *)
(* routes those blocks back.                                               *)
SoftReset == \E v \in SysconfigValues : v & 2 # 0 /\ WriteSysconfig(v)

ResetLeavesBootRouted ==
    [][SoftReset => \A k \in Region(base'[0], size'[0]) : phys'[k] = 0]_vars

(* The physical memory map never routes a block to a chip-select that no  *)
(* longer decodes it: every block registered to a memory-type device lies *)
(* inside that device's current region, after any sequence of CONFIG7     *)
(* rewrites, resets and attaches.  Unmap must unregister the old region   *)
(* before base and size are cleared.                                       *)
NoStaleRegistration ==
    \A k \in Blocks : phys[k] # Unassigned =>
        LET i == phys[k] IN size[i] # 0 /\ k \in Region(base[i], size[i])
=============================================================================
