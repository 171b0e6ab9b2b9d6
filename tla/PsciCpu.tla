------------------------------ MODULE PsciCpu ------------------------------
(***************************************************************************)
(* Secondary-core life cycle of the RK322x PSCI back end                   *)
(* (src/core/arch/arm/plat-rockchip/psci_rk322x.c): psci_cpu_on,          *)
(* psci_cpu_off and psci_affinity_info, executed concurrently by every     *)
(* core that runs the normal world, together with the hardware they drive: *)
(* the per-core soft-reset bit of CRU_SOFTRST_CON(0), the WFE/WFI status   *)
(* bits of GRF_CPU_STATUS1, the boot ROM of a released core that waits for *)
(* the lock tag in ISRAM, and the OP-TEE secondary boot path that reads    *)
(* ns_entry_addrs[] and enters the normal world.                           *)
(*                                                                         *)
(* The operating system is modelled as a disciplined caller: it issues     *)
(* cpu_on(t) only for a core it believes offline with no cpu_on(t) under   *)
(* way, offlines a core with cpu_off from that core, and retires a dying   *)
(* core when affinity_info answers OFF (as Linux's psci_cpu_kill does).    *)
(***************************************************************************)
EXTENDS Integers, FiniteSets

CONSTANTS
    NCores,       \* CFG_TEE_CORE_NB_CORE
    Entries,      \* normal-world entry addresses passed to cpu_on
    NoEntry,      \* the zero left in ns_entry_addrs[] by .bss
    PollBound,    \* the 500 iterations of wait_core_wfe_i
    ClusterIds    \* MPIDR Aff1 values the caller may put above the core id

ASSUME /\ NCores \in Nat \ {0, 1}
       /\ NoEntry \notin Entries
       /\ PollBound \in Nat
       /\ ClusterIds \subseteq Nat

Cores == 0 .. NCores - 1
Secondaries == Cores \ {0}

\* core_idx &= MPIDR_CPU_MASK (0xff)
MPIDR_CPU_MASK(x) == x % 256

\* Arguments a caller may pass: an MPIDR whose Aff0 is a core id or the
\* first id past the last core.
CpuIdInputs == {a * 256 + n : a \in ClusterIds, n \in 0 .. NCores}

(***************************************************************************)
(* Physical activity of a core.                                            *)
(*   "reset"    held in reset by its CRU_SOFTRST_CON(0) bit                *)
(*   "rom_run"  released, boot ROM running, not yet in WFE                 *)
(*   "rom_wfe"  boot ROM waiting in WFE for the ISRAM lock tag             *)
(*   "tee"      OP-TEE secondary boot path (before the normal world)       *)
(*   "ns"       executing: normal world, or secure monitor serving an SMC  *)
(*   "idle"     normal-world idle loop in WFI                              *)
(*   "off"      psci_cpu_off's wfi() loop with exceptions masked           *)
(***************************************************************************)
HwStates == {"reset", "rom_run", "rom_wfe", "tee", "ns", "idle", "off"}

OsStates == {"offline", "online", "dying"}

CallPcs == {"held", "poll1", "final1", "assert", "release",
            "poll2", "final2", "handoff", "armv7_off"}

NoCall == [op |-> "none", pc |-> "held", tgt |-> 0, entry |-> NoEntry, loop |-> 0]

VARIABLES
    hw,          \* physical activity of each core
    nsEntry,     \* ns_entry_addrs[]
    lockTag,     \* LOCK_TAG and CFG_TEE_LOAD_ADDR written to ISRAM
    call,        \* the PSCI call each core is executing, with its locals
    osState,     \* the operating system's view of each core
    bootedAt,    \* history: entry at which each core last entered the normal world
    awaitBoot    \* history: entry promised by the last successful cpu_on

vars == <<hw, nsEntry, lockTag, call, osState, bootedAt, awaitBoot>>

\* CORE_WFE_I_MASK(core) bits of GRF_CPU_STATUS1
WfeI(t) == hw[t] \in {"rom_wfe", "idle", "off"}
\* CORE_WFI_MASK(core) bits of GRF_CPU_STATUS1; no core answers above NCores
Wfi(t) == t \in Cores /\ hw[t] \in {"idle", "off"}
\* core_held_in_reset()
CoreHeldInReset(t) == hw[t] = "reset"

Running(t) == hw[t] \in {"ns", "idle"}
Idle(c) == hw[c] = "ns" /\ call[c].op = "none"

CpuOnInProgress(t) == \E c \in Cores : call[c].op = "cpu_on" /\ call[c].tgt = t

Goto(c, pc) == call' = [call EXCEPT ![c].pc = pc]
Return(c) == call' = [call EXCEPT ![c] = NoCall]

(***************************************************************************)
(* Init: after reset_nonboot_cores() every secondary core is held in       *)
(* reset; core 0 runs the normal world; ns_entry_addrs[] is zero.          *)
(***************************************************************************)
Init ==
    /\ hw = [t \in Cores |-> IF t = 0 THEN "ns" ELSE "reset"]
    /\ nsEntry = [t \in Cores |-> NoEntry]
    /\ lockTag = FALSE
    /\ call = [c \in Cores |-> NoCall]
    /\ osState = [t \in Cores |-> IF t = 0 THEN "online" ELSE "offline"]
    /\ bootedAt = [t \in Cores |-> NoEntry]
    /\ awaitBoot = [t \in Cores |-> NoEntry]

(***************************************************************************)
(* psci_cpu_on                                                             *)
(***************************************************************************)

\* Entry into psci_cpu_on: mask the id, reject core 0 and ids past the last
\* core, then record the entry in ns_entry_addrs[].
CpuOnBegin(c, id, e) ==
    LET t == MPIDR_CPU_MASK(id) IN
    /\ Idle(c)
    /\ t \in Secondaries => osState[t] = "offline" /\ ~CpuOnInProgress(t)
    /\ IF t = 0 \/ t >= NCores
         THEN UNCHANGED <<nsEntry, call>>                 \* INVALID_PARAMETERS
         ELSE /\ nsEntry' = [nsEntry EXCEPT ![t] = e]
              /\ call' = [call EXCEPT ![c] = [op |-> "cpu_on", pc |-> "held",
                                  tgt |-> t, entry |-> e, loop |-> 0]]
    /\ UNCHANGED <<hw, lockTag, osState, bootedAt, awaitBoot>>

\* if (!core_held_in_reset(core_idx)) wait_core_wfe_i(...)
CpuOnCheckHeld(c) ==
    /\ call[c].op = "cpu_on" /\ call[c].pc = "held"
    /\ Goto(c, IF CoreHeldInReset(call[c].tgt) THEN "assert" ELSE "poll1")
    /\ UNCHANGED <<hw, nsEntry, lockTag, osState, bootedAt, awaitBoot>>

\* Mutation variants of PollCheck: the loop test written "loop <= 500",
\* and the loop with no bound at all.
PollCheckOffByOne(c) ==
    /\ call[c].op = "cpu_on" /\ call[c].pc \in {"poll1", "poll2"}
    /\ IF WfeI(call[c].tgt) \/ call[c].loop > PollBound
         THEN Goto(c, IF call[c].pc = "poll1" THEN "final1" ELSE "final2")
         ELSE call' = [call EXCEPT ![c].loop = @ + 1]
    /\ UNCHANGED <<hw, nsEntry, lockTag, osState, bootedAt, awaitBoot>>

PollCheckUnbounded(c) ==
    /\ call[c].op = "cpu_on" /\ call[c].pc \in {"poll1", "poll2"}
    /\ IF WfeI(call[c].tgt)
         THEN Goto(c, IF call[c].pc = "poll1" THEN "final1" ELSE "final2")
         ELSE UNCHANGED call
    /\ UNCHANGED <<hw, nsEntry, lockTag, osState, bootedAt, awaitBoot>>

\* One test of the while loop of wait_core_wfe_i: leave it when the bit is
\* seen or the bound is reached, otherwise udelay(2) and loop++.
PollCheck(c) ==
    /\ call[c].op = "cpu_on" /\ call[c].pc \in {"poll1", "poll2"}
    /\ IF WfeI(call[c].tgt) \/ call[c].loop >= PollBound
         THEN Goto(c, IF call[c].pc = "poll1" THEN "final1" ELSE "final2")
         ELSE call' = [call EXCEPT ![c].loop = @ + 1]
    /\ UNCHANGED <<hw, nsEntry, lockTag, osState, bootedAt, awaitBoot>>

\* The final read of GRF_CPU_STATUS1 that wait_core_wfe_i returns; a clear
\* bit makes psci_cpu_on return PSCI_RET_DENIED.
PollFinal(c) ==
    /\ call[c].op = "cpu_on" /\ call[c].pc \in {"final1", "final2"}
    /\ IF WfeI(call[c].tgt)
         THEN call' = [call EXCEPT ![c].pc =
                         IF @ = "final1" THEN "assert" ELSE "handoff",
                                   ![c].loop = 0]
         ELSE Return(c)                                    \* DENIED
    /\ UNCHANGED <<hw, nsEntry, lockTag, osState, bootedAt, awaitBoot>>

\* write32(CORE_SOFT_RESET(core_idx)); dsb(); udelay(2). The masked write
\* touches only the target's bit; whatever the target was running is lost.
AssertReset(c) ==
    LET t == call[c].tgt IN
    /\ call[c].op = "cpu_on" /\ call[c].pc = "assert"
    /\ hw' = [hw EXCEPT ![t] = "reset"]
    /\ call' = [call EXCEPT ![c].pc = "release", ![t] = NoCall]
    /\ UNCHANGED <<nsEntry, lockTag, osState, bootedAt, awaitBoot>>

\* Mutation variant of ReleaseCore: the release written without the
\* per-core write-mask, so every non-boot core held in reset is released.
ReleaseCoreUnmasked(c) ==
    LET t == call[c].tgt IN
    /\ call[c].op = "cpu_on" /\ call[c].pc = "release"
    /\ hw' = [u \in Cores |-> IF u = t \/ (u \in Secondaries /\ hw[u] = "reset")
                              THEN "rom_run" ELSE hw[u]]
    /\ Goto(c, "poll2")
    /\ UNCHANGED <<nsEntry, lockTag, osState, bootedAt, awaitBoot>>

\* write32(CORE_SOFT_RELEASE(core_idx)); dsb()
ReleaseCore(c) ==
    LET t == call[c].tgt IN
    /\ call[c].op = "cpu_on" /\ call[c].pc = "release"
    /\ hw' = [hw EXCEPT ![t] = "rom_run"]
    /\ Goto(c, "poll2")
    /\ UNCHANGED <<nsEntry, lockTag, osState, bootedAt, awaitBoot>>

\* Mutation variant of WriteHandoff: SUCCESS without writing LOCK_TAG.
WriteHandoffNoTag(c) ==
    LET t == call[c].tgt IN
    /\ call[c].op = "cpu_on" /\ call[c].pc = "handoff"
    /\ Return(c)
    /\ osState' = [osState EXCEPT ![t] = "online"]
    /\ awaitBoot' = [awaitBoot EXCEPT ![t] = call[c].entry]
    /\ UNCHANGED <<hw, nsEntry, lockTag, bootedAt>>

\* Write CFG_TEE_LOAD_ADDR and LOCK_TAG to ISRAM, dsb(), sev(), dsb() and
\* return PSCI_RET_SUCCESS.
WriteHandoff(c) ==
    LET t == call[c].tgt IN
    /\ call[c].op = "cpu_on" /\ call[c].pc = "handoff"
    /\ lockTag' = TRUE
    /\ Return(c)
    /\ osState' = [osState EXCEPT ![t] = "online"]
    /\ awaitBoot' = [awaitBoot EXCEPT ![t] = call[c].entry]
    /\ UNCHANGED <<hw, nsEntry, bootedAt>>

(***************************************************************************)
(* psci_cpu_off and psci_affinity_info                                     *)
(***************************************************************************)

\* The OS offlines the calling core; core 0 gets INVALID_PARAMETERS.
CpuOffBegin(c) ==
    /\ Idle(c) /\ osState[c] = "online"
    /\ IF c = 0
         THEN UNCHANGED <<call, osState, awaitBoot>>
         ELSE /\ call' = [call EXCEPT ![c] = [NoCall EXCEPT !.op = "cpu_off",
                                                            !.pc = "armv7_off"]]
              /\ osState' = [osState EXCEPT ![c] = "dying"]
              /\ awaitBoot' = [awaitBoot EXCEPT ![c] = NoEntry]
    /\ UNCHANGED <<hw, nsEntry, lockTag, bootedAt>>

\* psci_armv7_cpu_off(); thread_mask_exceptions(THREAD_EXCP_ALL);
\* while (1) wfi();
CpuOffPark(c) ==
    /\ call[c].op = "cpu_off" /\ call[c].pc = "armv7_off"
    /\ hw' = [hw EXCEPT ![c] = "off"]
    /\ Return(c)
    /\ UNCHANGED <<nsEntry, lockTag, osState, bootedAt, awaitBoot>>

\* Mutation variant of AffinityOff: the two arms of the ?: swapped.
AffinityOffInverted(id) == ~Wfi(MPIDR_CPU_MASK(id))

\* The WFI status bit of the masked id answers OFF, a clear one ON. The OS
\* acts on the answer only for a core it is offlining.
AffinityOff(id) == Wfi(MPIDR_CPU_MASK(id))

AffinityInfo(c, id) ==
    LET t == MPIDR_CPU_MASK(id) IN
    /\ Idle(c)
    /\ osState' = IF t \in Secondaries /\ osState[t] = "dying" /\ AffinityOff(id)
                    THEN [osState EXCEPT ![t] = "offline"]
                    ELSE osState
    /\ UNCHANGED <<hw, nsEntry, lockTag, call, bootedAt, awaitBoot>>

(***************************************************************************)
(* Hardware and code outside this file                                     *)
(***************************************************************************)

\* The boot ROM of a released core reaches its WFE.
RomReachWfe(t) ==
    /\ hw[t] = "rom_run"
    /\ hw' = [hw EXCEPT ![t] = "rom_wfe"]
    /\ UNCHANGED <<nsEntry, lockTag, call, osState, bootedAt, awaitBoot>>

\* The boot ROM finds LOCK_TAG in ISRAM (checked before or after a WFE,
\* which may wake on any SEV or spuriously) and jumps to CFG_TEE_LOAD_ADDR.
RomBoot(t) ==
    /\ hw[t] \in {"rom_run", "rom_wfe"} /\ lockTag
    /\ hw' = [hw EXCEPT ![t] = "tee"]
    /\ UNCHANGED <<nsEntry, lockTag, call, osState, bootedAt, awaitBoot>>

\* OP-TEE's secondary boot path enters the normal world at ns_entry_addrs[].
TeeEnterNs(t) ==
    /\ hw[t] = "tee"
    /\ hw' = [hw EXCEPT ![t] = "ns"]
    /\ bootedAt' = [bootedAt EXCEPT ![t] = nsEntry[t]]
    /\ UNCHANGED <<nsEntry, lockTag, call, osState, awaitBoot>>

\* The normal world idles in WFI and is woken by an interrupt.
EnterIdle(c) ==
    /\ Idle(c)
    /\ hw' = [hw EXCEPT ![c] = "idle"]
    /\ UNCHANGED <<nsEntry, lockTag, call, osState, bootedAt, awaitBoot>>

WakeIdle(c) ==
    /\ hw[c] = "idle"
    /\ hw' = [hw EXCEPT ![c] = "ns"]
    /\ UNCHANGED <<nsEntry, lockTag, call, osState, bootedAt, awaitBoot>>

-----------------------------------------------------------------------------

\* The steps of firmware code a core runs once a call has been entered.
CallStep(c) ==
    \/ CpuOnCheckHeld(c) \/ PollCheck(c) \/ PollFinal(c)
    \/ AssertReset(c) \/ ReleaseCore(c) \/ WriteHandoff(c)
    \/ CpuOffPark(c)

Next ==
    \/ \E c \in Cores :
          \/ \E id \in CpuIdInputs, e \in Entries : CpuOnBegin(c, id, e)
          \/ CpuOffBegin(c)
          \/ \E id \in CpuIdInputs : AffinityInfo(c, id)
          \/ CallStep(c)
          \/ EnterIdle(c) \/ WakeIdle(c)
    \/ \E t \in Cores : RomReachWfe(t) \/ RomBoot(t) \/ TeeEnterNs(t)

(***************************************************************************)
(* Fairness: firmware runs with exceptions masked, so a core inside a PSCI *)
(* call keeps executing; the ROM wakes on the SEV issued after the lock    *)
(* tag is written; OP-TEE's boot path runs to the normal world. The        *)
(* operating system's own choices (calls, idling) get no fairness.         *)
(***************************************************************************)
Fairness ==
    /\ \A c \in Cores : WF_vars(CallStep(c))
    /\ \A t \in Cores : WF_vars(RomReachWfe(t)) /\ WF_vars(RomBoot(t))
                        /\ WF_vars(TeeEnterNs(t))

Spec == Init /\ [][Next]_vars
FairSpec == Spec /\ Fairness

-----------------------------------------------------------------------------

TypeOK ==
    /\ hw \in [Cores -> HwStates]
    /\ nsEntry \in [Cores -> Entries \cup {NoEntry}]
    /\ lockTag \in BOOLEAN
    /\ \A c \in Cores :
          \/ call[c] = NoCall
          \/ /\ call[c].op \in {"cpu_on", "cpu_off"}
             /\ call[c].pc \in CallPcs
             /\ call[c].tgt \in Cores
             /\ call[c].entry \in Entries \cup {NoEntry}
             /\ call[c].loop \in 0 .. PollBound
    /\ osState \in [Cores -> OsStates]
    /\ bootedAt \in [Cores -> Entries \cup {NoEntry}]
    /\ awaitBoot \in [Cores -> Entries \cup {NoEntry}]

\* A secondary core never enters the normal world at an entry address no
\* cpu_on supplied: the masked reset writes of psci_cpu_on release only its
\* target, and only after ns_entry_addrs[target] has been written.
NoBootWithoutEntry ==
    \A t \in Secondaries : Running(t) => bootedAt[t] \in Entries

\* Every cpu_on returns: the two waits of wait_core_wfe_i are bounded, so a
\* core that never reaches WFE cannot hang the caller in the secure world.
CpuOnTerminates ==
    \A c \in Cores : call[c].op = "cpu_on" ~> call[c].op = "none"

\* A cpu_on that returned SUCCESS is followed by its target running the
\* normal world at the entry that call passed (ISRAM hand-off, SEV, OP-TEE
\* secondary boot reading ns_entry_addrs[]).
SuccessfulCpuOnBoots ==
    \A t \in Secondaries, e \in Entries :
        awaitBoot[t] = e ~> (Running(t) /\ bootedAt[t] = e)

\* The OS retires a dying core only when it is parked in psci_cpu_off's
\* wfi loop: affinity_info never answers OFF while the core still executes
\* psci_armv7_cpu_off.
RetiredCoreParked ==
    [][\A t \in Secondaries :
          (osState[t] = "dying" /\ osState'[t] = "offline") => hw[t] = "off"]_vars

\* A core the OS believes offline, with no cpu_on for it under way, never
\* executes normal-world code: a cpu_on that returned DENIED has not left
\* its target able to boot.
OfflineCoreSilent ==
    \A t \in Secondaries :
        osState[t] = "offline" /\ ~CpuOnInProgress(t) => hw[t] \notin {"tee", "ns", "idle"}

=============================================================================
