------------------------------ MODULE RkSuspend ------------------------------
(***************************************************************************)
(* Clock and PLL sequencing of psci_system_suspend and psci_system_reset   *)
(* (src/core/arch/arm/plat-rockchip/psci_rk322x.c) against the RK322x CRU. *)
(*                                                                         *)
(* A CRU register is written with a write-mask in its upper half, so a     *)
(* write changes only the bit fields it names. A clock-select register is  *)
(* therefore modelled as its fields <<CRU_CLKSEL_CON index, mask, shift>>  *)
(* and a write as an update of the fields it masks. The values the         *)
(* operating system left in the registers are tagged with their field      *)
(* (<<"os", f>>), so that a field restored from the wrong place shows; the *)
(* code copies values without looking at them, so one such configuration  *)
(* stands for all.                                                         *)
(***************************************************************************)
EXTENDS Integers, Sequences, Functions

CONSTANTS
    GateCnt,      \* CRU_CLKGATE_CON_CNT
    LockBound     \* the 500 iterations of pll_wait_lock

ASSUME GateCnt \in Nat \ {0} /\ LockBound \in Nat

Plls == {"APLL", "CPLL", "GPLL"}
Gates == 0 .. GateCnt - 1

\* The CRU_CLKSEL_CON fields plls_power_down and plls_restore write.
ClkFields ==
    { <<0, 31, 0>>, <<0, 31, 8>>,                         \* core, pdbus
      <<1, 15, 0>>, <<1, 7, 4>>, <<1, 3, 8>>, <<1, 7, 12>>,
      <<10, 31, 0>>, <<10, 3, 8>>, <<10, 7, 12>>,           \* peri a/h/pclk
      <<21, 16383, 0>>, <<21, 3, 14>> }                     \* hdmi cec 32k

Set(n) == <<"set", n>>
OsVal(f) == <<"os", f>>

\* The values plls_power_down writes: every divider 0, cec 732 and 2.
SuspendSetting ==
    [f \in ClkFields |-> IF f = <<21, 16383, 0>> THEN Set(732)
                        ELSE IF f = <<21, 3, 14>> THEN Set(2) ELSE Set(0)]

\* clks_gating_table[], one value per gate register
GatingTable == [g \in Gates |-> <<"table", g>>]

\* Mutation variant of SuspendOrder: PLL mode bits restored before the
\* dividers.
SuspendOrderModeFirst ==
    << "clks_disable", "save_clksel", "down_GPLL", "down_CPLL", "down_APLL",
       "div_suspend", "wfi", "power_up", "lock_APLL", "lock_GPLL", "lock_CPLL",
       "mode_restore", "div_restore", "clks_restore" >>

\* system_suspend's calls and the steps inside them, in the order the code
\* makes them.
SuspendOrder ==
    << "clks_disable",                                     \* clks_disable()
       "save_clksel", "down_GPLL", "down_CPLL", "down_APLL",
       "div_suspend",                                      \* plls_power_down()
       "wfi",                                              \* cache_op_inner, wfi()
       "power_up", "lock_APLL", "lock_GPLL", "lock_CPLL",
       "div_restore", "mode_restore",                      \* plls_restore()
       "clks_restore" >>                                   \* clks_restore()

VARIABLES
    clksel,    \* CRU_CLKSEL_CON fields
    mode,      \* CRU_MODE_CON: "slow" (24 MHz OSC) or "normal" per PLL
    gate,      \* CRU_CLKGATE_CON(i)
    pll,       \* PLL power and lock: "down", "up", "locked"
    dram_d,    \* struct dram_data dram_d
    sus,       \* index into SuspendOrder, 0 outside system_suspend
    loop,      \* loop counter of pll_wait_lock
    phase,     \* "run", "sndrst" (system_reset in flight), "panic"
    pre        \* history: the registers when system_suspend was entered

vars == <<clksel, mode, gate, pll, dram_d, sus, loop, phase, pre>>

Regs == [clksel |-> clksel, mode |-> mode, gate |-> gate]

\* The configurations the operating system can leave: a PLL in normal mode
\* is up and locked; a PLL in slow mode may be powered down.
OsClksel == [f \in ClkFields |-> OsVal(f)]
OsGate == [g \in Gates |-> OsVal(g)]
OsPllStates ==
    {mp \in [Plls -> {"slow", "normal"}] \X [Plls -> {"down", "locked"}] :
        \A p \in Plls : mp[1][p] = "normal" => mp[2][p] = "locked"}

\* dram_d as .bss leaves it
ZeroDram == [clksel |-> [f \in ClkFields |-> Set(0)],
             mode |-> [p \in Plls |-> "slow"],
             gate |-> [g \in Gates |-> Set(0)]]

Init ==
    /\ clksel = OsClksel /\ gate = OsGate
    /\ \E mp \in OsPllStates : mode = mp[1] /\ pll = mp[2]
    /\ dram_d = ZeroDram
    /\ sus = 0 /\ loop = 0 /\ phase = "run"
    /\ pre = Regs

\* The step of system_suspend the code is at.
At(step) == sus > 0 /\ SuspendOrder[sus] = step
Advance == sus' = IF sus = Len(SuspendOrder) THEN 0 ELSE sus + 1

-----------------------------------------------------------------------------

\* psci_system_suspend entered by the single running core.
SystemSuspend ==
    /\ phase = "run" /\ sus = 0
    /\ sus' = 1
    /\ pre' = Regs
    /\ UNCHANGED <<clksel, mode, gate, pll, dram_d, loop, phase>>

\* clks_disable: save each gate register and write clks_gating_table[i]
\* under the full 0xffff write-mask.
ClksDisable ==
    /\ At("clks_disable")
    /\ dram_d' = [dram_d EXCEPT !.gate = gate]
    /\ gate' = GatingTable
    /\ Advance
    /\ UNCHANGED <<clksel, mode, pll, loop, phase, pre>>

\* plls_power_down: read CLKSEL_CON(0, 1, 10, 21) and MODE_CON into dram_d.
SaveClksel ==
    /\ At("save_clksel")
    /\ dram_d' = [dram_d EXCEPT !.clksel = clksel, !.mode = mode]
    /\ Advance
    /\ UNCHANGED <<clksel, mode, gate, pll, loop, phase, pre>>

\* pll_power_down(pll): PLL_SLOW_MODE(pll) to MODE_CON, then PLL_POWER_DOWN.
PllPowerDown(p) ==
    /\ At("down_" \o p)
    /\ mode' = [mode EXCEPT ![p] = "slow"]
    /\ pll' = [pll EXCEPT ![p] = "down"]
    /\ Advance
    /\ UNCHANGED <<clksel, gate, dram_d, loop, phase, pre>>

\* plls_power_down: core, peri, pdbus dividers to 0 and hdmi cec to 732/2,
\* each under its own write-mask.
DividersSuspend ==
    /\ At("div_suspend")
    /\ clksel' = SuspendSetting
    /\ Advance
    /\ UNCHANGED <<mode, gate, pll, dram_d, loop, phase, pre>>

\* cache_op_inner(DCACHE_CLEAN_INV); wfi() until a wake-up interrupt.
SuspendWfi ==
    /\ At("wfi")
    /\ Advance
    /\ UNCHANGED <<clksel, mode, gate, pll, dram_d, loop, phase, pre>>

\* plls_restore: pll_power_up(APLL, GPLL, CPLL); udelay(200). PLL_POWER_UP
\* is written whatever the PLL's state before suspend was.
PllsPowerUp ==
    /\ At("power_up")
    /\ pll' = [p \in Plls |-> IF pll[p] = "down" THEN "up" ELSE pll[p]]
    /\ loop' = 0
    /\ Advance
    /\ UNCHANGED <<clksel, mode, gate, dram_d, phase, pre>>

\* Mutation variant of PllWaitLockCheck: the loop test written
\* "loop <= 500".
PllWaitLockCheckOffByOne(p) ==
    /\ At("lock_" \o p) /\ loop <= LockBound /\ pll[p] # "locked"
    /\ loop' = loop + 1
    /\ UNCHANGED <<clksel, mode, gate, pll, dram_d, sus, phase, pre>>

\* Mutation variant of PllWaitLockCheck: the loop++ left out.
PllWaitLockCheckNoInc(p) ==
    /\ At("lock_" \o p) /\ loop < LockBound /\ pll[p] # "locked"
    /\ UNCHANGED <<clksel, mode, gate, pll, dram_d, sus, loop, phase, pre>>

\* One test of the while loop of pll_wait_lock(p).
PllWaitLockCheck(p) ==
    /\ At("lock_" \o p) /\ loop < LockBound /\ pll[p] # "locked"
    /\ loop' = loop + 1
    /\ UNCHANGED <<clksel, mode, gate, pll, dram_d, sus, phase, pre>>

\* Mutation variant of PllWaitLockFinal: a timeout returns instead of
\* calling panic().
PllWaitLockNoPanic(p) ==
    /\ At("lock_" \o p) /\ (loop = LockBound \/ pll[p] = "locked")
    /\ Advance /\ loop' = 0 /\ UNCHANGED phase
    /\ UNCHANGED <<clksel, mode, gate, pll, dram_d, pre>>

\* The final read of PLL_LOCK: panic() if the PLL has not locked.
PllWaitLockFinal(p) ==
    /\ At("lock_" \o p) /\ (loop = LockBound \/ pll[p] = "locked")
    /\ IF pll[p] = "locked"
         THEN Advance /\ loop' = 0 /\ UNCHANGED phase
         ELSE phase' = "panic" /\ UNCHANGED <<sus, loop>>
    /\ UNCHANGED <<clksel, mode, gate, pll, dram_d, pre>>

\* Mutation variant of DividersRestore: the BITS_WMSK(0x7, 4) of
\* CLKSEL_CON(1) left out.
DividersRestoreMissingMask ==
    /\ At("div_restore")
    /\ clksel' = [f \in ClkFields |-> IF f = <<1, 7, 4>> THEN clksel[f]
                                      ELSE dram_d.clksel[f]]
    /\ Advance
    /\ UNCHANGED <<mode, gate, pll, dram_d, loop, phase, pre>>

\* plls_restore: each CLKSEL field from dram_d under the write-mask the
\* power-down used (hdmi cec, pdbus, peri, core).
DividersRestore ==
    /\ At("div_restore")
    /\ clksel' = [f \in ClkFields |-> dram_d.clksel[f]]
    /\ Advance
    /\ UNCHANGED <<mode, gate, pll, dram_d, loop, phase, pre>>

\* plls_restore: dram_d.cru_mode_con | BITS_WMSK(1, PLL_MODE_BIT(p)) for
\* APLL, CPLL and GPLL.
ModeRestore ==
    /\ At("mode_restore")
    /\ mode' = [p \in Plls |-> dram_d.mode[p]]
    /\ Advance
    /\ UNCHANGED <<clksel, gate, pll, dram_d, loop, phase, pre>>

\* clks_restore: every gate register from dram_d; system_suspend returns.
ClksRestore ==
    /\ At("clks_restore")
    /\ gate' = [g \in Gates |-> dram_d.gate[g]]
    /\ Advance
    /\ UNCHANGED <<clksel, mode, pll, dram_d, loop, phase, pre>>

\* psci_system_reset: PLLS_SLOW_MODE to MODE_CON, dsb ...
SystemReset ==
    /\ phase = "run" /\ sus = 0
    /\ mode' = [p \in Plls |-> "slow"]
    /\ phase' = "sndrst"
    /\ UNCHANGED <<clksel, gate, pll, dram_d, sus, loop, pre>>

\* ... then CRU_SNDRST_VAL: the SoC resets and boots into a fresh
\* configuration with dram_d zeroed again.
SecondReset ==
    /\ phase = "sndrst"
    /\ clksel' = OsClksel /\ gate' = OsGate
    /\ \E mp \in OsPllStates : mode' = mp[1] /\ pll' = mp[2]
    /\ dram_d' = ZeroDram
    /\ sus' = 0 /\ loop' = 0 /\ phase' = "run"
    /\ pre' = [clksel |-> OsClksel, mode |-> mode', gate |-> OsGate]

\* The hardware: a powered-up PLL locks (or never does).
PllLocks(p) ==
    /\ pll[p] = "up"
    /\ pll' = [pll EXCEPT ![p] = "locked"]
    /\ UNCHANGED <<clksel, mode, gate, dram_d, sus, loop, phase, pre>>

Next ==
    \/ SystemSuspend \/ ClksDisable \/ SaveClksel \/ DividersSuspend
    \/ SuspendWfi \/ PllsPowerUp \/ DividersRestore \/ ModeRestore
    \/ ClksRestore \/ SystemReset \/ SecondReset
    \/ \E p \in Plls : PllPowerDown(p) \/ PllWaitLockCheck(p)
                       \/ PllWaitLockFinal(p) \/ PllLocks(p)

Spec == Init /\ [][Next]_vars

\* The suspending core runs its steps (the firmware is not preempted; the
\* wfi is left at the wake-up interrupt). PLL locking gets no fairness: a
\* PLL may never lock.
SuspendStep ==
    \/ ClksDisable \/ SaveClksel \/ DividersSuspend \/ SuspendWfi
    \/ PllsPowerUp \/ DividersRestore \/ ModeRestore \/ ClksRestore
    \/ \E p \in Plls : PllPowerDown(p) \/ PllWaitLockCheck(p)
                       \/ PllWaitLockFinal(p)

FairSpec == Spec /\ WF_vars(SuspendStep)

-----------------------------------------------------------------------------

ClkVals == {OsVal(f) : f \in ClkFields} \cup {Set(0), Set(2), Set(732)}
GateVals == {OsVal(g) : g \in Gates} \cup Range(GatingTable) \cup {Set(0)}
RegsType == [clksel : [ClkFields -> ClkVals], mode : [Plls -> {"slow", "normal"}],
             gate : [Gates -> GateVals]]

TypeOK ==
    /\ Regs \in RegsType
    /\ dram_d \in RegsType
    /\ pre \in RegsType
    /\ pll \in [Plls -> {"down", "up", "locked"}]
    /\ sus \in 0 .. Len(SuspendOrder)
    /\ loop \in 0 .. LockBound
    /\ phase \in {"run", "sndrst", "panic"}

\* Every system_suspend ends: it returns, or panics in pll_wait_lock when a
\* PLL does not lock within the bound; a wedged PLL never hangs it.
SuspendEnds == sus # 0 ~> (sus = 0 \/ phase = "panic")

\* system_suspend returns with every clock-gate, clock-select field and PLL
\* mode bit it touched holding its pre-suspend value: each power-down write
\* has a restore write with the same mask, from the right dram_d field.
SuspendRoundTrip ==
    [][(sus = Len(SuspendOrder) /\ sus' = 0) => Regs' = pre]_vars

\* No bus runs from a PLL with the divide-by-one suspend dividers: while any
\* PLL is in normal mode, no clock-select field holds the suspend setting.
DividersOnlyInSlowMode ==
    (\E p \in Plls : mode[p] = "normal") =>
        \A f \in ClkFields : clksel[f] # SuspendSetting[f]

\* A PLL feeds the clock tree only once locked: the mode bits go back to
\* normal only after pll_wait_lock has seen PLL_LOCK, or the system panics.
PllNormalOnlyWhenLocked ==
    \A p \in Plls : mode[p] = "normal" => pll[p] = "locked"

=============================================================================
