# TLA+ models of the RK322x PSCI back end and its neighbouring drivers

This directory holds the model-checking project for the sources under `src/`:

- `src/core/arch/arm/plat-rockchip/psci_rk322x.c` is the PSCI back end of the Rockchip RK322x.
  It is the core of the system. The file also carries a copy of `setjmp.h` from line 393 on.
- `src/core/drivers/dra7_rng.c` is the DRA7 hardware RNG driver.
- `src/core/drivers/hi16xx_uart.c` is the HI16xx UART driver, lines 1-161.
  From line 162 on, the file carries the STM platform glue: console, PL310, SCU and GIC.

## 1. Inventory

### Components, their state and their operations

| Component | State | Operations | Interacts with |
|---|---|---|---|
| PSCI CPU life cycle (`psci_cpu_on`, `psci_cpu_off`, `psci_affinity_info`, `reset_nonboot_cores`) | `ns_entry_addrs[]`; hardware: the per-core soft-reset bits of `CRU_SOFTRST_CON(0)`, the WFE/WFI bits of `GRF_CPU_STATUS1`, the ISRAM hand-off record (`BOOT_ADDR`, `LOCK_TAG`) | cpu_on: validate, write the entry, optionally wait for WFE/WFI, assert reset, release, wait for WFE/WFI, write the hand-off, SEV. cpu_off: park in WFI. affinity_info: read the WFI bit | Every core runs these concurrently. The target core's boot ROM waits for `LOCK_TAG`. OP-TEE's secondary boot path reads `ns_entry_addrs[]` |
| Clock/PLL sequencer (`clks_disable/restore`, `plls_power_down/restore`, `pll_*`), `psci_system_suspend`, `psci_system_reset` | `dram_d` snapshot; hardware: `CRU_CLKSEL_CON(0,1,10,21)`, `CRU_MODE_CON`, `CRU_CLKGATE_CON(0..15)`, the PLL power and lock bits | save and mask the gates; save the clock selects; PLLs to slow mode and off; dividers to the 24 MHz setting; WFI; power up; wait for lock (panic on timeout); restore dividers, then modes, then gates. reset: slow mode, then global reset | The PLLs lock asynchronously. The other cores must be parked (a precondition, not enforced) |
| PSCI queries (`psci_version`, `psci_features`) | none | constant lookups (not modelled) | none |
| DRA7 RNG | `rng_mutex`, the static `pos` and the 8-byte `random` buffer, cached `rng` base; hardware status/alarm registers | `hw_get_random_byte` (under the mutex; refill every 8 bytes; FRO-shutdown recovery loop), `dra7_rng_init` | concurrent callers on any core |
| HI16xx UART | hardware FIFOs and USR status | init, putc, flush, have_rx_data, getchar (busy-wait loops) | console callers |
| STM platform glue | `boot_is_completed`, cached console/PL310 addresses | console_putc/flush gated on the first standard SMC; PL310, SCU and GIC setup (not modelled) | SMC entry, console |
| `setjmp.h` | none | declarations only | none |

### What is hard

- **Concurrency in PSCI.** Any online core may call `cpu_on`, `cpu_off` or `affinity_info` while other cores are in the middle of theirs.
  The target core runs independently of its caller: the ROM, the TEE boot path, the normal world, idle WFI.
  The reset register and the ISRAM record are shared by every call.
  The ISRAM `LOCK_TAG` is never cleared.
  A WFE in the boot ROM may wake on any SEV or spuriously.
- **Timeouts in PSCI.** Both waits in `cpu_on` are bounded (500 × 2 µs), and the result is the final read of the bit, not the loop's last read.
  A timeout after the release returns DENIED and leaves the core released.
- **Ordering in the suspend sequencer.** Slow mode must come before power-down and before the dividers are cut.
  On resume, the lock and the dividers must come before normal mode.
  Every restore write must use the write-mask of its power-down write.
  A PLL that never locks must halt the system.
- **RNG.** The shared buffer and position are protected only by the mutex.
  The wait for `RNG_READY` is unbounded.
- **UART.** The status tests use bit numbers as masks (see the hazards).

### What makes each component correct

- **PSCI CPU life cycle:**
  - No core boots into the normal world without an entry supplied by `cpu_on`.
  - Every `cpu_on` returns.
  - A `SUCCESS` is followed by the target running at the requested entry.
  - The OS retires a core only once it is parked.
  - A core reported DENIED or offline never runs normal-world code.
- **Suspend sequencer:**
  - No bus runs divide-by-one from a PLL.
  - No PLL feeds the clock tree unlocked.
  - A returning suspend leaves every gate, select field and mode bit it touched as it found them.
- **RNG:**
  - No byte is handed to two callers.
  - The bytes of one 64-bit sample are consumed in order before a refill.
  - A caller eventually gets a byte if the generator recovers.
- **UART:** `getchar` reads only when the RX FIFO holds data, and `flush` returns only when TX is empty.

## 2. Plan

Modules, in order of importance, with their status:

1. `PsciCpu` and `MCPsciCpu` (done) model the multi-core `cpu_on`/`cpu_off`/`affinity_info` protocol.
   Its environment is the cores' hardware and a disciplined OS.
2. `RkSuspend` (done) models the suspend/reset clock and PLL sequencing.
3. No abstract spec of suspend and reset: the OS-visible promise (a returning suspend gives back the configuration it found) is exactly `SuspendRoundTrip`, so a refinement would only restate it.
   A refinement of `PsciCpu` onto a "DENIED means the core stays off" life cycle was not built: the DENIED finding breaks exactly that abstraction, and the violation run already shows it.
4. `Dra7Rng` and `MCDra7Rng` (done) model concurrent callers of `hw_get_random_byte` and the FRO recovery.
5. `Hi16xxUart` (done) models the driver's busy-wait loops against the FIFOs.
6. `psci_version` and `psci_features` are not modelled (section 5).
7. `Dra7RngAbstract` (done) is the caller-visible contract of `hw_get_random_byte`. `Dra7Rng` is checked to refine it.
8. The STM platform glue is not modelled (section 5).
9. Tried and left out:
   - a composition of `PsciCpu` with `RkSuspend`;
   - a 4-core PSCI instance.

   Section 5 says why.

## 3. Modules

### `PsciCpu.tla` (psci_rk322x.c lines 220-348 and 383-392)

The variables are:

- `hw[t]` is the physical activity of a core: `reset`, `rom_run`, `rom_wfe`, `tee`, `ns`, `idle` or `off`.
  `CoreHeldInReset`, `WfeI` (`CORE_WFE_I_MASK`) and `Wfi` (`CORE_WFI_MASK`) are read from it.
- `nsEntry` is `ns_entry_addrs[]`.
- `lockTag` is the ISRAM hand-off.
- `call[c]` is the PSCI call core `c` is executing, with its locals: target, entry, loop counter.
- `osState` is the OS's view of each core.
- `bootedAt` and `awaitBoot` are history variables used by the properties.

The actions follow the code:

- `CpuOnBegin` covers lines 271-278.
- `CpuOnCheckHeld` covers line 281.
- `PollCheck` and `PollFinal` cover `wait_core_wfe_i`: one loop test per step, then the separate final read.
- `AssertReset` covers lines 291-294. `ReleaseCore` covers lines 297-298.
- `WriteHandoff` covers lines 308-315.
- `CpuOffBegin` and `CpuOffPark` cover `psci_cpu_off`.
- `AffinityInfo` covers `psci_affinity_info`.

The environment actions are:

- `RomReachWfe` and `RomBoot`: the boot ROM, which may check the tag before or after its WFE.
- `TeeEnterNs`: OP-TEE's secondary entry, which reads `ns_entry_addrs[]`.
- `EnterIdle` and `WakeIdle`: normal-world idling.

The OS calls `cpu_on(t)` only for a core it believes offline with no `cpu_on(t)` in flight.
It offlines a core by calling `cpu_off` from that core.
It retires a dying core when `affinity_info` says OFF, as Linux's `psci_cpu_kill` does.
Inputs are MPIDRs with the RK322x cluster id `0xf` in Aff1. `MPIDR_CPU_MASK` strips the cluster id.

Fairness is weak fairness on the steps of a call already entered (the firmware runs with exceptions masked), on the ROM and on the TEE boot path.
The ROM fairness is justified by the `sev()` after the tag write.
The OS's choices get no fairness.

### `RkSuspend.tla` (psci_rk322x.c lines 48-218 and 350-380)

A CRU register is write-masked, so a clock-select register is modelled by its fields `<<CLKSEL_CON index, mask, shift>>`.
A write updates exactly the fields it masks.
The values the OS left are tagged with their field, so that a value restored into the wrong field shows.
The code only copies values, so one configuration stands for all (data independence).
The PLL modes and power states start in every configuration the OS can leave: a normal-mode PLL is locked, and a slow-mode PLL may be off.
`SuspendOrder` is the order of the calls and writes in `psci_system_suspend`, `plls_power_down` and `plls_restore`.
Each action is one of those steps.
`PllLocks` is the hardware. A PLL may also never lock, and `pll_wait_lock` then panics.

`FairSpec` adds weak fairness on the suspending core's steps (`SuspendStep`), which include the wake-up from WFI.
`SuspendEnds` needs this. The caller runs the sequence with interrupts masked, and a wake-up source is armed before `system_suspend` is called.

### `Dra7Rng.tla` (dra7_rng.c lines 95-216)

Two threads call `hw_get_random_byte` after `dra7_rng_init` has run, as in the initcall order.

The variables are:

- `owner` is `rng_mutex`. `rng` is the cached base.
- `pos` is the static position.
- The buffer is abstracted to `taken`, the bytes returned since the last refill, and `handed`, how many returns there were.
- `ret = random.byte[pos++]` is split into its load (`Take`) and its store (`Inc`), the accesses the mutex serialises.

The SHUTDOWN_OFLO recovery is split where the hardware can interleave with it:

- `FroRead` is the reads of ALARMSTOP and FRODETUNE.
- `FroFix` is the writes that clear ALARMSTOP, de-tune `tuning ^ alarm` and re-enable every FRO.
- `FroAck` is the acknowledge.

The EIP-76 engine is the environment:

- it finishes its soft reset;
- it produces a sample while an FRO runs;
- it shuts an FRO on an alarm, and raises SHUTDOWN_OFLO at `ShutdownTh` shut FROs.

SHUTDOWN_OFLO is modelled as an event latched at a shutdown and cleared by INTACK.

The fairness is:

- weak fairness on a thread's steps inside a call;
- strong fairness on taking the mutex, since `mutex_lock` wakes its waiters;
- weak fairness on the engine's reset completion and sampling.

Alarms get none.

### `Dra7RngAbstract.tla` and the RNG refinement

The abstract spec is the contract callers see.
A call is entered, is handed the next byte index in one atomic `Get`, and returns.
Indices go out in order and wrap after the last byte.

`Dra7Rng` maps onto it by translating the program counter:

- A call takes effect at `Take`, the load of `pos` and `random.byte[pos]`.
- From `Take` until that thread's store of `pos + 1` (`Inc`), the abstract next index already counts the byte.
- Every other step of a call, `dra7_rng_init` and the engine map to stuttering.

The refinement fails if a byte is handed out twice (a dropped `mutex_lock`), or if `pos` wraps at the wrong place.

### `Hi16xxUart.tla` (hi16xx_uart.c lines 58-160)

`UART_USR` is computed bit by bit from the FIFO levels and the shifter, using the datasheet meaning of the bit numbers in the header.
The loop tests `TxTest` and `RxTest` apply the code's masks, which are the bit numbers themselves, with `Bitwise`'s `&`.
A loop iteration whose test fails changes nothing, and is modelled as a step to the same state.
`hi16xx_uart_init` writes FCR, LCR, DLL, DLH and IEL, with `freq_div` narrowed to 16 bits and split into bytes, and then flushes.
The fairness is weak fairness on the caller's loops and on the transmitter. Input characters get none.

## 4. Runs

| Run | Config | Expect | What it shows |
|---|---|---|---|
| `psci_cpu_lifecycle` | `MCPsciCpu.cfg` | pass | `TypeOK`, `NoBootWithoutEntry`, `CpuOnTerminates`, `SuccessfulCpuOnBoots` and `RetiredCoreParked` hold for 3 cores, 2 entries and a 1-iteration poll bound, under every interleaving of callers, slow cores and the ROM (75,678 states). |
| `psci_denied_core_boots` | `MCPsciCpu_offline.cfg` | violation | `OfflineCoreSilent` fails. In the 17-step trace, `cpu_on(2)` is DENIED after the release because core 2 reached WFE late. Then `cpu_on(1)` writes `LOCK_TAG`, and core 2 boots while the OS thinks it is offline. This is the finding in `PROJECT.json`. |
| `suspend_sequencing` | `MCRkSuspend.cfg` | pass | `TypeOK`, `DividersOnlyInSlowMode`, `PllNormalOnlyWhenLocked`, `SuspendRoundTrip` and `SuspendEnds` (every suspend returns or panics, under weak fairness on the suspending core's steps) hold from all 27 initial PLL configurations, with PLLs locking early, late or never, and with system reset. `CHECK_DEADLOCK FALSE` is set because `panic()` really halts the system. |
| `rng_concurrent_callers` | `MCDra7Rng.cfg` | pass | With 2 threads, 2 FROs and at most 2 alarms, these hold over 182,009 states: `TypeOK`; `BytesHandedOnce` (no byte of a sample goes to two callers); `NoByteDiscarded` (a refill overwrites only a fully used sample); `CallsReturn`; `RngRefinesAbstract` (the driver implements `Dra7RngAbstract`). |
| `rng_lost_alarm_reenabled` | `MCDra7Rng_retune.cfg` | violation | `AlarmedFroRetuned` fails. An FRO shut down between the ALARMSTOP read (line 130) and its clear (line 134) is re-enabled without being de-tuned. |
| `rng_shutdown_ack_hang` | `MCDra7Rng_hang.cfg` | violation | `CallsReturn` fails with 3 alarms. The last FROs shut down between the re-enable (line 138) and the SHUTDOWN_OFLO acknowledge (line 140). The acknowledge clears their overflow, and the caller spins forever in the READY loop holding `rng_mutex`. |
| `uart_console` | `MCHi16xxUart.cfg` | pass | `TypeOK`, `NoTxOverflow` and `UartCallsReturn` hold. The TFNF test that putc really makes never overruns the FIFO. |
| `uart_flush_returns_early` | `MCHi16xxUart_flush.cfg` | violation | `FlushDrains` fails. flush returns with characters in the TX FIFO, because mask 2 tests TFNF, not TFE. |
| `uart_getchar_empty_read` | `MCHi16xxUart_getchar.cfg` | violation | `GetcharReadsData` fails. getchar reads RBR with the RX FIFO empty, because mask 3 tests BUSY\|TFNF, not RFNE. |

Each property of a passing run has a mutant in `PROJECT.json`: a plausible bug in the mapped code that TLC catches.
The mutants are:

- an off-by-one in either poll loop;
- an unmasked reset release;
- an unbounded poll;
- a SUCCESS returned without the lock tag;
- a swapped `?:` in `affinity_info`;
- the mode bits restored before the dividers;
- a lock timeout that does not panic;
- a restore missing one write-mask;
- a missing `loop++` in `pll_wait_lock`;
- in the RNG:
  - a dropped `mutex_lock`;
  - the wrap of `pos` written `> 8` or `== 7`;
  - a recovery that does not re-enable the FROs;
- in the UART:
  - DLL written unmasked;
  - putc without its wait;
  - the BUSY bit number used as the TX mask;

### Bounds

- **3 cores.** Two secondaries let two `cpu_on` calls interleave on the shared register and ISRAM record, and let the lock tag written for one core wake the other.
- **Poll bound 1.** The code's 500 only changes how long the wait lasts. The model keeps both loop exits: bit seen, and bound reached.
- **2 entries.** Two entries tell a stale entry from the requested one.
- **2 gate registers.** The 16 gate registers are treated alike.
- **RNG.**
  - Two threads make the mutex matter.
  - Two FROs, `ShutdownTh` 1 and 2 alarms reach the recovery, a second alarm during the recovery, and the lost alarm.
  - The stall needs a third alarm, so it has its own run.
  - The buffer keeps its real 8 bytes.
- **No 4-core PSCI instance.** The chip has 4 cores, but a 4-core instance of `PsciCpu` passes 4 million distinct states within 3 minutes, even with symmetry on the entries, and is still growing. With 3 cores, two `cpu_on` calls already interleave on every shared register. A third concurrent caller adds no kind of write the model does not already interleave.
- **UART.** A FIFO depth of 2 gives empty, partly full and full. The clock of 200 MHz with bauds of 115200 and 9600 gives divisors below and above 256.

## 5. Not modelled, and why

- The exact bit widths of the CRU fields and the boot ROM's internal code are not modelled.
  The ROM is not in this repository. It is modelled by the two behaviours a ROM waiting for `LOCK_TAG` can have.
- The cache maintenance calls and the contents of `psci_armv7_cpu_off` are external. They are folded into single steps.
- Concurrent `system_suspend` is not modelled: it violates the documented precondition (see the hazards).
- `plls_restore` powers up PLLs that were off before suspend.
  Nothing in the code or spec.md promises the PLL power state back, so no property states it (see the hazards).
- A caller of `hw_get_random_byte` before `dra7_rng_init` is not modelled.
  The initcall order rules it out on this platform.
- The UART line side is not modelled: baud timing, overruns and character values.
  The UART's divisor inputs exclude baud 0.
- The STM platform glue (hi16xx_uart.c from line 162) is not modelled. Nothing in it can go wrong in a way a model of this code could show:
  - `console_base` and `pl310_base` test `cpu_mmu_enabled()` on every call before they use the shared cached virtual address, so every access uses the right kind of address by construction;
  - `console_putc` and `console_flush` are gated only by `boot_is_completed`, set by the first standard SMC; whether the normal world has brought its UART up by then is the normal world's business;
  - the power-management handlers are `pm_panic`, and `main_fiq` and `tee_entry_fast` dispatch to code outside this repository;
  - the SCU, PL310 and GIC writes are constants.
- `psci_version` and `psci_features` are not modelled: they are stateless lookups, and the six function IDs `psci_features` accepts are exactly those spec.md sections 4.1 and 8 list.
- `dra7_rng_init`'s soft-reset poll (line 171) has no bound. Whether the engine completes its reset is the hardware's affair, so no liveness property is stated for it; the model assumes it does (weak fairness on `HwResetDone`).
- `PsciCpu` and `RkSuspend` are not composed.
  They drive disjoint registers: `CRU_SOFTRST_CON(0)` and the GRF status on one side, the clock selects, gates and PLLs on the other.
  They meet only in the OS's duty to park every secondary before `system_suspend`.
  A composition would check that duty of the caller, not this code.
- The copy of `setjmp.h` at the end of psci_rk322x.c (from line 393) is not modelled: it holds only declarations, with no state and no behaviour.
