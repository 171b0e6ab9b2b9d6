------------------------------ MODULE Dra7Rng ------------------------------
(***************************************************************************)
(* The DRA7 TRNG driver, src/core/drivers/dra7_rng.c: dra7_rng_init and   *)
(* hw_get_random_byte called by several threads, with the EIP-76 engine   *)
(* (READY, SHUTDOWN_OFLO, the FRO alarms) as an environment.  The 8-byte  *)
(* sample buffer is abstracted to which of its bytes were handed out.     *)
(***************************************************************************)
EXTENDS Naturals, FiniteSets

CONSTANTS
    Threads,       \* callers of hw_get_random_byte
    FROs,          \* the free-running oscillators (24 on the chip)
    ShutdownTh,    \* RNG_SHUTDOWN_THRESHOLD: shut FROs that raise SHUTDOWN_OFLO
    MaxAlarms,     \* bound on the FRO alarms the hardware raises
    NoThread       \* rng_mutex unowned

ASSUME ShutdownTh \in 1..Cardinality(FROs)

\* the size of union random: byte[8]
NBytes == 8

VARIABLES
    initPc,     \* dra7_rng_init: "soft_reset", "poll", "config", "done"
    softReset,  \* RNG_SOFT_RESET in RNG_SOFT_RESET_REG
    trng,       \* ENABLE_TRNG in RNG_CONTROL
    ready,      \* RNG_READY in RNG_STATUS
    oflo,       \* SHUTDOWN_OFLO in RNG_STATUS
    froEnable,  \* RNG_FROENABLE as a set of FROs
    alarmStop,  \* RNG_ALARMSTOP as a set of FROs
    detune,     \* RNG_FRODETUNE as a set of FROs
    alarms,     \* alarms raised so far
    offended,   \* history: FROs shut by an alarm whose tuning has not changed since
    owner,      \* rng_mutex
    rng,        \* static rng: TRUE once the base is cached
    pos,        \* static pos
    filled,     \* history: the buffer holds a sample
    taken,      \* history: indices of random.byte[] returned since the refill
    handed,     \* history: number of bytes returned since the refill
    pc,         \* per thread
    loc         \* per thread: the locals alarm and tuning, and the index read

vars == <<initPc, softReset, trng, ready, oflo, froEnable, alarmStop, detune,
          alarms, offended, owner, rng, pos, filled, taken, handed, pc, loc>>

hwVars == <<softReset, trng, ready, oflo, froEnable, alarmStop, detune,
            alarms, offended>>

bufVars == <<rng, pos, filled, taken, handed>>

NoLoc == [alarm |-> {}, tuning |-> {}, idx |-> 0]

\* symmetric difference: tuning ^ alarm
Toggle(a, b) == (a \ b) \cup (b \ a)

Init ==
    /\ initPc = "soft_reset"
    /\ softReset \in BOOLEAN
    /\ trng \in BOOLEAN
    /\ ready \in BOOLEAN
    /\ oflo \in BOOLEAN
    /\ froEnable \in SUBSET FROs
    /\ alarmStop = {} /\ detune = {} /\ alarms = 0 /\ offended = {}
    /\ owner = NoThread
    /\ rng = FALSE /\ pos = 0 /\ filled = FALSE /\ taken = {} /\ handed = 0
    /\ pc = [t \in Threads |-> "idle"]
    /\ loc = [t \in Threads |-> NoLoc]

-----------------------------------------------------------------------------
(* dra7_rng_init, run once by the boot core before any caller.           *)

InitSoftReset ==
    /\ initPc = "soft_reset"
    /\ initPc' = "poll"
    /\ softReset' = TRUE
    /\ trng' = FALSE /\ ready' = FALSE /\ oflo' = FALSE
    /\ froEnable' = {} /\ alarmStop' = {} /\ detune' = {} /\ offended' = {}
    /\ UNCHANGED <<alarms, owner, bufVars, pc, loc>>

\* while (read32(rng + RNG_SOFT_RESET_REG) & RNG_SOFT_RESET) ;
\* an iteration that still sees the bit changes nothing
InitPoll ==
    /\ initPc = "poll"
    /\ IF ~softReset
       THEN /\ initPc' = "config"
            /\ UNCHANGED <<hwVars, owner, bufVars, pc, loc>>
       ELSE UNCHANGED vars

InitConfig ==
    /\ initPc = "config"
    /\ initPc' = "done"
    /\ detune' = {} /\ froEnable' = FROs /\ trng' = TRUE
    /\ UNCHANGED <<softReset, ready, oflo, alarmStop, alarms, offended,
                   owner, bufVars, pc, loc>>

-----------------------------------------------------------------------------
(* hw_get_random_byte(t).                                                *)

Goto(t, l) == pc' = [pc EXCEPT ![t] = l]

\* a thread calls hw_get_random_byte
Call(t) ==
    /\ initPc = "done"
    /\ pc[t] = "idle"
    /\ Goto(t, "lock")
    /\ UNCHANGED <<initPc, hwVars, owner, bufVars, loc>>

\* mutant: mutex_lock dropped
LockNoMutex(t) ==
    /\ pc[t] = "lock"
    /\ owner' = t
    /\ rng' = TRUE
    /\ Goto(t, IF pos = 0 THEN "test_ready" ELSE "take")
    /\ UNCHANGED <<initPc, hwVars, pos, filled, taken, handed, loc>>


\* mutex_lock; if (!rng) rng = rng_base(); if (!pos) ...
Lock(t) ==
    /\ pc[t] = "lock"
    /\ owner = NoThread
    /\ owner' = t
    /\ rng' = TRUE
    /\ Goto(t, IF pos = 0 THEN "test_ready" ELSE "take")
    /\ UNCHANGED <<initPc, hwVars, pos, filled, taken, handed, loc>>

\* while (!(STATUS & RNG_READY)) { if (STATUS & SHUTDOWN_OFLO) ... }
TestReady(t) ==
    /\ pc[t] = "test_ready"
    /\ Goto(t, IF ready THEN "read" ELSE "test_oflo")
    /\ UNCHANGED <<initPc, hwVars, owner, bufVars, loc>>

TestOflo(t) ==
    /\ pc[t] = "test_oflo"
    /\ Goto(t, IF oflo THEN "fro_read" ELSE "test_ready")
    /\ UNCHANGED <<initPc, hwVars, owner, bufVars, loc>>

\* alarm = read32(RNG_ALARMSTOP); tuning = read32(RNG_FRODETUNE)
FroRead(t) ==
    /\ pc[t] = "fro_read"
    /\ loc' = [loc EXCEPT ![t] = [@ EXCEPT !.alarm = alarmStop,
                                           !.tuning = detune]]
    /\ Goto(t, "fro_fix")
    /\ UNCHANGED <<initPc, hwVars, owner, bufVars>>

\* mutant: the write of RNG_FRO_MASK to RNG_FROENABLE dropped
FroFixNoEnable(t) ==
    /\ pc[t] = "fro_fix"
    /\ alarmStop' = {}
    /\ detune' = Toggle(loc[t].tuning, loc[t].alarm)
    /\ offended' = offended \ Toggle(detune, detune')
    /\ Goto(t, "fro_ack")
    /\ UNCHANGED <<initPc, softReset, trng, ready, oflo, froEnable, alarms,
                   owner, bufVars, loc>>


\* clear ALARMMASK and ALARMSTOP, detune tuning ^ alarm, re-enable all FROs
FroFix(t) ==
    /\ pc[t] = "fro_fix"
    /\ alarmStop' = {}
    /\ detune' = Toggle(loc[t].tuning, loc[t].alarm)
    /\ froEnable' = FROs
    /\ offended' = offended \ Toggle(detune, detune')
    /\ Goto(t, "fro_ack")
    /\ UNCHANGED <<initPc, softReset, trng, ready, oflo, alarms, owner,
                   bufVars, loc>>

\* write32(SHUTDOWN_OFLO, RNG_INTACK), then back to the loop test
FroAck(t) ==
    /\ pc[t] = "fro_ack"
    /\ oflo' = FALSE
    /\ Goto(t, "test_ready")
    /\ UNCHANGED <<initPc, softReset, trng, ready, froEnable, alarmStop,
                   detune, alarms, offended, owner, bufVars, loc>>

\* read OUTPUT_L/H into random, acknowledge RNG_READY
ReadSample(t) ==
    /\ pc[t] = "read"
    /\ ready' = FALSE
    /\ filled' = TRUE /\ taken' = {} /\ handed' = 0
    /\ Goto(t, "take")
    /\ UNCHANGED <<initPc, softReset, trng, oflo, froEnable, alarmStop,
                   detune, alarms, offended, owner, rng, pos, loc>>

\* ret = random.byte[pos++]: the load of pos and byte ...
Take(t) ==
    /\ pc[t] = "take"
    /\ loc' = [loc EXCEPT ![t].idx = pos]
    /\ taken' = taken \cup {pos}
    /\ handed' = handed + 1
    /\ Goto(t, "inc")
    /\ UNCHANGED <<initPc, hwVars, owner, rng, pos, filled>>

\* ... and the store of pos + 1
Inc(t) ==
    /\ pc[t] = "inc"
    /\ pos' = loc[t].idx + 1
    /\ Goto(t, "wrap")
    /\ UNCHANGED <<initPc, hwVars, owner, rng, filled, taken, handed, loc>>

\* mutants: "if (pos > 8)" and "if (pos == 7)"
WrapPastEnd(t) ==
    /\ pc[t] = "wrap"
    /\ pos' = IF pos > NBytes THEN 0 ELSE pos
    /\ owner' = NoThread
    /\ Goto(t, "idle")
    /\ UNCHANGED <<initPc, hwVars, rng, filled, taken, handed, loc>>

WrapEarly(t) ==
    /\ pc[t] = "wrap"
    /\ pos' = IF pos = NBytes - 1 THEN 0 ELSE pos
    /\ owner' = NoThread
    /\ Goto(t, "idle")
    /\ UNCHANGED <<initPc, hwVars, rng, filled, taken, handed, loc>>


\* if (pos == 8) pos = 0; mutex_unlock; return ret
Wrap(t) ==
    /\ pc[t] = "wrap"
    /\ pos' = IF pos = NBytes THEN 0 ELSE pos
    /\ owner' = NoThread
    /\ Goto(t, "idle")
    /\ UNCHANGED <<initPc, hwVars, rng, filled, taken, handed, loc>>

-----------------------------------------------------------------------------
(* The EIP-76 engine.                                                    *)

HwResetDone ==
    /\ softReset
    /\ softReset' = FALSE
    /\ UNCHANGED <<initPc, trng, ready, oflo, froEnable, alarmStop, detune,
                   alarms, offended, owner, bufVars, pc, loc>>

\* a sample is ready while the engine runs on at least one FRO
HwSample ==
    /\ trng /\ ~softReset /\ ~ready
    /\ froEnable # {}
    /\ ready' = TRUE
    /\ UNCHANGED <<initPc, softReset, trng, oflo, froEnable, alarmStop,
                   detune, alarms, offended, owner, bufVars, pc, loc>>

\* FRO f repeats a pattern: it is shut down and reported in ALARMSTOP
HwAlarm(f) ==
    /\ trng /\ f \in froEnable
    /\ alarms < MaxAlarms
    /\ alarms' = alarms + 1
    /\ froEnable' = froEnable \ {f}
    /\ alarmStop' = alarmStop \cup {f}
    /\ offended' = offended \cup {f}
    /\ oflo' = (oflo \/ Cardinality(alarmStop') >= ShutdownTh)
    /\ UNCHANGED <<initPc, softReset, trng, ready, detune, owner, bufVars,
                   pc, loc>>

-----------------------------------------------------------------------------

Thread(t) ==
    \/ Call(t) \/ Lock(t) \/ TestReady(t) \/ TestOflo(t) \/ FroRead(t) \/ FroFix(t)
    \/ FroAck(t) \/ ReadSample(t) \/ Take(t) \/ Inc(t) \/ Wrap(t)

Next ==
    \/ InitSoftReset \/ InitPoll \/ InitConfig
    \/ \E t \in Threads : Thread(t)
    \/ HwResetDone \/ HwSample
    \/ \E f \in FROs : HwAlarm(f)

Spec == Init /\ [][Next]_vars

\* The driver steps of a running call are taken (the thread is not
\* descheduled forever); a waiter gets the mutex when it is free infinitely
\* often (the mutex wakes its waiters); the engine completes its reset and
\* produces a sample while it has a running FRO.
Fairness ==
    /\ WF_vars(InitSoftReset) /\ WF_vars(InitPoll) /\ WF_vars(InitConfig)
    /\ \A t \in Threads :
          /\ SF_vars(Lock(t))
          /\ WF_vars(Thread(t) /\ pc[t] \notin {"idle", "lock"})
    /\ WF_vars(HwResetDone) /\ WF_vars(HwSample)

FairSpec == Spec /\ Fairness

-----------------------------------------------------------------------------
(* Properties.                                                           *)

Pcs == {"idle", "lock", "test_ready", "test_oflo", "fro_read", "fro_fix",
        "fro_ack", "read", "take", "inc", "wrap"}

TypeOK ==
    /\ initPc \in {"soft_reset", "poll", "config", "done"}
    /\ {softReset, trng, ready, oflo, rng, filled} \subseteq BOOLEAN
    /\ {froEnable, alarmStop, detune, offended} \subseteq SUBSET FROs
    /\ alarms \in 0..MaxAlarms
    /\ owner \in Threads \cup {NoThread}
    /\ pos \in 0..NBytes
    /\ taken \subseteq 0..(NBytes - 1)
    /\ handed \in 0..NBytes
    /\ pc \in [Threads -> Pcs]
    /\ \A t \in Threads : loc[t].alarm \cup loc[t].tuning \subseteq FROs
                          /\ loc[t].idx \in 0..(NBytes - 1)

\* rng_mutex around pos and random: no byte of a sample is returned to two
\* callers (or twice to one) before the next refill of the buffer.
BytesHandedOnce == handed = Cardinality(taken)

\* The refill under "if (!pos)" only overwrites a buffer whose 8 bytes have
\* all been returned: the wrap of pos at 8 loses no byte of a sample.
NoByteDiscarded ==
    [][\A t \in Threads :
          ReadSample(t) => (~filled \/ taken = 0..(NBytes - 1))]_vars

\* Every call of hw_get_random_byte returns, despite FRO alarms, as long as
\* the SHUTDOWN_OFLO recovery gets the engine sampling again.
CallsReturn == \A t \in Threads : pc[t] = "lock" ~> pc[t] = "idle"

\* The recovery's comment: the FROs that shut down are de-tuned, then
\* re-enabled.  No FRO runs again with the tuning it alarmed on.
AlarmedFroRetuned == offended \cap froEnable = {}

-----------------------------------------------------------------------------
(* Refinement of Dra7RngAbstract.  A call takes effect at Take, its load  *)
(* of pos and random.byte[pos]; until that thread's store of pos + 1, the *)
(* abstract next index already counts its byte.  All other steps of a     *)
(* call, dra7_rng_init and the engine are stuttering steps.               *)

AbsCall(t) ==
    CASE pc[t] = "idle"            -> "idle"
      [] pc[t] \in {"inc", "wrap"} -> "got"
      [] OTHER                     -> "waiting"

AbsNext ==
    IF \E t \in Threads : pc[t] = "inc"
    THEN (loc[CHOOSE t \in Threads : pc[t] = "inc"].idx + 1) % NBytes
    ELSE pos % NBytes

AbsRng == INSTANCE Dra7RngAbstract
    WITH call <- [t \in Threads |-> AbsCall(t)],
         next <- AbsNext,
         got  <- [t \in Threads |-> IF AbsCall(t) = "got" THEN loc[t].idx ELSE 0]

\* hw_get_random_byte is linearizable: every call behaves as one atomic
\* step that is handed the next byte of the sample, in order, with the
\* mutex, the split pos++ and the wrap at 8 all taken into account.
RngRefinesAbstract == AbsRng!Spec

=============================================================================
