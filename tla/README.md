# TLA+ models of the MS58XX pressure-sensor driver

The repository's executable code is the NuttX character driver for the
MEAS MS58xx pressure sensors, `src/unnamed/part_000` (drivers/sensors/ms58xx.c).
Two other files sit beside it: `src/sched/group/group_malloc.c`, the NuttX
allocator that picks the kernel or user heap for a task group, and
`src/unnamed/part_001`, an unrelated Kconfig file. The modules in this
directory model the driver and `group_malloc`. Line numbers below refer to
`src/unnamed/part_000` unless they name group_malloc.c.

## 1. Inventory

| Part | Code | State | Operations | Status |
|---|---|---|---|---|
| CRC validator | `ms58xx_crc` 190-213 | none (pure) | CRC-4 over bytes | modelled |
| Calibration loader | `ms58xx_readu16` 223-253, `ms58xx_readprom` 375-460 | `c1..c8`, the local `prom[8]` | 7 or 8 write/read transfers, nibble extraction, CRC check, commit | modelled |
| Oversampling configurator | `ms58xx_setosr` 306-365 | `delay`, `osr` | switch storing `delay`, then `osr` | modelled |
| Conversion sequencer | `ms58xx_convert` 507-538, `ms58xx_readadc` 263-296 | the sensor's conversion | trigger write, `up_udelay`, ADC write, 3-byte read | modelled |
| Compensation engine | `ms58xx_measure` 548-673, tables of `ms58xx_register` 858-1010 | `temp`, `press` | 64-bit arithmetic, two stores | modelled: the whole arithmetic in MS58xxComp, the stores in MS58xx |
| Lifecycle and ioctl | `ms58xx_register` 823-1040, `ms58xx_reset` 470-497, `ms58xx_ioctl` 737-799 | the instance, `model` | setosr → reset → register_driver, free on error; MEASURE, RESET, OVERSAMPLING, TEMPERATURE, PRESSURE, others | modelled, with a refinement of the atomic device (MS58xxDevice) |
| File operations | 683-727 | none | return constants | modelled (`FileOp`) |
| `group_malloc` | group_malloc.c 50-118 | the heaps, `g_readytorun` | resolve a NULL group, test `GROUP_FLAG_PRIVILEGED`, `kmm_malloc` or `kumm_malloc` | modelled, with a refinement |
| Kconfig | part_001 | none | build options of the IO expander and LED drivers | not modelled (no code of it here) |

**How the parts interact.** `ms58xx_register` runs once, in the context of
the board's initialisation. It allocates the instance and leaves `osr`,
`delay` and `c1..c8` uninitialised. It calls `ms58xx_setosr` and
`ms58xx_reset`, which runs `ms58xx_readprom`, and only then calls
`register_driver`. After that, any task can call `ioctl()` on the device.
The driver has **no lock**. Each I2C transfer is a point where another task's
transfers can reach the sensor.

**What makes it hard.**
- Interleavings of ioctls from several tasks. `setosr` stores `delay` and
  `osr` in two steps. `convert` reads `osr` at the trigger and `delay` at the
  wait.
- Bus failures at each transfer. The trigger write's error is ignored.
- PROM words corrupted on the bus. Only a 4-bit CRC guards against them.
- The CRC is taken over the buffer cast to bytes, so it depends on the build's
  byte order.
- The selector formula `(osr / 256 - 1) * 2` for the larger ratios.
- The bit-field layout of C7 and C8.
- The sensor reloads its PROM after a reset, and the code reads it at once.
- 64-bit products of 24-bit readings and 33-bit coefficients, narrowed to
  `int32_t` at several points.

**What each part needs.**
- CRC: bit-exact equality with the datasheet CRC-4, and detection of
  corrupted words.
- Loader: all-or-nothing commit, and acceptance of the genuine PROM.
- OSR: `osr` and `delay` always consistent with each other and with the
  sensor.
- Sequencer: no measurement from an unsettled, foreign or missing
  conversion.
- Lifecycle: no ioctl on an instance without genuine coefficients, and every
  call returns.

## 2. Modules

- **MS58xxProm** (no variables). The PROM layout and the code's pure
  functions.
  - `ms58xx_crc` is written exactly as the loop of lines 190-213 (`CrcShift`,
    `CrcByte`, `CrcBytes`).
  - `PromBytes` is the `(uint8_t *)prom` cast in the build's `ByteOrder`.
  - `crcindex`/`crcshift`/`PromWords` come from the switch of readprom.
  - `StoredCrc`/`MaskCrc`/`CrcMatches` are lines 418-426; `Decode` is lines
    428-457.
  - It also holds a *reference* CRC that is not code: the datasheet CRC-4 as
    a remainder modulo x^4+x+1 of the MSB-first bit stream (`RefCrc`). The
    code's 16-bit register reduces modulo x^12(x^4+x+1), so its top nibble is
    that remainder of the stream without its last 4 bits.
- **MC_Data**: the genuine PROM images that the models check with.
  - C1..C6 are the datasheet example values.
  - Each image has its CRC nibble filled in.
- **MC_Prom**: a one-variable state machine. Each step reads the PROM again,
  with at most `MaxFlips` bits of the words corrupted, at the positions
  `FlipBits`. The CRC properties are its invariants.
- **MS58xx**: the driver.
  - **Variables.** The instance fields are `model, phase, osr, delay, cal,
    meas`. Per context there are `pc`, `op`, `ret` and `loc`; `loc` holds the
    live locals of the running call (`arg`, `chan`, `i`, `buf`, `raw`). The
    sensor has `lastcmd` and `conv`. The fault budgets are `faults` and
    `glitches`.
  - **Actions.** There is one action per I2C transfer or store, so that
    every interleaving point of the code is a step:
    - setosr: `SetOsrDelay`, `SetOsrBits`;
    - reset: `ResetWrite`;
    - readprom and readu16: `PromWrite`, `PromRead`, `PromCheck`;
    - convert and readadc: `ConvTrigger`, `ConvWait`, `AdcWrite`, `AdcRead`;
    - the end of measure: `Compute`.
  - **Control.** `Ioctl` starts a call for a task. `Register` is
    `ms58xx_register`'s sequence: setosr, then reset, then `register_driver`,
    which may succeed or fail; any failure frees the instance (`phase =
    "failed"`). Before it, `InstanceAlloc` is the `kmm_malloc` of the
    instance, which may return NULL (-ENOMEM). `FileOp` is open, close and
    read (returning 0) and write (-ENOSYS), none of which touches the device.
  - **SNIOC_OVERSAMPLING.** Its argument is cast to `uint16_t` before
    setosr sees it, so 65792 arrives as 256 and is accepted. With
    `CONFIG_DEBUG_SENSORS`, setosr returns to the debug print
    (`AfterCall`), which reads `*(uint16_t *)arg` with the ratio as an
    address. That read is undefined, so `OsrDebugPrint` either returns
    normally or faults and halts the kernel (`phase = "panicked"`, after
    which nothing runs).
  - **Environment.** Every bus transfer may fail (`Fault`, up to
    `MaxFaults`). A PROM read may deliver a word xor-ed with a mask of
    `GlitchMasks` without an error (up to `MaxGlitches`).
  - **The reload.** A reset command sets the sensor's `reloading`; it ends
    by `ReloadEnds`, a step of the sensor with no fairness. What a sensor
    answers to a PROM read during the reload is not specified, so the model
    lets it answer any word of `ReloadWords` or NACK (`ReloadNack`). The
    passing runs set `ReloadWords = {}` (a reloading sensor only NACKs).
  - **Read-only ioctls.** SNIOC_TEMPERATURE and SNIOC_PRESSURE copy a stored
    value and return OK in one step; any other command returns -ENOTTY.
  - **The sensor.** `Receive` starts a conversion on a valid command. The
    conversion ends by `ConversionEnds`, or by `ConvWait` if the delay covers
    `ConvTime`. A read during a conversion spoils it. The ADC returns 0
    ("Zero") when nothing was converted.
  - **Abstraction.** The compensation arithmetic is abstracted. A
    measurement records the two raw readings (by their provenance) and the
    coefficients it was computed from.
  - **Refinement.** `Device == INSTANCE MS58xxDevice` with `CfgBar` for the
    configuration: between the two stores of setosr, the abstract device
    already has the new selector and delay. `DeviceRefinement == Device!Spec`.
- **MS58xxDevice**: the device of spec.md 4.3, 4.6 and 7 for one caller,
  with atomic operations: `SetOsr` (the datasheet's selector
  2 * log2(ratio / 256), not the code's formula, and the tabled delay
  together), `Reset` (the sensor's coefficients), `Measure` (from a pressure
  and a temperature conversion with the current coefficients), `Register`
  (only once setosr and reset have succeeded) and `Fail`. A failed call
  changes nothing, so it is a stuttering step.
- **MC_MS58xx**: instantiates MS58xx with MC_Data's PROMs and the datasheet's
  conversion times.
- **CInt** (no variables): C's `int64_t`/`int32_t` arithmetic for TLC,
  whose integers are 32-bit. A value is a 78-bit two's-complement number of
  six 13-bit limbs. `Wrap(a, 64)` and `Wrap(a, 32)` are the conversions
  GCC performs; `Div` and `DivP2` are C's truncating division. It was
  checked against Python's arithmetic on about 230 cases while it was built.
- **MS58xxComp** (no variables): the whole of `ms58xx_measure`'s
  arithmetic (583-671) and the per-model tables of `ms58xx_register`
  (`CoefShifts`, `SecondOrder`, `PressDivs`, 858-1010). There is one operator per
  statement group: `ms58xx_diff`, `ms58xx_temp`, `Linear` (off and sens),
  `Branch` (the low, very-low and high second-order choice), `Square`
  (tm, tp), `Correct`, `Temp2`, `Press`, `PostCorrect` (MS5803-07 above
  110000, MS5806-02 by `CONFIG_MS58XX_VDD`). Every operator takes a mode:
  `"c"` converts each result to the type the code gives it, and `"exact"`
  converts nothing, which is what the formulas mean. Beside it is the
  formula of the datasheet and spec.md section 4.5 (`RefTemp`).
  **MC_Comp** holds a model, its coefficients (the genuine ones from
  MC_Data, or every field all ones) and two raw readings as constant
  variables, and compares the modes, and the code with `RefTemp`.
- **GroupMallocSpec**: what the header of `group_malloc` (group_malloc.c
  77-87) promises. A call is its entry with the group argument (`Call`) and
  one atomic allocation (`GroupMalloc`). The allocation resolves NULL to the
  caller's group, and counts a block of that group in the kernel heap if the
  group is privileged, or in the user heap otherwise. When the heap has no
  room, it returns NULL. `Free` gives a block back.
- **GroupMalloc**: the code.
  - **Variables.** `rtr` is `g_readytorun`, with the running task at its
    head. Per task there are `pc`, the local `group`, `ret`, and `arg`, a
    history variable holding the argument of the call in progress. `used`
    holds the heap contents.
  - **Actions.** A call is three steps of the running task:
    - `Call` (line 89);
    - `Resolve` (91-98): a NULL group becomes the group of
      `g_readytorun.head`;
    - `Allocate` (100-115): the flag test, then `HeapMalloc`.
    `Switch` makes any other task the head between any two steps. The
    semaphore of each heap makes `kmm_malloc`/`kumm_malloc` one step.
  - **Refinement.** `GMS == INSTANCE GroupMallocSpec` maps the privileged
    groups to those whose `tg_flags` has bit `GROUP_FLAG_PRIVILEGED` (4).
    `Refinement == GMS!Spec` is checked as a property; `Switch` and
    `Resolve` are stuttering steps of the specification.
  - **MC_GroupMalloc** sets up two tasks and three groups: `g1` has flags 6
    (privileged, with another bit set), `g2` has 0, and `g4` has 2 (only the
    neighbouring bit). Each heap holds one block, so both the full-heap NULL
    path and the allocation path are taken.

## 3. Runs

| Run | cfg | Expect | Shows |
|---|---|---|---|
| prom_crc | MC_Prom.cfg | pass | Big-endian: ms58xx_crc = datasheet CRC-4 for all 8 models and every image with one flipped bit; readprom accepts exactly the genuine image |
| prom_crc_le | MC_Prom_le.cfg | violation | Little-endian (the LPC43xx of this board): the CRC differs, so the genuine PROM is rejected with ENODEV |
| prom_c8 | MC_Prom_c8.cfg | violation | MS5803-07: the mask 0xf700 loses bit 11 of word 7 from C8 |
| driver | MC_MS58xx.cfg | pass | Details below |
| driver_osr | MC_MS58xx_osr.cfg | violation | SNIOC_OVERSAMPLING(1024) stores selector 6, which the sensor reads as OSR 2048; its 4540 us conversion outlasts the 2280 us delay |
| driver_fresh | MC_MS58xx_fresh.cfg | violation | A failed trigger write does not abort measure: a result computed from an empty ADC is stored |
| driver_race | MC_MS58xx_race.cfg | violation | Two tasks on the unlocked device: a measurement from an unfinished or foreign conversion |
| comp_temp | MC_Comp.cfg | violation | Line 583 subtracts `c5 / 2^8` where spec.md and the datasheet subtract `C5 * 2^8`: for the datasheet example (D2 = 8077636) the code gives TEMP = 29120 (291.20 C) instead of 2000 |
| comp_range | MC_Comp_range.cfg | pass | `CompensationExact`: for all 8 models, genuine and all-ones coefficients and the extreme readings 0, 1, 2^23, 2^24-1, no int64_t intermediate overflows and no int32_t conversion loses bits (256 states) |
| driver_reload | MC_MS58xx_reload.cfg | violation | With no bus fault at all, the boot reset reads the PROM while the sensor reloads it; if the sensor answers 0, the all-zero image passes the CRC-4 and the device registers with zero coefficients (`CalibrationGenuine`) |
| driver_refine | MC_MS58xx_refine.cfg | pass | `DeviceRefinement`: one task, no failed transfer, resets that may meet a reloading sensor or a corrupted PROM word, the debug build, and the argument 65792; the driver implements MS58xxDevice, and the wild read of the debug print changes no device state (15,618 states) |
| group_malloc | MC_GroupMalloc.cfg | pass | `TypeOK`; `Refinement`: each call is an atomic allocation of the header's spec, for the argument or, for NULL, the caller's group, in the heap its flag selects; a full heap gives NULL |

The **driver** run has one task, three sensor models, one bus fault and one
corrupted PROM word. It checks:
- `CalibrationGenuine`: the registered device holds the genuine
  coefficients, and every stored measurement was computed from them.
- `OsrDelayConsistent`: the selector is one the sensor decodes, and the delay
  covers its conversion.
- `MeasurementSettled`: no stored measurement comes from a busy or spoiled
  conversion.

Every property of a passing run has a mutant in PROJECT.json: a variant of a
code definition, with a plausible bug, that TLC finds violating it.

**Bounds.**
- **Models.** `SensorModels` takes one model of each PROM layout: MS5803_07
  (wide, with C7 and C8), MS5806_02 (wide, C7 only) and MS5837_30 (compact,
  CRC in word 0, OSR 8192 allowed). MC_Prom covers all eight models.
- **OSR arguments.** `OsrArgs = {256, 100}` gives one legal ratio and one
  illegal one. 1024 and above are the subject of driver_osr. The boot ratio
  is 512, so a setosr changes the configuration.
- **Faults.** One fault and one glitch are enough to reach:
  - a failed reset during boot (freeing the instance);
  - a failed ioctl reset after a good one (the old coefficients must stay);
  - a CRC rejection;
  - a failed conversion.
- **group_malloc.** Two tasks let another task run between a caller's
  steps. Since only the head of `g_readytorun` runs, a NULL group always
  resolves to the caller's own group, so the interleaving matters only
  through the heaps: another task's allocation can take the last block
  between a caller's resolution and its allocation. Three groups cover each
  outcome of the one-bit flag test. Heaps of one block make the NULL return
  reachable. The run explores 8,748 states.
- **Refinement.** driver_refine has one task, since spec.md leaves
  concurrent calls undefined (driver_race shows what they do), and no
  failed transfer, since a failed trigger write stores a measurement from
  an empty ADC (driver_fresh) which the abstract device forbids. Reset
  failures still occur: a reloading sensor NACKs, and a corrupted word
  fails the CRC. The run is of the debug build, so that the debug print
  and its fault are explored. The mapping `PhaseBar` shows a halted kernel
  as the registered device it was: the halt is a stutter, which the
  abstract safety specification allows. The other driver runs are of the
  production build (`CONFIG_DEBUG_SENSORS = FALSE`).
- **Compensation.** The readings 0, 1, 2^23 and 2^24-1 are the ends of
  the ADC's 24-bit range and its middle; all-ones coefficients are the
  largest each field can hold, so the products at the two ends are the
  largest the code can form. VDD 22 takes the MS5806-02 correction with
  its largest factor. Since line 583 keeps `diff` at or above -255, the
  first-order temperature never falls below 1998: the very-low branch
  (temp < -1500) is unreachable for any input, and the low, high and both
  post-correction branches are all reached.
- **CRC.** In MC_Prom, `FlipBits` takes bits of both bytes of every word,
  including the CRC nibble positions.

**Fairness.** Every run checks safety or refinement only, so no
specification assumes fairness. That an ioctl returns is not checked: in
the debug build the print at line 787 may halt the kernel (see section 4),
and in the production build each call is straight-line code, so a
property about it would hold by the shape of the model.

**TLC note.** The CRC register is passed from step to step through function
application (`CrcShiftOf`, `CrcByte`). TLC does not cache operator
arguments, so a chain of operator calls would be re-evaluated
exponentially (under `ENABLED` and in CInt alike). For the same reason every
operation of CInt is a function (`AddF`, `MulF`, ...) applied to its
operands: nested operator calls would evaluate each operand once per limb.

## 4. Not modelled

- **Torn temperature/pressure pairs.** The two read-only ioctls are modelled, but no property is stated about them. These reads, against the two
  separate stores at 670-671, can tear a temperature/pressure pair. spec.md
  leaves concurrent calls on one instance undefined, and a pair read by two
  ioctls is torn by any measure between them. So a property here would
  restate the API, not the code.
- **Left out for good.**
  - No property is about the halt that the debug print at line 787 can
    cause: whether it happens depends on whether the board maps addresses
    256 to 8192. driver_refine shows only that neither outcome of the read
    changes device state.
  - The Kconfig file (`part_001`) declares build options of the IO expander
    and LED drivers. The repository holds no code that reads them, and
    it has no operations or state, so nothing in it can be modelled
    faithfully.
  - In ms58xx_register, the `DEBUGASSERT` of the model/address pair
    (830-841). spec.md 4.6 calls it a validation. It is compiled out
    without assertions, and the model has one sensor at its own address.
  - In group_malloc, the `DEBUGASSERT(tcb && tcb->group)` at line 96. Every
    modelled task has a group, so the assertion always holds in the model.
  - The heaps' own allocators, whose block sizes are abstracted to one
    block per call.
