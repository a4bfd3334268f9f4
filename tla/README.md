# TLA+ models of the CwMcuSensor HAL driver

This directory holds TLA+ models of `src/sensor_hub/libsensors/CwMcuSensor.cpp`, the
Android sensor HAL for the sensor-hub MCU. They are checked with TLC.

## 1. The system

### Parts and how they interact

| Part | Code | State |
|---|---|---|
| Device discovery | `find_type_by_name` (102-164), its use in the constructor (266-279) | none (reads `/sys/bus/iio/devices/`) |
| Kind/handle tables | `find_handle` (376-430), `find_sensor` (432-488) | none (pure) |
| Constructor | `CwMcuSensor::CwMcuSensor` (170-354) | `mEnabled`, IIO buffer/trigger setup, handle 0 enabled |
| Control path | `setEnable` (499-573), `batch` (575-674), `flush` (677-716), `setDelay` | `mEnabled`; sysfs writes to the firmware |
| Timestamp synchroniser | `sync_timestamp_locked` (719-741), `sync_timestamp` (743-758) | `l_timestamp` (candidate), `g_timestamp` (authoritative) |
| Dispatch loop | `readEvents` (808-860) | reader ring (`mInputReader`), output array, `count` |
| Record decoder | `processEvent` (862-968) | `mPendingEvents`, `mPendingMask`, `mPendingEventsFlush` |
| Converters | `indexToValue` (362-374), `calculate_rv_4th_element` (794-812) | none (pure) |
| Calibration files | constructor restore (321-352), save in `setEnable` (555-568), `cw_read/save_calibrator_file` (976-1045) | `/data/misc` files, firmware calibration |

There are three kinds of actors:

- The **poll thread** calls `readEvents`. It fills the reader from the IIO
  character device and decodes records, and for each one it may emit an event.
  It reads `mEnabled` and `l_timestamp` **without** `sys_fs_mutex`. It takes the
  mutex in two places:
  - the one-shot disable of significant motion (`setEnable(ID_CW_SIGNIFICANT_MOTION, 0)`);
  - the re-sync on `TIME_DIFF_EXHAUSTED` (`sync_timestamp`).
- **Framework threads** call `batch`, `setEnable`, `flush` and `sync_timestamp`.
  Each call holds `sys_fs_mutex`.
- The **firmware and the kernel IIO core** answer sysfs writes by pushing records
  into the IIO stream:
  - samples of enabled kinds;
  - `CW_META_DATA` (flush complete);
  - `CW_SYNC_ACK`;
  - `TIME_DIFF_EXHAUSTED`.

  While the buffer is disabled, the IIO core drops records.

### Hard behaviours and the properties they need

- **The sync stamp is not atomic** (734). `l_timestamp` is set only after
  `write()` returns, and the poll thread can process the ack first. Property:
  once every sync request is acknowledged and no stamp is pending,
  `g_timestamp = l_timestamp` (**SyncSettles**).
- **The buffer arm/disarm race** (625 against 545). `batch` re-arms the buffer
  only if it sees `mEnabled == 0`. `setEnable` disarms the buffer when
  `mEnabled` becomes 0. Property: an enabled sensor implies an enabled buffer
  (**ActiveSensorsHaveBuffer**).
- **The one-shot** (846-848). Significant motion must be reported at most once
  per enable. The disable is issued by the poll thread, it goes through the
  fallible sysfs path, and it races framework calls. Property:
  **SignificantMotionOneShot**.
- **Table mismatch** (426). `find_sensor` knows significant motion but
  `find_handle` does not, so a flush of significant motion completes under
  handle 0xFF. The framework never flushes a one-shot sensor (the sensors
  HAL asks `flush()` to return -EINVAL for one), and for every other handle
  the two tables are inverse; no run checks it.
- **The count budget** (834). `readEvents` never writes past `count`, and
  meta-data counts as an event. Property: **EventsWithinBudget**.
- **Partial failures of sysfs** (532-543):
  - an open failure makes `setEnable` a silent no-op;
  - a write failure updates `mEnabled` but not the firmware.
- **Dropped records** (546). While the buffer is off, flush-complete and
  sync-ack records are lost. Property: **FlushCompletes** (violated).
- **Records held by the reader** (834). Records past `count` stay in
  `mInputReader`, and the next `readEvents` first blocks in `fill()` until
  new data arrives. Properties: **FlushCompletesWhileStreaming** (holds) and
  **FlushCompletesWhileBuffered** (violated).
- **Payload conversions** (902, 933, 936, 806). Two int16 fields are
  reinterpreted as one 32-bit value. A negative light index goes through
  `size_t`, so index -1 reads as 2600 lux; that needs one call to show, and
  no run is spent on it. The step detector's own data is never written
  (found once, not kept as a run; see section 3). The quaternion's 4th
  component is rebuilt with a clamped square root. Properties:
  **PressureMatchesReference** and **RotationVectorUnitQuaternion**.

- **Calibration persistence** (983, 335, 1039). A save truncates the
  magnetometer file at `fopen("w+")` and fills it at `fclose()`. A restore
  that could not be written leaves the firmware on its default, which the
  next save writes over the file. A non-numeric token makes the read
  return 0, and uninitialised `temp_data[]` is saved. Property: a file that
  has held a computed calibration always holds one outside a save
  (**CalibrationKept**).
- **Enabled sensors report** (536). A sensor `setEnable` turned on must
  eventually have a sample returned, through the enable write, the buffer,
  `fill()` and the `mEnabled` test. Property: **EnabledSensorsReport**.

- **Device discovery** (127). `find_type_by_name` uses sscanf's return
  value as the length of the device number. Property: the constructor opens
  the device named `CwMcuSensor` whenever there is one (**DataDeviceIsHub**).
- **The mutex between poll thread and framework** (964). The poll thread
  blocks on `sys_fs_mutex` in the middle of its loop, for the one-shot
  disable of significant motion, while `batch()` may hold the mutex across
  its sync write and stamp. Property: it always gets the mutex and goes on
  (**PollThreadProgress**).

The hazards, each at its line, are listed in `PROJECT.json`.

## 2. Modules

### CwMcuTables.tla

`find_handle` and `find_sensor` are translated as two separate functions built
with `:>`/`@@`. Kinds and handles are strings, because their numeric values are
in `CwMcuSensor.h`, which is not in the sources.

### CwMcuSensor.tla

This module models the driver, the poll thread, N framework threads (`Ctl`) and
the firmware/IIO environment.

**Variables**

- Driver:
  - `mEnabled` is a set of kinds.
  - `mPendingMask`.
  - `bufEnabled` and `initTriggerDone` give the state of the IIO buffer and trigger.
  - `lTimestamp` and `gTimestamp` are sync request numbers. Request *n* stands for
    the host time taken after the *n*-th successful sync write.
  - `lock` is the holder of `sys_fs_mutex`.
- Poll thread: `poll.pc`, `poll.count` (the remaining budget), `rbuf` (the
  reader ring, capacity `BufCap`) and `out` (the events returned).
- Device:
  - `stream`: records in the IIO buffer;
  - `fwEnabled`: the firmware's view of which sensors are on;
  - `flushQ` and `syncQ`: requests not yet answered;
  - the counters `nSync` and `nFlush`. `stream` holds at most `StreamCap`
    records, the kernel FIFO behind `data_fd`. The firmware waits while it
    is full (`Push`), so the FIFO never overflows.
- Framework threads: `ctl[t]`, a pc that splits `batch` at its sync write and
  `batch -> setEnable`.
- History, which is used only by properties: `smSinceEnable` (significant-
  motion events since the last enable, saturating at 2), `flushRequested`,
  `acked` and `flushes` (flush requests written, answers reported, answers
  dropped by the disabled buffer).

**Actions** (each is mapped in `PROJECT.json`)

- Poll thread:
  - `ReadEventsFill`, `LoopStep` and `ReadEventsReturn`.
  - `ProcessMetaData`, `ProcessSyncAck`, `ProcessTimeDiffExhausted` and
    `SyncTimestampOnExhausted`.
  - `ProcessSample`, then `DisableSignificantMotion` when the sample is
    significant motion and that kind is enabled.
- Framework threads:
  - `Batch`, then `BatchStamp`.
  - `SetEnable` (enable after a batch, or disable at any time).
  - `Flush`, of a sensor that is on: the framework flushes only sensors it
    has activated, and `flush()` itself does not check.
  - `SyncTimestamp`, then `SyncTimestampStamp`.
- Firmware (modelled from the spec): `FwReportSample`, `FwFlushComplete`,
  `FwSyncAck` and `FwTimeDiffExhausted`. A record is pushed into `stream` only
  while `bufEnabled`.

**I/O failure.** `IoOutcome(attr)` is `{"ok","open_fail","write_fail"}` for the
attributes listed in `IoFaults` and `{"ok"}` otherwise. Each action takes the
branch the code takes on each outcome.

**Data abstractions**

- Payloads are not modelled, so a sample is just its kind.
- Host timestamps are replaced by request numbers.
- Logging is omitted.

**Fairness** (`Fairness`, used by `LiveSpec`)

- The poll thread's steps are weakly fair, because the HAL calls `readEvents`
  in an endless loop.
- The two poll-thread steps that take `sys_fs_mutex` are strongly fair. The
  mutex is released by every framework call, so these steps are enabled
  again and again.
- The second halves of `batch` and `sync_timestamp` (the stamps) are weakly
  fair. A call that has started runs to its end.
- The firmware reports samples of every kind it has on, and answers flush
  and sync requests, with strong fairness. All of these compete for FIFO
  room, and each sensor samples at its own period, so the firmware is
  assumed not to starve any one of them behind the others.
- Framework calls are not fair: the framework may stop calling at any time.

### CwMcuDiscovery.tla

This module holds `find_type_by_name` as operators with no state. A
directory entry is abstracted to whether it starts with `iio:device`,
whether `sscanf("%d")` read a number, the number, and the character after
the number. A name file is abstracted to how it compares with the name.
`EntryMatches` is one iteration of the `readdir()` loop, including
`NumStrLen` (sscanf's item count, used as the number's length),
`CharAfter` (the colon check) and `PathFits` (the path buffer sized with
that length). `FindTypeByName` takes the first matching entry with
`SelectInSeq`, and `DevNum` is the constructor's fallback to device 0.
`HubDevice` is the reference: the first entry that is `iio:device`
followed by a number and nothing else, whose name file holds the name.

### CwMcuCalib.tla

This module models the constructor's device discovery and calibration
persistence. It is separate from
`CwMcuSensor` because every step runs under `sys_fs_mutex` and touches no
state the dispatch model keeps; what interleaves with it is crashes and
the firmware.

- **State.** `proc` is the HAL process: `"down"`, `"up"`, or `"saving"`
  between `fopen("w+")` and `fclose()`. `magFile` and `accFile` are the
  `/data/misc` files. `fwMag` and `fwAcc` are the firmware's calibrations.
  `temp` is `temp_data[]`. `calibrated` is a history flag: the file has held
  a computed calibration. `listing` and `names` are `/sys/bus/iio/devices/`,
  chosen in `Init` and never changed, and `dataDev` is the device `data_fd`
  is open on.
- **Actions.** `Construct` is the constructor: device discovery, then the
  restore of both files.
  `SetEnableSave(what)` is the save in `setEnable(what, 0)` up to the
  `fprintf`s, and `SaveClose` is the `fclose()`. `ReadMag` and `ReadAcc`
  translate the two branches of `cw_read_calibrator_file`: EOF gives -1 for
  the magnetometer, a non-numeric token gives 0 with garbage, and a short
  accelerometer read gives 0 with the zero initialisation.
- **Fault model.** `Crash` kills the process and `Reboot` also resets the
  firmware to `FwDefault`, at the points in `CrashAt`, at most `MaxRestarts`
  times. `FwRecalibrate` moves the firmware to another calibration at most
  `MaxRecal` times. Sysfs reads may fail as listed in `AttrFaults`, and the
  save file's open as listed in `FileFaults`.

### MC_CwMcuCalib.tla

This module gives directory listings with single-digit device numbers
(a foreign entry, an entry with a colon, an entry without a number) and
one with the hub at device 12, name maps that match exactly, match with a
newline, only start with the name, are short, cannot be opened, or do not
match, two computed calibrations, every content the
accelerometer file may have, and the fault sets. `OpenFails` and
`NonNumeric` reproduce hazards 335 and 1039: with `AttrFaults` set to either
in `calib.cfg`, TLC finds `CalibrationKept` violated in three steps.

### CwMcuDecode.tla

This module models the sample cases of `processEvent` and the converters.

- **Representation.** A float is a fraction `Fixed(v, per)`, so scaling by
  `CONVERT_x` is exact. A `uint32` is a pair `[hi, lo]` of 16-bit halves. A
  `size_t` made from an int16 is `[wrap, v]`, where `wrap = 1` stands for a
  negative value converted modulo 2^64. TLC's integers cannot hold 2^32.
- **State.** `pending` is `mPendingEvents` per kind. `InitSlot` leaves every
  field the constructor does not write as the model value `Indeterminate`.
  Light and pressure data are memset to 0.
- **Action.** `DecodeRecord(rec)` is one loop iteration of `readEvents` on a
  sample of an enabled kind. It applies `ProcessEventPayload`, then
  `CalculateRv4thElement`, and emits the slot.
- **Converters.** `IndexToValue` clamps through `SizeT`. `ISqrt` is a
  RECURSIVE bisection over 0..10000, and the 4th element is in units of
  1/10000.

### MC_CwMcuDecode.tla

This module gives the kind sets and the int16 edge values (-32768, -1, 0, 1,
32767, the rotation components that make the squares sum under, at and over
1) for the decode runs.

### MC_CwMcuSensor.tla

This module defines the small handle sets and fault sets that the cfgs use.

## 3. Runs

Default bounds are `BufCap=2`, `MaxCount=2`, `StreamCap=2`, `MaxSync=1` and `MaxFlush=1`.
core uses `MaxCount=1`.

| Run | Setting | Checks | Expect |
|---|---|---|---|
| core | 1 framework thread; accelerometer and gyroscope; no faults; `LiveSpec`; MaxCount=1 | TypeOK, EventsWithinBudget, ActiveSensorsHaveBuffer, FlushCompletesWhileStreaming, EnabledSensorsReport; deadlock | pass |
| poll_progress | 1 thread; the framework addresses significant motion only (the accelerometer is on from the start); faults on enable/flush/batch_enable; BufCap=MaxCount=StreamCap=1; `LiveSpec` | PollThreadProgress; deadlock | pass |
| sm_oneshot | 1 thread; accelerometer and significant motion; no faults | SignificantMotionOneShot | pass |
| sync_stamp_race | as core, MaxSync=2, no fairness | SyncSettles | violation |
| buffer_race | 2 framework threads | ActiveSensorsHaveBuffer | violation |
| flush_stranded | as core | FlushCompletesWhileBuffered | violation |
| flush_lost | as core, StreamCap=1 | FlushCompletes | violation |
| decode_words | pressure and step counter; int16 edges | TypeOK, PressureMatchesReference | pass |
| decode_rv | rotation vector and game rotation vector | RotationVectorUnitQuaternion | pass |
| calib | short reads, unopenable save file, crashes and reboots outside a save, 2 recalibrations; single-digit IIO devices | TypeOK, CalibrationKept, DataDeviceIsHub | pass |
| calib_crash | as calib, crashes and reboots anywhere | CalibrationKept | violation |
| discovery_wide | as calib, the hub is iio:device12 behind iio:device0 | DataDeviceIsHub | violation |

**What the violations show** (findings in `PROJECT.json`)

- **sync_stamp_race.** The trace is:
  1. `batch` writes the sync request;
  2. the firmware acks;
  3. the poll thread commits `g := l`, which is still the previous value;
  4. `batch` stamps `l`.

  After that no ack is outstanding, and `g` stays stale (734).
- **buffer_race.** The trace is:
  1. thread 1 `batch`es the accelerometer while it is on, so it skips
     re-arming the buffer;
  2. thread 2 disables the accelerometer, which disarms the buffer;
  3. thread 1 enables the accelerometer with the buffer off (625/545).
  The same happens when thread 1 batches the gyroscope.
- **flush_lost.** `flush` of the active accelerometer writes its request.
  `setEnable(.., 0)` then disables
  the last sensor and the buffer, and the firmware's answer is dropped (546).
  `flush` returned 0, but no flush-complete event ever comes.
- **flush_stranded.** The flush answer reaches the reader behind a sample,
  with `count = 1`. `readEvents` returns with the answer still in
  `mInputReader`. The last sensor is then disabled, no record arrives, and
  `fill()` never returns (834).
- **calib_crash.** The trace is:
  1. the constructor restores the saved calibration;
  2. `setEnable(magnetometer, 0)` opens the file with `"w+"`, which empties it;
  3. the process dies before `fclose()`.

  The file is empty, and the next start finds no calibration (983).

- **discovery_wide.** `sscanf` returns 1, so for `iio:device12` the colon
  check looks at the digit `2`, and the name path is allocated for one
  digit. `snprintf` truncates it to `.../iio:device12/nam`, the open fails,
  and the scan returns `-ENODEV`. The constructor falls back to device 0
  and opens `/dev/iio:device0`, another device (127, 269-271).

Two violations found while modelling are not kept as runs, to stay within
twelve runs. Each is a one-line change of a cfg:

- with `IoFaults <- EnableFaults` in `sm_oneshot.cfg`, the one-shot disable
  fails silently (533), and a second significant-motion event is delivered;
- with `DecodeKinds = {CW_STEP_DETECTOR, CW_STEP_COUNTER}`, an invariant
  that every field an emitted event carries was written fails in two steps:
  the step-detector event carries an uninitialised `data[0]`, because
  `processEvent` writes the step counter's slot instead (936).

**Why the passing runs matter**

- The one-shot holds when sysfs does not fail.
- The poll thread, blocked on the mutex while `batch()` holds it across its
  sync write, always gets it, also when enable, flush or batch_enable writes
  fail: every framework path unlocks.
- Device discovery finds the hub among single-digit devices, past foreign
  entries, entries with a colon or without a number, and names that only
  start with `CwMcuSensor`.
- While some sensor stays on, every flush answer that reaches the buffer is
  delivered, even one left behind by a spent `count`.
- Every enabled sensor eventually reports while no write fails.
- A computed calibration survives crashes and reboots outside a save,
  short reads and unopenable save files.
- The 32-bit reinterpretation and the 4th quaternion component agree with
  reference definitions at every edge value.

**Bounds.** Two sensors, one or two sync requests and one flush are enough for every
interleaving above:

- each violation needs at most one flush, one sync and two sensors;
- each passing run of the driver reaches between 5,000 and 2.6 million
  distinct states (core: 65,590 and poll_progress: 114,088, with liveness);
- `StreamCap=2` is the smallest setting in which a record can be left in the
  reader behind a spent count: with `MaxCount=1` one `fill()` reads two
  records and the loop emits one (core, flush_stranded). `StreamCap=1` hides
  the overfill and discard mutants.

The calibration run uses two computed calibrations, so a recalibration
changes what the next save writes, and two restarts, so a save can follow a
restart that followed a save.

The decode runs take each kind with the int16 values at the edges of each
conversion: the sign bit, and -1 and 0 around the wrap.

`BufCap=2` and `MaxCount=2` let a single `readEvents` call both fill past its
budget and leave records behind.

**Mutants.** `PROJECT.json` lists a plausible code bug for each property of a
passing run, and TLC finds each of them:

- an overfilled reader;
- meta-data not counted;
- a buffer never re-armed;
- a skipped one-shot disable;
- a reader that discards records left past `count`;
- an enable that never reaches the firmware;
- a `flush` that does not unlock the mutex;
- a name match that accepts a longer name;
- a magnetometer read that takes EOF for success, or a constructor that
  skips the magnetometer restore;
- a signed low half or swapped halves in the 32-bit reinterpretation;
- a radicand missing q3.

**Fairness.** Only core, poll_progress and the flush runs use `LiveSpec`; see section 2.

## 4. Not modelled

- **Orientation and magnetometer accuracy (`status = bias[0]`).** These are
  copied and never checked against anything.
- **Kernel FIFO overflow.** The firmware is assumed to wait while the FIFO is
  full.
- **`setDelay` and `getEnable`.** They change no state the model keeps.
- **The accelerometer calibration's values.** A partly read file gives a
  mix of read values and zeros, which is modelled as the file's value.
- **The file contents as text.** A calibration is a model value; the 26 or
  3 integers and their formatting are not modelled.
- **Path and string formatting.** These are pure I/O, abstracted to the
  outcomes the code branches on. `chomp` is never called.
- **A failing `read()` or `malloc()` in `find_type_by_name`.** A read error
  stores -1 in a `size_t` and writes `thisname[SIZE_MAX]` (147-152), which is
  undefined behaviour, not an outcome of the scan; it is listed as a hazard.
- **The exhaustion-only sync path as a run.** With no framework thread and
  `MaxSync=3`, `SyncSettles` holds, because the poll thread writes and stamps
  inside one critical section. The run was checked in earlier sittings and
  dropped to stay within twelve runs; `sync_stamp_race` still checks
  `SyncSettles`.
- **A constructor whose `data_fd` open fails.**
- **Numeric tag values.** Tags indexing past `mPendingEvents` and `1<<id`
  overflow depend on values in the absent header.

## 5. Plan for later sittings

1. **Sync liveness.** A lost or dropped sync ack stalls the handshake until
   the next exhaustion signal or `batch` (954); with the stamp race of 734
   present, a liveness property for it fails in every configuration with a
   framework thread.
2. **Composition.** Call the calibration save from `SetEnable` in
   `CwMcuSensor`, so that a disable of the magnetometer is one step with
   its save.
3. **Refinement.** A refinement of the record path onto a plain queue was
   dropped: every loop step takes the head of `mInputReader` by
   construction, so it held whatever the driver does. A refinement worth
   checking would map the control entry points onto an abstract
   enable/flush service whose answers the driver must deliver.
