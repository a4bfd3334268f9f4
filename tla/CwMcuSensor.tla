----------------------------- MODULE CwMcuSensor -----------------------------
(***************************************************************************)
(* The CwMcuSensor HAL driver (CwMcuSensor.cpp) together with the two      *)
(* parties it talks to:                                                    *)
(*   - the poll thread, which calls readEvents() and, through it,          *)
(*     processEvent() on every record of the IIO stream;                   *)
(*   - framework threads (Ctl), which call batch(), setEnable(), flush()   *)
(*     and sync_timestamp();                                               *)
(*   - the sensor-hub firmware, which turns sysfs writes into records.     *)
(* All control paths serialise on sys_fs_mutex (variable lock).  The poll  *)
(* thread reads mEnabled and l_timestamp without the mutex.                *)
(*                                                                         *)
(* Sample payloads, the calibration files and log output are abstracted    *)
(* away: a record is its tag, the one 16-bit field the code branches on    *)
(* (data[0]) and, for sync acks, the request it answers (a history field   *)
(* the code does not have).  A host timestamp taken by                     *)
(* sync_timestamp_locked is abstracted to the number of the sync request   *)
(* it follows, which preserves its order against the other stamps.         *)
(***************************************************************************)
EXTENDS Naturals, Sequences, FiniteSets, CwMcuTables

CONSTANTS
    Ctl,           \* framework threads calling the control entry points
    Handles,       \* the handles the framework addresses
    StartupHandle, \* handle 0, which the constructor enables
    IoFaults,      \* sysfs attributes whose open() or write() may fail
    BufCap,        \* capacity of mInputReader in records (IIO_MAX_BUFF_SIZE)
    MaxCount,      \* largest count the framework passes to readEvents()
    StreamCap,     \* records the kernel FIFO of the IIO buffer holds
    MaxSync,       \* bound: timestamp-sync requests written in one behaviour
    MaxFlush       \* bound: flush requests written in one behaviour

ASSUME
    /\ Handles \subseteq AllHandles
    /\ StartupHandle \in AllHandles
    /\ IoFaults \subseteq {"enable", "flush", "batch_enable", "buffer"}
    /\ BufCap \in Nat \ {0} /\ MaxCount \in Nat \ {0}
    /\ StreamCap \in Nat \ {0} /\ MaxSync \in Nat /\ MaxFlush \in Nat

Kinds == {FindSensor(h) : h \in Handles} \cup {FindSensor(StartupHandle)}

\* Kinds batch() refuses a non-zero timeout for.
NoBatchKinds == {"CW_LIGHT", CW_SIGNIFICANT_MOTION}

SYNC_ACK_MAGIC == "SYNC_ACK_MAGIC"
EXHAUSTED_MAGIC == "EXHAUSTED_MAGIC"
SampleData == "sample"

\* Holder of sys_fs_mutex when nobody holds it.
Nobody == "nobody"

\* What an open()+write() of a sysfs attribute can come to.
IoOutcome(attr) ==
    IF attr \in IoFaults THEN {"ok", "open_fail", "write_fail"} ELSE {"ok"}

Record == [tag : Kinds \cup PseudoKinds,
           val : Kinds \cup {SYNC_ACK_MAGIC, EXHAUSTED_MAGIC, SampleData},
           req : 0..MaxSync]
Event == [type : {"sample"}, sensor : Kinds]
           \cup [type : {"meta"}, sensor : AllHandles \cup {NoHandle}]

VARIABLES
    \* driver state (members of CwMcuSensor, sys_fs_mutex, the IIO buffer)
    mEnabled, mPendingMask, bufEnabled, initTriggerDone,
    lTimestamp, gTimestamp, lock,
    \* the poll thread: readEvents()'s locals and the caller's data[] array
    poll, out, rbuf,
    \* the device: kernel stream and firmware
    stream, fwEnabled, flushQ, syncQ, nSync, nFlush,
    \* framework threads
    ctl,
    \* history for properties
    smSinceEnable, flushRequested, flushes, acked

driver == <<mEnabled, mPendingMask, bufEnabled, initTriggerDone,
            lTimestamp, gTimestamp, lock>>
device == <<stream, fwEnabled, flushQ, syncQ, nSync, nFlush>>
history == <<smSinceEnable, flushRequested, flushes, acked>>
vars == <<driver, poll, out, rbuf, device, ctl, history>>

-----------------------------------------------------------------------------
(* Helpers                                                                 *)

Smaller(a, b) == IF a < b THEN a ELSE b

CountIf(s, P(_)) == Cardinality({i \in 1..Len(s) : P(s[i])})

EnableWith(S, what, flags) == IF flags THEN S \cup {what} ELSE S \ {what}

\* TIME_DIFF_EXHAUSTED records still to be handled; each will write a
\* sync request, so the bound on requests counts them.
PendingExhausted ==
    CountIf(stream \o rbuf, LAMBDA r : r.tag = TIME_DIFF_EXHAUSTED)

\* Room for one more request from a framework thread (the records already
\* queued keep theirs).
SyncRoom == nSync + PendingExhausted < MaxSync

\* The firmware pushes a record; the IIO core drops it while the buffer is
\* disabled.  The firmware is assumed never to overflow the kernel FIFO:
\* it waits while StreamCap records are unread.
Push(rec) ==
    /\ Len(stream) < StreamCap
    /\ stream' = IF bufEnabled THEN Append(stream, rec) ELSE stream

\* Mutant: the "what flags" string reaches the firmware only for a disable.
SetEnableLockedEnableLost(what, flags) ==
    \/ /\ "open_fail" \in IoOutcome("enable")
       /\ UNCHANGED <<mEnabled, fwEnabled, bufEnabled>>
    \/ \E en \in IoOutcome("enable") \ {"open_fail"},
          bo \in IoOutcome("buffer") :
          LET new == EnableWith(mEnabled, what, flags)
          IN /\ mEnabled' = new
             /\ fwEnabled' = IF en = "ok" /\ ~flags THEN EnableWith(fwEnabled, what, flags)
                                                    ELSE fwEnabled
             /\ bufEnabled' = IF new = {} /\ bo = "ok" THEN FALSE ELSE bufEnabled

\* The body of setEnable() between lock and unlock, for a valid `what`.
\* If the enable attribute cannot be opened nothing changes and setEnable
\* still returns 0; a failed write still updates mEnabled.
SetEnableLocked(what, flags) ==
    \/ /\ "open_fail" \in IoOutcome("enable")
       /\ UNCHANGED <<mEnabled, fwEnabled, bufEnabled>>
    \/ \E en \in IoOutcome("enable") \ {"open_fail"},
          bo \in IoOutcome("buffer") :
          LET new == EnableWith(mEnabled, what, flags)
          IN /\ mEnabled' = new
             /\ fwEnabled' = IF en = "ok" THEN EnableWith(fwEnabled, what, flags)
                                          ELSE fwEnabled
             /\ bufEnabled' = IF new = {} /\ bo = "ok" THEN FALSE ELSE bufEnabled

\* sync_timestamp_locked(), first half: write TIMESTAMP_SYNC_CODE to the
\* flush attribute.  Only a successful write reaches the firmware and is
\* followed by the l_timestamp stamp.
SyncWriteOk ==
    /\ nSync' = nSync + 1
    /\ syncQ' = Append(syncQ, nSync + 1)

-----------------------------------------------------------------------------
(* Initial state: what the constructor leaves behind once data_fd is open. *)

Init ==
    /\ \E trig, be \in IoOutcome("buffer"), en \in IoOutcome("enable") :
          LET k0 == FindSensor(StartupHandle)
          IN /\ initTriggerDone = (trig = "ok")
             /\ bufEnabled = (be = "ok")
             /\ mEnabled = IF en = "open_fail" THEN {} ELSE {k0}
             /\ fwEnabled = IF en = "ok" THEN {k0} ELSE {}
    /\ mPendingMask = {}
    /\ lTimestamp = 0 /\ gTimestamp = 0
    /\ lock = Nobody
    /\ poll = [pc |-> "idle", count |-> 0, asked |-> 0]
    /\ out = <<>> /\ rbuf = <<>>
    /\ stream = <<>> /\ flushQ = <<>> /\ syncQ = <<>>
    /\ nSync = 0 /\ nFlush = 0
    /\ ctl = [t \in Ctl |-> [pc |-> "idle", h |-> StartupHandle, req |-> 0]]
    /\ smSinceEnable = 0 /\ flushRequested = {} /\ acked = {}
    /\ flushes = [written |-> 0, reported |-> 0, dropped |-> 0]

-----------------------------------------------------------------------------
(* The poll thread: readEvents() and processEvent()                        *)

\* Mutant: fill() reads one record more than the free space.
ReadEventsFillOverfill(c) ==
    LET n == Smaller(Len(stream), BufCap - Len(rbuf) + 1)
    IN /\ poll.pc = "idle"
       /\ stream # <<>>
       /\ rbuf' = rbuf \o SubSeq(stream, 1, n)
       /\ stream' = SubSeq(stream, n + 1, Len(stream))
       /\ poll' = [pc |-> "loop", count |-> c, asked |-> c]
       /\ out' = <<>>
       /\ UNCHANGED <<driver, fwEnabled, flushQ, nFlush, syncQ, nSync, ctl, history>>

\* readEvents(data, count): fill mInputReader from data_fd, then loop.
\* fill() blocks on the device while it has nothing queued, so the poll
\* thread only starts a call when the stream has a record.
ReadEventsFill(c) ==
    LET n == Smaller(Len(stream), BufCap - Len(rbuf))
    IN /\ poll.pc = "idle"
       /\ stream # <<>>
       /\ rbuf' = rbuf \o SubSeq(stream, 1, n)
       /\ stream' = SubSeq(stream, n + 1, Len(stream))
       /\ poll' = [pc |-> "loop", count |-> c, asked |-> c]
       /\ out' = <<>>
       /\ UNCHANGED <<driver, fwEnabled, flushQ, nFlush, syncQ, nSync, ctl, history>>

\* Mutant: records left over when count runs out are discarded.
ReadEventsReturnDiscard ==
    /\ poll.pc = "loop"
    /\ poll.count = 0 \/ rbuf = <<>>
    /\ poll' = [poll EXCEPT !.pc = "idle"]
    /\ rbuf' = <<>>
    /\ UNCHANGED <<driver, out, device, ctl, history>>

\* The while loop ends when count is used up or the reader is empty.
ReadEventsReturn ==
    /\ poll.pc = "loop"
    /\ poll.count = 0 \/ rbuf = <<>>
    /\ poll' = [poll EXCEPT !.pc = "idle"]
    /\ UNCHANGED <<driver, out, rbuf, device, ctl, history>>

\* One loop iteration may start on the record at the head of the reader.
LoopStep == poll.pc = "loop" /\ poll.count > 0 /\ rbuf # <<>>

\* Emit an event into data[], decrement count and call mInputReader.next().
\* Significant-motion events are counted for SignificantMotionOneShot; the
\* count saturates at 2, the first value that property tells apart.
EmitAndNext(ev) ==
    /\ out' = Append(out, ev)
    /\ poll' = [poll EXCEPT !.pc = "loop", !.count = @ - 1]
    /\ rbuf' = Tail(rbuf)
    /\ smSinceEnable' = IF ev = [type |-> "sample", sensor |-> CW_SIGNIFICANT_MOTION]
                        THEN Smaller(smSinceEnable + 1, 2) ELSE smSinceEnable

\* Mutant: the meta-data branch forgets count--.
ProcessMetaDataNoCount ==
    /\ LoopStep
    /\ Head(rbuf).tag = CW_META_DATA
    /\ out' = Append(out, [type |-> "meta", sensor |-> FindHandle(Head(rbuf).val)])
    /\ rbuf' = Tail(rbuf)
    /\ flushes' = [flushes EXCEPT !.reported = @ + 1]
    /\ UNCHANGED <<driver, poll, device, ctl, smSinceEnable, flushRequested, acked>>

\* CW_META_DATA: flush complete for the firmware sensor id in data[0],
\* translated by find_handle and emitted whatever mEnabled says.
ProcessMetaData ==
    /\ LoopStep
    /\ Head(rbuf).tag = CW_META_DATA
    /\ EmitAndNext([type |-> "meta", sensor |-> FindHandle(Head(rbuf).val)])
    /\ flushes' = [flushes EXCEPT !.reported = @ + 1]
    /\ UNCHANGED <<driver, device, ctl, flushRequested, acked>>

\* CW_SYNC_ACK: with the magic value, g_timestamp := l_timestamp, read
\* without sys_fs_mutex.  No event: the tag has no bit in mEnabled.
ProcessSyncAck ==
    LET rec == Head(rbuf)
    IN /\ LoopStep
       /\ rec.tag = CW_SYNC_ACK
       /\ gTimestamp' = IF rec.val = SYNC_ACK_MAGIC THEN lTimestamp ELSE gTimestamp
       /\ acked' = acked \cup {rec.req}
       /\ rbuf' = Tail(rbuf)
       /\ UNCHANGED <<mEnabled, mPendingMask, bufEnabled, initTriggerDone,
                      lTimestamp, lock, poll, out, device, ctl,
                      smSinceEnable, flushRequested, flushes>>

\* TIME_DIFF_EXHAUSTED with the magic value: processEvent() calls
\* sync_timestamp(), which first has to take sys_fs_mutex.
ProcessTimeDiffExhausted ==
    /\ LoopStep
    /\ Head(rbuf).tag = TIME_DIFF_EXHAUSTED
    /\ Head(rbuf).val = EXHAUSTED_MAGIC
    /\ poll' = [poll EXCEPT !.pc = "exh_sync"]
    /\ UNCHANGED <<driver, out, rbuf, device, ctl, history>>

\* sync_timestamp() on the poll thread, then the rest of the iteration:
\* the tag has no bit in mEnabled, so no event, and next().
SyncTimestampOnExhausted ==
    /\ poll.pc = "exh_sync"
    /\ lock = Nobody
    /\ \/ /\ SyncWriteOk
          /\ lTimestamp' = nSync + 1
       \/ /\ IoOutcome("flush") # {"ok"}
          /\ UNCHANGED <<lTimestamp, nSync, syncQ>>
    /\ poll' = [poll EXCEPT !.pc = "loop"]
    /\ rbuf' = Tail(rbuf)
    /\ UNCHANGED <<mEnabled, mPendingMask, bufEnabled, initTriggerDone,
                   gTimestamp, lock, out, stream, fwEnabled, flushQ, nFlush,
                   ctl, history>>

\* A sample of a sensor kind: processEvent() sets its bit in mPendingMask
\* (never cleared), then readEvents() tests mEnabled without the mutex.
\* An enabled significant-motion sample first disables the sensor.
ProcessSample ==
    LET k == Head(rbuf).tag
    IN /\ LoopStep
       /\ k \in Kinds
       /\ mPendingMask' = mPendingMask \cup {k}
       /\ \/ /\ k \notin mEnabled
             /\ rbuf' = Tail(rbuf)
             /\ UNCHANGED <<poll, out, smSinceEnable>>
          \/ /\ k \in mEnabled /\ k = CW_SIGNIFICANT_MOTION
             /\ poll' = [poll EXCEPT !.pc = "sm_disable"]
             /\ UNCHANGED <<out, rbuf, smSinceEnable>>
          \/ /\ k \in mEnabled /\ k # CW_SIGNIFICANT_MOTION
             /\ EmitAndNext([type |-> "sample", sensor |-> k])
       /\ UNCHANGED <<mEnabled, bufEnabled, initTriggerDone, lTimestamp,
                      gTimestamp, lock, device, ctl, flushRequested, flushes, acked>>

\* Mutant: the one-shot event is emitted without setEnable(.., 0).
DisableSignificantMotionSkipped ==
    /\ poll.pc = "sm_disable"
    /\ lock = Nobody
    /\ EmitAndNext([type |-> "sample", sensor |-> CW_SIGNIFICANT_MOTION])
    /\ UNCHANGED <<driver, stream, fwEnabled, flushQ, nFlush, syncQ, nSync, ctl,
                   flushRequested, flushes, acked>>

\* setEnable(ID_CW_SIGNIFICANT_MOTION, 0) from the poll thread, then the
\* one-shot event is emitted.
DisableSignificantMotion ==
    /\ poll.pc = "sm_disable"
    /\ lock = Nobody
    /\ SetEnableLocked(CW_SIGNIFICANT_MOTION, FALSE)
    /\ EmitAndNext([type |-> "sample", sensor |-> CW_SIGNIFICANT_MOTION])
    /\ UNCHANGED <<mPendingMask, initTriggerDone, lTimestamp, gTimestamp, lock,
                   stream, flushQ, nFlush, syncQ, nSync, ctl,
                   flushRequested, flushes, acked>>

-----------------------------------------------------------------------------
(* Framework threads                                                       *)

CtlAt(t, pc) == ctl[t].pc = pc

CtlGo(t, pc) == ctl' = [ctl EXCEPT ![t].pc = pc]

\* Mutant: the buffer is never re-enabled.
ArmBufferNever ==
    /\ \E trig \in IoOutcome("buffer") :
          initTriggerDone' = (initTriggerDone \/ (mEnabled = {} /\ trig = "ok"))
    /\ UNCHANGED bufEnabled

\* batch() with no sensor enabled: set the buffer length, set the trigger
\* unless init_trigger_done, enable the IIO buffer.  A failed sysfs write
\* is only logged.
ArmBuffer ==
    \E trig, be \in IoOutcome("buffer") :
        /\ initTriggerDone' = (initTriggerDone \/ (mEnabled = {} /\ trig = "ok"))
        /\ bufEnabled' = (bufEnabled \/ (mEnabled = {} /\ be = "ok"))

\* batch(handle, flags, period_ns, timeout) up to the sync write, under
\* sys_fs_mutex.  Dry runs and a non-zero timeout for light or significant
\* motion return before the lock and change nothing.  With no sensor
\* enabled the IIO trigger and buffer are (re)armed.  A successful sync
\* write keeps the mutex for the l_timestamp stamp (BatchStamp); otherwise
\* batch() goes on to batch_enable and returns.  The framework activates
\* the sensor only when batch() returned 0.
Batch(t, h, timeout, dryRun) ==
    LET what == FindSensor(h)
    IN /\ CtlAt(t, "idle")
       /\ ~dryRun
       /\ ~(what \in NoBatchKinds /\ timeout > 0)
       /\ lock = Nobody
       /\ ArmBuffer
       /\ \/ /\ SyncRoom
             /\ SyncWriteOk
             /\ lock' = t
             /\ ctl' = [ctl EXCEPT ![t] = [pc |-> "batch_stamp", h |-> h, req |-> nSync + 1]]
          \/ /\ IoOutcome("flush") # {"ok"}
             /\ \E bo \in IoOutcome("batch_enable") :
                   ctl' = [ctl EXCEPT ![t] = [pc |-> IF bo = "ok" THEN "enable" ELSE "idle",
                                               h |-> h, req |-> 0]]
             /\ UNCHANGED <<nSync, syncQ, lock>>
       /\ UNCHANGED <<mEnabled, mPendingMask, lTimestamp, gTimestamp, poll, out,
                      rbuf, stream, fwEnabled, flushQ, nFlush, history>>

\* The rest of batch(): l_timestamp = getTimestamp() after the sync write
\* returned, the batch_enable write, unlock.
BatchStamp(t) ==
    /\ CtlAt(t, "batch_stamp")
    /\ lTimestamp' = ctl[t].req
    /\ lock' = Nobody
    /\ \E bo \in IoOutcome("batch_enable") : CtlGo(t, IF bo = "ok" THEN "enable" ELSE "idle")
    /\ UNCHANGED <<mEnabled, mPendingMask, bufEnabled, initTriggerDone, gTimestamp,
                   poll, out, rbuf, device, history>>

\* setEnable(handle, en).  The framework enables a sensor right after a
\* successful batch() and may disable any sensor at any time.
SetEnable(t, h, en) ==
    /\ IF en THEN CtlAt(t, "enable") /\ h = ctl[t].h ELSE CtlAt(t, "idle")
    /\ lock = Nobody
    /\ SetEnableLocked(FindSensor(h), en)
    /\ CtlGo(t, "idle")
    /\ smSinceEnable' = IF en /\ h = ID_CW_SIGNIFICANT_MOTION THEN 0 ELSE smSinceEnable
    /\ UNCHANGED <<mPendingMask, initTriggerDone, lTimestamp, gTimestamp, lock,
                   poll, out, rbuf, stream, flushQ, nFlush, syncQ, nSync,
                   flushRequested, flushes, acked>>

\* Mutant: flush() returns without pthread_mutex_unlock().
FlushKeepsLock(t, h) ==
    /\ CtlAt(t, "idle")
    /\ FindSensor(h) \in mEnabled
    /\ lock = Nobody
    /\ nFlush < MaxFlush
    /\ nFlush' = nFlush + 1
    /\ lock' = t
    /\ \/ /\ flushQ' = Append(flushQ, FindSensor(h))
          /\ flushRequested' = flushRequested \cup {h}
          /\ flushes' = [flushes EXCEPT !.written = @ + 1]
       \/ /\ IoOutcome("flush") # {"ok"}
          /\ UNCHANGED <<flushQ, flushRequested, flushes>>
    /\ UNCHANGED <<mEnabled, mPendingMask, bufEnabled, initTriggerDone, lTimestamp,
                   gTimestamp, poll, out, rbuf, stream, fwEnabled, syncQ, nSync,
                   ctl, smSinceEnable, acked>>

\* flush(handle): write the kind to the flush attribute under the mutex;
\* the firmware answers with a CW_META_DATA record.  The framework only
\* flushes a sensor it has activated (flush() itself does not check).
Flush(t, h) ==
    /\ CtlAt(t, "idle")
    /\ FindSensor(h) \in mEnabled
    /\ lock = Nobody
    /\ nFlush < MaxFlush
    /\ nFlush' = nFlush + 1
    /\ \/ /\ flushQ' = Append(flushQ, FindSensor(h))
          /\ flushRequested' = flushRequested \cup {h}
          /\ flushes' = [flushes EXCEPT !.written = @ + 1]
       \/ /\ IoOutcome("flush") # {"ok"}
          /\ UNCHANGED <<flushQ, flushRequested, flushes>>
    /\ UNCHANGED <<driver, poll, out, rbuf, stream, fwEnabled, syncQ, nSync,
                   ctl, smSinceEnable, acked>>

\* sync_timestamp() from a framework thread: lock, then the sync write ...
SyncTimestamp(t) ==
    /\ CtlAt(t, "idle")
    /\ lock = Nobody
    /\ SyncRoom
    /\ SyncWriteOk
    /\ lock' = t
    /\ ctl' = [ctl EXCEPT ![t] = [@ EXCEPT !.pc = "sync_stamp", !.req = nSync + 1]]
    /\ UNCHANGED <<mEnabled, mPendingMask, bufEnabled, initTriggerDone, lTimestamp,
                   gTimestamp, poll, out, rbuf, stream, fwEnabled, flushQ, nFlush,
                   history>>

\* ... then l_timestamp = getTimestamp() and unlock.
SyncTimestampStamp(t) ==
    /\ CtlAt(t, "sync_stamp")
    /\ lTimestamp' = ctl[t].req
    /\ lock' = Nobody
    /\ CtlGo(t, "idle")
    /\ UNCHANGED <<mEnabled, mPendingMask, bufEnabled, initTriggerDone, gTimestamp,
                   poll, out, rbuf, device, history>>

-----------------------------------------------------------------------------
(* The sensor-hub firmware                                                 *)

FwReportSample(k) ==
    /\ k \in fwEnabled
    /\ Push([tag |-> k, val |-> SampleData, req |-> 0])
    /\ UNCHANGED <<driver, poll, out, rbuf, fwEnabled, flushQ, nFlush, syncQ, nSync, ctl, history>>

\* The answer to the oldest flush request; one the disabled buffer drops
\* is counted for the flush properties.
FwFlushComplete ==
    /\ flushQ # <<>>
    /\ Push([tag |-> CW_META_DATA, val |-> Head(flushQ), req |-> 0])
    /\ flushQ' = Tail(flushQ)
    /\ flushes' = IF bufEnabled THEN flushes ELSE [flushes EXCEPT !.dropped = @ + 1]
    /\ UNCHANGED <<driver, poll, out, rbuf, fwEnabled, syncQ, nSync, nFlush, ctl,
                   smSinceEnable, flushRequested, acked>>

FwSyncAck ==
    /\ syncQ # <<>>
    /\ Push([tag |-> CW_SYNC_ACK, val |-> SYNC_ACK_MAGIC, req |-> Head(syncQ)])
    /\ syncQ' = Tail(syncQ)
    /\ UNCHANGED <<driver, poll, out, rbuf, fwEnabled, flushQ, nFlush, nSync, ctl, history>>

FwTimeDiffExhausted ==
    /\ nSync + PendingExhausted < MaxSync
    /\ Push([tag |-> TIME_DIFF_EXHAUSTED, val |-> EXHAUSTED_MAGIC, req |-> 0])
    /\ UNCHANGED <<driver, poll, out, rbuf, fwEnabled, flushQ, nFlush, syncQ, nSync, ctl, history>>

-----------------------------------------------------------------------------

Next ==
    \/ \E c \in 1..MaxCount : ReadEventsFill(c)
    \/ ReadEventsReturn
    \/ ProcessMetaData
    \/ ProcessSyncAck
    \/ ProcessTimeDiffExhausted
    \/ SyncTimestampOnExhausted
    \/ ProcessSample
    \/ DisableSignificantMotion
    \/ \E t \in Ctl, h \in Handles, timeout \in {0, 1}, dryRun \in BOOLEAN :
          Batch(t, h, timeout, dryRun)
    \/ \E t \in Ctl : BatchStamp(t)
    \/ \E t \in Ctl, h \in Handles, en \in BOOLEAN : SetEnable(t, h, en)
    \/ \E t \in Ctl, h \in Handles : Flush(t, h)
    \/ \E t \in Ctl : SyncTimestamp(t)
    \/ \E t \in Ctl : SyncTimestampStamp(t)
    \/ \E k \in Kinds : FwReportSample(k)
    \/ FwFlushComplete
    \/ FwSyncAck
    \/ FwTimeDiffExhausted

Spec == Init /\ [][Next]_vars

\* Fairness the code justifies.  The poll thread loops in readEvents()
\* forever, so each of its steps is weakly fair; the two that must take
\* sys_fs_mutex are strongly fair, since a framework thread may take and
\* release the mutex over and over.  A framework thread that has begun
\* a call finishes it.  The firmware keeps sampling every sensor it has
\* enabled, and no sensor's samples, flush answers or sync acks are
\* starved behind an endless run of other records competing for room in
\* the FIFO (strong fairness: each sensor has its own sampling period).
\* Framework calls themselves are not fair: the framework may stop
\* calling at any time.
Fairness ==
    /\ WF_vars(\E c \in 1..MaxCount : ReadEventsFill(c))
    /\ WF_vars(ReadEventsReturn)
    /\ WF_vars(ProcessMetaData) /\ WF_vars(ProcessSyncAck)
    /\ WF_vars(ProcessTimeDiffExhausted) /\ WF_vars(ProcessSample)
    /\ SF_vars(SyncTimestampOnExhausted) /\ SF_vars(DisableSignificantMotion)
    /\ \A t \in Ctl : WF_vars(BatchStamp(t)) /\ WF_vars(SyncTimestampStamp(t))
    /\ \A k \in Kinds : SF_vars(FwReportSample(k))
    /\ SF_vars(FwFlushComplete) /\ SF_vars(FwSyncAck)

LiveSpec == Spec /\ Fairness

-----------------------------------------------------------------------------
(* Properties                                                              *)

TypeOK ==
    /\ mEnabled \subseteq Kinds /\ fwEnabled \subseteq Kinds
    /\ mPendingMask \subseteq Kinds
    /\ bufEnabled \in BOOLEAN /\ initTriggerDone \in BOOLEAN
    /\ lTimestamp \in 0..MaxSync /\ gTimestamp \in 0..MaxSync
    /\ lock \in Ctl \cup {Nobody}
    /\ poll \in [pc : {"idle", "loop", "sm_disable", "exh_sync"},
                 count : 0..MaxCount, asked : 0..MaxCount]
    /\ out \in Seq(Event) /\ rbuf \in Seq(Record) /\ stream \in Seq(Record)
    /\ Len(rbuf) <= BufCap
    /\ flushQ \in Seq(Kinds) /\ syncQ \in Seq(1..MaxSync)
    /\ nSync \in 0..MaxSync /\ nFlush \in 0..MaxFlush /\ Len(stream) <= StreamCap
    /\ ctl \in [Ctl -> [pc : {"idle", "batch_stamp", "enable", "sync_stamp"},
                        h : AllHandles, req : 0..MaxSync]]
    /\ smSinceEnable \in 0..2 /\ flushRequested \subseteq Handles
    /\ flushes \in [written : 0..MaxFlush, reported : 0..MaxFlush, dropped : 0..MaxFlush]
    /\ acked \subseteq 1..MaxSync

\* readEvents() never puts more events into data[] than the count it was
\* given, although meta-data records bypass the mEnabled test and several
\* record kinds share the loop; records left over stay in mInputReader.
EventsWithinBudget == Len(out) <= poll.asked

\* Significant motion is one-shot: once readEvents() has emitted it, no
\* second event follows until the framework calls setEnable(handle, 1)
\* again.  The code relies on the setEnable(ID_CW_SIGNIFICANT_MOTION, 0)
\* it issues from the poll thread having cleared the bit in mEnabled.
SignificantMotionOneShot == smSinceEnable <= 1

\* Whenever some sensor is enabled in mEnabled, the IIO buffer is enabled,
\* so its samples can reach the poll thread.  setEnable() disables the
\* buffer when mEnabled becomes empty and only batch() re-enables it, and
\* only when it finds mEnabled empty: a sensor enabled after a batch()
\* that saw another sensor still enabled depends on that sensor staying
\* enabled in between.
ActiveSensorsHaveBuffer == mEnabled # {} => bufEnabled

\* Once every sync request written to the firmware has been acknowledged
\* and no thread is between its sync write and its l_timestamp stamp,
\* g_timestamp (set from l_timestamp on CW_SYNC_ACK) equals l_timestamp,
\* the stamp of the latest request.
SyncSettles ==
    (/\ 1..nSync \subseteq acked
     /\ \A t \in Ctl : ctl[t].pc \notin {"batch_stamp", "sync_stamp"})
        => gTimestamp = lTimestamp

\* Every flush() that reached the firmware is eventually answered by a
\* flush-complete event from readEvents(), unless the IIO core dropped
\* the answer because the buffer was disabled when it came.  The answer
\* may still sit in mInputReader behind a count that ran out: readEvents()
\* only gets to it after fill() returns, and fill() blocks on data_fd.
FlushCompletesWhileBuffered ==
    \A n \in 1..MaxFlush :
        flushes.written >= n ~> flushes.reported + flushes.dropped >= n

\* As FlushCompletesWhileBuffered, while some sensor stays enabled and
\* the firmware keeps streaming, so fill() keeps returning: an answer
\* left in mInputReader by readEvents() is delivered by a later call.
FlushCompletesWhileStreaming ==
    \A n \in 1..MaxFlush :
        flushes.written >= n
            ~> flushes.reported + flushes.dropped >= n \/ mEnabled = {}

\* readEvents() has put a sample of kind k into data[] in its current call.
SensorReported(k) == \E i \in 1..Len(out) : out[i] = [type |-> "sample", sensor |-> k]

\* A sensor that setEnable(handle, 1) has turned on eventually has one of
\* its samples returned by readEvents(), unless it is turned off first:
\* setEnable() has told the firmware through the enable attribute, the IIO
\* buffer is on, fill() passes its records to the loop, and processEvent()
\* finds its bit in mEnabled, across any number of batch(), flush() and
\* sync calls in between.
EnabledSensorsReport ==
    \A k \in Kinds : k \in mEnabled ~> (SensorReported(k) \/ k \notin mEnabled)

\* The poll thread, once blocked on sys_fs_mutex in processEvent()
\* (sync_timestamp() on TIME_DIFF_EXHAUSTED) or in readEvents() (the
\* one-shot disable of significant motion), gets the mutex and goes on
\* with its loop: every framework call releases the mutex, batch() and
\* sync_timestamp() only after their l_timestamp stamp, so the poll thread
\* and the framework never wait on each other for good.
PollThreadProgress == poll.pc \in {"exh_sync", "sm_disable"} ~> poll.pc = "loop"

\* Every flush() that returned 0 is eventually answered by a
\* flush-complete event, whatever the framework does in between.
FlushCompletes ==
    \A n \in 1..MaxFlush : flushes.written >= n ~> flushes.reported >= n

=============================================================================
