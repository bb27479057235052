---------------------------- MODULE LiveHistorian ----------------------------
(***************************************************************************)
(* The live telemetry write path of the central service: the MQTT ingest   *)
(* task (services/central/src/ingest.rs), the live historian it owns       *)
(* (services/central/src/live_historian.rs), the micro-batch accumulator   *)
(* (crates/fdd_store/src/micro_batch.rs), the monthly Parquet part writer  *)
(* (crates/fdd_store/src/parquet_parts.rs) and the latest-telemetry        *)
(* watermark file.                                                         *)
(*                                                                         *)
(* The ingest task is one tokio task, so its handlers never interleave     *)
(* with each other.  They are split into one step per storage operation    *)
(* because the process can be killed between two of them, because each     *)
(* storage operation can fail, and because readers of the store see every  *)
(* intermediate state.                                                     *)
(*                                                                         *)
(* An envelope carries one observation time and, for each                  *)
(* (building, equipment) key its tagged points name, exactly one row.  A   *)
(* row is therefore identified by its key and its envelope.                *)
(***************************************************************************)
EXTENDS Integers, FiniteSets, Functions

CONSTANTS
    Keys,           \* (building, equipment) keys, numbered in BTreeMap order
    Envelopes,      \* identities (edge_id, message_id) of telemetry envelopes
    NoEnvelope,     \* "no envelope is being ingested"
    Invalid,        \* envelopes rejected before anything is buffered
    Roles,          \* Roles[e][k]: the role schema of e's row for key k
    ObservedAt,     \* ObservedAt[e]: observation time, 1 or later
    MonthOf,        \* MonthOf[e]: the UTC month partition of that time
    FlushRows,      \* row threshold of a key's micro-batch
    MaxDeliveries,  \* bound: MaxDeliveries[e] deliveries of envelope e
    MaxFaults,      \* bound: transient storage failures
    MaxStops        \* bound: crashes and shutdowns

ASSUME LiveHistorianAssumption ==
    /\ Keys \subseteq Nat
    /\ NoEnvelope \notin Envelopes
    /\ Invalid \subseteq Envelopes
    /\ \A e \in Envelopes : DOMAIN Roles[e] \subseteq Keys
    /\ ObservedAt \in [Envelopes -> Nat \ {0}]
    /\ MonthOf \in [Envelopes -> Nat]
    /\ FlushRows \in Nat \ {0}
    /\ MaxDeliveries \in [Envelopes -> Nat]
    /\ MaxFaults \in Nat
    /\ MaxStops \in Nat

VARIABLES
    \* in the memory of the process
    buffered,   \* buffered[k][e]: copies of e's row in PendingBatch of key k
    due,        \* keys whose oldest buffered row is older than flush_after
    seen,       \* AppState.seen_messages
    latest,     \* LiveHistorian.latest_persisted_timestamp_utc, 0 for None
    op,         \* the call in progress: idle, ingest, tick, drain; or down
    stage,      \* its position: select, publish, apply, seal
    envelope,   \* the envelope ingest_envelope is working on
    todo,       \* keys the call has still to work on
    months,     \* months of the key being flushed not yet published
    reported,   \* largest last_timestamp_utc of the reports collected, or 0
    \* in the store
    copies,     \* copies[k][e]: published parts that hold e's row for key k
    watermark,  \* state/live-historian/latest-telemetry.json, 0 if absent
    \* observed by the checks only
    rejected,   \* envelopes record_reject was called for
    torn,       \* rows published by a flush that then failed
    deliveries, \* deliveries[e]: times the broker delivered e
    faults,     \* transient storage failures so far
    stops       \* crashes and shutdowns so far

memoryVars == <<buffered, due, seen, latest>>
callVars == <<op, stage, envelope, todo, months, reported>>
storeVars == <<copies, watermark>>
auxVars == <<rejected, torn, deliveries, faults, stops>>
vars == <<memoryVars, callVars, storeVars, auxVars>>

------------------------------------------------------------------------------
NoRows == [e \in Envelopes |-> 0]

RowsOf(k) == {e \in Envelopes : buffered[k][e] > 0}

KeysOf(e) == DOMAIN Roles[e]

(* BTreeMap iteration: keys and months are visited in increasing order. *)
IsFirst(x, S) == x \in S /\ \A y \in S : x <= y

(* Mutant of Larger: the last value wins. *)
Last(a, b) == b

Larger(a, b) == IF a >= b THEN a ELSE b

(* The schema check of push_at compares with the first pending batch; all  *)
(* pending batches of a key share one schema, so any of them will do.      *)
SchemaFits(k, e) == \A r \in RowsOf(k) : Roles[r][k] = Roles[e][k]

(* PendingBatch.rows *)
PendingRows(k) == SumFunction(buffered[k])

ThresholdReached(k) == PendingRows(k) >= FlushRows

PendingKeys == {k \in Keys : RowsOf(k) # {}}

(* The canonical month partitions a set of rows is split into. *)
MonthsOf(rows) == {MonthOf[r] : r \in rows}

TypeOK ==
    /\ buffered \in [Keys -> [Envelopes -> Nat]]
    /\ due \subseteq Keys
    /\ seen \subseteq Envelopes
    /\ latest \in Nat
    /\ op \in {"idle", "ingest", "tick", "drain", "down"}
    /\ stage \in {"select", "publish", "apply", "seal"}
    /\ envelope \in Envelopes \cup {NoEnvelope}
    /\ todo \subseteq Keys
    /\ months \subseteq Nat
    /\ reported \in Nat
    /\ copies \in [Keys -> [Envelopes -> Nat]]
    /\ watermark \in Nat
    /\ rejected \subseteq Envelopes
    /\ torn \subseteq Keys \X Envelopes
    /\ deliveries \in [Envelopes -> Nat]
    /\ faults \in 0..MaxFaults
    /\ stops \in 0..MaxStops

Init ==
    /\ buffered = [k \in Keys |-> NoRows]
    /\ due = {}
    /\ seen = {}
    /\ latest = 0
    /\ op = "idle"
    /\ stage = "select"
    /\ envelope = NoEnvelope
    /\ todo = {}
    /\ months = {}
    /\ reported = 0
    /\ copies = [k \in Keys |-> NoRows]
    /\ watermark = 0
    /\ rejected = {}
    /\ torn = {}
    /\ deliveries = [e \in Envelopes |-> 0]
    /\ faults = 0
    /\ stops = 0

------------------------------------------------------------------------------
(* Calls begin and end.                                                    *)

Begin(call, keys) ==
    /\ op = "idle"
    /\ op' = call
    /\ stage' = "select"
    /\ todo' = keys
    /\ UNCHANGED <<months, reported>>

(* The call returns to the ingest loop; what it collected is dropped. *)
Return ==
    /\ op' = "idle"
    /\ stage' = "select"
    /\ envelope' = NoEnvelope
    /\ todo' = {}
    /\ months' = {}
    /\ reported' = 0

(* The process ends: everything it held in memory is gone. *)
Exit ==
    /\ op' = "down"
    /\ stage' = "select"
    /\ envelope' = NoEnvelope
    /\ todo' = {}
    /\ months' = {}
    /\ reported' = 0
    /\ buffered' = [k \in Keys |-> NoRows]
    /\ due' = {}
    /\ seen' = {}
    /\ latest' = 0

------------------------------------------------------------------------------
(* handle_telemetry                                                        *)

Deliver(e) ==
    /\ op = "idle"
    /\ deliveries[e] < MaxDeliveries[e]
    /\ deliveries' = [deliveries EXCEPT ![e] = @ + 1]

(* An envelope that was accepted before is only counted. *)
ReceiveDuplicate(e) ==
    /\ Deliver(e)
    /\ e \in seen
    /\ UNCHANGED <<memoryVars, callVars, storeVars, rejected, torn, faults, stops>>

(* Decoding, validation, the topic check or the normalisation fails. *)
ReceiveInvalid(e) ==
    /\ Deliver(e)
    /\ e \notin seen
    /\ e \in Invalid
    /\ rejected' = rejected \cup {e}
    /\ UNCHANGED <<memoryVars, callVars, storeVars, torn, faults, stops>>

ReceiveEnvelope(e) ==
    /\ Deliver(e)
    /\ e \notin seen
    /\ e \notin Invalid
    /\ Begin("ingest", KeysOf(e))
    /\ envelope' = e
    /\ UNCHANGED <<memoryVars, storeVars, rejected, torn, faults, stops>>

(* Mutant of RefuseGroup: the refused envelope is remembered as accepted. *)
RefuseAndRemember ==
    /\ op = "ingest" /\ stage = "select"
    /\ \E k \in todo : IsFirst(k, todo) /\ ~SchemaFits(k, envelope)
    /\ seen' = seen \cup {envelope}
    /\ Return
    /\ UNCHANGED <<buffered, due, latest, storeVars, auxVars>>

(* Mutant of RefuseGroup: the batch with the old schema is discarded. *)
RefuseAndDiscard ==
    /\ op = "ingest" /\ stage = "select"
    /\ \E k \in todo :
        /\ IsFirst(k, todo)
        /\ ~SchemaFits(k, envelope)
        /\ buffered' = [buffered EXCEPT ![k] = NoRows]
        /\ due' = due \ {k}
    /\ rejected' = rejected \cup {envelope}
    /\ Return
    /\ UNCHANGED <<seen, latest, storeVars, torn, deliveries, faults, stops>>

(* push_at refuses a row whose schema differs from the buffered ones, and  *)
(* ingest_envelope gives up the groups it has not reached.                 *)
RefuseGroup ==
    /\ op = "ingest" /\ stage = "select"
    /\ \E k \in todo : IsFirst(k, todo) /\ ~SchemaFits(k, envelope)
    /\ rejected' = rejected \cup {envelope}
    /\ Return
    /\ UNCHANGED <<memoryVars, storeVars, torn, deliveries, faults, stops>>

(* push_at buffers the row and starts a flush at the row threshold. *)
PushGroup ==
    /\ op = "ingest" /\ stage = "select"
    /\ \E k \in todo :
        /\ IsFirst(k, todo)
        /\ SchemaFits(k, envelope)
        /\ buffered' = [buffered EXCEPT ![k][envelope] = @ + 1]
        /\ \/ /\ ThresholdReached(k)'
              /\ stage' = "publish"
              /\ months' = MonthsOf(RowsOf(k)')
              /\ UNCHANGED todo
           \/ /\ ~ThresholdReached(k)'
              /\ todo' = todo \ {k}
              /\ UNCHANGED <<stage, months>>
    /\ UNCHANGED <<due, seen, latest, op, envelope, reported, storeVars, auxVars>>

(* Mutant of AcceptEnvelope: the envelope is not remembered. *)
AcceptAndForget ==
    /\ op = "ingest" /\ stage = "select" /\ todo = {}
    /\ Return
    /\ UNCHANGED <<memoryVars, storeVars, auxVars>>

(* ingest_envelope returned Ok: the envelope is remembered. *)
AcceptEnvelope ==
    /\ op = "ingest" /\ stage = "select" /\ todo = {}
    /\ seen' = seen \cup {envelope}
    /\ Return
    /\ UNCHANGED <<buffered, due, latest, storeVars, auxVars>>

------------------------------------------------------------------------------
(* flush_due and shutdown_flush                                            *)

(* flush_after has elapsed since the first row of the key was buffered. *)
Elapse(k) ==
    /\ op # "down"
    /\ k \in PendingKeys \ due
    /\ due' = due \cup {k}
    /\ UNCHANGED <<buffered, seen, latest, callVars, storeVars, auxVars>>

(* Mutant of BeginTick: only full batches are swept. *)
BeginTickFullKeys ==
    /\ due # {}
    /\ Begin("tick", {k \in due : ThresholdReached(k)})
    /\ UNCHANGED <<envelope, memoryVars, storeVars, auxVars>>

BeginTick ==
    /\ due # {}
    /\ Begin("tick", due)
    /\ UNCHANGED <<envelope, memoryVars, storeVars, auxVars>>

(* Mutant of BeginDrain: only the keys that are due are drained. *)
BeginDrainDueKeys ==
    /\ stops < MaxStops
    /\ Begin("drain", due)
    /\ UNCHANGED <<envelope, memoryVars, storeVars, auxVars>>

BeginDrain ==
    /\ stops < MaxStops
    /\ Begin("drain", PendingKeys)
    /\ UNCHANGED <<envelope, memoryVars, storeVars, auxVars>>

(* The sweep takes the next key, in key order. *)
SelectKey ==
    /\ op \in {"tick", "drain"} /\ stage = "select"
    /\ \E k \in todo :
        /\ IsFirst(k, todo)
        /\ months' = MonthsOf(RowsOf(k))
    /\ stage' = "publish"
    /\ UNCHANGED <<memoryVars, op, envelope, todo, reported, storeVars, auxVars>>

------------------------------------------------------------------------------
(* flush_key and write_history_batch                                       *)

(* The part of the next month is published under a fresh name. *)
PublishPart ==
    /\ stage = "publish"
    /\ \E k \in todo, m \in months :
        /\ IsFirst(k, todo) /\ IsFirst(m, months)
        /\ copies' = [copies EXCEPT ![k] = [e \in Envelopes |->
                        @[e] + IF MonthOf[e] = m THEN buffered[k][e] ELSE 0]]
        /\ months' = months \ {m}
    /\ UNCHANGED <<memoryVars, op, stage, envelope, todo, reported, watermark, auxVars>>

(* Publication fails: the key stays buffered, parts already published by   *)
(* this flush stay published, reports already collected are dropped.       *)
(* ingest rejects the envelope, the tick is over, a drain gives up and the *)
(* process ends.  The part that fails may itself be in the store, when the *)
(* answer to an object-store PUT is lost: then its month is not among      *)
(* months any more, and no month need be left.                             *)
PublishFails ==
    /\ stage = "publish"
    /\ \E k \in todo :
        /\ IsFirst(k, todo)
        /\ faults < MaxFaults /\ faults' = faults + 1
        /\ torn' = torn \cup {<<k, e>> : e \in {r \in RowsOf(k) : MonthOf[r] \notin months}}
    /\ \/ op = "ingest" /\ rejected' = rejected \cup {envelope} /\ Return
          /\ UNCHANGED <<memoryVars, stops>>
       \/ op = "tick" /\ Return /\ UNCHANGED <<memoryVars, rejected, stops>>
       \/ op = "drain" /\ Exit /\ stops' = stops + 1 /\ UNCHANGED rejected
    /\ UNCHANGED <<storeVars, deliveries>>

(* The key leaves the buffer and its flush is reported with the largest    *)
(* timestamp of its rows.                                                  *)
FinishKey ==
    /\ \E k \in todo :
        /\ IsFirst(k, todo)
        /\ \E r \in RowsOf(k) :
            /\ \A q \in RowsOf(k) : ObservedAt[q] <= ObservedAt[r]
            /\ reported' = Larger(reported, ObservedAt[r])
        /\ buffered' = [buffered EXCEPT ![k] = NoRows]
        /\ due' = due \ {k}
        /\ todo' = todo \ {k}
    /\ stage' = IF op = "ingest" THEN "apply" ELSE "select"
    /\ UNCHANGED <<seen, latest, op, envelope, months, storeVars, auxVars>>

(* Mutant of KeyFlushed: the batch is let go before all parts are there. *)
KeyFlushedEarly == stage = "publish" /\ FinishKey

(* Every part of the key is published. *)
KeyFlushed ==
    /\ stage = "publish"
    /\ months = {}
    /\ FinishKey

------------------------------------------------------------------------------
(* apply_flushes and the watermark                                         *)

(* WatermarkStore.write either replaces the file or fails and leaves it. *)
WriteWatermark(t) ==
    \/ watermark' = t /\ UNCHANGED faults
    \/ faults < MaxFaults /\ faults' = faults + 1 /\ UNCHANGED watermark

(* The in-memory maximum moves first; a failed watermark write is only     *)
(* logged.  With no report there is nothing to write.                      *)
ApplyFlushes ==
    /\ \/ stage = "apply"
       \/ op \in {"tick", "drain"} /\ stage = "select" /\ todo = {}
    /\ latest' = Larger(latest, reported)
    /\ \/ reported # 0 /\ WriteWatermark(latest')
       \/ reported = 0 /\ UNCHANGED <<watermark, faults>>
    /\ \/ /\ op = "ingest" /\ stage' = "select" /\ reported' = 0
          /\ UNCHANGED <<op, envelope, todo, months>>
       \/ op = "tick" /\ Return
       \/ /\ op = "drain" /\ stage' = "seal" /\ reported' = 0
          /\ UNCHANGED <<op, envelope, todo, months>>
    /\ UNCHANGED <<buffered, due, seen, copies, rejected, torn, deliveries, stops>>

(* shutdown_flush writes the watermark once more before the process ends. *)
SealDrain ==
    /\ stage = "seal"
    /\ \/ latest # 0 /\ WriteWatermark(latest)
       \/ latest = 0 /\ UNCHANGED <<watermark, faults>>
    /\ Exit
    /\ stops' = stops + 1
    /\ UNCHANGED <<copies, rejected, torn, deliveries>>

------------------------------------------------------------------------------
(* The process                                                             *)

Crash ==
    /\ op # "down"
    /\ stops < MaxStops
    /\ stops' = stops + 1
    /\ Exit
    /\ UNCHANGED <<storeVars, rejected, torn, deliveries, faults>>

(* Mutant of Start: the watermark is not read back. *)
StartAfresh ==
    /\ op = "down"
    /\ op' = "idle"
    /\ UNCHANGED <<memoryVars, stage, envelope, todo, months, reported>>
    /\ UNCHANGED <<storeVars, auxVars>>

(* from_config reads the watermark back; nothing else survives. *)
Start ==
    /\ op = "down"
    /\ op' = "idle"
    /\ latest' = watermark
    /\ UNCHANGED <<buffered, due, seen, stage, envelope, todo, months, reported>>
    /\ UNCHANGED <<storeVars, auxVars>>

(* The steps of a call in progress. *)
CallStep ==
    \/ RefuseGroup
    \/ PushGroup
    \/ AcceptEnvelope
    \/ SelectKey
    \/ PublishPart
    \/ PublishFails
    \/ KeyFlushed
    \/ ApplyFlushes
    \/ SealDrain

Next ==
    \/ \E e \in Envelopes :
        \/ ReceiveDuplicate(e)
        \/ ReceiveInvalid(e)
        \/ ReceiveEnvelope(e)
    \/ \E k \in Keys : Elapse(k)
    \/ BeginTick
    \/ BeginDrain
    \/ CallStep
    \/ Crash
    \/ Start

Spec == Init /\ [][Next]_vars

(* The task runs its calls to the end, the clock advances, and the         *)
(* one-second flush tick of the ingest loop keeps firing.  Nothing is      *)
(* promised about deliveries, crashes, shutdowns or restarts.              *)
Fairness ==
    /\ WF_vars(CallStep)
    /\ \A k \in Keys : WF_vars(Elapse(k))
    /\ WF_vars(BeginTick)

FairSpec == Spec /\ Fairness
------------------------------------------------------------------------------
(* Properties                                                              *)

Stored(k, e) == copies[k][e] > 0

(* An envelope the ingest task has accepted, and would therefore drop as a *)
(* duplicate on redelivery, has every one of its rows either still         *)
(* buffered or published.  flush_key must not let go of a batch, and       *)
(* ingest_envelope must not report Ok, one row early.                      *)
AcceptedIsStored ==
    \A e \in seen : \A k \in KeysOf(e) : buffered[k][e] > 0 \/ Stored(k, e)

(* The watermark file never names a time for which no row is readable: the *)
(* AFDD scheduler ends its analysis window there.  Parts are published     *)
(* before the maximum moves, and the maximum before the file, whatever     *)
(* fails or crashes in between.                                            *)
WatermarkBacked ==
    watermark # 0 =>
        \E k \in Keys, e \in Envelopes : Stored(k, e) /\ ObservedAt[e] = watermark

(* A row is readable twice only for one of two reasons: the flush that     *)
(* first published it failed on a later month and was retried, or the      *)
(* envelope was delivered again after it had been rejected with rows       *)
(* already buffered or after the process had lost its seen_messages.       *)
DuplicateHasCause ==
    \A k \in Keys, e \in Envelopes : copies[k][e] > 1 =>
        \/ <<k, e>> \in torn
        \/ deliveries[e] > 1 /\ (e \in rejected \/ stops > 0)

(* With a working store, and before the first stop, the watermark is exact *)
(* between calls: no published row is newer than it.                       *)
WatermarkExactWithoutFaults ==
    op = "idle" /\ faults = 0 /\ stops = 0 =>
        \A k \in Keys, e \in Envelopes : Stored(k, e) => ObservedAt[e] <= watermark

(* When shutdown_flush gets as far as its last watermark write, every row  *)
(* of every envelope accepted since the start is published.                *)
DrainStoresAccepted ==
    stage = "seal" => \A e \in seen : \A k \in KeysOf(e) : Stored(k, e)

(* The watermark file never moves back, across crashes and restarts too,   *)
(* although the in-memory maximum is rebuilt from it.                      *)
WatermarkMonotone == [][watermark' >= watermark]_vars

(* Rows leave memory for the store, or the process stops: whatever failed  *)
(* for a while, the tick, the threshold and the retries suffice.           *)
EventuallyStored ==
    \A k \in Keys, e \in Envelopes :
        buffered[k][e] > 0 ~> (Stored(k, e) \/ op = "down")

(* The rows in memory and in the store behave like the write-behind store. *)
Store == INSTANCE WriteBehindStore WITH
    Row <- Keys \X Envelopes,
    volatile <- {r \in Keys \X Envelopes : buffered[r[1]][r[2]] > 0},
    durable <- {r \in Keys \X Envelopes : copies[r[1]][r[2]] > 0},
    running <- op # "down"

(* A row leaves memory only when it is readable or the process ends, only  *)
(* buffered rows become readable, and no readable row is ever withdrawn.   *)
ImplementsWriteBehindStore == Store!Spec

=============================================================================
