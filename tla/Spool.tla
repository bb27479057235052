-------------------------------- MODULE Spool --------------------------------
(***************************************************************************)
(* The fieldbus's telemetry on its way to the broker                       *)
(* (crates/openfdd_mqtt/src/spool.rs, client.rs, and the loop of           *)
(* spawn_if_configured in services/fieldbus/src/mqtt_bridge.rs).           *)
(*                                                                         *)
(* Each tick of the bridge loop stores the points of the poll as a record  *)
(* under the next sequence number, drops the oldest records over the       *)
(* limit, connects if there is no session, and hands every record on disk  *)
(* to the MQTT client.  A record is removed once the client has it: the    *)
(* client's queue is in memory, and full it makes the loop wait.           *)
(*                                                                         *)
(* The bacnet and rest envelopes of a tick are two records in turn; here   *)
(* a tick has one, of either kind.                                         *)
(***************************************************************************)
EXTENDS Naturals, Sequences, FiniteSets

CONSTANTS
    NumSamples,     \* bound: envelopes made, numbered in order
    MaxRecords,     \* records the spool keeps
    Capacity,       \* messages waiting in the client to be sent
    MaxFaults,      \* bound: failing operations on the spool
    MaxBreaks,      \* bound: broken connections
    MaxStops        \* bound: crashes, and clients that end

ASSUME SpoolAssumption ==
    /\ NumSamples \in Nat \ {0}
    /\ MaxRecords \in Nat \ {0}
    /\ Capacity \in Nat \ {0}
    /\ MaxFaults \in Nat
    /\ MaxBreaks \in Nat
    /\ MaxStops \in Nat

Samples == 1..NumSamples

(* Every record written takes a sequence number of its own. *)
Numbers == 1..NumSamples

None == 0

Torn == NumSamples + 1

VARIABLES
    taken,      \* envelopes made so far
    disk,       \* disk[k]: the record with sequence number k
    next_seq,   \* TelemetrySpool.next_seq
    phase,      \* where the bridge loop is
    todo,       \* numbers of the records listed and not yet published
    session,    \* "none", "online", "offline", or "dead": its client has ended
    queue,      \* envelopes in the client, oldest first
    sent,       \* how many of them the broker has and never confirms
    arrived,    \* envelopes the broker got, in order
    unsaved,    \* envelopes whose record was not written in full
    trimmed,    \* envelopes dropped over the limit
    abandoned,  \* envelopes in a client that ended before it sent them; the
                \* record of one may still be on disk
    kept,       \* envelopes whose record could not be removed
    faults, breaks, stops

clientVars == <<session, queue, sent, arrived>>
ghosts == <<unsaved, trimmed, abandoned, kept>>
bounds == <<faults, breaks, stops>>
vars == <<taken, disk, next_seq, phase, todo, clientVars, ghosts, bounds>>

Phases == {"sleep", "write", "trim", "connect", "list", "publish", "ack"}

TypeOK ==
    /\ taken \in 0..NumSamples
    /\ disk \in [Numbers -> 0..(NumSamples + 1)]
    /\ next_seq \in 1..(taken + 1)
    /\ phase \in Phases
    /\ todo \subseteq Numbers
    /\ session \in {"none", "online", "offline", "dead"}
    /\ queue \in Seq(Samples)
    /\ breaks = 0 => Len(queue) - sent <= Capacity
    /\ sent \in 0..Len(queue)
    /\ arrived \in Seq(Samples)
    /\ unsaved \subseteq Samples
    /\ trimmed \subseteq Samples
    /\ abandoned \subseteq Samples
    /\ kept \subseteq Samples
    /\ faults \in 0..MaxFaults
    /\ breaks \in 0..MaxBreaks
    /\ stops \in 0..MaxStops

Init ==
    /\ taken = 0
    /\ disk = [k \in Numbers |-> None]
    /\ next_seq = 1
    /\ phase = "sleep"
    /\ todo = {}
    /\ session = "none"
    /\ queue = <<>>
    /\ sent = 0
    /\ arrived = <<>>
    /\ unsaved = {}
    /\ trimmed = {}
    /\ abandoned = {}
    /\ kept = {}
    /\ faults = 0
    /\ breaks = 0
    /\ stops = 0

------------------------------------------------------------------------------
Elements(seq) == {seq[i] : i \in DOMAIN seq}

Stored == {k \in Numbers : disk[k] \in Samples}

Rank(K, k) == Cardinality({j \in K : j <= k})

(* Mutant of Oldest: the list is in descending order. *)
Newest(k) == k \in todo /\ \A j \in todo : j <= k

(* list_pending sorts the records it can read by number. *)
Oldest(k) == k \in todo /\ \A j \in todo : k <= j

Excess == {k \in Stored : Rank(Stored, k) + MaxRecords <= Cardinality(Stored)}

(* Mutant of OpensAt: as many files, as many numbers. *)
OpensAtCount(n) == n = 1 + Cardinality({k \in Numbers : disk[k] # None})

(* TelemetrySpool::open counts on from the last file, readable or not. *)
OpensAt(n) ==
    /\ \A k \in Numbers : disk[k] # None => k < n
    /\ n > 1 => disk[n - 1] # None

Contents(K) == {disk[k] : k \in K}

Remove(K) == disk' = [k \in Numbers |-> IF k \in K THEN None ELSE disk[k]]

Fault ==
    /\ faults < MaxFaults
    /\ faults' = faults + 1

------------------------------------------------------------------------------
(* The bridge loop *)

(* There are points, and an envelope is made of them; without any, the     *)
(* loop sleeps again and publishes nothing, whatever is on disk.           *)
Sample ==
    /\ phase = "sleep"
    /\ taken < NumSamples
    /\ taken' = taken + 1
    /\ phase' = "write"
    /\ UNCHANGED <<disk, next_seq, todo, clientVars, ghosts, bounds>>

WriteRecord ==
    /\ phase = "write"
    /\ disk' = [disk EXCEPT ![next_seq] = taken]
    /\ next_seq' = next_seq + 1
    /\ phase' = "trim"
    /\ UNCHANGED <<taken, todo, clientVars, ghosts, bounds>>

(* A failing write leaves an incomplete file or none.  For a bacnet        *)
(* envelope it is the end of the tick, for a rest envelope it is not.      *)
WriteFails ==
    /\ phase = "write"
    /\ Fault
    /\ \E left \in {None, Torn} : disk' = [disk EXCEPT ![next_seq] = left]
    /\ next_seq' = next_seq + 1
    /\ unsaved' = unsaved \cup {taken}
    /\ phase' \in {"sleep", "connect"}
    /\ UNCHANGED <<taken, todo, clientVars, trimmed, abandoned, kept, breaks, stops>>

Trim ==
    /\ phase = "trim"
    /\ Remove(Excess)
    /\ trimmed' = trimmed \cup Contents(Excess)
    /\ phase' = "connect"
    /\ UNCHANGED <<taken, next_seq, todo, clientVars, unsaved, abandoned, kept, bounds>>

(* Listing or a removal fails; the oldest records may be gone by then. *)
TrimFails ==
    /\ phase = "trim"
    /\ Fault
    /\ \E gone \in SUBSET Excess :
        /\ \A k \in gone, j \in Excess : j < k => j \in gone
        /\ Remove(gone)
        /\ trimmed' = trimmed \cup Contents(gone)
    /\ phase' \in {"sleep", "connect"}
    /\ UNCHANGED <<taken, next_seq, todo, clientVars, unsaved, abandoned, kept, breaks, stops>>

KeepSession ==
    /\ phase = "connect"
    /\ session # "none"
    /\ phase' = "list"
    /\ UNCHANGED <<taken, disk, next_seq, todo, clientVars, ghosts, bounds>>

(* A client needs no broker to start, and connects when it can. *)
Connect ==
    /\ phase = "connect"
    /\ session = "none"
    /\ session' = "offline"
    /\ phase' = "list"
    /\ UNCHANGED <<taken, disk, next_seq, todo, queue, sent, arrived, ghosts, bounds>>

(* A certificate cannot be read: the next tick tries again. *)
ConnectFails ==
    /\ phase = "connect"
    /\ session = "none"
    /\ phase' = "sleep"
    /\ UNCHANGED <<taken, disk, next_seq, todo, clientVars, ghosts, bounds>>

List ==
    /\ phase = "list"
    /\ todo' = Stored
    /\ phase' = "publish"
    /\ UNCHANGED <<taken, disk, next_seq, clientVars, ghosts, bounds>>

ListFails ==
    /\ phase = "list"
    /\ Fault
    /\ phase' = "sleep"
    /\ UNCHANGED <<taken, disk, next_seq, todo, clientVars, ghosts, breaks, stops>>

(* publish().await waits while the queue is full; what the broker was sent *)
(* and has not confirmed takes no room in it.                              *)
PublishRecord ==
    /\ phase = "publish"
    /\ session \in {"online", "offline"}
    /\ Len(queue) - sent < Capacity
    /\ \E k \in todo : Oldest(k) /\ queue' = Append(queue, disk[k])
    /\ phase' = "ack"
    /\ UNCHANGED <<taken, disk, next_seq, todo, session, sent, arrived, ghosts, bounds>>

PublishFails ==
    /\ phase = "publish"
    /\ todo # {}
    /\ session = "dead"
    /\ session' = "none"
    /\ todo' = {}
    /\ phase' = "sleep"
    /\ UNCHANGED <<taken, disk, next_seq, queue, sent, arrived, ghosts, bounds>>

(* Mutant of AckRecord: the rest of the list is left for the next tick. *)
AckOnlyRecord ==
    /\ phase = "ack"
    /\ \E k \in todo : Oldest(k) /\ Remove({k})
    /\ todo' = {}
    /\ phase' = "publish"
    /\ UNCHANGED <<taken, next_seq, clientVars, ghosts, bounds>>

(* Mutant of AckRecord: the name is built in another way than it was for  *)
(* the file, and there is nothing to remove.                               *)
AckUnpadded ==
    /\ phase = "ack"
    /\ \E k \in todo : Oldest(k) /\ todo' = todo \ {k}
    /\ phase' = "publish"
    /\ UNCHANGED <<taken, disk, next_seq, clientVars, ghosts, bounds>>

AckRecord ==
    /\ phase = "ack"
    /\ \E k \in todo : Oldest(k) /\ Remove({k}) /\ todo' = todo \ {k}
    /\ phase' = "publish"
    /\ UNCHANGED <<taken, next_seq, clientVars, ghosts, bounds>>

(* A record that cannot be removed is published again at the next tick. *)
AckFails ==
    /\ phase = "ack"
    /\ Fault
    /\ \E k \in todo : Oldest(k) /\ kept' = kept \cup {disk[k]} /\ todo' = todo \ {k}
    /\ phase' = "publish"
    /\ UNCHANGED <<taken, disk, next_seq, clientVars, unsaved, trimmed, abandoned,
                   breaks, stops>>

EndTick ==
    /\ phase = "publish"
    /\ todo = {}
    /\ phase' = "sleep"
    /\ UNCHANGED <<taken, disk, next_seq, todo, clientVars, ghosts, bounds>>

------------------------------------------------------------------------------
(* The client *)

(* The broker gets the next envelope of the queue.  It confirms in order:  *)
(* either this one is confirmed and leaves the queue, or this one and      *)
(* those after it are not before the connection breaks.                    *)
Send ==
    /\ session = "online"
    /\ sent < Len(queue)
    /\ \/ sent = 0 /\ queue' = Tail(queue) /\ UNCHANGED sent
       \/ breaks < MaxBreaks /\ sent' = sent + 1 /\ UNCHANGED queue
    /\ arrived' = Append(arrived, queue[sent + 1])
    /\ UNCHANGED <<taken, disk, next_seq, phase, todo, session, ghosts, bounds>>

Break ==
    /\ session = "online"
    /\ breaks < MaxBreaks
    /\ breaks' = breaks + 1
    /\ session' = "offline"
    /\ sent' = 0
    /\ UNCHANGED <<taken, disk, next_seq, phase, todo, queue, arrived, ghosts,
                   faults, stops>>

Reconnect ==
    /\ session = "offline"
    /\ session' = "online"
    /\ UNCHANGED <<taken, disk, next_seq, phase, todo, queue, sent, arrived, ghosts, bounds>>

LoseQueue ==
    /\ stops < MaxStops
    /\ stops' = stops + 1
    /\ abandoned' = abandoned \cup (Elements(queue) \ Elements(arrived))
    /\ queue' = <<>>
    /\ sent' = 0

(* The command loop panics; nobody takes the client's events any more, and *)
(* it ends with what it holds.                                             *)
ClientEnds ==
    /\ session \in {"online", "offline"}
    /\ LoseQueue
    /\ session' = "dead"
    /\ UNCHANGED <<taken, disk, next_seq, phase, todo, arrived, unsaved, trimmed, kept,
                   faults, breaks>>

(* The process dies, and is started again. *)
Crash ==
    /\ LoseQueue
    /\ session' = "none"
    /\ IF phase = "write"
       THEN /\ \E left \in {None, Torn} : disk' = [disk EXCEPT ![next_seq] = left]
            /\ unsaved' = unsaved \cup {taken}
       ELSE UNCHANGED <<disk, unsaved>>
    /\ \E n \in 1..(NumSamples + 1) : OpensAt(n)' /\ next_seq' = n
    /\ phase' = "sleep"
    /\ todo' = {}
    /\ UNCHANGED <<taken, arrived, trimmed, kept, faults, breaks>>

LoopStep ==
    \/ WriteRecord \/ WriteFails \/ Trim \/ TrimFails
    \/ KeepSession \/ Connect \/ ConnectFails \/ List \/ ListFails
    \/ PublishRecord \/ PublishFails \/ AckRecord \/ AckFails \/ EndTick

Next == Sample \/ LoopStep \/ Send \/ Break \/ Reconnect \/ ClientEnds \/ Crash

Spec == Init /\ [][Next]_vars

(* The loop goes on; the client reconnects and sends. *)
Fairness == WF_vars(LoopStep) /\ WF_vars(Send) /\ WF_vars(Reconnect)

FairSpec == Spec /\ Fairness
------------------------------------------------------------------------------
(* Properties                                                              *)

Somewhere(n) == n \in Contents(Numbers) \cup Elements(queue) \cup Elements(arrived)

HasCause ==
    \A n \in 1..taken :
        \/ n = taken /\ phase = "write"
        \/ Somewhere(n)
        \/ n \in unsaved \cup trimmed \cup abandoned

OldestTrimmed == \A n \in trimmed : n + MaxRecords <= taken

(* No envelope disappears unnoticed: one that was made is on disk, in the  *)
(* client or with the broker, or it was not written, dropped over the      *)
(* limit, or in a client that ended.  Restarts between any two steps and   *)
(* files they leave half written make no other victims; and the limit      *)
(* takes an envelope only when there are MaxRecords newer ones, whatever   *)
(* numbers their records have.                                             *)
LossHasCause == HasCause /\ OldestTrimmed

(* The broker sees the envelopes in the order they were made in, as far as *)
(* it had not seen them before, across restarts of the sequence numbers    *)
(* and records that stay behind.                                           *)
ArrivesInOrder ==
    \A j \in DOMAIN arrived :
        LET before == {arrived[i] : i \in 1..(j - 1)}
        IN  arrived[j] \in before \/ \A n \in before : n < arrived[j]

(* An envelope reaches the broker twice only if its record could not be    *)
(* removed, or something broke or stopped between.                         *)
DuplicateHasCause ==
    \A i, j \in DOMAIN arrived :
        (i # j /\ arrived[i] = arrived[j]) =>
            arrived[i] \in kept \/ breaks > 0 \/ stops > 0

(* What is on disk when the loop starts to publish reaches the broker,     *)
(* through any number of full queues and reconnections, unless a file      *)
(* operation fails or the process or its client stops.                     *)
TickDrains ==
    \A n \in Samples :
        (phase = "list" /\ n \in Contents(Numbers)) ~>
            (n \in Elements(arrived) \/ faults > 0 \/ stops > 0)

(* "Disk-backed outbound telemetry spool for offline edges": an envelope    *)
(* that was stored, and that the limit has not taken, is on disk until the *)
(* broker has it or a living client holds it.                              *)
NothingLost ==
    \A n \in 1..taken :
        \/ n = taken /\ phase = "write"
        \/ Somewhere(n)
        \/ n \in unsaved \cup trimmed
=============================================================================
