------------------------------ MODULE Spool_proofs ------------------------------
EXTENDS Spool, FiniteSetTheorems, SequenceTheorems, TLAPS

Reached == Elements(arrived) \cup Elements(queue)

Live == session \in {"online", "offline"}

LoopOK ==
    /\ todo \subseteq Stored
    /\ phase \notin {"publish", "ack"} => todo = {}
    /\ phase = "write" => next_seq <= taken

(* Records come under growing numbers, and every envelope made is new. *)
DiskOK ==
    /\ \A k \in Numbers : k >= next_seq => disk[k] = None
    /\ \A j, k \in Stored : j < k => disk[j] < disk[k]
    /\ \A n \in Reached \cup {disk[k] : k \in Stored} :
        n <= taken /\ (phase = "write" => n < taken)

(* The record about to be removed has been handed to the client. *)
AckOK == phase = "ack" => \A k \in todo : Oldest(k) => disk[k] \in Reached \cup abandoned

(* While the client lives, what is not left on the list it has had. *)
ListOK ==
    (phase \in {"publish", "ack"} /\ Live) =>
        \A k \in Stored :
            (k \notin todo \/ (phase = "ack" /\ Oldest(k))) => disk[k] \in Reached

(* What is on disk and has not been handed over is newer than all that has. *)
AheadOK == \A k \in Stored : disk[k] \in Reached \/ \A n \in Reached : n < disk[k]

(* What the broker has not got yet is newer than all it has, and comes in  *)
(* order; what was sent and not confirmed it has.                          *)
QueueOK ==
    /\ \A i \in 1..sent : queue[i] \in Elements(arrived)
    /\ \A i \in 1..Len(queue) :
        queue[i] \in Elements(arrived) \/ \A n \in Elements(arrived) : n < queue[i]
    /\ \A i \in 1..Len(queue) : \A j \in 1..i :
        \/ queue[i] \in Elements(arrived)
        \/ queue[j] < queue[i]
        \/ \E h \in 1..j : queue[h] = queue[i]

(* Nothing has broken or stopped: an envelope is handed over again only if *)
(* its record could not be removed.                                        *)
CopiesHere ==
    /\ session # "dead"
    /\ \A k \in Stored :
        disk[k] \in Reached => disk[k] \in kept \/ (phase = "ack" /\ Oldest(k))
    /\ \A i \in (sent + 1)..Len(queue) : queue[i] \in Elements(arrived) => queue[i] \in kept
    /\ \A i, j \in (sent + 1)..Len(queue) :
        (i # j /\ queue[i] = queue[j]) => queue[i] \in kept
    /\ \A i, j \in 1..Len(arrived) :
        (i # j /\ arrived[i] = arrived[j]) => arrived[i] \in kept

CopiesOK == (breaks = 0 /\ stops = 0) => CopiesHere

IInv ==
    /\ TypeOK /\ LoopOK /\ DiskOK /\ AckOK /\ ListOK /\ AheadOK /\ QueueOK /\ CopiesOK
    /\ HasCause /\ OldestTrimmed /\ ArrivesInOrder
------------------------------------------------------------------------------
(* Sequences and types *)

LEMMA Appended ==
    ASSUME NEW S, NEW s \in Seq(S), NEW e \in S
    PROVE  /\ Append(s, e) \in Seq(S)
           /\ Len(Append(s, e)) = Len(s) + 1
           /\ Append(s, e)[Len(s) + 1] = e
           /\ \A i \in 1..Len(s) : Append(s, e)[i] = s[i]
           /\ Elements(Append(s, e)) = Elements(s) \cup {e}
<1>1. /\ Append(s, e) \in Seq(S)
      /\ Len(Append(s, e)) = Len(s) + 1
      /\ Append(s, e)[Len(s) + 1] = e
      /\ \A i \in 1..Len(s) : Append(s, e)[i] = s[i]
  OBVIOUS
<1>2. /\ DOMAIN s = 1..Len(s) /\ DOMAIN Append(s, e) = 1..(Len(s) + 1)
      /\ Len(s) \in Nat
  BY <1>1
<1>3. ASSUME NEW x \in Elements(Append(s, e))  PROVE  x \in Elements(s) \cup {e}
  <2>1. PICK i \in 1..(Len(s) + 1) : x = Append(s, e)[i]
    BY <1>2 DEF Elements
  <2>2. CASE i = Len(s) + 1
    BY <1>1, <2>1, <2>2
  <2>3. CASE i # Len(s) + 1
    <3>1. i \in 1..Len(s)
      BY <1>2, <2>3
    <3>2. x = s[i]
      BY <1>1, <2>1, <3>1
    <3> QED BY <1>2, <3>1, <3>2 DEF Elements
  <2> QED BY <2>2, <2>3
<1>4. ASSUME NEW x \in Elements(s)  PROVE  x \in Elements(Append(s, e))
  <2>1. PICK i \in 1..Len(s) : x = s[i]
    BY <1>2 DEF Elements
  <2>2. i \in 1..(Len(s) + 1)
    BY <1>2
  <2> QED BY <1>1, <1>2, <2>1, <2>2 DEF Elements
<1>5. e \in Elements(Append(s, e))
  <2>1. Len(s) + 1 \in 1..(Len(s) + 1)
    BY <1>2
  <2> QED BY <1>1, <1>2, <2>1 DEF Elements
<1> QED BY <1>1, <1>3, <1>4, <1>5

LEMMA Counted ==
    ASSUME NEW n \in Nat, NEW i \in 0..n, i < n
    PROVE  i + 1 \in 0..n
  OBVIOUS

LEMMA Shifted ==
    ASSUME NEW a \in Nat, NEW b \in Nat, NEW c \in Nat, NEW e \in Nat, NEW d \in {0, 1},
           NEW m \in Nat, b + d = a + 1, e + d = c, c - a <= m
    PROVE  e - b <= m
  OBVIOUS

LEMMA ShiftedIndex ==
    ASSUME NEW a \in Nat, NEW b \in Nat, NEW d \in {0, 1},
           b + d = a + 1, d = 1 => a = 0, NEW i \in 1..b
    PROVE  i + d \in 1..(a + 1)
  OBVIOUS

LEMMA ShiftedTail ==
    ASSUME NEW a \in Nat, NEW b \in Nat, NEW c \in Nat, NEW e \in Nat, NEW d \in {0, 1},
           b + d = a + 1, e + d = c, NEW i \in (b + 1)..e
    PROVE  i + d \in (a + 2)..c
  OBVIOUS

LEMMA TailIndex ==
    ASSUME NEW a \in Nat, NEW e \in Nat, NEW i \in (a + 1)..e
    PROVE  i \in 1..e /\ i \in Nat
  OBVIOUS

LEMMA Typed ==
    ASSUME TypeOK
    PROVE  /\ queue \in Seq(Samples) /\ Len(queue) \in Nat /\ DOMAIN queue = 1..Len(queue)
           /\ \A i \in 1..Len(queue) : queue[i] \in Samples /\ queue[i] \in Elements(queue)
           /\ \A x \in Elements(queue) : \E i \in 1..Len(queue) : x = queue[i]
           /\ arrived \in Seq(Samples) /\ Len(arrived) \in Nat
           /\ DOMAIN arrived = 1..Len(arrived)
           /\ \A i \in 1..Len(arrived) : arrived[i] \in Samples /\ arrived[i] \in Elements(arrived)
           /\ \A x \in Elements(arrived) : \E i \in 1..Len(arrived) : x = arrived[i]
           /\ Reached \subseteq Samples
           /\ sent \in 0..Len(queue)
<1>1. queue \in Seq(Samples) /\ arrived \in Seq(Samples) /\ sent \in 0..Len(queue)
  BY DEF TypeOK
<1>2. /\ Len(queue) \in Nat /\ DOMAIN queue = 1..Len(queue)
      /\ Len(arrived) \in Nat /\ DOMAIN arrived = 1..Len(arrived)
      /\ \A i \in 1..Len(queue) : queue[i] \in Samples
      /\ \A i \in 1..Len(arrived) : arrived[i] \in Samples
  BY <1>1
<1> QED BY <1>1, <1>2 DEF Elements, Reached

LEMMA Numbered ==
    ASSUME TypeOK
    PROVE  /\ NumSamples \in Nat \ {0}
           /\ taken \in 0..NumSamples
           /\ next_seq \in 1..(taken + 1)
           /\ None \notin Samples /\ Torn \notin Samples
           /\ Stored \subseteq Numbers
           /\ \A k \in Stored : disk[k] \in Samples
  BY SpoolAssumption DEF TypeOK, Samples, None, Torn, Stored

(* The next envelope goes to the broker: what was at position i + d of the *)
(* queue is now at position i.                                             *)
LEMMA Sends ==
    ASSUME TypeOK, Send
    PROVE  /\ sent + 1 \in 1..Len(queue)
           /\ queue[sent + 1] \in Samples
           /\ arrived' \in Seq(Samples)
           /\ Len(arrived') = Len(arrived) + 1
           /\ arrived'[Len(arrived) + 1] = queue[sent + 1]
           /\ \A i \in 1..Len(arrived) : arrived'[i] = arrived[i]
           /\ Elements(arrived') = Elements(arrived) \cup {queue[sent + 1]}
           /\ queue' \in Seq(Samples)
           /\ sent' \in 0..Len(queue')
           /\ \E d \in {0, 1} :
                /\ sent' + d = sent + 1
                /\ Len(queue') + d = Len(queue)
                /\ \A i \in 1..Len(queue') : queue'[i] = queue[i + d]
                /\ d = 1 => sent = 0
           /\ Reached' = Reached
<1>1. sent + 1 \in 1..Len(queue) /\ sent \in Nat /\ Len(queue) \in Nat
  BY Typed DEF Send
<1>2. queue[sent + 1] \in Samples /\ queue[sent + 1] \in Elements(queue)
  BY <1>1, Typed
<1>3. arrived' = Append(arrived, queue[sent + 1])
  BY DEF Send
<1>4. /\ arrived' \in Seq(Samples)
      /\ Len(arrived') = Len(arrived) + 1
      /\ arrived'[Len(arrived) + 1] = queue[sent + 1]
      /\ \A i \in 1..Len(arrived) : arrived'[i] = arrived[i]
      /\ Elements(arrived') = Elements(arrived) \cup {queue[sent + 1]}
  <2>1. arrived \in Seq(Samples)
    BY Typed
  <2> QED BY <1>2, <1>3, <2>1, Appended
<1>5. CASE sent = 0 /\ queue' = Tail(queue) /\ sent' = sent
  <2>1. /\ queue' \in Seq(Samples) /\ Len(queue') + 1 = Len(queue)
        /\ \A i \in 1..Len(queue') : queue'[i] = queue[i + 1]
    <3>1. queue \in Seq(Samples) /\ queue # <<>>
      BY <1>1, Typed
    <3> QED BY <1>5, <3>1
  <2>2. sent' \in 0..Len(queue')
    BY <1>1, <1>5, <2>1
  <2>3. Elements(queue') \subseteq Elements(queue)
    <3>1. DOMAIN queue' = 1..Len(queue') /\ DOMAIN queue = 1..Len(queue) /\ Len(queue') \in Nat
      BY <2>1, Typed
    <3>2. \A i \in 1..Len(queue') : i + 1 \in 1..Len(queue)
      BY <2>1, <3>1
    <3> QED BY <2>1, <3>1, <3>2 DEF Elements
  <2>4. ASSUME NEW x \in Elements(queue)  PROVE  x \in Elements(queue') \cup {queue[sent + 1]}
    <3>1. PICK i \in 1..Len(queue) : x = queue[i]
      BY Typed
    <3>2. CASE i = 1
      BY <1>5, <3>1, <3>2
    <3>3. CASE i # 1
      <4>1. i - 1 \in 1..Len(queue') /\ (i - 1) + 1 = i /\ DOMAIN queue' = 1..Len(queue')
        BY <1>1, <2>1, <3>3
      <4>2. queue'[i - 1] = queue[i]
        BY <2>1, <4>1
      <4> QED BY <3>1, <4>1, <4>2 DEF Elements
    <3> QED BY <3>2, <3>3
  <2>5. Reached' = Reached
    BY <1>2, <1>4, <2>3, <2>4 DEF Reached, Elements
  <2>6. sent' + 1 = sent + 1
    BY <1>5
  <2> QED BY <1>1, <1>2, <1>4, <1>5, <2>1, <2>2, <2>5, <2>6
<1>6. CASE sent' = sent + 1 /\ queue' = queue
  <2>1. queue' \in Seq(Samples) /\ sent' \in 0..Len(queue')
    BY <1>1, <1>6, Typed
  <2>2. Reached' = Reached
    BY <1>2, <1>4, <1>6 DEF Reached, Elements
  <2>3. sent' + 0 = sent + 1 /\ Len(queue') + 0 = Len(queue)
    BY <1>1, <1>6
  <2>4. \A i \in 1..Len(queue') : queue'[i] = queue[i + 0]
    BY <1>6
  <2>5. \E d \in {0, 1} :
            /\ sent' + d = sent + 1
            /\ Len(queue') + d = Len(queue)
            /\ \A i \in 1..Len(queue') : queue'[i] = queue[i + d]
            /\ d = 1 => sent = 0
    BY <2>3, <2>4
  <2> QED BY <1>1, <1>2, <1>4, <2>1, <2>2, <2>5
<1> QED BY <1>5, <1>6 DEF Send

(* A record is handed to the client. *)
LEMMA Publishes ==
    ASSUME TypeOK, LoopOK, PublishRecord
    PROVE  \E k \in Stored :
            /\ k \in todo /\ Oldest(k)
            /\ queue' \in Seq(Samples)
            /\ Len(queue') = Len(queue) + 1
            /\ queue'[Len(queue) + 1] = disk[k]
            /\ \A i \in 1..Len(queue) : queue'[i] = queue[i]
            /\ Elements(queue') = Elements(queue) \cup {disk[k]}
            /\ Reached' = Reached \cup {disk[k]}
<1>1. PICK k \in todo : Oldest(k) /\ queue' = Append(queue, disk[k])
  BY DEF PublishRecord
<1>2. k \in Stored /\ disk[k] \in Samples
  BY Numbered DEF LoopOK
<1>3. queue \in Seq(Samples)
  BY Typed
<1>4. /\ queue' \in Seq(Samples)
      /\ Len(queue') = Len(queue) + 1
      /\ queue'[Len(queue) + 1] = disk[k]
      /\ \A i \in 1..Len(queue) : queue'[i] = queue[i]
      /\ Elements(queue') = Elements(queue) \cup {disk[k]}
  BY <1>1, <1>2, <1>3, Appended
<1>5. Reached' = Reached \cup {disk[k]}
  BY <1>4 DEF PublishRecord, Reached, Elements
<1> QED BY <1>1, <1>2, <1>4, <1>5

LEMMA OneOldest ==
    ASSUME TypeOK, NEW k \in todo, NEW j \in todo, Oldest(k), Oldest(j)
    PROVE  k = j
<1>1. k \in Nat /\ j \in Nat /\ k <= j /\ j <= k
  BY DEF TypeOK, Numbers, Oldest
<1> QED BY <1>1

(* No step but the writing of a record adds one. *)
Shrinks == \A k \in Stored' : k \in Stored /\ disk'[k] = disk[k]

LEMMA Removed ==
    ASSUME TypeOK, NEW K \in SUBSET Numbers, Remove(K)
    PROVE  /\ disk' \in [Numbers -> 0..(NumSamples + 1)]
           /\ Stored' = Stored \ K
           /\ Shrinks
           /\ \A k \in Numbers : disk'[k] = None \/ disk'[k] = disk[k]
           /\ \A k \in Numbers \ K : disk'[k] = disk[k]
<1>1. /\ \A k \in K : disk'[k] = None
      /\ \A k \in Numbers \ K : disk'[k] = disk[k]
  BY DEF Remove
<1>2. NumSamples \in Nat /\ None \in 0..(NumSamples + 1) /\ None \notin Samples
  BY SpoolAssumption DEF None, Samples
<1>3. disk' \in [Numbers -> 0..(NumSamples + 1)]
  BY <1>2 DEF Remove, TypeOK
<1>4. Stored' = Stored \ K
  BY <1>1, <1>2 DEF Stored
<1> QED BY <1>1, <1>3, <1>4 DEF Shrinks, Stored

LEMMA NotWritten ==
    ASSUME TypeOK, NEW left \in {None, Torn}, disk' = [disk EXCEPT ![next_seq] = left]
    PROVE  /\ disk' \in [Numbers -> 0..(NumSamples + 1)]
           /\ Shrinks
           /\ \A k \in Numbers : k # next_seq => disk'[k] = disk[k]
<1>1. left \in 0..(NumSamples + 1) /\ left \notin Samples
  BY SpoolAssumption DEF None, Torn, Samples
<1> QED BY <1>1 DEF TypeOK, Shrinks, Stored

LEMMA ShrinksOrWrites ==
    ASSUME TypeOK, Next
    PROVE  Shrinks \/ WriteRecord
<1> USE DEF clientVars, ghosts, bounds
<1>1. disk' = disk => Shrinks
  BY DEF Shrinks, Stored
<1>2. CASE WriteFails
  BY <1>2, NotWritten DEF WriteFails
<1>3. CASE Trim
  BY <1>3, Removed DEF Trim, Excess, Stored
<1>4. CASE TrimFails
  BY <1>4, Removed DEF TrimFails, Excess, Stored
<1>5. CASE AckRecord
  <2>1. PICK k \in todo : Remove({k})
    BY <1>5 DEF AckRecord
  <2>2. {k} \in SUBSET Numbers
    BY DEF TypeOK
  <2> QED BY <2>1, <2>2, Removed
<1>6. CASE Crash
  <2>1. CASE phase = "write"
    BY <1>6, <2>1, NotWritten DEF Crash
  <2>2. CASE phase # "write"
    BY <1>1, <1>6, <2>2 DEF Crash
  <2> QED BY <2>1, <2>2
<1>7. CASE Sample \/ KeepSession \/ Connect \/ ConnectFails \/ List \/ ListFails
  BY <1>1, <1>7 DEF Sample, KeepSession, Connect, ConnectFails, List, ListFails
<1>8. CASE PublishRecord \/ PublishFails \/ AckFails \/ EndTick
  BY <1>1, <1>8 DEF PublishRecord, PublishFails, AckFails, EndTick
<1>9. CASE Send \/ Break \/ Reconnect \/ ClientEnds
  BY <1>1, <1>9 DEF Send, Break, Reconnect, ClientEnds
<1> QED BY <1>2, <1>3, <1>4, <1>5, <1>6, <1>7, <1>8, <1>9 DEF Next, LoopStep

(* What has reached the client changes in two ways only. *)
LEMMA ReachedKept ==
    ASSUME TypeOK, Next
    PROVE  \/ Reached' = Reached
           \/ PublishRecord
           \/ LoseQueue /\ Reached' = Elements(arrived) /\ arrived' = arrived
<1> USE DEF clientVars
<1>1. UNCHANGED <<queue, arrived>> => Reached' = Reached
  BY DEF Reached, Elements
<1>2. CASE Sample \/ WriteRecord \/ WriteFails \/ Trim \/ TrimFails \/ KeepSession
  BY <1>1, <1>2 DEF Sample, WriteRecord, WriteFails, Trim, TrimFails, KeepSession
<1>3. CASE Connect \/ ConnectFails \/ List \/ ListFails
  BY <1>1, <1>3 DEF Connect, ConnectFails, List, ListFails
<1>4. CASE PublishFails \/ AckRecord \/ AckFails \/ EndTick
  BY <1>1, <1>4 DEF PublishFails, AckRecord, AckFails, EndTick
<1>5. CASE Break \/ Reconnect
  BY <1>1, <1>5 DEF Break, Reconnect
<1>6. CASE Send
  BY <1>6, Sends
<1>7. CASE ClientEnds \/ Crash
  BY <1>7 DEF ClientEnds, Crash, LoseQueue, Reached, Elements
<1> QED BY <1>2, <1>3, <1>4, <1>5, <1>6, <1>7 DEF Next, LoopStep
------------------------------------------------------------------------------
LEMMA Initially == Init => IInv
<1> SUFFICES ASSUME Init PROVE IInv
  OBVIOUS
<1>1. disk = [k \in Numbers |-> 0] /\ Stored = {} /\ Reached = {}
  BY DEF Init, None, Stored, Samples, Reached, Elements
<1>2. TypeOK
  <2>1. /\ 0 \in 0..NumSamples /\ 1 \in 1..(taken + 1) /\ 0 \in 0..MaxFaults
        /\ 0 \in 0..MaxBreaks /\ 0 \in 0..MaxStops /\ 0 \in 0..Len(<<>>)
        /\ Len(<<>>) - 0 <= Capacity
    BY SpoolAssumption DEF Init
  <2>2. disk \in [Numbers -> 0..(NumSamples + 1)]
    BY <1>1, SpoolAssumption
  <2> QED BY <2>1, <2>2 DEF Init, TypeOK, Phases
<1>3. LoopOK /\ DiskOK /\ AckOK /\ ListOK /\ AheadOK
  BY <1>1 DEF Init, LoopOK, DiskOK, AckOK, ListOK, AheadOK, None
<1>4. QueueOK /\ CopiesOK /\ ArrivesInOrder /\ HasCause /\ OldestTrimmed
  BY <1>1 DEF Init, QueueOK, CopiesOK, CopiesHere, ArrivesInOrder, HasCause, OldestTrimmed
<1> QED BY <1>2, <1>3, <1>4 DEF IInv
------------------------------------------------------------------------------
(* Types *)

LEMMA FaultTyped ==
    ASSUME TypeOK, Fault
    PROVE  faults' \in 0..MaxFaults
  BY SpoolAssumption, Counted DEF TypeOK, Fault

LEMMA LoopTyped ==
    ASSUME TypeOK, LoopOK, DiskOK, Sample \/ LoopStep
    PROVE  TypeOK'
<1> USE DEF clientVars, ghosts, bounds
<1>1. CASE Sample
  <2>1. taken + 1 \in 0..NumSamples /\ next_seq \in 1..(taken + 1 + 1)
    BY <1>1, Numbered DEF Sample
  <2> QED BY <1>1, <2>1 DEF TypeOK, Sample, Phases
<1>2. CASE WriteRecord
  <2>1. /\ next_seq <= taken /\ next_seq + 1 \in 1..(taken + 1)
        /\ taken \in 0..(NumSamples + 1)
    BY <1>2, Numbered DEF WriteRecord, LoopOK
  <2>2. disk' \in [Numbers -> 0..(NumSamples + 1)]
    BY <1>2, <2>1 DEF TypeOK, WriteRecord
  <2> QED BY <1>2, <2>1, <2>2 DEF TypeOK, WriteRecord, Phases
<1>3. CASE WriteFails
  <2>1. /\ next_seq <= taken /\ next_seq + 1 \in 1..(taken + 1) /\ taken \in Samples
    BY <1>3, Numbered DEF WriteFails, LoopOK, Samples
  <2>2. disk' \in [Numbers -> 0..(NumSamples + 1)]
    BY <1>3, NotWritten DEF WriteFails
  <2>3. faults' \in 0..MaxFaults
    BY <1>3, FaultTyped DEF WriteFails
  <2> QED BY <1>3, <2>1, <2>2, <2>3 DEF TypeOK, WriteFails, Phases
<1>4. ASSUME NEW K \in SUBSET Stored  PROVE  Contents(K) \subseteq Samples
  BY Numbered DEF Contents
<1>5. CASE Trim
  <2>1. Excess \in SUBSET Stored /\ Excess \in SUBSET Numbers
    BY DEF Excess, Stored
  <2>2. disk' \in [Numbers -> 0..(NumSamples + 1)]
    BY <1>5, <2>1, Removed DEF Trim
  <2>3. Contents(Excess) \subseteq Samples
    BY <1>4, <2>1
  <2> QED BY <1>5, <2>2, <2>3 DEF TypeOK, Trim, Phases
<1>6. CASE TrimFails
  <2>1. PICK gone \in SUBSET Excess : Remove(gone) /\ trimmed' = trimmed \cup Contents(gone)
    BY <1>6 DEF TrimFails
  <2>2. gone \in SUBSET Stored /\ gone \in SUBSET Numbers
    BY DEF Excess, Stored
  <2>3. disk' \in [Numbers -> 0..(NumSamples + 1)]
    BY <2>1, <2>2, Removed
  <2>4. Contents(gone) \subseteq Samples
    BY <1>4, <2>2
  <2>5. faults' \in 0..MaxFaults
    BY <1>6, FaultTyped DEF TrimFails
  <2> QED BY <1>6, <2>1, <2>3, <2>4, <2>5 DEF TypeOK, TrimFails, Phases
<1>7. CASE KeepSession \/ Connect \/ ConnectFails \/ EndTick
  BY <1>7 DEF TypeOK, KeepSession, Connect, ConnectFails, EndTick, Phases
<1>8. CASE List
  BY <1>8, Numbered DEF TypeOK, List, Phases
<1>9. CASE ListFails
  BY <1>9, FaultTyped DEF TypeOK, ListFails, Phases
<1>10. CASE PublishRecord
  <2>1. /\ queue' \in Seq(Samples) /\ Len(queue') = Len(queue) + 1 /\ sent' = sent
        /\ Len(queue) - sent < Capacity
    BY <1>10, Publishes DEF PublishRecord
  <2>2. sent' \in 0..Len(queue') /\ Len(queue') - sent' <= Capacity
    BY <2>1, SpoolAssumption, Typed
  <2> QED BY <1>10, <2>1, <2>2 DEF TypeOK, PublishRecord, Phases
<1>11. CASE PublishFails
  BY <1>11 DEF TypeOK, PublishFails, Phases
<1>12. CASE AckRecord
  <2>1. PICK k \in todo : Remove({k}) /\ todo' = todo \ {k}
    BY <1>12 DEF AckRecord
  <2>2. {k} \in SUBSET Numbers
    BY DEF TypeOK
  <2>3. disk' \in [Numbers -> 0..(NumSamples + 1)]
    BY <2>1, <2>2, Removed
  <2> QED BY <1>12, <2>1, <2>3 DEF TypeOK, AckRecord, Phases
<1>13. CASE AckFails
  <2>1. PICK k \in todo : kept' = kept \cup {disk[k]} /\ todo' = todo \ {k}
    BY <1>13 DEF AckFails
  <2>2. disk[k] \in Samples
    BY Numbered DEF LoopOK
  <2>3. faults' \in 0..MaxFaults
    BY <1>13, FaultTyped DEF AckFails
  <2> QED BY <1>13, <2>1, <2>2, <2>3 DEF TypeOK, AckFails, Phases
<1> QED BY <1>1, <1>2, <1>3, <1>5, <1>6, <1>7, <1>8, <1>9, <1>10, <1>11, <1>12, <1>13
        DEF LoopStep

(* A restart counts on from the last file, which was written under a       *)
(* number below the old one, or under that one for the newest envelope.    *)
LEMMA CountsOn ==
    ASSUME TypeOK, LoopOK, DiskOK, Crash
    PROVE  /\ next_seq' \in 1..(taken' + 1)
           /\ \A k \in Numbers : k >= next_seq' => disk'[k] = None
           /\ disk' \in [Numbers -> 0..(NumSamples + 1)]
<1>1. PICK n \in 1..(NumSamples + 1) : OpensAt(n)' /\ next_seq' = n
  BY DEF Crash
<1>2. /\ \A k \in Numbers : disk'[k] # None => k < n
      /\ n > 1 => disk'[n - 1] # None
  BY <1>1 DEF OpensAt
<1>3. /\ NumSamples \in Nat \ {0} /\ taken \in 0..NumSamples /\ next_seq \in 1..(taken + 1)
      /\ taken' = taken
  BY Numbered DEF Crash
<1>4. \A k \in Numbers : k >= n => disk'[k] = None
  BY <1>2, <1>3 DEF Numbers
<1>5. disk' \in [Numbers -> 0..(NumSamples + 1)] /\ (n > 1 => n - 1 <= taken)
  <2>1. CASE phase = "write"
    <3>1. /\ disk' \in [Numbers -> 0..(NumSamples + 1)]
          /\ \A k \in Numbers : k # next_seq => disk'[k] = disk[k]
      BY <2>1, NotWritten DEF Crash
    <3>2. next_seq <= taken
      BY <2>1 DEF LoopOK
    <3>3. ASSUME n > 1  PROVE  n - 1 <= taken
      <4>1. n - 1 \in Numbers
        BY <1>3, <3>3 DEF Numbers
      <4>2. n - 1 = next_seq \/ disk[n - 1] # None
        BY <1>2, <3>1, <3>3, <4>1
      <4>3. n - 1 = next_seq \/ n - 1 < next_seq
        BY <1>3, <4>1, <4>2 DEF DiskOK
      <4> QED BY <1>3, <3>2, <4>3
    <3> QED BY <3>1, <3>3
  <2>2. CASE phase # "write"
    <3>1. disk' = disk
      BY <2>2 DEF Crash
    <3>2. ASSUME n > 1  PROVE  n - 1 <= taken
      <4>1. n - 1 \in Numbers
        BY <1>3, <3>2 DEF Numbers
      <4>2. n - 1 < next_seq
        BY <1>2, <1>3, <3>1, <3>2, <4>1 DEF DiskOK
      <4> QED BY <1>3, <4>2
    <3> QED BY <3>1, <3>2 DEF TypeOK
  <2> QED BY <2>1, <2>2
<1>6. n \in 1..(taken + 1)
  BY <1>3, <1>5
<1> QED BY <1>1, <1>3, <1>4, <1>5, <1>6

LEMMA ClientTyped ==
    ASSUME TypeOK, LoopOK, DiskOK, Send \/ Break \/ Reconnect \/ ClientEnds \/ Crash
    PROVE  TypeOK'
<1> USE DEF clientVars, ghosts, bounds
<1>1. CASE Send
  <2>1. /\ queue' \in Seq(Samples) /\ arrived' \in Seq(Samples) /\ sent' \in 0..Len(queue')
        /\ sent + 1 \in 1..Len(queue)
        /\ \E d \in {0, 1} : sent' + d = sent + 1 /\ Len(queue') + d = Len(queue)
    BY <1>1, Sends
  <2>2. Len(queue') \in Nat /\ Len(queue) \in Nat /\ sent \in Nat /\ sent' \in Nat
    BY <2>1, Typed
  <2>3. breaks = 0 => Len(queue') - sent' <= Capacity
    BY <2>1, <2>2, SpoolAssumption, Shifted DEF TypeOK
  <2> QED BY <1>1, <2>1, <2>3 DEF TypeOK, Send
<1>2. CASE Break
  <2>1. breaks' \in 0..MaxBreaks /\ breaks' # 0
    BY <1>2, SpoolAssumption, Counted DEF TypeOK, Break
  <2>2. sent' \in 0..Len(queue')
    BY <1>2 DEF TypeOK, Break
  <2> QED BY <1>2, <2>1, <2>2 DEF TypeOK, Break
<1>3. CASE Reconnect
  BY <1>3 DEF TypeOK, Reconnect
<1>4. ASSUME LoseQueue
      PROVE  /\ queue' \in Seq(Samples) /\ sent' \in 0..Len(queue')
             /\ Len(queue') - sent' <= Capacity
             /\ abandoned' \subseteq Samples /\ stops' \in 0..MaxStops
  <2>1. stops' \in 0..MaxStops
    BY <1>4, SpoolAssumption, Counted DEF TypeOK, LoseQueue
  <2>2. abandoned' \subseteq Samples
    BY <1>4, Typed DEF TypeOK, LoseQueue, Reached
  <2> QED BY <1>4, <2>1, <2>2, SpoolAssumption DEF LoseQueue
<1>5. CASE ClientEnds
  BY <1>4, <1>5 DEF TypeOK, ClientEnds
<1>6. CASE Crash
  <2>1. next_seq' \in 1..(taken' + 1) /\ disk' \in [Numbers -> 0..(NumSamples + 1)]
    BY <1>6, CountsOn
  <2>2. unsaved' \subseteq Samples
    <3>1. phase = "write" => taken \in Samples
      BY Numbered DEF LoopOK, Samples
    <3> QED BY <1>6, <3>1 DEF TypeOK, Crash
  <2> QED BY <1>4, <1>6, <2>1, <2>2 DEF TypeOK, Crash, Phases
<1> QED BY <1>1, <1>2, <1>3, <1>5, <1>6

LEMMA TypeKept == TypeOK /\ UNCHANGED vars => TypeOK'
<1> SUFFICES ASSUME TypeOK, UNCHANGED vars PROVE TypeOK'
  OBVIOUS
<1>1. UNCHANGED <<taken, disk, next_seq, phase, todo>>
  BY DEF vars
<1>2. UNCHANGED <<session, queue, sent, arrived>>
  BY DEF vars, clientVars
<1>3. UNCHANGED <<unsaved, trimmed, abandoned, kept, faults, breaks, stops>>
  BY DEF vars, ghosts, bounds
<1> QED BY <1>1, <1>2, <1>3 DEF TypeOK
------------------------------------------------------------------------------
(* The loop and the disk *)

LEMMA LoopOKStep ==
    ASSUME TypeOK, LoopOK, DiskOK, Next
    PROVE  LoopOK'
<1> USE DEF clientVars, ghosts, bounds
<1>1. CASE Sample
  <2>1. next_seq <= taken + 1
    BY Numbered
  <2> QED BY <1>1, <2>1 DEF Sample, LoopOK, Stored
<1>2. CASE WriteRecord \/ WriteFails \/ Trim \/ TrimFails
  BY <1>2 DEF WriteRecord, WriteFails, Trim, TrimFails, LoopOK
<1>3. CASE KeepSession \/ Connect \/ ConnectFails \/ List \/ ListFails
  BY <1>3 DEF KeepSession, Connect, ConnectFails, List, ListFails, LoopOK, Stored
<1>4. CASE PublishRecord \/ PublishFails \/ AckFails \/ EndTick
  BY <1>4 DEF PublishRecord, PublishFails, AckFails, EndTick, LoopOK, Stored
<1>5. CASE AckRecord
  <2>1. PICK k \in todo : Remove({k}) /\ todo' = todo \ {k}
    BY <1>5 DEF AckRecord
  <2>2. {k} \in SUBSET Numbers
    BY DEF TypeOK
  <2>3. Stored' = Stored \ {k}
    BY <2>1, <2>2, Removed
  <2> QED BY <1>5, <2>1, <2>3 DEF AckRecord, LoopOK
<1>6. CASE Send \/ Break \/ Reconnect \/ ClientEnds
  BY <1>6 DEF Send, Break, Reconnect, ClientEnds, LoopOK, Stored
<1>7. CASE Crash
  BY <1>7 DEF Crash, LoopOK
<1> QED BY <1>1, <1>2, <1>3, <1>4, <1>5, <1>6, <1>7 DEF Next, LoopStep

LEMMA NumbersFree ==
    ASSUME TypeOK, LoopOK, DiskOK, Next
    PROVE  \A k \in Numbers : k >= next_seq' => disk'[k] = None
<1> USE DEF clientVars, ghosts, bounds
<1>1. next_seq \in Nat /\ \A k \in Numbers : k \in Nat
  BY Numbered DEF Numbers
<1>2. ASSUME next_seq' = next_seq + 1, \A k \in Numbers : k # next_seq => disk'[k] = disk[k]
      PROVE  \A k \in Numbers : k >= next_seq' => disk'[k] = None
  <2> SUFFICES ASSUME NEW k \in Numbers, k >= next_seq'  PROVE  disk'[k] = None
    OBVIOUS
  <2>1. k # next_seq /\ k >= next_seq
    BY <1>1, <1>2
  <2> QED BY <1>2, <2>1 DEF DiskOK
<1>3. CASE WriteRecord
  <2>1. \A k \in Numbers : k # next_seq => disk'[k] = disk[k]
    BY <1>3 DEF TypeOK, WriteRecord
  <2> QED BY <1>2, <1>3, <2>1 DEF WriteRecord
<1>4. CASE WriteFails
  BY <1>2, <1>4, NotWritten DEF WriteFails
<1>5. CASE Crash
  BY <1>5, CountsOn
<1>6. ASSUME next_seq' = next_seq, \A k \in Numbers : disk'[k] = None \/ disk'[k] = disk[k]
      PROVE  \A k \in Numbers : k >= next_seq' => disk'[k] = None
  BY <1>6 DEF DiskOK
<1>7. CASE Trim
  BY <1>6, <1>7, Removed DEF Trim, Excess, Stored
<1>8. CASE TrimFails
  BY <1>6, <1>8, Removed DEF TrimFails, Excess, Stored
<1>9. CASE AckRecord
  <2>1. PICK k \in todo : Remove({k})
    BY <1>9 DEF AckRecord
  <2>2. {k} \in SUBSET Numbers
    BY DEF TypeOK
  <2> QED BY <1>6, <1>9, <2>1, <2>2, Removed DEF AckRecord
<1>10. CASE Sample \/ KeepSession \/ Connect \/ ConnectFails \/ List \/ ListFails
  BY <1>6, <1>10 DEF Sample, KeepSession, Connect, ConnectFails, List, ListFails
<1>11. CASE PublishRecord \/ PublishFails \/ AckFails \/ EndTick
  BY <1>6, <1>11 DEF PublishRecord, PublishFails, AckFails, EndTick
<1>12. CASE Send \/ Break \/ Reconnect \/ ClientEnds
  BY <1>6, <1>12 DEF Send, Break, Reconnect, ClientEnds
<1> QED BY <1>3, <1>4, <1>5, <1>7, <1>8, <1>9, <1>10, <1>11, <1>12 DEF Next, LoopStep

(* The record written is the newest. *)
LEMMA Writes ==
    ASSUME TypeOK, LoopOK, DiskOK, WriteRecord
    PROVE  /\ next_seq \in Numbers /\ taken \in Samples /\ next_seq \notin Stored
           /\ disk'[next_seq] = taken
           /\ \A k \in Numbers : k # next_seq => disk'[k] = disk[k]
           /\ Stored' = Stored \cup {next_seq}
           /\ \A k \in Stored : k < next_seq /\ disk[k] < taken
           /\ Reached' = Reached
           /\ \A n \in Reached : n < taken
<1>1. next_seq \in Numbers /\ taken \in Samples /\ NumSamples \in Nat /\ next_seq \in Nat
  BY Numbered DEF WriteRecord, LoopOK, Numbers, Samples
<1>2. disk[next_seq] = None /\ None \notin Samples
  BY <1>1, Numbered DEF DiskOK
<1>3. /\ disk'[next_seq] = taken
      /\ \A k \in Numbers : k # next_seq => disk'[k] = disk[k]
  BY <1>1 DEF TypeOK, WriteRecord
<1>4. Stored' = Stored \cup {next_seq} /\ next_seq \notin Stored
  BY <1>1, <1>2, <1>3 DEF Stored
<1>5. \A k \in Stored : k < next_seq
  BY <1>1, Numbered DEF DiskOK, Numbers, Stored
<1>6. Reached' = Reached
  BY DEF WriteRecord, clientVars, Reached, Elements
<1>7. /\ \A k \in Stored : disk[k] < taken
      /\ \A n \in Reached : n < taken
  BY DEF WriteRecord, DiskOK
<1> QED BY <1>1, <1>3, <1>4, <1>5, <1>6, <1>7

LEMMA DiskOKStep ==
    ASSUME TypeOK, LoopOK, DiskOK, Next
    PROVE  DiskOK'
<1> USE DEF clientVars, ghosts, bounds
<1>1. \A k \in Numbers : k >= next_seq' => disk'[k] = None
  BY NumbersFree
<1>2. CASE WriteRecord
  <2>1. ASSUME NEW j \in Stored', NEW k \in Stored', j < k  PROVE  disk'[j] < disk'[k]
    <3>1. j \in Nat /\ k \in Nat /\ next_seq \in Nat
      BY <1>2, <2>1, Writes, Numbered DEF Numbers
    <3>2. CASE j \in Stored /\ k \in Stored
      BY <1>2, <2>1, <3>2, Writes, Numbered DEF DiskOK
    <3>3. CASE j \in Stored /\ k = next_seq
      BY <1>2, <3>3, Writes, Numbered
    <3>4. CASE j = next_seq
      BY <1>2, <2>1, <3>1, <3>4, Writes
    <3> QED BY <1>2, <3>2, <3>3, <3>4, Writes
  <2>2. \A n \in Reached' \cup {disk'[k] : k \in Stored'} : n <= taken
    <3>1. \A n \in Reached : n <= taken
      BY DEF DiskOK
    <3>2. \A k \in Stored : disk[k] <= taken /\ disk'[k] = disk[k]
      BY <1>2, Writes, Numbered DEF DiskOK
    <3>3. taken <= taken
      BY Numbered
    <3> QED BY <1>2, <3>1, <3>2, <3>3, Writes
  <2>3. taken' = taken /\ phase' # "write"
    BY <1>2 DEF WriteRecord
  <2> QED BY <1>1, <2>1, <2>2, <2>3 DEF DiskOK
<1>3. ASSUME Shrinks  PROVE  \A j, k \in Stored' : j < k => disk'[j] < disk'[k]
  BY <1>3 DEF Shrinks, DiskOK
<1>4. ASSUME Shrinks,
             Reached' \subseteq Reached \cup {disk[k] : k \in Stored},
             taken' = taken, phase' = "write" => phase = "write"
      PROVE  DiskOK'
  <2>1. \A n \in Reached' \cup {disk'[k] : k \in Stored'} :
            n <= taken' /\ (phase' = "write" => n < taken')
    BY <1>4 DEF DiskOK, Shrinks
  <2> QED BY <1>1, <1>3, <1>4, <2>1 DEF DiskOK
<1>5. CASE Sample
  <2>1. Shrinks /\ Reached' = Reached /\ taken' = taken + 1
    BY <1>5 DEF Sample, Shrinks, Stored, Reached, Elements
  <2>2. \A n \in Reached' \cup {disk'[k] : k \in Stored'} : n \in Samples /\ n <= taken
    BY <2>1, Typed, Numbered DEF DiskOK, Shrinks
  <2>3. \A n \in Reached' \cup {disk'[k] : k \in Stored'} : n <= taken' /\ n < taken'
    BY <2>1, <2>2, Numbered DEF Samples
  <2> QED BY <1>1, <1>3, <2>1, <2>3 DEF DiskOK
<1>6. ~Sample /\ ~WriteRecord => taken' = taken /\ (phase' = "write" => phase = "write")
  <2>1. CASE LoopStep
    BY <2>1 DEF LoopStep, WriteFails, Trim, TrimFails, KeepSession, Connect, ConnectFails,
         List, ListFails, PublishRecord, PublishFails, AckRecord, AckFails, EndTick
  <2>2. CASE Send \/ Break \/ Reconnect \/ ClientEnds \/ Crash
    BY <2>2 DEF Send, Break, Reconnect, ClientEnds, Crash
  <2> QED BY <2>1, <2>2 DEF Next
<1>7. Reached' \subseteq Reached \cup {disk[k] : k \in Stored}
  <2>1. CASE PublishRecord
    BY <2>1, Publishes
  <2> QED BY <2>1, ReachedKept DEF Reached
<1> QED BY <1>2, <1>4, <1>5, <1>6, <1>7, ShrinksOrWrites
------------------------------------------------------------------------------
(* No envelope disappears unnoticed *)

Gone == unsaved \cup trimmed \cup abandoned

(* Every step but the sampling keeps track of what it takes off the disk    *)
(* and out of the client.                                                  *)
LEMMA LossKept ==
    ASSUME TypeOK, HasCause, taken' = taken, Gone \subseteq Gone',
           phase = "write" => taken \in Contents(Numbers)' \cup Gone',
           \A k \in Stored : disk[k] \in Contents(Numbers)' \cup Reached' \cup Gone',
           Reached \subseteq Reached' \cup Gone'
    PROVE  HasCause'
<1> SUFFICES ASSUME NEW n \in 1..taken
             PROVE  n \in Contents(Numbers)' \cup Reached' \cup Gone'
  BY DEF HasCause, Somewhere, Reached, Gone
<1>1. n \in Samples
  BY Numbered DEF Samples
<1>2. CASE n = taken /\ phase = "write"
  BY <1>2
<1>3. CASE n \in Contents(Numbers)
  <2>1. PICK k \in Numbers : n = disk[k]
    BY <1>3 DEF Contents
  <2> QED BY <1>1, <2>1 DEF Stored
<1> QED BY <1>2, <1>3 DEF HasCause, Somewhere, Reached, Gone

(* The same, where nothing leaves the client. *)
LEMMA LossKeptThere ==
    ASSUME TypeOK, HasCause, UNCHANGED <<taken, queue, arrived, abandoned>>,
           unsaved \subseteq unsaved', trimmed \subseteq trimmed',
           phase = "write" => taken \in Contents(Numbers)' \cup Gone',
           \A k \in Stored : disk'[k] = disk[k] \/ disk[k] \in Reached \cup Gone'
    PROVE  HasCause'
<1>1. Reached' = Reached /\ Gone \subseteq Gone'
  BY DEF Reached, Gone, Elements
<1>2. \A k \in Stored : disk'[k] = disk[k] => disk[k] \in Contents(Numbers)'
  BY DEF Contents, Stored
<1> QED BY <1>1, <1>2, LossKept

LEMMA LossStep ==
    ASSUME TypeOK, LoopOK, DiskOK, AckOK, HasCause, Next
    PROVE  HasCause'
<1> USE DEF clientVars, ghosts, bounds
<1>1. CASE Sample
  <2> SUFFICES ASSUME NEW n \in 1..taken', n # taken' PROVE
            \/ n \in Contents(Numbers) \cup Elements(queue) \cup Elements(arrived)
            \/ n \in unsaved \cup trimmed \cup abandoned
    BY <1>1 DEF Sample, HasCause, Somewhere, Contents, Elements
  <2>1. n \in 1..taken /\ phase # "write"
    BY <1>1, Numbered DEF Sample
  <2> QED BY <2>1 DEF HasCause, Somewhere
<1>2. CASE WriteRecord
  <2>1. taken \in Contents(Numbers)'
    BY <1>2, Writes DEF Contents
  <2>2. \A k \in Stored : disk'[k] = disk[k]
    BY <1>2, Writes, Numbered
  <2> QED BY <1>2, <2>1, <2>2, LossKeptThere DEF WriteRecord
<1>3. ASSUME DiskOK, NEW k \in Stored  PROVE  k # next_seq
  BY <1>3, Numbered DEF DiskOK, Stored
<1>4. CASE WriteFails
  <2>1. \A k \in Stored : disk'[k] = disk[k]
    BY <1>3, <1>4, NotWritten, Numbered DEF WriteFails
  <2> QED BY <1>4, <2>1, LossKeptThere DEF WriteFails, Gone
<1>5. ASSUME NEW K \in SUBSET Excess, Remove(K), trimmed' = trimmed \cup Contents(K)
      PROVE  \A k \in Stored : disk'[k] = disk[k] \/ disk[k] \in Gone'
  <2>1. K \in SUBSET Numbers
    BY DEF Excess, Stored
  <2>2. \A k \in Numbers \ K : disk'[k] = disk[k]
    BY <1>5, <2>1, Removed
  <2>3. \A k \in K : disk[k] \in trimmed'
    BY <1>5 DEF Contents
  <2> QED BY <2>2, <2>3, Numbered DEF Gone
<1>6. CASE Trim
  <2>1. \A k \in Stored : disk'[k] = disk[k] \/ disk[k] \in Gone'
    BY <1>5, <1>6 DEF Trim
  <2> QED BY <1>6, <2>1, LossKeptThere DEF Trim
<1>7. CASE TrimFails
  <2>1. \A k \in Stored : disk'[k] = disk[k] \/ disk[k] \in Gone'
    BY <1>5, <1>7 DEF TrimFails
  <2> QED BY <1>7, <2>1, LossKeptThere DEF TrimFails
<1>8. CASE AckRecord
  <2>1. PICK k \in todo : Oldest(k) /\ Remove({k})
    BY <1>8 DEF AckRecord
  <2>2. {k} \in SUBSET Numbers
    BY DEF TypeOK
  <2>3. \A j \in Numbers : j # k => disk'[j] = disk[j]
    BY <2>1, <2>2, Removed
  <2>4. disk[k] \in Reached \cup Gone'
    BY <1>8, <2>1 DEF AckOK, AckRecord, Gone
  <2>5. \A j \in Stored : disk'[j] = disk[j] \/ disk[j] \in Reached \cup Gone'
    BY <2>3, <2>4, Numbered
  <2> QED BY <1>8, <2>5, LossKeptThere DEF AckRecord
<1>9. CASE KeepSession \/ Connect \/ ConnectFails \/ List \/ ListFails \/ PublishFails
  BY <1>9, LossKeptThere DEF KeepSession, Connect, ConnectFails, List, ListFails, PublishFails
<1>10. CASE AckFails \/ EndTick
  BY <1>10, LossKeptThere DEF AckFails, EndTick
<1>11. ASSUME taken' = taken, disk' = disk, phase # "write", Gone \subseteq Gone',
              Reached \subseteq Reached' \cup Gone'
       PROVE  HasCause'
  <2>1. \A k \in Stored : disk[k] \in Contents(Numbers)'
    BY <1>11, Numbered DEF Contents
  <2> QED BY <1>11, <2>1, LossKept
<1>12. CASE PublishRecord
  BY <1>11, <1>12, Publishes DEF PublishRecord, Gone
<1>13. ASSUME taken' = taken, disk' = disk, phase' = phase, Gone \subseteq Gone',
              Reached \subseteq Reached' \cup Gone'
       PROVE  HasCause'
  <2> SUFFICES ASSUME NEW n \in 1..taken, ~(n = taken /\ phase = "write")
               PROVE  n \in Contents(Numbers) \cup Reached' \cup Gone'
    BY <1>13 DEF HasCause, Somewhere, Reached, Gone, Contents
  <2> QED BY <1>13 DEF HasCause, Somewhere, Reached, Gone
<1>14. CASE Send \/ Break \/ Reconnect
  <2>1. Reached' = Reached
    BY <1>14, Sends DEF Break, Reconnect, Reached, Elements
  <2> QED BY <1>13, <1>14, <2>1 DEF Send, Break, Reconnect, Gone
<1>15. LoseQueue /\ arrived' = arrived => Reached \subseteq Reached' \cup abandoned'
  BY DEF LoseQueue, Reached, Elements
<1>16. CASE ClientEnds
  BY <1>13, <1>15, <1>16 DEF ClientEnds, LoseQueue, Gone
<1>17. CASE Crash
  <2>1. /\ Reached \subseteq Reached' \cup Gone' /\ taken' = taken /\ Gone \subseteq Gone'
    BY <1>15, <1>17 DEF Crash, LoseQueue, Gone
  <2>2. CASE phase # "write"
    BY <1>11, <1>17, <2>1, <2>2 DEF Crash
  <2>3. CASE phase = "write"
    <3>1. \A k \in Stored : disk'[k] = disk[k]
      BY <1>3, <1>17, <2>3, NotWritten, Numbered DEF Crash
    <3>2. \A k \in Stored : disk[k] \in Contents(Numbers)'
      BY <3>1, Numbered DEF Contents
    <3>3. taken \in Gone'
      BY <1>17, <2>3 DEF Crash, Gone
    <3> QED BY <2>1, <3>2, <3>3, LossKept
  <2> QED BY <2>2, <2>3
<1> QED BY <1>1, <1>2, <1>4, <1>6, <1>7, <1>8, <1>9, <1>10, <1>12, <1>14, <1>16, <1>17
        DEF Next, LoopStep
(* A record over the limit has as many newer ones as the spool keeps.      *)
LEMMA ExcessIsOld ==
    ASSUME TypeOK, DiskOK, NEW k \in Excess
    PROVE  disk[k] + MaxRecords <= taken
<1> DEFINE L == {j \in Stored : j <= k}
           H == {j \in Stored : k < j}
           T == (disk[k] + 1)..taken
           f == [j \in H |-> disk[j]]
<1>1. /\ k \in Stored /\ Stored \subseteq Numbers /\ taken \in Nat /\ NumSamples \in Nat
      /\ disk[k] \in Nat /\ MaxRecords \in Nat /\ k \in Nat /\ Numbers \subseteq Nat
  BY Numbered, SpoolAssumption DEF Excess, Numbers, Samples
<1>2. IsFiniteSet(Numbers)
  BY <1>1, FS_Interval DEF Numbers
<1>3. IsFiniteSet(Stored)
  BY <1>1, <1>2, FS_Subset
<1>4. IsFiniteSet(L) /\ IsFiniteSet(H) /\ L \cup H = Stored /\ L \cap H = {}
  <2>1. L \in SUBSET Stored /\ H \in SUBSET Stored
    OBVIOUS
  <2>2. \A j \in Stored : (j <= k \/ k < j) /\ ~(j <= k /\ k < j)
    BY <1>1
  <2>3. L \cup H = Stored /\ L \cap H = {}
    BY <2>2
  <2> QED BY <1>3, <2>1, <2>3, FS_Subset
<1>5. Cardinality(L) \in Nat /\ Cardinality(H) \in Nat
  BY <1>4, FS_CardinalityType
<1>6. Cardinality(Stored) = Cardinality(L) + Cardinality(H)
  <2> HIDE DEF L, H
  <2>1. Cardinality(L \cup H) = Cardinality(L) + Cardinality(H) - Cardinality(L \cap H)
    BY <1>4, FS_Union
  <2>2. Cardinality(L \cap H) = 0 /\ L \cup H = Stored
    BY <1>4, FS_EmptySet
  <2> QED BY <1>5, <2>1, <2>2
<1>7. Cardinality(L) + MaxRecords <= Cardinality(Stored)
  BY DEF Excess, Rank
<1>8. MaxRecords <= Cardinality(H)
  <2> HIDE DEF L, H
  <2> QED BY <1>1, <1>5, <1>6, <1>7
<1>9. \A j \in H : disk[j] \in T
  BY <1>1, Numbered DEF DiskOK, Samples
<1>10. \A i, j \in H : disk[i] = disk[j] => i = j
  <2> SUFFICES ASSUME NEW i \in H, NEW j \in H, disk[i] = disk[j], i # j PROVE FALSE
    OBVIOUS
  <2>1. i < j \/ j < i
    BY <1>1
  <2>2. disk[i] \in Nat /\ disk[j] \in Nat /\ i \in Stored /\ j \in Stored
    BY <1>1, Numbered DEF Samples
  <2> QED BY <2>1, <2>2 DEF DiskOK
<1>11. f \in Injection(H, T)
  <2> HIDE DEF H, T
  <2> QED BY <1>9, <1>10 DEF Injection, IsInjective
<1>12. IsFiniteSet(T) /\ Cardinality(T) = IF disk[k] + 1 > taken THEN 0 ELSE taken - (disk[k] + 1) + 1
  <2>1. disk[k] + 1 \in Int /\ taken \in Int
    BY <1>1
  <2> QED BY <2>1, FS_Interval
<1>13. Cardinality(H) <= Cardinality(T)
  <2> HIDE DEF H, T, f
  <2> QED BY <1>11, <1>12, FS_Injection
<1>14. MaxRecords > 0
  BY SpoolAssumption
<1> HIDE DEF H, T, L, f
<1> QED BY <1>1, <1>5, <1>8, <1>12, <1>13, <1>14

LEMMA TrimmedStep ==
    ASSUME TypeOK, DiskOK, OldestTrimmed, Next
    PROVE  OldestTrimmed'
<1> USE DEF clientVars, ghosts, bounds
<1>1. taken \in Nat /\ MaxRecords \in Nat /\ \A n \in trimmed : n \in Nat
  BY Numbered, SpoolAssumption DEF TypeOK, Samples
<1>2. CASE Sample
  BY <1>1, <1>2 DEF Sample, OldestTrimmed
<1>3. CASE Trim \/ TrimFails
  <2>1. PICK K \in SUBSET Excess : trimmed' = trimmed \cup Contents(K)
    BY <1>3 DEF Trim, TrimFails
  <2>2. \A n \in Contents(K) : n + MaxRecords <= taken
    BY <2>1, ExcessIsOld DEF Contents
  <2>3. taken' = taken
    BY <1>3 DEF Trim, TrimFails
  <2> QED BY <2>1, <2>2, <2>3 DEF OldestTrimmed
<1>4. CASE LoopStep /\ ~Trim /\ ~TrimFails
  BY <1>4 DEF LoopStep, WriteRecord, WriteFails, KeepSession, Connect, ConnectFails, List, ListFails,
       PublishRecord, PublishFails, AckRecord, AckFails, EndTick, OldestTrimmed
<1>5. CASE Send \/ Break \/ Reconnect \/ ClientEnds \/ Crash
  BY <1>5 DEF Send, Break, Reconnect, ClientEnds, Crash, OldestTrimmed
<1> QED BY <1>2, <1>3, <1>4, <1>5 DEF Next
------------------------------------------------------------------------------
(* What the loop has handed over *)

LEMMA HandedKept ==
    ASSUME TypeOK, AckOK, ListOK,
           UNCHANGED <<disk, phase, todo>>, Live' => Live,
           Reached \subseteq Reached' \cup abandoned', abandoned \subseteq abandoned',
           Live' => Reached \subseteq Reached'
    PROVE  AckOK' /\ ListOK'
<1>1. \A k : Oldest(k)' <=> Oldest(k)
  BY DEF Oldest
<1>2. Stored' = Stored
  BY DEF Stored
<1>3. AckOK'
  <2>1. ASSUME phase' = "ack", NEW k \in todo', Oldest(k)'
        PROVE  disk'[k] \in Reached' \cup abandoned'
    BY <1>1, <2>1 DEF AckOK
  <2> QED BY <2>1 DEF AckOK
<1>4. ListOK'
  <2>1. ASSUME phase' \in {"publish", "ack"}, Live', NEW k \in Stored',
               k \notin todo' \/ (phase' = "ack" /\ Oldest(k)')
        PROVE  disk'[k] \in Reached'
    BY <1>1, <1>2, <2>1 DEF ListOK
  <2> QED BY <2>1 DEF ListOK
<1> QED BY <1>3, <1>4

LEMMA HandedStep ==
    ASSUME TypeOK, LoopOK, AckOK, ListOK, Next
    PROVE  AckOK' /\ ListOK'
<1> USE DEF clientVars, ghosts, bounds
<1>1. phase' \notin {"publish", "ack"} => AckOK' /\ ListOK'
  BY DEF AckOK, ListOK
<1>2. CASE Sample \/ WriteRecord \/ WriteFails \/ Trim \/ TrimFails \/ KeepSession
  BY <1>1, <1>2 DEF Sample, WriteRecord, WriteFails, Trim, TrimFails, KeepSession
<1>3. CASE Connect \/ ConnectFails \/ ListFails \/ PublishFails \/ EndTick \/ Crash
  BY <1>1, <1>3 DEF Connect, ConnectFails, ListFails, PublishFails, EndTick, Crash
<1>4. CASE List
  <2>1. todo' = Stored' /\ phase' = "publish"
    BY <1>4 DEF List, Stored
  <2> QED BY <2>1 DEF AckOK, ListOK
<1>5. CASE PublishRecord
  <2>1. PICK k \in Stored : k \in todo /\ Oldest(k) /\ Reached' = Reached \cup {disk[k]}
    BY <1>5, Publishes
  <2>2. UNCHANGED <<disk, todo, session>> /\ phase = "publish" /\ phase' = "ack" /\ Live
    BY <1>5 DEF PublishRecord, Live
  <2>3. \A j : Oldest(j)' <=> Oldest(j)
    BY <2>2 DEF Oldest
  <2>4. \A j \in todo : Oldest(j) => j = k
    BY <2>1, OneOldest
  <2>5. AckOK'
    BY <2>1, <2>2, <2>3, <2>4 DEF AckOK
  <2>6. \A j \in Stored : (j \notin todo \/ Oldest(j)) => disk[j] \in Reached'
    <3>1. \A j \in Stored : j \notin todo => disk[j] \in Reached
      BY <2>2 DEF ListOK
    <3> QED BY <2>1, <2>4, <3>1 DEF Oldest
  <2>7. Stored' = Stored
    BY <2>2 DEF Stored
  <2>8. ListOK'
    BY <2>2, <2>3, <2>6, <2>7 DEF ListOK
  <2> QED BY <2>5, <2>8
<1>6. ASSUME phase = "ack", phase' = "publish", NEW k \in todo, Oldest(k), todo' = todo \ {k},
             Shrinks, UNCHANGED <<session, queue, arrived>>
      PROVE  AckOK' /\ ListOK'
  <2>1. Reached' = Reached /\ (Live' <=> Live)
    BY <1>6 DEF Reached, Elements, Live
  <2>2. ASSUME Live', NEW j \in Stored', j \notin todo'
        PROVE  disk'[j] \in Reached'
    <3>1. j \in Stored /\ disk'[j] = disk[j]
      BY <1>6 DEF Shrinks
    <3>2. j \notin todo \/ j = k
      BY <1>6, <2>2
    <3> QED BY <1>6, <2>1, <2>2, <3>1, <3>2 DEF ListOK
  <2> QED BY <1>6, <2>2 DEF AckOK, ListOK
<1>7. CASE AckRecord
  <2>1. Shrinks
    BY <1>7, ShrinksOrWrites DEF AckRecord, WriteRecord
  <2> QED BY <1>6, <1>7, <2>1 DEF AckRecord
<1>8. CASE AckFails
  <2>1. Shrinks
    BY <1>8 DEF AckFails, Shrinks, Stored
  <2> QED BY <1>6, <1>8, <2>1 DEF AckFails
<1>9. CASE Send
  <2>1. Reached' = Reached
    BY <1>9, Sends
  <2> QED BY <1>9, <2>1, HandedKept DEF Send, Live
<1>10. CASE Break \/ Reconnect
  <2>1. Reached' = Reached
    BY <1>10 DEF Break, Reconnect, Reached, Elements
  <2> QED BY <1>10, <2>1, HandedKept DEF Break, Reconnect, Live
<1>11. CASE ClientEnds
  <2>1. Reached \subseteq Reached' \cup abandoned' /\ abandoned \subseteq abandoned' /\ ~Live'
    BY <1>11 DEF ClientEnds, LoseQueue, Reached, Elements, Live
  <2> QED BY <1>11, <2>1, HandedKept DEF ClientEnds
<1> QED BY <1>2, <1>3, <1>4, <1>5, <1>7, <1>8, <1>9, <1>10, <1>11 DEF Next, LoopStep
------------------------------------------------------------------------------
(* Order *)

LEMMA AheadStep ==
    ASSUME TypeOK, LoopOK, DiskOK, ListOK, AheadOK, QueueOK, Next
    PROVE  AheadOK'
<1>1. ASSUME Shrinks, Reached' = Reached  PROVE  AheadOK'
  BY <1>1 DEF AheadOK, Shrinks
<1>2. CASE WriteRecord
  <2> SUFFICES ASSUME NEW k \in Stored'
               PROVE  disk'[k] \in Reached' \/ \A n \in Reached' : n < disk'[k]
    BY DEF AheadOK
  <2>1. CASE k = next_seq
    BY <1>2, <2>1, Writes
  <2>2. CASE k # next_seq
    <3>1. k \in Stored /\ disk'[k] = disk[k]
      BY <1>2, <2>2, Writes, Numbered
    <3> QED BY <1>2, <3>1, Writes DEF AheadOK
  <2> QED BY <2>1, <2>2
<1>3. CASE PublishRecord
  <2>1. PICK k \in Stored : k \in todo /\ Oldest(k) /\ Reached' = Reached \cup {disk[k]}
    BY <1>3, Publishes
  <2>2. disk' = disk /\ phase = "publish" /\ Live /\ Stored' = Stored
    BY <1>3 DEF PublishRecord, Live, Stored
  <2> SUFFICES ASSUME NEW j \in Stored, disk[j] \notin Reached'
               PROVE  \A n \in Reached' : n < disk[j]
    BY <2>2 DEF AheadOK
  <2>3. disk[j] \notin Reached /\ j # k
    BY <2>1
  <2>4. j \in todo
    BY <2>2, <2>3 DEF ListOK
  <2>5. k < j
    <3>1. k \in Nat /\ j \in Nat /\ k <= j
      BY <2>1, <2>4, Numbered DEF Oldest, Numbers
    <3> QED BY <2>3, <3>1
  <2>6. disk[k] < disk[j]
    BY <2>5 DEF DiskOK
  <2>7. \A n \in Reached : n < disk[j]
    BY <2>3 DEF AheadOK
  <2> QED BY <2>1, <2>6, <2>7
<1>4. ASSUME Shrinks, Reached' = Elements(arrived)  PROVE  AheadOK'
  <2> SUFFICES ASSUME NEW k \in Stored, disk[k] \notin Elements(arrived)
               PROVE  \A n \in Elements(arrived) : n < disk[k]
    BY <1>4 DEF AheadOK, Shrinks
  <2>1. CASE disk[k] \in Reached
    <3>1. PICK i \in 1..Len(queue) : disk[k] = queue[i]
      BY <2>1, Typed DEF Reached
    <3> QED BY <3>1 DEF QueueOK
  <2>2. CASE disk[k] \notin Reached
    BY <2>2 DEF AheadOK, Reached
  <2> QED BY <2>1, <2>2
<1>5. WriteRecord => Reached' = Reached
  BY Writes
<1> QED BY <1>1, <1>2, <1>3, <1>4, ReachedKept, ShrinksOrWrites

(* What is handed over is new, or in the client or with the broker already. *)
LEMMA QueuePublish ==
    ASSUME TypeOK, LoopOK, AheadOK, QueueOK, PublishRecord
    PROVE  QueueOK'
<1>1. PICK k \in Stored :
        /\ Len(queue') = Len(queue) + 1
        /\ queue'[Len(queue) + 1] = disk[k]
        /\ \A i \in 1..Len(queue) : queue'[i] = queue[i]
  BY Publishes
<1> DEFINE n == disk[k]
           last == Len(queue) + 1
<1>2. /\ sent' = sent /\ sent \in 0..Len(queue) /\ Len(queue) \in Nat
      /\ Elements(arrived') = Elements(arrived)
  BY Typed DEF PublishRecord
<1>3. n \in Reached \/ \A m \in Reached : m < n
  BY DEF AheadOK
<1>4. n \in Elements(arrived) \/ \A m \in Elements(arrived) : m < n
  <2>1. CASE n \in Elements(queue)
    <3>1. PICK i \in 1..Len(queue) : n = queue[i]
      BY <2>1, Typed
    <3> QED BY <3>1 DEF QueueOK
  <2>2. CASE n \notin Elements(queue)
    BY <1>3, <2>2 DEF Reached
  <2> QED BY <2>1, <2>2
<1>5. ASSUME NEW j \in 1..last
      PROVE  n \in Elements(arrived) \/ queue'[j] < n \/ \E h \in 1..j : queue'[h] = n
  <2>1. CASE j = last
    <3>1. j \in 1..j
      BY <1>2, <2>1
    <3> QED BY <1>1, <2>1, <3>1
  <2>2. CASE j # last
    <3>1. j \in 1..Len(queue) /\ queue'[j] = queue[j] /\ j \in Nat
      BY <1>1, <1>2, <2>2
    <3>2. \A h \in 1..j : h \in 1..Len(queue) /\ queue'[h] = queue[h]
      BY <1>1, <1>2, <3>1
    <3>3. CASE n \in Elements(queue)
      <4>1. PICK i \in 1..Len(queue) : n = queue[i]
        BY <3>3, Typed
      <4>2. CASE i \in 1..j
        BY <3>2, <4>1, <4>2
      <4>3. CASE i \notin 1..j
        <5>1. j \in 1..i
          BY <1>2, <3>1, <4>3
        <5>2. queue[i] \in Elements(arrived) \/ queue[j] < queue[i] \/ \E h \in 1..j : queue[h] = queue[i]
          BY <5>1 DEF QueueOK
        <5> QED BY <3>1, <3>2, <4>1, <5>2
      <4> QED BY <4>2, <4>3
    <3>4. CASE n \notin Elements(queue)
      <4>1. queue[j] \in Reached
        BY <3>1, Typed DEF Reached
      <4> QED BY <1>3, <3>1, <3>4, <4>1 DEF Reached
    <3> QED BY <3>3, <3>4
  <2> QED BY <2>1, <2>2
<1> HIDE DEF n
<1>6. \A i \in 1..sent' : queue'[i] \in Elements(arrived')
  <2>1. \A i \in 1..sent : i \in 1..Len(queue)
    BY <1>2
  <2> QED BY <1>1, <1>2, <2>1 DEF QueueOK
<1>7. ASSUME NEW i \in 1..Len(queue')
      PROVE  /\ queue'[i] \in Elements(arrived) \/ \A m \in Elements(arrived) : m < queue'[i]
             /\ \A j \in 1..i :
                    \/ queue'[i] \in Elements(arrived)
                    \/ queue'[j] < queue'[i]
                    \/ \E h \in 1..j : queue'[h] = queue'[i]
  <2>1. CASE i = last
    BY <1>1, <1>4, <1>5, <2>1 DEF n
  <2>2. CASE i # last
    <3>1. i \in 1..Len(queue) /\ i \in Nat
      BY <1>1, <1>2, <2>2
    <3>2. \A j \in 1..i : j \in 1..Len(queue) /\ queue'[j] = queue[j] /\ j \in Nat
      BY <1>1, <1>2, <3>1
    <3>3. queue'[i] = queue[i]
      BY <1>1, <3>1
    <3>4. ASSUME NEW j \in 1..i
          PROVE  \/ queue'[i] \in Elements(arrived)
                 \/ queue'[j] < queue'[i]
                 \/ \E h \in 1..j : queue'[h] = queue'[i]
      <4>1. \A h \in 1..j : h \in 1..i
        BY <3>1, <3>2
      <4> QED BY <3>1, <3>2, <3>3, <4>1 DEF QueueOK
    <3> QED BY <3>1, <3>3, <3>4 DEF QueueOK
  <2> QED BY <2>1, <2>2
<1> QED BY <1>2, <1>6, <1>7 DEF QueueOK, Elements

LEMMA QueueSend ==
    ASSUME TypeOK, QueueOK, Send
    PROVE  QueueOK'
<1> DEFINE x == queue[sent + 1]
           A == Elements(arrived)
<1>1. /\ sent + 1 \in 1..Len(queue) /\ Elements(arrived') = A \cup {x}
      /\ sent' \in 0..Len(queue')
  BY Sends
<1>2. PICK d \in {0, 1} :
        /\ sent' + d = sent + 1 /\ Len(queue') + d = Len(queue)
        /\ \A i \in 1..Len(queue') : queue'[i] = queue[i + d]
        /\ d = 1 => sent = 0
  BY Sends
<1>3. Len(queue) \in Nat /\ Len(queue') \in Nat /\ sent \in Nat /\ sent' \in Nat /\ d \in Nat
  <2>1. queue' \in Seq(Samples) /\ Len(queue) \in Nat /\ sent \in 0..Len(queue)
    BY Sends, Typed
  <2>2. Len(queue') \in Nat
    BY <2>1
  <2> QED BY <1>1, <2>1, <2>2
<1>4. \A i \in 1..Len(queue') : i \in Nat /\ i + d \in 1..Len(queue)
  BY <1>2, <1>3
<1>5. /\ \A i \in 1..sent : queue[i] \in A
      /\ \A i \in 1..Len(queue) : queue[i] \in A \/ \A n \in A : n < queue[i]
      /\ \A i \in 1..Len(queue) : \A j \in 1..i :
            queue[i] \in A \/ queue[j] < queue[i] \/ \E h \in 1..j : queue[h] = queue[i]
  BY DEF QueueOK
<1>6. \A i \in 1..(sent + 1) : queue[i] \in A \cup {x}
  <2> SUFFICES ASSUME NEW i \in 1..(sent + 1), i # sent + 1  PROVE  queue[i] \in A
    OBVIOUS
  <2>1. i \in 1..sent
    BY <1>3
  <2> QED BY <1>5, <2>1
<1> HIDE DEF x, A
<1>7. \A i \in 1..sent' : queue'[i] \in A \cup {x}
  <2> SUFFICES ASSUME NEW i \in 1..sent'  PROVE  queue'[i] \in A \cup {x}
    OBVIOUS
  <2>1. i \in 1..Len(queue')
    BY <1>1, <1>3
  <2>2. i + d \in 1..(sent + 1)
    BY <1>2, <1>3, ShiftedIndex
  <2> QED BY <1>2, <1>6, <2>1, <2>2
<1>8. ASSUME NEW i \in 1..Len(queue), queue[i] \notin A \cup {x}
      PROVE  \A n \in A \cup {x} : n < queue[i]
  <2>1. sent + 1 \in 1..i
    BY <1>3, <1>6, <1>8
  <2>2. x < queue[i] \/ \E h \in 1..(sent + 1) : queue[h] = queue[i]
    BY <1>5, <1>8, <2>1 DEF x
  <2>3. x < queue[i]
    BY <1>6, <1>8, <2>2
  <2> QED BY <1>5, <1>8, <2>3
<1>9. ASSUME NEW i \in 1..Len(queue'), NEW j \in 1..i
      PROVE  queue'[i] \in A \cup {x} \/ queue'[j] < queue'[i] \/ \E h \in 1..j : queue'[h] = queue'[i]
  <2>1. i \in Nat /\ j \in Nat /\ j \in 1..Len(queue') /\ i + d \in 1..Len(queue) /\ j + d \in 1..(i + d)
    BY <1>3, <1>4
  <2>2. queue'[i] = queue[i + d] /\ queue'[j] = queue[j + d]
    BY <1>2, <2>1
  <2>3. queue[i + d] \in A \/ queue[j + d] < queue[i + d] \/ \E h \in 1..(j + d) : queue[h] = queue[i + d]
    BY <1>5, <2>1
  <2>4. ASSUME NEW h \in 1..(j + d), queue[h] = queue[i + d], queue[i + d] \notin A \cup {x}
        PROVE  \E g \in 1..j : queue'[g] = queue'[i]
    <3>1. CASE d = 0
      <4>1. h \in 1..j /\ h \in 1..Len(queue') /\ h + d = h
        BY <1>3, <2>1, <3>1
      <4> QED BY <1>2, <2>2, <2>4, <4>1
    <3>2. CASE d = 1
      <4>1. h # 1
        BY <1>2, <2>4, <3>2 DEF x
      <4>2. h - 1 \in 1..j /\ h - 1 \in 1..Len(queue') /\ (h - 1) + d = h
        BY <1>3, <2>1, <3>2, <4>1
      <4> QED BY <1>2, <2>2, <2>4, <4>2
    <3> QED BY <3>1, <3>2
  <2> QED BY <2>2, <2>3, <2>4
<1>10. ASSUME NEW i \in 1..Len(queue')
       PROVE  queue'[i] \in A \cup {x} \/ \A n \in A \cup {x} : n < queue'[i]
  BY <1>2, <1>4, <1>8
<1>11. Elements(arrived)' = A \cup {x}
  BY <1>1 DEF Elements
<1> QED BY <1>7, <1>9, <1>10, <1>11 DEF QueueOK

LEMMA QueueStep ==
    ASSUME TypeOK, LoopOK, AheadOK, QueueOK, Next
    PROVE  QueueOK'
<1> USE DEF clientVars
<1>1. UNCHANGED <<queue, sent, arrived>> => QueueOK'
  BY DEF QueueOK, Elements
<1>2. CASE Sample \/ WriteRecord \/ WriteFails \/ Trim \/ TrimFails \/ KeepSession
  BY <1>1, <1>2 DEF Sample, WriteRecord, WriteFails, Trim, TrimFails, KeepSession
<1>3. CASE Connect \/ ConnectFails \/ List \/ ListFails
  BY <1>1, <1>3 DEF Connect, ConnectFails, List, ListFails
<1>4. CASE PublishFails \/ AckRecord \/ AckFails \/ EndTick \/ Reconnect
  BY <1>1, <1>4 DEF PublishFails, AckRecord, AckFails, EndTick, Reconnect
<1>5. CASE Break
  BY <1>5 DEF Break, QueueOK, Elements
<1>6. CASE ClientEnds \/ Crash
  BY <1>6 DEF ClientEnds, Crash, LoseQueue, QueueOK
<1> QED BY <1>2, <1>3, <1>4, <1>5, <1>6, QueuePublish, QueueSend DEF Next, LoopStep

LEMMA OrderStep ==
    ASSUME TypeOK, QueueOK, ArrivesInOrder, Next
    PROVE  ArrivesInOrder'
<1>1. CASE arrived' = arrived
  BY <1>1 DEF ArrivesInOrder
<1>2. CASE Send
  <2> DEFINE Before(s, j) == {s[i] : i \in 1..(j - 1)}
  <2>1. /\ Len(arrived') = Len(arrived) + 1 /\ arrived' \in Seq(Samples)
        /\ arrived'[Len(arrived) + 1] = queue[sent + 1]
        /\ \A i \in 1..Len(arrived) : arrived'[i] = arrived[i]
        /\ sent + 1 \in 1..Len(queue)
    BY <1>2, Sends
  <2>2. DOMAIN arrived' = 1..(Len(arrived) + 1) /\ DOMAIN arrived = 1..Len(arrived) /\ Len(arrived) \in Nat
    BY <2>1, Typed
  <2> SUFFICES ASSUME NEW j \in 1..(Len(arrived) + 1)
               PROVE  arrived'[j] \in Before(arrived', j) \/ \A n \in Before(arrived', j) : n < arrived'[j]
    BY <2>2 DEF ArrivesInOrder
  <2>3. \A i \in 1..(j - 1) : i \in 1..Len(arrived) /\ arrived'[i] = arrived[i]
    BY <2>1, <2>2
  <2>4. Before(arrived', j) = Before(arrived, j)
    BY <2>3
  <2>5. CASE j \in 1..Len(arrived)
    BY <2>1, <2>2, <2>4, <2>5 DEF ArrivesInOrder
  <2>6. CASE j \notin 1..Len(arrived)
    <3>1. j = Len(arrived) + 1 /\ 1..(j - 1) = DOMAIN arrived
      BY <2>2, <2>6
    <3>2. Before(arrived, j) = Elements(arrived)
      BY <3>1 DEF Elements
    <3>3. arrived'[j] \in Elements(arrived) \/ \A n \in Elements(arrived) : n < arrived'[j]
      BY <2>1, <3>1 DEF QueueOK
    <3> QED BY <2>4, <3>2, <3>3
  <2> QED BY <2>5, <2>6
<1>3. Send \/ arrived' = arrived
  BY DEF Next, LoopStep, clientVars, Sample, WriteRecord, WriteFails, Trim, TrimFails,
     KeepSession, Connect, ConnectFails, List, ListFails, PublishRecord, PublishFails,
     AckRecord, AckFails, EndTick, Break, Reconnect, ClientEnds, Crash
<1> QED BY <1>1, <1>2, <1>3
------------------------------------------------------------------------------
(* Envelopes that arrive twice *)

(* The client and the record being acknowledged stay as they are. *)
LEMMA CopiesKept ==
    ASSUME TypeOK, CopiesHere, Shrinks, UNCHANGED <<queue, sent, arrived, kept>>,
           session' # "dead", phase # "ack" \/ UNCHANGED <<phase, todo>>
    PROVE  CopiesHere'
<1>1. \A k : UNCHANGED todo => (Oldest(k)' <=> Oldest(k))
  BY DEF Oldest
<1>2. ASSUME NEW k \in Stored', disk'[k] \in Reached'
      PROVE  disk'[k] \in kept' \/ (phase' = "ack" /\ Oldest(k)')
  <2>1. k \in Stored /\ disk'[k] = disk[k] /\ Reached' = Reached
    BY DEF Shrinks, Reached, Elements
  <2> QED BY <1>1, <1>2, <2>1 DEF CopiesHere
<1> QED BY <1>2 DEF CopiesHere, Elements

LEMMA CopiesWrite ==
    ASSUME TypeOK, LoopOK, DiskOK, CopiesHere, WriteRecord
    PROVE  CopiesHere'
<1>1. ASSUME NEW k \in Stored', disk'[k] \in Reached'
      PROVE  disk'[k] \in kept'
  <2>1. CASE k = next_seq
    <3>1. taken \in Reached /\ taken < taken
      BY <1>1, <2>1, Writes
    <3> QED BY <3>1, Numbered
  <2>2. CASE k # next_seq
    <3>1. k \in Stored /\ disk'[k] = disk[k] /\ disk[k] \in Reached
      BY <1>1, <2>2, Writes, Numbered
    <3> QED BY <3>1 DEF CopiesHere, WriteRecord, ghosts
  <2> QED BY <2>1, <2>2
<1> QED BY <1>1 DEF CopiesHere, WriteRecord, clientVars, ghosts, Elements

LEMMA CopiesAck ==
    ASSUME TypeOK, LoopOK, CopiesHere, AckRecord \/ AckFails
    PROVE  CopiesHere'
<1>1. PICK k \in todo :
        /\ Oldest(k)
        /\ \/ Remove({k}) /\ kept' = kept
           \/ disk' = disk /\ kept' = kept \cup {disk[k]}
  BY DEF AckRecord, AckFails, ghosts
<1>2. k \in Stored /\ k \in Numbers
  BY Numbered DEF LoopOK
<1>3. UNCHANGED <<session, queue, sent, arrived>> /\ kept \subseteq kept'
  BY <1>1 DEF AckRecord, AckFails, clientVars, ghosts
<1>4. ASSUME NEW j \in Stored', disk'[j] \in Reached'
      PROVE  disk'[j] \in kept'
  <2>1. Reached' = Reached
    BY <1>3 DEF Reached, Elements
  <2>2. CASE Remove({k}) /\ kept' = kept
    <3>1. {k} \in SUBSET Numbers
      BY <1>2
    <3>2. j \in Stored /\ j # k /\ disk'[j] = disk[j]
      BY <2>2, <3>1, Removed DEF Shrinks
    <3>3. ~Oldest(j)
      BY <1>1, <3>2, OneOldest DEF Oldest
    <3> QED BY <1>4, <2>1, <2>2, <3>2, <3>3 DEF CopiesHere
  <2>3. CASE disk' = disk /\ kept' = kept \cup {disk[k]}
    <3>1. j \in Stored
      BY <2>3 DEF Stored
    <3>2. j = k \/ ~Oldest(j)
      BY <1>1, OneOldest DEF Oldest
    <3> QED BY <1>4, <2>1, <2>3, <3>1, <3>2 DEF CopiesHere
  <2> QED BY <1>1, <2>2, <2>3
<1> QED BY <1>3, <1>4 DEF CopiesHere, Elements

LEMMA CopiesPublish ==
    ASSUME TypeOK, LoopOK, DiskOK, CopiesHere, PublishRecord
    PROVE  CopiesHere'
<1>1. PICK k \in Stored :
        /\ k \in todo /\ Oldest(k)
        /\ Len(queue') = Len(queue) + 1
        /\ queue'[Len(queue) + 1] = disk[k]
        /\ \A i \in 1..Len(queue) : queue'[i] = queue[i]
        /\ Reached' = Reached \cup {disk[k]}
  BY Publishes
<1> DEFINE n == disk[k]
           last == Len(queue) + 1
<1>2. /\ UNCHANGED <<disk, todo, session, sent, arrived, kept>> /\ phase = "publish" /\ phase' = "ack"
      /\ Stored' = Stored /\ (Oldest(k)' <=> Oldest(k)) /\ Elements(arrived)' = Elements(arrived)
  BY DEF PublishRecord, ghosts, Stored, Oldest, Elements
<1>3. Len(queue) \in Nat /\ sent \in 0..Len(queue)
  BY Typed
<1>4. n \in Reached => n \in kept
  BY <1>2 DEF CopiesHere
<1>5. ASSUME NEW j \in Stored, disk[j] \in Reached'
      PROVE  disk[j] \in kept \/ Oldest(j)
  <2>1. CASE j = k
    BY <1>1, <2>1
  <2>2. CASE j # k
    <3>1. j \in Nat /\ k \in Nat /\ disk[j] \in Nat /\ disk[k] \in Nat
      BY Numbered DEF Numbers, Samples
    <3>2. disk[j] # disk[k]
      <4>1. CASE j < k
        BY <3>1, <4>1 DEF DiskOK
      <4>2. CASE k < j
        BY <3>1, <4>2 DEF DiskOK
      <4> QED BY <2>2, <3>1, <4>1, <4>2
    <3> QED BY <1>1, <1>2, <1>5, <3>2 DEF CopiesHere
  <2> QED BY <2>1, <2>2
<1>6. ASSUME NEW i \in (sent + 1)..Len(queue')
      PROVE  \/ i = last /\ queue'[i] = n
             \/ i \in (sent + 1)..Len(queue) /\ queue'[i] = queue[i] /\ queue[i] \in Reached
  <2>1. CASE i = last
    BY <1>1, <2>1
  <2>2. CASE i # last
    <3>1. i \in (sent + 1)..Len(queue) /\ i \in 1..Len(queue)
      BY <1>1, <1>3, <2>2
    <3> QED BY <1>1, <3>1, Typed DEF Reached
  <2> QED BY <2>1, <2>2
<1>10. queue'[last] = n
  BY <1>1
<1> HIDE DEF n, last
<1>7. ASSUME NEW i \in (sent + 1)..Len(queue'), queue'[i] \in Elements(arrived)
      PROVE  queue'[i] \in kept
  BY <1>4, <1>6, <1>7 DEF CopiesHere, Reached
<1>8. ASSUME NEW i \in (sent + 1)..Len(queue'), NEW j \in (sent + 1)..Len(queue'),
             i # j, queue'[i] = queue'[j]
      PROVE  queue'[i] \in kept
  <2>1. ASSUME NEW h \in (sent + 1)..Len(queue'), h # last, queue'[h] = n
        PROVE  n \in kept
    BY <1>4, <1>6, <2>1
  <2>3. CASE i = last
    BY <1>8, <1>10, <2>1, <2>3
  <2>4. CASE j = last
    BY <1>8, <1>10, <2>1, <2>4
  <2>2. CASE i # last /\ j # last
    BY <1>6, <1>8, <2>2 DEF CopiesHere
  <2> QED BY <2>2, <2>3, <2>4
<1>9. \A j : Oldest(j)' <=> Oldest(j)
  BY <1>2 DEF Oldest
<1> QED BY <1>2, <1>5, <1>7, <1>8, <1>9 DEF CopiesHere

LEMMA CopiesSend ==
    ASSUME TypeOK, CopiesHere, Send
    PROVE  CopiesHere'
<1> DEFINE x == queue[sent + 1]
           A == Elements(arrived)
<1>1. /\ sent + 1 \in 1..Len(queue) /\ Elements(arrived') = A \cup {x}
      /\ Len(arrived') = Len(arrived) + 1
      /\ arrived'[Len(arrived) + 1] = x
      /\ \A i \in 1..Len(arrived) : arrived'[i] = arrived[i]
      /\ Reached' = Reached
  BY Sends
<1>2. PICK d \in {0, 1} :
        /\ sent' + d = sent + 1 /\ Len(queue') + d = Len(queue)
        /\ \A i \in 1..Len(queue') : queue'[i] = queue[i + d]
  BY Sends
<1>3. /\ Len(queue) \in Nat /\ sent \in Nat /\ d \in Nat /\ Len(arrived) \in Nat
      /\ Len(queue') \in Nat /\ sent' \in Nat
  <2>1. queue' \in Seq(Samples) /\ sent' \in 0..Len(queue')
    BY Sends
  <2>2. Len(queue') \in Nat
    BY <2>1
  <2> QED BY <2>1, <2>2, Typed
<1>4. UNCHANGED <<disk, phase, todo, session, kept>>
  BY DEF Send, ghosts
<1>5. \A i \in (sent' + 1)..Len(queue') :
        i + d \in (sent + 2)..Len(queue) /\ queue'[i] = queue[i + d]
  <2> SUFFICES ASSUME NEW i \in (sent' + 1)..Len(queue')
               PROVE  i + d \in (sent + 2)..Len(queue) /\ queue'[i] = queue[i + d]
    OBVIOUS
  <2>1. i \in 1..Len(queue')
    BY <1>3, TailIndex
  <2>2. i + d \in (sent + 2)..Len(queue)
    BY <1>2, <1>3, ShiftedTail
  <2> QED BY <1>2, <2>1, <2>2
<1>6. \A i \in (sent + 2)..Len(queue) : i \in (sent + 1)..Len(queue) /\ i # sent + 1
  BY <1>3
<1>7. sent + 1 \in (sent + 1)..Len(queue)
  BY <1>1, <1>3
<1>8. ASSUME NEW i \in (sent + 2)..Len(queue), queue[i] \in A \cup {x}
      PROVE  queue[i] \in kept
  BY <1>6, <1>7, <1>8 DEF CopiesHere
<1>9. x \in A => x \in kept
  BY <1>7 DEF CopiesHere
<1> HIDE DEF x, A
<1>10. ASSUME NEW i \in (sent' + 1)..Len(queue'), queue'[i] \in A \cup {x}
       PROVE  queue'[i] \in kept
  BY <1>5, <1>8, <1>10
<1>11. ASSUME NEW i \in (sent' + 1)..Len(queue'), NEW j \in (sent' + 1)..Len(queue'),
              i # j, queue'[i] = queue'[j]
       PROVE  queue'[i] \in kept
  <2>1. i + d # j + d
    <3>1. i \in Nat /\ j \in Nat
      BY <1>3, TailIndex
    <3> QED BY <1>3, <1>11, <3>1
  <2> QED BY <1>5, <1>6, <1>11, <2>1 DEF CopiesHere
<1>12. ASSUME NEW i \in 1..Len(arrived'), NEW j \in 1..Len(arrived'),
              i # j, arrived'[i] = arrived'[j]
       PROVE  arrived'[i] \in kept
  <2>1. \A h \in 1..Len(arrived') :
            \/ h = Len(arrived) + 1 /\ arrived'[h] = x
            \/ h \in 1..Len(arrived) /\ arrived'[h] = arrived[h] /\ arrived[h] \in A
    <3> SUFFICES ASSUME NEW h \in 1..Len(arrived'), h # Len(arrived) + 1
                 PROVE  h \in 1..Len(arrived) /\ arrived'[h] = arrived[h] /\ arrived[h] \in A
      BY <1>1
    <3>1. h \in 1..Len(arrived)
      BY <1>1, <1>3
    <3> QED BY <1>1, <3>1, Typed DEF A
  <2>2. CASE i \in 1..Len(arrived) /\ j \in 1..Len(arrived)
    BY <1>1, <1>12, <2>2 DEF CopiesHere
  <2>3. CASE i \notin 1..Len(arrived) \/ j \notin 1..Len(arrived)
    BY <1>9, <1>12, <2>1, <2>3
  <2> QED BY <2>2, <2>3
<1>13. \A k : Oldest(k)' <=> Oldest(k)
  BY <1>4 DEF Oldest
<1>14. Stored' = Stored /\ Elements(arrived)' = A \cup {x}
  BY <1>1, <1>4 DEF Stored, Elements
<1> QED BY <1>1, <1>4, <1>10, <1>11, <1>12, <1>13, <1>14 DEF CopiesHere

LEMMA CopiesStep ==
    ASSUME TypeOK, LoopOK, DiskOK, CopiesOK, Next
    PROVE  CopiesOK'
<1> USE DEF clientVars, ghosts, bounds
<1>1. CASE breaks' = 0 /\ stops' = 0
  <2>1. ~Break /\ ~ClientEnds /\ ~Crash
    BY <1>1 DEF Break, ClientEnds, Crash, LoseQueue, TypeOK
  <2>2. breaks = 0 /\ stops = 0
    BY <1>1, <2>1 DEF Next, LoopStep, Sample, WriteRecord, WriteFails, Trim, TrimFails,
       KeepSession, Connect, ConnectFails, List, ListFails, PublishRecord, PublishFails,
       AckRecord, AckFails, EndTick, Send, Reconnect
  <2>3. CopiesHere
    BY <2>2 DEF CopiesOK
  <2>4. CASE WriteRecord \/ PublishRecord \/ AckRecord \/ AckFails \/ Send
    <3>1. WriteRecord => CopiesHere'
      BY <2>3, CopiesWrite
    <3>2. PublishRecord => CopiesHere'
      BY <2>3, CopiesPublish
    <3>3. AckRecord \/ AckFails => CopiesHere'
      BY <2>3, CopiesAck
    <3>4. Send => CopiesHere'
      BY <2>3, CopiesSend
    <3> QED BY <2>4, <3>1, <3>2, <3>3, <3>4 DEF CopiesOK
  <2> session # "dead"
    BY <2>3 DEF CopiesHere
  <2>5. CASE Sample \/ WriteFails \/ Trim \/ TrimFails
    <3>1. Shrinks
      BY <2>5, ShrinksOrWrites DEF Sample, WriteFails, Trim, TrimFails, WriteRecord
    <3> QED BY <2>3, <2>5, <3>1, CopiesKept
            DEF Sample, WriteFails, Trim, TrimFails, CopiesOK
  <2>6. CASE KeepSession \/ Connect \/ ConnectFails \/ List \/ ListFails
    <3>1. Shrinks
      BY <2>6 DEF KeepSession, Connect, ConnectFails, List, ListFails, Shrinks, Stored
    <3> QED BY <2>3, <2>6, <3>1, CopiesKept
            DEF KeepSession, Connect, ConnectFails, List, ListFails, CopiesOK
  <2>7. CASE PublishFails \/ EndTick \/ Reconnect
    <3>1. Shrinks
      BY <2>7 DEF PublishFails, EndTick, Reconnect, Shrinks, Stored
    <3> QED BY <2>3, <2>7, <3>1, CopiesKept
            DEF PublishFails, EndTick, Reconnect, CopiesOK
  <2> QED BY <2>1, <2>4, <2>5, <2>6, <2>7 DEF Next, LoopStep
<1>2. CASE ~(breaks' = 0 /\ stops' = 0)
  BY <1>2 DEF CopiesOK
<1> QED BY <1>1, <1>2
------------------------------------------------------------------------------
LEMMA Inductive == IInv /\ [Next]_vars => IInv'
<1> SUFFICES ASSUME IInv, [Next]_vars PROVE IInv'
  OBVIOUS
<1> USE DEF IInv
<1>1. CASE Next
  <2>1. TypeOK'
    BY <1>1, LoopTyped, ClientTyped DEF Next
  <2>2. LoopOK' /\ DiskOK' /\ AckOK' /\ ListOK'
    BY <1>1, LoopOKStep, DiskOKStep, HandedStep
  <2>3. AheadOK' /\ QueueOK' /\ ArrivesInOrder'
    BY <1>1, AheadStep, QueueStep, OrderStep
  <2>4. HasCause' /\ CopiesOK'
    BY <1>1, LossStep, CopiesStep
  <2>5. OldestTrimmed'
    BY <1>1, TrimmedStep
  <2> QED BY <2>1, <2>2, <2>3, <2>4, <2>5
<1>2. CASE UNCHANGED vars
  <2>1. TypeOK'
    BY <1>2, TypeKept
  <2>2. UNCHANGED <<taken, disk, next_seq, phase, todo, session, queue, sent, arrived>>
    BY <1>2 DEF vars, clientVars
  <2>3. UNCHANGED <<unsaved, trimmed, abandoned, kept, faults, breaks, stops>>
    BY <1>2 DEF vars, ghosts, bounds
  <2>4. /\ Stored' = Stored /\ Reached' = Reached /\ Elements(arrived)' = Elements(arrived)
        /\ \A k : Oldest(k)' <=> Oldest(k)
    BY <2>2 DEF Stored, Reached, Elements, Oldest
  <2>5. LoopOK' /\ DiskOK' /\ AckOK' /\ ListOK' /\ AheadOK'
    BY <2>2, <2>3, <2>4 DEF LoopOK, DiskOK, AckOK, ListOK, Live, AheadOK
  <2>6. QueueOK' /\ ArrivesInOrder' /\ HasCause'
    BY <2>2, <2>3, <2>4 DEF QueueOK, ArrivesInOrder, HasCause, Somewhere, Contents, Elements
  <2>7. CopiesOK'
    BY <2>2, <2>3, <2>4 DEF CopiesOK, CopiesHere
  <2>8. OldestTrimmed'
    BY <2>2, <2>3 DEF OldestTrimmed
  <2> QED BY <2>1, <2>5, <2>6, <2>7, <2>8
<1> QED BY <1>1, <1>2

LEMMA Invariant == Spec => []IInv
  BY Initially, Inductive, PTL DEF Spec

(* Records, listing and client queue have their types for any number of    *)
(* envelopes, records and faults; sequence numbers never run ahead of the  *)
(* envelopes, and the queue stays within its capacity until a connection   *)
(* breaks.                                                                 *)
THEOREM TypeCorrect == Spec => []TypeOK
<1>1. IInv => TypeOK
  BY DEF IInv
<1> QED BY <1>1, Invariant, PTL

(* An envelope that was made is on disk, in the client or with the broker, *)
(* or one of the named causes took it; the limit takes none that has not   *)
(* as many newer ones as the spool keeps.                                  *)
THEOREM LossSafe == Spec => []LossHasCause
<1>1. IInv => LossHasCause
  BY DEF IInv, LossHasCause
<1> QED BY <1>1, Invariant, PTL

(* Envelopes reach the broker in the order they were made in, repetitions  *)
(* aside.                                                                  *)
THEOREM OrderSafe == Spec => []ArrivesInOrder
<1>1. IInv => ArrivesInOrder
  BY DEF IInv
<1> QED BY <1>1, Invariant, PTL

(* An envelope arrives twice only after a removal failed or something      *)
(* broke or stopped.                                                       *)
THEOREM DuplicateSafe == Spec => []DuplicateHasCause
<1>1. IInv => DuplicateHasCause
  <2> SUFFICES ASSUME IInv PROVE DuplicateHasCause
    OBVIOUS
  <2>1. breaks \in Nat /\ stops \in Nat
    BY SpoolAssumption DEF IInv, TypeOK
  <2>2. breaks = 0 \/ breaks > 0
    BY <2>1
  <2>3. stops = 0 \/ stops > 0
    BY <2>1
  <2>4. DOMAIN arrived = 1..Len(arrived)
    BY Typed DEF IInv
  <2> QED BY <2>2, <2>3, <2>4 DEF IInv, CopiesOK, CopiesHere, DuplicateHasCause
<1> QED BY <1>1, Invariant, PTL
=============================================================================
