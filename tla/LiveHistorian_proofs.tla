------------------------ MODULE LiveHistorian_proofs ------------------------
EXTENDS LiveHistorian, TLAPS

(* Which positions the calls can be at. *)
CallOK ==
    /\ op = "ingest" => envelope \in Envelopes
    /\ op = "drain" => stops < MaxStops
    /\ stage = "publish" => op \in {"ingest", "tick", "drain"}
    /\ stage = "apply" => op = "ingest"
    /\ stage = "seal" => op = "drain"

LEMMA LargerNat == ASSUME NEW x \in Nat, NEW y \in Nat
                   PROVE  /\ Larger(x, y) \in Nat
                          /\ Larger(x, y) >= x
                          /\ Larger(x, y) = x \/ Larger(x, y) = y
  BY DEF Larger

LEMMA NoRowsType == NoRows \in [Envelopes -> Nat]
  BY DEF NoRows

LEMMA MonthsOfType == ASSUME NEW S \in SUBSET Envelopes PROVE MonthsOf(S) \subseteq Nat
  BY LiveHistorianAssumption DEF MonthsOf

LEMMA TypeStep == TypeOK /\ CallOK /\ [Next]_vars => TypeOK' /\ CallOK'
<1> SUFFICES ASSUME TypeOK, CallOK, [Next]_vars PROVE TypeOK' /\ CallOK'
  OBVIOUS
<1> USE LiveHistorianAssumption, NoRowsType DEF TypeOK, CallOK
<1>1. ASSUME NEW e \in Envelopes, ReceiveDuplicate(e) PROVE TypeOK' /\ CallOK'
  BY <1>1 DEF ReceiveDuplicate, Deliver, memoryVars, callVars, storeVars
<1>2. ASSUME NEW e \in Envelopes, ReceiveInvalid(e) PROVE TypeOK' /\ CallOK'
  BY <1>2 DEF ReceiveInvalid, Deliver, memoryVars, callVars, storeVars
<1>3. ASSUME NEW e \in Envelopes, ReceiveEnvelope(e) PROVE TypeOK' /\ CallOK'
  BY <1>3 DEF ReceiveEnvelope, Deliver, Begin, KeysOf, memoryVars, storeVars
<1>4. ASSUME NEW k \in Keys, Elapse(k) PROVE TypeOK' /\ CallOK'
  BY <1>4 DEF Elapse, callVars, storeVars, auxVars
<1>5. CASE BeginTick
  BY <1>5 DEF BeginTick, Begin, memoryVars, storeVars, auxVars
<1>6. CASE BeginDrain
  BY <1>6 DEF BeginDrain, Begin, PendingKeys, memoryVars, storeVars, auxVars
<1>7. CASE RefuseGroup
  BY <1>7 DEF RefuseGroup, Return, memoryVars, storeVars
<1>8. CASE PushGroup
  <2>1. envelope \in Envelopes
    BY <1>8 DEF PushGroup
  <2>2. PICK k \in todo :
          /\ buffered' = [buffered EXCEPT ![k][envelope] = @ + 1]
          /\ \/ stage' = "publish" /\ months' = MonthsOf(RowsOf(k)') /\ UNCHANGED todo
             \/ todo' = todo \ {k} /\ UNCHANGED <<stage, months>>
    BY <1>8 DEF PushGroup
  <2>3. buffered' \in [Keys -> [Envelopes -> Nat]]
    <3>1. k \in Keys /\ buffered[k] \in [Envelopes -> Nat]
      OBVIOUS
    <3>2. [buffered[k] EXCEPT ![envelope] = @ + 1] \in [Envelopes -> Nat]
      BY <2>1, <3>1
    <3> QED BY <2>2, <3>1, <3>2
  <2>4. months' \subseteq Nat
    <3>1. RowsOf(k)' \in SUBSET Envelopes
      BY DEF RowsOf
    <3> QED BY <2>2, <3>1, MonthsOfType
  <2>5. op = "ingest"
    BY <1>8 DEF PushGroup
  <2>6. UNCHANGED <<due, seen, latest, op, envelope, reported, storeVars, auxVars>>
    BY <1>8 DEF PushGroup
  <2> QED BY <2>1, <2>2, <2>3, <2>4, <2>5, <2>6 DEF storeVars, auxVars
<1>9. CASE AcceptEnvelope
  BY <1>9 DEF AcceptEnvelope, Return, storeVars, auxVars
<1>10. CASE SelectKey
  BY <1>10 DEF SelectKey, MonthsOf, RowsOf, memoryVars, storeVars, auxVars
<1>11. CASE PublishPart
  BY <1>11 DEF PublishPart, memoryVars, auxVars
<1>12. CASE PublishFails
  <2>1. /\ torn' \subseteq Keys \X Envelopes
        /\ faults' \in 0..MaxFaults
    <3>1. PICK k \in todo :
            /\ IsFirst(k, todo)
            /\ faults < MaxFaults /\ faults' = faults + 1
            /\ torn' = torn \cup {<<k, e>> : e \in {r \in RowsOf(k) : MonthOf[r] \notin months}}
      BY <1>12, Zenon DEF PublishFails
    <3>2. {<<k, e>> : e \in {r \in RowsOf(k) : MonthOf[r] \notin months}} \subseteq Keys \X Envelopes
      BY DEF RowsOf
    <3> QED BY <3>1, <3>2
  <2>2. UNCHANGED <<copies, watermark, deliveries>>
    BY <1>12 DEF PublishFails, storeVars
  <2>3. CASE op = "ingest" /\ rejected' = rejected \cup {envelope} /\ Return
             /\ UNCHANGED <<memoryVars, stops>>
    BY <2>1, <2>2, <2>3 DEF Return, memoryVars
  <2>4. CASE op = "tick" /\ Return /\ UNCHANGED <<memoryVars, rejected, stops>>
    BY <2>1, <2>2, <2>4 DEF Return, memoryVars
  <2>5. CASE op = "drain" /\ Exit /\ stops' = stops + 1 /\ UNCHANGED rejected
    BY <2>1, <2>2, <2>5 DEF Exit
  <2> QED BY <1>12, <2>3, <2>4, <2>5 DEF PublishFails
<1>13. CASE KeyFlushed
  <2>1. PICK k \in todo :
          /\ \E r \in RowsOf(k) : reported' = Larger(reported, ObservedAt[r])
          /\ buffered' = [buffered EXCEPT ![k] = NoRows]
          /\ due' = due \ {k}
          /\ todo' = todo \ {k}
    BY <1>13 DEF KeyFlushed, FinishKey
  <2>2. reported' \in Nat
    BY <2>1, LargerNat DEF RowsOf
  <2>3. buffered' \in [Keys -> [Envelopes -> Nat]]
    BY <2>1
  <2>4. /\ stage = "publish"
        /\ stage' = IF op = "ingest" THEN "apply" ELSE "select"
        /\ UNCHANGED <<seen, latest, op, envelope, months, storeVars, auxVars>>
    BY <1>13 DEF KeyFlushed, FinishKey
  <2> QED BY <2>1, <2>2, <2>3, <2>4 DEF storeVars, auxVars
<1>14. CASE ApplyFlushes
  <2>1. latest' = Larger(latest, reported) /\ latest' \in Nat
    BY <1>14, LargerNat DEF ApplyFlushes
  <2>2. watermark' \in Nat /\ faults' \in 0..MaxFaults
    BY <1>14, <2>1 DEF ApplyFlushes, WriteWatermark
  <2>3. UNCHANGED <<buffered, due, seen, copies, rejected, torn, deliveries, stops>>
    BY <1>14 DEF ApplyFlushes
  <2>4. CASE op = "ingest" /\ stage' = "select" /\ reported' = 0
             /\ UNCHANGED <<op, envelope, todo, months>>
    BY <2>1, <2>2, <2>3, <2>4
  <2>5. CASE op = "tick" /\ Return
    BY <2>1, <2>2, <2>3, <2>5 DEF Return
  <2>6. CASE op = "drain" /\ stage' = "seal" /\ reported' = 0
             /\ UNCHANGED <<op, envelope, todo, months>>
    BY <2>1, <2>2, <2>3, <2>6
  <2> QED BY <1>14, <2>4, <2>5, <2>6 DEF ApplyFlushes
<1>15. CASE SealDrain
  BY <1>15 DEF SealDrain, WriteWatermark, Exit
<1>16. CASE Crash
  BY <1>16 DEF Crash, Exit, storeVars
<1>17. CASE Start
  BY <1>17 DEF Start, storeVars, auxVars
<1>18. CASE UNCHANGED vars
  BY <1>18 DEF vars, memoryVars, callVars, storeVars, auxVars
<1> QED
  BY <1>1, <1>2, <1>3, <1>4, <1>5, <1>6, <1>7, <1>8, <1>9, <1>10, <1>11, <1>12,
     <1>13, <1>14, <1>15, <1>16, <1>17, <1>18 DEF Next, CallStep

(* Every variable keeps its type: buffer and store counts never go         *)
(* negative, a call in progress knows its envelope, and the bookkeeping of *)
(* faults and stops stays within its bounds.                               *)
THEOREM TypeCorrect == Spec => []TypeOK
<1>1. Init => TypeOK /\ CallOK
  BY LiveHistorianAssumption, NoRowsType DEF Init, TypeOK, CallOK
<1>2. TypeOK /\ CallOK /\ [Next]_vars => TypeOK' /\ CallOK'
  BY TypeStep
<1> QED BY <1>1, <1>2, PTL DEF Spec

------------------------------------------------------------------------------
(* The inductive invariant.                                                *)

Held(k, e) == buffered[k][e] > 0 \/ Stored(k, e)

(* A time in use by the watermark belongs to a published row. *)
Backed(t) ==
    t # 0 => \E k \in Keys, e \in Envelopes : Stored(k, e) /\ ObservedAt[e] = t

TimesBacked == Backed(watermark) /\ Backed(latest) /\ Backed(reported)

(* A row of the key being flushed is published or its month is still due.  *)
PartsOK ==
    stage = "publish" =>
        \A k \in todo, e \in Envelopes :
            IsFirst(k, todo) /\ buffered[k][e] > 0 => MonthOf[e] \in months \/ Stored(k, e)

(* The groups of the envelope that push_at is done with are held, and so   *)
(* is the one whose flush is in progress.                                  *)
IngestOK ==
    op = "ingest" =>
        \A k \in KeysOf(envelope) :
            k \notin todo \/ (stage = "publish" /\ IsFirst(k, todo)) => Held(k, envelope)

(* A drain has still to visit every key that has rows. *)
DrainOK ==
    op = "drain" => PendingKeys \subseteq todo /\ (stage = "seal" => todo = {})

LatestOK == op = "down" \/ watermark <= latest

IInv ==
    /\ TypeOK /\ CallOK
    /\ AcceptedIsStored
    /\ TimesBacked
    /\ PartsOK
    /\ IngestOK
    /\ DrainOK
    /\ LatestOK

LEMMA FirstUnique == ASSUME TypeOK, NEW k \in todo, NEW q \in todo,
                            IsFirst(k, todo), IsFirst(q, todo)
                     PROVE  k = q
<1>1. k \in Nat /\ q \in Nat
  BY LiveHistorianAssumption DEF TypeOK
<1>2. k <= q /\ q <= k
  BY DEF IsFirst
<1> QED BY <1>1, <1>2

(* A failed publication ends the call or the process. *)
LEMMA PublishFailsFrame ==
  PublishFails => UNCHANGED storeVars /\ (Exit \/ (Return /\ UNCHANGED memoryVars))
<1>1. ASSUME PublishFails PROVE storeVars' = storeVars
  <2>1. UNCHANGED <<storeVars, deliveries>>
    BY <1>1, Zenon DEF PublishFails
  <2> QED BY <2>1
<1>2. ASSUME PublishFails PROVE Exit \/ (Return /\ memoryVars' = memoryVars)
  <2>1. \/ Return /\ UNCHANGED <<memoryVars, stops>>
        \/ Return /\ UNCHANGED <<memoryVars, rejected, stops>>
        \/ Exit
    BY <1>2, Zenon DEF PublishFails
  <2>2. UNCHANGED <<memoryVars, stops>> => memoryVars' = memoryVars
    OBVIOUS
  <2>3. UNCHANGED <<memoryVars, rejected, stops>> => memoryVars' = memoryVars
    OBVIOUS
  <2> QED BY <2>1, <2>2, <2>3
<1> QED BY <1>1, <1>2

(* Which steps touch what. *)
LEMMA Frames ==
  ASSUME [Next]_vars
  PROVE  /\ UNCHANGED copies \/ PublishPart
         /\ UNCHANGED <<buffered, seen>> \/ Exit \/ PushGroup \/ AcceptEnvelope \/ KeyFlushed
         /\ UNCHANGED <<op, stage, envelope, todo, months>>
              \/ (\E e \in Envelopes : ReceiveEnvelope(e)) \/ BeginTick \/ BeginDrain
              \/ Return \/ PushGroup \/ SelectKey \/ PublishPart \/ KeyFlushed
              \/ ApplyFlushes \/ Exit \/ Start
         /\ UNCHANGED <<latest, reported, watermark>> \/ (Return /\ UNCHANGED <<latest, watermark>>)
              \/ (Exit /\ UNCHANGED watermark) \/ KeyFlushed \/ ApplyFlushes \/ SealDrain \/ Start
<1> USE DEF memoryVars, callVars, storeVars, auxVars
<1>1. ASSUME NEW e \in Envelopes, ReceiveDuplicate(e) \/ ReceiveInvalid(e)
      PROVE  UNCHANGED <<memoryVars, callVars, storeVars>>
  BY <1>1 DEF ReceiveDuplicate, ReceiveInvalid
<1>2. ASSUME NEW e \in Envelopes, ReceiveEnvelope(e)
      PROVE  UNCHANGED <<memoryVars, reported, storeVars>>
  BY <1>2 DEF ReceiveEnvelope, Begin
<1>3. ASSUME NEW k \in Keys, Elapse(k)
      PROVE  UNCHANGED <<buffered, seen, latest, callVars, storeVars>>
  BY <1>3 DEF Elapse
<1>4. BeginTick \/ BeginDrain => UNCHANGED <<memoryVars, reported, storeVars>>
  BY DEF BeginTick, BeginDrain, Begin
<1>5. RefuseGroup => Return /\ UNCHANGED <<memoryVars, storeVars>>
  BY DEF RefuseGroup
<1>6. PushGroup => UNCHANGED <<latest, reported, storeVars>>
  BY DEF PushGroup
<1>7. AcceptEnvelope => Return /\ UNCHANGED <<latest, storeVars>>
  BY DEF AcceptEnvelope
<1>8. SelectKey => UNCHANGED <<memoryVars, reported, storeVars>>
  BY DEF SelectKey
<1>9. PublishPart => UNCHANGED <<memoryVars, reported, watermark>>
  BY DEF PublishPart
<1>10. PublishFails => UNCHANGED storeVars /\ (Exit \/ (Return /\ UNCHANGED memoryVars))
  BY PublishFailsFrame
<1>11. KeyFlushed => UNCHANGED storeVars
  BY DEF KeyFlushed, FinishKey
<1>12. ApplyFlushes => UNCHANGED <<buffered, seen, copies>>
  BY DEF ApplyFlushes
<1>13. SealDrain => Exit /\ UNCHANGED copies
  BY DEF SealDrain
<1>14. Crash => Exit /\ UNCHANGED storeVars
  BY DEF Crash
<1>15. Start => UNCHANGED <<buffered, seen, storeVars>>
  BY DEF Start
<1>16. UNCHANGED vars => UNCHANGED <<memoryVars, callVars, storeVars>>
  BY DEF vars
<1> QED BY <1>1, <1>2, <1>3, <1>4, <1>5, <1>6, <1>7, <1>8, <1>9, <1>10, <1>11, <1>12,
           <1>13, <1>14, <1>15, <1>16 DEF Next, CallStep

LEMMA StoredGrows ==
  ASSUME TypeOK, [Next]_vars, NEW k \in Keys, NEW e \in Envelopes, Stored(k, e)
  PROVE  Stored(k, e)'
<1>1. CASE UNCHANGED copies
  BY <1>1 DEF Stored
<1>2. CASE PublishPart
  <2>1. PICK q \in todo, m \in months :
          copies' = [copies EXCEPT ![q] = [r \in Envelopes |->
                        @[r] + IF MonthOf[r] = m THEN buffered[q][r] ELSE 0]]
    BY <1>2 DEF PublishPart
  <2>2. copies[k][e] \in Nat /\ buffered[q][e] \in Nat
    BY DEF TypeOK
  <2>3. copies'[k][e] \in Nat /\ copies'[k][e] >= copies[k][e]
    BY <2>1, <2>2 DEF TypeOK
  <2>4. copies[k][e] > 0
    BY DEF Stored
  <2>5. copies'[k][e] > 0
    BY <2>2, <2>3, <2>4
  <2> QED BY <2>5 DEF Stored
<1> QED BY <1>1, <1>2, Frames

LEMMA BackedGrows == ASSUME TypeOK, [Next]_vars, NEW t, Backed(t)
                     PROVE  t # 0 => \E k \in Keys, e \in Envelopes :
                                        Stored(k, e)' /\ ObservedAt[e] = t
  BY StoredGrows DEF Backed

(* What a flush that has published all its months may let go of. *)
LEMMA FlushedKey ==
  ASSUME TypeOK, PartsOK, KeyFlushed
  PROVE  \E k \in todo :
           /\ IsFirst(k, todo)
           /\ buffered' = [buffered EXCEPT ![k] = NoRows]
           /\ todo' = todo \ {k}
           /\ \A e \in Envelopes : buffered[k][e] > 0 => Stored(k, e)
           /\ \E r \in Envelopes : Stored(k, r) /\ reported' = Larger(reported, ObservedAt[r])
<1>1. PICK k \in todo :
        /\ IsFirst(k, todo)
        /\ \E r \in RowsOf(k) : reported' = Larger(reported, ObservedAt[r])
        /\ buffered' = [buffered EXCEPT ![k] = NoRows]
        /\ todo' = todo \ {k}
  BY DEF KeyFlushed, FinishKey
<1>2. \A e \in Envelopes : buffered[k][e] > 0 => Stored(k, e)
  BY <1>1 DEF PartsOK, KeyFlushed, FinishKey
<1> QED BY <1>1, <1>2 DEF RowsOf

LEMMA PushedKey ==
  ASSUME TypeOK, CallOK, PushGroup
  PROVE  \E k \in todo :
           /\ IsFirst(k, todo)
           /\ buffered'[k][envelope] > 0
           /\ \A q \in Keys, e \in Envelopes : buffered'[q][e] >= buffered[q][e]
           /\ \/ stage' = "publish" /\ months' = MonthsOf(RowsOf(k)') /\ todo' = todo
              \/ todo' = todo \ {k} /\ stage' = "select"
<1>1. PICK k \in todo :
        /\ IsFirst(k, todo)
        /\ buffered' = [buffered EXCEPT ![k][envelope] = @ + 1]
        /\ \/ stage' = "publish" /\ months' = MonthsOf(RowsOf(k)') /\ todo' = todo
           \/ todo' = todo \ {k} /\ stage' = stage
  BY DEF PushGroup
<1>2. op = "ingest" /\ stage = "select" /\ envelope \in Envelopes
  BY DEF PushGroup, CallOK
<1>3. buffered[k] \in [Envelopes -> Nat] /\ k \in Keys
  BY DEF TypeOK
<1>4. buffered'[k] = [buffered[k] EXCEPT ![envelope] = @ + 1]
  BY <1>1, <1>3 DEF TypeOK
<1>5. \A q \in Keys : q # k => buffered'[q] = buffered[q]
  BY <1>1 DEF TypeOK
<1>6. \A q \in Keys : buffered[q] \in [Envelopes -> Nat]
  BY DEF TypeOK
<1>7. \A q \in Keys, e \in Envelopes : buffered'[q][e] >= buffered[q][e]
  BY <1>2, <1>3, <1>4, <1>5, <1>6
<1>8. buffered'[k][envelope] > 0
  BY <1>2, <1>3, <1>4
<1> QED BY <1>1, <1>2, <1>7, <1>8

------------------------------------------------------------------------------
(* Each part of the invariant is preserved.                                *)

LEMMA HeldStays ==
  ASSUME TypeOK, CallOK, PartsOK, [Next]_vars, ~Exit,
         NEW k \in Keys, NEW e \in Envelopes, Held(k, e)
  PROVE  Held(k, e)'
<1>1. CASE Stored(k, e)
  BY <1>1, StoredGrows DEF Held
<1>2. ASSUME buffered[k][e] > 0, UNCHANGED buffered PROVE Held(k, e)'
  BY <1>2 DEF Held
<1>3. ASSUME buffered[k][e] > 0, PushGroup PROVE Held(k, e)'
  <2>1. buffered'[k][e] >= buffered[k][e]
    BY <1>3, PushedKey
  <2>2. buffered'[k][e] \in Nat /\ buffered[k][e] \in Nat
    BY TypeStep DEF TypeOK
  <2>3. buffered'[k][e] > 0
    BY <1>3, <2>1, <2>2
  <2> QED BY <2>3 DEF Held
<1>4. ASSUME buffered[k][e] > 0, KeyFlushed PROVE Held(k, e)'
  <2>1. PICK q \in todo :
          /\ buffered' = [buffered EXCEPT ![q] = NoRows]
          /\ \A r \in Envelopes : buffered[q][r] > 0 => Stored(q, r)
    BY <1>4, FlushedKey
  <2>2. CASE q = k
    <3>1. Stored(k, e)
      BY <1>4, <2>1, <2>2
    <3> QED BY <3>1, StoredGrows DEF Held
  <2>3. CASE q # k
    <3>1. buffered'[k] = buffered[k]
      BY <2>1, <2>3 DEF TypeOK
    <3> QED BY <1>4, <3>1 DEF Held
  <2> QED BY <2>2, <2>3
<1>5. AcceptEnvelope => UNCHANGED buffered
  BY DEF AcceptEnvelope
<1> QED BY <1>1, <1>2, <1>3, <1>4, <1>5, Frames DEF Held

LEMMA AcceptedStep ==
  ASSUME TypeOK, CallOK, AcceptedIsStored, PartsOK, IngestOK, [Next]_vars
  PROVE  AcceptedIsStored'
<1>1. CASE Exit
  BY <1>1 DEF Exit, AcceptedIsStored
<1>2. CASE ~Exit
  <2> SUFFICES ASSUME NEW e \in seen', NEW k \in KeysOf(e) PROVE Held(k, e)'
    BY DEF AcceptedIsStored, Held, KeysOf
  <2>1. e \in Envelopes /\ k \in Keys
    BY TypeStep, LiveHistorianAssumption DEF TypeOK, KeysOf
  <2>2. CASE e \in seen
    BY <1>2, <2>1, <2>2, HeldStays DEF AcceptedIsStored, Held
  <2>3. CASE e \notin seen
    <3>1. AcceptEnvelope
      BY <1>2, <2>3, Frames DEF PushGroup, KeyFlushed, FinishKey
    <3>2. op = "ingest" /\ todo = {} /\ e = envelope
      BY <2>3, <3>1 DEF AcceptEnvelope
    <3>3. Held(k, e)
      BY <3>2 DEF IngestOK
    <3> QED BY <1>2, <2>1, <3>3, HeldStays
  <2> QED BY <2>2, <2>3
<1> QED BY <1>1, <1>2

LEMMA PartsStep ==
  ASSUME TypeOK, CallOK, PartsOK, [Next]_vars
  PROVE  PartsOK'
<1>1. CASE PushGroup
  <2>1. PICK k \in todo :
           /\ IsFirst(k, todo)
           /\ \/ stage' = "publish" /\ months' = MonthsOf(RowsOf(k)') /\ todo' = todo
              \/ todo' = todo \ {k} /\ stage' = "select"
    BY <1>1, PushedKey
  <2> SUFFICES ASSUME stage' = "publish", NEW q \in todo', NEW e \in Envelopes,
                      IsFirst(q, todo'), buffered'[q][e] > 0
               PROVE  MonthOf[e] \in months'
    BY DEF PartsOK, IsFirst
  <2>2. q = k
    BY <2>1, FirstUnique
  <2>3. e \in RowsOf(k)'
    BY <2>2 DEF RowsOf
  <2> QED BY <2>1, <2>3 DEF MonthsOf
<1>2. CASE SelectKey
  <2>1. PICK k \in todo : IsFirst(k, todo) /\ months' = MonthsOf(RowsOf(k))
    BY <1>2 DEF SelectKey
  <2>2. UNCHANGED <<buffered, todo>>
    BY <1>2 DEF SelectKey, memoryVars
  <2> SUFFICES ASSUME NEW q \in todo', NEW e \in Envelopes,
                      IsFirst(q, todo'), buffered'[q][e] > 0
               PROVE  MonthOf[e] \in months'
    BY DEF PartsOK, IsFirst
  <2>3. q = k
    BY <2>1, <2>2, FirstUnique
  <2> QED BY <2>1, <2>2, <2>3 DEF MonthsOf, RowsOf
<1>3. CASE PublishPart
  <2>1. PICK k \in todo, m \in months :
          /\ IsFirst(k, todo)
          /\ copies' = [copies EXCEPT ![k] = [e \in Envelopes |->
                          @[e] + IF MonthOf[e] = m THEN buffered[k][e] ELSE 0]]
          /\ months' = months \ {m}
    BY <1>3 DEF PublishPart
  <2>2. UNCHANGED <<buffered, todo>> /\ stage = "publish"
    BY <1>3 DEF PublishPart, memoryVars
  <2> SUFFICES ASSUME NEW q \in todo, NEW e \in Envelopes,
                      IsFirst(q, todo), buffered[q][e] > 0, MonthOf[e] \notin months'
               PROVE  Stored(q, e)'
    BY <2>2 DEF PartsOK, IsFirst
  <2>3. q = k /\ q \in Keys
    BY <2>1, FirstUnique DEF TypeOK
  <2>4. CASE Stored(q, e)
    BY <2>3, <2>4, StoredGrows
  <2>5. CASE MonthOf[e] = m
    <3>1. copies[q][e] \in Nat /\ buffered[q][e] \in Nat
      BY <2>3 DEF TypeOK
    <3>2. copies'[q][e] = copies[q][e] + buffered[q][e]
      BY <2>1, <2>3, <2>5 DEF TypeOK
    <3> QED BY <3>1, <3>2 DEF Stored
  <2> QED BY <2>1, <2>2, <2>4, <2>5 DEF PartsOK
<1>4. CASE UNCHANGED <<op, stage, envelope, todo, months>>
  <2> SUFFICES ASSUME stage = "publish", NEW k \in todo, NEW e \in Envelopes,
                      IsFirst(k, todo), buffered'[k][e] > 0, MonthOf[e] \notin months
               PROVE  Stored(k, e)'
    BY <1>4 DEF PartsOK, IsFirst
  <2>1. UNCHANGED buffered
    <3>1. ~PushGroup
      BY DEF PushGroup
    <3>2. ~AcceptEnvelope
      BY DEF AcceptEnvelope
    <3>3. ~KeyFlushed
      BY <1>4 DEF KeyFlushed, FinishKey
    <3>4. ~Exit
      BY <1>4 DEF Exit
    <3> QED BY <3>1, <3>2, <3>3, <3>4, Frames
  <2> QED BY <2>1, StoredGrows DEF PartsOK, TypeOK
<1>5. CASE stage' # "publish"
  BY <1>5 DEF PartsOK
<1>6. \/ \E e \in Envelopes : ReceiveEnvelope(e)
      \/ BeginTick \/ BeginDrain \/ Return \/ KeyFlushed \/ ApplyFlushes \/ Exit
      => stage' # "publish"
  BY Zenon DEF ReceiveEnvelope, BeginTick, BeginDrain, Begin, Return, KeyFlushed, FinishKey, ApplyFlushes, Exit
<1>7. Start => stage' # "publish"
  BY DEF Start, CallOK
<1> QED BY <1>1, <1>2, <1>3, <1>4, <1>5, <1>6, <1>7, Frames

LEMMA IngestStep ==
  ASSUME TypeOK, CallOK, PartsOK, IngestOK, [Next]_vars
  PROVE  IngestOK'
<1>1. CASE op' # "ingest"
  BY <1>1 DEF IngestOK
<1>2. CASE \E e \in Envelopes : ReceiveEnvelope(e)
  <2>1. PICK e \in Envelopes : todo' = KeysOf(e) /\ envelope' = e /\ stage' = "select"
    BY <1>2 DEF ReceiveEnvelope, Begin
  <2> QED BY <2>1 DEF IngestOK, KeysOf
<1>3. CASE op = "ingest" /\ op' = "ingest" /\ envelope' = envelope
  <2>1. ~Exit /\ envelope \in Envelopes /\ KeysOf(envelope) \subseteq Keys
    BY <1>3, LiveHistorianAssumption DEF Exit, CallOK, KeysOf
  <2> SUFFICES ASSUME NEW k \in KeysOf(envelope),
                      k \notin todo' \/ (stage' = "publish" /\ IsFirst(k, todo'))
               PROVE  Held(k, envelope)'
    BY <1>3 DEF IngestOK, KeysOf, IsFirst
  <2>2. CASE k \notin todo \/ (stage = "publish" /\ IsFirst(k, todo))
    <3>1. Held(k, envelope)
      BY <1>3, <2>2 DEF IngestOK
    <3>2. Held(k, envelope) => (buffered'[k][envelope] > 0 \/ copies'[k][envelope] > 0)
      BY <2>1, HeldStays DEF Held, Stored
    <3> QED BY <1>3, <3>1, <3>2 DEF Held, Stored
  <2>3. CASE k \in todo /\ ~(stage = "publish" /\ IsFirst(k, todo))
    <3>1. CASE PushGroup
      <4>1. PICK q \in todo :
              /\ IsFirst(q, todo)
              /\ buffered'[q][envelope] > 0
              /\ \/ stage' = "publish" /\ todo' = todo
                 \/ todo' = todo \ {q} /\ stage' = "select"
        BY <3>1, PushedKey
      <4>2. k = q
        BY <2>3, <4>1, FirstUnique DEF IsFirst
      <4> QED BY <1>3, <4>1, <4>2 DEF Held
    <3>2. CASE KeyFlushed
      BY <2>3, <3>2, FlushedKey, FirstUnique DEF KeyFlushed, FinishKey
    <3>3. CASE PublishPart
      BY <2>3, <3>3 DEF PublishPart
    <3>4. CASE ApplyFlushes
      BY <1>3, <2>3, <3>4 DEF ApplyFlushes, CallOK, Return
    <3>5. CASE UNCHANGED <<op, stage, envelope, todo, months>>
      BY <2>3, <3>5 DEF IsFirst
    <3>6. ~SelectKey /\ ~Return /\ ~Exit /\ ~Start /\ ~BeginTick /\ ~BeginDrain
          /\ ~(\E e \in Envelopes : ReceiveEnvelope(e))
      BY <1>3 DEF SelectKey, Return, Exit, Start, BeginTick, BeginDrain, Begin, ReceiveEnvelope
    <3> QED BY <3>1, <3>2, <3>3, <3>4, <3>5, <3>6, Frames
  <2> QED BY <2>2, <2>3
<1>4. op' = "ingest" => \/ \E e \in Envelopes : ReceiveEnvelope(e)
                        \/ op = "ingest" /\ envelope' = envelope
  <2>1. CASE UNCHANGED <<op, stage, envelope, todo, months>>
    BY <2>1 DEF CallOK
  <2>2. (PushGroup \/ SelectKey \/ PublishPart \/ KeyFlushed) => UNCHANGED <<op, envelope>>
    BY DEF PushGroup, SelectKey, PublishPart, KeyFlushed, FinishKey
  <2>3. (BeginTick \/ BeginDrain \/ Return \/ Exit \/ Start) => op' # "ingest"
    BY DEF BeginTick, BeginDrain, Begin, Return, Exit, Start
  <2>4. ApplyFlushes => op' # "ingest" \/ UNCHANGED <<op, envelope>>
    BY DEF ApplyFlushes, Return
  <2> QED BY <2>1, <2>2, <2>3, <2>4, Frames
<1> QED BY <1>1, <1>2, <1>3, <1>4

LEMMA DrainStep ==
  ASSUME TypeOK, CallOK, PartsOK, DrainOK, [Next]_vars
  PROVE  DrainOK'
<1>1. CASE op' # "drain"
  BY <1>1 DEF DrainOK
<1>2. CASE BeginDrain
  BY <1>2 DEF BeginDrain, Begin, DrainOK, PendingKeys, RowsOf, memoryVars
<1>3. CASE op = "drain" /\ op' = "drain"
  <2>1. CASE UNCHANGED <<op, stage, envelope, todo, months>> /\ UNCHANGED buffered
    BY <2>1 DEF DrainOK, PendingKeys, RowsOf
  <2>2. CASE SelectKey \/ PublishPart
    BY <1>3, <2>2 DEF SelectKey, PublishPart, DrainOK, PendingKeys, RowsOf, memoryVars
  <2>3. CASE ApplyFlushes
    BY <1>3, <2>3 DEF ApplyFlushes, Return, CallOK, DrainOK, PendingKeys, RowsOf
  <2>4. CASE KeyFlushed
    <3>1. PICK k \in todo : buffered' = [buffered EXCEPT ![k] = NoRows] /\ todo' = todo \ {k}
      BY <2>4, FlushedKey
    <3>2. stage' # "seal"
      BY <2>4 DEF KeyFlushed, FinishKey
    <3>3. ASSUME NEW q \in Keys, NEW e \in Envelopes, buffered'[q][e] > 0
          PROVE  q \in todo'
      <4>1. q # k
        BY <3>1, <3>3 DEF NoRows, TypeOK
      <4>2. buffered[q][e] > 0
        BY <3>1, <3>3, <4>1 DEF TypeOK
      <4> QED BY <1>3, <3>1, <4>1, <4>2 DEF DrainOK, PendingKeys, RowsOf
    <3> QED BY <3>2, <3>3 DEF DrainOK, PendingKeys, RowsOf
  <2>5. ~PushGroup /\ ~AcceptEnvelope /\ ~Exit /\ ~Return /\ ~Start /\ ~BeginTick /\ ~BeginDrain
        /\ ~(\E e \in Envelopes : ReceiveEnvelope(e))
    BY <1>3 DEF PushGroup, AcceptEnvelope, Exit, Return, Start, BeginTick, BeginDrain, Begin,
                ReceiveEnvelope
  <2> QED BY <2>1, <2>2, <2>3, <2>4, <2>5, Frames
<1>4. op' = "drain" => BeginDrain \/ op = "drain"
  <2>1. (PushGroup \/ SelectKey \/ PublishPart \/ KeyFlushed) => UNCHANGED op
    BY DEF PushGroup, SelectKey, PublishPart, KeyFlushed, FinishKey
  <2>2. (BeginTick \/ Return \/ Exit \/ Start \/ \E e \in Envelopes : ReceiveEnvelope(e))
           => op' # "drain"
    BY DEF BeginTick, Begin, Return, Exit, Start, ReceiveEnvelope
  <2>3. ApplyFlushes => op' # "drain" \/ UNCHANGED op
    BY DEF ApplyFlushes, Return
  <2> QED BY <2>1, <2>2, <2>3, Frames
<1> QED BY <1>1, <1>2, <1>3, <1>4

LEMMA TimesStep ==
  ASSUME TypeOK, CallOK, PartsOK, TimesBacked, [Next]_vars
  PROVE  TimesBacked'
<1> DEFINE Kept(t) == t # 0 => \E k \in Keys, e \in Envelopes : Stored(k, e)' /\ ObservedAt[e] = t
<1>1. Kept(watermark) /\ Kept(latest) /\ Kept(reported)
  BY BackedGrows DEF TimesBacked
<1>2. Kept(0)
  OBVIOUS
<1> SUFFICES Kept(watermark') /\ Kept(latest') /\ Kept(reported')
  BY DEF TimesBacked, Backed
<1> HIDE DEF Kept
<1>3. CASE UNCHANGED <<latest, reported, watermark>>
  BY <1>1, <1>3
<1>4. CASE Return /\ UNCHANGED <<latest, watermark>>
  BY <1>1, <1>2, <1>4 DEF Return
<1>5. CASE Exit /\ UNCHANGED watermark
  BY <1>1, <1>2, <1>5 DEF Exit
<1>6. CASE KeyFlushed
  <2>1. PICK k \in todo, r \in Envelopes : Stored(k, r) /\ reported' = Larger(reported, ObservedAt[r])
    BY <1>6, FlushedKey
  <2>2. Stored(k, r)' /\ k \in Keys
    BY <2>1, StoredGrows DEF TypeOK
  <2>3. Kept(ObservedAt[r])
    BY <2>2 DEF Kept
  <2>4. reported' = reported \/ reported' = ObservedAt[r]
    BY <2>1 DEF Larger
  <2>5. UNCHANGED <<latest, watermark>>
    BY <1>6 DEF KeyFlushed, FinishKey, storeVars
  <2> QED BY <1>1, <2>3, <2>4, <2>5
<1>7. CASE ApplyFlushes
  <2>1. latest' = latest \/ latest' = reported
    BY <1>7 DEF ApplyFlushes, Larger
  <2>2. watermark' = watermark \/ watermark' = latest'
    BY <1>7 DEF ApplyFlushes, WriteWatermark
  <2>3. reported' = 0
    BY <1>7 DEF ApplyFlushes, Return
  <2> QED BY <1>1, <1>2, <2>1, <2>2, <2>3
<1>8. CASE SealDrain
  <2>1. watermark' = watermark \/ watermark' = latest
    BY <1>8 DEF SealDrain, WriteWatermark
  <2>2. latest' = 0 /\ reported' = 0
    BY <1>8 DEF SealDrain, Exit
  <2> QED BY <1>1, <1>2, <2>1, <2>2
<1>9. CASE Start
  <2>1. latest' = watermark /\ UNCHANGED <<watermark, reported>>
    BY <1>9 DEF Start, storeVars
  <2> QED BY <1>1, <2>1
<1> QED BY <1>3, <1>4, <1>5, <1>6, <1>7, <1>8, <1>9, Frames

LEMMA LatestStep ==
  ASSUME TypeOK, CallOK, LatestOK, [Next]_vars
  PROVE  LatestOK' /\ watermark' >= watermark
<1> USE DEF TypeOK, LatestOK
<1>1. CASE UNCHANGED <<latest, watermark>>
  <2>1. op = "down" => op' = "down" \/ Start
    BY DEF Next, CallStep, ReceiveDuplicate, ReceiveInvalid, ReceiveEnvelope, Deliver, Elapse,
           BeginTick, BeginDrain, Begin, RefuseGroup, PushGroup, AcceptEnvelope, SelectKey,
           PublishPart, PublishFails, KeyFlushed, FinishKey, ApplyFlushes, SealDrain, Crash, CallOK,
           vars, callVars
  <2> QED BY <1>1, <2>1 DEF Start
<1>2. CASE Exit /\ UNCHANGED watermark
  BY <1>2 DEF Exit
<1>3. CASE ApplyFlushes
  <2>1. latest' \in Nat /\ latest' >= latest
    BY <1>3, LargerNat DEF ApplyFlushes
  <2>2. watermark' = watermark \/ watermark' = latest'
    BY <1>3 DEF ApplyFlushes, WriteWatermark
  <2>3. op # "down"
    BY <1>3 DEF ApplyFlushes, CallOK
  <2> QED BY <2>1, <2>2, <2>3
<1>4. CASE SealDrain
  <2>1. (watermark' = watermark \/ watermark' = latest) /\ op' = "down" /\ op # "down"
    BY <1>4 DEF SealDrain, WriteWatermark, Exit, CallOK
  <2> QED BY <2>1
<1>5. CASE Start
  BY <1>5 DEF Start, storeVars
<1>6. KeyFlushed => UNCHANGED <<latest, watermark>>
  BY DEF KeyFlushed, FinishKey, storeVars
<1> QED BY <1>1, <1>2, <1>3, <1>4, <1>5, <1>6, Frames

LEMMA InductiveInit == Init => IInv
  BY LiveHistorianAssumption, NoRowsType
     DEF Init, IInv, TypeOK, CallOK, AcceptedIsStored, TimesBacked, Backed, PartsOK, IngestOK,
         DrainOK, LatestOK

LEMMA InductiveStep == IInv /\ [Next]_vars => IInv'
<1> SUFFICES ASSUME IInv, [Next]_vars PROVE IInv'
  OBVIOUS
<1>1. TypeOK /\ CallOK /\ AcceptedIsStored /\ TimesBacked /\ PartsOK /\ IngestOK /\ DrainOK /\ LatestOK
  BY DEF IInv
<1>2. TypeOK' /\ CallOK'
  BY <1>1, TypeStep
<1>3. AcceptedIsStored' /\ TimesBacked'
  BY <1>1, AcceptedStep, TimesStep
<1>4. PartsOK' /\ IngestOK' /\ DrainOK' /\ LatestOK'
  BY <1>1, PartsStep, IngestStep, DrainStep, LatestStep
<1> QED BY <1>2, <1>3, <1>4 DEF IInv

LEMMA Inductive == Spec => []IInv
  BY InductiveInit, InductiveStep, PTL DEF Spec

------------------------------------------------------------------------------
(* Rows that are readable twice.                                           *)

HasCause(k, e) ==
    \/ <<k, e>> \in torn
    \/ deliveries[e] > 1 /\ (e \in rejected \/ stops > 0)

AtPublish(k) == stage = "publish" /\ k \in todo /\ IsFirst(k, todo)

(* Without a cause a row is buffered once at most and published once, both *)
(* only in the flush that has published it; and the row of the envelope in *)
(* hand is nowhere before it is pushed.                                    *)
Once(k, e) ==
    /\ buffered[k][e] \in {0, 1} /\ copies[k][e] \in {0, 1}
    /\ buffered[k][e] = 0 \/ copies[k][e] = 0 \/ (AtPublish(k) /\ MonthOf[e] \notin months)
    /\ (op = "ingest" /\ envelope = e /\ k \in todo /\ ~AtPublish(k)) =>
            buffered[k][e] = 0 /\ copies[k][e] = 0

OnceOK == \A k \in Keys, e \in Envelopes : HasCause(k, e) \/ Once(k, e)

(* An envelope that was delivered is accepted or rejected, unless it is in *)
(* hand or the process has ended since.                                    *)
KnownOK ==
    \A e \in Envelopes :
        /\ deliveries[e] = 0 => \A k \in Keys : buffered[k][e] = 0 /\ copies[k][e] = 0
        /\ deliveries[e] > 0 =>
                e \in seen \cup rejected \/ stops > 0 \/ (op = "ingest" /\ envelope = e)
        /\ (op = "ingest" /\ envelope = e) => deliveries[e] > 0

DownOK == op = "down" => stops > 0

(* What is observed only grows. *)
LEMMA ObservedGrows ==
  ASSUME TypeOK, CallOK, DownOK, [Next]_vars
  PROVE  /\ torn \subseteq torn' /\ rejected \subseteq rejected'
         /\ stops' \in {stops, stops + 1} /\ (Exit => stops' > 0)
         /\ faults' \in {faults, faults + 1}
         /\ \/ UNCHANGED deliveries
            \/ \E e \in Envelopes :
                /\ ReceiveDuplicate(e) \/ ReceiveInvalid(e) \/ ReceiveEnvelope(e)
                /\ deliveries' = [deliveries EXCEPT ![e] = @ + 1]
<1> USE DEF memoryVars, callVars, storeVars, auxVars
<1>0. stops \in Nat
  BY LiveHistorianAssumption DEF TypeOK
<1>1. ASSUME NEW e \in Envelopes, ReceiveDuplicate(e) \/ ReceiveInvalid(e) \/ ReceiveEnvelope(e)
      PROVE  /\ torn \subseteq torn' /\ rejected \subseteq rejected' /\ UNCHANGED <<stops, faults>>
             /\ op' # "down"
             /\ deliveries' = [deliveries EXCEPT ![e] = @ + 1]
  BY <1>1 DEF ReceiveDuplicate, ReceiveInvalid, ReceiveEnvelope, Deliver, Begin
<1>2. ASSUME NEW k \in Keys, Elapse(k)
      PROVE  UNCHANGED auxVars /\ op' # "down"
  BY <1>2 DEF Elapse
<1>3. BeginTick \/ BeginDrain \/ PushGroup \/ AcceptEnvelope \/ SelectKey \/ PublishPart \/ KeyFlushed \/ Start
      => UNCHANGED auxVars /\ op' # "down"
  BY DEF BeginTick, BeginDrain, Begin, PushGroup, AcceptEnvelope, Return, SelectKey, PublishPart,
         KeyFlushed, FinishKey, Start, CallOK
<1>4. RefuseGroup => UNCHANGED <<torn, deliveries, faults, stops>> /\ rejected \subseteq rejected' /\ op' # "down"
  BY DEF RefuseGroup, Return
<1>5. ASSUME PublishFails
      PROVE  /\ torn \subseteq torn' /\ rejected \subseteq rejected' /\ faults' = faults + 1
             /\ UNCHANGED deliveries
             /\ (stops' = stops /\ op' = "idle") \/ stops' = stops + 1
  <2>1. torn \subseteq torn' /\ faults' = faults + 1 /\ UNCHANGED <<storeVars, deliveries>>
    BY <1>5, Zenon DEF PublishFails
  <2>2. \/ op = "ingest" /\ rejected' = rejected \cup {envelope} /\ Return /\ UNCHANGED <<memoryVars, stops>>
        \/ op = "tick" /\ Return /\ UNCHANGED <<memoryVars, rejected, stops>>
        \/ op = "drain" /\ Exit /\ stops' = stops + 1 /\ UNCHANGED rejected
    BY <1>5, Zenon DEF PublishFails
  <2> QED BY <2>1, <2>2 DEF Return
<1>6. ApplyFlushes => /\ UNCHANGED <<torn, rejected, deliveries, stops>> /\ op' # "down"
                      /\ faults' \in {faults, faults + 1}
  BY DEF ApplyFlushes, WriteWatermark, Return, CallOK
<1>7. SealDrain \/ Crash => /\ UNCHANGED <<torn, rejected, deliveries>> /\ stops' = stops + 1
                            /\ faults' \in {faults, faults + 1}
  BY DEF SealDrain, Crash, WriteWatermark
<1>8. CASE UNCHANGED vars
  BY <1>0, <1>8 DEF vars, DownOK, Exit
<1> QED BY <1>0, <1>1, <1>2, <1>3, <1>4, <1>5, <1>6, <1>7, <1>8 DEF Next, CallStep, Exit

(* A publication goes on until the key is flushed, fails, or ends with the *)
(* process.                                                                *)
LEMMA PublishLeaves ==
  ASSUME CallOK, [Next]_vars, stage = "publish"
  PROVE  \/ UNCHANGED <<op, stage, envelope, todo, months, buffered, copies>>
         \/ PublishPart \/ PublishFails \/ KeyFlushed \/ Exit
  BY DEF Next, CallStep, CallOK, ReceiveDuplicate, ReceiveInvalid, ReceiveEnvelope, Deliver, Elapse,
         BeginTick, BeginDrain, Begin, RefuseGroup, PushGroup, AcceptEnvelope, SelectKey,
         ApplyFlushes, SealDrain, Crash, Start, vars, memoryVars, callVars, storeVars

LEMMA CauseStays ==
  ASSUME TypeOK, CallOK, DownOK, [Next]_vars, NEW k \in Keys, NEW e \in Envelopes, HasCause(k, e)
  PROVE  HasCause(k, e)'
<1>1. deliveries[e] \in Nat /\ stops \in Nat
  BY LiveHistorianAssumption DEF TypeOK
<1>2. deliveries'[e] \in {deliveries[e], deliveries[e] + 1}
  BY <1>1, ObservedGrows DEF TypeOK
<1>3. torn \subseteq torn' /\ rejected \subseteq rejected' /\ stops' \in {stops, stops + 1}
  BY ObservedGrows
<1> QED BY <1>1, <1>2, <1>3 DEF HasCause

LEMMA KnownStep ==
  ASSUME TypeOK, CallOK, DownOK, KnownOK, [Next]_vars
  PROVE  KnownOK'
<1> SUFFICES ASSUME NEW e \in Envelopes
             PROVE  /\ deliveries'[e] = 0 =>
                            \A k \in Keys : buffered'[k][e] = 0 /\ copies'[k][e] = 0
                    /\ deliveries'[e] > 0 =>
                            \/ e \in seen' \cup rejected' \/ stops' > 0
                            \/ (op' = "ingest" /\ envelope' = e)
                    /\ (op' = "ingest" /\ envelope' = e) => deliveries'[e] > 0
  BY DEF KnownOK
<1>1. /\ deliveries[e] \in Nat /\ stops \in Nat /\ rejected \subseteq rejected'
      /\ stops' \in {stops, stops + 1} /\ (Exit => stops' > 0)
  BY ObservedGrows, LiveHistorianAssumption DEF TypeOK
<1>2. /\ deliveries[e] = 0 => \A k \in Keys : buffered[k][e] = 0 /\ copies[k][e] = 0
      /\ deliveries[e] > 0 => e \in seen \cup rejected \/ stops > 0 \/ (op = "ingest" /\ envelope = e)
      /\ (op = "ingest" /\ envelope = e) => deliveries[e] > 0
  BY DEF KnownOK
<1>3. CASE \E r \in Envelopes : ReceiveDuplicate(r) \/ ReceiveInvalid(r) \/ ReceiveEnvelope(r)
  <2>1. PICK r \in Envelopes : ReceiveDuplicate(r) \/ ReceiveInvalid(r) \/ ReceiveEnvelope(r)
    BY <1>3
  <2>2. /\ deliveries' = [deliveries EXCEPT ![r] = @ + 1] /\ op = "idle"
        /\ UNCHANGED <<buffered, copies, seen, stops>>
        /\ \/ r \in seen' \cup rejected' /\ op' = "idle"
           \/ op' = "ingest" /\ envelope' = r
    BY <2>1 DEF ReceiveDuplicate, ReceiveInvalid, ReceiveEnvelope, Deliver, Begin, memoryVars, callVars,
                storeVars
  <2> QED BY <1>1, <1>2, <2>2 DEF TypeOK
<1>4. CASE ~\E r \in Envelopes : ReceiveDuplicate(r) \/ ReceiveInvalid(r) \/ ReceiveEnvelope(r)
  <2>1. UNCHANGED deliveries
    BY <1>4, ObservedGrows
  <2>2. deliveries[e] = 0 => \A k \in Keys : buffered'[k][e] = 0 /\ copies'[k][e] = 0
    <3> SUFFICES ASSUME deliveries[e] = 0, NEW k \in Keys
                 PROVE  buffered'[k][e] = 0 /\ copies'[k][e] = 0
      OBVIOUS
    <3>1. buffered[k][e] = 0 /\ copies[k][e] = 0 /\ ~(op = "ingest" /\ envelope = e)
      BY <1>2
    <3>2. CASE PushGroup
      <4>1. PICK q \in todo : buffered' = [buffered EXCEPT ![q][envelope] = @ + 1]
        BY <3>2 DEF PushGroup
      <4>2. envelope # e /\ UNCHANGED copies
        BY <3>1, <3>2 DEF PushGroup, storeVars
      <4> QED BY <3>1, <4>1, <4>2 DEF TypeOK
    <3>3. CASE PublishPart
      <4>1. PICK q \in todo, m \in months :
              copies' = [copies EXCEPT ![q] = [r \in Envelopes |->
                            @[r] + IF MonthOf[r] = m THEN buffered[q][r] ELSE 0]]
        BY <3>3 DEF PublishPart
      <4>2. UNCHANGED buffered
        BY <3>3 DEF PublishPart, memoryVars
      <4> QED BY <3>1, <4>1, <4>2 DEF TypeOK
    <3>4. CASE KeyFlushed
      <4>1. UNCHANGED copies /\ \E q \in todo : buffered' = [buffered EXCEPT ![q] = NoRows]
        BY <3>4 DEF KeyFlushed, FinishKey, storeVars
      <4> QED BY <3>1, <4>1 DEF TypeOK, NoRows
    <3>5. CASE Exit /\ ~PublishPart
      <4>1. UNCHANGED copies
        BY <3>5, Frames
      <4> QED BY <3>1, <3>5, <4>1 DEF Exit, NoRows
    <3>6. CASE UNCHANGED <<buffered, copies>>
      BY <3>1, <3>6
    <3>7. AcceptEnvelope => UNCHANGED <<buffered, copies>>
      BY DEF AcceptEnvelope, storeVars
    <3> QED BY <3>2, <3>3, <3>4, <3>5, <3>6, <3>7, Frames
  <2>3. (op' = "ingest" /\ envelope' = e) => (op = "ingest" /\ envelope = e)
    BY <1>4 DEF Next, CallStep, Elapse, BeginTick, BeginDrain, Begin, RefuseGroup, PushGroup, AcceptEnvelope,
                Return, SelectKey, PublishPart, PublishFails, KeyFlushed, FinishKey, ApplyFlushes, SealDrain,
                Exit, Crash, Start, CallOK, vars, callVars
  <2>4. e \in seen => e \in seen' \/ stops' > 0
    <3>1. AcceptEnvelope \/ PushGroup \/ KeyFlushed => seen \subseteq seen'
      BY DEF AcceptEnvelope, PushGroup, KeyFlushed, FinishKey
    <3> QED BY <1>1, <3>1, Frames
  <2>5. (op = "ingest" /\ envelope = e /\ ~(op' = "ingest" /\ envelope' = e)) =>
            e \in seen' \cup rejected' \/ stops' > 0
    <3> SUFFICES ASSUME op = "ingest", envelope = e, ~(op' = "ingest" /\ envelope' = e), ~Exit
                 PROVE  e \in seen' \cup rejected'
      BY <1>1
    <3>1. RefuseGroup => e \in rejected'
      BY DEF RefuseGroup
    <3>2. AcceptEnvelope => e \in seen'
      BY DEF AcceptEnvelope
    <3>3. PublishFails => e \in rejected'
      BY Zenon DEF PublishFails
    <3>4. SealDrain \/ Crash => Exit
      BY DEF SealDrain, Crash
    <3> QED BY <1>4, <3>1, <3>2, <3>3, <3>4
            DEF Next, CallStep, Elapse, BeginTick, BeginDrain, Begin, PushGroup, SelectKey, PublishPart,
                KeyFlushed, FinishKey, ApplyFlushes, Start, vars, callVars
  <2> QED BY <1>1, <1>2, <2>1, <2>2, <2>3, <2>4, <2>5
<1> QED BY <1>3, <1>4

(* A row comes into the buffer once, and from there into the store once. *)
LEMMA OnceStep ==
  ASSUME TypeOK, CallOK, DownOK, KnownOK, OnceOK, [Next]_vars
  PROVE  OnceOK'
<1> SUFFICES ASSUME NEW k \in Keys, NEW e \in Envelopes, ~HasCause(k, e)' PROVE Once(k, e)'
  BY DEF OnceOK
<1>1. ~HasCause(k, e) /\ Once(k, e)
  BY CauseStays DEF OnceOK
<1>2. buffered[k] \in [Envelopes -> Nat] /\ copies[k] \in [Envelopes -> Nat]
  BY DEF TypeOK
<1>3. CASE PublishPart
  <2>1. PICK q \in todo, m \in months :
          /\ IsFirst(q, todo)
          /\ copies' = [copies EXCEPT ![q] = [r \in Envelopes |->
                          @[r] + IF MonthOf[r] = m THEN buffered[q][r] ELSE 0]]
          /\ months' = months \ {m}
    BY <1>3 DEF PublishPart
  <2>2. stage = "publish" /\ UNCHANGED <<buffered, op, stage, envelope, todo>>
    BY <1>3 DEF PublishPart, memoryVars
  <2>3. AtPublish(k)' <=> AtPublish(k)
    BY <2>2 DEF AtPublish, IsFirst
  <2>4. CASE k # q
    <3>1. copies'[k] = copies[k]
      BY <2>1, <2>4 DEF TypeOK
    <3>2. ~AtPublish(k)
      BY <2>1, <2>4, FirstUnique DEF AtPublish
    <3> QED BY <1>1, <2>2, <2>3, <3>1, <3>2 DEF Once
  <2>5. CASE k = q
    <3>1. AtPublish(k)
      BY <2>1, <2>2, <2>5 DEF AtPublish
    <3>2. copies'[k][e] = copies[k][e] + IF MonthOf[e] = m THEN buffered[k][e] ELSE 0
      BY <2>1, <2>5 DEF TypeOK
    <3>3. CASE MonthOf[e] = m
      BY <1>1, <1>2, <2>1, <2>2, <2>3, <3>1, <3>2, <3>3 DEF Once
    <3>4. CASE MonthOf[e] # m
      BY <1>1, <1>2, <2>1, <2>2, <2>3, <3>1, <3>2, <3>4 DEF Once
    <3> QED BY <3>3, <3>4
  <2> QED BY <2>4, <2>5
<1>4. CASE PushGroup
  <2>1. PICK q \in todo :
          /\ IsFirst(q, todo)
          /\ buffered' = [buffered EXCEPT ![q][envelope] = @ + 1]
          /\ \/ stage' = "publish" /\ UNCHANGED todo
             \/ todo' = todo \ {q} /\ UNCHANGED stage
    BY <1>4 DEF PushGroup
  <2>2. op = "ingest" /\ stage = "select" /\ UNCHANGED <<op, envelope, copies>> /\ envelope \in Envelopes
    BY <1>4 DEF PushGroup, storeVars, CallOK
  <2>3. ~AtPublish(k)
    BY <2>2 DEF AtPublish
  <2>4. CASE k = q /\ e = envelope
    <3>1. buffered[k][e] = 0 /\ copies[k][e] = 0
      BY <1>1, <2>2, <2>3, <2>4 DEF Once
    <3>2. buffered'[k][e] = 1
      BY <1>2, <2>1, <2>4, <3>1 DEF TypeOK
    <3>3. k \notin todo' \/ AtPublish(k)'
      BY <2>1, <2>4 DEF AtPublish, IsFirst
    <3> QED BY <2>2, <3>1, <3>2, <3>3 DEF Once
  <2>5. CASE ~(k = q /\ e = envelope)
    <3>1. buffered'[k][e] = buffered[k][e]
      BY <1>2, <2>1, <2>2, <2>5 DEF TypeOK
    <3>2. todo' \subseteq todo
      BY <2>1
    <3> QED BY <1>1, <2>2, <2>3, <3>1, <3>2 DEF Once
  <2> QED BY <2>4, <2>5
<1>5. CASE KeyFlushed
  <2>1. PICK q \in todo :
          /\ IsFirst(q, todo)
          /\ buffered' = [buffered EXCEPT ![q] = NoRows]
          /\ todo' = todo \ {q}
    BY <1>5 DEF KeyFlushed, FinishKey
  <2>2. stage' # "publish" /\ UNCHANGED <<op, envelope, copies>>
    BY <1>5 DEF KeyFlushed, FinishKey, storeVars
  <2>3. CASE k = q
    BY <1>1, <2>1, <2>2, <2>3 DEF Once, NoRows, TypeOK
  <2>4. CASE k # q
    <3>1. buffered'[k] = buffered[k]
      BY <2>1, <2>4 DEF TypeOK
    <3>2. ~AtPublish(k)
      BY <2>1, <2>4, FirstUnique DEF AtPublish
    <3> QED BY <1>1, <2>1, <2>2, <3>1, <3>2 DEF Once
  <2> QED BY <2>3, <2>4
<1>6. CASE Exit /\ UNCHANGED copies
  BY <1>1, <1>6 DEF Exit, Once, NoRows
<1>7. CASE PublishFails /\ ~Exit
  <2>1. UNCHANGED <<buffered, copies>> /\ Return
    BY <1>7, PublishFailsFrame DEF storeVars, memoryVars
  <2>2. PICK q \in todo :
          /\ IsFirst(q, todo)
          /\ torn' = torn \cup {<<q, r>> : r \in {x \in RowsOf(q) : MonthOf[x] \notin months}}
    BY <1>7, Zenon DEF PublishFails
  <2>3. (AtPublish(k) /\ MonthOf[e] \notin months) => buffered[k][e] = 0
    <3> SUFFICES ASSUME AtPublish(k), MonthOf[e] \notin months, buffered[k][e] # 0 PROVE FALSE
      OBVIOUS
    <3>1. k = q
      BY <2>2, FirstUnique DEF AtPublish
    <3>2. e \in RowsOf(k)
      BY <1>2 DEF RowsOf
    <3>3. <<k, e>> \in torn'
      BY <2>2, <3>1, <3>2
    <3> QED BY <3>3 DEF HasCause
  <2> QED BY <1>1, <2>1, <2>3 DEF Once, Return
<1>8. CASE UNCHANGED <<buffered, copies>> /\ stage # "publish"
  <2>1. ~AtPublish(k)
    BY <1>8 DEF AtPublish
  <2>2. CASE \E r \in Envelopes : ReceiveEnvelope(r)
    <3>1. PICK r \in Envelopes : ReceiveEnvelope(r)
      BY <2>2
    <3>2. /\ envelope' = r /\ r \notin seen /\ op = "idle"
          /\ deliveries' = [deliveries EXCEPT ![r] = @ + 1] /\ UNCHANGED <<rejected, stops>>
      BY <3>1 DEF ReceiveEnvelope, Deliver, Begin
    <3>3. r = e => buffered[k][e] = 0 /\ copies[k][e] = 0
      <4> SUFFICES ASSUME r = e PROVE buffered[k][e] = 0 /\ copies[k][e] = 0
        OBVIOUS
      <4>1. deliveries[e] \in Nat /\ deliveries'[e] = deliveries[e] + 1
        BY <3>2 DEF TypeOK
      <4>2. deliveries[e] = 0
        <5> SUFFICES ASSUME deliveries[e] > 0 PROVE FALSE
          BY <4>1
        <5>1. e \in rejected \/ stops > 0
          BY <3>2 DEF KnownOK
        <5> QED BY <3>2, <4>1, <5>1 DEF HasCause
      <4> QED BY <4>2 DEF KnownOK
    <3> QED BY <1>1, <1>8, <2>1, <3>2, <3>3 DEF Once
  <2>3. CASE ~\E r \in Envelopes : ReceiveEnvelope(r)
    <3>1. op' = "ingest" => op = "ingest" /\ envelope' = envelope /\ todo' = todo
      <4>1. AcceptEnvelope \/ RefuseGroup => Return
        BY DEF AcceptEnvelope, RefuseGroup
      <4>2. ~PublishPart /\ ~PublishFails /\ ~KeyFlushed
        BY <1>8, Zenon DEF PublishPart, PublishFails, KeyFlushed
      <4>3. PushGroup => FALSE
        <5> SUFFICES ASSUME PushGroup PROVE FALSE
          OBVIOUS
        <5>1. PICK q \in todo : buffered' = [buffered EXCEPT ![q][envelope] = @ + 1]
          BY DEF PushGroup
        <5>2. q \in Keys /\ envelope \in Envelopes /\ buffered[q][envelope] \in Nat
          BY DEF PushGroup, CallOK, TypeOK
        <5> QED BY <1>8, <5>1, <5>2 DEF TypeOK
      <4> QED BY <2>3, <4>1, <4>2, <4>3
              DEF Next, CallStep, ReceiveDuplicate, ReceiveInvalid, Elapse, BeginTick, BeginDrain, Begin,
                  Return, SelectKey, ApplyFlushes, SealDrain, Crash, Exit, Start, vars, callVars
    <3> QED BY <1>1, <1>8, <2>1, <3>1 DEF Once
  <2> QED BY <2>2, <2>3
<1>9. CASE UNCHANGED <<op, stage, envelope, todo, months, buffered, copies>>
  BY <1>1, <1>9 DEF Once, AtPublish, IsFirst
<1>10. Exit => UNCHANGED copies
  BY Frames DEF Exit, PublishPart
<1>11. stage # "publish" => UNCHANGED <<buffered, copies>> \/ Exit \/ PushGroup
  BY Frames DEF AcceptEnvelope, KeyFlushed, FinishKey, PublishPart
<1> QED BY <1>3, <1>4, <1>5, <1>6, <1>7, <1>8, <1>9, <1>10, <1>11, PublishLeaves

------------------------------------------------------------------------------
(* The watermark of a store that works.                                    *)

Undisturbed == faults = 0 /\ stops = 0

(* What a call has to report is gone when it returns; what is published is *)
(* reported, or in the watermark, or of the key being flushed.             *)
ExactOK ==
    Undisturbed =>
        /\ op = "idle" => reported = 0 /\ stage = "select"
        /\ op = "ingest" /\ stage \in {"select", "publish"} => reported = 0
        /\ stage = "seal" => reported = 0
        /\ \A k \in Keys, e \in Envelopes : Stored(k, e) =>
                \/ ObservedAt[e] <= watermark \/ ObservedAt[e] <= reported
                \/ AtPublish(k) /\ buffered[k][e] > 0

LEMMA ExactStep ==
  ASSUME TypeOK, CallOK, DownOK, LatestOK, ExactOK, [Next]_vars
  PROVE  ExactOK'
<1> SUFFICES ASSUME Undisturbed'
             PROVE  /\ op' = "idle" => reported' = 0 /\ stage' = "select"
                    /\ op' = "ingest" /\ stage' \in {"select", "publish"} => reported' = 0
                    /\ stage' = "seal" => reported' = 0
                    /\ \A k \in Keys, e \in Envelopes : Stored(k, e)' =>
                            \/ ObservedAt[e] <= watermark' \/ ObservedAt[e] <= reported'
                            \/ AtPublish(k)' /\ buffered'[k][e] > 0
  BY DEF ExactOK, Undisturbed
<1>1. Undisturbed /\ ~Exit /\ op # "down"
  <2>1. faults \in Nat /\ stops \in Nat
    BY LiveHistorianAssumption DEF TypeOK
  <2> QED BY <2>1, ObservedGrows DEF Undisturbed, DownOK
<1>2. /\ op = "idle" => reported = 0 /\ stage = "select"
      /\ op = "ingest" /\ stage \in {"select", "publish"} => reported = 0
      /\ stage = "seal" => reported = 0
      /\ \A k \in Keys, e \in Envelopes : Stored(k, e) =>
              \/ ObservedAt[e] <= watermark \/ ObservedAt[e] <= reported
              \/ AtPublish(k) /\ buffered[k][e] > 0
  BY <1>1 DEF ExactOK
<1>3. watermark \in Nat /\ latest \in Nat /\ reported \in Nat /\ watermark <= latest
      /\ \A e \in Envelopes : ObservedAt[e] \in Nat /\ ObservedAt[e] > 0
  BY <1>1, LiveHistorianAssumption DEF TypeOK, LatestOK
<1>4. ~PublishFails
  <2>1. PublishFails => faults' = faults + 1
    BY Zenon DEF PublishFails
  <2> QED BY <1>1, <2>1 DEF Undisturbed
<1>5. CASE PublishPart
  <2>1. PICK q \in todo, m \in months :
          /\ IsFirst(q, todo)
          /\ copies' = [copies EXCEPT ![q] = [r \in Envelopes |->
                          @[r] + IF MonthOf[r] = m THEN buffered[q][r] ELSE 0]]
    BY <1>5 DEF PublishPart
  <2>2. stage = "publish" /\ UNCHANGED <<buffered, op, stage, envelope, todo, watermark, reported>>
    BY <1>5 DEF PublishPart, memoryVars
  <2>3. \A k \in Keys : AtPublish(k)' <=> AtPublish(k)
    BY <2>2 DEF AtPublish, IsFirst
  <2>4. ASSUME NEW k \in Keys, NEW e \in Envelopes, Stored(k, e)', ~Stored(k, e)
        PROVE  AtPublish(k) /\ buffered[k][e] > 0
    <3>1. copies[k][e] \in Nat /\ buffered[k][e] \in Nat
      BY DEF TypeOK
    <3>2. k = q
      BY <2>1, <2>4 DEF Stored, TypeOK
    <3>3. copies'[k][e] = copies[k][e] + IF MonthOf[e] = m THEN buffered[k][e] ELSE 0
      BY <2>1, <3>2 DEF TypeOK
    <3> QED BY <2>1, <2>2, <2>4, <3>1, <3>2, <3>3 DEF AtPublish, Stored
  <2> QED BY <1>2, <2>2, <2>3, <2>4
<1>6. CASE KeyFlushed
  <2>1. PICK q \in todo :
          /\ IsFirst(q, todo)
          /\ \E r \in RowsOf(q) : /\ \A x \in RowsOf(q) : ObservedAt[x] <= ObservedAt[r]
                                  /\ reported' = Larger(reported, ObservedAt[r])
          /\ buffered' = [buffered EXCEPT ![q] = NoRows]
    BY <1>6 DEF KeyFlushed, FinishKey
  <2>2. /\ stage = "publish" /\ stage' = IF op = "ingest" THEN "apply" ELSE "select"
        /\ UNCHANGED <<op, copies, watermark>>
    BY <1>6 DEF KeyFlushed, FinishKey, storeVars
  <2>3. PICK r \in RowsOf(q) : /\ \A x \in RowsOf(q) : ObservedAt[x] <= ObservedAt[r]
                               /\ reported' = Larger(reported, ObservedAt[r])
    BY <2>1
  <2>4. reported' \in Nat /\ reported' >= reported /\ reported' >= ObservedAt[r]
    BY <1>3, <2>3 DEF Larger, RowsOf
  <2>5. ASSUME NEW k \in Keys, NEW e \in Envelopes, AtPublish(k), buffered[k][e] > 0
        PROVE  ObservedAt[e] <= reported'
    <3>1. k = q
      BY <2>1, <2>5, FirstUnique DEF AtPublish
    <3>2. ObservedAt[e] <= ObservedAt[r] /\ r \in Envelopes
      BY <2>3, <2>5, <3>1 DEF RowsOf
    <3> QED BY <1>3, <2>4, <3>2
  <2>6. ASSUME NEW k \in Keys, NEW e \in Envelopes, Stored(k, e)'
        PROVE  ObservedAt[e] <= watermark' \/ ObservedAt[e] <= reported'
    <3>1. Stored(k, e)
      BY <2>2, <2>6 DEF Stored
    <3>2. ObservedAt[e] <= reported => ObservedAt[e] <= reported'
      BY <1>3, <2>4
    <3> QED BY <1>2, <2>2, <2>5, <3>1, <3>2
  <2>7. op \in {"ingest", "tick", "drain"}
    BY <2>2 DEF CallOK
  <2> QED BY <2>2, <2>6, <2>7
<1>7. CASE ApplyFlushes
  <2>1. stage # "publish" /\ UNCHANGED copies /\ latest' = Larger(latest, reported) /\ reported' = 0
        /\ (op' = "idle" => stage' = "select") /\ stage' # "publish"
    BY <1>7 DEF ApplyFlushes, Return
  <2>2. watermark' = latest' \/ (reported = 0 /\ UNCHANGED watermark)
    <3>1. faults' # faults + 1
      BY <1>1 DEF Undisturbed
    <3> QED BY <1>7, <3>1 DEF ApplyFlushes, WriteWatermark
  <2>3. watermark' >= watermark /\ watermark' >= reported /\ watermark' \in Nat
    BY <1>3, <2>1, <2>2 DEF Larger
  <2>4. ASSUME NEW k \in Keys, NEW e \in Envelopes, Stored(k, e)'
        PROVE  ObservedAt[e] <= watermark'
    <3>1. Stored(k, e)
      BY <2>1, <2>4 DEF Stored
    <3>2. ObservedAt[e] <= watermark \/ ObservedAt[e] <= reported
      BY <1>2, <2>1, <3>1 DEF AtPublish
    <3> QED BY <1>3, <2>3, <3>2
  <2> QED BY <2>1, <2>4
<1>8. CASE ~PublishPart /\ ~KeyFlushed /\ ~ApplyFlushes
  <2>1. UNCHANGED copies
    BY <1>8, Frames
  <2>2. (stage # "publish" /\ (reported' = reported \/ reported = 0) /\ UNCHANGED watermark)
          \/ UNCHANGED <<op, stage, todo, months, buffered, reported, watermark>>
    <3>1. CASE stage = "publish"
      <4>1. UNCHANGED <<op, stage, envelope, todo, months, buffered, copies>>
        BY <1>1, <1>4, <1>8, <3>1, PublishLeaves
      <4>2. ~SealDrain /\ ~Start /\ ~Return
        BY <3>1, <4>1 DEF SealDrain, Start, CallOK, Return
      <4> QED BY <1>1, <1>8, <4>1, <4>2, Frames
    <3>2. CASE stage # "publish"
      <4>1. ~SealDrain /\ ~Start
        BY <1>1 DEF SealDrain, Start
      <4>2. Return => reported = 0
        <5> SUFFICES ASSUME Return PROVE reported = 0
          OBVIOUS
        <5>1. RefuseGroup \/ AcceptEnvelope => op = "ingest" /\ stage = "select"
          BY DEF RefuseGroup, AcceptEnvelope
        <5>2. (op = "idle" /\ op' = "idle") => reported = 0
          BY <1>2
        <5>3. RefuseGroup \/ AcceptEnvelope \/ op = "idle"
          BY <1>1, <1>4, <1>8, <4>1
             DEF Next, CallStep, ReceiveEnvelope, Begin, Elapse, BeginTick, BeginDrain, PushGroup, SelectKey,
                 Crash, Return, vars, callVars, ReceiveDuplicate, ReceiveInvalid, Deliver
        <5> QED BY <1>2, <5>1, <5>3
      <4> QED BY <1>1, <1>8, <3>2, <4>1, <4>2, Frames
    <3> QED BY <3>1, <3>2
  <2>3. \/ Return
        \/ UNCHANGED <<op, stage, reported>>
        \/ op = "ingest" /\ stage = "select" /\ op' = "ingest" /\ stage' # "seal" /\ UNCHANGED reported
        \/ op = "idle" /\ op' # "idle" /\ stage' = "select" /\ UNCHANGED reported
        \/ op' \in {"tick", "drain"} /\ stage' = "publish"
    <3>1. ASSUME NEW e \in Envelopes, ReceiveDuplicate(e) \/ ReceiveInvalid(e) \/ ReceiveEnvelope(e)
          PROVE  \/ UNCHANGED <<op, stage, reported>>
                 \/ op = "idle" /\ op' # "idle" /\ stage' = "select" /\ UNCHANGED reported
      BY <3>1 DEF ReceiveDuplicate, ReceiveInvalid, ReceiveEnvelope, Begin, callVars
    <3>2. ASSUME NEW k \in Keys, Elapse(k) PROVE UNCHANGED <<op, stage, reported>>
      BY <3>2 DEF Elapse, callVars
    <3>3. BeginTick \/ BeginDrain
            => op = "idle" /\ op' # "idle" /\ stage' = "select" /\ UNCHANGED reported
      BY DEF BeginTick, BeginDrain, Begin
    <3>4. RefuseGroup \/ AcceptEnvelope => Return
      BY DEF RefuseGroup, AcceptEnvelope
    <3>5. PushGroup
            => op = "ingest" /\ stage = "select" /\ op' = "ingest" /\ stage' # "seal" /\ UNCHANGED reported
      BY DEF PushGroup
    <3>6. SelectKey => op' \in {"tick", "drain"} /\ stage' = "publish"
      BY DEF SelectKey
    <3>7. ~SealDrain /\ ~Crash /\ ~Start
      BY <1>1 DEF SealDrain, Crash, Start
    <3>8. UNCHANGED vars => UNCHANGED <<op, stage, reported>>
      BY DEF vars, callVars
    <3> QED BY <1>4, <1>8, <3>1, <3>2, <3>3, <3>4, <3>5, <3>6, <3>7, <3>8 DEF Next, CallStep
  <2>4. /\ op' = "idle" => reported' = 0 /\ stage' = "select"
        /\ op' = "ingest" /\ stage' \in {"select", "publish"} => reported' = 0
        /\ stage' = "seal" => reported' = 0
    BY <1>2, <2>3 DEF Return
  <2>5. ASSUME NEW k \in Keys, NEW e \in Envelopes, Stored(k, e)'
        PROVE  \/ ObservedAt[e] <= watermark' \/ ObservedAt[e] <= reported'
               \/ AtPublish(k)' /\ buffered'[k][e] > 0
    <3>1. \/ ObservedAt[e] <= watermark \/ ObservedAt[e] <= reported
          \/ AtPublish(k) /\ buffered[k][e] > 0
      BY <1>2, <2>1, <2>5 DEF Stored
    <3>2. CASE stage # "publish" /\ (reported' = reported \/ reported = 0) /\ UNCHANGED watermark
      <4>1. ~AtPublish(k)
        BY <3>2 DEF AtPublish
      <4>2. reported = 0 => ~(ObservedAt[e] <= reported)
        BY <1>3
      <4> QED BY <3>1, <3>2, <4>1, <4>2
    <3>3. CASE UNCHANGED <<op, stage, todo, months, buffered, reported, watermark>>
      BY <3>1, <3>3 DEF AtPublish, IsFirst
    <3> QED BY <2>2, <3>2, <3>3
  <2> QED BY <2>4, <2>5
<1> QED BY <1>5, <1>6, <1>7, <1>8

LEMMA DownOKStep == ASSUME TypeOK, CallOK, DownOK, [Next]_vars PROVE DownOK'
<1>1. stops \in Nat /\ stops' \in {stops, stops + 1} /\ (Exit => stops' > 0)
  BY ObservedGrows, LiveHistorianAssumption DEF TypeOK
<1>2. op' = "down" => op = "down" \/ Exit
  <2>1. CASE UNCHANGED op
    BY <2>1
  <2>2. PushGroup \/ SelectKey \/ PublishPart \/ KeyFlushed \/ ApplyFlushes => UNCHANGED op \/ op' = "idle"
    BY DEF PushGroup, SelectKey, PublishPart, KeyFlushed, FinishKey, ApplyFlushes, Return
  <2>3. BeginTick \/ BeginDrain \/ Return \/ Start \/ (\E e \in Envelopes : ReceiveEnvelope(e)) => op' # "down"
    BY DEF BeginTick, BeginDrain, Begin, Return, Start, ReceiveEnvelope
  <2> QED BY <2>1, <2>2, <2>3, Frames
<1> QED BY <1>1, <1>2 DEF DownOK

(* What the two theorems on duplicates and the watermark rest on, besides  *)
(* the inductive invariant.                                                *)
CauseInv == DownOK /\ KnownOK /\ OnceOK /\ ExactOK

LEMMA CauseInductive == Spec => []CauseInv
<1>1. Init => CauseInv
  BY DEF Init, CauseInv, DownOK, KnownOK, OnceOK, Once, HasCause, ExactOK, AtPublish, Stored, NoRows
<1>2. IInv /\ CauseInv /\ [Next]_vars => CauseInv'
  <2> SUFFICES ASSUME IInv, CauseInv, [Next]_vars PROVE CauseInv'
    OBVIOUS
  <2>1. TypeOK /\ CallOK /\ LatestOK /\ DownOK /\ KnownOK /\ OnceOK /\ ExactOK
    BY DEF IInv, CauseInv
  <2> QED BY <2>1, DownOKStep, KnownStep, OnceStep, ExactStep DEF CauseInv
<1> QED BY <1>1, <1>2, Inductive, PTL DEF Spec

------------------------------------------------------------------------------
(* The theorems.                                                           *)

(* Whatever fails and whenever the process is killed or drained: an        *)
(* envelope that would now be dropped as a duplicate has all of its rows   *)
(* buffered or published.                                                  *)
THEOREM AcceptedSafe == Spec => []AcceptedIsStored
<1>1. IInv => AcceptedIsStored
  BY DEF IInv
<1> QED BY <1>1, Inductive, PTL

(* The analysis horizon on disk always belongs to a published row.         *)
THEOREM WatermarkSafe == Spec => []WatermarkBacked
<1>1. IInv => WatermarkBacked
  BY DEF IInv, TimesBacked, Backed, WatermarkBacked
<1> QED BY <1>1, Inductive, PTL

(* A drain that reaches its last watermark write has published every row   *)
(* of every accepted envelope.                                             *)
THEOREM DrainComplete == Spec => []DrainStoresAccepted
<1>1. IInv => DrainStoresAccepted
  <2> SUFFICES ASSUME IInv, stage = "seal", NEW e \in seen, NEW k \in KeysOf(e)
               PROVE  Stored(k, e)
    BY DEF DrainStoresAccepted
  <2>1. op = "drain" /\ PendingKeys = {}
    BY DEF IInv, CallOK, DrainOK
  <2>2. e \in Envelopes /\ k \in Keys
    BY LiveHistorianAssumption DEF IInv, TypeOK, KeysOf
  <2>3. ~(buffered[k][e] > 0)
    BY <2>1, <2>2 DEF PendingKeys, RowsOf
  <2> QED BY <2>3 DEF IInv, AcceptedIsStored
<1> QED BY <1>1, Inductive, PTL

(* No step moves the watermark file back, a restart included.              *)
THEOREM WatermarkNeverBack == Spec => WatermarkMonotone
<1>1. IInv /\ [Next]_vars => [watermark' >= watermark]_vars
  BY LatestStep DEF IInv
<1> QED BY <1>1, Inductive, PTL DEF Spec, WatermarkMonotone

(* A row is readable twice only if the flush that first published it       *)
(* failed and was retried, or its envelope was delivered again after a     *)
(* rejection or a stop.                                                    *)
THEOREM DuplicateSafe == Spec => []DuplicateHasCause
<1>1. CauseInv => DuplicateHasCause
  BY DEF CauseInv, OnceOK, Once, HasCause, DuplicateHasCause
<1> QED BY <1>1, CauseInductive, PTL

(* With a store that works, and before the first stop, no published row is *)
(* newer than the watermark when no call is in progress.                   *)
THEOREM WatermarkExact == Spec => []WatermarkExactWithoutFaults
<1>1. IInv /\ CauseInv => WatermarkExactWithoutFaults
  <2> SUFFICES ASSUME IInv, CauseInv, op = "idle", Undisturbed,
                      NEW k \in Keys, NEW e \in Envelopes, Stored(k, e)
               PROVE  ObservedAt[e] <= watermark
    BY DEF WatermarkExactWithoutFaults, Undisturbed
  <2>1. reported = 0 /\ stage = "select"
    BY DEF CauseInv, ExactOK
  <2>2. ObservedAt[e] \in Nat /\ ObservedAt[e] > 0
    BY LiveHistorianAssumption
  <2>3. ~(ObservedAt[e] <= reported) /\ ~AtPublish(k)
    BY <2>1, <2>2 DEF AtPublish
  <2> QED BY <2>3 DEF CauseInv, ExactOK
<1> QED BY <1>1, Inductive, CauseInductive, PTL

------------------------------------------------------------------------------
(* The refinement.                                                         *)

Volatile == {r \in Keys \X Envelopes : buffered[r[1]][r[2]] > 0}
Durable == {r \in Keys \X Envelopes : copies[r[1]][r[2]] > 0}

LEMMA DownStep == ASSUME CallOK, [Next]_vars, op = "down"
                  PROVE  Start \/ UNCHANGED vars
  BY DEF Next, CallStep, ReceiveDuplicate, ReceiveInvalid, ReceiveEnvelope, Deliver, Elapse,
         BeginTick, BeginDrain, Begin, RefuseGroup, PushGroup, AcceptEnvelope, SelectKey,
         PublishPart, PublishFails, KeyFlushed, FinishKey, ApplyFlushes, SealDrain, Crash, CallOK

LEMMA StoreInit == Init => Store!Init
<1> SUFFICES ASSUME Init PROVE Store!Init
  OBVIOUS
<1>1. \A r \in Keys \X Envelopes : buffered[r[1]][r[2]] = 0 /\ copies[r[1]][r[2]] = 0
  BY DEF Init, NoRows
<1>2. op # "down"
  BY DEF Init
<1> QED BY <1>1, <1>2 DEF Store!Init

LEMMA StoreStep ==
  ASSUME IInv, [Next]_vars
  PROVE  [Store!Next]_<<Volatile, Durable, op # "down">>
<1>1. TypeOK /\ CallOK /\ PartsOK /\ TypeOK'
  BY InductiveStep DEF IInv
<1>2. Durable \subseteq Durable'
  BY <1>1, StoredGrows DEF Durable, Stored
<1>3. CASE op = "down"
  <2>1. CASE Start
    <3>1. Store!Restart
      BY <2>1, <1>3 DEF Store!Restart, Start, storeVars
    <3> QED BY <3>1 DEF Store!Next
  <2>2. CASE UNCHANGED vars
    BY <2>2 DEF vars, memoryVars, callVars, storeVars, Volatile, Durable
  <2> QED BY <1>1, <1>3, <2>1, <2>2, DownStep
<1>4. CASE op # "down" /\ op' = "down"
  <2>1. Exit
    <3>1. UNCHANGED op \/ Exit
      BY <1>4, Frames DEF ReceiveEnvelope, BeginTick, BeginDrain, Begin, Return, PushGroup,
           SelectKey, PublishPart, KeyFlushed, FinishKey, ApplyFlushes, Start
    <3> QED BY <1>4, <3>1
  <2>2. UNCHANGED copies
    BY <1>4, Frames DEF PublishPart
  <2>3. Store!Stop
    BY <1>4, <2>1, <2>2 DEF Store!Stop, Exit, NoRows
  <2> QED BY <2>3 DEF Store!Next
<1>5. CASE op # "down" /\ op' # "down"
  <2>1. (op # "down")' = (op # "down")
    BY <1>5
  <2>2. CASE PublishPart
    <3>1. PICK k \in todo, m \in months :
            copies' = [copies EXCEPT ![k] = [e \in Envelopes |->
                         @[e] + IF MonthOf[e] = m THEN buffered[k][e] ELSE 0]]
      BY <2>2 DEF PublishPart
    <3>2. UNCHANGED buffered
      BY <2>2 DEF PublishPart, memoryVars
    <3>3. ASSUME NEW q \in Keys, NEW e \in Envelopes, copies'[q][e] > 0, ~(copies[q][e] > 0)
          PROVE  buffered[q][e] > 0
      <4>1. copies[q][e] \in Nat /\ buffered[q][e] \in Nat
        BY <1>1 DEF TypeOK
      <4>2. q = k
        BY <1>1, <3>1, <3>3 DEF TypeOK
      <4>3. copies'[q][e] = copies[q][e] + IF MonthOf[e] = m THEN buffered[q][e] ELSE 0
        BY <1>1, <3>1, <4>2 DEF TypeOK
      <4> QED BY <3>3, <4>1, <4>3
    <3>4. Durable' \ Durable \subseteq Volatile
      BY <3>3 DEF Durable, Volatile
    <3>5. Volatile' = Volatile
      BY <3>2 DEF Volatile
    <3>6. Durable' = Durable \cup (Durable' \ Durable)
      BY <1>2
    <3>7. Store!Persist
      BY <1>5, <2>1, <3>4, <3>5, <3>6 DEF Store!Persist, Volatile, Durable
    <3> QED BY <3>7 DEF Store!Next
  <2>3. CASE PushGroup
    <3>1. \A q \in Keys, e \in Envelopes : buffered'[q][e] >= buffered[q][e]
      BY <1>1, <2>3, PushedKey
    <3>2. \A q \in Keys, e \in Envelopes : buffered[q][e] \in Nat /\ buffered'[q][e] \in Nat
      BY <1>1 DEF TypeOK
    <3>3. Volatile' = Volatile \cup Volatile' /\ Volatile' \subseteq Keys \X Envelopes
      BY <3>1, <3>2 DEF Volatile
    <3>4. Durable' = Durable
      BY <2>3 DEF PushGroup, storeVars, Durable
    <3>5. Store!Take
      BY <1>5, <2>1, <3>3, <3>4 DEF Store!Take, Volatile, Durable
    <3> QED BY <3>5 DEF Store!Next
  <2>4. CASE KeyFlushed
    <3>1. PICK k \in todo :
            /\ buffered' = [buffered EXCEPT ![k] = NoRows]
            /\ \A e \in Envelopes : buffered[k][e] > 0 => Stored(k, e)
      BY <1>1, <2>4, FlushedKey
    <3>2. ASSUME NEW q \in Keys, NEW e \in Envelopes
          PROVE  /\ buffered'[q][e] > 0 => buffered[q][e] > 0
                 /\ buffered[q][e] > 0 /\ ~(buffered'[q][e] > 0) => copies[q][e] > 0
      BY <1>1, <3>1 DEF TypeOK, NoRows, Stored
    <3>3. Volatile' = Volatile \ (Volatile \ Volatile')
      BY <3>2 DEF Volatile
    <3>4. Volatile \ Volatile' \subseteq Volatile \cap Durable
      BY <3>2 DEF Volatile, Durable
    <3>5. Durable' = Durable
      BY <2>4 DEF KeyFlushed, FinishKey, storeVars, Durable
    <3>6. Store!Release
      BY <1>5, <2>1, <3>3, <3>4, <3>5 DEF Store!Release, Volatile, Durable
    <3> QED BY <3>6 DEF Store!Next
  <2>5. CASE UNCHANGED <<buffered, copies>>
    BY <2>1, <2>5 DEF Volatile, Durable
  <2>6. AcceptEnvelope => UNCHANGED buffered
    BY DEF AcceptEnvelope
  <2>7. ~Exit
    BY <1>5 DEF Exit
  <2> QED BY <2>2, <2>3, <2>4, <2>5, <2>6, <2>7, Frames
<1> QED BY <1>3, <1>4, <1>5

(* The buffer and the Parquet parts implement the write-behind store: no   *)
(* row leaves memory unpublished while the process runs, and none is ever  *)
(* withdrawn.                                                              *)
THEOREM Refinement == Spec => ImplementsWriteBehindStore
<1>1. IInv /\ [Next]_vars => [Store!Next]_Store!vars
  BY StoreStep DEF Store!vars, Volatile, Durable
<1> QED BY <1>1, StoreInit, Inductive, PTL DEF Spec, ImplementsWriteBehindStore, Store!Spec
=============================================================================
