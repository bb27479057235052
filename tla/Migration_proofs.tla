--------------------------- MODULE Migration_proofs ---------------------------
EXTENDS Migration, TLAPS

(* The parts ps are source s in version v, piece by piece. *)
AreSource(ps, s, v) ==
    /\ Len(ps) = Pieces[s]
    /\ \A i \in 1..Pieces[s] : rows[ps[i]] = {<<s, v, i>>}

(* What run m has staged so far was read from the source no earlier than   *)
(* its fingerprint was taken.                                              *)
WritingOK(m) ==
    stage[m] \in {"write", "hash"} =>
        /\ next[m] \in 1..(Pieces[at[m]] + 1)
        /\ stage[m] = "write" => Len(parts[m]) = next[m] - 1
        /\ stage[m] = "hash" => Len(parts[m]) = next[m] /\ next[m] <= Pieces[at[m]]
        /\ \A i \in 1..Len(parts[m]) :
            \E v \in print[m]..version[at[m]] : rows[parts[m][i]] = {<<at[m], v, i>>}

(* Once the source has been checked again, it is one version. *)
SettledOK(m) ==
    stage[m] \in {"record", "publish", "complete"} =>
        AreSource(parts[m], at[m], print[m])

PublishedUpTo(m, n) ==
    \A j \in 1..n : j <= Pieces[at[m]] => rows[parts[m][j]] \subseteq Readable

ProgressOK(m) ==
    /\ stage[m] = "publish" => next[m] >= 1 /\ PublishedUpTo(m, next[m] - 1)
    /\ stage[m] = "complete" => PublishedUpTo(m, Pieces[at[m]])

RunOK(m) ==
    /\ stage[m] # "idle" => print[m] <= version[at[m]]
    /\ WritingOK(m) /\ SettledOK(m) /\ ProgressOK(m)

ReceiptOK(s) == receipt[s] # "none" => AreSource(plan[s], s, planned[s])

StoreOK ==
    /\ \A s \in Sources : version[s] <= edits
    /\ \A f \in published : rows[f] # {}

(* What holds while runs do not overlap.  The run before the receipt works *)
(* on a source that has none; after it, on what the receipt says.  Only    *)
(* what a receipt names is published, and a planned part that waits in the *)
(* staging tree is not.                                                    *)
Lone == \A m, n \in UnderWay : m = n

LoneRunOK(m) ==
    /\ stage[m] \in {"clear", "write", "hash", "record"} => receipt[at[m]] = "none"
    /\ stage[m] \in {"publish", "complete"} =>
            receipt[at[m]] = "staged" /\ plan[at[m]] = parts[m] /\ planned[at[m]] = print[m]

OnlyPlanned ==
    \A f \in published : \A r \in rows[f] :
        receipt[r[1]] # "none" /\ r[2] = planned[r[1]]

WaitingUnread(s) ==
    receipt[s] # "none" =>
        \A i \in 1..Pieces[s] : plan[s][i] \in staged[s] => <<s, planned[s], i>> \notin Readable

Disjoint == \A f, g \in published : f # g => rows[f] \cap rows[g] = {}

AloneOK ==
    Alone =>
        /\ Lone
        /\ \A m \in Runs : LoneRunOK(m)
        /\ OnlyPlanned
        /\ \A s \in Sources : WaitingUnread(s)
        /\ Disjoint

IInv ==
    /\ TypeOK
    /\ StoreOK
    /\ \A m \in Runs : RunOK(m)
    /\ \A s \in Sources : ReceiptOK(s)
    /\ CompleteIsReadable
    /\ AloneOK

------------------------------------------------------------------------------
LEMMA Bounds ==
  /\ NumSources \in Nat \ {0} /\ Pieces \in [Sources -> Nat]
  /\ MaxEdits \in Nat /\ MaxStops \in Nat /\ MaxMerges \in Nat /\ MaxOverlaps \in Nat
  /\ Sources = 1..NumSources /\ 1 \in Sources
BY MigrationAssumption DEF MigrationAssumption, Sources

LEMMA Counted ==
  ASSUME NEW n \in Nat, NEW i \in 0..n, i < n
  PROVE  i + 1 \in 0..n
OBVIOUS

LEMMA Initially == Init => IInv
<1> SUFFICES ASSUME Init PROVE IInv
  OBVIOUS
<1> USE Bounds
<1>1. TypeOK
  <2>1. /\ version \in [Sources -> 0..MaxEdits]
        /\ rows \in [Files -> SUBSET Contents]
        /\ staged \in [Sources -> SUBSET Files]
        /\ published \subseteq Files
    BY DEF Init
  <2>2. /\ receipt \in [Sources -> {"none", "staged", "complete"}]
        /\ plan \in [Sources -> Seq(Files)]
        /\ planned \in [Sources -> 0..MaxEdits]
    BY DEF Init
  <2>3. /\ stage \in [Runs -> Busy \cup {"idle"}]
        /\ at \in [Runs -> Sources]
        /\ print \in [Runs -> 0..MaxEdits]
        /\ parts \in [Runs -> Seq(Files)]
        /\ next \in [Runs -> Nat]
    BY DEF Init
  <2>4. overlaps \in 0..MaxOverlaps /\ stops \in 0..MaxStops /\ edits \in 0..MaxEdits /\ merges \in 0..MaxMerges
    BY DEF Init
  <2> QED
    BY <2>1, <2>2, <2>3, <2>4 DEF TypeOK
<1>2. StoreOK
  BY DEF Init, StoreOK
<1>3. \A m \in Runs : RunOK(m)
  BY DEF Init, RunOK, WritingOK, SettledOK, ProgressOK
<1>4. \A s \in Sources : ReceiptOK(s)
  BY DEF Init, ReceiptOK
<1>5. CompleteIsReadable
  BY DEF Init, CompleteIsReadable
<1>6. AloneOK
  BY DEF Init, AloneOK, Lone, UnderWay, LoneRunOK, OnlyPlanned, WaitingUnread, Disjoint
<1> QED
  BY <1>1, <1>2, <1>3, <1>4, <1>5, <1>6 DEF IInv

------------------------------------------------------------------------------
(* Types.                                                                  *)

RunTypes ==
    /\ stage \in [Runs -> Busy \cup {"idle"}]
    /\ at \in [Runs -> Sources]
    /\ print \in [Runs -> 0..MaxEdits]
    /\ parts \in [Runs -> Seq(Files)]
    /\ next \in [Runs -> Nat]

StoreTypes ==
    /\ version \in [Sources -> 0..MaxEdits]
    /\ rows \in [Files -> SUBSET Contents]
    /\ staged \in [Sources -> SUBSET Files]
    /\ published \subseteq Files
    /\ receipt \in [Sources -> {"none", "staged", "complete"}]
    /\ plan \in [Sources -> Seq(Files)]
    /\ planned \in [Sources -> 0..MaxEdits]

BoundTypes ==
    /\ overlaps \in 0..MaxOverlaps
    /\ stops \in 0..MaxStops
    /\ edits \in 0..MaxEdits
    /\ merges \in 0..MaxMerges

LEMMA TypeParts ==
  /\ TypeOK <=> StoreTypes /\ RunTypes /\ BoundTypes
  /\ TypeOK' <=> StoreTypes' /\ RunTypes' /\ BoundTypes'
BY DEF TypeOK, StoreTypes, RunTypes, BoundTypes

LEMMA StoreTypesKept ==
  ASSUME StoreTypes, UNCHANGED <<version, store, receipts>>
  PROVE  StoreTypes'
BY DEF StoreTypes, store, receipts

LEMMA BoundTypesKept ==
  ASSUME BoundTypes, UNCHANGED <<overlaps, bounds>>
  PROVE  BoundTypes'
BY DEF BoundTypes, bounds

LEMMA TakeUpTyped ==
  ASSUME RunTypes, NEW m \in Runs, NEW p \in Busy \cup {"idle"}, NEW s \in Sources,
         TakeUp(m, p, s)
  PROVE  RunTypes'
<1>1. stage' \in [Runs -> Busy \cup {"idle"}]
  BY DEF RunTypes, TakeUp
<1>2. at' \in [Runs -> Sources] /\ print' \in [Runs -> 0..MaxEdits]
  BY Bounds DEF RunTypes, TakeUp
<1>3. parts' \in [Runs -> Seq(Files)] /\ next' \in [Runs -> Nat]
  BY DEF RunTypes, TakeUp
<1> QED
  BY <1>1, <1>2, <1>3 DEF RunTypes

LEMMA GoToTyped ==
  ASSUME RunTypes, NEW m \in Runs, NEW p \in Busy, NEW n \in Nat, GoTo(m, p, n),
         print' \in [Runs -> 0..MaxEdits], parts' \in [Runs -> Seq(Files)]
  PROVE  RunTypes'
<1>1. stage' \in [Runs -> Busy \cup {"idle"}]
  BY DEF RunTypes, GoTo
<1>2. at' \in [Runs -> Sources] /\ next' \in [Runs -> Nat]
  BY DEF RunTypes, GoTo
<1> QED
  BY <1>1, <1>2 DEF RunTypes

LEMMA FailTyped ==
  ASSUME TypeOK, NEW m \in Runs, Fail(m)
  PROVE  TypeOK'
BY TypeParts, TakeUpTyped, StoreTypesKept, BoundTypesKept, Bounds DEF Fail

(* Steps that change nothing but what runs know. *)
LEMMA QuietTyped ==
  ASSUME TypeOK, NEW m \in Runs,
         \/ Fingerprint(m) \/ NoReceipt(m) \/ ReceiptOutdated(m) \/ ReadReceipt(m)
         \/ HashPart(m) \/ CheckSource(m) \/ PartLost(m) \/ Verify(m) \/ VerifyFails(m)
  PROVE  TypeOK'
<1> USE TypeParts
<1>1. CASE Fingerprint(m)
  <2>1. print' \in [Runs -> 0..MaxEdits] /\ parts' \in [Runs -> Seq(Files)]
    BY <1>1 DEF Fingerprint, RunTypes, StoreTypes
  <2> QED
    BY <1>1, <2>1, GoToTyped, StoreTypesKept, BoundTypesKept DEF Fingerprint, Busy
<1>2. CASE NoReceipt(m)
  <2>1. print' \in [Runs -> 0..MaxEdits] /\ parts' \in [Runs -> Seq(Files)]
    BY <1>2 DEF NoReceipt, RunTypes
  <2> QED
    BY <1>2, <2>1, GoToTyped, StoreTypesKept, BoundTypesKept DEF NoReceipt, Busy
<1>3. CASE ReceiptOutdated(m) \/ PartLost(m) \/ VerifyFails(m)
  BY <1>3, FailTyped DEF ReceiptOutdated, PartLost, VerifyFails
<1>4. CASE ReadReceipt(m)
  <2>1. print' \in [Runs -> 0..MaxEdits] /\ parts' \in [Runs -> Seq(Files)]
    BY <1>4 DEF ReadReceipt, RunTypes, StoreTypes
  <2>2. (IF receipt[at[m]] = "staged" THEN "publish" ELSE "verify") \in Busy
    BY DEF Busy
  <2> QED
    BY <1>4, <2>1, <2>2, GoToTyped, StoreTypesKept, BoundTypesKept DEF ReadReceipt
<1>5. CASE HashPart(m)
  <2>1. CASE Fail(m)
    BY <2>1, FailTyped
  <2>2. CASE /\ GoTo(m, "write", next[m] + 1)
             /\ UNCHANGED <<print, parts, version, store, receipts, overlaps, bounds>>
    <3>1. print' \in [Runs -> 0..MaxEdits] /\ parts' \in [Runs -> Seq(Files)]
      BY <2>2 DEF RunTypes
    <3>2. next[m] + 1 \in Nat
      BY DEF RunTypes
    <3> QED
      BY <2>2, <3>1, <3>2, GoToTyped, StoreTypesKept, BoundTypesKept DEF Busy
  <2> QED
    BY <1>5, <2>1, <2>2 DEF HashPart
<1>6. CASE CheckSource(m)
  <2>1. CASE Fail(m)
    BY <2>1, FailTyped
  <2>2. CASE /\ GoTo(m, "record", next[m])
             /\ UNCHANGED <<print, parts, version, store, receipts, overlaps, bounds>>
    <3>1. print' \in [Runs -> 0..MaxEdits] /\ parts' \in [Runs -> Seq(Files)]
      BY <2>2 DEF RunTypes
    <3>2. next[m] \in Nat
      BY DEF RunTypes
    <3> QED
      BY <2>2, <3>1, <3>2, GoToTyped, StoreTypesKept, BoundTypesKept DEF Busy
  <2> QED
    BY <1>6, <2>1, <2>2 DEF CheckSource
<1>7. CASE Verify(m)
  <2>1. CASE TakeUp(m, "idle", 1)
    BY <1>7, <2>1, TakeUpTyped, StoreTypesKept, BoundTypesKept, Bounds DEF Verify
  <2>2. CASE at[m] # NumSources /\ TakeUp(m, "fingerprint", at[m] + 1)
    <3>1. at[m] \in 1..NumSources
      BY Bounds DEF RunTypes
    <3>2. at[m] + 1 \in Sources
      BY <2>2, <3>1, Bounds
    <3> QED
      BY <1>7, <2>2, <3>2, TakeUpTyped, StoreTypesKept, BoundTypesKept DEF Verify, Busy
  <2> QED
    BY <1>7, <2>1, <2>2 DEF Verify
<1> QED
  BY <1>1, <1>2, <1>3, <1>4, <1>5, <1>6, <1>7

LEMMA BeginTyped ==
  ASSUME TypeOK, NEW m \in Runs, Begin(m)
  PROVE  TypeOK'
<1>1. RunTypes'
  BY TypeParts, TakeUpTyped, Bounds DEF Begin, Busy
<1>2. StoreTypes'
  BY TypeParts, StoreTypesKept DEF Begin
<1>3. BoundTypes'
  <2>1. overlaps' \in 0..MaxOverlaps
    BY TypeParts, Counted, Bounds DEF Begin, BoundTypes
  <2> QED
    BY <2>1, TypeParts DEF Begin, BoundTypes, bounds
<1> QED
  BY <1>1, <1>2, <1>3, TypeParts

LEMMA StopTyped ==
  ASSUME TypeOK, NEW m \in Runs, Stop(m)
  PROVE  TypeOK'
<1>1. RunTypes'
  BY TypeParts, TakeUpTyped, Bounds DEF Stop
<1>2. StoreTypes'
  BY TypeParts, StoreTypesKept DEF Stop
<1>3. BoundTypes'
  <2>1. stops' \in 0..MaxStops
    BY TypeParts, Counted, Bounds DEF Stop, BoundTypes
  <2> QED
    BY <2>1, TypeParts DEF Stop, BoundTypes
<1> QED
  BY <1>1, <1>2, <1>3, TypeParts

(* Steps that change the store, or receipts. *)
LEMMA StoreStepTyped ==
  ASSUME TypeOK, NEW m \in Runs,
         \/ ClearStaging(m) \/ WritePart(m) \/ WriteReceipt(m)
         \/ PublishPart(m) \/ RemoveStaging(m) \/ CompleteReceipt(m)
  PROVE  TypeOK'
<1> USE TypeParts
<1>1. CASE ClearStaging(m)
  <2>1. print' \in [Runs -> 0..MaxEdits] /\ parts' \in [Runs -> Seq(Files)]
    BY <1>1 DEF ClearStaging, RunTypes
  <2>2. RunTypes'
    BY <1>1, <2>1, GoToTyped DEF ClearStaging, Busy
  <2>3. StoreTypes'
    BY <1>1 DEF ClearStaging, StoreTypes, receipts
  <2> QED
    BY <1>1, <2>2, <2>3, BoundTypesKept DEF ClearStaging
<1>2. CASE WritePart(m)
  <2>1. PICK f \in Files :
          /\ rows' = [rows EXCEPT ![f] = {<<at[m], version[at[m]], next[m]>>}]
          /\ staged' = [staged EXCEPT ![at[m]] = @ \cup {f}]
          /\ parts' = [parts EXCEPT ![m] = Append(@, f)]
    BY <1>2 DEF WritePart
  <2>2. <<at[m], version[at[m]], next[m]>> \in Contents
    BY DEF Contents, RunTypes, StoreTypes
  <2>3. StoreTypes'
    BY <1>2, <2>1, <2>2 DEF WritePart, StoreTypes, receipts
  <2>4. print' \in [Runs -> 0..MaxEdits] /\ parts' \in [Runs -> Seq(Files)] /\ next[m] \in Nat
    BY <1>2, <2>1 DEF WritePart, RunTypes
  <2>5. RunTypes'
    BY <1>2, <2>4, GoToTyped DEF WritePart, Busy
  <2> QED
    BY <1>2, <2>3, <2>5, BoundTypesKept DEF WritePart
<1>3. CASE WriteReceipt(m) \/ CompleteReceipt(m)
  <2>1. print' \in [Runs -> 0..MaxEdits] /\ parts' \in [Runs -> Seq(Files)]
    BY <1>3 DEF WriteReceipt, CompleteReceipt, RunTypes
  <2>2. RunTypes'
    BY <1>3, <2>1, GoToTyped DEF WriteReceipt, CompleteReceipt, Busy
  <2>3. at[m] \in Sources /\ parts[m] \in Seq(Files) /\ print[m] \in 0..MaxEdits
    BY DEF RunTypes
  <2>4. /\ receipt' \in [Sources -> {"none", "staged", "complete"}]
        /\ plan' \in [Sources -> Seq(Files)]
        /\ planned' \in [Sources -> 0..MaxEdits]
    BY <1>3, <2>3 DEF WriteReceipt, CompleteReceipt, StoreTypes
  <2>5. StoreTypes'
    BY <1>3, <2>4 DEF WriteReceipt, CompleteReceipt, StoreTypes, store
  <2> QED
    BY <1>3, <2>2, <2>5, BoundTypesKept DEF WriteReceipt, CompleteReceipt
<1>4. CASE PublishPart(m)
  <2>1. print' \in [Runs -> 0..MaxEdits] /\ parts' \in [Runs -> Seq(Files)] /\ next[m] + 1 \in Nat
    BY <1>4 DEF PublishPart, RunTypes
  <2>2. RunTypes'
    BY <1>4, <2>1, GoToTyped DEF PublishPart, Busy
  <2>3. parts[m][next[m]] \in Files
    BY <1>4 DEF PublishPart, StoreTypes, RunTypes
  <2>4. StoreTypes'
    BY <1>4, <2>3 DEF PublishPart, StoreTypes, receipts
  <2> QED
    BY <1>4, <2>2, <2>4, BoundTypesKept DEF PublishPart
<1>5. CASE RemoveStaging(m)
  <2>1. print' \in [Runs -> 0..MaxEdits] /\ parts' \in [Runs -> Seq(Files)] /\ next[m] \in Nat
    BY <1>5 DEF RemoveStaging, RunTypes
  <2>2. RunTypes'
    BY <1>5, <2>1, GoToTyped DEF RemoveStaging, Busy
  <2>3. StoreTypes'
    BY <1>5 DEF RemoveStaging, StoreTypes, receipts
  <2> QED
    BY <1>5, <2>2, <2>3, BoundTypesKept DEF RemoveStaging
<1> QED
  BY <1>1, <1>2, <1>3, <1>4, <1>5

(* An edit is counted, and no source has more than that many versions. *)
LEMMA EditTyped ==
  ASSUME TypeOK, StoreOK, NEW s \in Sources, Edit(s)
  PROVE  TypeOK'
<1> USE TypeParts
<1>1. edits' \in 0..MaxEdits
  BY Counted, Bounds DEF Edit, BoundTypes
<1>2. version[s] + 1 \in 0..MaxEdits
  <2>1. version[s] \in 0..MaxEdits /\ version[s] <= edits
    BY DEF StoreTypes, StoreOK
  <2>2. edits \in 0..MaxEdits /\ edits < MaxEdits
    BY DEF Edit, BoundTypes
  <2> QED
    BY <2>1, <2>2, Bounds
<1>3. version' \in [Sources -> 0..MaxEdits]
  BY <1>2 DEF Edit, StoreTypes
<1>4. StoreTypes'
  BY <1>3 DEF Edit, StoreTypes, store, receipts
<1>5. RunTypes'
  BY DEF Edit, RunTypes, runVars
<1> QED
  BY <1>1, <1>4, <1>5 DEF Edit, BoundTypes

LEMMA MergeTyped ==
  ASSUME TypeOK, NEW old \in SUBSET published, Merge(old)
  PROVE  TypeOK'
<1> USE TypeParts
<1>1. merges' \in 0..MaxMerges
  BY Counted, Bounds DEF Merge, BoundTypes
<1>2. PICK f \in Files :
        /\ published' = (published \ old) \cup {f}
        /\ rows' = [rows EXCEPT ![f] = UNION {rows[g] : g \in old}]
  BY DEF Merge
<1>3. UNION {rows[g] : g \in old} \in SUBSET Contents
  BY DEF StoreTypes
<1>4. StoreTypes'
  BY <1>2, <1>3 DEF Merge, StoreTypes, receipts
<1>5. RunTypes'
  BY DEF Merge, RunTypes, runVars
<1> QED
  BY <1>1, <1>4, <1>5 DEF Merge, BoundTypes

------------------------------------------------------------------------------
(* What holds of runs and receipts, as the store changes.                  *)

(* A part that holds rows keeps them, and what is readable stays so.       *)
RowsStay ==
    /\ \A g \in Files : rows[g] # {} => rows'[g] = rows[g]
    /\ Readable \subseteq Readable'

LEMMA RowSources ==
  ASSUME TypeOK
  PROVE  \A f \in published : \A r \in rows[f] : r[1] \in Sources
<1> SUFFICES ASSUME NEW f \in published, NEW r \in rows[f] PROVE r[1] \in Sources
  OBVIOUS
<1>1. rows[f] \in SUBSET Contents
  BY DEF TypeOK
<1>2. r \in Sources \X (0..MaxEdits) \X Nat
  BY <1>1 DEF Contents
<1> QED
  BY <1>2

LEMMA SourceKept ==
  ASSUME TypeOK, RowsStay, NEW ps \in Seq(Files), NEW s \in Sources, NEW v,
         AreSource(ps, s, v)
  PROVE  \A i \in 1..Pieces[s] : rows'[ps[i]] = {<<s, v, i>>}
<1>1. Len(ps) \in Nat /\ \A i \in 1..Len(ps) : ps[i] \in Files
  OBVIOUS
<1> QED
  BY <1>1 DEF RowsStay, AreSource

(* A run that does not move is not disturbed by what the others do. *)
LEMMA RunKept ==
  ASSUME TypeOK, RowsStay, NEW m \in Runs, RunOK(m),
         UNCHANGED <<stage[m], at[m], print[m], parts[m], next[m]>>,
         \A s \in Sources : version'[s] \in Nat /\ version[s] <= version'[s]
  PROVE  RunOK(m)'
<1>1. /\ at[m] \in Sources /\ parts[m] \in Seq(Files) /\ print[m] \in Nat
      /\ version[at[m]] \in Nat /\ next[m] \in Nat /\ Pieces[at[m]] \in Nat
  <2>1. at[m] \in Sources /\ parts[m] \in Seq(Files) /\ next[m] \in Nat
    BY DEF TypeOK
  <2>2. print[m] \in 0..MaxEdits /\ version[at[m]] \in 0..MaxEdits
    BY <2>1 DEF TypeOK
  <2> QED
    BY <2>1, <2>2, Bounds
<1>2. \A i \in 1..Len(parts[m]) : parts[m][i] \in Files
  BY <1>1
<1>3. version[at[m]] <= version'[at[m]] /\ version'[at[m]] \in Nat
  BY <1>1
<1>4. stage[m] # "idle" => print[m] <= version'[at[m]]
  BY <1>1, <1>3 DEF RunOK
<1>5. WritingOK(m)'
  <2> SUFFICES ASSUME stage[m] \in {"write", "hash"}
               PROVE  \A i \in 1..Len(parts[m]) :
                        \E v \in print[m]..version'[at[m]] : rows'[parts[m][i]] = {<<at[m], v, i>>}
    BY DEF WritingOK, RunOK
  <2> TAKE i \in 1..Len(parts[m])
  <2>1. PICK v \in print[m]..version[at[m]] : rows[parts[m][i]] = {<<at[m], v, i>>}
    BY DEF WritingOK, RunOK
  <2>2. rows'[parts[m][i]] = {<<at[m], v, i>>}
    BY <2>1, <1>2 DEF RowsStay
  <2>3. v \in print[m]..version'[at[m]]
    BY <1>1, <1>3
  <2> QED
    BY <2>2, <2>3
<1>6. SettledOK(m)'
  <2>1. CASE stage[m] \in {"record", "publish", "complete"}
    <3>1. AreSource(parts[m], at[m], print[m])
      BY <2>1 DEF RunOK, SettledOK
    <3>2. \A i \in 1..Pieces[at[m]] : rows'[parts[m][i]] = {<<at[m], print[m], i>>}
      BY <3>1, <1>1, SourceKept
    <3> QED
      BY <3>1, <3>2 DEF SettledOK, AreSource
  <2>2. CASE stage[m] \notin {"record", "publish", "complete"}
    BY <2>2 DEF SettledOK
  <2> QED
    BY <2>1, <2>2
<1>7. ProgressOK(m)'
  <2>1. ASSUME NEW n \in Nat, PublishedUpTo(m, n), stage[m] \in {"publish", "complete"}
        PROVE  PublishedUpTo(m, n)'
    <3> SUFFICES ASSUME NEW j \in 1..n, j <= Pieces[at[m]]
                 PROVE  rows'[parts[m][j]] \subseteq Readable'
      BY DEF PublishedUpTo
    <3>1. AreSource(parts[m], at[m], print[m])
      BY <2>1 DEF RunOK, SettledOK
    <3>2. j \in 1..Pieces[at[m]] /\ j \in 1..Len(parts[m])
      BY <3>1, <1>1 DEF AreSource
    <3>4. rows[parts[m][j]] = {<<at[m], print[m], j>>} /\ parts[m][j] \in Files
      BY <3>1, <3>2, <1>2 DEF AreSource
    <3>3. rows[parts[m][j]] \subseteq Readable
      BY <2>1 DEF PublishedUpTo
    <3> QED
      BY <3>4, <3>3 DEF RowsStay
  <2>2. stage[m] = "publish" => next[m] >= 1 /\ PublishedUpTo(m, next[m] - 1)'
    BY <2>1, <1>1 DEF RunOK, ProgressOK
  <2>3. stage[m] = "complete" => PublishedUpTo(m, Pieces[at[m]])'
    BY <2>1, <1>1 DEF RunOK, ProgressOK
  <2> QED
    BY <2>2, <2>3 DEF ProgressOK, PublishedUpTo
<1> QED
  BY <1>4, <1>5, <1>6, <1>7 DEF RunOK

LEMMA ReceiptKept ==
  ASSUME TypeOK, RowsStay, NEW s \in Sources, ReceiptOK(s),
         UNCHANGED <<receipt[s], plan[s], planned[s]>>
  PROVE  ReceiptOK(s)'
<1>1. plan[s] \in Seq(Files)
  BY DEF TypeOK
<1>2. CASE receipt[s] # "none"
  <2>1. AreSource(plan[s], s, planned[s])
    BY <1>2 DEF ReceiptOK
  <2>2. \A i \in 1..Pieces[s] : rows'[plan[s][i]] = {<<s, planned[s], i>>}
    BY <2>1, <1>1, SourceKept
  <2> QED
    BY <2>1, <2>2 DEF ReceiptOK, AreSource
<1>3. CASE receipt[s] = "none"
  BY <1>3 DEF ReceiptOK
<1> QED
  BY <1>2, <1>3

LEMMA CompleteKept ==
  ASSUME TypeOK, RowsStay, CompleteIsReadable, UNCHANGED <<receipt, planned>>
  PROVE  CompleteIsReadable'
BY DEF CompleteIsReadable, RowsStay

(* A part with an unused name is not published, planned or staged for. *)
LEMMA NewRowsStay ==
  ASSUME TypeOK, StoreOK, NEW f \in Files, Unused(f), NEW R,
         rows' = [rows EXCEPT ![f] = R], published' = published
  PROVE  RowsStay
<1>1. \A g \in Files : g # f => rows'[g] = rows[g]
  BY DEF TypeOK
<1>2. f \notin published
  BY DEF Unused, StoreOK
<1>3. \A g \in published : rows'[g] = rows[g]
  BY <1>1, <1>2 DEF TypeOK
<1> QED
  BY <1>1, <1>3 DEF RowsStay, Unused, Readable

------------------------------------------------------------------------------
(* One step after the other.                                               *)

(* Only run m moves. *)
Moves(m) ==
    \A n \in Runs \ {m} : UNCHANGED <<stage[n], at[n], print[n], parts[n], next[n]>>

LEMMA OneMoves ==
  ASSUME TypeOK, NEW m \in Runs, \/ SourceStep(m) \/ Begin(m) \/ Stop(m)
  PROVE  Moves(m)
<1>1. ASSUME NEW p, NEW s, TakeUp(m, p, s) PROVE Moves(m)
  BY <1>1 DEF TakeUp, Moves, TypeOK
<1>2. ASSUME NEW p, NEW n, GoTo(m, p, n), UNCHANGED <<print, parts>> PROVE Moves(m)
  BY <1>2 DEF GoTo, Moves, TypeOK
<1>3. ASSUME NEW p, NEW n, GoTo(m, p, n), NEW x, print' = [print EXCEPT ![m] = x], parts' = parts
      PROVE  Moves(m)
  BY <1>3 DEF GoTo, Moves, TypeOK
<1>4. ASSUME NEW p, NEW n, GoTo(m, p, n), NEW x, parts' = [parts EXCEPT ![m] = x], print' = print
      PROVE  Moves(m)
  BY <1>4 DEF GoTo, Moves, TypeOK
<1>5. CASE Begin(m) \/ Stop(m) \/ Verify(m)
  BY <1>5, <1>1 DEF Begin, Stop, Verify
<1>6. CASE ReceiptOutdated(m) \/ PartLost(m) \/ VerifyFails(m)
  BY <1>6, <1>1 DEF ReceiptOutdated, PartLost, VerifyFails, Fail
<1>7. CASE Fingerprint(m)
  BY <1>7, <1>3 DEF Fingerprint
<1>8. CASE NoReceipt(m) \/ WriteReceipt(m) \/ PublishPart(m) \/ RemoveStaging(m) \/ CompleteReceipt(m)
  BY <1>8, <1>2 DEF NoReceipt, WriteReceipt, PublishPart, RemoveStaging, CompleteReceipt
<1>9. CASE ReadReceipt(m)
  BY <1>9, <1>4 DEF ReadReceipt
<1>10. CASE ClearStaging(m)
  BY <1>10, <1>4 DEF ClearStaging
<1>11. CASE WritePart(m)
  BY <1>11, <1>4 DEF WritePart
<1>12. CASE HashPart(m)
  BY <1>12, <1>1, <1>2 DEF HashPart, Fail
<1>13. CASE CheckSource(m)
  BY <1>13, <1>1, <1>2 DEF CheckSource, Fail
<1> QED
  BY <1>5, <1>6, <1>7, <1>8, <1>9, <1>10, <1>11, <1>12, <1>13 DEF SourceStep

LEMMA VersionsNat ==
  ASSUME TypeOK, TypeOK', UNCHANGED version
  PROVE  \A s \in Sources : version'[s] \in Nat /\ version[s] <= version'[s]
<1> SUFFICES ASSUME NEW s \in Sources PROVE version'[s] \in Nat /\ version[s] <= version'[s]
  OBVIOUS
<1>1. version[s] \in 0..MaxEdits
  BY DEF TypeOK
<1> QED
  BY <1>1, Bounds

LEMMA OthersKept ==
  ASSUME IInv, TypeOK', RowsStay, NEW m \in Runs, Moves(m), UNCHANGED version
  PROVE  \A n \in Runs \ {m} : RunOK(n)'
<1> SUFFICES ASSUME NEW n \in Runs \ {m} PROVE RunOK(n)'
  OBVIOUS
<1>1. UNCHANGED <<stage[n], at[n], print[n], parts[n], next[n]>>
  BY DEF Moves
<1>2. \A s \in Sources : version'[s] \in Nat /\ version[s] <= version'[s]
  BY VersionsNat DEF IInv
<1> QED
  BY <1>1, <1>2, RunKept DEF IInv

(* A run that does not overlap another stays alone while it moves. *)
LEMMA LoneKept ==
  ASSUME TypeOK, Lone, NEW m \in Runs, Moves(m), stage[m] # "idle"
  PROVE  /\ Lone'
         /\ \A n \in Runs \ {m} : stage[n] = "idle" /\ stage'[n] = "idle"
<1>1. \A n \in Runs \ {m} : stage[n] = "idle"
  BY DEF Lone, UnderWay
<1>2. \A n \in Runs \ {m} : stage'[n] = "idle"
  BY <1>1 DEF Moves
<1> QED
  BY <1>1, <1>2 DEF Lone, UnderWay

(* What the step of run m itself has to show when no part and no receipt   *)
(* changes.                                                                *)
LEMMA PartsKept ==
  ASSUME IInv, TypeOK', NEW m \in Runs, Moves(m), stage[m] # "idle",
         UNCHANGED <<version, rows, published, receipts, edits, overlaps>>,
         \A s \in Sources : staged'[s] \subseteq staged[s],
         RunOK(m)', Alone => LoneRunOK(m)'
  PROVE  IInv'
<1>1. RowsStay
  BY DEF RowsStay, Readable
<1>2. StoreOK'
  BY DEF IInv, StoreOK
<1>3. \A n \in Runs : RunOK(n)'
  BY <1>1, OthersKept
<1>4. \A s \in Sources : ReceiptOK(s)'
  BY <1>1, ReceiptKept DEF IInv, receipts
<1>5. CompleteIsReadable'
  BY <1>1, CompleteKept DEF IInv, receipts
<1>6. AloneOK'
  <2> SUFFICES ASSUME Alone PROVE /\ Lone'
                                  /\ \A n \in Runs : LoneRunOK(n)'
                                  /\ OnlyPlanned'
                                  /\ \A s \in Sources : WaitingUnread(s)'
                                  /\ Disjoint'
    BY DEF AloneOK, Alone
  <2>1. Lone' /\ \A n \in Runs \ {m} : stage'[n] = "idle"
    BY LoneKept DEF IInv, AloneOK
  <2>2. \A n \in Runs : LoneRunOK(n)'
    BY <2>1 DEF LoneRunOK
  <2>3. OnlyPlanned' /\ Disjoint'
    BY DEF IInv, AloneOK, OnlyPlanned, Disjoint, receipts
  <2>4. \A s \in Sources : WaitingUnread(s)'
    BY DEF IInv, AloneOK, WaitingUnread, Readable, receipts
  <2> QED
    BY <2>1, <2>2, <2>3, <2>4
<1> QED
  BY <1>2, <1>3, <1>4, <1>5, <1>6 DEF IInv

LEMMA QuietKept ==
  ASSUME IInv, TypeOK', NEW m \in Runs, Moves(m), stage[m] # "idle",
         UNCHANGED <<version, store, receipts, edits, overlaps>>,
         RunOK(m)', Alone => LoneRunOK(m)'
  PROVE  IInv'
BY PartsKept DEF store

LEMMA FreshRun ==
  ASSUME TypeOK, TypeOK', NEW m \in Runs, NEW p \in {"idle", "fingerprint"},
         NEW s \in Sources, TakeUp(m, p, s)
  PROVE  RunOK(m)' /\ LoneRunOK(m)' /\ stage'[m] = p
<1>1. stage'[m] = p /\ at'[m] = s /\ print'[m] = 0
  BY DEF TakeUp, TypeOK
<1>2. version'[s] \in 0..MaxEdits
  BY DEF TypeOK
<1>3. 0 <= version'[s]
  BY <1>2, Bounds
<1> QED
  BY <1>1, <1>3 DEF RunOK, WritingOK, SettledOK, ProgressOK, LoneRunOK

LEMMA FailStep ==
  ASSUME IInv, NEW m \in Runs, Moves(m), stage[m] # "idle", Fail(m)
  PROVE  IInv'
<1>1. TypeOK'
  BY FailTyped DEF IInv
<1>2. RunOK(m)' /\ LoneRunOK(m)'
  BY <1>1, FreshRun, Bounds DEF Fail, IInv
<1> QED
  BY <1>1, <1>2, QuietKept DEF Fail, bounds

LEMMA QuietStep ==
  ASSUME IInv, NEW m \in Runs,
         \/ Fingerprint(m) \/ NoReceipt(m) \/ ReceiptOutdated(m) \/ ReadReceipt(m)
         \/ HashPart(m) \/ CheckSource(m) \/ PartLost(m) \/ Verify(m) \/ VerifyFails(m)
  PROVE  IInv'
<1>1. TypeOK /\ TypeOK' /\ RunOK(m)
  BY QuietTyped DEF IInv
<1>2. Moves(m)
  BY <1>1, OneMoves DEF SourceStep
<1>3. /\ at[m] \in Sources /\ parts[m] \in Seq(Files) /\ next[m] \in Nat
      /\ print[m] \in Nat /\ version[at[m]] \in Nat /\ Pieces[at[m]] \in Nat
  <2>1. at[m] \in Sources /\ parts[m] \in Seq(Files) /\ next[m] \in Nat
    BY <1>1 DEF TypeOK
  <2>2. print[m] \in 0..MaxEdits /\ version[at[m]] \in 0..MaxEdits
    BY <1>1, <2>1 DEF TypeOK
  <2> QED
    BY <2>1, <2>2, Bounds
<1>4. CASE Fingerprint(m)
  <2>1. stage'[m] = "receipt" /\ at'[m] = at[m] /\ print'[m] = version[at[m]] /\ version' = version
    BY <1>1, <1>4 DEF Fingerprint, GoTo, TypeOK
  <2>2. RunOK(m)' /\ LoneRunOK(m)'
    BY <2>1, <1>3 DEF RunOK, WritingOK, SettledOK, ProgressOK, LoneRunOK
  <2> QED
    BY <1>1, <1>2, <1>4, <2>2, QuietKept DEF Fingerprint, bounds
<1>5. CASE NoReceipt(m)
  <2>1. /\ stage'[m] = "clear" /\ at' = at /\ print' = print /\ version' = version
        /\ receipt' = receipt /\ receipt[at[m]] = "none" /\ stage[m] = "receipt"
    BY <1>1, <1>5 DEF NoReceipt, GoTo, TypeOK, receipts
  <2>2. RunOK(m)' /\ LoneRunOK(m)'
    BY <1>1, <2>1 DEF RunOK, WritingOK, SettledOK, ProgressOK, LoneRunOK
  <2> QED
    BY <1>1, <1>2, <1>5, <2>2, QuietKept DEF NoReceipt, bounds
<1>6. CASE ReceiptOutdated(m) \/ PartLost(m) \/ VerifyFails(m)
  BY <1>2, <1>6, FailStep DEF ReceiptOutdated, PartLost, VerifyFails
<1>7. CASE ReadReceipt(m)
  <2>1. /\ at' = at /\ print' = print /\ version' = version /\ rows' = rows
        /\ receipt' = receipt /\ plan' = plan /\ planned' = planned
        /\ stage[m] = "receipt" /\ receipt[at[m]] # "none" /\ planned[at[m]] = print[m]
        /\ parts'[m] = plan[at[m]] /\ next'[m] = 1
        /\ stage'[m] = IF receipt[at[m]] = "staged" THEN "publish" ELSE "verify"
    BY <1>1, <1>7 DEF ReadReceipt, GoTo, TypeOK, receipts, store
  <2>2. AreSource(plan[at[m]], at[m], print[m])
    BY <1>3, <2>1 DEF IInv, ReceiptOK
  <2>3. SettledOK(m)'
    BY <2>1, <2>2 DEF SettledOK, AreSource
  <2>4. ProgressOK(m)'
    BY <2>1 DEF ProgressOK, PublishedUpTo
  <2>5. RunOK(m)' /\ LoneRunOK(m)'
    BY <1>1, <2>1, <2>3, <2>4 DEF RunOK, WritingOK, LoneRunOK
  <2> QED
    BY <1>1, <1>2, <1>7, <2>5, QuietKept DEF ReadReceipt, bounds
<1>8. CASE HashPart(m)
  <2>1. CASE Fail(m)
    BY <1>2, <1>8, <2>1, FailStep DEF HashPart
  <2>2. CASE /\ GoTo(m, "write", next[m] + 1)
             /\ UNCHANGED <<print, parts, version, store, receipts, overlaps, bounds>>
    <3>1. /\ at' = at /\ print' = print /\ version' = version /\ rows' = rows
          /\ receipt' = receipt /\ parts' = parts
          /\ stage[m] = "hash" /\ stage'[m] = "write" /\ next'[m] = next[m] + 1
      BY <1>1, <1>8, <2>2 DEF HashPart, GoTo, TypeOK, receipts, store
    <3>2. next[m] \in 1..Pieces[at[m]] /\ Len(parts[m]) = next[m]
      <4>1. Len(parts[m]) = next[m] /\ next[m] \in 1..(Pieces[at[m]] + 1) /\ next[m] <= Pieces[at[m]]
        BY <1>1, <3>1 DEF RunOK, WritingOK
      <4> QED
        BY <4>1, <1>3
    <3>3. WritingOK(m)'
      <4>1. \A i \in 1..Len(parts[m]) :
              \E v \in print[m]..version[at[m]] : rows[parts[m][i]] = {<<at[m], v, i>>}
        BY <1>1, <3>1 DEF RunOK, WritingOK
      <4>2. next'[m] \in 1..(Pieces[at[m]] + 1) /\ Len(parts[m]) = next'[m] - 1
        BY <1>3, <3>1, <3>2
      <4> QED
        BY <3>1, <4>1, <4>2 DEF WritingOK
    <3>4. RunOK(m)'
      BY <1>1, <3>1, <3>3 DEF RunOK, SettledOK, ProgressOK
    <3>5. Alone => LoneRunOK(m)'
      BY <3>1 DEF IInv, AloneOK, LoneRunOK
    <3> QED
      BY <1>1, <1>2, <1>8, <2>2, <3>4, <3>5, QuietKept DEF HashPart, bounds
  <2> QED
    BY <1>8, <2>1, <2>2 DEF HashPart
<1>9. CASE CheckSource(m)
  <2>1. CASE Fail(m)
    BY <1>2, <1>9, <2>1, FailStep DEF CheckSource
  <2>2. CASE /\ version[at[m]] = print[m] /\ GoTo(m, "record", next[m])
             /\ UNCHANGED <<print, parts, version, store, receipts, overlaps, bounds>>
    <3>1. /\ at' = at /\ print' = print /\ version' = version /\ rows' = rows
          /\ receipt' = receipt /\ parts' = parts
          /\ stage[m] = "write" /\ stage'[m] = "record" /\ next[m] > Pieces[at[m]]
      BY <1>1, <1>9, <2>2 DEF CheckSource, GoTo, TypeOK, receipts, store
    <3>2. Len(parts[m]) = Pieces[at[m]]
      BY <1>1, <1>3, <3>1 DEF RunOK, WritingOK
    <3>3. ASSUME NEW i \in 1..Pieces[at[m]]
          PROVE  rows[parts[m][i]] = {<<at[m], print[m], i>>}
      <4>1. PICK v \in print[m]..version[at[m]] : rows[parts[m][i]] = {<<at[m], v, i>>}
        BY <1>1, <3>1, <3>2 DEF RunOK, WritingOK
      <4>2. v = print[m]
        BY <1>3, <2>2
      <4> QED
        BY <4>1, <4>2
    <3>4. AreSource(parts[m], at[m], print[m])
      BY <3>2, <3>3 DEF AreSource
    <3>5. RunOK(m)'
      BY <1>1, <3>1, <3>4 DEF RunOK, WritingOK, SettledOK, ProgressOK, AreSource
    <3>6. Alone => LoneRunOK(m)'
      BY <3>1 DEF IInv, AloneOK, LoneRunOK
    <3> QED
      BY <1>1, <1>2, <1>9, <2>2, <3>5, <3>6, QuietKept DEF CheckSource, bounds
  <2> QED
    BY <1>9, <2>1, <2>2 DEF CheckSource
<1>10. CASE Verify(m)
  <2>1. CASE TakeUp(m, "idle", 1)
    <3>1. RunOK(m)' /\ LoneRunOK(m)'
      BY <1>1, <2>1, FreshRun, Bounds
    <3> QED
      BY <1>1, <1>2, <1>10, <3>1, QuietKept DEF Verify, bounds
  <2>2. CASE at[m] # NumSources /\ TakeUp(m, "fingerprint", at[m] + 1)
    <3>1. at[m] + 1 \in Sources
      BY <2>2, <1>3, Bounds
    <3>2. RunOK(m)' /\ LoneRunOK(m)'
      BY <1>1, <2>2, <3>1, FreshRun
    <3> QED
      BY <1>1, <1>2, <1>10, <3>2, QuietKept DEF Verify, bounds
  <2> QED
    BY <1>10, <2>1, <2>2 DEF Verify
<1> QED
  BY <1>4, <1>5, <1>6, <1>7, <1>8, <1>9, <1>10

LEMMA BeginStep ==
  ASSUME IInv, NEW m \in Runs, Begin(m)
  PROVE  IInv'
<1>1. TypeOK /\ TypeOK' /\ Moves(m)
  BY BeginTyped, OneMoves DEF IInv
<1>2. RunOK(m)' /\ LoneRunOK(m)' /\ stage'[m] = "fingerprint"
  BY <1>1, FreshRun, Bounds DEF Begin
<1>3. UNCHANGED <<version, rows, staged, published, receipt, plan, planned, edits>>
  BY DEF Begin, store, receipts, bounds
<1>4. RowsStay
  BY <1>3 DEF RowsStay, Readable
<1>5. StoreOK'
  BY <1>3 DEF IInv, StoreOK
<1>6. \A n \in Runs : RunOK(n)'
  BY <1>1, <1>2, <1>3, <1>4, OthersKept
<1>7. \A s \in Sources : ReceiptOK(s)'
  BY <1>1, <1>3, <1>4, ReceiptKept DEF IInv
<1>8. CompleteIsReadable'
  BY <1>1, <1>3, <1>4, CompleteKept DEF IInv
<1>9. AloneOK'
  <2> SUFFICES ASSUME Alone'
               PROVE  /\ Lone'
                      /\ \A n \in Runs : LoneRunOK(n)'
                      /\ OnlyPlanned'
                      /\ \A s \in Sources : WaitingUnread(s)'
                      /\ Disjoint'
    BY DEF AloneOK
  <2>1. Alone /\ UnderWay = {}
    <3>1. overlaps \in Nat
      BY <1>1, Bounds DEF TypeOK
    <3> QED
      BY <3>1 DEF Begin, Alone
  <2>2. \A n \in Runs \ {m} : stage'[n] = "idle"
    BY <1>1, <2>1 DEF UnderWay, Moves
  <2>3. Lone' /\ \A n \in Runs : LoneRunOK(n)'
    BY <1>2, <2>2 DEF Lone, UnderWay, LoneRunOK
  <2>4. OnlyPlanned' /\ Disjoint'
    BY <1>3, <2>1 DEF IInv, AloneOK, OnlyPlanned, Disjoint
  <2>5. \A s \in Sources : WaitingUnread(s)'
    BY <1>3, <2>1 DEF IInv, AloneOK, WaitingUnread, Readable
  <2> QED
    BY <2>3, <2>4, <2>5
<1> QED
  BY <1>1, <1>5, <1>6, <1>7, <1>8, <1>9 DEF IInv

LEMMA StopStep ==
  ASSUME IInv, NEW m \in Runs, Stop(m)
  PROVE  IInv'
<1>1. TypeOK /\ TypeOK' /\ Moves(m)
  BY StopTyped, OneMoves DEF IInv
<1>2. RunOK(m)' /\ LoneRunOK(m)'
  BY <1>1, FreshRun, Bounds DEF Stop
<1> QED
  BY <1>1, <1>2, QuietKept DEF Stop

LEMMA ClearStagingStep ==
  ASSUME IInv, NEW m \in Runs, ClearStaging(m)
  PROVE  IInv'
<1>1. TypeOK /\ TypeOK' /\ Moves(m) /\ RunOK(m)
  BY StoreStepTyped, OneMoves DEF IInv, SourceStep
<1>2. /\ at' = at /\ print' = print /\ version' = version /\ receipt' = receipt
      /\ stage[m] = "clear" /\ stage'[m] = "write" /\ next'[m] = 1 /\ parts'[m] = <<>>
  BY <1>1 DEF ClearStaging, GoTo, TypeOK, receipts
<1>3. \A s \in Sources : staged'[s] \subseteq staged[s]
  BY <1>1 DEF ClearStaging, TypeOK
<1>4. at[m] \in Sources /\ Pieces[at[m]] \in Nat
  BY <1>1, Bounds DEF TypeOK
<1>5. RunOK(m)'
  BY <1>1, <1>2, <1>4 DEF RunOK, WritingOK, SettledOK, ProgressOK
<1>6. Alone => LoneRunOK(m)'
  BY <1>2 DEF IInv, AloneOK, LoneRunOK
<1> QED
  BY <1>1, <1>2, <1>3, <1>5, <1>6, PartsKept DEF ClearStaging, bounds

LEMMA RemoveStagingStep ==
  ASSUME IInv, NEW m \in Runs, RemoveStaging(m)
  PROVE  IInv'
<1>1. TypeOK /\ TypeOK' /\ Moves(m) /\ RunOK(m)
  BY StoreStepTyped, OneMoves DEF IInv, SourceStep
<1>2. /\ at' = at /\ print' = print /\ version' = version /\ rows' = rows
      /\ published' = published /\ receipts' = receipts /\ parts' = parts
      /\ stage[m] = "publish" /\ stage'[m] = "complete" /\ next[m] > Len(parts[m])
  BY <1>1 DEF RemoveStaging, GoTo, TypeOK
<1>3. \A s \in Sources : staged'[s] \subseteq staged[s]
  BY <1>1 DEF RemoveStaging, TypeOK
<1>4. AreSource(parts[m], at[m], print[m]) /\ next[m] - 1 >= Pieces[at[m]]
  <2>1. AreSource(parts[m], at[m], print[m])
    BY <1>1, <1>2 DEF RunOK, SettledOK
  <2>2. next[m] \in Nat /\ Pieces[at[m]] \in Nat
    BY <1>1, Bounds DEF TypeOK
  <2> QED
    BY <1>2, <2>1, <2>2 DEF AreSource
<1>5. PublishedUpTo(m, Pieces[at[m]])
  <2>1. PublishedUpTo(m, next[m] - 1) /\ next[m] \in Nat /\ Pieces[at[m]] \in Nat
    BY <1>1, <1>2, Bounds DEF RunOK, ProgressOK, TypeOK
  <2> QED
    BY <1>4, <2>1 DEF PublishedUpTo
<1>6. RunOK(m)'
  <2>1. Readable' = Readable
    BY <1>2 DEF Readable
  <2>2. SettledOK(m)'
    BY <1>2, <1>4 DEF SettledOK, AreSource
  <2>3. ProgressOK(m)'
    BY <1>2, <1>5, <2>1 DEF ProgressOK, PublishedUpTo
  <2>4. WritingOK(m)' /\ print'[m] <= version'[at'[m]]
    BY <1>1, <1>2 DEF RunOK, WritingOK
  <2> QED
    BY <2>2, <2>3, <2>4 DEF RunOK
<1>7. Alone => LoneRunOK(m)'
  BY <1>2 DEF IInv, AloneOK, LoneRunOK, receipts
<1> QED
  BY <1>1, <1>2, <1>3, <1>6, <1>7, PartsKept DEF RemoveStaging, bounds

LEMMA WritePartStep ==
  ASSUME IInv, NEW m \in Runs, WritePart(m)
  PROVE  IInv'
<1>1. TypeOK /\ TypeOK' /\ Moves(m) /\ RunOK(m) /\ StoreOK
  BY StoreStepTyped, OneMoves DEF IInv, SourceStep
<1>2. PICK f \in Files :
        /\ Unused(f)
        /\ rows' = [rows EXCEPT ![f] = {<<at[m], version[at[m]], next[m]>>}]
        /\ staged' = [staged EXCEPT ![at[m]] = @ \cup {f}]
        /\ parts' = [parts EXCEPT ![m] = Append(@, f)]
  BY DEF WritePart
<1>3. /\ UNCHANGED <<version, published, receipt, plan, planned, edits, overlaps, print, at>>
      /\ stage[m] = "write" /\ stage'[m] = "hash" /\ next'[m] = next[m]
      /\ next[m] <= Pieces[at[m]]
  BY <1>1 DEF WritePart, GoTo, TypeOK, receipts, bounds
<1>4. RowsStay
  BY <1>1, <1>2, <1>3, NewRowsStay
<1>5. f \notin published /\ rows[f] = {}
  BY <1>1, <1>2 DEF Unused, StoreOK
<1>6. \A g \in published : rows'[g] = rows[g]
  BY <1>1, <1>2, <1>5 DEF TypeOK
<1>7. Readable' = Readable
  BY <1>3, <1>6 DEF Readable
<1>8. StoreOK'
  BY <1>1, <1>3, <1>6 DEF StoreOK
<1>9. RunOK(m)'
  <2>1. /\ at[m] \in Sources /\ parts[m] \in Seq(Files) /\ next[m] \in Nat
        /\ print[m] \in Nat /\ version[at[m]] \in Nat /\ Pieces[at[m]] \in Nat
    <3>1. at[m] \in Sources /\ parts[m] \in Seq(Files) /\ next[m] \in Nat
      BY <1>1 DEF TypeOK
    <3>2. print[m] \in 0..MaxEdits /\ version[at[m]] \in 0..MaxEdits
      BY <1>1, <3>1 DEF TypeOK
    <3> QED
      BY <3>1, <3>2, Bounds
  <2>2. Len(parts[m]) = next[m] - 1 /\ next[m] \in 1..(Pieces[at[m]] + 1) /\ print[m] <= version[at[m]]
    BY <1>1, <1>3 DEF RunOK, WritingOK
  <2>3. /\ parts'[m] = Append(parts[m], f) /\ Len(parts'[m]) = next[m]
        /\ parts'[m][next[m]] = f
        /\ \A i \in 1..(next[m] - 1) : parts'[m][i] = parts[m][i] /\ parts[m][i] \in Files
    <3>1. parts'[m] = Append(parts[m], f)
      BY <1>1, <1>2 DEF TypeOK
    <3> QED
      BY <3>1, <2>1, <2>2
  <2>4. ASSUME NEW i \in 1..next[m]
        PROVE  \E v \in print[m]..version[at[m]] : rows'[parts'[m][i]] = {<<at[m], v, i>>}
    <3>1. CASE i = next[m]
      <4>1. rows'[parts'[m][i]] = {<<at[m], version[at[m]], i>>}
        BY <1>1, <1>2, <2>3, <3>1 DEF TypeOK
      <4>2. version[at[m]] \in print[m]..version[at[m]]
        BY <2>1, <2>2
      <4> QED
        BY <4>1, <4>2
    <3>2. CASE i \in 1..(next[m] - 1)
      <4>1. PICK v \in print[m]..version[at[m]] : rows[parts[m][i]] = {<<at[m], v, i>>}
        BY <1>1, <1>3, <2>2, <3>2 DEF RunOK, WritingOK
      <4>2. rows'[parts'[m][i]] = {<<at[m], v, i>>}
        BY <1>4, <2>3, <3>2, <4>1 DEF RowsStay
      <4> QED
        BY <4>1, <4>2
    <3> QED
      BY <2>1, <2>2, <3>1, <3>2
  <2>5. WritingOK(m)'
    BY <1>3, <2>2, <2>3, <2>4 DEF WritingOK
  <2> QED
    BY <1>3, <2>2, <2>5 DEF RunOK, SettledOK, ProgressOK
<1>10. \A n \in Runs : RunOK(n)'
  BY <1>1, <1>3, <1>4, <1>9, OthersKept
<1>11. \A s \in Sources : ReceiptOK(s)'
  BY <1>1, <1>3, <1>4, ReceiptKept DEF IInv
<1>12. CompleteIsReadable'
  BY <1>1, <1>3, <1>4, CompleteKept DEF IInv
<1>13. AloneOK'
  <2> SUFFICES ASSUME Alone
               PROVE  /\ Lone'
                      /\ \A n \in Runs : LoneRunOK(n)'
                      /\ OnlyPlanned'
                      /\ \A s \in Sources : WaitingUnread(s)'
                      /\ Disjoint'
    BY <1>3 DEF AloneOK, Alone
  <2>1. Lone' /\ \A n \in Runs \ {m} : stage'[n] = "idle"
    BY <1>1, <1>3, LoneKept DEF IInv, AloneOK
  <2>2. receipt[at[m]] = "none" /\ at[m] \in Sources
    BY <1>1, <1>3 DEF IInv, AloneOK, LoneRunOK, TypeOK
  <2>3. \A n \in Runs : LoneRunOK(n)'
    BY <1>3, <2>1, <2>2 DEF LoneRunOK
  <2>4. OnlyPlanned' /\ Disjoint'
    BY <1>3, <1>6 DEF IInv, AloneOK, OnlyPlanned, Disjoint
  <2>5. \A s \in Sources : s # at[m] => staged'[s] = staged[s]
    BY <1>1, <1>2 DEF TypeOK
  <2>6. \A s \in Sources : WaitingUnread(s)'
    BY <1>3, <1>7, <2>2, <2>5 DEF IInv, AloneOK, WaitingUnread
  <2> QED
    BY <2>1, <2>3, <2>4, <2>6
<1> QED
  BY <1>1, <1>8, <1>10, <1>11, <1>12, <1>13 DEF IInv

LEMMA WriteReceiptStep ==
  ASSUME IInv, NEW m \in Runs, WriteReceipt(m)
  PROVE  IInv'
<1>1. TypeOK /\ TypeOK' /\ Moves(m) /\ RunOK(m) /\ StoreOK /\ at[m] \in Sources
  BY StoreStepTyped, OneMoves DEF IInv, SourceStep, TypeOK
<1>2. /\ UNCHANGED <<version, rows, staged, published, edits, overlaps, print, parts, at>>
      /\ stage[m] = "record" /\ stage'[m] = "publish" /\ next'[m] = 1
  BY <1>1 DEF WriteReceipt, GoTo, TypeOK, store, bounds
<1>3. /\ receipt'[at[m]] = "staged" /\ plan'[at[m]] = parts[m] /\ planned'[at[m]] = print[m]
      /\ \A s \in Sources : s # at[m] =>
            receipt'[s] = receipt[s] /\ plan'[s] = plan[s] /\ planned'[s] = planned[s]
  BY <1>1 DEF WriteReceipt, TypeOK
<1>4. RowsStay /\ Readable' = Readable
  BY <1>2 DEF RowsStay, Readable
<1>5. StoreOK'
  BY <1>1, <1>2 DEF StoreOK
<1>6. AreSource(parts[m], at[m], print[m])
  BY <1>1, <1>2 DEF RunOK, SettledOK
<1>7. RunOK(m)'
  BY <1>1, <1>2, <1>6 DEF RunOK, WritingOK, SettledOK, ProgressOK, PublishedUpTo, AreSource
<1>8. \A n \in Runs : RunOK(n)'
  BY <1>1, <1>2, <1>4, <1>7, OthersKept
<1>9. \A s \in Sources : ReceiptOK(s)'
  <2> SUFFICES ASSUME NEW s \in Sources PROVE ReceiptOK(s)'
    OBVIOUS
  <2>1. CASE s = at[m]
    BY <1>2, <1>3, <1>6, <2>1 DEF ReceiptOK, AreSource
  <2>2. CASE s # at[m]
    BY <1>1, <1>3, <1>4, <2>2, ReceiptKept DEF IInv
  <2> QED
    BY <2>1, <2>2
<1>10. CompleteIsReadable'
  BY <1>1, <1>3, <1>4 DEF IInv, CompleteIsReadable
<1>11. AloneOK'
  <2> SUFFICES ASSUME Alone
               PROVE  /\ Lone'
                      /\ \A n \in Runs : LoneRunOK(n)'
                      /\ OnlyPlanned'
                      /\ \A s \in Sources : WaitingUnread(s)'
                      /\ Disjoint'
    BY <1>2 DEF AloneOK, Alone
  <2>1. Lone' /\ \A n \in Runs \ {m} : stage'[n] = "idle"
    BY <1>1, <1>2, LoneKept DEF IInv, AloneOK
  <2>2. receipt[at[m]] = "none"
    BY <1>1, <1>2 DEF IInv, AloneOK, LoneRunOK
  <2>3. \A n \in Runs : LoneRunOK(n)'
    BY <1>2, <1>3, <2>1 DEF LoneRunOK
  <2>4. \A f \in published : \A r \in rows[f] : r[1] # at[m] /\ r[1] \in Sources
    BY <1>1, <2>2, RowSources DEF IInv, AloneOK, OnlyPlanned
  <2>5. OnlyPlanned'
    BY <1>2, <1>3, <2>4 DEF IInv, AloneOK, OnlyPlanned
  <2>6. \A i : <<at[m], print[m], i>> \notin Readable
    BY <2>4 DEF Readable
  <2>7. \A s \in Sources : WaitingUnread(s)'
    BY <1>2, <1>3, <1>4, <2>6 DEF IInv, AloneOK, WaitingUnread
  <2>8. Disjoint'
    BY <1>2 DEF IInv, AloneOK, Disjoint
  <2> QED
    BY <2>1, <2>3, <2>5, <2>7, <2>8
<1> QED
  BY <1>1, <1>5, <1>8, <1>9, <1>10, <1>11 DEF IInv

LEMMA CompleteReceiptStep ==
  ASSUME IInv, NEW m \in Runs, CompleteReceipt(m)
  PROVE  IInv'
<1>1. TypeOK /\ TypeOK' /\ Moves(m) /\ RunOK(m) /\ StoreOK /\ at[m] \in Sources
  BY StoreStepTyped, OneMoves DEF IInv, SourceStep, TypeOK
<1>2. /\ UNCHANGED <<version, rows, staged, published, edits, overlaps, print, parts, at>>
      /\ stage[m] = "complete" /\ stage'[m] = "verify"
  BY <1>1 DEF CompleteReceipt, GoTo, TypeOK, store, bounds
<1>3. /\ receipt'[at[m]] = "complete" /\ plan'[at[m]] = parts[m] /\ planned'[at[m]] = print[m]
      /\ \A s \in Sources : s # at[m] =>
            receipt'[s] = receipt[s] /\ plan'[s] = plan[s] /\ planned'[s] = planned[s]
  BY <1>1 DEF CompleteReceipt, TypeOK
<1>4. RowsStay /\ Readable' = Readable
  BY <1>2 DEF RowsStay, Readable
<1>5. StoreOK'
  BY <1>1, <1>2 DEF StoreOK
<1>6. AreSource(parts[m], at[m], print[m])
  BY <1>1, <1>2 DEF RunOK, SettledOK
<1>7. RunOK(m)'
  BY <1>1, <1>2 DEF RunOK, WritingOK, SettledOK, ProgressOK
<1>8. \A n \in Runs : RunOK(n)'
  BY <1>1, <1>2, <1>4, <1>7, OthersKept
<1>9. \A s \in Sources : ReceiptOK(s)'
  <2> SUFFICES ASSUME NEW s \in Sources PROVE ReceiptOK(s)'
    OBVIOUS
  <2>1. CASE s = at[m]
    BY <1>2, <1>3, <1>6, <2>1 DEF ReceiptOK, AreSource
  <2>2. CASE s # at[m]
    BY <1>1, <1>3, <1>4, <2>2, ReceiptKept DEF IInv
  <2> QED
    BY <2>1, <2>2
<1>10. CompleteIsReadable'
  <2>1. \A i \in 1..Pieces[at[m]] : <<at[m], print[m], i>> \in Readable
    BY <1>1, <1>2, <1>6 DEF RunOK, ProgressOK, PublishedUpTo, AreSource
  <2> QED
    BY <1>1, <1>3, <1>4, <2>1 DEF IInv, CompleteIsReadable
<1>11. AloneOK'
  <2> SUFFICES ASSUME Alone
               PROVE  /\ Lone'
                      /\ \A n \in Runs : LoneRunOK(n)'
                      /\ OnlyPlanned'
                      /\ \A s \in Sources : WaitingUnread(s)'
                      /\ Disjoint'
    BY <1>2 DEF AloneOK, Alone
  <2>1. Lone' /\ \A n \in Runs \ {m} : stage'[n] = "idle"
    BY <1>1, <1>2, LoneKept DEF IInv, AloneOK
  <2>2. receipt[at[m]] = "staged" /\ plan[at[m]] = parts[m] /\ planned[at[m]] = print[m]
    BY <1>1, <1>2 DEF IInv, AloneOK, LoneRunOK
  <2>3. \A n \in Runs : LoneRunOK(n)'
    BY <1>2, <2>1 DEF LoneRunOK
  <2>4. \A s \in Sources : /\ plan'[s] = plan[s] /\ planned'[s] = planned[s]
                           /\ receipt'[s] # "none" <=> receipt[s] # "none"
    BY <1>3, <2>2
  <2>5. \A f \in published : \A r \in rows[f] : r[1] \in Sources
    BY <1>1, RowSources
  <2>6. OnlyPlanned'
    BY <1>2, <2>4, <2>5 DEF IInv, AloneOK, OnlyPlanned
  <2>7. \A s \in Sources : WaitingUnread(s)'
    BY <1>2, <1>4, <2>4 DEF IInv, AloneOK, WaitingUnread
  <2>8. Disjoint'
    BY <1>2 DEF IInv, AloneOK, Disjoint
  <2> QED
    BY <2>1, <2>3, <2>6, <2>7, <2>8
<1> QED
  BY <1>1, <1>5, <1>8, <1>9, <1>10, <1>11 DEF IInv

LEMMA PublishPartStep ==
  ASSUME IInv, NEW m \in Runs, PublishPart(m)
  PROVE  IInv'
<1>1. TypeOK /\ TypeOK' /\ Moves(m) /\ RunOK(m) /\ StoreOK /\ at[m] \in Sources
  BY StoreStepTyped, OneMoves DEF IInv, SourceStep, TypeOK
<1> DEFINE n == next[m]
           f == parts[m][n]
<1>2. /\ UNCHANGED <<version, rows, receipt, plan, planned, edits, overlaps, print, parts, at>>
      /\ stage[m] = "publish" /\ stage'[m] = "publish" /\ next'[m] = n + 1 /\ n <= Len(parts[m])
      /\ f \in published \cup staged[at[m]]
      /\ published' = published \cup {f}
      /\ staged' = [staged EXCEPT ![at[m]] = @ \ {f}]
  BY <1>1 DEF PublishPart, GoTo, TypeOK, receipts, bounds
<1>3. AreSource(parts[m], at[m], print[m]) /\ n >= 1 /\ PublishedUpTo(m, n - 1)
  BY <1>1, <1>2 DEF RunOK, SettledOK, ProgressOK
<1>4. n \in 1..Pieces[at[m]] /\ n \in Nat /\ Pieces[at[m]] \in Nat
  <2>1. n \in Nat /\ Pieces[at[m]] \in Nat /\ Len(parts[m]) = Pieces[at[m]]
    BY <1>1, <1>3, Bounds DEF TypeOK, AreSource
  <2> QED
    BY <1>2, <1>3, <2>1
<1>5. rows[f] = {<<at[m], print[m], n>>}
  BY <1>3, <1>4 DEF AreSource
<1>6. Readable' = Readable \cup rows[f]
  BY <1>2 DEF Readable
<1>7. RowsStay
  BY <1>2, <1>6 DEF RowsStay
<1>8. StoreOK'
  BY <1>1, <1>2, <1>5 DEF StoreOK
<1>9. RunOK(m)'
  <2>1. SettledOK(m)'
    BY <1>2, <1>3 DEF SettledOK, AreSource
  <2>2. ASSUME NEW j \in 1..n, j <= Pieces[at[m]]
        PROVE  rows[parts[m][j]] \subseteq Readable'
    <3>1. j = n \/ j \in 1..(n - 1)
      BY <1>4
    <3> QED
      BY <1>3, <1>6, <2>2, <3>1 DEF PublishedUpTo
  <2>3. next'[m] - 1 = n /\ next'[m] >= 1
    BY <1>2, <1>4
  <2>4. ProgressOK(m)'
    BY <1>2, <2>2, <2>3 DEF ProgressOK, PublishedUpTo
  <2> QED
    BY <1>1, <1>2, <2>1, <2>4 DEF RunOK, WritingOK
<1>10. \A k \in Runs : RunOK(k)'
  BY <1>1, <1>2, <1>7, <1>9, OthersKept
<1>11. \A s \in Sources : ReceiptOK(s)'
  BY <1>1, <1>2, <1>7, ReceiptKept DEF IInv
<1>12. CompleteIsReadable'
  BY <1>1, <1>2, <1>7, CompleteKept DEF IInv
<1>13. AloneOK'
  <2> SUFFICES ASSUME Alone
               PROVE  /\ Lone'
                      /\ \A k \in Runs : LoneRunOK(k)'
                      /\ OnlyPlanned'
                      /\ \A s \in Sources : WaitingUnread(s)'
                      /\ Disjoint'
    BY <1>2 DEF AloneOK, Alone
  <2>1. Lone' /\ \A k \in Runs \ {m} : stage'[k] = "idle"
    BY <1>1, <1>2, LoneKept DEF IInv, AloneOK
  <2>2. receipt[at[m]] = "staged" /\ plan[at[m]] = parts[m] /\ planned[at[m]] = print[m]
    BY <1>1, <1>2 DEF IInv, AloneOK, LoneRunOK
  <2>3. \A k \in Runs : LoneRunOK(k)'
    BY <1>2, <2>1, <2>2 DEF LoneRunOK
  <2>4. OnlyPlanned'
    BY <1>2, <1>5, <2>2 DEF IInv, AloneOK, OnlyPlanned
  <2>5. f \in published \/ rows[f] \cap Readable = {}
    BY <1>2, <1>4, <1>5, <2>2, <1>1 DEF IInv, AloneOK, WaitingUnread
  <2>6. Disjoint'
    <3>1. CASE f \in published
      BY <1>2, <3>1 DEF IInv, AloneOK, Disjoint
    <3>2. CASE rows[f] \cap Readable = {}
      <4>1. \A g \in published : rows[f] \cap rows[g] = {}
        BY <3>2 DEF Readable
      <4> QED
        BY <1>2, <4>1 DEF IInv, AloneOK, Disjoint
    <3> QED
      BY <2>5, <3>1, <3>2
  <2>7. ASSUME NEW s \in Sources, receipt[s] # "none", NEW i \in 1..Pieces[s], plan[s][i] \in staged'[s]
        PROVE  <<s, planned[s], i>> \notin Readable'
    <3>1. plan[s][i] \in staged[s]
      BY <1>1, <1>2, <2>7 DEF TypeOK
    <3>2. <<s, planned[s], i>> \notin Readable
      BY <3>1, <2>7 DEF IInv, AloneOK, WaitingUnread
    <3>3. <<s, planned[s], i>> # <<at[m], print[m], n>>
      <4> SUFFICES ASSUME s = at[m], i = n PROVE FALSE
        OBVIOUS
      <4>1. plan[s][i] = f
        BY <2>2
      <4> QED
        BY <1>1, <1>2, <2>7, <4>1 DEF TypeOK
    <3> QED
      BY <1>5, <1>6, <3>2, <3>3
  <2>8. \A s \in Sources : WaitingUnread(s)'
    BY <1>2, <2>7 DEF WaitingUnread
  <2> QED
    BY <2>1, <2>3, <2>4, <2>6, <2>8
<1> QED
  BY <1>1, <1>8, <1>10, <1>11, <1>12, <1>13 DEF IInv

LEMMA EditStep ==
  ASSUME IInv, NEW s \in Sources, Edit(s)
  PROVE  IInv'
<1>1. TypeOK /\ TypeOK' /\ StoreOK
  BY EditTyped DEF IInv
<1>2. /\ UNCHANGED <<rows, staged, published, receipt, plan, planned,
                     stage, at, print, parts, next, overlaps>>
      /\ version' = [version EXCEPT ![s] = @ + 1] /\ edits' = edits + 1
  BY DEF Edit, store, receipts, runVars
<1>3. \A z \in Sources : /\ version[z] \in Nat /\ version'[z] \in Nat /\ edits \in Nat
                         /\ version'[z] = IF z = s THEN version[z] + 1 ELSE version[z]
  <2> TAKE z \in Sources
  <2>1. version[z] \in 0..MaxEdits /\ version'[z] \in 0..MaxEdits /\ edits \in 0..MaxEdits
    BY <1>1 DEF TypeOK
  <2>2. version'[z] = IF z = s THEN version[z] + 1 ELSE version[z]
    BY <1>1, <1>2 DEF TypeOK
  <2> QED
    BY <2>1, <2>2, Bounds
<1>4. RowsStay /\ Readable' = Readable
  BY <1>2 DEF RowsStay, Readable
<1>5. StoreOK'
  BY <1>1, <1>2, <1>3 DEF StoreOK
<1>6. \A m \in Runs : RunOK(m)'
  <2>1. \A z \in Sources : version'[z] \in Nat /\ version[z] <= version'[z]
    BY <1>3
  <2> QED
    BY <1>1, <1>2, <1>4, <2>1, RunKept DEF IInv
<1>7. \A z \in Sources : ReceiptOK(z)'
  BY <1>1, <1>2, <1>4, ReceiptKept DEF IInv
<1>8. CompleteIsReadable'
  BY <1>1, <1>2, <1>4, CompleteKept DEF IInv
<1>9. AloneOK'
  BY <1>2, <1>4 DEF IInv, AloneOK, Alone, Lone, UnderWay, LoneRunOK, OnlyPlanned, WaitingUnread, Disjoint
<1> QED
  BY <1>1, <1>5, <1>6, <1>7, <1>8, <1>9 DEF IInv

LEMMA MergeStep ==
  ASSUME IInv, NEW old \in SUBSET published, old # {}, Merge(old)
  PROVE  IInv'
<1>1. TypeOK /\ TypeOK' /\ StoreOK
  BY MergeTyped DEF IInv
<1>2. PICK f \in Files :
        /\ Unused(f)
        /\ published' = (published \ old) \cup {f}
        /\ rows' = [rows EXCEPT ![f] = UNION {rows[g] : g \in old}]
  BY DEF Merge
<1>3. UNCHANGED <<version, staged, receipt, plan, planned, stage, at, print, parts, next,
                  overlaps, edits>>
  BY DEF Merge, receipts, runVars
<1>4. f \notin published /\ rows[f] = {}
  BY <1>1, <1>2 DEF Unused, StoreOK
<1>5. /\ \A g \in Files : g # f => rows'[g] = rows[g]
      /\ rows'[f] = UNION {rows[g] : g \in old}
  BY <1>1, <1>2 DEF TypeOK
<1>6. published \subseteq Files
  BY <1>1 DEF TypeOK
<1>7. Readable' = Readable
  BY <1>2, <1>4, <1>5, <1>6 DEF Readable
<1>8. RowsStay
  BY <1>4, <1>5, <1>7 DEF RowsStay
<1>9. StoreOK'
  <2>1. \A g \in published' : rows'[g] # {}
    BY <1>1, <1>2, <1>4, <1>5, <1>6 DEF StoreOK
  <2> QED
    BY <1>1, <1>3, <2>1 DEF StoreOK
<1>10. \A m \in Runs : RunOK(m)'
  BY <1>1, <1>3, <1>8, RunKept, VersionsNat DEF IInv
<1>11. \A s \in Sources : ReceiptOK(s)'
  BY <1>1, <1>3, <1>8, ReceiptKept DEF IInv
<1>12. CompleteIsReadable'
  BY <1>1, <1>3, <1>8, CompleteKept DEF IInv
<1>13. AloneOK'
  <2> SUFFICES ASSUME Alone
               PROVE  /\ Lone'
                      /\ \A m \in Runs : LoneRunOK(m)'
                      /\ OnlyPlanned'
                      /\ \A s \in Sources : WaitingUnread(s)'
                      /\ Disjoint'
    BY <1>3 DEF AloneOK, Alone
  <2>1. Lone' /\ \A m \in Runs : LoneRunOK(m)'
    BY <1>3 DEF IInv, AloneOK, Lone, UnderWay, LoneRunOK
  <2>2. OnlyPlanned'
    <3> SUFFICES ASSUME NEW g \in published', NEW r \in rows'[g]
                 PROVE  receipt[r[1]] # "none" /\ r[2] = planned[r[1]]
      BY <1>3 DEF OnlyPlanned
    <3>1. PICK h \in published : r \in rows[h]
      BY <1>2, <1>5, <1>6
    <3> QED
      BY <3>1 DEF IInv, AloneOK, OnlyPlanned
  <2>3. \A s \in Sources : WaitingUnread(s)'
    BY <1>3, <1>7 DEF IInv, AloneOK, WaitingUnread
  <2>4. Disjoint'
    <3>1. \A g \in published \ old : rows'[g] = rows[g] /\ rows[g] \cap rows'[f] = {}
      BY <1>4, <1>5, <1>6 DEF IInv, AloneOK, Disjoint
    <3> QED
      BY <1>2, <3>1 DEF IInv, AloneOK, Disjoint
  <2> QED
    BY <2>1, <2>2, <2>3, <2>4
<1> QED
  BY <1>1, <1>9, <1>10, <1>11, <1>12, <1>13 DEF IInv

LEMMA Inductive == IInv /\ [Next]_vars => IInv'
<1> SUFFICES ASSUME IInv, [Next]_vars PROVE IInv'
  OBVIOUS
<1>1. ASSUME NEW m \in Runs, SourceStep(m) PROVE IInv'
  BY <1>1, QuietStep, ClearStagingStep, WritePartStep, WriteReceiptStep, PublishPartStep,
     RemoveStagingStep, CompleteReceiptStep DEF SourceStep
<1>2. ASSUME NEW m \in Runs, Begin(m) \/ Stop(m) PROVE IInv'
  BY <1>2, BeginStep, StopStep
<1>3. ASSUME NEW s \in Sources, Edit(s) PROVE IInv'
  BY <1>3, EditStep
<1>4. ASSUME NEW old \in SUBSET published, old # {}, Merge(old) PROVE IInv'
  BY <1>4, MergeStep
<1>5. CASE UNCHANGED vars
  <2>1. UNCHANGED <<version, rows, staged, published, receipt, plan, planned, stage, at, print,
                    parts, next, overlaps, stops, edits, merges>>
    BY <1>5 DEF vars, store, receipts, runVars, bounds
  <2>2. TypeOK' /\ StoreOK'
    BY <2>1 DEF IInv, TypeOK, StoreOK
  <2>3. (\A m \in Runs : RunOK(m)') /\ (\A s \in Sources : ReceiptOK(s)')
    <3>1. RowsStay
      BY <2>1 DEF RowsStay, Readable
    <3>2. \A s \in Sources : version'[s] \in Nat /\ version[s] <= version'[s]
      BY <2>1, <2>2, VersionsNat DEF IInv
    <3> QED
      BY <2>1, <3>1, <3>2, RunKept, ReceiptKept DEF IInv
  <2>4. CompleteIsReadable' /\ AloneOK'
    BY <2>1 DEF IInv, CompleteIsReadable, Readable, AloneOK, Alone, Lone, UnderWay, LoneRunOK,
                OnlyPlanned, WaitingUnread, Disjoint
  <2> QED
    BY <2>2, <2>3, <2>4 DEF IInv
<1> QED
  BY <1>1, <1>2, <1>3, <1>4, <1>5 DEF Next

LEMMA Invariant == Spec => []IInv
BY Initially, Inductive, PTL DEF Spec

------------------------------------------------------------------------------
(* The theorems.                                                           *)

(* Types, for any number of sources, parts, runs, edits and stops. *)
THEOREM TypeCorrect == Spec => []TypeOK
<1>1. IInv => TypeOK
  BY DEF IInv
<1> QED
  BY <1>1, Invariant, PTL

(* A source with a complete receipt can be read in full, in the version of *)
(* the receipt, however runs overlap and stop, sources are edited and      *)
(* parts are compacted.                                                    *)
THEOREM CompleteSafe == Spec => []CompleteIsReadable
<1>1. IInv => CompleteIsReadable
  BY DEF IInv
<1> QED
  BY <1>1, Invariant, PTL

(* One run at a time publishes every piece once, in one version. *)
THEOREM PublishedSafe == Spec => []PublishedOnce
<1>1. IInv => PublishedOnce
  <2> SUFFICES ASSUME IInv, Alone, NEW f \in published, NEW g \in published,
                      NEW r \in rows[f], NEW q \in rows[g], r[1] = q[1]
               PROVE  r[2] = q[2] /\ (r[3] = q[3] => f = g)
    BY DEF PublishedOnce
  <2>1. r[2] = planned[r[1]] /\ q[2] = planned[q[1]]
    BY DEF IInv, AloneOK, OnlyPlanned
  <2>2. r \in Sources \X (0..MaxEdits) \X Nat /\ q \in Sources \X (0..MaxEdits) \X Nat
    <3>1. rows[f] \in SUBSET Contents /\ rows[g] \in SUBSET Contents
      BY DEF IInv, TypeOK
    <3> QED
      BY <3>1 DEF Contents
  <2>3. ASSUME r[3] = q[3] PROVE f = g
    <3>1. r = q
      BY <2>1, <2>2, <2>3
    <3> QED
      BY <3>1 DEF IInv, AloneOK, Disjoint
  <2> QED
    BY <2>1, <2>3
<1> QED
  BY <1>1, Invariant, PTL

------------------------------------------------------------------------------
(* Refinement: every step of a lone run maps to a step of the restart-safe *)
(* copy, or to none.                                                       *)

Chosen == [s \in Sources |-> IF receipt[s] = "none" THEN MaxEdits + 1 ELSE planned[s]]

Done == {s \in Sources : receipt[s] = "complete"}

LEMMA ReceiptMaps ==
  ASSUME IInv, IInv', Alone, NEW m \in Runs, WriteReceipt(m), NEW s \in Sources, s = at[m]
  PROVE  Copy!Choose(s)
<1>1. TypeOK /\ at[m] \in Sources /\ print[m] \in 0..MaxEdits
  BY DEF IInv, TypeOK
<1>2. receipt[at[m]] = "none"
  BY DEF IInv, AloneOK, LoneRunOK, WriteReceipt
<1>3. Chosen[at[m]] = MaxEdits + 1
  BY <1>1, <1>2 DEF Chosen
<1>4. Chosen' = [Chosen EXCEPT ![at[m]] = print[m]]
  BY <1>1 DEF Chosen, WriteReceipt, TypeOK
<1>5. Readable' = Readable /\ Done' = Done
  BY <1>1, <1>2 DEF Readable, Done, WriteReceipt, store, TypeOK
<1> QED
  BY <1>1, <1>3, <1>4, <1>5 DEF Copy!Choose, Chosen, Done

LEMMA CompleteMaps ==
  ASSUME IInv, IInv', Alone, NEW m \in Runs, CompleteReceipt(m), NEW s \in Sources, s = at[m]
  PROVE  Copy!Finish(s)
<1>1. TypeOK /\ at[m] \in Sources /\ print[m] \in 0..MaxEdits
  BY DEF IInv, TypeOK
<1>2. receipt[at[m]] = "staged" /\ planned[at[m]] = print[m]
  BY DEF IInv, AloneOK, LoneRunOK, CompleteReceipt
<1>3. Chosen[at[m]] = print[m] /\ Chosen[at[m]] # MaxEdits + 1
  BY <1>1, <1>2, Bounds DEF Chosen
<1>4. Chosen' = Chosen
  BY <1>1, <1>2 DEF Chosen, CompleteReceipt, TypeOK
<1>5. Readable' = Readable /\ Done' = Done \cup {at[m]}
  BY <1>1, <1>2 DEF Readable, Done, CompleteReceipt, store, TypeOK
<1>6. \A i \in 1..Pieces[at[m]] : <<at[m], print[m], i>> \in Readable
  <2>1. AreSource(parts[m], at[m], print[m]) /\ PublishedUpTo(m, Pieces[at[m]])
    BY DEF IInv, RunOK, SettledOK, ProgressOK, CompleteReceipt
  <2>2. Pieces[at[m]] \in Nat
    BY <1>1, Bounds
  <2> QED
    BY <2>1, <2>2 DEF PublishedUpTo, AreSource
<1> QED
  BY <1>3, <1>4, <1>5, <1>6 DEF Copy!Finish, Copy!Whole, Chosen, Done

LEMMA PublishMaps ==
  ASSUME IInv, IInv', Alone, NEW m \in Runs, PublishPart(m), NEW s \in Sources, s = at[m]
  PROVE  Copy!Show(s) \/ UNCHANGED Copy!vars
<1>1. TypeOK /\ at[m] \in Sources /\ print[m] \in 0..MaxEdits
  BY DEF IInv, TypeOK
<1>2. receipt[at[m]] = "staged" /\ planned[at[m]] = print[m]
  BY DEF IInv, AloneOK, LoneRunOK, PublishPart
<1>3. Chosen[at[m]] = print[m] /\ Chosen[at[m]] # MaxEdits + 1
  BY <1>1, <1>2, Bounds DEF Chosen
<1>4. Chosen' = Chosen /\ Done' = Done
  BY DEF Chosen, Done, PublishPart, receipts
<1>5. next[m] \in 1..Pieces[at[m]] /\ rows[parts[m][next[m]]] = {<<at[m], print[m], next[m]>>}
  <2>1. AreSource(parts[m], at[m], print[m]) /\ next[m] >= 1 /\ next[m] <= Len(parts[m])
    BY DEF IInv, RunOK, SettledOK, ProgressOK, PublishPart
  <2>2. next[m] \in Nat /\ Pieces[at[m]] \in Nat
    BY <1>1, Bounds DEF TypeOK
  <2>3. next[m] \in 1..Pieces[at[m]]
    BY <2>1, <2>2 DEF AreSource
  <2> QED
    BY <2>1, <2>3 DEF AreSource
<1>6. Readable' = Readable \cup {<<at[m], print[m], next[m]>>}
  BY <1>5 DEF Readable, PublishPart
<1>7. CASE <<at[m], print[m], next[m]>> \in Readable
  BY <1>4, <1>6, <1>7 DEF Copy!vars, Chosen, Done
<1>8. CASE <<at[m], print[m], next[m]>> \notin Readable
  BY <1>3, <1>4, <1>5, <1>6, <1>8 DEF Copy!Show, Copy!Whole, Chosen, Done
<1> QED
  BY <1>7, <1>8

(* All other steps leave receipts and what is readable alone. *)
LEMMA OthersStutter ==
  ASSUME TypeOK, StoreOK, UNCHANGED receipts, Readable' = Readable
  PROVE  UNCHANGED Copy!vars
BY DEF Copy!vars, receipts

LEMMA StepMaps ==
  ASSUME IInv, IInv', Alone', [Next]_vars
  PROVE  Copy!Next \/ UNCHANGED Copy!vars
<1>1. TypeOK /\ StoreOK
  BY DEF IInv
<1>2. Alone
  <2>1. overlaps \in Nat
    BY <1>1, Bounds DEF TypeOK
  <2>2. overlaps' = overlaps \/ overlaps' = overlaps + 1
    BY DEF Next, SourceStep, Begin, Fingerprint, NoReceipt, ReceiptOutdated, ReadReceipt,
           ClearStaging, WritePart, HashPart, CheckSource, WriteReceipt, PublishPart, PartLost,
           RemoveStaging, CompleteReceipt, Verify, VerifyFails, Fail, Stop, Edit, Merge, vars
  <2> QED
    BY <2>1, <2>2 DEF Alone
<1>3. ASSUME NEW m \in Runs, SourceStep(m) \/ Begin(m) \/ Stop(m)
      PROVE  Copy!Next \/ UNCHANGED Copy!vars
  <2>1. at[m] \in Sources
    BY <1>1, <1>3 DEF TypeOK
  <2>2. CASE WriteReceipt(m)
    <3>1. PICK s \in Sources : s = at[m]
      BY <2>1
    <3>2. Copy!Choose(s)
      BY <1>2, <2>2, <3>1, ReceiptMaps
    <3> QED
      BY <3>2 DEF Copy!Next
  <2>3. CASE CompleteReceipt(m)
    <3>1. PICK s \in Sources : s = at[m]
      BY <2>1
    <3>2. Copy!Finish(s)
      BY <1>2, <2>3, <3>1, CompleteMaps
    <3> QED
      BY <3>2 DEF Copy!Next
  <2>4. CASE PublishPart(m)
    <3>1. PICK s \in Sources : s = at[m]
      BY <2>1
    <3>2. Copy!Show(s) \/ UNCHANGED Copy!vars
      BY <1>2, <2>4, <3>1, PublishMaps
    <3> QED
      BY <3>2 DEF Copy!Next
  <2>5. CASE WritePart(m)
    <3>1. PICK f \in Files : /\ Unused(f)
                             /\ rows' = [rows EXCEPT ![f] = {<<at[m], version[at[m]], next[m]>>}]
      BY <2>5 DEF WritePart
    <3>2. f \notin published /\ published' = published
      BY <1>1, <2>5, <3>1 DEF Unused, StoreOK, WritePart
    <3>3. \A g \in published : rows'[g] = rows[g]
      BY <1>1, <3>1, <3>2 DEF TypeOK
    <3>4. Readable' = Readable
      BY <3>2, <3>3 DEF Readable
    <3> QED
      BY <1>1, <2>5, <3>4, OthersStutter DEF WritePart
  <2>6. CASE ClearStaging(m) \/ RemoveStaging(m)
    <3>1. Readable' = Readable
      BY <2>6 DEF Readable, ClearStaging, RemoveStaging
    <3> QED
      BY <1>1, <2>6, <3>1, OthersStutter DEF ClearStaging, RemoveStaging
  <2>7. CASE \/ Begin(m) \/ Stop(m) \/ Fingerprint(m) \/ NoReceipt(m) \/ ReceiptOutdated(m)
             \/ ReadReceipt(m) \/ HashPart(m) \/ CheckSource(m) \/ PartLost(m) \/ Verify(m)
             \/ VerifyFails(m)
    <3>1. UNCHANGED <<store, receipts>>
      BY <2>7 DEF Begin, Stop, Fingerprint, NoReceipt, ReceiptOutdated, ReadReceipt, HashPart,
                  CheckSource, PartLost, Verify, VerifyFails, Fail
    <3>2. Readable' = Readable
      BY <3>1 DEF Readable, store
    <3> QED
      BY <1>1, <3>1, <3>2, OthersStutter
  <2> QED
    BY <1>3, <2>2, <2>3, <2>4, <2>5, <2>6, <2>7 DEF SourceStep
<1>4. ASSUME NEW s \in Sources, Edit(s)
      PROVE  UNCHANGED Copy!vars
  <2>1. Readable' = Readable
    BY <1>4 DEF Edit, Readable, store
  <2> QED
    BY <1>1, <1>4, <2>1, OthersStutter DEF Edit
<1>5. ASSUME NEW old \in SUBSET published, Merge(old)
      PROVE  UNCHANGED Copy!vars
  <2>1. PICK f \in Files :
          /\ Unused(f)
          /\ published' = (published \ old) \cup {f}
          /\ rows' = [rows EXCEPT ![f] = UNION {rows[g] : g \in old}]
    BY <1>5 DEF Merge
  <2>2. f \notin published /\ published \subseteq Files
    BY <1>1, <2>1 DEF Unused, StoreOK, TypeOK
  <2>3. /\ \A g \in Files : g # f => rows'[g] = rows[g]
        /\ rows'[f] = UNION {rows[g] : g \in old}
    BY <1>1, <2>1 DEF TypeOK
  <2>4. Readable' = Readable
    BY <2>1, <2>2, <2>3 DEF Readable
  <2> QED
    BY <1>1, <1>5, <2>4, OthersStutter DEF Merge
<1>6. CASE UNCHANGED vars
  <2>1. Readable' = Readable /\ UNCHANGED receipts
    BY <1>6 DEF vars, store, Readable
  <2> QED
    BY <1>1, <2>1, OthersStutter
<1> QED
  BY <1>3, <1>4, <1>5, <1>6 DEF Next

LEMMA InitMaps == Init => Copy!Init
<1> SUFFICES ASSUME Init PROVE Copy!Init
  OBVIOUS
<1>1. Chosen = [s \in Sources |-> MaxEdits + 1]
  BY DEF Init, Chosen
<1>2. Readable = {} /\ Done = {}
  BY DEF Init, Readable, Done
<1> QED
  BY <1>1, <1>2 DEF Copy!Init, Chosen, Done

(* Migration by one run at a time is a restart-safe copy of its sources:   *)
(* contents are fixed once, their pieces come into view one by one, and a  *)
(* source is done when all of them are there.                              *)
THEOREM Refinement == Spec => ImplementsCopy
<1>1. IInv /\ IInv' /\ [Next]_vars => [Alone' => Copy!Next]_(Copy!vars)
  BY StepMaps
<1> QED
  BY <1>1, Invariant, InitMaps, PTL DEF Spec, ImplementsCopy
=============================================================================
