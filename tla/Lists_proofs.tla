----------------------------- MODULE Lists_proofs -----------------------------
(***************************************************************************)
(* Proofs about the two modules that sort and filter lists: ActionsLog,    *)
(* where threads rewrite a log of rule runs line by line, and the planner  *)
(* of compactions, whose result is computed by recursion over the sizes of *)
(* the files.                                                              *)
(***************************************************************************)
EXTENDS ActionsLog, MCCompactionPlanner, TLAPS, FiniteSetTheorems, WellFoundedInduction

------------------------------------------------------------------------------
(* Sorting and filtering.                                                  *)

LEMMA Ranks ==
  ASSUME NEW S \in SUBSET Nat, IsFiniteSet(S)
  PROVE  /\ Cardinality(S) \in Nat
         /\ \A n \in S : Cardinality({m \in S : m <= n}) \in 1..Cardinality(S)
         /\ \A n, q \in S : n < q => Cardinality({m \in S : m <= n}) < Cardinality({m \in S : m <= q})
         /\ \A i \in 1..Cardinality(S) : \E n \in S : Cardinality({m \in S : m <= n}) = i
<1> DEFINE Upto(n) == {m \in S : m <= n}
           rank == [n \in S |-> Cardinality(Upto(n))]
<1>1. Cardinality(S) \in Nat
  BY FS_CardinalityType
<1>2. ASSUME NEW n \in S PROVE IsFiniteSet(Upto(n)) /\ Cardinality(Upto(n)) \in 1..Cardinality(S)
  <2>1. Upto(n) \in SUBSET S /\ n \in Upto(n)
    OBVIOUS
  <2>2. IsFiniteSet(Upto(n)) /\ Cardinality(Upto(n)) <= Cardinality(S)
    BY <2>1, FS_Subset
  <2>3. Cardinality(Upto(n)) \in Nat /\ Cardinality(Upto(n)) # 0
    BY <2>1, <2>2, FS_CardinalityType, FS_EmptySet
  <2> QED BY <1>1, <2>2, <2>3
<1>3. ASSUME NEW n \in S, NEW q \in S, n < q PROVE Cardinality(Upto(n)) < Cardinality(Upto(q))
  <2>1. Upto(n) \in SUBSET Upto(q) /\ q \in Upto(q) /\ q \notin Upto(n)
    <3>1. n \in Nat /\ q \in Nat /\ \A m \in S : m \in Nat
      OBVIOUS
    <3>2. \A m \in S : m <= n => m <= q
      BY <1>3, <3>1
    <3>3. q <= q /\ ~(q <= n)
      BY <1>3, <3>1
    <3> QED BY <3>2, <3>3
  <2>2. Cardinality(Upto(n)) <= Cardinality(Upto(q)) /\ Cardinality(Upto(n)) # Cardinality(Upto(q))
    BY <1>2, <2>1, FS_Subset
  <2> HIDE DEF Upto
  <2>3. Cardinality(Upto(n)) \in Nat /\ Cardinality(Upto(q)) \in Nat
    BY <1>2, <1>1
  <2> QED BY <2>2, <2>3
<1>4. rank \in Surjection(S, 1..Cardinality(S))
  <2>1. rank \in [S -> 1..Cardinality(S)]
    BY <1>2
  <2>2. ASSUME NEW n \in S, NEW q \in S, rank[n] = rank[q] PROVE n = q
    <3>1. rank[n] = Cardinality(Upto(n)) /\ rank[q] = Cardinality(Upto(q))
      OBVIOUS
    <3>2. Cardinality(Upto(n)) \in Nat /\ Cardinality(Upto(q)) \in Nat
      BY <1>1, <1>2
    <3>3. n \in Nat /\ q \in Nat
      OBVIOUS
    <3> HIDE DEF rank, Upto
    <3>4. Cardinality(Upto(n)) = Cardinality(Upto(q))
      BY <2>2, <3>1
    <3>5. ~(n < q)
      BY <1>3, <3>2, <3>4
    <3>6. ~(q < n)
      BY <1>3, <3>2, <3>4
    <3> QED BY <3>3, <3>5, <3>6
  <2>3. rank \in Injection(S, 1..Cardinality(S))
    BY <2>1, <2>2 DEF Injection, IsInjective
  <2>4. IsFiniteSet(1..Cardinality(S)) /\ Cardinality(1..Cardinality(S)) = Cardinality(S)
    BY <1>1, FS_Interval
  <2> HIDE DEF rank
  <2> QED BY <2>3, <2>4, FS_Injection
<1>5. ASSUME NEW i \in 1..Cardinality(S) PROVE \E n \in S : Cardinality(Upto(n)) = i
  BY <1>4 DEF Surjection
<1> QED BY <1>1, <1>2, <1>3, <1>5

(* InOrder lists a finite set of numbers once, in increasing order. *)
LEMMA InOrderSorts ==
  ASSUME NEW S \in SUBSET Nat, IsFiniteSet(S)
  PROVE  /\ InOrder(S) \in Seq(S) /\ Len(InOrder(S)) = Cardinality(S)
         /\ \A i, j \in 1..Cardinality(S) : i < j => InOrder(S)[i] < InOrder(S)[j]
         /\ \A n \in S : \E i \in 1..Cardinality(S) : InOrder(S)[i] = n
<1> DEFINE rank(n) == Cardinality({m \in S : m <= n})
<1>1. /\ Cardinality(S) \in Nat
      /\ \A n \in S : rank(n) \in 1..Cardinality(S)
      /\ \A n, q \in S : n < q => rank(n) < rank(q)
      /\ \A i \in 1..Cardinality(S) : \E n \in S : rank(n) = i
  BY Ranks
<1>2. InOrder(S) = [i \in 1..Cardinality(S) |-> CHOOSE n \in S : rank(n) = i]
  BY DEF InOrder
<1> HIDE DEF rank
<1>3. ASSUME NEW i \in 1..Cardinality(S)
      PROVE  InOrder(S)[i] \in S /\ rank(InOrder(S)[i]) = i
  BY <1>1, <1>2
<1>4. InOrder(S) \in Seq(S) /\ Len(InOrder(S)) = Cardinality(S)
  BY <1>1, <1>2, <1>3
<1>5. ASSUME NEW n \in S, NEW q \in S, rank(n) <= rank(q) PROVE n <= q
  <2>1. n \in Nat /\ q \in Nat /\ rank(n) \in Nat /\ rank(q) \in Nat
    BY <1>1
  <2>2. ~(q < n)
    BY <1>1, <1>5, <2>1
  <2> QED BY <2>1, <2>2
<1>6. ASSUME NEW i \in 1..Cardinality(S), NEW j \in 1..Cardinality(S), i < j
      PROVE  InOrder(S)[i] < InOrder(S)[j]
  <2>1. /\ InOrder(S)[i] \in S /\ rank(InOrder(S)[i]) = i
        /\ InOrder(S)[j] \in S /\ rank(InOrder(S)[j]) = j
    BY <1>3
  <2>2. InOrder(S)[i] \in Nat /\ InOrder(S)[j] \in Nat
    BY <2>1
  <2>3. InOrder(S)[i] <= InOrder(S)[j]
    BY <1>5, <1>6, <2>1, <2>2
  <2>4. InOrder(S)[i] # InOrder(S)[j]
    BY <1>6, <2>1, <2>2
  <2> QED BY <2>2, <2>3, <2>4
<1>7. ASSUME NEW n \in S PROVE InOrder(S)[rank(n)] = n
  <2>1. InOrder(S)[rank(n)] \in S /\ rank(InOrder(S)[rank(n)]) = rank(n)
    BY <1>1, <1>3
  <2>2. n \in Nat /\ InOrder(S)[rank(n)] \in Nat
    BY <2>1
  <2>4. rank(n) \in Nat
    BY <1>1
  <2>3. InOrder(S)[rank(n)] <= n /\ n <= InOrder(S)[rank(n)]
    BY <1>5, <2>1, <2>2, <2>4
  <2> QED BY <2>2, <2>3
<1> QED BY <1>1, <1>4, <1>6, <1>7

(* The k-th kept line stands at position at[k]: the kept lines are those    *)
(* of the set, in their order.                                             *)
KeptAt(kept, lines, S, at) ==
    /\ at \in [DOMAIN kept -> DOMAIN lines]
    /\ \A i \in DOMAIN kept : kept[i] = lines[at[i]]
    /\ \A i, j \in DOMAIN kept : i < j => at[i] < at[j]
    /\ \A q \in DOMAIN lines : lines[q] \in S => \E i \in DOMAIN kept : at[i] = q

(* Filter keeps the lines of the set and their order. *)
LEMMA FilterKeeps ==
  ASSUME NEW L, NEW lines \in Seq(L), NEW S
  PROVE  /\ Filter(lines, S) \in Seq(L \cap S)
         /\ \E at : KeptAt(Filter(lines, S), lines, S, at)
<1> DEFINE Kept == {i \in DOMAIN lines : lines[i] \in S}
           at == InOrder(Kept)
<1>1. Kept \in SUBSET Nat /\ IsFiniteSet(Kept)
  <2>1. DOMAIN lines = 1..Len(lines) /\ Len(lines) \in Nat
    OBVIOUS
  <2>2. IsFiniteSet(1..Len(lines)) /\ Kept \in SUBSET (1..Len(lines))
    BY <2>1, FS_Interval
  <2> QED BY <2>1, <2>2, FS_Subset
<1>2. /\ at \in Seq(Kept) /\ Len(at) = Cardinality(Kept)
      /\ \A i, j \in 1..Cardinality(Kept) : i < j => at[i] < at[j]
      /\ \A n \in Kept : \E i \in 1..Cardinality(Kept) : at[i] = n
  <2> HIDE DEF Kept
  <2> QED BY <1>1, InOrderSorts
<1>3. Filter(lines, S) = [i \in DOMAIN at |-> lines[at[i]]]
  BY DEF Filter
<1>4. \A q \in Kept : q \in DOMAIN lines /\ lines[q] \in L \cap S
  OBVIOUS
<1>5. \A q \in DOMAIN lines : lines[q] \in S => q \in Kept
  OBVIOUS
<1> HIDE DEF at, Kept
<1>6. /\ DOMAIN at = 1..Cardinality(Kept) /\ Cardinality(Kept) \in Nat
      /\ \A i \in DOMAIN at : at[i] \in Kept
      /\ at = [i \in DOMAIN at |-> at[i]]
  BY <1>2
<1>7. Filter(lines, S) \in Seq(L \cap S) /\ DOMAIN Filter(lines, S) = DOMAIN at
  <2> DEFINE n == Cardinality(Kept)
  <2>1. n \in Nat /\ \A i \in 1..n : lines[at[i]] \in L \cap S
    BY <1>4, <1>6
  <2>2. Filter(lines, S) = [i \in 1..n |-> lines[at[i]]]
    BY <1>3, <1>6
  <2> HIDE DEF n
  <2>3. Filter(lines, S) \in [1..n -> L \cap S]
    BY <2>1, <2>2
  <2>4. Filter(lines, S) \in Seq(L \cap S) /\ DOMAIN Filter(lines, S) = 1..n
    BY <2>1, <2>3
  <2> QED BY <1>6, <2>4 DEF n
<1>8. at \in [DOMAIN Filter(lines, S) -> DOMAIN lines]
  BY <1>4, <1>6, <1>7
<1>9. \A i \in DOMAIN Filter(lines, S) : Filter(lines, S)[i] = lines[at[i]]
  BY <1>3, <1>7
<1>10. /\ \A i, j \in DOMAIN Filter(lines, S) : i < j => at[i] < at[j]
       /\ \A q \in DOMAIN lines : lines[q] \in S => \E i \in DOMAIN Filter(lines, S) : at[i] = q
  BY <1>2, <1>5, <1>6, <1>7
<1>11. KeptAt(Filter(lines, S), lines, S, at)
  BY <1>8, <1>9, <1>10 DEF KeptAt
<1> QED BY <1>7, <1>11

(* A set of natural numbers has a smallest one.                            *)
LEMMA Smallest ==
  ASSUME NEW T \in SUBSET Nat, T # {}
  PROVE  \E m \in T : \A x \in T : m <= x
<1>1. \E m \in T : \A x \in T : <<x, m>> \notin OpToRel(<, Nat)
  BY WFMin, NatLessThanWellFounded
<1>2. PICK m \in T : \A x \in T : <<x, m>> \notin OpToRel(<, Nat)
  BY <1>1
<1>3. \A x \in T : ~(x < m)
  BY <1>2 DEF OpToRel
<1> QED BY <1>3

------------------------------------------------------------------------------
(* The log of rule runs.                                                   *)

Lines == Entries \cup Cuts

(* The lines of new are lines of another sequence, in their order: an      *)
(* entry may have got another status, of a finished action, and a line may *)
(* have been spoiled.                                                      *)
Within(new, lines) ==
    \E at \in [DOMAIN new -> DOMAIN lines] :
        /\ \A i, j \in DOMAIN new : i < j => at[i] < at[j]
        /\ \A i \in DOMAIN new :
            /\ new[i][1] \in {0, lines[at[i]][1]}
            /\ new[i] = lines[at[i]] \/ new[i][2] # "running"

Ordered(lines) ==
    \A i, j \in DOMAIN lines :
        (i < j /\ IsEntry(lines[i]) /\ IsEntry(lines[j])) => lines[i][1] < lines[j][1]

(* What LogInv needs beside the properties: entries are of actions that    *)
(* started, actions start in the order of their numbers, and a line is cut *)
(* short or left without its end only by a failure or a crash.             *)
EntriesStarted == \A i \in DOMAIN log : IsEntry(log[i]) => Started(log[i][1])

InTurn == \A a, b \in Actions : (a < b /\ Started(b)) => Started(a)

CutsHaveCause ==
    (faults = 0 /\ stops = 0) => ~ragged /\ \A i \in DOMAIN log : IsEntry(log[i])

LogInv ==
    /\ TypeOK
    /\ OrderKept
    /\ EntriesStarted
    /\ InTurn
    /\ CutsHaveCause
    /\ MissingHasCause

LEMMA LineFacts ==
  ASSUME ActionsLogAssumption
  PROVE  /\ Cuts \subseteq Lines /\ \A cut \in Cuts : cut[1] = 0 /\ cut[2] # "running" /\ ~IsEntry(cut)
         /\ \A a \in Actions : a \in Nat \ {0}
         /\ \A line \in Lines :
              /\ line[1] \in Nat
              /\ IsEntry(line) <=> line \notin Cuts
              /\ IsEntry(line) <=> line[1] # 0
              /\ IsEntry(line) <=> line[1] \in Actions
              /\ IsEntry(line) => line = <<line[1], line[2]>> /\ line[2] \in {"running", "ok", "fail"}
<1>1. \A a \in Actions : a \in Nat \ {0}
  BY DEF ActionsLogAssumption, Actions
<1>2. ASSUME NEW line \in Entries
      PROVE  /\ line[1] \in Actions
             /\ line = <<line[1], line[2]>> /\ line[2] \in {"running", "ok", "fail"}
  BY DEF Entries
<1>3. 0 \notin Actions
  BY <1>1
<1>4. ASSUME NEW cut \in Cuts PROVE cut \in Lines /\ cut[1] = 0 /\ cut[2] # "running" /\ cut \notin Entries
  <2>1. cut[1] = 0 /\ cut[2] # "running"
    BY DEF Cuts, Junk, Garbled
  <2> QED BY <1>2, <1>3, <2>1 DEF Lines
<1> QED BY <1>1, <1>2, <1>3, <1>4 DEF Lines, IsEntry

(* Lines of a sequence stay in order when some are left out.               *)
LEMMA WithinOrdered ==
  ASSUME ActionsLogAssumption, NEW lines \in Seq(Lines), NEW new \in Seq(Lines),
         Within(new, lines)
  PROVE  /\ Ordered(lines) => Ordered(new)
         /\ \A i \in DOMAIN new : IsEntry(new[i]) =>
              \E q \in DOMAIN lines :
                /\ IsEntry(lines[q])
                /\ new[i][1] = lines[q][1]
                /\ new[i] = lines[q] \/ new[i][2] # "running"
<1>1. PICK at \in [DOMAIN new -> DOMAIN lines] :
        /\ \A i, j \in DOMAIN new : i < j => at[i] < at[j]
        /\ \A i \in DOMAIN new :
            /\ new[i][1] \in {0, lines[at[i]][1]}
            /\ new[i] = lines[at[i]] \/ new[i][2] # "running"
  BY DEF Within
<1>2. ASSUME NEW i \in DOMAIN new, IsEntry(new[i])
      PROVE  /\ at[i] \in DOMAIN lines /\ IsEntry(lines[at[i]])
             /\ new[i][1] = lines[at[i]][1]
             /\ new[i] = lines[at[i]] \/ new[i][2] # "running"
  <2>1. new[i] \in Lines /\ at[i] \in DOMAIN lines
    BY <1>1
  <2>2. lines[at[i]] \in Lines
    BY <2>1
  <2>3. new[i][1] # 0
    BY <1>2, <2>1, LineFacts
  <2> QED BY <1>1, <2>1, <2>2, <2>3, LineFacts
<1>3. ASSUME Ordered(lines), NEW i \in DOMAIN new, NEW j \in DOMAIN new,
             i < j, IsEntry(new[i]), IsEntry(new[j])
      PROVE  new[i][1] < new[j][1]
  <2>1. at[i] < at[j]
    BY <1>1, <1>3
  <2>2. lines[at[i]][1] < lines[at[j]][1]
    BY <1>2, <1>3, <2>1 DEF Ordered
  <2> QED BY <1>2, <1>3, <2>2
<1> QED BY <1>2, <1>3 DEF Ordered

LEMMA WithinItself == ASSUME NEW lines PROVE Within(lines, lines)
<1> DEFINE at == [i \in DOMAIN lines |-> i]
<1>1. /\ at \in [DOMAIN lines -> DOMAIN lines]
      /\ \A i, j \in DOMAIN lines : i < j => at[i] < at[j]
      /\ \A i \in DOMAIN lines : lines[i] = lines[at[i]]
  OBVIOUS
<1> HIDE DEF at
<1> QED BY <1>1 DEF Within

LEMMA WithinTransitive ==
  ASSUME NEW c, NEW b, NEW a, Within(c, b), Within(b, a)
  PROVE  Within(c, a)
<1>1. PICK at \in [DOMAIN c -> DOMAIN b] :
        /\ \A i, j \in DOMAIN c : i < j => at[i] < at[j]
        /\ \A i \in DOMAIN c :
            /\ c[i][1] \in {0, b[at[i]][1]}
            /\ c[i] = b[at[i]] \/ c[i][2] # "running"
  BY DEF Within
<1>2. PICK of \in [DOMAIN b -> DOMAIN a] :
        /\ \A i, j \in DOMAIN b : i < j => of[i] < of[j]
        /\ \A i \in DOMAIN b :
            /\ b[i][1] \in {0, a[of[i]][1]}
            /\ b[i] = a[of[i]] \/ b[i][2] # "running"
  BY DEF Within
<1> DEFINE to == [i \in DOMAIN c |-> of[at[i]]]
<1>3. /\ to \in [DOMAIN c -> DOMAIN a]
      /\ \A i, j \in DOMAIN c : i < j => to[i] < to[j]
  BY <1>1, <1>2
<1>4. ASSUME NEW i \in DOMAIN c
      PROVE  c[i][1] \in {0, a[to[i]][1]} /\ (c[i] = a[to[i]] \/ c[i][2] # "running")
  <2>1. at[i] \in DOMAIN b /\ to[i] = of[at[i]]
    BY <1>1
  <2> HIDE DEF to
  <2> QED BY <1>1, <1>2, <2>1
<1> HIDE DEF to
<1> QED BY <1>3, <1>4 DEF Within

LEMMA FilterWithin ==
  ASSUME NEW lines \in Seq(Lines), NEW S
  PROVE  /\ Filter(lines, S) \in Seq(Lines \cap S)
         /\ Within(Filter(lines, S), lines)
         /\ \A k \in DOMAIN Filter(lines, S) :
              \E i \in DOMAIN lines : lines[i] = Filter(lines, S)[k]
         /\ \A i \in DOMAIN lines : lines[i] \in S =>
              \E k \in DOMAIN Filter(lines, S) : Filter(lines, S)[k] = lines[i]
<1>1. /\ Filter(lines, S) \in Seq(Lines \cap S)
      /\ \E at : KeptAt(Filter(lines, S), lines, S, at)
  BY FilterKeeps
<1>2. PICK at : KeptAt(Filter(lines, S), lines, S, at)
  BY <1>1
<1>3. Within(Filter(lines, S), lines)
  BY <1>2 DEF KeptAt, Within
<1>4. ASSUME NEW k \in DOMAIN Filter(lines, S)
      PROVE  \E i \in DOMAIN lines : lines[i] = Filter(lines, S)[k]
  BY <1>2, at[k] \in DOMAIN lines DEF KeptAt
<1> QED BY <1>1, <1>2, <1>3, <1>4 DEF KeptAt

LEMMA SubSeqWithin ==
  ASSUME NEW lines \in Seq(Lines), NEW m \in Nat \ {0}, NEW n \in 0..Len(lines)
  PROVE  /\ SubSeq(lines, m, n) \in Seq(Lines)
         /\ Within(SubSeq(lines, m, n), lines)
<1> DEFINE new == SubSeq(lines, m, n)
           at == [i \in DOMAIN new |-> m + i - 1]
<1>1. new \in Seq(Lines) /\ \A i \in DOMAIN new : m + i - 1 \in DOMAIN lines /\ new[i] = lines[m + i - 1]
  OBVIOUS
<1>2. \A i \in DOMAIN new : i \in Nat
  BY <1>1
<1> HIDE DEF new
<1>3. /\ at \in [DOMAIN new -> DOMAIN lines]
      /\ \A i, j \in DOMAIN new : i < j => at[i] < at[j]
      /\ \A i \in DOMAIN new : new[i] = lines[at[i]]
  BY <1>1, <1>2
<1> HIDE DEF at
<1>4. Within(new, lines)
  BY <1>3 DEF Within
<1> QED BY <1>1, <1>4 DEF new

LEMMA WithStatusWithin ==
  ASSUME ActionsLogAssumption, NEW entries \in Seq(Entries), NEW a \in Actions,
         NEW status \in {"ok", "fail"}
  PROVE  /\ WithStatus(entries, a, status) \in Seq(Entries)
         /\ Within(WithStatus(entries, a, status), entries)
         /\ \A b \in Actions : Names(entries, b) => Names(WithStatus(entries, a, status), b)
<1> DEFINE new == WithStatus(entries, a, status)
           at == [i \in DOMAIN new |-> i]
<1>1. <<a, status>> \in Entries
  BY DEF Entries
<1>2. /\ DOMAIN new = DOMAIN entries
      /\ \A i \in DOMAIN new : new[i] = IF entries[i][1] = a THEN <<a, status>> ELSE entries[i]
  BY DEF WithStatus
<1>3. new \in Seq(Entries)
  <2>1. DOMAIN entries = 1..Len(entries) /\ Len(entries) \in Nat
    OBVIOUS
  <2>2. new \in [1..Len(entries) -> Entries]
    BY <1>1, <2>1 DEF WithStatus
  <2> QED BY <2>1, <2>2
<1>4. \A i \in DOMAIN new : new[i][1] = entries[i][1] /\ (new[i] = entries[i] \/ new[i][2] # "running")
  BY <1>2
<1> HIDE DEF new
<1>5. /\ at \in [DOMAIN new -> DOMAIN entries]
      /\ \A i, j \in DOMAIN new : i < j => at[i] < at[j]
      /\ \A i \in DOMAIN new :
            /\ new[i][1] \in {0, entries[at[i]][1]}
            /\ new[i] = entries[at[i]] \/ new[i][2] # "running"
  BY <1>2, <1>4
<1>6. Within(new, entries)
  <2> HIDE DEF at
  <2> QED BY <1>5 DEF Within
<1> QED BY <1>2, <1>3, <1>4, <1>6 DEF new, Names

LEMMA WithoutWithin ==
  ASSUME ActionsLogAssumption, NEW entries \in Seq(Entries), NEW a \in Actions
  PROVE  /\ Without(entries, a) \in Seq(Entries)
         /\ Within(Without(entries, a), entries)
         /\ \A b \in Actions \ {a} : Names(entries, b) => Names(Without(entries, a), b)
<1> DEFINE S == {line \in Entries : line[1] # a}
<1>1. entries \in Seq(Lines) /\ \A l \in Lines \cap S : l \in Entries
  BY DEF Lines
<1>2. /\ Without(entries, a) \in Seq(Lines \cap S)
      /\ Within(Without(entries, a), entries)
      /\ \A i \in DOMAIN entries : entries[i] \in S =>
           \E k \in DOMAIN Without(entries, a) : Without(entries, a)[k] = entries[i]
  <2> HIDE DEF S
  <2>1. Without(entries, a) = Filter(entries, S)
    BY DEF Without, S
  <2>2. entries \in Seq(Lines)
    BY <1>1
  <2>3. /\ Filter(entries, S) \in Seq(Lines \cap S)
        /\ Within(Filter(entries, S), entries)
        /\ \A i \in DOMAIN entries : entries[i] \in S =>
             \E k \in DOMAIN Filter(entries, S) : Filter(entries, S)[k] = entries[i]
    BY <2>2, FilterWithin
  <2> QED BY <2>1, <2>3
<1>3. Without(entries, a) \in Seq(Entries)
  <2> HIDE DEF S
  <2> QED BY <1>1, <1>2
<1>4. ASSUME NEW b \in Actions \ {a}, NEW i \in DOMAIN entries, entries[i][1] = b
      PROVE  entries[i] \in S
  BY <1>4
<1> QED BY <1>2, <1>3, <1>4 DEF Names

LEMMA NewestWithin ==
  ASSUME ActionsLogAssumption, NEW entries \in Seq(Entries), Len(entries) > Cap
  PROVE  /\ Newest(entries) \in Seq(Entries)
         /\ Within(Newest(entries), entries)
         /\ Len(Newest(entries)) = Cap
         /\ \A i \in 1..Cap : Newest(entries)[i] = entries[Len(entries) - Cap + i]
<1>1. Cap \in Nat \ {0} /\ Len(entries) - Cap + 1 \in Nat \ {0} /\ Len(entries) \in 0..Len(entries)
  BY DEF ActionsLogAssumption
<1>2. entries \in Seq(Lines)
  BY DEF Lines
<1>3. Within(Newest(entries), entries)
  BY <1>1, <1>2, SubSeqWithin DEF Newest
<1> QED BY <1>1, <1>3 DEF Newest

------------------------------------------------------------------------------
(* What an operation reads of the file, or of the part of it that can be   *)
(* read: the entries before the first line that is not text.               *)

Plain(lines, i) == IsEntry(lines[i]) /\ \A j \in 1..i : lines[j] # Garbled

ShownIn(lines, e) == \E i \in DOMAIN lines : lines[i] = e /\ Plain(lines, i)

LEMMA LegiblePrefix ==
  ASSUME NEW lines \in Seq(Lines)
  PROVE  \E n \in 0..Len(lines) :
           /\ Legible(lines) = SubSeq(lines, 1, n)
           /\ \A i \in DOMAIN lines : i <= n <=> \A j \in 1..i : lines[j] # Garbled
<1> DEFINE S == {i \in DOMAIN lines : \A j \in 1..i : lines[j] # Garbled}
<1>1. Len(lines) \in Nat /\ DOMAIN lines = 1..Len(lines)
  OBVIOUS
<1>2. Legible(lines) = SubSeq(lines, 1, Cardinality(S))
  BY DEF Legible
<1>3. CASE \A i \in DOMAIN lines : lines[i] # Garbled
  <2>1. S = 1..Len(lines)
    <3>1. ASSUME NEW i \in 1..Len(lines), NEW j \in 1..i PROVE lines[j] # Garbled
      <4>1. j \in 1..Len(lines)
        BY <1>1
      <4> QED BY <1>1, <1>3, <4>1
    <3> QED BY <1>1, <3>1
  <2> HIDE DEF S
  <2>2. Cardinality(S) = Len(lines)
    BY <1>1, <2>1, FS_Interval
  <2>3. \A i \in DOMAIN lines : i <= Len(lines) <=> \A j \in 1..i : lines[j] # Garbled
    <3> SUFFICES ASSUME NEW i \in DOMAIN lines
                 PROVE  i <= Len(lines) <=> \A j \in 1..i : lines[j] # Garbled
      OBVIOUS
    <3>1. i \in Nat /\ i <= Len(lines)
      BY <1>1
    <3>2. ASSUME NEW j \in 1..i PROVE lines[j] # Garbled
      <4>1. j \in DOMAIN lines
        BY <1>1, <3>1
      <4> QED BY <1>3, <4>1
    <3> QED BY <3>1, <3>2
  <2>4. Len(lines) \in 0..Len(lines) /\ Legible(lines) = SubSeq(lines, 1, Len(lines))
    BY <1>1, <1>2, <2>2
  <2> QED BY <2>3, <2>4
<1>4. CASE ~(\A i \in DOMAIN lines : lines[i] # Garbled)
  <2> DEFINE T == {i \in DOMAIN lines : lines[i] = Garbled}
  <2>1. T \in SUBSET Nat /\ T # {}
    BY <1>1, <1>4
  <2> HIDE DEF T
  <2>2. PICK m \in T : \A x \in T : m <= x
    BY <2>1, Smallest
  <2>3. m \in 1..Len(lines) /\ lines[m] = Garbled
    BY <1>1, <2>2 DEF T
  <2>4. \A i \in DOMAIN lines : i < m => lines[i] # Garbled
    <3>1. ASSUME NEW i \in DOMAIN lines, i < m, lines[i] = Garbled PROVE FALSE
      <4>1. i \in T
        BY <3>1 DEF T
      <4>2. m <= i
        BY <2>2, <4>1
      <4> QED BY <1>1, <2>3, <3>1, <4>2
    <3> QED BY <3>1
  <2>5. \A i \in DOMAIN lines : i <= m - 1 <=> \A j \in 1..i : lines[j] # Garbled
    <3>1. ASSUME NEW i \in DOMAIN lines, i <= m - 1, NEW j \in 1..i PROVE lines[j] # Garbled
      <4>1. j \in DOMAIN lines /\ j < m
        BY <1>1, <2>3, <3>1
      <4> QED BY <2>4, <4>1
    <3>2. ASSUME NEW i \in DOMAIN lines, ~(i <= m - 1) PROVE ~(\A j \in 1..i : lines[j] # Garbled)
      <4>1. m \in 1..i
        BY <1>1, <2>3, <3>2
      <4> QED BY <2>3, <4>1
    <3> QED BY <3>1, <3>2
  <2>6. S = 1..(m - 1)
    <3>1. \A i : i \in S <=> i \in DOMAIN lines /\ i <= m - 1
      BY <2>5
    <3> HIDE DEF S
    <3>2. m \in Nat \ {0} /\ m <= Len(lines)
      BY <1>1, <2>3
    <3>3. \A i : i \in 1..(m - 1) <=> i \in 1..Len(lines) /\ i <= m - 1
      BY <1>1, <3>2
    <3>4. \A i : i \in S <=> i \in 1..(m - 1)
      BY <1>1, <3>1, <3>3
    <3> QED BY <3>4
  <2> HIDE DEF S
  <2>7. Cardinality(S) = m - 1
    BY <2>3, <2>6, FS_Interval
  <2>8. m - 1 \in 0..Len(lines)
    BY <1>1, <2>3
  <2> QED BY <1>2, <2>5, <2>7, <2>8
<1> QED BY <1>3, <1>4

LEMMA ReadShows ==
  ASSUME NEW lines \in Seq(Lines)
  PROVE  /\ Read(lines) \in Seq(Entries)
         /\ Within(Read(lines), lines)
         /\ \A k \in DOMAIN Read(lines) : ShownIn(lines, Read(lines)[k])
         /\ \A i \in DOMAIN lines : Plain(lines, i) =>
              \E k \in DOMAIN Read(lines) : Read(lines)[k] = lines[i]
<1>1. PICK n \in 0..Len(lines) :
           /\ Legible(lines) = SubSeq(lines, 1, n)
           /\ \A i \in DOMAIN lines : i <= n <=> \A j \in 1..i : lines[j] # Garbled
  BY LegiblePrefix
<1> DEFINE legible == Legible(lines)
<1>2. legible \in Seq(Lines) /\ Within(legible, lines)
  BY <1>1, SubSeqWithin, 1 \in Nat \ {0}
<1>3. /\ DOMAIN legible = 1..n
      /\ \A i \in 1..n : i \in DOMAIN lines /\ legible[i] = lines[i]
  BY <1>1
<1>4. Read(lines) = Filter(legible, Entries)
  BY DEF Read
<1> HIDE DEF legible
<1>5. Lines \cap Entries = Entries
  BY DEF Lines
<1>6. /\ Read(lines) \in Seq(Entries)
      /\ Within(Read(lines), legible)
      /\ \A k \in DOMAIN Read(lines) : \E i \in DOMAIN legible : legible[i] = Read(lines)[k]
      /\ \A i \in DOMAIN legible : legible[i] \in Entries =>
           \E k \in DOMAIN Read(lines) : Read(lines)[k] = legible[i]
  BY <1>2, <1>4, <1>5, FilterWithin
<1>7. Within(Read(lines), lines)
  BY <1>2, <1>6, WithinTransitive
<1>8. ASSUME NEW k \in DOMAIN Read(lines) PROVE ShownIn(lines, Read(lines)[k])
  <2>1. PICK i \in DOMAIN legible : legible[i] = Read(lines)[k]
    BY <1>6
  <2>2. i \in 1..n /\ i \in DOMAIN lines /\ lines[i] = Read(lines)[k]
    BY <1>3, <2>1
  <2>3. \A j \in 1..i : lines[j] # Garbled
    BY <1>1, <2>2
  <2>4. Read(lines)[k] \in Entries
    BY <1>6
  <2> QED BY <2>2, <2>3, <2>4 DEF ShownIn, Plain, IsEntry
<1>9. ASSUME NEW i \in DOMAIN lines, Plain(lines, i)
      PROVE  \E k \in DOMAIN Read(lines) : Read(lines)[k] = lines[i]
  <2>1. i <= n /\ lines[i] \in Entries
    BY <1>1, <1>9 DEF Plain, IsEntry
  <2>2. i \in 1..n
    BY <2>1
  <2> QED BY <1>3, <1>6, <2>1, <2>2
<1> QED BY <1>6, <1>7, <1>8, <1>9

(* The same, of one entry and of one action.                               *)
LEMMA ReadNames ==
  ASSUME ActionsLogAssumption, NEW lines \in Seq(Lines)
  PROVE  /\ \A e : (\E k \in DOMAIN Read(lines) : Read(lines)[k] = e) <=> ShownIn(lines, e)
         /\ \A a \in Actions :
              Names(Read(lines), a) <=> \E i \in DOMAIN lines : Plain(lines, i) /\ lines[i][1] = a
<1>1. ASSUME NEW e PROVE (\E k \in DOMAIN Read(lines) : Read(lines)[k] = e) <=> ShownIn(lines, e)
  BY ReadShows DEF ShownIn
<1>2. ASSUME NEW a \in Actions
      PROVE  Names(Read(lines), a) <=> \E i \in DOMAIN lines : Plain(lines, i) /\ lines[i][1] = a
  BY ReadShows DEF ShownIn, Names
<1> QED BY <1>1, <1>2

(* What is shown of the part that can be read is shown of the whole; of    *)
(* entries alone all are shown; and a line is added to what is shown, or   *)
(* takes the place of one that lacked its end.                             *)
LEMMA PrefixShows ==
  ASSUME NEW lines \in Seq(Lines), NEW n \in 0..Len(lines), NEW e,
         ShownIn(SubSeq(lines, 1, n), e)
  PROVE  ShownIn(lines, e)
<1> DEFINE new == SubSeq(lines, 1, n)
<1>1. DOMAIN new = 1..n /\ \A i \in 1..n : i \in DOMAIN lines /\ new[i] = lines[i]
  OBVIOUS
<1> HIDE DEF new
<1>2. PICK i \in DOMAIN new : new[i] = e /\ Plain(new, i)
  BY DEF ShownIn, new
<1>3. i \in DOMAIN lines /\ lines[i] = e /\ IsEntry(lines[i])
  BY <1>1, <1>2 DEF Plain
<1>4. ASSUME NEW j \in 1..i PROVE lines[j] # Garbled
  <2>1. j \in 1..n
    BY <1>1, <1>2
  <2> QED BY <1>1, <1>2, <2>1 DEF Plain
<1> QED BY <1>3, <1>4 DEF ShownIn, Plain

LEMMA EntriesShow ==
  ASSUME ActionsLogAssumption, NEW entries \in Seq(Entries)
  PROVE  /\ entries \in Seq(Lines)
         /\ \A e : ShownIn(entries, e) <=> \E k \in DOMAIN entries : entries[k] = e
         /\ \A a \in Actions : Names(Read(entries), a) <=> Names(entries, a)
<1>1. entries \in Seq(Lines)
  BY DEF Lines
<1>2. ASSUME NEW i \in DOMAIN entries PROVE Plain(entries, i)
  <2>1. entries[i] \in Entries /\ \A j \in 1..i : entries[j] \in Entries
    OBVIOUS
  <2>2. Garbled \notin Entries
    BY LineFacts DEF Cuts, IsEntry
  <2> QED BY <2>1, <2>2 DEF Plain, IsEntry
<1> QED BY <1>1, <1>2, ReadNames DEF ShownIn, Names

LEMMA AppendedLine ==
  ASSUME ActionsLogAssumption, TypeOK, NEW line \in Lines
  PROVE  /\ log \in Seq(Lines)
         /\ Appended(line) \in Seq(Lines) /\ Appended(line) # <<>>
         /\ ragged => Within(Appended(line), log)
         /\ ~ragged => Appended(line) = Append(log, line)
<1>1. log \in Seq(Lines) /\ Len(log) \in Nat /\ DOMAIN log = 1..Len(log)
  BY DEF TypeOK, Lines
<1>2. CASE ~ragged
  <2>1. Appended(line) = Append(log, line)
    BY <1>2 DEF Appended
  <2>2. Append(log, line) \in Seq(Lines) /\ Len(Append(log, line)) = Len(log) + 1
    BY <1>1
  <2>3. Append(log, line) # <<>>
    BY <1>1, <2>2
  <2> QED BY <1>1, <1>2, <2>1, <2>2, <2>3
<1>3. CASE ragged
  <2> DEFINE spoiled == IF Garbled \in {log[Len(log)], line} THEN Garbled ELSE Junk
             new == [log EXCEPT ![Len(log)] = spoiled]
             at == [i \in DOMAIN new |-> i]
  <2>1. spoiled \in Cuts
    BY DEF Cuts
  <2>2. Appended(line) = new
    BY <1>3 DEF Appended
  <2> HIDE DEF spoiled
  <2>3. Len(log) \in DOMAIN log
    BY <1>1, <1>3 DEF TypeOK
  <2>4. spoiled \in Lines /\ spoiled[1] = 0 /\ spoiled[2] # "running"
    BY <2>1, LineFacts
  <2>5. /\ new \in Seq(Lines) /\ DOMAIN new = DOMAIN log /\ Len(new) = Len(log)
        /\ \A i \in DOMAIN log : new[i] = IF i = Len(log) THEN spoiled ELSE log[i]
    BY <1>1, <2>3, <2>4
  <2> HIDE DEF new
  <2>6. /\ at \in [DOMAIN new -> DOMAIN log]
        /\ \A i, j \in DOMAIN new : i < j => at[i] < at[j]
        /\ \A i \in DOMAIN new : at[i] = i
    BY <2>5
  <2> HIDE DEF at
  <2>7. \A i \in DOMAIN new :
            /\ new[i][1] \in {0, log[at[i]][1]}
            /\ new[i] = log[at[i]] \/ new[i][2] # "running"
    BY <2>4, <2>5, <2>6
  <2>8. Within(new, log)
    BY <2>6, <2>7 DEF Within
  <2>9. new # <<>>
    BY <2>3, <2>5
  <2> QED BY <1>1, <1>3, <2>2, <2>5, <2>8, <2>9
<1> QED BY <1>2, <1>3

LEMMA AppendedShows ==
  ASSUME ActionsLogAssumption, TypeOK, NEW line \in Lines
  PROVE  /\ \A e : ShownIn(Appended(line), e) => ShownIn(log, e) \/ e = line
         /\ \A i \in DOMAIN log : (Plain(log, i) /\ ~(ragged /\ i = Len(log))) =>
              /\ i \in DOMAIN Appended(line)
              /\ Appended(line)[i] = log[i]
              /\ Plain(Appended(line), i)
         /\ (~ragged /\ IsEntry(line) /\ \A i \in DOMAIN log : log[i] # Garbled) =>
              ShownIn(Appended(line), line)
<1> DEFINE new == Appended(line)
<1>1. /\ log \in Seq(Lines) /\ new \in Seq(Lines)
      /\ Len(log) \in Nat /\ DOMAIN log = 1..Len(log)
  BY AppendedLine
<1>2. /\ DOMAIN log \subseteq DOMAIN new
      /\ \A i \in DOMAIN log : ~(ragged /\ i = Len(log)) => new[i] = log[i]
      /\ ~ragged => DOMAIN new = 1..(Len(log) + 1) /\ new[Len(log) + 1] = line
      /\ ragged => DOMAIN new = DOMAIN log
      /\ ragged => ~IsEntry(new[Len(log)])
  <2>1. CASE ~ragged
    <3>1. new = Append(log, line)
      BY <2>1 DEF Appended
    <3> HIDE DEF new
    <3>2. DOMAIN new = 1..(Len(log) + 1) /\ new[Len(log) + 1] = line
      BY <1>1, <3>1
    <3>3. \A i \in DOMAIN log : i \in DOMAIN new /\ new[i] = log[i]
      BY <1>1, <3>1, <3>2
    <3> QED BY <2>1, <3>2, <3>3
  <2>2. CASE ragged
    <3> DEFINE spoiled == IF Garbled \in {log[Len(log)], line} THEN Garbled ELSE Junk
    <3>1. ~IsEntry(spoiled)
      BY LineFacts DEF Cuts
    <3>2. new = [log EXCEPT ![Len(log)] = spoiled]
      BY <2>2 DEF Appended
    <3>3. Len(log) \in DOMAIN log
      BY <1>1, <2>2 DEF TypeOK
    <3> HIDE DEF spoiled
    <3> QED BY <1>1, <2>2, <3>1, <3>2, <3>3
  <2> QED BY <2>1, <2>2
<1> HIDE DEF new
<1>3. ASSUME NEW i \in DOMAIN log, ~(ragged /\ i = Len(log)) PROVE Plain(new, i) <=> Plain(log, i)
  <2>1. ASSUME NEW j \in 1..i PROVE new[j] = log[j]
    <3>1. j \in Nat /\ 1 <= j /\ j <= i /\ i <= Len(log) /\ i \in Nat
      BY <1>1
    <3>2. j \in 1..Len(log)
      BY <1>1, <3>1
    <3>3. ~(ragged /\ j = Len(log))
      <4>1. ASSUME j = Len(log) PROVE i = Len(log)
        BY <1>1, <3>1, <4>1
      <4> QED BY <1>3, <4>1
    <3> QED BY <1>1, <1>2, <3>2, <3>3
  <2>2. i \in 1..i
    BY <1>1
  <2> QED BY <2>1, <2>2 DEF Plain
<1>4. ASSUME NEW e, ShownIn(new, e), e # line PROVE ShownIn(log, e)
  <2>1. PICK i \in DOMAIN new : new[i] = e /\ Plain(new, i)
    BY <1>4 DEF ShownIn
  <2>2. i \in DOMAIN log /\ ~(ragged /\ i = Len(log))
    BY <1>1, <1>2, <1>4, <2>1 DEF Plain
  <2>3. log[i] = e /\ Plain(log, i)
    BY <1>2, <1>3, <2>1, <2>2
  <2> QED BY <2>2, <2>3 DEF ShownIn
<1>5. ASSUME ~ragged, IsEntry(line), \A i \in DOMAIN log : log[i] # Garbled
      PROVE  ShownIn(new, line)
  <2>1. Len(log) + 1 \in DOMAIN new /\ new[Len(log) + 1] = line
    <3>1. DOMAIN new = 1..(Len(log) + 1) /\ new[Len(log) + 1] = line
      BY <1>2, <1>5
    <3> QED BY <1>1, <3>1
  <2>2. line # Garbled
    BY <1>5, LineFacts DEF Cuts
  <2>3. ASSUME NEW j \in 1..(Len(log) + 1) PROVE new[j] # Garbled
    <3>1. CASE j = Len(log) + 1
      BY <2>1, <2>2, <3>1
    <3>2. CASE j # Len(log) + 1
      <4>1. j \in DOMAIN log
        BY <1>1, <3>2
      <4> QED BY <1>2, <1>5, <4>1
    <3> QED BY <3>1, <3>2
  <2> QED BY <1>5, <2>1, <2>3 DEF ShownIn, Plain
<1>6. \A i \in DOMAIN log : (Plain(log, i) /\ ~(ragged /\ i = Len(log))) =>
              i \in DOMAIN new /\ new[i] = log[i] /\ Plain(new, i)
  BY <1>2, <1>3
<1> QED BY <1>4, <1>5, <1>6 DEF new

------------------------------------------------------------------------------
(* How a step changes the log: entries go or are finished, or one line is  *)
(* added before that, the next action's or one that was cut short.         *)
StartsEntry(a) ==
    /\ IsNext(a)
    /\ Started(a)'
    /\ Within(log', Append(log, <<a, "running">>))

LogStep ==
    \/ Within(log', log)
    \/ \E cut \in Cuts : log' = Append(log, cut)
    \/ \E a \in Actions : StartsEntry(a)

(* And how it changes what is shown.                                       *)
ShowsStep ==
    \A e \in Entries : ShownIn(log', e) =>
        \/ ShownIn(log, e)
        \/ e[2] # "running" /\ Listed(e[1])
        \/ \E a \in Actions : IsNext(a) /\ Started(a)' /\ e = <<a, "running">>

LogType == log' \in Seq(Lines) /\ (ragged' => log' # <<>>)

GoodStep == LogType /\ LogStep /\ ShowsStep

LEMMA SameLog ==
  ASSUME ActionsLogAssumption, TypeOK, UNCHANGED <<log, ragged>>
  PROVE  GoodStep
<1>1. LogType
  BY DEF LogType, TypeOK, Lines
<1>2. LogStep
  BY WithinItself DEF LogStep
<1>3. ShowsStep
  BY DEF ShowsStep, ShownIn, Plain
<1> QED BY <1>1, <1>2, <1>3 DEF GoodStep

LEMMA ReadWithin ==
  ASSUME ActionsLogAssumption, NEW lines \in Seq(Lines), NEW n \in 0..Len(lines)
  PROVE  /\ Read(SubSeq(lines, 1, n)) \in Seq(Entries)
         /\ Within(Read(SubSeq(lines, 1, n)), lines)
         /\ \A k \in DOMAIN Read(SubSeq(lines, 1, n)) : ShownIn(lines, Read(SubSeq(lines, 1, n))[k])
<1> DEFINE part == SubSeq(lines, 1, n)
<1>1. part \in Seq(Lines) /\ Within(part, lines)
  BY SubSeqWithin, 1 \in Nat \ {0}
<1>2. \A e : ShownIn(part, e) => ShownIn(lines, e)
  BY PrefixShows
<1> HIDE DEF part
<1>3. /\ Read(part) \in Seq(Entries) /\ Within(Read(part), part)
      /\ \A k \in DOMAIN Read(part) : ShownIn(part, Read(part)[k])
  BY <1>1, ReadShows
<1> QED BY <1>1, <1>2, <1>3, WithinTransitive DEF part

(* What is read, and written back with lines left out or finished.         *)
LEMMA RewriteStep ==
  ASSUME ActionsLogAssumption, TypeOK, NEW n \in 0..Len(log), NEW new \in Seq(Entries),
         Within(new, Read(SubSeq(log, 1, n))), Rewrite(new)
  PROVE  GoodStep
<1> DEFINE entries == Read(SubSeq(log, 1, n))
<1>1. log \in Seq(Lines)
  BY DEF TypeOK, Lines
<1>2. /\ entries \in Seq(Entries) /\ Within(entries, log)
      /\ \A k \in DOMAIN entries : ShownIn(log, entries[k])
  BY <1>1, ReadWithin
<1> HIDE DEF entries
<1>3. log' = new /\ ragged' = FALSE /\ Within(new, entries)
  BY DEF Rewrite, entries
<1>4. LogType
  BY <1>3 DEF LogType, Lines
<1>5. LogStep
  BY <1>2, <1>3, WithinTransitive DEF LogStep
<1>6. ASSUME NEW e \in Entries, ShownIn(new, e)
      PROVE  ShownIn(log, e) \/ (e[2] # "running" /\ Listed(e[1]))
  <2>1. PICK i \in DOMAIN new : new[i] = e
    BY <1>6 DEF ShownIn
  <2>2. new \in Seq(Lines) /\ entries \in Seq(Lines) /\ IsEntry(new[i])
    BY <1>2, <2>1, EntriesShow DEF IsEntry
  <2>3. PICK q \in DOMAIN entries :
          /\ new[i][1] = entries[q][1]
          /\ new[i] = entries[q] \/ new[i][2] # "running"
    BY <1>3, <2>2, WithinOrdered
  <2>4. ShownIn(log, entries[q])
    BY <1>2
  <2>5. Listed(e[1])
    <3>1. PICK k \in DOMAIN log : log[k] = entries[q] /\ Plain(log, k)
      BY <2>4 DEF ShownIn
    <3>2. e[1] \in Actions /\ log[k][1] = e[1]
      BY <2>1, <2>3, <3>1 DEF Entries
    <3> QED BY <1>1, <3>1, <3>2, ReadNames DEF Listed
  <2> QED BY <2>1, <2>3, <2>4, <2>5
<1>7. ShowsStep
  BY <1>3, <1>6 DEF ShowsStep
<1> QED BY <1>4, <1>5, <1>7 DEF GoodStep

(* A line is added, or joined to the last.                                 *)
LEMMA CutStep ==
  ASSUME ActionsLogAssumption, TypeOK, NEW cut \in Cuts, log' = Appended(cut)
  PROVE  GoodStep
<1>1. cut \in Lines /\ ~IsEntry(cut)
  BY LineFacts
<1>2. LogType
  BY <1>1, AppendedLine DEF LogType
<1>3. LogStep
  BY <1>1, AppendedLine DEF LogStep
<1>4. ShowsStep
  <2>1. \A e \in Entries : ShownIn(log', e) => ShownIn(log, e)
    BY <1>1, AppendedShows DEF IsEntry
  <2> QED BY <2>1 DEF ShowsStep
<1> QED BY <1>2, <1>3, <1>4 DEF GoodStep

LEMMA AppendStep ==
  ASSUME ActionsLogAssumption, TypeOK, NEW a \in Actions, IsNext(a), Started(a)',
         log' = Appended(<<a, "running">>)
  PROVE  GoodStep
<1> DEFINE line == <<a, "running">>
<1>1. line \in Lines
  BY DEF Lines, Entries
<1>2. LogType
  BY <1>1, AppendedLine DEF LogType
<1>3. LogStep
  <2>1. ragged => Within(log', log)
    BY <1>1, AppendedLine
  <2>2. ~ragged => log' = Append(log, line)
    <3> HIDE DEF line
    <3>1. log' = Appended(line)
      BY DEF line
    <3> QED BY <1>1, <3>1, AppendedLine
  <2> QED BY <2>1, <2>2, WithinItself DEF LogStep, StartsEntry
<1>4. ShowsStep
  <2>1. \A e \in Entries : ShownIn(log', e) => ShownIn(log, e) \/ e = line
    BY <1>1, AppendedShows
  <2> QED BY <2>1 DEF ShowsStep
<1> QED BY <1>2, <1>3, <1>4 DEF GoodStep

(* The line of the next action, and the pruning of what is read then.      *)
LEMMA PruneStep ==
  ASSUME ActionsLogAssumption, TypeOK, NEW a \in Actions, IsNext(a), Started(a)',
         NEW n \in 0..Len(Appended(<<a, "running">>)),
         Len(Read(SubSeq(Appended(<<a, "running">>), 1, n))) > Cap,
         Rewrite(Newest(Read(SubSeq(Appended(<<a, "running">>), 1, n))))
  PROVE  GoodStep
<1> DEFINE line == <<a, "running">>
           lines == Appended(line)
           entries == Read(SubSeq(lines, 1, n))
<1>1. line \in Lines
  BY DEF Lines, Entries
<1>2. lines \in Seq(Lines) /\ (ragged => Within(lines, log)) /\ (~ragged => lines = Append(log, line))
  <2> HIDE DEF line
  <2> QED BY <1>1, AppendedLine
<1>3. \A e : ShownIn(lines, e) => ShownIn(log, e) \/ e = line
  <2> HIDE DEF line
  <2> QED BY <1>1, AppendedShows
<1> HIDE DEF lines
<1>4. /\ entries \in Seq(Entries) /\ Within(entries, lines)
      /\ \A k \in DOMAIN entries : ShownIn(lines, entries[k])
  BY <1>2, ReadWithin DEF lines
<1>5. Len(entries) > Cap /\ Rewrite(Newest(entries))
  BY DEF lines
<1> HIDE DEF entries
<1>6. /\ Newest(entries) \in Seq(Entries) /\ Within(Newest(entries), entries)
      /\ \A i \in DOMAIN Newest(entries) :
           Len(entries) - Cap + i \in DOMAIN entries /\ Newest(entries)[i] = entries[Len(entries) - Cap + i]
  <2>1. /\ Newest(entries) \in Seq(Entries) /\ Within(Newest(entries), entries)
        /\ Len(Newest(entries)) = Cap
        /\ \A i \in 1..Cap : Newest(entries)[i] = entries[Len(entries) - Cap + i]
    BY <1>4, <1>5, NewestWithin
  <2>2. DOMAIN Newest(entries) = 1..Cap
    BY <2>1
  <2>3. Cap \in Nat /\ Len(entries) \in Nat /\ DOMAIN entries = 1..Len(entries)
    BY <1>4 DEF ActionsLogAssumption
  <2>4. \A i \in 1..Cap : Len(entries) - Cap + i \in DOMAIN entries
    BY <1>5, <2>3
  <2> QED BY <2>1, <2>2, <2>4
<1>7. log' = Newest(entries) /\ ragged' = FALSE
  BY <1>5 DEF Rewrite
<1>8. LogType
  BY <1>6, <1>7 DEF LogType, Lines
<1>9. LogStep
  <2>1. Within(log', lines)
    BY <1>4, <1>6, <1>7, WithinTransitive
  <2> QED BY <1>2, <2>1, WithinTransitive DEF LogStep, StartsEntry
<1>10. ShowsStep
  <2>1. ASSUME NEW e \in Entries, ShownIn(log', e) PROVE ShownIn(log, e) \/ e = line
    <3>1. PICK i \in DOMAIN Newest(entries) : Newest(entries)[i] = e
      BY <1>7, <2>1 DEF ShownIn
    <3>2. ShownIn(lines, e)
      BY <1>4, <1>6, <3>1
    <3> QED BY <1>3, <3>2
  <2> QED BY <2>1 DEF ShowsStep
<1> QED BY <1>8, <1>9, <1>10 DEF GoodStep

LEMMA StartStep ==
  ASSUME ActionsLogAssumption, TypeOK, NEW a \in Actions,
         Start(a) \/ StartReadsShort(a) \/ StartFails(a)
  PROVE  GoodStep
<1> DEFINE lines == Appended(<<a, "running">>)
<1>1. lines \in Seq(Lines)
  <2>1. <<a, "running">> \in Lines
    BY DEF Lines, Entries
  <2> QED BY <2>1, AppendedLine
<1>2. IsNext(a) /\ Started(a)'
  <2>1. handler' = [handler EXCEPT ![a] = "running"] \/ handler' = [handler EXCEPT ![a] = "unlogged"]
    BY DEF Start, StartReadsShort, StartFails
  <2>2. handler'[a] # "none"
    BY <2>1 DEF TypeOK
  <2> QED BY <2>2 DEF Start, StartReadsShort, StartFails, Started
<1>3. ASSUME NEW n \in 0..Len(lines), ~(Len(Read(SubSeq(lines, 1, n))) <= Cap),
             Rewrite(Newest(Read(SubSeq(lines, 1, n))))
      PROVE  GoodStep
  <2>1. Len(Read(SubSeq(lines, 1, n))) \in Nat
    <3> HIDE DEF lines
    <3>1. Read(SubSeq(lines, 1, n)) \in Seq(Entries)
      BY <1>1, ReadWithin
    <3> QED BY <3>1
  <2>2. Len(Read(SubSeq(lines, 1, n))) > Cap
    BY <1>3, <2>1 DEF ActionsLogAssumption
  <2> QED BY <1>2, <1>3, <2>2, PruneStep
<1>4. ASSUME log' = lines PROVE GoodStep
  BY <1>2, <1>4, AppendStep
<1>5. ASSUME NEW cut \in Cuts, log' = Appended(cut) PROVE GoodStep
  BY <1>5, CutStep
<1>6. CASE Start(a)
  <2>1. Len(lines) \in 0..Len(lines) /\ SubSeq(lines, 1, Len(lines)) = lines
    <3> HIDE DEF lines
    <3> QED BY <1>1
  <2>2. CASE Len(Read(lines)) <= Cap
    BY <1>4, <1>6, <2>2 DEF Start
  <2>3. CASE ~(Len(Read(lines)) <= Cap)
    BY <1>3, <1>6, <2>1, <2>3 DEF Start
  <2> QED BY <2>2, <2>3
<1>7. CASE StartReadsShort(a)
  <2>1. PICK n \in 0..Len(lines) :
          IF Len(Read(SubSeq(lines, 1, n))) <= Cap
          THEN log' = lines /\ ragged' = FALSE
          ELSE Rewrite(Newest(Read(SubSeq(lines, 1, n))))
    BY <1>7 DEF StartReadsShort
  <2> HIDE DEF lines
  <2> QED BY <1>3, <1>4, <2>1
<1>8. CASE StartFails(a)
  <2>1. \/ UNCHANGED <<log, ragged>>
        \/ \E cut \in Cuts : log' = Appended(cut)
        \/ log' = lines
    BY <1>8 DEF StartFails
  <2> QED BY <1>4, <1>5, <2>1, SameLog
<1> QED BY <1>6, <1>7, <1>8

LEMMA WholeRead == ASSUME TypeOK PROVE Len(log) \in 0..Len(log) /\ SubSeq(log, 1, Len(log)) = log
BY DEF TypeOK

LEMMA FinishStep ==
  ASSUME ActionsLogAssumption, TypeOK, NEW a \in Actions, Finish(a) \/ FinishFails(a)
  PROVE  GoodStep
<1>1. log \in Seq(Lines)
  BY DEF Lines, TypeOK
<1>2. ASSUME NEW n \in 0..Len(log), NEW status \in {"ok", "fail"},
             Rewrite(WithStatus(Read(SubSeq(log, 1, n)), a, status))
      PROVE  GoodStep
  <2> DEFINE entries == Read(SubSeq(log, 1, n))
  <2>1. entries \in Seq(Entries)
    BY <1>1, ReadWithin
  <2> HIDE DEF entries
  <2>2. /\ WithStatus(entries, a, status) \in Seq(Entries)
        /\ Within(WithStatus(entries, a, status), entries)
    BY <2>1, WithStatusWithin
  <2> QED BY <1>2, <2>2, RewriteStep DEF entries
<1>3. ASSUME NEW status \in {"ok", "fail"}, Rewrite(WithStatus(Read(log), a, status))
      PROVE  GoodStep
  BY <1>2, <1>3, WholeRead
<1> QED BY <1>2, <1>3, SameLog DEF Finish, FinishFails

LEMMA DeleteStep ==
  ASSUME ActionsLogAssumption, TypeOK, NEW a \in Actions, Delete(a) \/ DeleteFails(a)
  PROVE  GoodStep
<1>1. log \in Seq(Lines)
  BY DEF Lines, TypeOK
<1>2. ASSUME NEW n \in 0..Len(log), Rewrite(Without(Read(SubSeq(log, 1, n)), a))
      PROVE  GoodStep
  <2> DEFINE entries == Read(SubSeq(log, 1, n))
  <2>1. entries \in Seq(Entries)
    BY <1>1, ReadWithin
  <2> HIDE DEF entries
  <2>2. Without(entries, a) \in Seq(Entries) /\ Within(Without(entries, a), entries)
    BY <2>1, WithoutWithin
  <2> QED BY <1>2, <2>2, RewriteStep DEF entries
<1>3. ASSUME Rewrite(Without(Read(log), a)) PROVE GoodStep
  BY <1>2, <1>3, WholeRead
<1> QED BY <1>2, <1>3 DEF Delete, DeleteFails

LEMMA ClearStep ==
  ASSUME ActionsLogAssumption, TypeOK, Clear
  PROVE  GoodStep
<1>1. log \in Seq(Lines) /\ 0 \in 0..Len(log)
  BY DEF Lines, TypeOK
<1> DEFINE entries == Read(SubSeq(log, 1, 0))
<1>2. entries \in Seq(Entries)
  BY <1>1, ReadWithin
<1> HIDE DEF entries
<1>3. entries \in Seq(Lines) /\ 1 \in Nat \ {0} /\ 0 \in 0..Len(entries) /\ SubSeq(entries, 1, 0) = <<>>
  BY <1>2 DEF Lines
<1>4. Within(<<>>, entries)
  BY <1>3, SubSeqWithin
<1>5. Rewrite(<<>>) /\ <<>> \in Seq(Entries)
  BY DEF Clear
<1> QED BY <1>1, <1>4, <1>5, RewriteStep DEF entries

LEMMA CrashStep ==
  ASSUME ActionsLogAssumption, TypeOK, Crash
  PROVE  GoodStep
<1>1. ASSUME NEW a \in Actions, IsNext(a), log' = Appended(<<a, "running">>), handler' = Stopped({a})
      PROVE  GoodStep
  <2>1. Started(a)'
    BY <1>1 DEF Started, Stopped
  <2> QED BY <1>1, <2>1, AppendStep
<1>2. \/ UNCHANGED <<log, ragged>>
      \/ \E cut \in Cuts : log' = Appended(cut)
      \/ \E a \in Actions : IsNext(a) /\ log' = Appended(<<a, "running">>) /\ handler' = Stopped({a})
  BY DEF Crash
<1> QED BY <1>1, <1>2, SameLog, CutStep

LEMMA EveryStep ==
  ASSUME ActionsLogAssumption, TypeOK, [Next]_vars
  PROVE  GoodStep
<1>1. CASE UNCHANGED <<log, ragged>>
  BY <1>1, SameLog
<1>2. CASE ~(UNCHANGED <<log, ragged>>)
  BY <1>2, StartStep, FinishStep, DeleteStep, ClearStep, CrashStep
     DEF Next, vars, FinishUnlogged, Disconnect
<1> QED BY <1>1, <1>2

(* Nothing but the handlers' own steps changes which actions have started. *)
LEMMA HandlerStep ==
  ASSUME ActionsLogAssumption, TypeOK, [Next]_vars
  PROVE  /\ handler' \in [Actions -> {"none", "running", "unlogged", "over"}]
         /\ \A a \in Actions : Started(a) => Started(a)'
         /\ \A a \in Actions : (Started(a)' /\ ~Started(a)) => IsNext(a)
<1> USE DEF Started
<1>1. handler \in [Actions -> {"none", "running", "unlogged", "over"}]
  BY DEF TypeOK
<1>2. ASSUME NEW a \in Actions, Start(a) \/ StartReadsShort(a) \/ StartFails(a)
      PROVE  /\ IsNext(a)
             /\ \E s \in {"running", "unlogged"} : handler' = [handler EXCEPT ![a] = s]
  BY <1>2 DEF Start, StartReadsShort, StartFails
<1>3. ASSUME NEW a \in Actions,
             Finish(a) \/ FinishFails(a) \/ FinishUnlogged(a) \/ Disconnect(a)
      PROVE  handler[a] # "none" /\ handler' = [handler EXCEPT ![a] = "over"]
  BY <1>3 DEF Finish, FinishFails, FinishUnlogged, Disconnect
<1>4. ASSUME Clear \/ (\E a \in Actions : Delete(a) \/ DeleteFails(a)) \/ UNCHANGED vars
      PROVE  handler' = handler
  BY <1>4 DEF Clear, Delete, DeleteFails, vars
<1>5. ASSUME Crash
      PROVE  handler' = Stopped({}) \/ \E a \in Actions : IsNext(a) /\ handler' = Stopped({a})
  BY <1>5 DEF Crash
<1>6. CASE \E a \in Actions : Start(a) \/ StartReadsShort(a) \/ StartFails(a)
  BY <1>1, <1>2, <1>6
<1>7. CASE \E a \in Actions : Finish(a) \/ FinishFails(a) \/ FinishUnlogged(a) \/ Disconnect(a)
  BY <1>1, <1>3, <1>7
<1>8. CASE Clear \/ (\E a \in Actions : Delete(a) \/ DeleteFails(a)) \/ UNCHANGED vars
  BY <1>1, <1>4, <1>8
<1>9. CASE Crash
  <2>1. CASE handler' = Stopped({})
    BY <1>1, <2>1 DEF Stopped
  <2>2. CASE \E a \in Actions : IsNext(a) /\ handler' = Stopped({a})
    BY <1>1, <2>2 DEF Stopped
  <2> QED BY <1>5, <1>9, <2>1, <2>2
<1> QED BY <1>6, <1>7, <1>8, <1>9 DEF Next

LEMMA InTurnStep ==
  ASSUME ActionsLogAssumption, TypeOK, InTurn, [Next]_vars
  PROVE  InTurn'
<1> SUFFICES ASSUME NEW a \in Actions, NEW b \in Actions, a < b, Started(b)'
             PROVE  Started(a)'
  BY DEF InTurn
<1>1. CASE Started(b)
  BY <1>1, HandlerStep DEF InTurn
<1>2. CASE ~Started(b)
  <2>1. IsNext(b)
    BY <1>2, HandlerStep
  <2>2. a \in 1..(b - 1)
    BY DEF Actions, ActionsLogAssumption
  <2>3. Started(a)
    BY <2>1, <2>2 DEF IsNext, Started
  <2> QED BY <2>3, HandlerStep
<1> QED BY <1>1, <1>2

LEMMA CountersStep ==
  ASSUME ActionsLogAssumption, TypeOK, [Next]_vars
  PROVE  /\ faults' \in 0..MaxFaults /\ stops' \in 0..MaxStops
         /\ removed' \subseteq Actions /\ removed \subseteq removed'
         /\ ragged' \in BOOLEAN
         /\ (faults' = 0 /\ stops' = 0) =>
              /\ faults = 0 /\ stops = 0
              /\ ~Crash
              /\ \A a \in Actions :
                   ~StartReadsShort(a) /\ ~StartFails(a) /\ ~FinishFails(a) /\ ~DeleteFails(a)
<1> DEFINE Grows == removed' \subseteq Actions /\ removed \subseteq removed'
<1>1. /\ faults \in 0..MaxFaults /\ stops \in 0..MaxStops /\ MaxFaults \in Nat /\ MaxStops \in Nat
      /\ removed \subseteq Actions /\ ragged \in BOOLEAN
  BY DEF TypeOK, ActionsLogAssumption
<1>2. ASSUME \/ \E a \in Actions : Start(a) \/ Finish(a) \/ FinishUnlogged(a) \/ Disconnect(a) \/ Delete(a)
             \/ Clear
             \/ UNCHANGED vars
      PROVE  /\ faults' = faults /\ stops' = stops
             /\ ragged' \in BOOLEAN
             /\ Grows
  <2>1. /\ faults' = faults /\ stops' = stops
        /\ ragged' = FALSE \/ ragged' = ragged
    BY <1>2 DEF Start, Finish, FinishUnlogged, Disconnect, Delete, Clear, Rewrite, vars
  <2>2. \/ removed' = removed
        \/ \E a \in Actions : removed' = removed \cup {a}
        \/ removed' = removed \cup {a \in Actions : Listed(a)}
    BY <1>2 DEF Start, Finish, FinishUnlogged, Disconnect, Delete, Clear, vars
  <2>3. Grows
    BY <1>1, <2>2
  <2>4. ragged' \in BOOLEAN
    BY <1>1, <2>1
  <2> QED BY <2>1, <2>3, <2>4
<1>3. ASSUME NEW a \in Actions,
             StartReadsShort(a) \/ StartFails(a) \/ FinishFails(a) \/ DeleteFails(a)
      PROVE  /\ faults < MaxFaults /\ faults' = faults + 1 /\ stops' = stops
             /\ ragged' \in BOOLEAN
             /\ Grows
  <2>1. faults < MaxFaults /\ faults' = faults + 1 /\ stops' = stops
    BY <1>3 DEF StartReadsShort, StartFails, FinishFails, DeleteFails, Fault
  <2>2. removed' = removed \/ removed' = removed \cup {a}
    BY <1>3 DEF StartReadsShort, StartFails, FinishFails, DeleteFails
  <2>3. ragged' = TRUE \/ ragged' = FALSE \/ ragged' = ragged
    BY <1>3 DEF StartReadsShort, StartFails, FinishFails, DeleteFails, Rewrite
  <2>4. Grows
    BY <1>1, <2>2
  <2> QED BY <1>1, <2>1, <2>3, <2>4
<1>4. ASSUME Crash
      PROVE  /\ stops < MaxStops /\ stops' = stops + 1 /\ faults' = faults
             /\ ragged' \in BOOLEAN
             /\ Grows
  <2>1. stops < MaxStops /\ stops' = stops + 1 /\ faults' = faults /\ removed' = removed
    BY <1>4 DEF Crash
  <2>2. ragged' \in BOOLEAN
    BY <1>1, <1>4 DEF Crash
  <2> QED BY <1>1, <2>1, <2>2
<1> HIDE DEF Grows
<1>5. \/ faults' = faults /\ stops' = stops
      \/ faults < MaxFaults /\ faults' = faults + 1 /\ stops' = stops
      \/ stops < MaxStops /\ stops' = stops + 1 /\ faults' = faults
  BY <1>2, <1>3, <1>4 DEF Next
<1>6. Grows /\ ragged' \in BOOLEAN
  BY <1>2, <1>3, <1>4 DEF Next
<1>7. faults' \in 0..MaxFaults /\ stops' \in 0..MaxStops
  BY <1>1, <1>5
<1>8. (faults' = 0 /\ stops' = 0) => faults = 0 /\ stops = 0
  BY <1>1, <1>5
<1>9. ASSUME faults' = 0, stops' = 0
      PROVE  /\ ~Crash
             /\ \A a \in Actions :
                   ~StartReadsShort(a) /\ ~StartFails(a) /\ ~FinishFails(a) /\ ~DeleteFails(a)
  BY <1>1, <1>3, <1>4, <1>9
<1> QED BY <1>6, <1>7, <1>8, <1>9 DEF Grows

LEMMA TypeStep ==
  ASSUME ActionsLogAssumption, TypeOK, [Next]_vars
  PROVE  TypeOK'
BY EveryStep, HandlerStep, CountersStep DEF TypeOK, GoodStep, LogType, Lines

(* Before the first failure or crash every line is an entry with its end.  *)
LEMMA CutsStep ==
  ASSUME ActionsLogAssumption, TypeOK, CutsHaveCause, [Next]_vars
  PROVE  CutsHaveCause'
<1> SUFFICES ASSUME faults' = 0, stops' = 0
             PROVE  ~ragged' /\ \A i \in DOMAIN log' : log'[i] \in Entries
  BY DEF CutsHaveCause, IsEntry, Entries, Actions
<1>1. /\ faults = 0 /\ stops = 0 /\ ~Crash
      /\ \A a \in Actions : ~StartReadsShort(a) /\ ~StartFails(a) /\ ~FinishFails(a) /\ ~DeleteFails(a)
  BY CountersStep
<1>2. ~ragged /\ \A i \in DOMAIN log : log[i] \in Entries
  BY <1>1 DEF CutsHaveCause, IsEntry
<1>3. log \in Seq(Lines) /\ Read(log) \in Seq(Entries)
  BY ReadShows DEF TypeOK, Lines
<1>4. CASE log' = log /\ ragged' = ragged
  BY <1>2, <1>4
<1>5. ASSUME NEW entries \in Seq(Entries), Rewrite(entries)
      PROVE  ~ragged' /\ \A i \in DOMAIN log' : log'[i] \in Entries
  BY <1>5 DEF Rewrite
<1>6. ASSUME NEW a \in Actions, Start(a)
      PROVE  ~ragged' /\ \A i \in DOMAIN log' : log'[i] \in Entries
  <2> DEFINE line == <<a, "running">>
             lines == Appended(line)
  <2>1. line \in Entries
    BY DEF Entries
  <2> HIDE DEF line
  <2>2. lines = Append(log, line)
    BY <1>2 DEF Appended
  <2>3. lines \in Seq(Lines) /\ \A i \in DOMAIN lines : lines[i] \in Entries
    <3>1. line \in Lines
      BY <2>1 DEF Lines
    <3>2. \A i \in DOMAIN Append(log, line) :
            Append(log, line)[i] = line \/ (i \in DOMAIN log /\ Append(log, line)[i] = log[i])
      BY <1>3, <3>1
    <3>3. Append(log, line) \in Seq(Lines)
      BY <1>3, <3>1
    <3> HIDE DEF lines
    <3> QED BY <1>2, <2>1, <2>2, <3>2, <3>3
  <2> HIDE DEF lines
  <2>4. Read(lines) \in Seq(Entries)
    BY <2>3, ReadShows
  <2>5. \/ log' = lines /\ ragged' = FALSE
        \/ ~(Len(Read(lines)) <= Cap) /\ Rewrite(Newest(Read(lines)))
    BY <1>6 DEF Start, line, lines
  <2>6. ASSUME ~(Len(Read(lines)) <= Cap) PROVE Newest(Read(lines)) \in Seq(Entries)
    <3>1. Len(Read(lines)) > Cap
      BY <2>4, <2>6 DEF ActionsLogAssumption
    <3> QED BY <2>4, <3>1, NewestWithin
  <2> QED BY <1>5, <2>3, <2>5, <2>6
<1>7. ASSUME NEW a \in Actions, Finish(a)
      PROVE  ~ragged' /\ \A i \in DOMAIN log' : log'[i] \in Entries
  BY <1>3, <1>4, <1>5, <1>7, WithStatusWithin DEF Finish
<1>8. ASSUME NEW a \in Actions, Delete(a)
      PROVE  ~ragged' /\ \A i \in DOMAIN log' : log'[i] \in Entries
  BY <1>3, <1>5, <1>8, WithoutWithin DEF Delete
<1>9. ASSUME Clear PROVE ~ragged' /\ \A i \in DOMAIN log' : log'[i] \in Entries
  BY <1>5, <1>9, <<>> \in Seq(Entries) DEF Clear
<1>10. ASSUME (\E a \in Actions : FinishUnlogged(a) \/ Disconnect(a)) \/ UNCHANGED vars
       PROVE  log' = log /\ ragged' = ragged
  BY <1>10 DEF FinishUnlogged, Disconnect, vars
<1> QED BY <1>1, <1>4, <1>6, <1>7, <1>8, <1>9, <1>10 DEF Next

(* The line of the next action is the highest.                             *)
LEMMA NextIsLast ==
  ASSUME ActionsLogAssumption, TypeOK, OrderKept, EntriesStarted, InTurn,
         NEW a \in Actions, IsNext(a)
  PROVE  /\ Append(log, <<a, "running">>) \in Seq(Lines)
         /\ Ordered(Append(log, <<a, "running">>))
<1> DEFINE line == <<a, "running">>
           lines == Append(log, line)
<1>1. log \in Seq(Lines) /\ line \in Lines /\ line[1] = a
  BY DEF TypeOK, Lines, Entries
<1> HIDE DEF line
<1>2. /\ lines \in Seq(Lines)
      /\ DOMAIN lines = 1..Len(log) + 1 /\ DOMAIN log = 1..Len(log) /\ Len(log) \in Nat
      /\ lines[Len(log) + 1] = line
      /\ \A i \in DOMAIN log : lines[i] = log[i]
  BY <1>1
<1> HIDE DEF lines
<1>3. ASSUME NEW i \in DOMAIN log, IsEntry(log[i]) PROVE log[i][1] < a
  <2>1. log[i] \in Lines
    BY <1>1
  <2>2. log[i][1] \in Actions /\ Started(log[i][1]) /\ ~Started(a)
    BY <1>3, <2>1, LineFacts DEF EntriesStarted, IsNext, Started
  <2>3. ~(a <= log[i][1])
    BY <2>2 DEF InTurn, Actions, ActionsLogAssumption
  <2> QED BY <2>2, <2>3 DEF Actions, ActionsLogAssumption
<1>4. Ordered(lines)
  <2> SUFFICES ASSUME NEW i \in DOMAIN lines, NEW j \in DOMAIN lines, i < j,
                      IsEntry(lines[i]), IsEntry(lines[j])
               PROVE  lines[i][1] < lines[j][1]
    BY DEF Ordered
  <2>1. i \in DOMAIN log /\ lines[i] = log[i]
    BY <1>2
  <2>2. CASE j \in DOMAIN log
    BY <1>2, <2>1, <2>2 DEF OrderKept
  <2>3. CASE j \notin DOMAIN log
    BY <1>1, <1>2, <1>3, <2>1, <2>3
  <2> QED BY <2>2, <2>3
<1> QED BY <1>2, <1>4 DEF lines, line

LEMMA OrderStep ==
  ASSUME ActionsLogAssumption, TypeOK, OrderKept, EntriesStarted, InTurn, [Next]_vars
  PROVE  OrderKept' /\ EntriesStarted'
<1>1. log \in Seq(Lines) /\ log' \in Seq(Lines) /\ LogStep
  BY EveryStep DEF TypeOK, Lines, GoodStep, LogType
<1>2. Ordered(log) /\ (Ordered(log') => OrderKept')
  BY DEF Ordered, OrderKept
<1>3. ASSUME NEW i \in DOMAIN log, IsEntry(log[i]) PROVE handler'[log[i][1]] # "none"
  <2>1. log[i] \in Lines
    BY <1>1
  <2>2. log[i][1] \in Actions /\ Started(log[i][1])
    BY <1>3, <2>1, LineFacts DEF EntriesStarted
  <2>3. \A a \in Actions : Started(a) => handler'[a] # "none"
    BY HandlerStep DEF Started
  <2> QED BY <2>2, <2>3
<1>4. CASE Within(log', log)
  <2>1. Ordered(log')
    BY <1>1, <1>2, <1>4, WithinOrdered
  <2>2. ASSUME NEW i \in DOMAIN log', IsEntry(log'[i]) PROVE handler'[log'[i][1]] # "none"
    <3>1. PICK q \in DOMAIN log : IsEntry(log[q]) /\ log'[i][1] = log[q][1]
      BY <1>1, <1>4, <2>2, WithinOrdered
    <3> QED BY <1>3, <3>1
  <2>3. EntriesStarted'
    BY <2>2 DEF EntriesStarted, Started, IsEntry, Entries, Actions
  <2> QED BY <1>2, <2>1, <2>3
<1>5. CASE \E cut \in Cuts : log' = Append(log, cut)
  <2>1. PICK cut \in Cuts : log' = Append(log, cut)
    BY <1>5
  <2>2. ~IsEntry(cut)
    BY LineFacts
  <2>3. \A i \in DOMAIN log' : IsEntry(log'[i]) => i \in DOMAIN log /\ log'[i] = log[i]
    BY <1>1, <2>1, <2>2
  <2>4. Ordered(log')
    BY <1>2, <2>3 DEF Ordered
  <2>5. EntriesStarted'
    BY <1>3, <2>3 DEF EntriesStarted, Started, IsEntry, Entries, Actions
  <2> QED BY <1>2, <2>4, <2>5
<1>6. CASE \E a \in Actions : StartsEntry(a)
  <2>1. PICK a \in Actions : StartsEntry(a)
    BY <1>6
  <2> DEFINE lines == Append(log, <<a, "running">>)
  <2>2. lines \in Seq(Lines) /\ Ordered(lines) /\ Within(log', lines) /\ Started(a)'
    BY <2>1, NextIsLast DEF StartsEntry
  <2>3. \A q \in DOMAIN lines : (q \in DOMAIN log /\ lines[q] = log[q]) \/ lines[q][1] = a
    BY <1>1
  <2> HIDE DEF lines
  <2>4. Ordered(log')
    BY <1>1, <2>2, WithinOrdered
  <2>5. ASSUME NEW i \in DOMAIN log', IsEntry(log'[i]) PROVE handler'[log'[i][1]] # "none"
    <3>1. PICK q \in DOMAIN lines : IsEntry(lines[q]) /\ log'[i][1] = lines[q][1]
      BY <1>1, <2>2, <2>5, WithinOrdered
    <3>2. handler'[a] # "none"
      BY <2>2 DEF Started
    <3> QED BY <1>3, <2>3, <3>1, <3>2
  <2>6. EntriesStarted'
    BY <2>5 DEF EntriesStarted, Started, IsEntry, Entries, Actions
  <2> QED BY <1>2, <2>4, <2>6
<1> QED BY <1>1, <1>4, <1>5, <1>6 DEF LogStep

------------------------------------------------------------------------------
(* What is missing.                                                        *)

LEMMA LaterGrows ==
  ASSUME ActionsLogAssumption, TypeOK, [Next]_vars, NEW a \in Actions
  PROVE  /\ IsFiniteSet(Later(a)') /\ Cardinality(Later(a)') \in Nat
         /\ Cardinality(Later(a)) >= Cap => Cardinality(Later(a)') >= Cap
<1>1. IsFiniteSet(Actions)
  BY FS_Interval DEF Actions, ActionsLogAssumption
<1>2. Later(a)' \in SUBSET Actions /\ Later(a) \in SUBSET Later(a)'
  BY HandlerStep DEF Later, Actions
<1>3. IsFiniteSet(Later(a)')
  BY <1>1, <1>2, FS_Subset
<1>4. IsFiniteSet(Later(a)) /\ Cardinality(Later(a)) <= Cardinality(Later(a)')
  BY <1>2, <1>3, FS_Subset
<1> QED BY <1>3, <1>4, FS_CardinalityType DEF ActionsLogAssumption

(* An entry that is not among the Cap newest has Cap entries after it.     *)
LEMMA Pruned ==
  ASSUME ActionsLogAssumption, NEW entries \in Seq(Entries), Ordered(entries),
         Len(entries) > Cap, NEW a \in Actions,
         NEW q \in DOMAIN entries, entries[q][1] = a,
         ~Names(Newest(entries), a)
  PROVE  \A i \in 1..Cap : entries[Len(entries) - Cap + i][1] > a
<1>1. /\ Len(Newest(entries)) = Cap /\ Newest(entries) \in Seq(Entries)
      /\ \A i \in 1..Cap : Newest(entries)[i] = entries[Len(entries) - Cap + i]
  BY NewestWithin
<1>2. Cap \in Nat \ {0} /\ Len(entries) \in Nat /\ DOMAIN entries = 1..Len(entries)
  BY DEF ActionsLogAssumption
<1>3. q <= Len(entries) - Cap
  <2>1. ASSUME q > Len(entries) - Cap PROVE FALSE
    <3>1. q - (Len(entries) - Cap) \in 1..Cap
      BY <1>2, <2>1
    <3>2. Newest(entries)[q - (Len(entries) - Cap)] = entries[q]
      BY <1>1, <1>2, <3>1
    <3>3. q - (Len(entries) - Cap) \in DOMAIN Newest(entries)
      BY <1>1, <3>1
    <3> QED BY <3>2, <3>3 DEF Names
  <2> QED BY <1>2, <2>1
<1>4. ASSUME NEW i \in 1..Cap PROVE entries[Len(entries) - Cap + i][1] > a
  <2>1. Len(entries) - Cap + i \in DOMAIN entries /\ q < Len(entries) - Cap + i
    BY <1>2, <1>3
  <2>2. entries[Len(entries) - Cap + i] \in Entries /\ entries[q] \in Entries
    BY <2>1
  <2>3. a < entries[Len(entries) - Cap + i][1]
    BY <2>1, <2>2 DEF Ordered, IsEntry
  <2>4. a \in Nat /\ entries[Len(entries) - Cap + i][1] \in Nat
    BY <2>2 DEF Entries, Actions
  <2> QED BY <2>3, <2>4
<1> QED BY <1>4

(* Pruning takes an entry only when Cap actions have started after it.     *)
LEMMA PrunedStart ==
  ASSUME ActionsLogAssumption, LogInv, EntriesStarted', [Next]_vars,
         NEW x \in Actions, Start(x), NEW a \in Actions,
         Names(Read(Appended(<<x, "running">>)), a), ~Listed(a)'
  PROVE  Cardinality(Later(a)') >= Cap
<1> USE DEF LogInv
<1> DEFINE line == <<x, "running">>
           lines == Appended(line)
           entries == Read(lines)
<1>1. lines \in Seq(Lines) /\ Ordered(lines)
  <2>1. Append(log, line) \in Seq(Lines) /\ Ordered(Append(log, line))
    BY NextIsLast DEF Start
  <2>2. line \in Lines /\ Ordered(log)
    BY DEF Lines, Entries, Ordered, OrderKept
  <2> HIDE DEF line
  <2>3. /\ log \in Seq(Lines) /\ lines \in Seq(Lines)
        /\ ragged => Within(lines, log)
        /\ ~ragged => lines = Append(log, line)
    BY <2>2, AppendedLine
  <2> HIDE DEF lines
  <2> QED BY <2>1, <2>2, <2>3, WithinOrdered
<1>2. entries \in Seq(Entries) /\ Within(entries, lines) /\ Names(entries, a)
  <2> HIDE DEF lines
  <2>1. Read(lines) \in Seq(Entries) /\ Within(Read(lines), lines)
    BY <1>1, ReadShows
  <2> QED BY <2>1 DEF lines
<1>3. ~(Len(entries) <= Cap) /\ log' = Newest(entries)
  <2>1. log' # lines
    BY <1>2 DEF Listed
  <2>2. IF Len(entries) <= Cap THEN log' = lines /\ ragged' = FALSE ELSE Rewrite(Newest(entries))
    BY DEF Start
  <2> HIDE DEF lines, entries
  <2> QED BY <2>1, <2>2 DEF Rewrite
<1> HIDE DEF lines
<1>4. entries \in Seq(Lines) /\ Ordered(entries)
  <2>1. entries \in Seq(Lines)
    BY <1>2 DEF Lines
  <2> QED BY <1>1, <1>2, <2>1, WithinOrdered
<1> HIDE DEF entries
<1>5. Len(entries) > Cap /\ Cap \in Nat \ {0} /\ Len(entries) \in Nat
  BY <1>2, <1>3 DEF ActionsLogAssumption
<1>6. PICK q \in DOMAIN entries : entries[q][1] = a
  BY <1>2 DEF Names
<1>7. \A i \in 1..Cap : entries[Len(entries) - Cap + i][1] > a
  <2>1. Newest(entries) \in Seq(Entries)
    BY <1>2, <1>5, NewestWithin
  <2>2. ~Names(Newest(entries), a)
    BY <1>3, <2>1, EntriesShow DEF Listed
  <2> QED BY <1>2, <1>4, <1>5, <1>6, <2>2, Pruned
<1> DEFINE id == [i \in 1..Cap |-> entries[Len(entries) - Cap + i][1]]
<1>8. ASSUME NEW i \in 1..Cap PROVE id[i] \in Later(a)'
  <2>1. Newest(entries)[i] = entries[Len(entries) - Cap + i] /\ i \in DOMAIN Newest(entries)
    BY <1>2, <1>5, NewestWithin
  <2>2. Len(entries) - Cap + i \in DOMAIN entries
    BY <1>2, <1>5
  <2>3. entries[Len(entries) - Cap + i] \in Entries
    BY <1>2, <2>2
  <2>4. id[i] \in Actions /\ IsEntry(log'[i]) /\ log'[i][1] = id[i] /\ i \in DOMAIN log'
    BY <1>3, <2>1, <2>3 DEF Entries, IsEntry
  <2>5. handler'[id[i]] # "none"
    BY <2>4 DEF EntriesStarted, Started, IsEntry, Entries, Actions
  <2>6. a < id[i]
    BY <1>7, <2>4 DEF Actions
  <2> QED BY <2>4, <2>5, <2>6 DEF Later, Started, Actions
<1>9. ASSUME NEW i \in 1..Cap, NEW j \in 1..Cap, i < j PROVE id[i] < id[j]
  <2>1. /\ Len(entries) - Cap + i \in DOMAIN entries /\ Len(entries) - Cap + j \in DOMAIN entries
        /\ Len(entries) - Cap + i < Len(entries) - Cap + j
    BY <1>2, <1>5, <1>9
  <2>2. entries[Len(entries) - Cap + i] \in Entries /\ entries[Len(entries) - Cap + j] \in Entries
    BY <1>2, <2>1
  <2> QED BY <1>4, <2>1, <2>2 DEF Ordered, IsEntry
<1>10. id \in Injection(1..Cap, Later(a)')
  <2>1. id \in [1..Cap -> Later(a)']
    BY <1>8
  <2>2. ASSUME NEW i \in 1..Cap, NEW j \in 1..Cap, id[i] = id[j] PROVE i = j
    <3> HIDE DEF id
    <3>1. id[i] \in Nat /\ id[j] \in Nat
      <4>1. Later(a)' \subseteq Actions /\ Actions \subseteq Nat
        BY DEF Later, Actions
      <4> QED BY <1>8, <4>1
    <3>2. ~(i < j) /\ ~(j < i)
      BY <1>9, <2>2, <3>1
    <3> QED BY <1>5, <3>2
  <2> HIDE DEF id
  <2> QED BY <2>1, <2>2 DEF Injection, IsInjective
<1> HIDE DEF id
<1>11. IsFiniteSet(Later(a)') /\ Cardinality(Later(a)') \in Nat
  BY LaterGrows
<1>12. Cardinality(1..Cap) <= Cardinality(Later(a)')
  BY <1>10, <1>11, FS_Injection
<1>13. Cardinality(1..Cap) = Cap
  BY <1>5, FS_Interval
<1> QED BY <1>5, <1>11, <1>12, <1>13

(* A line that is added leaves what is shown, but for the entry it is      *)
(* joined to.                                                              *)
LEMMA AppendKeeps ==
  ASSUME ActionsLogAssumption, TypeOK, NEW line \in Lines, NEW a \in Actions, Listed(a)
  PROVE  Names(Read(Appended(line)), a) \/ (ragged /\ log[Len(log)][1] = a)
<1>1. log \in Seq(Lines) /\ Appended(line) \in Seq(Lines)
  BY AppendedLine
<1>2. PICK i \in DOMAIN log : Plain(log, i) /\ log[i][1] = a
  BY <1>1, ReadNames DEF Listed
<1>3. CASE ragged /\ i = Len(log)
  BY <1>2, <1>3
<1>4. CASE ~(ragged /\ i = Len(log))
  <2>1. i \in DOMAIN Appended(line) /\ Appended(line)[i] = log[i] /\ Plain(Appended(line), i)
    BY <1>2, <1>4, AppendedShows
  <2> QED BY <1>1, <1>2, <2>1, ReadNames
<1> QED BY <1>3, <1>4

LEMMA GoneStep ==
  ASSUME ActionsLogAssumption, LogInv, EntriesStarted', [Next]_vars,
         NEW a \in Actions, Listed(a), ~Listed(a)'
  PROVE  \/ a \in removed'
         \/ Cardinality(Later(a)') >= Cap
         \/ ragged /\ log[Len(log)][1] = a
         \/ \E b \in Actions : StartReadsShort(b) \/ FinishFails(b) \/ DeleteFails(b)
<1> USE DEF LogInv
<1>1. log \in Seq(Lines) /\ Read(log) \in Seq(Entries) /\ Names(Read(log), a)
  BY ReadShows DEF TypeOK, Lines, Listed
<1>2. ~(log' = log)
  <2>1. ASSUME log' = log PROVE Listed(a)'
    BY <1>1, <2>1 DEF Listed
  <2> QED BY <2>1
<1>3. ASSUME NEW line \in Lines, log' = Appended(line)
      PROVE  ragged /\ log[Len(log)][1] = a
  <2>1. ~Names(Read(Appended(line)), a)
    BY <1>3 DEF Listed
  <2> QED BY <2>1, AppendKeeps
<1>4. ASSUME NEW x \in Actions PROVE <<x, "running">> \in Lines
  BY DEF Lines, Entries
<1>5. ASSUME NEW entries \in Seq(Entries), Rewrite(entries) PROVE ~Names(entries, a)
  <2>1. log' = entries
    BY <1>5 DEF Rewrite
  <2>2. ~Names(Read(entries), a)
    BY <2>1 DEF Listed
  <2> QED BY <2>2, EntriesShow
<1>6. ASSUME NEW x \in Actions, Start(x)
      PROVE  Cardinality(Later(a)') >= Cap \/ (ragged /\ log[Len(log)][1] = a)
  <2>1. CASE Names(Read(Appended(<<x, "running">>)), a)
    BY <1>6, <2>1, PrunedStart
  <2>2. CASE ~Names(Read(Appended(<<x, "running">>)), a)
    BY <1>4, <2>2, AppendKeeps
  <2> QED BY <2>1, <2>2
<1>7. ASSUME NEW x \in Actions, StartFails(x)
      PROVE  ragged /\ log[Len(log)][1] = a
  <2>1. \/ log' = log
        \/ \E cut \in Cuts : log' = Appended(cut)
        \/ log' = Appended(<<x, "running">>)
    BY <1>7 DEF StartFails
  <2>2. \A cut \in Cuts : cut \in Lines
    BY LineFacts
  <2> QED BY <1>2, <1>3, <1>4, <2>1, <2>2
<1>8. ASSUME NEW x \in Actions, Finish(x) PROVE FALSE
  <2>1. PICK status \in {"ok", "fail"} : Rewrite(WithStatus(Read(log), x, status))
    BY <1>2, <1>8 DEF Finish
  <2>2. /\ WithStatus(Read(log), x, status) \in Seq(Entries)
        /\ Names(WithStatus(Read(log), x, status), a)
    BY <1>1, WithStatusWithin
  <2> QED BY <1>5, <2>1, <2>2
<1>9. ASSUME NEW x \in Actions, Delete(x) PROVE a \in removed'
  <2>1. Rewrite(Without(Read(log), x)) /\ removed' = removed \cup {x}
    BY <1>9 DEF Delete
  <2>2. CASE a # x
    <3>1. Without(Read(log), x) \in Seq(Entries) /\ Names(Without(Read(log), x), a)
      BY <1>1, <2>2, WithoutWithin
    <3> QED BY <1>5, <2>1, <3>1
  <2> QED BY <2>1, <2>2
<1>10. ASSUME Clear PROVE a \in removed'
  BY <1>10 DEF Clear
<1>11. ASSUME Crash PROVE ragged /\ log[Len(log)][1] = a
  <2>1. \/ log' = log
        \/ \E cut \in Cuts : log' = Appended(cut)
        \/ \E x \in Actions : log' = Appended(<<x, "running">>)
    BY <1>11 DEF Crash
  <2>2. \A cut \in Cuts : cut \in Lines
    BY LineFacts
  <2> QED BY <1>2, <1>3, <1>4, <2>1, <2>2
<1>12. ~(\E x \in Actions : FinishUnlogged(x) \/ Disconnect(x)) /\ ~(UNCHANGED vars)
  BY <1>2 DEF FinishUnlogged, Disconnect, vars
<1> QED BY <1>6, <1>7, <1>8, <1>9, <1>10, <1>11, <1>12 DEF Next

LEMMA MissingStep ==
  ASSUME ActionsLogAssumption, LogInv, EntriesStarted', [Next]_vars
  PROVE  MissingHasCause'
<1> SUFFICES ASSUME NEW a \in Actions, Started(a)', ~Listed(a)', faults' = 0, stops' = 0
             PROVE  a \in removed' \/ Cardinality(Later(a)') >= Cap
  BY DEF MissingHasCause
<1> USE DEF LogInv
<1>1. /\ faults = 0 /\ stops = 0 /\ removed \subseteq removed' /\ ~Crash
      /\ \A b \in Actions : ~StartReadsShort(b) /\ ~StartFails(b) /\ ~FinishFails(b) /\ ~DeleteFails(b)
  BY CountersStep
<1>2. ~ragged /\ \A i \in DOMAIN log : IsEntry(log[i])
  BY <1>1 DEF CutsHaveCause
<1>3. CASE Listed(a)
  BY <1>1, <1>2, <1>3, GoneStep
<1>4. CASE ~Listed(a) /\ Started(a)
  <2>1. a \in removed \/ Cardinality(Later(a)) >= Cap
    BY <1>1, <1>4 DEF MissingHasCause
  <2> QED BY <1>1, <2>1, LaterGrows
<1>5. CASE ~Listed(a) /\ ~Started(a)
  <2>1. Start(a)
    <3>1. handler[a] = "none" /\ handler'[a] # "none"
      BY <1>5 DEF Started
    <3>2. ASSUME NEW x \in Actions, Start(x) PROVE x = a
      BY <3>1, <3>2 DEF Start, TypeOK
    <3>3. ~(\E x \in Actions : Finish(x) \/ FinishUnlogged(x) \/ Disconnect(x) \/ Delete(x))
      BY <3>1 DEF Finish, FinishUnlogged, Disconnect, Delete, TypeOK
    <3>4. ~Clear /\ ~(UNCHANGED vars)
      BY <3>1 DEF Clear, vars
    <3> QED BY <1>1, <3>2, <3>3, <3>4 DEF Next
  <2> DEFINE line == <<a, "running">>
  <2>2. line \in Lines /\ IsEntry(line) /\ line[1] = a
    BY DEF Lines, Entries, IsEntry
  <2> HIDE DEF line
  <2>3. \A i \in DOMAIN log : log[i] # Garbled
    BY <1>2, LineFacts DEF Cuts
  <2>4. ShownIn(Appended(line), line) /\ Appended(line) \in Seq(Lines)
    BY <1>2, <2>2, <2>3, AppendedShows, AppendedLine
  <2>5. Names(Read(Appended(line)), a)
    BY <2>2, <2>4, ReadNames DEF ShownIn
  <2> QED BY <2>1, <2>5, PrunedStart DEF line
<1> QED BY <1>3, <1>4, <1>5

LEMMA LogInvInit == ASSUME ActionsLogAssumption, Init PROVE LogInv
<1>1. TypeOK
  <2>1. log \in Seq(Entries \cup Cuts) /\ ragged = FALSE
    BY DEF Init
  <2>2. handler \in [Actions -> {"none", "running", "unlogged", "over"}]
    BY DEF Init
  <2>3. removed \subseteq Actions /\ faults \in 0..MaxFaults /\ stops \in 0..MaxStops
    BY DEF Init, ActionsLogAssumption
  <2> QED BY <2>1, <2>2, <2>3 DEF TypeOK
<1>2. DOMAIN log = {} /\ \A a \in Actions : ~Started(a)
  BY DEF Init, Started
<1>3. OrderKept /\ EntriesStarted /\ InTurn /\ CutsHaveCause /\ MissingHasCause
  BY <1>2 DEF Init, OrderKept, EntriesStarted, InTurn, CutsHaveCause, MissingHasCause
<1> QED BY <1>1, <1>3 DEF LogInv

LEMMA LogInvStep == ASSUME ActionsLogAssumption, LogInv, [Next]_vars PROVE LogInv'
<1>1. TypeOK' /\ CutsHaveCause'
  BY TypeStep, CutsStep DEF LogInv
<1>2. OrderKept' /\ EntriesStarted'
  BY OrderStep DEF LogInv
<1>3. InTurn'
  BY InTurnStep DEF LogInv
<1>4. MissingHasCause'
  BY <1>2, MissingStep
<1> QED BY <1>1, <1>2, <1>3, <1>4 DEF LogInv

LEMMA LogInvariant == Spec => []LogInv
BY LogInvInit, LogInvStep, ActionsLogAssumption, PTL DEF Spec

(* ActionsLog.TypeOK: whatever is appended, joined, cut short, pruned or   *)
(* rewritten, the file is a sequence of entries and spoiled lines, and     *)
(* only a file with a line in it lacks an end.                             *)
THEOREM LogTypeCorrect == Spec => []TypeOK
<1>1. LogInv => TypeOK
  BY DEF LogInv
<1> QED BY <1>1, LogInvariant, PTL

(* ActionsLog.OrderKept: entries stand in the order their actions started  *)
(* in, one for each.                                                       *)
THEOREM LogOrderSafe == Spec => []OrderKept
<1>1. LogInv => OrderKept
  BY DEF LogInv
<1> QED BY <1>1, LogInvariant, PTL

(* ActionsLog.MissingHasCause: without a fault or a crash, an action is    *)
(* missing only if it was removed or Cap actions started after it.         *)
THEOREM LogMissingSafe == Spec => []MissingHasCause
<1>1. LogInv => MissingHasCause
  BY DEF LogInv
<1> QED BY <1>1, LogInvariant, PTL

(* ActionsLog.ShownStaysShown: whatever fails or crashes, an entry goes    *)
(* from the list only if it is removed, pruned with Cap actions started    *)
(* after it, joined to the next line for want of its end, or left out by   *)
(* an operation that read only a part of the log.                          *)
THEOREM LogShownSafe == Spec => ShownStaysShown
<1>1. LogInv /\ LogInv' /\ [Next]_vars =>
        [\A a \in Actions :
            (Listed(a) /\ ~Listed(a)') =>
                \/ a \in removed'
                \/ Cardinality(Later(a)') >= Cap
                \/ ragged /\ log[Len(log)][1] = a
                \/ \E b \in Actions : StartReadsShort(b) \/ FinishFails(b) \/ DeleteFails(b)]_vars
  <2> SUFFICES ASSUME LogInv, LogInv', [Next]_vars, NEW a \in Actions, Listed(a), ~Listed(a)'
               PROVE  \/ a \in removed'
                      \/ Cardinality(Later(a)') >= Cap
                      \/ ragged /\ log[Len(log)][1] = a
                      \/ \E b \in Actions : StartReadsShort(b) \/ FinishFails(b) \/ DeleteFails(b)
    OBVIOUS
  <2>1. EntriesStarted'
    BY DEF LogInv
  <2> QED BY <2>1, GoneStep, ActionsLogAssumption
<1> QED BY <1>1, LogInvariant, PTL DEF Spec, ShownStaysShown

(* What was finished stays so and what is gone stays gone. *)
LEMMA ComesBackStep ==
  ASSUME ActionsLogAssumption, LogInv, [Next]_vars, NEW a \in Actions
  PROVE  /\ (Started(a) /\ ~Listed(a)) => ~Listed(a)'
         /\ (Listed(a) /\ ~Shown(a, "running")) => ~Shown(a, "running")'
<1>1. log \in Seq(Lines) /\ log' \in Seq(Lines) /\ ShowsStep
  BY EveryStep DEF LogInv, TypeOK, Lines, GoodStep, LogType
<1>2. /\ Listed(a) <=> \E i \in DOMAIN log : Plain(log, i) /\ log[i][1] = a
      /\ Shown(a, "running") <=> ShownIn(log, <<a, "running">>)
  BY <1>1, ReadNames DEF Listed, Shown
<1>3. /\ Listed(a)' <=> \E i \in DOMAIN log' : Plain(log', i) /\ log'[i][1] = a
      /\ Shown(a, "running")' <=> ShownIn(log', <<a, "running">>)
  <2>1. \A s : Names(Read(log'), a) <=> \E i \in DOMAIN log' : Plain(log', i) /\ log'[i][1] = a
    BY <1>1, ReadNames
  <2>2. (\E k \in DOMAIN Read(log') : Read(log')[k] = <<a, "running">>) <=> ShownIn(log', <<a, "running">>)
    BY <1>1, ReadNames
  <2> QED BY <2>1, <2>2 DEF Listed, Shown
<1>4. ASSUME Started(a), NEW e \in Entries, e[1] = a, ShownIn(log', e)
      PROVE  ShownIn(log, e) \/ (e[2] # "running" /\ Listed(a))
  <2>1. ~(\E x \in Actions : IsNext(x) /\ Started(x)' /\ e = <<x, "running">>)
    BY <1>4 DEF IsNext, Started
  <2> QED BY <1>1, <1>4, <2>1 DEF ShowsStep
<1>5. ASSUME Started(a), Listed(a)' PROVE Listed(a)
  <2>1. PICK i \in DOMAIN log' : Plain(log', i) /\ log'[i][1] = a
    BY <1>3, <1>5
  <2>2. log'[i] \in Entries /\ ShownIn(log', log'[i])
    BY <2>1 DEF Plain, ShownIn, IsEntry
  <2> QED BY <1>2, <1>4, <1>5, <2>1, <2>2 DEF ShownIn
<1>6. ASSUME Started(a), Shown(a, "running")' PROVE Shown(a, "running")
  <2>1. <<a, "running">> \in Entries
    BY DEF Entries
  <2> QED BY <1>2, <1>3, <1>4, <1>6, <2>1
<1>7. Listed(a) => Started(a)
  BY <1>2 DEF LogInv, EntriesStarted, Plain
<1> QED BY <1>5, <1>6, <1>7

(* ActionsLog.NothingComesBack: no operation brings back what was removed  *)
(* or pruned, or makes a finished action a running one.                    *)
THEOREM LogNothingComesBack == Spec => NothingComesBack
<1>1. LogInv /\ [Next]_vars =>
        [\A a \in Actions :
            /\ (Started(a) /\ ~Listed(a)) => ~Listed(a)'
            /\ (Listed(a) /\ ~Shown(a, "running")) => ~Shown(a, "running")']_vars
  BY ComesBackStep, ActionsLogAssumption
<1> QED BY <1>1, LogInvariant, PTL DEF Spec, NothingComesBack

------------------------------------------------------------------------------
(* Induction over data.  The induction theorems of the library take a      *)
(* predicate; these take a set, and rest on Smallest.                      *)

LEMMA Induction ==
  ASSUME NEW S, 0 \in S, \A n \in Nat : n \in S => n + 1 \in S
  PROVE  Nat \subseteq S
<1> SUFFICES ASSUME Nat \ S # {} PROVE FALSE
  OBVIOUS
<1>1. PICK m \in Nat \ S : \A x \in Nat \ S : m <= x
  BY Smallest
<1>2. m - 1 \in Nat /\ m - 1 \notin S
  BY <1>1
<1> QED BY <1>1, <1>2

(* f[0] is base, and every step is taken with G. *)
Follows(f, base, G, steps) ==
    f[0] = base /\ \A n \in steps : f[n] = G[<<f[n - 1], n>>]

(* A base and a step define a function on the natural numbers. *)
LEMMA Recursion ==
  ASSUME NEW V, NEW base \in V, NEW G \in [V \X Nat -> V]
  PROVE  \E f : f \in [Nat -> V] /\ Follows(f, base, G, Nat \ {0})
<1> DEFINE Up(n, g) == g \in [0..n -> V] /\ Follows(g, base, G, 1..n)
           S == {n \in Nat : \E g : Up(n, g)}
<1>1. Nat \subseteq S
  <2>1. 0 \in S
    <3>1. Up(0, [i \in 0..0 |-> base])
      BY DEF Follows
    <3> QED BY <3>1
  <2>2. ASSUME NEW n \in Nat, n \in S PROVE n + 1 \in S
    <3>1. PICK g : Up(n, g)
      BY <2>2
    <3> DEFINE h == [i \in 0..(n + 1) |-> IF i = n + 1 THEN G[<<g[n], n + 1>>] ELSE g[i]]
    <3>2. g \in [0..n -> V] /\ g[0] = base /\ \A i \in 1..n : g[i] = G[<<g[i - 1], i>>]
      BY <3>1 DEF Follows
    <3>3. h \in [0..(n + 1) -> V]
      <4>1. <<g[n], n + 1>> \in V \X Nat
        BY <3>2
      <4>2. ASSUME NEW i \in 0..(n + 1), i # n + 1 PROVE g[i] \in V
        BY <3>2, <4>2
      <4> QED BY <4>1, <4>2
    <3>4. h[n + 1] = G[<<g[n], n + 1>>] /\ \A i \in 0..n : h[i] = g[i]
      OBVIOUS
    <3> HIDE DEF h
    <3>5. ASSUME NEW i \in 1..(n + 1) PROVE h[i] = G[<<h[i - 1], i>>]
      <4>1. i - 1 \in 0..n /\ h[i - 1] = g[i - 1]
        BY <3>4
      <4>2. CASE i = n + 1
        BY <3>4, <4>1, <4>2
      <4>3. CASE i # n + 1
        <5>1. i \in 1..n /\ h[i] = g[i]
          BY <3>4, <4>3
        <5> QED BY <3>2, <4>1, <5>1
      <4> QED BY <4>2, <4>3
    <3>6. Up(n + 1, h)
      BY <3>2, <3>3, <3>4, <3>5 DEF Follows
    <3> QED BY <3>6
  <2> HIDE DEF S
  <2> QED BY <2>1, <2>2, Induction
<1>2. ASSUME NEW n \in Nat, NEW m \in Nat, NEW g, NEW h, Up(n, g), Up(m, h),
             NEW k \in 0..n, k <= m
      PROVE  g[k] = h[k]
  <2> DEFINE E == {i \in Nat : (i <= n /\ i <= m) => g[i] = h[i]}
  <2>1. 0 \in E
    BY <1>2 DEF Follows
  <2>2. ASSUME NEW i \in Nat, i \in E PROVE i + 1 \in E
    <3> SUFFICES ASSUME i + 1 <= n, i + 1 <= m PROVE g[i + 1] = h[i + 1]
      OBVIOUS
    <3>1. i + 1 \in 1..n /\ i + 1 \in 1..m /\ (i + 1) - 1 = i /\ g[i] = h[i]
      BY <2>2
    <3> QED BY <1>2, <3>1 DEF Follows
  <2>3. Nat \subseteq E
    <3> HIDE DEF E
    <3> QED BY <2>1, <2>2, Induction
  <2> QED BY <1>2, <2>3
<1> DEFINE upto(n) == CHOOSE g : Up(n, g)
           f == [n \in Nat |-> upto(n)[n]]
<1>3. ASSUME NEW n \in Nat PROVE Up(n, upto(n))
  <2>1. \E g : Up(n, g)
    BY <1>1
  <2> HIDE DEF Up
  <2> QED BY <2>1
<1>4. ASSUME NEW n \in Nat
      PROVE  upto(n) \in [0..n -> V] /\ Follows(upto(n), base, G, 1..n)
  BY <1>3
<1> HIDE DEF upto
<1>5. f \in [Nat -> V]
  <2>1. ASSUME NEW n \in Nat PROVE upto(n)[n] \in V
    BY <1>4
  <2> QED BY <2>1
<1>6. ASSUME NEW n \in Nat \ {0} PROVE f[n] = G[<<f[n - 1], n>>]
  <2>1. n - 1 \in Nat /\ f[n] = upto(n)[n] /\ f[n - 1] = upto(n - 1)[n - 1]
    OBVIOUS
  <2>2. upto(n - 1)[n - 1] = upto(n)[n - 1]
    <3>1. Up(n, upto(n)) /\ Up(n - 1, upto(n - 1)) /\ n - 1 \in 0..(n - 1) /\ n - 1 <= n
      BY <1>3, <2>1
    <3> HIDE DEF Up
    <3> QED BY <1>2, <2>1, <3>1
  <2>3. upto(n)[n] = G[<<upto(n)[n - 1], n>>]
    BY <1>4, n \in 1..n DEF Follows
  <2> QED BY <2>1, <2>2, <2>3
<1>7. f[0] = base
  BY <1>4 DEF Follows
<1> HIDE DEF f
<1> QED BY <1>5, <1>6, <1>7 DEF Follows

(* The same up to a bound: what a recursive function of a module is.       *)
LEMMA BoundedRecursion ==
  ASSUME NEW V, NEW base \in V, NEW N \in Nat, NEW G \in [V \X (1..N) -> V]
  PROVE  \E f : f \in [0..N -> V] /\ Follows(f, base, G, 1..N)
<1> DEFINE H == [vn \in V \X Nat |-> IF vn[2] \in 1..N THEN G[vn] ELSE vn[1]]
<1>1. H \in [V \X Nat -> V]
  <2>1. ASSUME NEW vn \in V \X Nat PROVE (IF vn[2] \in 1..N THEN G[vn] ELSE vn[1]) \in V
    <3>1. vn[1] \in V /\ vn = <<vn[1], vn[2]>>
      OBVIOUS
    <3>2. CASE vn[2] \in 1..N
      <4>1. vn \in V \X (1..N)
        BY <3>1, <3>2
      <4> QED BY <3>2, <4>1
    <3> QED BY <3>1, <3>2
  <2> QED BY <2>1
<1>2. \A v \in V, n \in 1..N : H[<<v, n>>] = G[<<v, n>>]
  OBVIOUS
<1> HIDE DEF H
<1>3. PICK f : f \in [Nat -> V] /\ Follows(f, base, H, Nat \ {0})
  BY <1>1, Recursion
<1> DEFINE g == [n \in 0..N |-> f[n]]
<1>4. g \in [0..N -> V] /\ g[0] = base
  BY <1>3 DEF Follows
<1>5. ASSUME NEW n \in 1..N PROVE g[n] = G[<<g[n - 1], n>>]
  <2>1. n - 1 \in Nat /\ n \in Nat \ {0} /\ g[n] = f[n] /\ g[n - 1] = f[n - 1]
    OBVIOUS
  <2>2. f[n] = H[<<f[n - 1], n>>] /\ f[n - 1] \in V
    BY <1>3, <2>1 DEF Follows
  <2> QED BY <1>2, <2>1, <2>2
<1> HIDE DEF g
<1> QED BY <1>4, <1>5 DEF Follows

------------------------------------------------------------------------------
(* Sums.                                                                   *)

LEMMA TotalsAre ==
  ASSUME NEW s \in Seq(Nat)
  PROVE  /\ Totals(s) \in [0..Len(s) -> Nat]
         /\ Totals(s)[0] = 0
         /\ \A n \in 1..Len(s) : Totals(s)[n] = Totals(s)[n - 1] + s[n]
<1> DEFINE G == [vn \in Nat \X (1..Len(s)) |-> vn[1] + s[vn[2]]]
           IsTotals(g) == g = [n \in 0..Len(s) |-> IF n = 0 THEN 0 ELSE g[n - 1] + s[n]]
<1>1. Len(s) \in Nat /\ \A n \in 1..Len(s) : s[n] \in Nat
  OBVIOUS
<1>2. G \in [Nat \X (1..Len(s)) -> Nat] /\ \A v \in Nat, n \in 1..Len(s) : G[<<v, n>>] = v + s[n]
  BY <1>1
<1> HIDE DEF G
<1>3. PICK f : f \in [0..Len(s) -> Nat] /\ Follows(f, 0, G, 1..Len(s))
  BY <1>1, <1>2, BoundedRecursion
<1>4. IsTotals(f)
  <2>1. ASSUME NEW n \in 0..Len(s) PROVE f[n] = IF n = 0 THEN 0 ELSE f[n - 1] + s[n]
    <3>1. CASE n = 0
      BY <1>3, <3>1 DEF Follows
    <3>2. CASE n # 0
      <4>1. n \in 1..Len(s) /\ n - 1 \in 0..Len(s)
        BY <3>2
      <4> QED BY <1>2, <1>3, <3>2, <4>1 DEF Follows
    <3> QED BY <3>1, <3>2
  <2> QED BY <1>3, <2>1
<1>5. Totals(s) = CHOOSE g : IsTotals(g)
  BY DEF Totals
<1> HIDE DEF IsTotals
<1>6. IsTotals(Totals(s))
  BY <1>4, <1>5
<1> DEFINE t == Totals(s)
<1>7. /\ DOMAIN t = 0..Len(s) /\ t[0] = 0
      /\ \A n \in 1..Len(s) : t[n] = t[n - 1] + s[n]
      /\ t = [n \in 0..Len(s) |-> t[n]]
  BY <1>1, <1>6 DEF IsTotals
<1> HIDE DEF t
<1>8. Nat \subseteq {n \in Nat : n <= Len(s) => t[n] \in Nat}
  <2> DEFINE E == {n \in Nat : n <= Len(s) => t[n] \in Nat}
  <2>1. 0 \in E
    BY <1>7
  <2>2. ASSUME NEW n \in Nat, n \in E PROVE n + 1 \in E
    <3> SUFFICES ASSUME n + 1 <= Len(s) PROVE t[n + 1] \in Nat
      OBVIOUS
    <3>1. n + 1 \in 1..Len(s) /\ (n + 1) - 1 = n /\ t[n] \in Nat
      BY <1>1, <2>2
    <3>2. t[n + 1] = t[n] + s[n + 1] /\ s[n + 1] \in Nat
      BY <1>1, <1>7, <3>1
    <3> QED BY <3>1, <3>2
  <2> HIDE DEF E
  <2>3. Nat \subseteq E
    BY <2>1, <2>2, Induction
  <2> QED BY <2>3 DEF E
<1>9. t \in [0..Len(s) -> Nat]
  BY <1>1, <1>7, <1>8
<1> QED BY <1>7, <1>9 DEF t

(* What grows as the totals do is the totals. *)
LEMMA TotalsUnique ==
  ASSUME NEW s \in Seq(Nat), NEW f, NEW c \in Nat, f[0] = c,
         \A n \in 1..Len(s) : f[n] = f[n - 1] + s[n]
  PROVE  \A n \in 0..Len(s) : f[n] = c + Totals(s)[n]
<1> DEFINE E == {n \in Nat : n <= Len(s) => f[n] = c + Totals(s)[n]}
<1>1. /\ \A n \in 0..Len(s) : Totals(s)[n] \in Nat
      /\ Totals(s)[0] = 0
      /\ \A n \in 1..Len(s) : Totals(s)[n] = Totals(s)[n - 1] + s[n]
  BY TotalsAre
<1>2. 0 \in E
  BY <1>1
<1>3. ASSUME NEW n \in Nat, n \in E PROVE n + 1 \in E
  <2> SUFFICES ASSUME n + 1 <= Len(s) PROVE f[n + 1] = c + Totals(s)[n + 1]
    OBVIOUS
  <2>1. n + 1 \in 1..Len(s) /\ (n + 1) - 1 = n /\ n \in 0..Len(s) /\ f[n] = c + Totals(s)[n]
    BY <1>3
  <2>2. f[n + 1] = f[n] + s[n + 1] /\ Totals(s)[n + 1] = Totals(s)[n] + s[n + 1]
    BY <1>1, <2>1
  <2>3. s[n + 1] \in Nat /\ Totals(s)[n] \in Nat
    BY <1>1, <2>1
  <2> QED BY <2>1, <2>2, <2>3
<1> HIDE DEF E
<1>4. Nat \subseteq E
  BY <1>2, <1>3, Induction
<1> QED BY <1>4 DEF E

(* The bytes of a group of files, which grow with each file. *)
BytesOf(group, size) == Totals([i \in DOMAIN group |-> size[group[i]]])[Len(group)]

LEMMA BytesAppend ==
  ASSUME NEW F, NEW size \in [F -> Nat], NEW group \in Seq(F), NEW x \in F
  PROVE  /\ BytesOf(<<>>, size) = 0
         /\ BytesOf(group, size) \in Nat
         /\ BytesOf(Append(group, x), size) = BytesOf(group, size) + size[x]
<1> DEFINE sizes(g) == [i \in DOMAIN g |-> size[g[i]]]
           more == Append(group, x)
<1>1. ASSUME NEW g \in Seq(F) PROVE sizes(g) \in Seq(Nat) /\ Len(sizes(g)) = Len(g)
  <2>1. \A i \in DOMAIN g : size[g[i]] \in Nat
    OBVIOUS
  <2>2. DOMAIN g = 1..Len(g) /\ Len(g) \in Nat
    OBVIOUS
  <2> QED BY <2>1, <2>2
<1>2. more \in Seq(F) /\ Len(more) = Len(group) + 1 /\ Len(group) \in Nat
  OBVIOUS
<1>3. /\ sizes(more)[Len(group) + 1] = size[x]
      /\ \A i \in 1..Len(group) : sizes(more)[i] = sizes(group)[i]
  OBVIOUS
<1>4. /\ sizes(group) \in Seq(Nat) /\ Len(sizes(group)) = Len(group)
      /\ sizes(more) \in Seq(Nat) /\ Len(sizes(more)) = Len(group) + 1
  BY <1>1, <1>2
<1>5. BytesOf(<<>>, size) = 0
  <2>1. <<>> \in Seq(F) /\ Len(<<>>) = 0
    OBVIOUS
  <2>2. sizes(<<>>) \in Seq(Nat)
    BY <1>1, <2>1
  <2> HIDE DEF sizes
  <2>3. Totals(sizes(<<>>))[0] = 0
    BY <2>2, TotalsAre
  <2> QED BY <2>1, <2>3 DEF BytesOf, sizes
<1>6. BytesOf(group, size) = Totals(sizes(group))[Len(group)]
  BY DEF BytesOf
<1>7. BytesOf(more, size) = Totals(sizes(more))[Len(group) + 1]
  BY <1>2 DEF BytesOf
<1> HIDE DEF sizes, more
<1>8. /\ Totals(sizes(group)) \in [0..Len(group) -> Nat]
      /\ Totals(sizes(more))[0] = 0
      /\ \A n \in 1..Len(group) + 1 :
           Totals(sizes(more))[n] = Totals(sizes(more))[n - 1] + sizes(more)[n]
  BY <1>4, TotalsAre
<1>9. \A n \in 1..Len(group) :
        Totals(sizes(more))[n] = Totals(sizes(more))[n - 1] + sizes(group)[n]
  BY <1>2, <1>3, <1>8
<1>10. \A n \in 0..Len(group) : Totals(sizes(more))[n] = 0 + Totals(sizes(group))[n]
  BY <1>4, <1>8, <1>9, TotalsUnique
<1>11. /\ Totals(sizes(group))[Len(group)] \in Nat
       /\ Totals(sizes(more))[Len(group)] = Totals(sizes(group))[Len(group)]
       /\ Totals(sizes(more))[Len(group) + 1] = Totals(sizes(more))[Len(group)] + size[x]
  <2>1. /\ Len(group) \in 0..Len(group) /\ Len(group) + 1 \in 1..Len(group) + 1
        /\ (Len(group) + 1) - 1 = Len(group)
    BY <1>2
  <2>2. Totals(sizes(group))[Len(group)] \in Nat
    BY <1>8, <2>1
  <2>3. Totals(sizes(more))[Len(group)] = Totals(sizes(group))[Len(group)]
    BY <1>10, <2>1, <2>2
  <2> QED BY <1>3, <1>8, <2>1, <2>2, <2>3
<1> QED BY <1>5, <1>6, <1>7, <1>11 DEF more

------------------------------------------------------------------------------
(* The planner, for files of any sizes, and any minimum and target.        *)

Enough(group, size, minFiles, target) ==
    Len(group) >= minFiles /\ BytesOf(group, size) >= target

(* The group is emitted with its last file and not earlier. *)
CutAtOnce(group, size, minFiles, target) ==
    /\ Enough(group, size, minFiles, target)
    /\ \A k \in 1..Len(group) - 1 : ~Enough(SubSeq(group, 1, k), size, minFiles, target)

NeverEnough(group, size, minFiles, target) ==
    \A k \in 1..Len(group) : ~Enough(SubSeq(group, 1, k), size, minFiles, target)

(* plans[i] is the run of small that ends with file cut[i]. *)
CutInto(small, plans, cut) ==
    /\ cut \in [0..Len(plans) -> 0..Len(small)]
    /\ cut[0] = 0
    /\ \A i \in 1..Len(plans) :
        /\ cut[i - 1] <= cut[i]
        /\ plans[i] = SubSeq(small, cut[i - 1] + 1, cut[i])

(* ... the last one with file n. *)
CutUpTo(small, plans, n) == \E cut : CutInto(small, plans, cut) /\ cut[Len(plans)] = n

(* What the planner has when it has taken the first n files of small:      *)
(* groups cut off where they were full, and the rest as the current group. *)
PlannedUpTo(acc, n, small, F, size, minFiles, target) ==
    /\ acc \in [plans : Seq(Seq(F)), group : Seq(F), total : Nat]
    /\ acc.total = BytesOf(acc.group, size)
    /\ NeverEnough(acc.group, size, minFiles, target)
    /\ \A i \in 1..Len(acc.plans) : CutAtOnce(acc.plans[i], size, minFiles, target)
    /\ \E cut :
        /\ CutInto(small, acc.plans, cut)
        /\ cut[Len(acc.plans)] <= n
        /\ acc.group = SubSeq(small, cut[Len(acc.plans)] + 1, n)

LEMMA Extends ==
  ASSUME NEW F, NEW small \in Seq(F), NEW m \in Nat, NEW n \in m..Len(small) - 1
  PROVE  /\ Append(SubSeq(small, m + 1, n), small[n + 1]) = SubSeq(small, m + 1, n + 1)
         /\ SubSeq(small, m + 1, n) \in Seq(F)
         /\ Len(SubSeq(small, m + 1, n)) = n - m
         /\ SubSeq(small, n + 1, n) = <<>> /\ SubSeq(small, n + 2, n + 1) = <<>>
OBVIOUS

LEMMA Prefixes ==
  ASSUME NEW F, NEW group \in Seq(F), NEW x \in F
  PROVE  /\ Append(group, x) \in Seq(F) /\ Len(Append(group, x)) = Len(group) + 1
         /\ Len(group) \in Nat
         /\ \A k \in 1..Len(group) : SubSeq(Append(group, x), 1, k) = SubSeq(group, 1, k)
         /\ SubSeq(Append(group, x), 1, Len(group) + 1) = Append(group, x)
OBVIOUS

(* One plan more. *)
LEMMA CutMore ==
  ASSUME NEW F, NEW small \in Seq(F), NEW plans \in Seq(Seq(F)), NEW cut,
         CutInto(small, plans, cut),
         NEW n \in 0..Len(small), cut[Len(plans)] <= n, NEW group \in Seq(F),
         group = SubSeq(small, cut[Len(plans)] + 1, n)
  PROVE  CutUpTo(small, Append(plans, group), n)
<1> DEFINE L == Len(plans)
           more == [i \in 0..(L + 1) |-> IF i = L + 1 THEN n ELSE cut[i]]
           all == Append(plans, group)
<1>1. /\ L \in Nat /\ Len(all) = L + 1
      /\ all[L + 1] = group /\ \A i \in 1..L : all[i] = plans[i]
  OBVIOUS
<1>2. /\ cut \in [0..L -> 0..Len(small)] /\ cut[0] = 0
      /\ \A i \in 1..L : cut[i - 1] <= cut[i] /\ plans[i] = SubSeq(small, cut[i - 1] + 1, cut[i])
  BY DEF CutInto
<1>3. cut[L] <= n /\ group = SubSeq(small, cut[L] + 1, n)
  OBVIOUS
<1> HIDE DEF L, all
<1>4. /\ more \in [0..(L + 1) -> 0..Len(small)] /\ more[0] = 0 /\ more[L + 1] = n
      /\ \A i \in 0..L : more[i] = cut[i]
  BY <1>1, <1>2
<1> HIDE DEF more
<1>5. ASSUME NEW i \in 1..(L + 1)
      PROVE  more[i - 1] <= more[i] /\ all[i] = SubSeq(small, more[i - 1] + 1, more[i])
  <2>1. CASE i = L + 1
    <3>1. i - 1 = L /\ L \in 0..L
      BY <1>1, <2>1
    <3>2. more[i - 1] = cut[L] /\ more[i] = n /\ all[i] = group
      BY <1>1, <1>4, <2>1, <3>1
    <3> QED BY <1>3, <3>2
  <2>2. CASE i # L + 1
    <3>1. i \in 1..L /\ i - 1 \in 0..L /\ i \in 0..L
      BY <1>1, <2>2
    <3>2. more[i - 1] = cut[i - 1] /\ more[i] = cut[i] /\ all[i] = plans[i]
      BY <1>1, <1>4, <3>1
    <3> QED BY <1>2, <3>1, <3>2
  <2> QED BY <2>1, <2>2
<1>6. CutInto(small, all, more)
  BY <1>1, <1>4, <1>5 DEF CutInto
<1> QED BY <1>1, <1>4, <1>6 DEF CutUpTo, all

LEMMA TakesFile ==
  ASSUME NEW F, NEW small \in Seq(F), NEW size \in [F -> Nat],
         NEW minFiles \in Nat \ {0}, NEW target \in Nat,
         NEW n \in 0..Len(small) - 1, NEW acc,
         PlannedUpTo(acc, n, small, F, size, minFiles, target)
  PROVE  PlannedUpTo(TakeFile(acc, small[n + 1], size[small[n + 1]], minFiles, target),
                     n + 1, small, F, size, minFiles, target)
<1> DEFINE x == small[n + 1]
           group == Append(acc.group, x)
           total == acc.total + size[x]
           new == TakeFile(acc, x, size[x], minFiles, target)
           L == Len(acc.plans)
<1>1. x \in F /\ size[x] \in Nat /\ n \in Nat /\ n + 1 \in 0..Len(small)
  OBVIOUS
<1>2. /\ acc \in [plans : Seq(Seq(F)), group : Seq(F), total : Nat]
      /\ acc.plans \in Seq(Seq(F)) /\ acc.group \in Seq(F) /\ acc.total \in Nat
      /\ acc.total = BytesOf(acc.group, size)
  BY DEF PlannedUpTo
<1>3. PICK cut : /\ CutInto(small, acc.plans, cut)
                 /\ cut[L] <= n
                 /\ acc.group = SubSeq(small, cut[L] + 1, n)
  BY DEF PlannedUpTo
<1>4. /\ NeverEnough(acc.group, size, minFiles, target)
      /\ \A i \in 1..L : CutAtOnce(acc.plans[i], size, minFiles, target)
      /\ L \in Nat
  BY <1>2 DEF PlannedUpTo
<1>5. cut[L] \in Nat /\ cut[L] \in 0..Len(small)
  <2>1. cut \in [0..L -> 0..Len(small)]
    BY <1>3 DEF CutInto
  <2>2. L \in 0..L
    BY <1>4
  <2> HIDE DEF L
  <2> QED BY <2>1, <2>2
<1> HIDE DEF L
<1>6. group = SubSeq(small, cut[L] + 1, n + 1)
  <2>1. n \in cut[L]..Len(small) - 1
    BY <1>1, <1>3, <1>5
  <2>2. Append(SubSeq(small, cut[L] + 1, n), small[n + 1]) = SubSeq(small, cut[L] + 1, n + 1)
    <3>1. ASSUME NEW m \in Nat, n \in m..Len(small) - 1
          PROVE  Append(SubSeq(small, m + 1, n), small[n + 1]) = SubSeq(small, m + 1, n + 1)
      BY <3>1, Extends
    <3> QED BY <1>5, <2>1, <3>1
  <2> QED BY <1>3, <2>2
<1>7. total = BytesOf(group, size) /\ group \in Seq(F) /\ total \in Nat
  <2> HIDE DEF x
  <2>0. ASSUME NEW g \in Seq(F), NEW y \in F
        PROVE  BytesOf(Append(g, y), size) = BytesOf(g, size) + size[y]
    BY BytesAppend
  <2>1. BytesOf(Append(acc.group, x), size) = BytesOf(acc.group, size) + size[x]
    BY <1>1, <1>2, <2>0
  <2>2. Append(acc.group, x) \in Seq(F)
    BY <1>1, <1>2
  <2> QED BY <1>1, <1>2, <2>1, <2>2
<1>8. /\ Len(group) = Len(acc.group) + 1 /\ Len(acc.group) \in Nat
      /\ \A k \in 1..Len(acc.group) : SubSeq(group, 1, k) = SubSeq(acc.group, 1, k)
      /\ SubSeq(group, 1, Len(group)) = group
  <2> HIDE DEF x
  <2>1. /\ Len(Append(acc.group, x)) = Len(acc.group) + 1 /\ Len(acc.group) \in Nat
        /\ \A k \in 1..Len(acc.group) : SubSeq(Append(acc.group, x), 1, k) = SubSeq(acc.group, 1, k)
        /\ SubSeq(Append(acc.group, x), 1, Len(acc.group) + 1) = Append(acc.group, x)
    <3>1. ASSUME NEW g \in Seq(F), NEW y \in F
          PROVE  /\ Len(Append(g, y)) = Len(g) + 1 /\ Len(g) \in Nat
                 /\ \A k \in 1..Len(g) : SubSeq(Append(g, y), 1, k) = SubSeq(g, 1, k)
                 /\ SubSeq(Append(g, y), 1, Len(g) + 1) = Append(g, y)
      BY Prefixes
    <3> QED BY <1>1, <1>2, <3>1
  <2> QED BY <2>1
<1>9. new = IF Len(group) >= minFiles /\ total >= target
            THEN [plans |-> Append(acc.plans, group), group |-> <<>>, total |-> 0]
            ELSE [acc EXCEPT !.group = group, !.total = total]
  BY DEF TakeFile, EmptyGroup
<1> HIDE DEF x, group, total, new
<1>10. \A k \in 1..Len(group) - 1 : ~Enough(SubSeq(group, 1, k), size, minFiles, target)
  <2> TAKE k \in 1..Len(group) - 1
  <2>1. k \in 1..Len(acc.group)
    BY <1>8
  <2> QED BY <1>4, <1>8, <2>1 DEF NeverEnough
<1>11. CASE Len(group) >= minFiles /\ total >= target
  <2> DEFINE plans == Append(acc.plans, group)
  <2>1. new = [plans |-> plans, group |-> <<>>, total |-> 0]
    BY <1>9, <1>11
  <2>2. CutAtOnce(group, size, minFiles, target)
    BY <1>7, <1>10, <1>11 DEF CutAtOnce, Enough
  <2>3. /\ plans \in Seq(Seq(F)) /\ Len(plans) = L + 1
        /\ plans[L + 1] = group /\ \A i \in 1..L : plans[i] = acc.plans[i]
    BY <1>2, <1>7 DEF L
  <2>4. \A i \in 1..L + 1 : CutAtOnce(plans[i], size, minFiles, target)
    <3> TAKE i \in 1..L + 1
    <3>1. CASE i = L + 1
      BY <2>2, <2>3, <3>1
    <3>2. CASE i # L + 1
      <4>1. i \in 1..L
        BY <1>4, <3>2
      <4> QED BY <1>4, <2>3, <4>1
    <3> QED BY <3>1, <3>2
  <2>5. PICK more : CutInto(small, plans, more) /\ more[L + 1] = n + 1
    <3>1. n + 1 \in 0..Len(small) /\ cut[L] <= n + 1
      BY <1>1, <1>3, <1>5
    <3> DEFINE old == acc.plans
    <3>2. /\ old \in Seq(Seq(F)) /\ CutInto(small, old, cut) /\ cut[Len(old)] <= n + 1
          /\ group = SubSeq(small, cut[Len(old)] + 1, n + 1)
      BY <1>2, <1>3, <1>6, <3>1 DEF L
    <3> HIDE DEF old
    <3>3. CutUpTo(small, Append(old, group), n + 1)
      <4>1. ASSUME NEW m \in 0..Len(small), NEW ps \in Seq(Seq(F)), NEW g \in Seq(F),
                   CutInto(small, ps, cut), cut[Len(ps)] <= m,
                   g = SubSeq(small, cut[Len(ps)] + 1, m)
            PROVE  CutUpTo(small, Append(ps, g), m)
        BY <4>1, CutMore
      <4> QED BY <1>7, <3>1, <3>2, <4>1
    <3> QED BY <2>3, <3>3 DEF old, CutUpTo
  <2> HIDE DEF plans
  <2>6. SubSeq(small, (n + 1) + 1, n + 1) = <<>>
    <3>1. (n + 1) + 1 = n + 2 /\ n \in n..Len(small) - 1
      BY <1>1
    <3> QED BY <1>1, <3>1, Extends
  <2>7. /\ new.plans = plans /\ new.group = <<>> /\ new.total = 0
        /\ new \in [plans : Seq(Seq(F)), group : Seq(F), total : Nat]
    BY <2>1, <2>3
  <2>8. BytesOf(<<>>, size) = 0
    BY <1>1, <1>7, BytesAppend
  <2>9. NeverEnough(<<>>, size, minFiles, target)
    BY DEF NeverEnough
  <2>10. n + 1 <= n + 1
    BY <1>1
  <2>11. \E c : /\ CutInto(small, new.plans, c)
                /\ c[Len(new.plans)] <= n + 1
                /\ new.group = SubSeq(small, c[Len(new.plans)] + 1, n + 1)
    BY <2>3, <2>5, <2>6, <2>7, <2>10
  <2> QED BY <2>3, <2>4, <2>7, <2>8, <2>9, <2>11 DEF PlannedUpTo, new, x
<1>12. CASE ~(Len(group) >= minFiles /\ total >= target)
  <2>1. /\ new.plans = acc.plans /\ new.group = group /\ new.total = total
        /\ new \in [plans : Seq(Seq(F)), group : Seq(F), total : Nat]
    BY <1>2, <1>7, <1>9, <1>12
  <2>2. NeverEnough(group, size, minFiles, target)
    <3>1. ~Enough(group, size, minFiles, target)
      BY <1>7, <1>12 DEF Enough
    <3>2. ASSUME NEW k \in 1..Len(group) PROVE ~Enough(SubSeq(group, 1, k), size, minFiles, target)
      <4>1. CASE k = Len(group)
        BY <1>8, <3>1, <4>1
      <4>2. CASE k # Len(group)
        <5>1. k \in 1..Len(group) - 1
          BY <1>8, <4>2
        <5> QED BY <1>10, <5>1
      <4> QED BY <4>1, <4>2
    <3> QED BY <3>2 DEF NeverEnough
  <2>3. cut[L] <= n + 1
    BY <1>1, <1>3, <1>5
  <2>4. \E c : /\ CutInto(small, new.plans, c)
               /\ c[Len(new.plans)] <= n + 1
               /\ new.group = SubSeq(small, c[Len(new.plans)] + 1, n + 1)
    BY <1>3, <1>6, <2>1, <2>3 DEF L
  <2> QED BY <1>4, <1>7, <2>1, <2>2, <2>4 DEF PlannedUpTo, new, x, L
<1> QED BY <1>11, <1>12

LEMMA TakeFileType ==
  ASSUME NEW F, NEW acc \in [plans : Seq(Seq(F)), group : Seq(F), total : Nat],
         NEW x \in F, NEW s \in Nat, NEW minFiles, NEW target
  PROVE  TakeFile(acc, x, s, minFiles, target) \in [plans : Seq(Seq(F)), group : Seq(F), total : Nat]
<1>1. acc.plans \in Seq(Seq(F)) /\ acc.group \in Seq(F) /\ acc.total \in Nat
  OBVIOUS
<1>2. /\ Append(acc.group, x) \in Seq(F) /\ acc.total + s \in Nat /\ <<>> \in Seq(F)
      /\ Append(acc.plans, Append(acc.group, x)) \in Seq(Seq(F))
  BY <1>1
<1> DEFINE group == Append(acc.group, x)
           total == acc.total + s
<1>3. TakeFile(acc, x, s, minFiles, target) =
        IF Len(group) >= minFiles /\ total >= target
        THEN [plans |-> Append(acc.plans, group), group |-> <<>>, total |-> 0]
        ELSE [acc EXCEPT !.group = group, !.total = total]
  BY DEF TakeFile, EmptyGroup
<1> HIDE DEF group, total
<1>4. [plans |-> Append(acc.plans, group), group |-> <<>>, total |-> 0]
        \in [plans : Seq(Seq(F)), group : Seq(F), total : Nat]
  BY <1>2 DEF group
<1>5. [acc EXCEPT !.group = group, !.total = total]
        \in [plans : Seq(Seq(F)), group : Seq(F), total : Nat]
  BY <1>2 DEF group, total
<1> QED BY <1>3, <1>4, <1>5

LEMMA PlannedInit ==
  ASSUME NEW F, NEW small \in Seq(F), NEW size \in [F -> Nat], NEW minFiles, NEW target
  PROVE  PlannedUpTo([plans |-> <<>>, group |-> <<>>, total |-> 0], 0, small, F, size, minFiles, target)
<1> DEFINE start == [plans |-> <<>>, group |-> <<>>, total |-> 0]
           cut == [i \in 0..0 |-> 0]
<1>1. /\ start \in [plans : Seq(Seq(F)), group : Seq(F), total : Nat]
      /\ start.plans = <<>> /\ start.group = <<>> /\ start.total = 0
      /\ Len(start.plans) = 0 /\ Len(start.group) = 0
  OBVIOUS
<1>2. BytesOf(<<>>, size) = 0
  <2>1. Totals(<<>>)[0] = 0
    BY TotalsAre, <<>> \in Seq(Nat)
  <2>2. [i \in DOMAIN <<>> |-> size[<<>>[i]]] = <<>>
    OBVIOUS
  <2> QED BY <2>1, <2>2 DEF BytesOf
<1> HIDE DEF start
<1>3. CutInto(small, start.plans, cut) /\ cut[0] = 0 /\ SubSeq(small, 1, 0) = <<>>
  BY <1>1 DEF CutInto
<1> HIDE DEF cut
<1>4. \E c : /\ CutInto(small, start.plans, c)
             /\ c[Len(start.plans)] <= 0
             /\ start.group = SubSeq(small, c[Len(start.plans)] + 1, 0)
  BY <1>1, <1>3
<1> QED BY <1>1, <1>2, <1>4 DEF PlannedUpTo, NeverEnough, start

(* What plan_history goes through. *)
LEMMA PlannerRuns ==
  ASSUME NEW F \in SUBSET Nat, IsFiniteSet(F), NEW size \in [F -> Nat],
         NEW minFiles \in Nat \ {0}, NEW target \in Nat
  PROVE  LET small == InOrder(SmallFiles(F, size, target))
         IN  /\ small \in Seq(F)
             /\ \A i, j \in 1..Len(small) : i < j => small[i] < small[j]
             /\ \E acc : /\ PlannedUpTo(acc, Len(small), small, F, size, minFiles, target)
                         /\ PlanHistory(F, size, minFiles, target) = LastGroup(acc, minFiles)
<1> DEFINE small == InOrder(SmallFiles(F, size, target))
           N == Len(small)
           V == [plans : Seq(Seq(F)), group : Seq(F), total : Nat]
           start == [plans |-> <<>>, group |-> <<>>, total |-> 0]
           Take(acc, n) == TakeFile(acc, small[n], size[small[n]], minFiles, target)
           IsAfter(g) == g = [n \in 0..N |-> IF n = 0 THEN start ELSE Take(g[n - 1], n)]
           after == CHOOSE g : IsAfter(g)
           G == [vn \in V \X (1..N) |-> Take(vn[1], vn[2])]
<1>1. PlanHistory(F, size, minFiles, target) = LastGroup(after[N], minFiles)
  BY DEF PlanHistory, EmptyGroup
<1>2. /\ small \in Seq(F)
      /\ \A i, j \in 1..Len(small) : i < j => small[i] < small[j]
  <2>1. SmallFiles(F, size, target) \in SUBSET F
    BY DEF SmallFiles
  <2>2. SmallFiles(F, size, target) \in SUBSET Nat /\ IsFiniteSet(SmallFiles(F, size, target))
    BY <2>1, FS_Subset
  <2>3. /\ small \in Seq(SmallFiles(F, size, target))
        /\ Len(small) = Cardinality(SmallFiles(F, size, target))
        /\ \A i, j \in 1..Cardinality(SmallFiles(F, size, target)) : i < j => small[i] < small[j]
    BY <2>2, InOrderSorts
  <2> HIDE DEF small
  <2> QED BY <2>1, <2>3
<1> HIDE DEF small
<1>3. N \in Nat /\ \A n \in 1..N : small[n] \in F /\ size[small[n]] \in Nat
  <2>1. N \in Nat /\ \A n \in 1..N : small[n] \in F
    BY <1>2
  <2> QED BY <2>1
<1> HIDE DEF N
<1>4. start \in V
  OBVIOUS
<1>5. \A v \in V, n \in 1..N : Take(v, n) \in V
  BY <1>3, TakeFileType
<1> HIDE DEF V, start, Take
<1>6. G \in [V \X (1..N) -> V] /\ \A v \in V, n \in 1..N : G[<<v, n>>] = Take(v, n)
  BY <1>5
<1> HIDE DEF G
<1>7. PICK f : f \in [0..N -> V] /\ Follows(f, start, G, 1..N)
  BY <1>3, <1>4, <1>6, BoundedRecursion
<1>8. IsAfter(f)
  <2>1. ASSUME NEW n \in 0..N PROVE f[n] = IF n = 0 THEN start ELSE Take(f[n - 1], n)
    <3>1. CASE n = 0
      BY <1>7, <3>1 DEF Follows
    <3>2. CASE n # 0
      <4>1. n \in 1..N /\ n - 1 \in 0..N
        BY <1>3, <3>2
      <4> QED BY <1>6, <1>7, <3>2, <4>1 DEF Follows
    <3> QED BY <3>1, <3>2
  <2> QED BY <1>7, <2>1
<1>9. IsAfter(after)
  <2> HIDE DEF IsAfter
  <2> QED BY <1>8
<1>10. after[0] = start /\ \A n \in 1..N : after[n] = Take(after[n - 1], n)
  <2> HIDE DEF after
  <2> QED BY <1>3, <1>9
<1> HIDE DEF after
<1> DEFINE OK(n) == PlannedUpTo(after[n], n, small, F, size, minFiles, target)
           E == {n \in Nat : n <= N => OK(n)}
<1>11. OK(0)
  <2>1. PlannedUpTo(start, 0, small, F, size, minFiles, target)
    <3>1. size \in [F -> Nat]
      OBVIOUS
    <3>2. PlannedUpTo([plans |-> <<>>, group |-> <<>>, total |-> 0], 0, small, F, size, minFiles, target)
      BY <1>2, <3>1, PlannedInit
    <3> QED BY <3>2 DEF start
  <2> QED BY <1>10, <2>1
<1>12. ASSUME NEW n \in Nat, n + 1 <= N, OK(n) PROVE OK(n + 1)
  <2>1. n \in 0..Len(small) - 1 /\ n + 1 \in 1..N /\ (n + 1) - 1 = n
    BY <1>3, <1>12 DEF N
  <2>2. after[n + 1] = Take(after[n], n + 1)
    BY <1>10, <2>1
  <2>3. PlannedUpTo(Take(after[n], n + 1), n + 1, small, F, size, minFiles, target)
    BY <1>2, <1>12, <2>1, TakesFile DEF Take
  <2> QED BY <2>2, <2>3
<1> HIDE DEF OK
<1>13. 0 \in E /\ \A n \in Nat : n \in E => n + 1 \in E
  BY <1>3, <1>11, <1>12
<1> HIDE DEF E
<1>14. N \in E
  BY <1>3, <1>13, Induction
<1>15. OK(N)
  BY <1>3, <1>14 DEF E
<1> QED BY <1>1, <1>2, <1>15 DEF OK, N, small

(* What plan_history returns. *)
LEMMA PlannerResult ==
  ASSUME NEW F \in SUBSET Nat, IsFiniteSet(F), NEW size \in [F -> Nat],
         NEW minFiles \in Nat \ {0}, NEW target \in Nat
  PROVE  LET small == InOrder(SmallFiles(F, size, target))
             plans == PlanHistory(F, size, minFiles, target)
         IN  /\ small \in Seq(F)
             /\ \A i, j \in 1..Len(small) : i < j => small[i] < small[j]
             /\ plans \in Seq(Seq(F))
             /\ \A i \in 1..Len(plans) :
                  /\ Len(plans[i]) >= minFiles
                  /\ i < Len(plans) => Enough(plans[i], size, minFiles, target)
                  /\ \A k \in 1..Len(plans[i]) - 1 :
                       ~Enough(SubSeq(plans[i], 1, k), size, minFiles, target)
             /\ \E cut : /\ CutInto(small, plans, cut)
                         /\ cut[Len(plans)] <= Len(small)
                         /\ Len(small) < cut[Len(plans)] + minFiles
<1> DEFINE small == InOrder(SmallFiles(F, size, target))
           plans == PlanHistory(F, size, minFiles, target)
           N == Len(small)
<1>1. /\ small \in Seq(F)
      /\ \A i, j \in 1..Len(small) : i < j => small[i] < small[j]
      /\ \E acc : /\ PlannedUpTo(acc, Len(small), small, F, size, minFiles, target)
                  /\ plans = LastGroup(acc, minFiles)
  BY PlannerRuns
<1> HIDE DEF small, plans
<1>2. PICK acc : /\ PlannedUpTo(acc, N, small, F, size, minFiles, target)
                 /\ plans = LastGroup(acc, minFiles)
  BY <1>1
<1> DEFINE old == acc.plans
           group == acc.group
           L == Len(old)
<1>3. /\ old \in Seq(Seq(F)) /\ group \in Seq(F) /\ L \in Nat /\ Len(group) \in Nat
      /\ NeverEnough(group, size, minFiles, target)
      /\ \A i \in 1..L : CutAtOnce(old[i], size, minFiles, target)
  <2>1. acc \in [plans : Seq(Seq(F)), group : Seq(F), total : Nat]
    BY <1>2 DEF PlannedUpTo
  <2>2. old \in Seq(Seq(F)) /\ group \in Seq(F)
    BY <2>1
  <2>3. /\ NeverEnough(group, size, minFiles, target)
        /\ \A i \in 1..L : CutAtOnce(old[i], size, minFiles, target)
    BY <1>2 DEF PlannedUpTo
  <2> HIDE DEF old, group
  <2>4. L \in Nat /\ Len(group) \in Nat
    BY <2>2
  <2> QED BY <2>2, <2>3, <2>4
<1>4. PICK cut : /\ CutInto(small, old, cut)
                 /\ cut[L] <= N
                 /\ group = SubSeq(small, cut[L] + 1, N)
  BY <1>2 DEF PlannedUpTo
<1>5. plans = IF Len(group) >= minFiles THEN Append(old, group) ELSE old
  BY <1>2 DEF LastGroup
<1> HIDE DEF old, group
<1>6. N \in Nat /\ cut[L] \in Nat
  <2>1. N \in Nat
    BY <1>1
  <2>2. cut \in [0..L -> 0..N] /\ L \in 0..L
    BY <1>3, <1>4 DEF CutInto
  <2> QED BY <2>1, <2>2
<1>7. Len(group) = N - cut[L]
  BY <1>1, <1>4, <1>6
<1> HIDE DEF N, L
<1>8. \A i \in 1..L : /\ Len(old[i]) >= minFiles
                      /\ Enough(old[i], size, minFiles, target)
                      /\ \A k \in 1..Len(old[i]) - 1 :
                           ~Enough(SubSeq(old[i], 1, k), size, minFiles, target)
  BY <1>3 DEF CutAtOnce, Enough
<1>9. CASE Len(group) >= minFiles
  <2>1. /\ plans \in Seq(Seq(F)) /\ Len(plans) = L + 1
        /\ plans[L + 1] = group /\ \A i \in 1..L : plans[i] = old[i]
    BY <1>3, <1>5, <1>9 DEF L
  <2>2. CutUpTo(small, Append(old, group), N)
    <3>1. ASSUME NEW m \in 0..Len(small), NEW ps \in Seq(Seq(F)), NEW g \in Seq(F),
                 CutInto(small, ps, cut), cut[Len(ps)] <= m,
                 g = SubSeq(small, cut[Len(ps)] + 1, m)
          PROVE  CutUpTo(small, Append(ps, g), m)
      BY <1>1, <3>1, CutMore
    <3>2. N \in 0..Len(small)
      BY <1>6 DEF N
    <3> QED BY <1>3, <1>4, <3>1, <3>2 DEF L
  <2>3. PICK more : CutInto(small, plans, more) /\ more[L + 1] = N
    BY <1>5, <1>9, <2>1, <2>2 DEF CutUpTo
  <2>4. N <= N /\ N < N + minFiles
    BY <1>6
  <2>5. \E c : /\ CutInto(small, plans, c)
               /\ c[Len(plans)] <= N /\ N < c[Len(plans)] + minFiles
    BY <2>1, <2>3, <2>4
  <2>6. ASSUME NEW i \in 1..Len(plans)
        PROVE  /\ Len(plans[i]) >= minFiles
               /\ i < Len(plans) => Enough(plans[i], size, minFiles, target)
               /\ \A k \in 1..Len(plans[i]) - 1 :
                    ~Enough(SubSeq(plans[i], 1, k), size, minFiles, target)
    <3>1. CASE i = L + 1
      <4>1. \A k \in 1..Len(group) - 1 : k \in 1..Len(group)
        BY <1>3
      <4> QED BY <1>3, <1>9, <2>1, <3>1, <4>1 DEF NeverEnough
    <3>2. CASE i # L + 1
      <4>1. i \in 1..L
        BY <1>3, <2>1, <3>2
      <4> QED BY <1>8, <2>1, <4>1
    <3> QED BY <3>1, <3>2
  <2> QED BY <1>1, <2>1, <2>5, <2>6 DEF N, small, plans
<1>10. CASE ~(Len(group) >= minFiles)
  <2>1. plans = old
    BY <1>5, <1>10
  <2>2. N < cut[L] + minFiles
    BY <1>3, <1>6, <1>7, <1>10
  <2>3. \E c : /\ CutInto(small, plans, c)
               /\ c[Len(plans)] <= N /\ N < c[Len(plans)] + minFiles
    BY <1>4, <2>1, <2>2 DEF L
  <2> QED BY <1>1, <1>3, <1>8, <2>1, <2>3 DEF N, L, small, plans
<1> QED BY <1>9, <1>10

LEMMA RunOf ==
  ASSUME NEW F, NEW s \in Seq(F), NEW a \in 0..Len(s), NEW b \in a..Len(s)
  PROVE  /\ Len(SubSeq(s, a + 1, b)) = b - a /\ DOMAIN SubSeq(s, a + 1, b) = 1..(b - a)
         /\ \A j \in 1..(b - a) : a + j \in 1..Len(s) /\ SubSeq(s, a + 1, b)[j] = s[a + j]
OBVIOUS

(* plan_history returns groups of some files of the partition, each in the *)
(* order of their names: what the compactor's model asks of its plans.     *)
THEOREM PlansAreGroups ==
  ASSUME NEW F \in SUBSET Nat, IsFiniteSet(F), NEW size \in [F -> Nat],
         NEW minFiles \in Nat \ {0}, NEW target \in Nat
  PROVE  LET plans == PlanHistory(F, size, minFiles, target)
         IN  /\ plans \in Seq(Seq(F) \ {<<>>})
             /\ \A i \in DOMAIN plans : \A j, k \in DOMAIN plans[i] :
                  j < k => plans[i][j] < plans[i][k]
<1> DEFINE small == InOrder(SmallFiles(F, size, target))
           plans == PlanHistory(F, size, minFiles, target)
<1>1. /\ small \in Seq(F)
      /\ \A i, j \in 1..Len(small) : i < j => small[i] < small[j]
      /\ plans \in Seq(Seq(F))
      /\ \A i \in 1..Len(plans) : Len(plans[i]) >= minFiles
      /\ \E cut : CutInto(small, plans, cut)
  BY PlannerResult
<1> HIDE DEF small, plans
<1>2. PICK cut : CutInto(small, plans, cut)
  BY <1>1
<1>3. /\ Len(small) \in Nat /\ Len(plans) \in Nat /\ DOMAIN plans = 1..Len(plans)
      /\ \A i \in 1..Len(plans) : plans[i] \in Seq(F)
  BY <1>1
<1>4. \A i \in 1..Len(plans) : plans[i] \in Seq(F) \ {<<>>}
  BY <1>1, <1>3
<1>5. plans \in Seq(Seq(F) \ {<<>>})
  BY <1>1, <1>3, <1>4
<1>6. ASSUME NEW i \in 1..Len(plans), NEW j \in DOMAIN plans[i], NEW k \in DOMAIN plans[i], j < k
      PROVE  plans[i][j] < plans[i][k]
  <2> DEFINE a == cut[i - 1]
             b == cut[i]
  <2>1. /\ i - 1 \in 0..Len(plans) /\ i \in 0..Len(plans)
        /\ cut \in [0..Len(plans) -> 0..Len(small)]
        /\ plans[i] = SubSeq(small, a + 1, b) /\ a <= b
    BY <1>2, <1>3 DEF CutInto
  <2>2. a \in 0..Len(small) /\ b \in a..Len(small)
    <3>1. a \in 0..Len(small) /\ b \in 0..Len(small)
      BY <2>1
    <3> QED BY <1>3, <2>1, <3>1
  <2> HIDE DEF a, b
  <2>3. /\ j \in Nat /\ k \in Nat
        /\ a + j \in 1..Len(small) /\ a + k \in 1..Len(small)
        /\ plans[i][j] = small[a + j] /\ plans[i][k] = small[a + k]
    <3>1. /\ DOMAIN SubSeq(small, a + 1, b) = 1..(b - a)
          /\ \A x \in 1..(b - a) :
               a + x \in 1..Len(small) /\ SubSeq(small, a + 1, b)[x] = small[a + x]
      BY <1>1, <2>2, RunOf
    <3>2. j \in 1..(b - a) /\ k \in 1..(b - a)
      BY <2>1, <3>1
    <3>3. plans[i][j] = SubSeq(small, a + 1, b)[j] /\ plans[i][k] = SubSeq(small, a + 1, b)[k]
      BY <2>1
    <3>4. j \in Nat /\ k \in Nat
      BY <2>2, <3>2
    <3> QED BY <3>1, <3>2, <3>3, <3>4
  <2>4. a + j < a + k
    <3>1. a \in Nat
      BY <1>3, <2>2
    <3> QED BY <1>6, <2>3, <3>1
  <2> QED BY <1>1, <2>3, <2>4
<1> QED BY <1>3, <1>5, <1>6 DEF plans

LEMMA PartitionFacts ==
  ASSUME PlannerAssumption, bytes \in Seq(Nat)
  PROVE  /\ DOMAIN bytes \in SUBSET Nat /\ IsFiniteSet(DOMAIN bytes)
         /\ bytes \in [DOMAIN bytes -> Nat]
         /\ MinFiles \in Nat \ {0} /\ Target \in Nat
<1>1. DOMAIN bytes = 1..Len(bytes) /\ Len(bytes) \in Nat
  OBVIOUS
<1>2. IsFiniteSet(1..Len(bytes))
  BY <1>1, FS_Interval
<1> QED BY <1>1, <1>2 DEF PlannerAssumption

LEMMA CoverSmallFiles ==
  ASSUME PlannerAssumption, bytes \in Seq(Nat)
  PROVE  PlansCoverSmallFiles
<1> DEFINE F == DOMAIN bytes
           L == Len(Plans)
           lens == [i \in DOMAIN Plans |-> Len(Plans[i])]
<1>1. /\ Small \in Seq(F) /\ Plans \in Seq(Seq(F))
      /\ \E cut : /\ CutInto(Small, Plans, cut)
                  /\ cut[L] <= Len(Small) /\ Len(Small) < cut[L] + MinFiles
  BY PartitionFacts, PlannerResult DEF Small, Plans
<1>2. PICK cut : /\ CutInto(Small, Plans, cut)
                 /\ cut[L] <= Len(Small) /\ Len(Small) < cut[L] + MinFiles
  BY <1>1
<1>3. /\ L \in Nat /\ Len(Small) \in Nat /\ DOMAIN Plans = 1..L
      /\ \A i \in 1..L : Plans[i] \in Seq(F)
  BY <1>1
<1>4. lens \in Seq(Nat) /\ Len(lens) = L /\ \A i \in 1..L : lens[i] = Len(Plans[i])
  <2>1. \A i \in 1..L : Len(Plans[i]) \in Nat
    BY <1>3
  <2> HIDE DEF L
  <2> QED BY <1>3, <2>1
<1>5. Planned = Totals(lens)
  BY DEF Planned
<1> HIDE DEF L, lens
<1>6. /\ cut \in [0..L -> 0..Len(Small)] /\ cut[0] = 0
      /\ \A i \in 1..L : /\ cut[i - 1] <= cut[i]
                         /\ Plans[i] = SubSeq(Small, cut[i - 1] + 1, cut[i])
  BY <1>2 DEF CutInto, L
<1>7. ASSUME NEW i \in 1..L PROVE cut[i] = cut[i - 1] + lens[i]
  <2>1. i - 1 \in 0..L /\ i \in 0..L
    BY <1>3
  <2>2. cut[i - 1] \in 0..Len(Small) /\ cut[i] \in 0..Len(Small) /\ cut[i - 1] <= cut[i]
    BY <1>6, <2>1
  <2> DEFINE a == cut[i - 1]
             b == cut[i]
  <2>3. a \in 0..Len(Small) /\ b \in a..Len(Small) /\ a \in Nat /\ b \in Nat
    BY <1>3, <2>2
  <2>4. Plans[i] = SubSeq(Small, a + 1, b)
    BY <1>6
  <2> HIDE DEF a, b
  <2>5. Len(SubSeq(Small, a + 1, b)) = b - a
    BY <1>1, <2>3, RunOf
  <2>7. lens[i] = b - a
    BY <1>4, <2>4, <2>5
  <2>6. b = a + lens[i]
    BY <2>3, <2>7
  <2> QED BY <2>6 DEF a, b
<1>8. \A n \in 0..L : cut[n] = Planned[n]
  <2>1. \A n \in 0..Len(lens) : cut[n] = 0 + Totals(lens)[n]
    <3>1. cut[0] = 0 /\ \A n \in 1..Len(lens) : cut[n] = cut[n - 1] + lens[n]
      BY <1>4, <1>6, <1>7
    <3>2. lens \in Seq(Nat) /\ 0 \in Nat
      BY <1>4
    <3> QED BY <3>1, <3>2, TotalsUnique
  <2>2. \A n \in 0..Len(lens) : Totals(lens)[n] \in Nat
    BY <1>4, TotalsAre
  <2> QED BY <1>4, <1>5, <2>1, <2>2
<1>9. \A i \in DOMAIN Plans : Plans[i] = SubSeq(Small, Planned[i - 1] + 1, Planned[i])
  <2> TAKE i \in DOMAIN Plans
  <2>1. i \in 1..L /\ i - 1 \in 0..L /\ i \in 0..L
    BY <1>3
  <2>2. cut[i - 1] = Planned[i - 1] /\ cut[i] = Planned[i]
    BY <1>8, <2>1
  <2> QED BY <1>6, <2>1, <2>2
<1>10. cut[L] = Planned[L]
  BY <1>3, <1>8
<1> QED BY <1>2, <1>9, <1>10 DEF PlansCoverSmallFiles, L

LEMMA MinimalPlans ==
  ASSUME PlannerAssumption, bytes \in Seq(Nat)
  PROVE  PlansAreMinimal
<1> DEFINE F == DOMAIN bytes
<1>1. /\ Plans \in Seq(Seq(F))
      /\ \A i \in 1..Len(Plans) :
           /\ Len(Plans[i]) >= MinFiles
           /\ i < Len(Plans) => Enough(Plans[i], bytes, MinFiles, Target)
           /\ \A k \in 1..Len(Plans[i]) - 1 :
                ~Enough(SubSeq(Plans[i], 1, k), bytes, MinFiles, Target)
  BY PartitionFacts, PlannerResult DEF Plans
<1>2. \A group : Full(group) <=> Enough(group, bytes, MinFiles, Target)
  BY DEF Full, Bytes, Enough, BytesOf
<1>3. DOMAIN Plans = 1..Len(Plans)
  BY <1>1
<1> QED BY <1>1, <1>2, <1>3 DEF PlansAreMinimal

SizesOK == bytes \in Seq(Nat)

LEMMA PartitionInvariant == Partitions => []SizesOK
<1>1. EmptyPartition => SizesOK
  BY DEF EmptyPartition, SizesOK
<1>2. SizesOK /\ [AddFile]_bytes => SizesOK'
  <2> SUFFICES ASSUME bytes \in Seq(Nat), [AddFile]_bytes PROVE bytes' \in Seq(Nat)
    BY DEF SizesOK
  <2>1. ASSUME NEW size \in 0..MaxBytes PROVE Append(bytes, size) \in Seq(Nat)
    OBVIOUS
  <2>2. CASE AddFile
    BY <2>1, <2>2 DEF AddFile
  <2>3. CASE UNCHANGED bytes
    BY <2>3
  <2> QED BY <2>2, <2>3
<1> QED BY <1>1, <1>2, PTL DEF Partitions

(* MCCompactionPlanner.PlansCoverSmallFiles, for partitions of any number  *)
(* of files of any sizes: plan_history cuts the small files into           *)
(* consecutive runs and leaves fewer than the minimum over.                *)
THEOREM PlannerCovers == Partitions => []PlansCoverSmallFiles
<1>1. SizesOK => PlansCoverSmallFiles
  BY CoverSmallFiles, PlannerAssumption DEF SizesOK
<1> QED BY <1>1, PartitionInvariant, PTL

(* MCCompactionPlanner.PlansAreMinimal: every plan is worth it, and none   *)
(* could have been cut earlier.                                            *)
THEOREM PlannerMinimal == Partitions => []PlansAreMinimal
<1>1. SizesOK => PlansAreMinimal
  BY MinimalPlans, PlannerAssumption DEF SizesOK
<1> QED BY <1>1, PartitionInvariant, PTL
==============================================================================
