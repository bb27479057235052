---------------------------- MODULE Commands_proofs ----------------------------
EXTENDS Commands, SequenceTheorems, TLAPS

(* A command whose id the deduper never lost is written only after it was  *)
(* remembered, at most once, and not while it is about to be written.      *)
DedupOK ==
    \A c \in Commands :
        c \notin forgot =>
            /\ writes[c] <= 1
            /\ c \notin Elements(seen) => writes[c] = 0 /\ doing # c
            /\ doing = c => writes[c] = 0

(* An answer that reports an execution, on its way or arrived, is of a     *)
(* command that was written.                                               *)
ReportsOK ==
    /\ \A i \in DOMAIN replies :
        replies[i][2] = "Executed" => writes[replies[i][1]] > 0
    /\ \A c \in Commands : ack[c] = "Executed" => writes[c] > 0

Outcome(c, status) ==
    \/ status = "Executed" /\ writes[c] = 1
    \/ status = "Failed" /\ writes[c] <= 1
    \/ status = "Expired" /\ writes[c] = 0

(* The last answer of c that the broker has not got yet is its outcome. *)
OnItsWay(c) ==
    \E i \in (told + 1)..Len(replies) :
        /\ replies[i][1] = c
        /\ Outcome(c, replies[i][2])
        /\ \A j \in (i + 1)..Len(replies) : replies[j][1] # c

Arrived(c) ==
    /\ \A i \in (told + 1)..Len(replies) : replies[i][1] # c
    /\ Outcome(c, ack[c])

(* A command is not known before its first copy, and not answered before   *)
(* central is connected, which issues no command before.                   *)
OutcomeOK ==
    breaks = 0 =>
        /\ central \in {"starting", "connected"}
        /\ central = "starting" =>
            outbox = <<>> /\ inbox = <<>> /\ doing = None /\ replies = <<>>
        /\ \A c \in Commands :
            /\ handled[c] = 0 =>
                /\ writes[c] = 0 /\ doing # c /\ c \notin Elements(seen)
                /\ \A i \in 1..Len(replies) : replies[i][1] # c
            /\ handled[c] = 1 => IF doing = c THEN writes[c] = 0
                                              ELSE OnItsWay(c) \/ Arrived(c)

IInv == TypeOK /\ DedupOK /\ ReportsOK /\ OutcomeOK
------------------------------------------------------------------------------
(* Sequences *)

LEMMA Appended ==
    ASSUME NEW S, NEW s \in Seq(S), NEW e \in S
    PROVE  /\ Append(s, e) \in Seq(S)
           /\ Len(Append(s, e)) = Len(s) + 1
           /\ Elements(Append(s, e)) = Elements(s) \cup {e}
<1>1. /\ Append(s, e) \in Seq(S)
      /\ Len(Append(s, e)) = Len(s) + 1
      /\ Append(s, e)[Len(s) + 1] = e
      /\ \A i \in 1..Len(s) : Append(s, e)[i] = s[i]
  OBVIOUS
<1>2. /\ DOMAIN s = 1..Len(s) /\ DOMAIN Append(s, e) = 1..(Len(s) + 1)
      /\ Len(s) \in Nat
  BY <1>1
<1>3. ASSUME NEW x \in Elements(Append(s, e))  PROVE  x \in Elements(s) \cup {e}
  <2>1. PICK i \in 1..(Len(s) + 1) : x = Append(s, e)[i]
    BY <1>2 DEF Elements
  <2>2. CASE i = Len(s) + 1
    BY <1>1, <2>1, <2>2
  <2>3. CASE i # Len(s) + 1
    <3>1. i \in 1..Len(s)
      BY <1>2, <2>3
    <3>2. x = s[i]
      BY <1>1, <2>1, <3>1
    <3> QED BY <1>2, <3>1, <3>2 DEF Elements
  <2> QED BY <2>2, <2>3
<1>4. ASSUME NEW x \in Elements(s)  PROVE  x \in Elements(Append(s, e))
  <2>1. PICK i \in 1..Len(s) : x = s[i]
    BY <1>2 DEF Elements
  <2>2. i \in 1..(Len(s) + 1)
    BY <1>2
  <2> QED BY <1>1, <1>2, <2>1, <2>2 DEF Elements
<1>5. e \in Elements(Append(s, e))
  <2>1. Len(s) + 1 \in 1..(Len(s) + 1)
    BY <1>2
  <2> QED BY <1>1, <1>2, <2>1 DEF Elements
<1> QED BY <1>1, <1>3, <1>4, <1>5

LEMMA Shortened ==
    ASSUME NEW S, NEW s \in Seq(S), s # <<>>
    PROVE  /\ Head(s) \in S
           /\ Tail(s) \in Seq(S)
           /\ Len(Tail(s)) = Len(s) - 1
           /\ \A i \in 1..Len(Tail(s)) : i + 1 \in 1..Len(s) /\ Tail(s)[i] = s[i + 1]
  OBVIOUS

LEMMA Counted ==
    ASSUME NEW n \in Nat, NEW i \in 0..n, i < n
    PROVE  i + 1 \in 0..n
  OBVIOUS

(* What Send leaves of a queue. *)
LEMMA Sent ==
    ASSUME NEW S, NEW q \in Seq(S), NEW n \in 0..Len(q), NEW r, NEW k, Send(q, n, r, k)
    PROVE  /\ q # <<>> /\ n + 1 \in 1..Len(q)
           /\ r \in Seq(S)
           /\ k \in 0..Len(r)
           /\ r = Tail(q) \/ r = q
<1>1. n < Len(q) /\ Len(q) \in Nat
  BY DEF Send
<1>2. q # <<>> /\ n + 1 \in 1..Len(q)
  BY <1>1
<1>3. CASE n = 0 /\ k = 0 /\ r = Tail(q)
  BY <1>1, <1>2, <1>3
<1>4. CASE k = n + 1 /\ r = q
  BY <1>1, <1>2, <1>4
<1> QED BY <1>2, <1>3, <1>4 DEF Send
------------------------------------------------------------------------------
(* Types *)

LEMMA Initially == Init => IInv
<1> SUFFICES ASSUME Init PROVE IInv
  OBVIOUS
<1>1. TypeOK
  <2>1. 0 \in 0..MaxBreaks /\ 0 \in 0..Len(<<>>) /\ Len(<<>>) <= MaxSeen
    BY CommandsAssumption
  <2> QED BY <2>1 DEF Init, TypeOK, Links, Statuses, None
<1>2. DedupOK
  BY DEF Init, DedupOK, Commands, None
<1>3. ReportsOK
  BY DEF Init, ReportsOK
<1>4. OutcomeOK
  BY DEF Init, OutcomeOK, Commands, None, Elements
<1> QED BY <1>1, <1>2, <1>3, <1>4 DEF IInv

LEMMA Counts ==
    ASSUME TypeOK, Broken
    PROVE  breaks' \in 0..MaxBreaks
  BY CommandsAssumption, Counted DEF TypeOK, Broken

(* The deduper's ids stay within MaxSeen, and one it loses is in forgot. *)
LEMMA Remembered ==
    ASSUME TypeOK, NEW c \in Commands
    PROVE  /\ Remember(c) \in Seq(Commands)
           /\ Len(Remember(c)) <= MaxSeen
           /\ c \in Elements(Remember(c))
<1>1. seen \in Seq(Commands) /\ Len(seen) <= MaxSeen /\ Len(seen) \in Nat /\ MaxSeen \in Nat \ {0}
  BY CommandsAssumption DEF TypeOK
<1>2. CASE Len(seen) < MaxSeen
  BY <1>1, <1>2, Appended DEF Remember
<1>3. CASE ~(Len(seen) < MaxSeen)
  <2>1. seen # <<>>
    BY <1>1, <1>3
  <2>2. Tail(seen) \in Seq(Commands) /\ Len(Tail(seen)) = Len(seen) - 1
    BY <1>1, <2>1, Shortened
  <2>3. Remember(c) = Append(Tail(seen), c)
    BY <1>3 DEF Remember
  <2>4. /\ Append(Tail(seen), c) \in Seq(Commands)
        /\ Len(Append(Tail(seen), c)) = Len(seen) - 1 + 1
        /\ c \in Elements(Append(Tail(seen), c))
    <3> DEFINE t == Tail(seen)
    <3>1. t \in Seq(Commands) /\ Len(t) = Len(seen) - 1
      BY <2>2
    <3> HIDE DEF t
    <3>2. /\ Append(t, c) \in Seq(Commands) /\ Len(Append(t, c)) = Len(t) + 1
          /\ Elements(Append(t, c)) = Elements(t) \cup {c}
      BY <3>1, Appended
    <3>3. c \in Elements(Append(t, c))
      BY <3>2
    <3> QED BY <3>1, <3>2, <3>3 DEF t
  <2> QED BY <1>1, <2>3, <2>4
<1> QED BY <1>2, <1>3

LEMMA Answered ==
    ASSUME TypeOK, NEW c \in Commands, NEW status \in Statuses, Reply(c, status)
    PROVE  replies' \in Seq(Commands \X Statuses) /\ told' \in 0..Len(replies')
<1>1. replies \in Seq(Commands \X Statuses) /\ told \in 0..Len(replies) /\ told' = told
  BY DEF TypeOK, Reply
<1>2. <<c, status>> \in Commands \X Statuses
  OBVIOUS
<1>3. /\ replies' \in Seq(Commands \X Statuses)
      /\ Len(replies') = Len(replies) + 1
  BY <1>1, <1>2, Appended DEF Reply
<1> QED BY <1>1, <1>3

(* A command is taken from the inbox. *)
LEMMA Taken ==
    ASSUME TypeOK, Take
    PROVE  /\ Head(inbox) \in Commands
           /\ inbox' \in Seq(Commands)
           /\ handled' \in [Commands -> Nat]
  BY Shortened DEF TypeOK, Take

LEMMA TypeKept == TypeOK /\ UNCHANGED vars => TypeOK'
  BY DEF TypeOK, vars, centralVars, loopVars, replyVars, ghosts

LEMMA CentralTyped ==
    ASSUME TypeOK,
           \/ \E c \in Commands : Issue(c) \/ Expire(c)
           \/ Forward \/ DeliverReply \/ ConnectCentral \/ CentralBreak \/ CentralCrash
    PROVE  TypeOK'
<1> USE DEF vars, centralVars, loopVars, replyVars, ghosts
<1>1. ASSUME NEW c \in Commands, Issue(c)  PROVE  TypeOK'
  <2>1. pending' \in [Commands -> {"none", "stored", "published", "gone"}]
    BY <1>1 DEF TypeOK, Issue
  <2>2. outbox' \in Seq(Commands) /\ sent' \in 0..Len(outbox')
    <3>1. outbox \in Seq(Commands) /\ sent \in 0..Len(outbox) /\ sent' = sent
      BY <1>1 DEF TypeOK, Issue
    <3>2. CASE outbox' = outbox
      BY <3>1, <3>2
    <3>3. CASE outbox' = Append(outbox, c)
      <4>1. outbox' \in Seq(Commands) /\ Len(outbox') = Len(outbox) + 1
        BY <3>1, <3>3, Appended
      <4> QED BY <3>1, <4>1
    <3> QED BY <1>1, <3>2, <3>3 DEF Issue
  <2> QED BY <1>1, <2>1, <2>2 DEF TypeOK, Issue
<1>2. ASSUME NEW c \in Commands, Expire(c)  PROVE  TypeOK'
  BY <1>2 DEF TypeOK, Expire
<1>3. CASE Forward
  <2>1. outbox \in Seq(Commands) /\ sent \in 0..Len(outbox) /\ Send(outbox, sent, outbox', sent')
    BY <1>3 DEF TypeOK, Forward
  <2>2. outbox' \in Seq(Commands) /\ sent' \in 0..Len(outbox') /\ sent + 1 \in 1..Len(outbox)
    BY <2>1, Sent
  <2>3. inbox' \in Seq(Commands)
    <3>1. outbox[sent + 1] \in Commands
      BY <2>1, <2>2
    <3>2. \A n \in {1, Subscriptions} : Copies(outbox[sent + 1], n) \in Seq(Commands)
      BY <3>1, CommandsAssumption DEF Copies
    <3>3. inbox \in Seq(Commands)
      BY DEF TypeOK
    <3>4. CASE inbox' = inbox
      BY <3>3, <3>4
    <3>5. ASSUME NEW n \in {1, Subscriptions}, inbox' = inbox \o Copies(outbox[sent + 1], n)
          PROVE  inbox' \in Seq(Commands)
      <4>1. Copies(outbox[sent + 1], n) \in Seq(Commands)
        BY <3>2
      <4> QED BY <3>3, <3>5, <4>1, ConcatProperties
    <3> QED BY <1>3, <3>4, <3>5 DEF Forward
  <2> QED BY <1>3, <2>2, <2>3 DEF TypeOK, Forward
<1>4. CASE DeliverReply
  <2>1. /\ replies \in Seq(Commands \X Statuses) /\ told \in 0..Len(replies)
        /\ Send(replies, told, replies', told')
    BY <1>4 DEF TypeOK, DeliverReply
  <2>2. /\ replies' \in Seq(Commands \X Statuses) /\ told' \in 0..Len(replies')
        /\ told + 1 \in 1..Len(replies)
    BY <2>1, Sent
  <2>3. replies[told + 1] \in Commands \X Statuses
    BY <2>1, <2>2
  <2>4. ack' \in [Commands -> Statuses \cup {"none"}]
    BY <1>4, <2>3 DEF TypeOK, DeliverReply
  <2> QED BY <1>4, <2>2, <2>4 DEF TypeOK, DeliverReply
<1>5. CASE ConnectCentral
  BY <1>5 DEF TypeOK, ConnectCentral, Links
<1>6. CASE CentralBreak
  <2>1. sent' \in 0..Len(outbox')
    BY <1>6 DEF TypeOK, CentralBreak
  <2> QED BY <1>6, <2>1, Counts DEF TypeOK, CentralBreak, Links
<1>7. CASE CentralCrash
  <2>1. outbox' \in Seq(Commands) /\ sent' \in 0..Len(outbox')
    BY <1>7 DEF CentralCrash
  <2> QED BY <1>7, <2>1, Counts DEF TypeOK, CentralCrash, Links
<1> QED BY <1>1, <1>2, <1>3, <1>4, <1>5, <1>6, <1>7

LEMMA EdgeTyped ==
    ASSUME TypeOK, Handle \/ ConnectEdge \/ EdgeBreak \/ LoopPanics \/ EdgeCrash
    PROVE  TypeOK'
<1> USE DEF vars, centralVars, loopVars, replyVars, ghosts
<1>1. CASE ReceiveExpired
  <2>1. replies' \in Seq(Commands \X Statuses) /\ told' \in 0..Len(replies')
    BY <1>1, Taken, Answered DEF ReceiveExpired, Statuses
  <2> QED BY <1>1, <2>1, Taken DEF TypeOK, ReceiveExpired
<1>2. CASE ReceiveDuplicate
  <2>1. replies' \in Seq(Commands \X Statuses) /\ told' \in 0..Len(replies')
    BY <1>2, Taken, Answered DEF ReceiveDuplicate, Statuses
  <2> QED BY <1>2, <2>1, Taken DEF TypeOK, ReceiveDuplicate
<1>3. CASE ReceiveNew
  <2>1. replies' \in Seq(Commands \X Statuses) /\ told' \in 0..Len(replies')
    BY <1>3, Taken, Answered DEF ReceiveNew, Statuses
  <2>2. seen' \in Seq(Commands) /\ Len(seen') <= MaxSeen
    BY <1>3, Taken, Remembered DEF ReceiveNew
  <2>3. Elements(seen) \subseteq Commands
    BY DEF TypeOK, Elements
  <2> QED BY <1>3, <2>1, <2>2, <2>3, Taken DEF TypeOK, ReceiveNew
<1>4. CASE Execute
  <2>1. doing \in Commands
    BY <1>4 DEF TypeOK, Execute
  <2>2. replies' \in Seq(Commands \X Statuses) /\ told' \in 0..Len(replies')
    BY <1>4, <2>1, Answered DEF Execute, Statuses
  <2> QED BY <1>4, <2>1, <2>2 DEF TypeOK, Execute
<1>5. CASE ExecuteFails
  <2>1. doing \in Commands
    BY <1>5 DEF TypeOK, ExecuteFails
  <2>2. replies' \in Seq(Commands \X Statuses) /\ told' \in 0..Len(replies')
    BY <1>5, <2>1, Answered DEF ExecuteFails, Statuses
  <2> QED BY <1>5, <2>1, <2>2 DEF TypeOK, ExecuteFails
<1>6. CASE ConnectEdge
  BY <1>6 DEF TypeOK, ConnectEdge, Links
<1>7. CASE EdgeBreak
  <2>1. PICK n \in 0..Len(inbox) : inbox' = SubSeq(inbox, 1, n)
    BY <1>7 DEF EdgeBreak
  <2>2. inbox' \in Seq(Commands)
    BY <2>1 DEF TypeOK
  <2>3. told' \in 0..Len(replies')
    BY <1>7 DEF TypeOK, EdgeBreak
  <2> QED BY <1>7, <2>2, <2>3, Counts DEF TypeOK, EdgeBreak, Links
<1>8. ASSUME EndSession
      PROVE  /\ edge' \in Links /\ inbox' \in Seq(Commands) /\ doing' \in Commands \cup {None}
             /\ replies' \in Seq(Commands \X Statuses) /\ told' \in 0..Len(replies')
  BY <1>8 DEF EndSession, Links
<1>9. CASE LoopPanics
  BY <1>8, <1>9, Counts DEF TypeOK, LoopPanics
<1>10. CASE EdgeCrash
  <2>1. seen' \in Seq(Commands) /\ Len(seen') <= MaxSeen
    BY <1>10, CommandsAssumption DEF EdgeCrash
  <2>2. Elements(seen) \subseteq Commands
    BY DEF TypeOK, Elements
  <2> QED BY <1>8, <1>10, <2>1, <2>2, Counts DEF TypeOK, EdgeCrash
<1> QED BY <1>1, <1>2, <1>3, <1>4, <1>5, <1>6, <1>7, <1>9, <1>10 DEF Handle
------------------------------------------------------------------------------
(* At most one write *)

LEMMA DedupKept == DedupOK /\ UNCHANGED <<writes, forgot, seen, doing>> => DedupOK'
  BY DEF DedupOK

LEMMA DedupStep == TypeOK /\ DedupOK /\ Next => DedupOK'
<1> SUFFICES ASSUME TypeOK, DedupOK, Next PROVE DedupOK'
  OBVIOUS
<1> USE DEF loopVars, replyVars, ghosts
<1>1. CASE ReceiveNew
  <2>1. Head(inbox) \in Commands
    BY <1>1, Taken DEF ReceiveNew
  <2>2. Head(inbox) \in Elements(seen') /\ Head(inbox) \notin Elements(seen)
    BY <1>1, <2>1, Remembered DEF ReceiveNew
  <2>3. /\ forgot' = forgot \cup (Elements(seen) \ Elements(seen'))
        /\ doing' = Head(inbox) /\ writes' = writes
    BY <1>1 DEF ReceiveNew
  <2>4. doing = None
    BY <1>1 DEF ReceiveNew, Take
  <2>5. Elements(seen') = Elements(seen)'
    BY DEF Elements
  <2> QED BY <2>1, <2>2, <2>3, <2>4, <2>5 DEF DedupOK
<1>2. ASSUME doing # None, doing' = None, seen' = seen, forgot' = forgot,
             writes' = writes \/ writes' = [writes EXCEPT ![doing] = @ + 1]
      PROVE  DedupOK'
  <2>1. doing \in Commands /\ writes \in [Commands -> Nat] /\ None \notin Commands
    BY <1>2 DEF TypeOK, None, Commands
  <2> QED BY <1>2, <2>1 DEF DedupOK, Elements
<1>3. CASE Execute
  BY <1>2, <1>3 DEF Execute
<1>4. CASE ExecuteFails
  BY <1>2, <1>4 DEF ExecuteFails
<1>5. CASE LoopPanics
  BY <1>2, <1>5 DEF LoopPanics, EndSession
<1>6. CASE EdgeCrash
  <2>1. forgot' = forgot \cup Elements(seen) /\ writes' = writes /\ doing' = None /\ seen' = <<>>
    BY <1>6 DEF EdgeCrash, EndSession
  <2>2. None \notin Commands
    BY DEF None, Commands
  <2> QED BY <2>1, <2>2 DEF DedupOK
<1>7. CASE \E c \in Commands : Issue(c) \/ Expire(c)
  BY <1>7, DedupKept DEF Issue, Expire
<1>8. CASE Forward \/ DeliverReply \/ ConnectCentral \/ CentralBreak \/ CentralCrash
  BY <1>8, DedupKept DEF Forward, DeliverReply, ConnectCentral, CentralBreak, CentralCrash
<1>9. CASE ReceiveExpired \/ ReceiveDuplicate \/ ConnectEdge \/ EdgeBreak
  BY <1>9, DedupKept DEF ReceiveExpired, ReceiveDuplicate, Take, ConnectEdge, EdgeBreak
<1> QED BY <1>1, <1>3, <1>4, <1>5, <1>6, <1>7, <1>8, <1>9 DEF Next, Handle
------------------------------------------------------------------------------
(* Reports are true *)

LEMMA ReportsKept ==
    ReportsOK /\ UNCHANGED <<writes, replies>> /\ (UNCHANGED ack \/ \A c \in Commands : ack'[c] = "none")
        => ReportsOK'
  BY DEF ReportsOK

(* An answer is queued; it is true if it reports an execution. *)
LEMMA NewReport ==
    ASSUME TypeOK, ReportsOK, UNCHANGED ack,
           NEW c \in Commands, NEW status \in Statuses, Reply(c, status),
           \/ UNCHANGED writes
           \/ writes' = [writes EXCEPT ![c] = @ + 1],
           status = "Executed" => writes'[c] > 0
    PROVE  ReportsOK'
<1>1. replies \in Seq(Commands \X Statuses) /\ writes \in [Commands -> Nat]
  BY DEF TypeOK
<1>2. /\ Len(replies') = Len(replies) + 1
      /\ replies'[Len(replies) + 1] = <<c, status>>
      /\ \A i \in 1..Len(replies) : replies'[i] = replies[i] /\ replies[i][1] \in Commands
      /\ DOMAIN replies = 1..Len(replies) /\ DOMAIN replies' = 1..Len(replies')
      /\ Len(replies) \in Nat
  BY <1>1 DEF Reply
<1>3. \A d \in Commands : writes[d] > 0 => writes'[d] > 0
  BY <1>1
<1>4. ASSUME NEW i \in DOMAIN replies', replies'[i][2] = "Executed"
      PROVE  writes'[replies'[i][1]] > 0
  <2>1. CASE i = Len(replies) + 1
    BY <1>2, <1>4, <2>1
  <2>2. CASE i # Len(replies) + 1
    <3>1. i \in 1..Len(replies)
      BY <1>2, <2>2
    <3> QED BY <1>2, <1>3, <1>4, <3>1 DEF ReportsOK
  <2> QED BY <2>1, <2>2
<1>5. \A d \in Commands : ack'[d] = "Executed" => writes'[d] > 0
  BY <1>3 DEF ReportsOK
<1> QED BY <1>4, <1>5 DEF ReportsOK

LEMMA ReportsStep == TypeOK /\ ReportsOK /\ Next => ReportsOK'
<1> SUFFICES ASSUME TypeOK, ReportsOK, Next PROVE ReportsOK'
  OBVIOUS
<1> USE DEF centralVars, loopVars, replyVars, ghosts
<1>1. CASE DeliverReply
  <2>1. /\ replies \in Seq(Commands \X Statuses) /\ told \in 0..Len(replies)
        /\ Send(replies, told, replies', told') /\ ack \in [Commands -> Statuses \cup {"none"}]
        /\ writes' = writes
    BY <1>1 DEF TypeOK, DeliverReply
  <2>2. /\ replies # <<>> /\ told + 1 \in 1..Len(replies)
        /\ replies' = Tail(replies) \/ replies' = replies
    BY <2>1, Sent
  <2>3. \A i \in DOMAIN replies' : \E j \in DOMAIN replies : replies'[i] = replies[j]
    <3>1. CASE replies' = replies
      BY <3>1
    <3>2. CASE replies' = Tail(replies)
      BY <2>1, <2>2, <3>2, Shortened
    <3> QED BY <2>2, <3>1, <3>2
  <2>4. replies[told + 1] \in Commands \X Statuses /\ told + 1 \in DOMAIN replies
    BY <2>1, <2>2
  <2>5. \A c \in Commands : ack'[c] = "Executed" => writes[c] > 0
    <3>1. \/ ack' = ack
          \/ ack' = [ack EXCEPT ![replies[told + 1][1]] = replies[told + 1][2]]
      BY <1>1 DEF DeliverReply
    <3> QED BY <2>1, <2>4, <3>1 DEF ReportsOK
  <2> QED BY <2>1, <2>3, <2>5 DEF ReportsOK
<1>2. CASE Execute
  <2>1. doing \in Commands /\ writes \in [Commands -> Nat]
    BY <1>2 DEF TypeOK, Execute
  <2>2. writes'[doing] > 0
    BY <1>2, <2>1 DEF Execute
  <2> QED BY <1>2, <2>1, <2>2, NewReport DEF Execute, Statuses
<1>3. CASE ExecuteFails
  <2>1. doing \in Commands
    BY <1>3 DEF TypeOK, ExecuteFails
  <2> QED BY <1>3, <2>1, NewReport DEF ExecuteFails, Statuses
<1>4. CASE ReceiveExpired
  BY <1>4, Taken, NewReport DEF ReceiveExpired, Statuses
<1>5. CASE ReceiveDuplicate
  BY <1>5, Taken, NewReport DEF ReceiveDuplicate, Statuses
<1>6. CASE ReceiveNew
  BY <1>6, Taken, NewReport DEF ReceiveNew, Statuses
<1>7. CASE LoopPanics \/ EdgeCrash
  BY <1>7 DEF LoopPanics, EdgeCrash, EndSession, ReportsOK
<1>8. CASE \E c \in Commands : Issue(c) \/ Expire(c)
  BY <1>8, ReportsKept DEF Issue, Expire
<1>9. CASE Forward \/ ConnectCentral \/ CentralBreak \/ CentralCrash
  BY <1>9, ReportsKept DEF Forward, ConnectCentral, CentralBreak, CentralCrash
<1>10. CASE ConnectEdge \/ EdgeBreak
  BY <1>10, ReportsKept DEF ConnectEdge, EdgeBreak
<1> QED BY <1>1, <1>2, <1>3, <1>4, <1>5, <1>6, <1>7, <1>8, <1>9, <1>10 DEF Next, Handle
------------------------------------------------------------------------------
(* The last answer is the outcome *)

LEMMA BreaksCounted == TypeOK /\ Broken => breaks' # 0
  BY CommandsAssumption DEF TypeOK, Broken

(* Queues and counters that a step leaves alone. *)
LEMMA OutcomeKept ==
    ASSUME OutcomeOK, UNCHANGED <<breaks, handled, writes, doing, seen, replies, told, ack>>,
           central' = central \/ central' = "connected",
           breaks = 0 /\ central' = "starting" => outbox' = <<>> /\ inbox' = <<>>
    PROVE  OutcomeOK'
  BY DEF OutcomeOK, OnItsWay, Arrived, Outcome, Elements

LEMMA ReplyFacts ==
    ASSUME TypeOK, NEW c \in Commands, NEW status \in Statuses, Reply(c, status)
    PROVE  /\ Len(replies) \in Nat /\ told \in 0..Len(replies) /\ told' = told
           /\ Len(replies') = Len(replies) + 1
           /\ replies'[Len(replies) + 1] = <<c, status>>
           /\ \A i \in 1..Len(replies) : replies'[i] = replies[i]
  BY DEF TypeOK, Reply

(* An answer of another command changes nothing for c. *)
LEMMA OtherReply ==
    ASSUME TypeOK, NEW c \in Commands, NEW d \in Commands \ {c}, NEW status \in Statuses,
           Reply(d, status), writes'[c] = writes[c], ack' = ack, OnItsWay(c) \/ Arrived(c)
    PROVE  OnItsWay(c)' \/ Arrived(c)'
<1>1. /\ Len(replies) \in Nat /\ told \in 0..Len(replies) /\ told' = told
      /\ Len(replies') = Len(replies) + 1
      /\ replies'[Len(replies) + 1][1] # c
      /\ \A i \in 1..Len(replies) : replies'[i] = replies[i]
  BY ReplyFacts
<1>2. CASE OnItsWay(c)
  <2>1. PICK i \in (told + 1)..Len(replies) :
            /\ replies[i][1] = c
            /\ Outcome(c, replies[i][2])
            /\ \A j \in (i + 1)..Len(replies) : replies[j][1] # c
    BY <1>2 DEF OnItsWay
  <2>2. i \in (told' + 1)..Len(replies') /\ replies'[i] = replies[i]
    BY <1>1
  <2>3. ASSUME NEW j \in (i + 1)..Len(replies') PROVE replies'[j][1] # c
    <3>1. CASE j = Len(replies) + 1
      BY <1>1, <3>1
    <3>2. CASE j # Len(replies) + 1
      <4>1. j \in (i + 1)..Len(replies) /\ j \in 1..Len(replies)
        BY <1>1, <3>2
      <4> QED BY <1>1, <2>1, <4>1
    <3> QED BY <3>1, <3>2
  <2>4. Outcome(c, replies[i][2])'
    BY <2>1, <2>2 DEF Outcome
  <2> QED BY <2>1, <2>2, <2>3, <2>4 DEF OnItsWay, Outcome
<1>3. CASE Arrived(c)
  <2>1. ASSUME NEW i \in (told' + 1)..Len(replies') PROVE replies'[i][1] # c
    <3>1. CASE i = Len(replies) + 1
      BY <1>1, <3>1
    <3>2. CASE i # Len(replies) + 1
      <4>1. i \in (told + 1)..Len(replies) /\ i \in 1..Len(replies)
        BY <1>1, <3>2
      <4> QED BY <1>1, <1>3, <4>1 DEF Arrived
    <3> QED BY <3>1, <3>2
  <2> QED BY <1>3, <2>1 DEF Arrived, Outcome
<1> QED BY <1>2, <1>3

(* The answer that ends the handling of a command is its outcome. *)
LEMMA LastReply ==
    ASSUME TypeOK, NEW c \in Commands, NEW status \in Statuses, Reply(c, status),
           Outcome(c, status)'
    PROVE  OnItsWay(c)'
<1> DEFINE n == Len(replies) + 1
<1>1. /\ n \in (told' + 1)..Len(replies') /\ replies'[n] = <<c, status>>
      /\ \A j \in (n + 1)..Len(replies') : FALSE
  BY ReplyFacts
<1> QED BY <1>1 DEF OnItsWay, Outcome

LEMMA TakeStep ==
    ASSUME TypeOK, OutcomeOK, ReceiveExpired \/ ReceiveDuplicate \/ ReceiveNew
    PROVE  OutcomeOK'
<1> USE DEF centralVars, loopVars, replyVars, ghosts
<1>0. PICK d \in Commands : d = Head(inbox)
  BY Taken DEF ReceiveExpired, ReceiveDuplicate, ReceiveNew
<1>1. /\ inbox # <<>> /\ doing = None /\ None \notin Commands
      /\ handled' = [handled EXCEPT ![d] = @ + 1] /\ handled \in [Commands -> Nat]
      /\ writes' = writes /\ ack' = ack /\ central' = central /\ breaks' = breaks
  BY <1>0 DEF ReceiveExpired, ReceiveDuplicate, ReceiveNew, Take, TypeOK, None, Commands
<1> SUFFICES ASSUME breaks = 0 PROVE OutcomeOK'
  BY <1>1 DEF OutcomeOK
<1>2. central = "connected"
  BY <1>1 DEF OutcomeOK
<1>3. PICK status \in Statuses : Reply(d, status)
  BY <1>0 DEF ReceiveExpired, ReceiveDuplicate, ReceiveNew, Statuses
<1>4. Elements(seen') \subseteq Elements(seen) \cup {d} /\ doing' \in {None, d}
  <2>1. CASE ReceiveExpired \/ ReceiveDuplicate
    BY <1>1, <2>1 DEF ReceiveExpired, ReceiveDuplicate
  <2>2. CASE ReceiveNew
    <3>1. seen \in Seq(Commands) /\ seen' = Remember(d)
      BY <1>0, <2>2 DEF ReceiveNew, TypeOK
    <3>2. Elements(Append(seen, d)) = Elements(seen) \cup {d}
      BY <1>1, <3>1, Appended
    <3>3. CASE Len(seen) < MaxSeen
      BY <2>2, <3>1, <3>2, <3>3 DEF Remember, ReceiveNew
    <3>4. CASE ~(Len(seen) < MaxSeen)
      <4>1. seen # <<>>
        BY <3>1, <3>4, CommandsAssumption
      <4>2. /\ Tail(seen) \in Seq(Commands)
            /\ \A i \in 1..Len(Tail(seen)) : i + 1 \in 1..Len(seen) /\ Tail(seen)[i] = seen[i + 1]
        BY <3>1, <4>1, Shortened
      <4> DEFINE t == Tail(seen)
      <4>3. Elements(t) \subseteq Elements(seen)
        BY <3>1, <4>2 DEF Elements
      <4>4. t \in Seq(Commands)
        BY <4>2
      <4> HIDE DEF t
      <4>5. Elements(Append(t, d)) = Elements(t) \cup {d}
        BY <1>1, <4>4, Appended
      <4>6. seen' = Append(t, d)
        BY <3>1, <3>4 DEF Remember, t
      <4> QED BY <1>0, <2>2, <4>3, <4>5, <4>6 DEF ReceiveNew
    <3> QED BY <3>3, <3>4
  <2> QED BY <2>1, <2>2
<1>5. ASSUME NEW c \in Commands \ {d}
      PROVE  /\ handled'[c] = 0 =>
                /\ writes'[c] = 0 /\ doing' # c /\ c \notin Elements(seen')
                /\ \A i \in 1..Len(replies') : replies'[i][1] # c
             /\ handled'[c] = 1 => doing' # c /\ (OnItsWay(c)' \/ Arrived(c)')
  <2>1. handled'[c] = handled[c] /\ doing # c /\ doing' # c
    BY <1>1, <1>4
  <2>2. ASSUME handled[c] = 0, NEW i \in 1..Len(replies') PROVE replies'[i][1] # c
    <3>1. /\ Len(replies) \in Nat /\ Len(replies') = Len(replies) + 1
          /\ replies'[Len(replies) + 1] = <<d, status>>
          /\ \A k \in 1..Len(replies) : replies'[k] = replies[k]
      BY <1>1, <1>3, ReplyFacts
    <3>2. \A k \in 1..Len(replies) : replies[k][1] # c
      BY <2>2 DEF OutcomeOK
    <3>3. CASE i = Len(replies) + 1
      BY <1>5, <3>1, <3>3
    <3>4. CASE i # Len(replies) + 1
      <4>1. i \in 1..Len(replies)
        BY <3>1, <3>4
      <4> QED BY <3>1, <3>2, <4>1
    <3> QED BY <3>3, <3>4
  <2>3. handled[c] = 1 => OnItsWay(c)' \/ Arrived(c)'
    BY <1>1, <1>3, <2>1, OtherReply DEF OutcomeOK
  <2> QED BY <1>1, <1>4, <2>1, <2>2, <2>3 DEF OutcomeOK
<1>6. handled'[d] # 0
  BY <1>1
<1>7. ASSUME handled'[d] = 1 PROVE IF doing' = d THEN writes'[d] = 0 ELSE OnItsWay(d)' \/ Arrived(d)'
  <2>1. handled[d] = 0
    BY <1>1, <1>7
  <2>2. writes[d] = 0 /\ d \notin Elements(seen)
    BY <1>1, <2>1 DEF OutcomeOK
  <2>3. CASE ReceiveNew
    BY <1>0, <1>1, <2>2, <2>3 DEF ReceiveNew
  <2>4. CASE ReceiveExpired
    <3>1. Reply(d, "Expired") /\ doing' # d
      BY <1>0, <1>1, <2>4 DEF ReceiveExpired
    <3>2. Outcome(d, "Expired")'
      BY <1>1, <2>2 DEF Outcome
    <3> QED BY <1>1, <3>1, <3>2, LastReply DEF Statuses
  <2> QED BY <1>0, <2>2, <2>3, <2>4 DEF ReceiveDuplicate
<1>8. Elements(seen)' = Elements(seen')
  BY DEF Elements
<1> QED BY <1>1, <1>2, <1>5, <1>6, <1>7, <1>8 DEF OutcomeOK

LEMMA ExecuteStep ==
    ASSUME TypeOK, OutcomeOK, Execute \/ ExecuteFails
    PROVE  OutcomeOK'
<1> USE DEF centralVars, loopVars, replyVars, ghosts
<1>0. PICK d \in Commands : d = doing
  BY DEF Execute, ExecuteFails, TypeOK
<1>1. /\ doing' = None /\ None \notin Commands
      /\ writes \in [Commands -> Nat]
      /\ writes' = writes \/ writes' = [writes EXCEPT ![d] = @ + 1]
      /\ UNCHANGED <<ack, central, outbox, inbox, seen, handled, breaks>>
  BY <1>0 DEF Execute, ExecuteFails, TypeOK, None, Commands
<1> SUFFICES ASSUME breaks = 0 PROVE OutcomeOK'
  BY <1>1 DEF OutcomeOK
<1>2. PICK status \in {"Executed", "Failed"} :
        /\ Reply(d, status)
        /\ status = "Executed" => writes' = [writes EXCEPT ![d] = @ + 1]
  BY <1>0 DEF Execute, ExecuteFails
<1>3. status \in Statuses
  BY DEF Statuses
<1>4. handled[d] # 0
  BY <1>0 DEF OutcomeOK
<1>5. ASSUME handled[d] = 1 PROVE OnItsWay(d)'
  <2>1. writes[d] = 0
    BY <1>0, <1>5 DEF OutcomeOK
  <2>2. writes'[d] <= 1 /\ (status = "Executed" => writes'[d] = 1)
    BY <1>1, <1>2, <2>1
  <2>3. Outcome(d, status)'
    BY <1>2, <2>2 DEF Outcome
  <2> QED BY <1>2, <1>3, <2>3, LastReply
<1>6. ASSUME NEW c \in Commands \ {d}
      PROVE  /\ writes'[c] = writes[c]
             /\ handled[c] = 0 => \A i \in 1..Len(replies') : replies'[i][1] # c
             /\ handled[c] = 1 => OnItsWay(c)' \/ Arrived(c)'
  <2>1. writes'[c] = writes[c]
    BY <1>1
  <2>2. ASSUME handled[c] = 0, NEW i \in 1..Len(replies') PROVE replies'[i][1] # c
    <3>1. /\ Len(replies) \in Nat /\ Len(replies') = Len(replies) + 1
          /\ replies'[Len(replies) + 1] = <<d, status>>
          /\ \A k \in 1..Len(replies) : replies'[k] = replies[k]
      BY <1>1, <1>2, <1>3, ReplyFacts
    <3>2. \A k \in 1..Len(replies) : replies[k][1] # c
      BY <2>2 DEF OutcomeOK
    <3>3. CASE i = Len(replies) + 1
      BY <1>6, <3>1, <3>3
    <3>4. CASE i # Len(replies) + 1
      <4>1. i \in 1..Len(replies)
        BY <3>1, <3>4
      <4> QED BY <3>1, <3>2, <4>1
    <3> QED BY <3>3, <3>4
  <2>3. handled[c] = 1 => OnItsWay(c)' \/ Arrived(c)'
    BY <1>0, <1>1, <1>2, <1>3, <2>1, OtherReply DEF OutcomeOK
  <2> QED BY <2>1, <2>2, <2>3
<1>7. central = "connected"
  BY <1>0, <1>1 DEF OutcomeOK
<1> QED BY <1>0, <1>1, <1>4, <1>5, <1>6, <1>7 DEF OutcomeOK, Elements

(* Positions in a queue that lost k of its first messages. *)
LEMMA Shifted ==
    ASSUME NEW n \in Nat, NEW m \in Nat, NEW a \in Nat, NEW b \in Nat, NEW k \in 0..1,
           m = n - k, b + k = a + 1
    PROVE  /\ \A i \in (b + 1)..m : i + k \in (a + 2)..n /\ i \in 1..m
           /\ \A i \in (a + 2)..n : i - k \in (b + 1)..m /\ (i - k) + k = i /\ i - k \in 1..m
           /\ \A i \in (a + 2)..n : \A j \in (i - k + 1)..m : j \in (b + 1)..m /\ j + k \in (i + 1)..n
  OBVIOUS

LEMMA DeliverStep ==
    ASSUME TypeOK, OutcomeOK, DeliverReply
    PROVE  OutcomeOK'
<1> USE DEF centralVars, loopVars, ghosts
<1>1. /\ UNCHANGED <<pending, central, outbox, inbox, doing, seen, writes, handled, breaks>>
      /\ Send(replies, told, replies', told')
      /\ replies \in Seq(Commands \X Statuses) /\ told \in 0..Len(replies)
      /\ Len(replies) \in Nat /\ told + 1 \in 1..Len(replies) /\ replies # <<>>
      /\ ack \in [Commands -> Statuses \cup {"none"}]
  <2>1. Send(replies, told, replies', told') /\ replies \in Seq(Commands \X Statuses) /\ told \in 0..Len(replies)
    BY DEF DeliverReply, TypeOK
  <2>2. replies # <<>> /\ told + 1 \in 1..Len(replies)
    BY <2>1, Sent
  <2>3. UNCHANGED <<pending, central, outbox, inbox, doing, seen, writes, handled, breaks>>
    BY DEF DeliverReply
  <2>4. Len(replies) \in Nat /\ ack \in [Commands -> Statuses \cup {"none"}]
    BY <2>1 DEF TypeOK
  <2> QED BY <2>1, <2>2, <2>3, <2>4
<1> SUFFICES ASSUME breaks = 0 PROVE OutcomeOK'
  BY <1>1 DEF OutcomeOK
(* Either way the answers that are left are those from told + 2 on. *)
<1>2. PICK k \in 0..1 :
        /\ Len(replies') = Len(replies) - k
        /\ told' + k = told + 1 /\ told' \in Nat
        /\ \A i \in 1..Len(replies') : i + k \in 1..Len(replies) /\ replies'[i] = replies[i + k]
  <2>1. CASE told = 0 /\ told' = 0 /\ replies' = Tail(replies)
    <3>1. /\ Len(replies') = Len(replies) - 1
          /\ \A i \in 1..Len(replies') : i + 1 \in 1..Len(replies) /\ replies'[i] = replies[i + 1]
      BY <1>1, <2>1, Shortened
    <3> QED BY <2>1, <3>1
  <2>2. CASE told' = told + 1 /\ replies' = replies
    BY <1>1, <2>2
  <2> QED BY <1>1, <2>1, <2>2 DEF Send
<1>3. ASSUME NEW c \in Commands, handled[c] = 0, NEW i \in 1..Len(replies') PROVE replies'[i][1] # c
  BY <1>2, <1>3 DEF OutcomeOK
<1>4. central = "connected"
  BY <1>1 DEF OutcomeOK
<1>5. /\ \A i \in (told' + 1)..Len(replies') :
            i + k \in (told + 2)..Len(replies) /\ i \in 1..Len(replies')
      /\ \A i \in (told + 2)..Len(replies) :
            i - k \in (told' + 1)..Len(replies') /\ (i - k) + k = i /\ i - k \in 1..Len(replies')
      /\ \A i \in (told + 2)..Len(replies) : \A j \in (i - k + 1)..Len(replies') :
            j \in (told' + 1)..Len(replies') /\ j + k \in (i + 1)..Len(replies)
  <2>1. told \in Nat /\ told' \in Nat /\ Len(replies) \in Nat /\ Len(replies') \in Nat
    BY <1>1, <1>2
  <2>2. Len(replies') = Len(replies) - k /\ told' + k = told + 1
    BY <1>2
  <2> DEFINE n == Len(replies)
             m == Len(replies')
             b == told'
  <2> HIDE DEF n, m, b
  <2>3. n \in Nat /\ m \in Nat /\ b \in Nat /\ m = n - k /\ b + k = told + 1
    BY <2>1, <2>2 DEF n, m, b
  <2> QED BY <2>1, <2>3, Shifted DEF n, m, b
<1>6. ASSUME NEW i \in (told' + 1)..Len(replies')
      PROVE  i + k \in (told + 2)..Len(replies) /\ replies'[i] = replies[i + k]
  <2>1. i \in 1..Len(replies') /\ i + k \in (told + 2)..Len(replies)
    BY <1>5
  <2> QED BY <1>2, <2>1
<1>7. ack' = [ack EXCEPT ![replies[told + 1][1]] = replies[told + 1][2]]
  BY <1>4 DEF DeliverReply
<1>8. ASSUME NEW c \in Commands, OnItsWay(c) \/ Arrived(c) PROVE OnItsWay(c)' \/ Arrived(c)'
  <2>1. CASE OnItsWay(c)
    <3>1. PICK i \in (told + 1)..Len(replies) :
              /\ replies[i][1] = c
              /\ Outcome(c, replies[i][2])
              /\ \A j \in (i + 1)..Len(replies) : replies[j][1] # c
      BY <2>1 DEF OnItsWay
    <3>2. CASE i = told + 1
      <4>1. ack'[c] = replies[i][2]
        BY <1>1, <1>7, <3>1, <3>2
      <4>2. ASSUME NEW j \in (told' + 1)..Len(replies') PROVE replies'[j][1] # c
        <5>1. j + k \in (i + 1)..Len(replies) /\ replies'[j] = replies[j + k]
          BY <1>1, <1>6, <3>2
        <5> QED BY <3>1, <5>1
      <4> QED BY <1>1, <3>1, <4>1, <4>2 DEF Arrived, Outcome
    <3>3. CASE i # told + 1
      <4>1. i - k \in (told' + 1)..Len(replies') /\ i - k \in 1..Len(replies')
            /\ replies'[i - k] = replies[i]
        <5>1. i \in (told + 2)..Len(replies)
          BY <1>1, <3>3
        <5>2. i - k \in (told' + 1)..Len(replies') /\ (i - k) + k = i /\ i - k \in 1..Len(replies')
          BY <1>5, <5>1
        <5> QED BY <1>6, <5>2
      <4>2. ASSUME NEW j \in (i - k + 1)..Len(replies') PROVE replies'[j][1] # c
        <5>0. i \in (told + 2)..Len(replies)
          BY <1>1, <3>3
        <5>1. j \in (told' + 1)..Len(replies') /\ j + k \in (i + 1)..Len(replies)
          BY <1>5, <5>0
        <5> QED BY <1>6, <3>1, <5>1
      <4> QED BY <1>1, <3>1, <4>1, <4>2 DEF OnItsWay, Outcome
    <3> QED BY <3>2, <3>3
  <2>2. CASE Arrived(c)
    <3>1. replies[told + 1][1] # c
      BY <1>1, <2>2 DEF Arrived
    <3>2. ack'[c] = ack[c]
      BY <1>1, <1>7, <3>1
    <3>3. ASSUME NEW i \in (told' + 1)..Len(replies') PROVE replies'[i][1] # c
      <4>1. i + k \in (told + 1)..Len(replies)
        BY <1>1, <1>6
      <4> QED BY <1>6, <2>2, <4>1 DEF Arrived
    <3> QED BY <1>1, <2>2, <3>2, <3>3 DEF Arrived, Outcome
  <2> QED BY <1>8, <2>1, <2>2
<1> QED BY <1>1, <1>3, <1>4, <1>8 DEF OutcomeOK, Elements

LEMMA OutcomeStep == TypeOK /\ OutcomeOK /\ Next => OutcomeOK'
<1> SUFFICES ASSUME TypeOK, OutcomeOK, Next PROVE OutcomeOK'
  OBVIOUS
<1> USE DEF centralVars, loopVars, replyVars, ghosts
<1>1. ASSUME NEW c \in Commands, Issue(c) \/ Expire(c) PROVE OutcomeOK'
  BY <1>1, OutcomeKept DEF Issue, Expire, OutcomeOK
<1>2. CASE Forward
  <2>1. outbox # <<>>
    BY <1>2, Sent DEF Forward, TypeOK
  <2> QED BY <1>2, <2>1, OutcomeKept DEF Forward, OutcomeOK
<1>3. CASE ConnectCentral \/ ConnectEdge
  BY <1>3, OutcomeKept DEF ConnectCentral, ConnectEdge, OutcomeOK
<1>4. CASE CentralBreak \/ CentralCrash \/ EdgeBreak \/ LoopPanics \/ EdgeCrash
  BY <1>4, BreaksCounted DEF CentralBreak, CentralCrash, EdgeBreak, LoopPanics, EdgeCrash, OutcomeOK
<1> QED BY <1>1, <1>2, <1>3, <1>4, TakeStep, ExecuteStep, DeliverStep DEF Next, Handle
------------------------------------------------------------------------------
LEMMA Inductive == IInv /\ [Next]_vars => IInv'
<1> SUFFICES ASSUME IInv, [Next]_vars PROVE IInv'
  OBVIOUS
<1>1. CASE Next
  BY <1>1, CentralTyped, EdgeTyped, DedupStep, ReportsStep, OutcomeStep DEF IInv, Next
<1>2. CASE UNCHANGED vars
  <2>1. UNCHANGED <<writes, forgot, seen, doing, replies, told, ack, central, outbox, inbox,
                    handled, breaks>>
    BY <1>2 DEF vars, centralVars, loopVars, replyVars, ghosts
  <2>2. OutcomeOK'
    BY <2>1, OutcomeKept DEF IInv, OutcomeOK
  <2> QED BY <1>2, <2>1, <2>2, TypeKept, DedupKept, ReportsKept DEF IInv
<1> QED BY <1>1, <1>2

LEMMA Invariant == Spec => []IInv
  BY Initially, Inductive, PTL DEF Spec

(* The state of both sides and of the queues between them has its type for *)
(* any number of commands, subscriptions and breaks, and the deduper never *)
(* holds more than MaxSeen ids.                                            *)
THEOREM TypeCorrect == Spec => []TypeOK
<1>1. IInv => TypeOK
  BY DEF IInv
<1> QED BY <1>1, Invariant, PTL

(* A command is written to the device at most once, however often the      *)
(* broker delivers it, unless the deduper lost its id.                     *)
THEOREM WrittenOnceSafe == Spec => []WrittenOnce
<1>1. IInv => WrittenOnce
  <2> SUFFICES ASSUME IInv, NEW c \in Commands, writes[c] > 1 PROVE c \in forgot
    BY DEF WrittenOnce
  <2>1. writes[c] \in Nat
    BY DEF IInv, TypeOK
  <2>2. ~(writes[c] <= 1)
    BY <2>1
  <2> QED BY <2>2 DEF IInv, DedupOK
<1> QED BY <1>1, Invariant, PTL

(* What central shows as executed was written to the device. *)
THEOREM ExecutedSafe == Spec => []ExecutedIsTrue
<1>1. IInv => ExecutedIsTrue
  BY DEF IInv, ReportsOK, ExecutedIsTrue
<1> QED BY <1>1, Invariant, PTL

(* When nothing broke and the answers have arrived, what central shows of  *)
(* a command handled once is what became of it.                            *)
THEOREM OutcomeSafe == Spec => []AnswerIsOutcome
<1>1. IInv => AnswerIsOutcome
  <2> SUFFICES ASSUME IInv, NEW c \in Commands,
                      handled[c] = 1, Drained(c), breaks = 0
               PROVE  Outcome(c, ack[c])
    BY DEF AnswerIsOutcome, Outcome
  <2>1. OnItsWay(c) \/ Arrived(c)
    BY DEF IInv, OutcomeOK, Drained
  <2>2. ASSUME OnItsWay(c) PROVE FALSE
    <3>1. PICK i \in (told + 1)..Len(replies) : replies[i][1] = c
      BY <2>2 DEF OnItsWay
    <3>2. told \in 0..Len(replies) /\ DOMAIN replies = 1..Len(replies) /\ Len(replies) \in Nat
      BY DEF IInv, TypeOK
    <3>3. i \in DOMAIN replies /\ ~(i <= told)
      BY <3>1, <3>2
    <3> QED BY <3>1, <3>3 DEF Drained
  <2> QED BY <2>1, <2>2 DEF Arrived
<1> QED BY <1>1, Invariant, PTL
=============================================================================
