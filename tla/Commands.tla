------------------------------- MODULE Commands -------------------------------
(***************************************************************************)
(* Commands from central to a device behind the fieldbus, and the          *)
(* acknowledgements back (routes.rs and ingest.rs of central,              *)
(* mqtt_bridge.rs of the fieldbus, client.rs between each and the broker). *)
(*                                                                         *)
(* An operator's request stores the command as pending and publishes it.   *)
(* The fieldbus handles one delivered command at a time: an expired or     *)
(* repeated one is answered at once, a new one is remembered, accepted,    *)
(* written to the device and reported.  Central keeps the last answer.     *)
(*                                                                         *)
(* Both sides publish at least once: what the broker has not confirmed is  *)
(* sent again after a break.  Both subscribe when they connect, and not    *)
(* again when the client library reconnects, which leaves them deaf.       *)
(***************************************************************************)
EXTENDS Naturals, Sequences, FiniteSets

CONSTANTS
    NumCommands,    \* commands, numbered in the order of their requests
    MaxSeen,        \* ids the deduper remembers
    Subscriptions,  \* subscriptions of the fieldbus that match a command
    MaxBreaks       \* bound: broken connections, crashes and panics

Commands == 1..NumCommands

None == 0

ASSUME CommandsAssumption ==
    /\ NumCommands \in Nat
    /\ MaxSeen \in Nat \ {0}
    /\ Subscriptions \in Nat \ {0}
    /\ MaxBreaks \in Nat

VARIABLES
    pending,    \* pending[c]: where the request for command c is
    ack,        \* ack[c]: the last acknowledgement central has of c
    central,    \* central's connection
    outbox,     \* commands in central's client, oldest first
    sent,       \* how many of these the broker has and never confirms
    inbox,      \* commands on their way to the command loop
    edge,       \* the fieldbus's connection
    seen,       \* ids the deduper holds, oldest first
    doing,      \* the command being handled
    replies,    \* acknowledgements in the fieldbus's client, oldest first
    told,       \* how many of these the broker has and never confirms
    writes,     \* writes[c]: times the device was written for c
    expired,    \* commands past their expires_at
    handled,    \* handled[c]: copies of c that were taken from the inbox
    forgot,     \* ids the deduper has held and lost
    breaks

centralVars == <<pending, ack, central, outbox, sent>>
loopVars == <<seen, doing>>
replyVars == <<replies, told>>
ghosts == <<writes, handled, forgot>>
vars == <<centralVars, inbox, edge, loopVars, replyVars, ghosts, expired, breaks>>

Statuses == {"Accepted", "Rejected", "Executed", "Expired", "Failed"}

Links == {"starting", "connected", "deaf"}

TypeOK ==
    /\ pending \in [Commands -> {"none", "stored", "published", "gone"}]
    /\ ack \in [Commands -> Statuses \cup {"none"}]
    /\ central \in Links
    /\ outbox \in Seq(Commands)
    /\ sent \in 0..Len(outbox)
    /\ inbox \in Seq(Commands)
    /\ edge \in Links
    /\ seen \in Seq(Commands) /\ Len(seen) <= MaxSeen
    /\ doing \in Commands \cup {None}
    /\ replies \in Seq(Commands \X Statuses)
    /\ told \in 0..Len(replies)
    /\ writes \in [Commands -> Nat]
    /\ expired \subseteq Commands
    /\ handled \in [Commands -> Nat]
    /\ forgot \subseteq Commands
    /\ breaks \in 0..MaxBreaks

Init ==
    /\ pending = [c \in Commands |-> "none"]
    /\ ack = [c \in Commands |-> "none"]
    /\ central = "starting"
    /\ outbox = <<>>
    /\ sent = 0
    /\ inbox = <<>>
    /\ edge = "starting"
    /\ seen = <<>>
    /\ doing = None
    /\ replies = <<>>
    /\ told = 0
    /\ writes = [c \in Commands |-> 0]
    /\ expired = {}
    /\ handled = [c \in Commands |-> 0]
    /\ forgot = {}
    /\ breaks = 0

------------------------------------------------------------------------------
Elements(seq) == {seq[i] : i \in DOMAIN seq}

Copies(c, n) == [i \in 1..n |-> c]

Remember(c) ==
    IF Len(seen) < MaxSeen THEN Append(seen, c) ELSE Append(Tail(seen), c)

Reply(c, status) ==
    /\ replies' = Append(replies, <<c, status>>)
    /\ UNCHANGED told

Broken ==
    /\ breaks < MaxBreaks
    /\ breaks' = breaks + 1

------------------------------------------------------------------------------
(* Central *)

(* A request passes the checks; its command is stored, and published if    *)
(* there is a client.  If not, the command is left stored for ever.        *)
Issue(c) ==
    /\ pending[c] = "none"
    /\ \A d \in 1..(c - 1) : pending[d] # "none"
    /\ IF central = "starting"
       THEN /\ pending' = [pending EXCEPT ![c] = "stored"]
            /\ UNCHANGED outbox
       ELSE /\ pending' = [pending EXCEPT ![c] = "published"]
            /\ outbox' = Append(outbox, c)
    /\ UNCHANGED <<ack, central, sent, inbox, edge, loopVars, replyVars,
                   ghosts, expired, breaks>>

(* The broker gets the next message of a client's queue, of which it has   *)
(* the first n already.  It confirms in order: either this message is      *)
(* confirmed and leaves the queue, or this one and those after it are not  *)
(* before the connection breaks, and are sent again then.                  *)
Send(queue, n, queueNext, nNext) ==
    /\ n < Len(queue)
    /\ \/ n = 0 /\ nNext = 0 /\ queueNext = Tail(queue)
       \/ breaks < MaxBreaks /\ nNext = n + 1 /\ queueNext = queue

(* The broker hands a command to the fieldbus, once for each subscription  *)
(* that matches or once for all; without a session there is nobody to      *)
(* hand it to, and nobody to keep it for.                                  *)
Forward ==
    /\ Send(outbox, sent, outbox', sent')
    /\ IF edge = "connected"
       THEN \E n \in {1, Subscriptions} : inbox' = inbox \o Copies(outbox[sent + 1], n)
       ELSE UNCHANGED inbox
    /\ UNCHANGED <<pending, ack, central, edge, loopVars, replyVars,
                   ghosts, expired, breaks>>

(* handle_ack: the last answer replaces the one before. *)
DeliverReply ==
    /\ Send(replies, told, replies', told')
    /\ IF central = "connected"
       THEN ack' = [ack EXCEPT ![replies[told + 1][1]] = replies[told + 1][2]]
       ELSE UNCHANGED ack
    /\ UNCHANGED <<pending, central, outbox, sent, inbox, edge, loopVars,
                   ghosts, expired, breaks>>

ConnectCentral ==
    /\ central = "starting"
    /\ central' = "connected"
    /\ UNCHANGED <<pending, ack, outbox, sent, inbox, edge, loopVars, replyVars,
                   ghosts, expired, breaks>>

(* The client reconnects by itself and sends again what the broker, which  *)
(* confirms in order, has not confirmed; but the subscriptions are gone    *)
(* with the session.                                                       *)
CentralBreak ==
    /\ central # "starting"
    /\ Broken
    /\ central' = "deaf"
    /\ sent' = 0
    /\ UNCHANGED <<pending, ack, outbox, inbox, edge, loopVars, replyVars,
                   ghosts, expired>>

CentralCrash ==
    /\ Broken
    /\ pending' = [c \in Commands |-> IF pending[c] = "none" THEN "none" ELSE "gone"]
    /\ ack' = [c \in Commands |-> "none"]
    /\ central' = "starting"
    /\ outbox' = <<>>
    /\ sent' = 0
    /\ UNCHANGED <<inbox, edge, loopVars, replyVars, ghosts, expired>>

------------------------------------------------------------------------------
(* Fieldbus *)

Take ==
    /\ doing = None
    /\ inbox # <<>>
    /\ inbox' = Tail(inbox)
    /\ handled' = [handled EXCEPT ![Head(inbox)] = @ + 1]

(* Mutant of ReceiveExpired: an expired command is dropped. *)
ReceiveExpiredSilently ==
    /\ Take
    /\ Head(inbox) \in expired
    /\ UNCHANGED <<centralVars, edge, loopVars, replyVars, writes, forgot, expired, breaks>>

(* Expiry comes before the deduper, which does not see the command. *)
ReceiveExpired ==
    /\ Take
    /\ Head(inbox) \in expired
    /\ Reply(Head(inbox), "Expired")
    /\ UNCHANGED <<centralVars, edge, loopVars, writes, forgot, expired, breaks>>

ReceiveDuplicate ==
    /\ Take
    /\ Head(inbox) \notin expired
    /\ Head(inbox) \in Elements(seen)
    /\ Reply(Head(inbox), "Rejected")
    /\ UNCHANGED <<centralVars, edge, loopVars, writes, forgot, expired, breaks>>

(* Mutant of ReceiveNew: ids are remembered and never looked up. *)
ReceiveNewAnyway ==
    /\ Take
    /\ Head(inbox) \notin expired
    /\ seen' = Remember(Head(inbox))
    /\ forgot' = forgot \cup (Elements(seen) \ Elements(seen'))
    /\ doing' = Head(inbox)
    /\ Reply(Head(inbox), "Accepted")
    /\ UNCHANGED <<centralVars, edge, writes, expired, breaks>>

(* The command is remembered and accepted; the write comes next. *)
ReceiveNew ==
    /\ Take
    /\ Head(inbox) \notin expired
    /\ Head(inbox) \notin Elements(seen)
    /\ seen' = Remember(Head(inbox))
    /\ forgot' = forgot \cup (Elements(seen) \ Elements(seen'))
    /\ doing' = Head(inbox)
    /\ Reply(Head(inbox), "Accepted")
    /\ UNCHANGED <<centralVars, edge, writes, expired, breaks>>

(* The device is written, whatever the time is by now, and the answer      *)
(* queued.  A crash in between is one before the answer leaves the client. *)
Execute ==
    /\ doing # None
    /\ writes' = [writes EXCEPT ![doing] = @ + 1]
    /\ Reply(doing, "Executed")
    /\ doing' = None
    /\ UNCHANGED <<centralVars, inbox, edge, seen, handled, forgot, expired, breaks>>

(* Mutant of ExecuteFails: the result of the write is not looked at. *)
ExecuteFailsUnnoticed ==
    /\ doing # None
    /\ Reply(doing, "Executed")
    /\ doing' = None
    /\ UNCHANGED <<centralVars, inbox, edge, seen, ghosts, expired, breaks>>

(* Mutant of ExecuteFails: a failure is logged and not reported. *)
ExecuteFailsUnreported ==
    /\ doing # None
    /\ doing' = None
    /\ UNCHANGED <<centralVars, inbox, edge, seen, replyVars, ghosts, expired, breaks>>

(* The target or the value is refused, the device does not answer, or its  *)
(* answer is lost though it wrote.                                         *)
ExecuteFails ==
    /\ doing # None
    /\ \/ UNCHANGED writes
       \/ writes' = [writes EXCEPT ![doing] = @ + 1]
    /\ Reply(doing, "Failed")
    /\ doing' = None
    /\ UNCHANGED <<centralVars, inbox, edge, seen, handled, forgot, expired, breaks>>

(* The bridge has telemetry to send and no session: it connects,           *)
(* subscribes and starts a command loop.                                   *)
ConnectEdge ==
    /\ edge = "starting"
    /\ edge' = "connected"
    /\ UNCHANGED <<centralVars, inbox, loopVars, replyVars, ghosts, expired, breaks>>

(* Commands the broker still had for the session are gone with it. *)
EdgeBreak ==
    /\ edge # "starting"
    /\ Broken
    /\ edge' = "deaf"
    /\ \E n \in 0..Len(inbox) : inbox' = SubSeq(inbox, 1, n)
    /\ told' = 0
    /\ UNCHANGED <<centralVars, loopVars, replies, ghosts, expired>>

(* What is left of a session whose command loop ended. *)
EndSession ==
    /\ edge' = "starting"
    /\ inbox' = <<>>
    /\ doing' = None
    /\ replies' = <<>>
    /\ told' = 0

(* A panic, before or in the write, ends the command loop and with it the  *)
(* client; the bridge's next publication fails, and it replaces the        *)
(* session.  The deduper outlives the session.                             *)
LoopPanics ==
    /\ doing # None
    /\ Broken
    /\ EndSession
    /\ UNCHANGED <<centralVars, seen, ghosts, expired>>

EdgeCrash ==
    /\ Broken
    /\ EndSession
    /\ seen' = <<>>
    /\ forgot' = forgot \cup Elements(seen)
    /\ UNCHANGED <<centralVars, writes, handled, expired>>

(* The clock passes the expires_at of a command that is on its way; for    *)
(* any other it makes no difference.                                       *)
Expire(c) ==
    /\ c \in Elements(outbox) \cup Elements(inbox)
    /\ c \notin expired
    /\ expired' = expired \cup {c}
    /\ UNCHANGED <<centralVars, inbox, edge, loopVars, replyVars, ghosts, breaks>>

Handle ==
    \/ ReceiveExpired \/ ReceiveDuplicate \/ ReceiveNew \/ Execute \/ ExecuteFails

Next ==
    \/ \E c \in Commands : Issue(c) \/ Expire(c)
    \/ Forward \/ DeliverReply
    \/ ConnectCentral \/ CentralBreak \/ CentralCrash
    \/ Handle
    \/ ConnectEdge \/ EdgeBreak \/ LoopPanics \/ EdgeCrash

Spec == Init /\ [][Next]_vars

(* The command loop goes on while there are commands, a write returns or   *)
(* times out, and the clients send what they hold.                         *)
Fairness ==
    /\ WF_vars(Handle)
    /\ WF_vars(DeliverReply)
    /\ WF_vars(ConnectCentral)

FairSpec == Spec /\ Fairness
------------------------------------------------------------------------------
(* Properties                                                              *)

(* A command is written to the device at most once, however often it is    *)
(* delivered, unless the deduper has lost its id: to a restart of the      *)
(* fieldbus, or to MaxSeen later commands.                                 *)
WrittenOnce == \A c \in Commands : writes[c] > 1 => c \in forgot

(* What central shows as executed was written, whatever broke on the way. *)
ExecutedIsTrue == \A c \in Commands : ack[c] = "Executed" => writes[c] > 0

Drained(c) ==
    /\ doing # c
    /\ c \notin Elements(inbox)
    /\ \A i \in DOMAIN replies : replies[i][1] = c => i <= told

(* Once a command that was delivered once has been handled and its answers *)
(* have arrived, central shows its outcome: a write as executed or failed, *)
(* no write as failed or expired.                                          *)
AnswerIsOutcome ==
    \A c \in Commands :
        (handled[c] = 1 /\ Drained(c) /\ breaks = 0 /\ central = "connected") =>
            \/ ack[c] = "Executed" /\ writes[c] = 1
            \/ ack[c] = "Failed" /\ writes[c] <= 1
            \/ ack[c] = "Expired" /\ writes[c] = 0

(* A command that reaches the fieldbus is answered, as long as nothing     *)
(* breaks and central is listening.                                        *)
ArrivedIsAnswered ==
    \A c \in Commands :
        (c \in Elements(inbox) /\ central = "connected") ~>
            (ack[c] # "none" \/ breaks > 0)
=============================================================================
