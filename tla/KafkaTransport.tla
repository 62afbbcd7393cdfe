--------------------------- MODULE KafkaTransport ---------------------------
(***************************************************************************)
(* Events delivered through Kafka: the relay that publishes the outbox, one  *)
(* topic and its retry topic, and the consumer groups of the topic, each     *)
(* with a consumer on either.                                                *)
(*                                                                           *)
(* A consumer takes the record at its committed offset through the inbox     *)
(* pre-check, the handler and the inbox marker, or to the retry topic or the *)
(* dead letters, and commits the offset last: whatever dies before that is   *)
(* done again.  The retry topic belongs to the topic, not to the group that  *)
(* failed, so every group consumes every retry.  Decoding and the pre-check  *)
(* are outside the try: what they throw is neither retried through the retry *)
(* topic nor dead-lettered, and the consumer stays at the record.            *)
(***************************************************************************)
EXTENDS Naturals, Sequences, FiniteSets

CONSTANTS
  NumMessages,  \* outbox rows, in the order they were written
  Undecodable,  \* the messages no consumer can decode
  BatchSize,    \* rows the relay takes in one pass (100 in the code)
  Groups,       \* consumer groups of the topic
  Atomic,       \* groups whose handler writes its marker in its own transaction
  MaxAttempts,  \* retries before the dead letter (5 in the code)
  MaxCrashes    \* bound on crashes and failed inbox look-ups

ASSUME KafkaAssumption ==
  /\ NumMessages \in Nat /\ BatchSize \in Nat \ {0} /\ Atomic \subseteq Groups
  /\ Undecodable \subseteq 1..NumMessages
  /\ MaxAttempts \in Nat /\ MaxCrashes \in Nat

Messages == 1..NumMessages

Topics == {"main", "retry"}

VARIABLES
  outbox,    \* [Messages -> pending, published]
  batch,     \* the rows the relay has published and not yet marked
  topic,     \* [Topics -> sequence of records]
  offset,    \* [Groups \X Topics -> records committed]
  step,      \* [Groups \X Topics -> where the consumer is with the next record]
  inbox,     \* [Groups -> messages marked processed]
  effects,   \* [Groups -> [Messages -> how often the handler took effect]]
  dead,      \* [Groups -> messages with a dead-letter row]
  crashes    \* how many crashes and failed look-ups there were

vars == <<outbox, batch, topic, offset, step, inbox, effects, dead, crashes>>

relay == <<outbox, batch>>

Consumers == Groups \X Topics

Record == [message: Messages, attempt: 0..MaxAttempts]

Init ==
  /\ outbox = [m \in Messages |-> "pending"]
  /\ batch = {}
  /\ topic = [t \in Topics |-> <<>>]
  /\ offset = [c \in Consumers |-> 0]
  /\ step = [c \in Consumers |-> "idle"]
  /\ inbox = [g \in Groups |-> {}]
  /\ effects = [g \in Groups |-> [m \in Messages |-> 0]]
  /\ dead = [g \in Groups |-> {}]
  /\ crashes = 0

CountCrash == crashes < MaxCrashes /\ crashes' = crashes + 1

-----------------------------------------------------------------------------
(* OutboxRelay.drainOnce: publish the pending rows, then mark them.          *)

Pending == {m \in Messages : outbox[m] = "pending"}

\* fetchPending: the oldest pending rows, at most BatchSize of those written by
\* now (the later ones may not be there yet).
Fetchable ==
  {rows \in SUBSET Pending :
     /\ rows # {} /\ Cardinality(rows) <= BatchSize
     /\ \A m \in rows, n \in Pending \ rows : m < n}

\* The rows of a batch, oldest first.
Ordered(rows) ==
  {s \in [1..Cardinality(rows) -> rows] : \A j, k \in DOMAIN s : j < k => s[j] < s[k]}

Publish ==
  /\ batch = {}
  /\ \E rows \in Fetchable : \E s \in Ordered(rows) :
       /\ batch' = rows
       /\ topic' = [topic EXCEPT !["main"] =
                      @ \o [k \in 1..Cardinality(rows) |-> [message |-> s[k], attempt |-> 0]]]
  /\ UNCHANGED <<outbox, offset, step, inbox, effects, dead, crashes>>

MarkPublished ==
  /\ batch # {}
  /\ outbox' = [m \in Messages |-> IF m \in batch THEN "published" ELSE outbox[m]]
  /\ batch' = {}
  /\ UNCHANGED <<topic, offset, step, inbox, effects, dead, crashes>>

RelayCrash ==
  /\ batch # {} /\ CountCrash
  /\ batch' = {}
  /\ UNCHANGED <<outbox, topic, offset, step, inbox, effects, dead>>

-----------------------------------------------------------------------------
(* KafkaConsumerRuntime.handleMessage, by the consumer c = <<group, topic>>.  *)

Waiting(c) == offset[c] < Len(topic[c[2]])

Rec(c) == topic[c[2]][offset[c] + 1]

Msg(c) == Rec(c).message

At(c, s) == step[c] = s

Goto(c, s) == step' = [step EXCEPT ![c] = s]

\* kafkajs commits the offset once handleMessage has returned.
Commit(c) ==
  /\ At(c, "done")
  /\ offset' = [offset EXCEPT ![c] = @ + 1]
  /\ Goto(c, "idle")
  /\ UNCHANGED <<relay, topic, inbox, effects, dead, crashes>>

\* Mutant: the record is claimed in the inbox before it is handled.
CheckInboxClaiming(c) ==
  /\ At(c, "idle") /\ Waiting(c) /\ Msg(c) \notin Undecodable
  /\ Goto(c, IF Msg(c) \in inbox[c[1]] THEN "done" ELSE "checked")
  /\ inbox' = [inbox EXCEPT ![c[1]] = @ \cup {Msg(c)}]
  /\ UNCHANGED <<relay, topic, offset, effects, dead, crashes>>

\* The record is received (a retry once it is due), decoded and looked up in the
\* inbox.  A record that cannot be decoded throws out of handleMessage each time
\* kafkajs delivers it, and nothing changes: the consumer stays at its offset.
CheckInbox(c) ==
  /\ At(c, "idle") /\ Waiting(c) /\ Msg(c) \notin Undecodable
  /\ Goto(c, IF Msg(c) \in inbox[c[1]] THEN "done" ELSE "checked")
  /\ UNCHANGED <<relay, topic, offset, inbox, effects, dead, crashes>>

\* The inbox cannot be asked: this too throws out of handleMessage, and the record
\* is delivered again.
LookupFails(c) ==
  /\ At(c, "idle") /\ Waiting(c) /\ Msg(c) \notin Undecodable
  /\ CountCrash
  /\ UNCHANGED <<relay, topic, offset, step, inbox, effects, dead>>

Effect(c) == effects' = [effects EXCEPT ![c[1]][Msg(c)] = @ + 1]

Mark(c) == inbox' = [inbox EXCEPT ![c[1]] = @ \cup {Msg(c)}]

\* Mutant: recordIfNew's answer is ignored.
HandleAtomicUnchecked(c) ==
  /\ c[1] \in Atomic /\ At(c, "checked")
  /\ Effect(c) /\ Mark(c)
  /\ Goto(c, "done")
  /\ UNCHANGED <<relay, topic, offset, dead, crashes>>

\* One transaction: the marker that exists already rolls the effect back.
HandleAtomic(c) ==
  /\ c[1] \in Atomic /\ At(c, "checked")
  /\ IF Msg(c) \in inbox[c[1]] THEN UNCHANGED <<inbox, effects>> ELSE Effect(c) /\ Mark(c)
  /\ Goto(c, "done")
  /\ UNCHANGED <<relay, topic, offset, dead, crashes>>

Handle(c) ==
  /\ c[1] \notin Atomic /\ At(c, "checked")
  /\ Effect(c)
  /\ Goto(c, "handled")
  /\ UNCHANGED <<relay, topic, offset, inbox, dead, crashes>>

RecordIfNew(c) ==
  /\ At(c, "handled")
  /\ Mark(c)
  /\ Goto(c, "done")
  /\ UNCHANGED <<relay, topic, offset, effects, dead, crashes>>

\* The handler, its transaction or the marker fails.
Fail(c) ==
  /\ step[c] \in {"checked", "handled"}
  /\ Goto(c, "failed")
  /\ UNCHANGED <<relay, topic, offset, inbox, effects, dead, crashes>>

NextAttempt(c) == Rec(c).attempt + 1

\* Mutant: one retry too many.
ScheduleRetryLate(c) ==
  /\ At(c, "failed") /\ NextAttempt(c) <= MaxAttempts + 1
  /\ topic' = [topic EXCEPT !["retry"] =
                 Append(@, [message |-> Msg(c), attempt |-> NextAttempt(c)])]
  /\ Goto(c, "done")
  /\ UNCHANGED <<relay, offset, inbox, effects, dead, crashes>>

\* scheduleRetryOrDeadLetter
ScheduleRetry(c) ==
  /\ At(c, "failed") /\ NextAttempt(c) <= MaxAttempts
  /\ topic' = [topic EXCEPT !["retry"] =
                 Append(@, [message |-> Msg(c), attempt |-> NextAttempt(c)])]
  /\ Goto(c, "done")
  /\ UNCHANGED <<relay, offset, inbox, effects, dead, crashes>>

\* Mutant: the error is let out and the record delivered again.
DeadLetterThrows(c) ==
  /\ At(c, "failed") /\ NextAttempt(c) > MaxAttempts
  /\ Goto(c, "idle")
  /\ UNCHANGED <<relay, topic, offset, inbox, effects, dead, crashes>>

DeadLetter(c) ==
  /\ At(c, "failed") /\ NextAttempt(c) > MaxAttempts
  /\ dead' = [dead EXCEPT ![c[1]] = @ \cup {Msg(c)}]
  /\ Goto(c, "done")
  /\ UNCHANGED <<relay, topic, offset, inbox, effects, crashes>>

\* The consumer dies, or publishing the retry or the dead letter fails: the
\* record is delivered again from the committed offset.
Crash(c) ==
  /\ step[c] # "idle" /\ CountCrash
  /\ Goto(c, "idle")
  /\ UNCHANGED <<relay, topic, offset, inbox, effects, dead>>

-----------------------------------------------------------------------------
Drain == Publish \/ MarkPublished

\* The consumer goes on with its record; Fail is one of the outcomes.
Consume(c) ==
  \/ CheckInbox(c) \/ HandleAtomic(c) \/ Handle(c) \/ RecordIfNew(c) \/ Fail(c)
  \/ ScheduleRetry(c) \/ DeadLetter(c) \/ Commit(c)

Next == Drain \/ RelayCrash \/ \E c \in Consumers : Consume(c) \/ LookupFails(c) \/ Crash(c)

Spec == Init /\ [][Next]_vars

\* The relay's timer fires and every consumer polls.
FairSpec == Spec /\ WF_vars(Drain) /\ \A c \in Consumers : WF_vars(Consume(c))

-----------------------------------------------------------------------------
(* Properties. *)

\* Every variable has its type; no record carries more than MaxAttempts, and no
\* consumer commits past the end of its topic.
TypeOK ==
  /\ outbox \in [Messages -> {"pending", "published"}]
  /\ batch \subseteq Messages
  /\ topic \in [Topics -> Seq(Record)]
  /\ offset \in [Consumers -> Nat]
  /\ \A c \in Consumers : offset[c] <= Len(topic[c[2]])
  /\ step \in [Consumers -> {"idle", "checked", "handled", "failed", "done"}]
  /\ inbox \in [Groups -> SUBSET Messages]
  /\ effects \in [Groups -> [Messages -> Nat]]
  /\ dead \in [Groups -> SUBSET Messages]
  /\ crashes \in 0..MaxCrashes

\* A record of the message the group has yet to commit, on either topic.
UnderWay(g, m) ==
  \E t \in Topics : \E k \in (offset[<<g, t>>] + 1)..Len(topic[t]) : topic[t][k].message = m

\* A message the relay has marked published is, for every group, effected and
\* marked, dead-lettered, or still to be delivered: it is never dropped between
\* the outbox, the topic, the retry topic and the dead letters, whatever crashes
\* (outbox-relay.ts drainOnce, consumer-runtime.ts handleMessage).
NothingLost ==
  \A m \in Messages, g \in Groups :
    outbox[m] = "published" =>
      \/ m \in inbox[g] /\ effects[g][m] > 0
      \/ m \in dead[g]
      \/ UnderWay(g, m)

\* A handler that writes the marker in its own transaction takes effect at most
\* once, although the main and the retry consumer may hold the message at the same
\* time and the relay may publish it twice (consumer-runtime.ts handleAtomic).
AtomicAtMostOnce == \A g \in Atomic, m \in Messages : effects[g][m] <= 1

\* Every row of the outbox comes to rest with every group, effected or
\* dead-lettered, although handlers may fail each time: every row but those that
\* cannot be decoded and those behind them, where the consumer of the topic stays.
\* A row ahead of them settles although its retries are consumed beside the
\* stuck consumer (consumer-runtime.ts handleMessage).
EveryMessageSettles ==
  \A m \in {n \in Messages : (1..n) \cap Undecodable = {}} :
    outbox[m] = "pending" ~> \A g \in Groups : m \in inbox[g] \cup dead[g]
=============================================================================
