--------------------------- MODULE OutboxDelivery ---------------------------
(***************************************************************************)
(* The broker-less event transport (EVENT_TRANSPORT=postgres): relays take   *)
(* due rows out of the outbox table and hand each one to every consumer      *)
(* subscribed to its topic.  A consumer checks its inbox, runs its handler    *)
(* and records the message in the inbox - in one transaction if the handler  *)
(* is atomic, in two steps otherwise.  A row some consumer failed is         *)
(* deferred and redelivered as a whole; after the last round every consumer  *)
(* still failing gets a dead letter.                                         *)
(*                                                                           *)
(* A Redis lock keeps one relay at work, but it expires whether or not its   *)
(* holder is done, so passes of two relays can interleave; relays crash, and *)
(* any handler or database write may fail.                                   *)
(***************************************************************************)
EXTENDS Integers, FiniteSets

CONSTANTS
  NumRows,      \* rows 1..NumRows, in order of creation
  Consumers,
  Subscribers,  \* [Rows -> SUBSET Consumers]: who is registered for its topic
  Atomic,       \* consumers whose handler implements handleAtomic
  Relays,       \* worker processes
  NoRelay,
  NoConsumer,
  BatchSize,
  MaxRounds,    \* length of the retry schedule (5 in the code)
  MaxFaults,    \* bound on crashes and failed passes
  MaxExpiries   \* bound on locks that expire under their holder

Rows == 1..NumRows

ASSUME DeliveryAssumption ==
  /\ NumRows \in Nat
  /\ Subscribers \in [Rows -> SUBSET Consumers]
  /\ Atomic \subseteq Consumers
  /\ NoRelay \notin Relays /\ NoConsumer \notin Consumers
  /\ BatchSize \in Nat \ {0} /\ MaxRounds \in Nat
  /\ MaxFaults \in Nat /\ MaxExpiries \in Nat

VARIABLES
  row,       \* [Rows -> status, attempts and whether available_at is in the future]
  inbox,     \* pairs <<consumer, row>> recorded as processed
  effects,   \* [Consumers \X Rows -> 0..2]: times the handler took effect (2 = more than once)
  dead,      \* pairs <<consumer, row>> with a dead-letter record
  lock,      \* holder of the outbox-relay lock
  pc,        \* [Relays -> where the pass is]
  batch,     \* [Relays -> rows of the pass still to do, with their attempts as fetched]
  cur,       \* [Relays -> the row being delivered]
  todo,      \* [Relays -> consumers of the current row not tried yet]
  failed,    \* [Relays -> consumers that failed the current row]
  con,       \* [Relays -> consumer whose handler is running]
  faults, expiries

queue == <<row, inbox, effects, dead>>
pass == <<pc, batch, cur, todo, failed, con>>
bounds == <<faults, expiries>>
vars == <<queue, lock, pass, bounds>>

Statuses == {"absent", "pending", "published"}
Steps == {"idle", "fetch", "unrouted", "next", "deliver", "handle", "record",
          "deadLetter", "finish"}

RowState == [status: Statuses, attempts: 0..MaxRounds, waiting: BOOLEAN]

Due == [row: Rows, attempts: Nat]

NoDue == [row |-> 0, attempts |-> 0]

Init ==
  /\ row = [m \in Rows |-> [status |-> "absent", attempts |-> 0, waiting |-> FALSE]]
  /\ inbox = {} /\ dead = {}
  /\ effects = [x \in Consumers \X Rows |-> 0]
  /\ lock = NoRelay
  /\ pc = [r \in Relays |-> "idle"]
  /\ batch = [r \in Relays |-> {}]
  /\ cur = [r \in Relays |-> NoDue]
  /\ todo = [r \in Relays |-> {}]
  /\ failed = [r \in Relays |-> {}]
  /\ con = [r \in Relays |-> NoConsumer]
  /\ faults = 0 /\ expiries = 0

Goto(r, step) == pc' = [pc EXCEPT ![r] = step]

-----------------------------------------------------------------------------
(* The outbox table. *)

\* A producer commits a row with its aggregate; rows appear in order.
Publish(m) ==
  /\ row[m].status = "absent"
  /\ \A n \in Rows : n < m => row[n].status # "absent"
  /\ row' = [row EXCEPT ![m].status = "pending"]
  /\ UNCHANGED <<inbox, effects, dead, lock, pass, bounds>>

\* available_at of a deferred row is reached.
BecomeDue(m) ==
  /\ row[m].status = "pending" /\ row[m].waiting
  /\ row' = [row EXCEPT ![m].waiting = FALSE]
  /\ UNCHANGED <<inbox, effects, dead, lock, pass, bounds>>

IsDue(m) == row[m].status = "pending" /\ ~row[m].waiting

\* The BatchSize oldest of the due rows.
InBatch(m) == IsDue(m) /\ Cardinality({n \in Rows : n < m /\ IsDue(n)}) < BatchSize

FetchDue == {[row |-> m, attempts |-> row[m].attempts] : m \in {n \in Rows : InBatch(n)}}

\* Conditional on the row being pending, like every write of the queue.
Deliver(ms) ==
  [m \in Rows |-> IF m \in ms /\ row[m].status = "pending"
                    THEN [row[m] EXCEPT !.status = "published"] ELSE row[m]]

\* Mutant: a row is deferred whatever its status.
DeferredAnyStatus(m, rounds) ==
  [row EXCEPT ![m] = [status |-> "pending", attempts |-> rounds, waiting |-> TRUE]]

\* Mutant: a deferred row's attempts are not counted.
DeferredUncounted(m, rounds) ==
  IF row[m].status = "pending" THEN [row EXCEPT ![m].waiting = TRUE] ELSE row

Deferred(m, rounds) ==
  IF row[m].status = "pending"
    THEN [row EXCEPT ![m].attempts = rounds, ![m].waiting = TRUE] ELSE row

-----------------------------------------------------------------------------
(* The lock: SET NX PX, released only by its holder's token. *)

Acquire(r) ==
  /\ pc[r] = "idle" /\ lock = NoRelay
  /\ lock' = r
  /\ Goto(r, "fetch")
  /\ UNCHANGED <<queue, batch, cur, todo, failed, con, bounds>>

\* The TTL runs out: after a crash always, during a pass as a bounded fault.
Expire ==
  /\ lock # NoRelay
  /\ lock' = NoRelay
  /\ \/ pc[lock] = "idle" /\ UNCHANGED expiries
     \/ pc[lock] # "idle" /\ expiries < MaxExpiries /\ expiries' = expiries + 1
  /\ UNCHANGED <<queue, pass, faults>>

\* The end of a pass, completed or abandoned: local state is gone.
EndPass(r) ==
  /\ Goto(r, "idle")
  /\ batch' = [batch EXCEPT ![r] = {}]
  /\ cur' = [cur EXCEPT ![r] = NoDue]
  /\ todo' = [todo EXCEPT ![r] = {}]
  /\ failed' = [failed EXCEPT ![r] = {}]
  /\ con' = [con EXCEPT ![r] = NoConsumer]

Released(r) == IF lock = r THEN NoRelay ELSE lock

-----------------------------------------------------------------------------
(* One pass of OutboxDeliveryRelay.drainOnce. *)

Current(r) == cur[r].row

Routed(due) == Subscribers[due.row] # {}

Fetch(r) ==
  /\ pc[r] = "fetch"
  /\ batch' = [batch EXCEPT ![r] = FetchDue]
  /\ Goto(r, "unrouted")
  /\ UNCHANGED <<queue, lock, cur, todo, failed, con, bounds>>

\* Rows nobody subscribes to are settled at once and leave the batch.
MarkUnrouted(r) ==
  /\ pc[r] = "unrouted"
  /\ row' = Deliver({d.row : d \in {e \in batch[r] : ~Routed(e)}})
  /\ batch' = [batch EXCEPT ![r] = {d \in @ : Routed(d)}]
  /\ Goto(r, "next")
  /\ UNCHANGED <<inbox, effects, dead, lock, cur, todo, failed, con, bounds>>

\* The oldest row of the batch is next; after the last the pass is over.
NextRow(r) ==
  /\ pc[r] = "next"
  /\ \/ /\ batch[r] = {}
        /\ EndPass(r)
        /\ lock' = Released(r)
     \/ \E d \in batch[r] :
          /\ \A e \in batch[r] : d.row <= e.row
          /\ batch' = [batch EXCEPT ![r] = @ \ {d}]
          /\ cur' = [cur EXCEPT ![r] = d]
          /\ todo' = [todo EXCEPT ![r] = Subscribers[d.row]]
          /\ failed' = [failed EXCEPT ![r] = {}]
          /\ Goto(r, "deliver")
          /\ UNCHANGED <<lock, con>>
  /\ UNCHANGED <<queue, bounds>>

\* Mutant: the message is claimed in the inbox before its handler runs.
CheckInboxClaiming(r, c) ==
  /\ pc[r] = "deliver" /\ c \in todo[r]
  /\ todo' = [todo EXCEPT ![r] = @ \ {c}]
  /\ inbox' = inbox \cup {<<c, Current(r)>>}
  /\ \/ <<c, Current(r)>> \in inbox /\ UNCHANGED <<pc, con>>
     \/ /\ <<c, Current(r)>> \notin inbox
        /\ Goto(r, "handle")
        /\ con' = [con EXCEPT ![r] = c]
  /\ UNCHANGED <<row, effects, dead, lock, batch, cur, failed, bounds>>

\* The current row's next consumer starts: its inbox pre-check.
CheckInbox(r, c) ==
  /\ pc[r] = "deliver" /\ c \in todo[r]
  /\ todo' = [todo EXCEPT ![r] = @ \ {c}]
  /\ \/ <<c, Current(r)>> \in inbox /\ UNCHANGED <<pc, con>>
     \/ /\ <<c, Current(r)>> \notin inbox
        /\ Goto(r, "handle")
        /\ con' = [con EXCEPT ![r] = c]
  /\ UNCHANGED <<queue, lock, batch, cur, failed, bounds>>

Bump(n) == IF n < 2 THEN n + 1 ELSE n

Here(r) == <<con[r], Current(r)>>

\* The consumer is done with the row, having failed it or not.
BackToRow(r, ok) ==
  /\ Goto(r, "deliver")
  /\ con' = [con EXCEPT ![r] = NoConsumer]
  /\ failed' = [failed EXCEPT ![r] = IF ok THEN @ ELSE @ \cup {con[r]}]

\* Mutant: the inbox record is written but its conflict is ignored.
HandleAtomicUnchecked(r) ==
  /\ pc[r] = "handle" /\ con[r] \in Atomic
  /\ inbox' = inbox \cup {Here(r)}
  /\ effects' = [effects EXCEPT ![Here(r)] = Bump(@)]
  /\ BackToRow(r, TRUE)
  /\ UNCHANGED <<row, dead, lock, batch, cur, todo, bounds>>

\* Atomic handler: effect and inbox record commit together, and a record that is
\* already there rolls the effect back.
HandleAtomic(r) ==
  /\ pc[r] = "handle" /\ con[r] \in Atomic
  /\ IF Here(r) \in inbox THEN UNCHANGED <<inbox, effects>>
     ELSE /\ inbox' = inbox \cup {Here(r)}
          /\ effects' = [effects EXCEPT ![Here(r)] = Bump(@)]
  /\ BackToRow(r, TRUE)
  /\ UNCHANGED <<row, dead, lock, batch, cur, todo, bounds>>

Handle(r) ==
  /\ pc[r] = "handle" /\ con[r] \notin Atomic
  /\ effects' = [effects EXCEPT ![Here(r)] = Bump(@)]
  /\ Goto(r, "record")
  /\ UNCHANGED <<row, inbox, dead, lock, batch, cur, todo, failed, con, bounds>>

RecordIfNew(r) ==
  /\ pc[r] = "record"
  /\ inbox' = inbox \cup {Here(r)}
  /\ BackToRow(r, TRUE)
  /\ UNCHANGED <<row, effects, dead, lock, batch, cur, todo, bounds>>

\* The handler, or the inbox write after it, throws.
HandlerFails(r) ==
  /\ pc[r] \in {"handle", "record"}
  /\ BackToRow(r, FALSE)
  /\ UNCHANGED <<queue, lock, batch, cur, todo, bounds>>

Rounds(r) == cur[r].attempts + 1

\* Mutant: the schedule is overrun by one round.
ConcludeLate(r) ==
  /\ pc[r] = "deliver" /\ todo[r] = {}
  /\ \/ failed[r] = {} /\ Goto(r, "finish") /\ UNCHANGED <<row, failed>>
     \/ /\ failed[r] # {} /\ Rounds(r) <= MaxRounds + 1
        /\ row' = Deferred(Current(r), Rounds(r))
        /\ failed' = [failed EXCEPT ![r] = {}]
        /\ Goto(r, "next")
     \/ /\ failed[r] # {} /\ Rounds(r) > MaxRounds + 1
        /\ Goto(r, "deadLetter")
        /\ UNCHANGED <<row, failed>>
  /\ UNCHANGED <<inbox, effects, dead, lock, batch, cur, todo, con, bounds>>

\* Every consumer has been tried: all succeeded, or the round failed and is
\* either deferred or the last.
Conclude(r) ==
  /\ pc[r] = "deliver" /\ todo[r] = {}
  /\ \/ failed[r] = {} /\ Goto(r, "finish") /\ UNCHANGED <<row, failed>>
     \/ /\ failed[r] # {} /\ Rounds(r) <= MaxRounds
        /\ row' = Deferred(Current(r), Rounds(r))
        /\ failed' = [failed EXCEPT ![r] = {}]
        /\ Goto(r, "next")
     \/ /\ failed[r] # {} /\ Rounds(r) > MaxRounds
        /\ Goto(r, "deadLetter")
        /\ UNCHANGED <<row, failed>>
  /\ UNCHANGED <<inbox, effects, dead, lock, batch, cur, todo, con, bounds>>

\* Mutant: the row is settled without a dead letter.
DeadLetterSkipped(r) ==
  /\ pc[r] = "deadLetter"
  /\ failed' = [failed EXCEPT ![r] = {}]
  /\ Goto(r, "finish")
  /\ UNCHANGED <<queue, lock, batch, cur, todo, con, bounds>>

\* One dead letter per failing consumer; the row is settled after the last.
DeadLetter(r) ==
  /\ pc[r] = "deadLetter"
  /\ \E c \in failed[r] :
       /\ dead' = dead \cup {<<c, Current(r)>>}
       /\ failed' = [failed EXCEPT ![r] = @ \ {c}]
       /\ Goto(r, IF failed[r] = {c} THEN "finish" ELSE "deadLetter")
  /\ UNCHANGED <<row, inbox, effects, lock, batch, cur, todo, con, bounds>>

MarkDelivered(r) ==
  /\ pc[r] = "finish"
  /\ row' = Deliver({Current(r)})
  /\ Goto(r, "next")
  /\ UNCHANGED <<inbox, effects, dead, lock, batch, cur, todo, failed, con, bounds>>

-----------------------------------------------------------------------------
(* Failures. *)

\* A queue or dead-letter write throws: drainOnce is abandoned, the lock released.
PassFails(r) ==
  /\ pc[r] \in {"fetch", "unrouted", "deliver", "deadLetter", "finish"}
  /\ faults < MaxFaults /\ faults' = faults + 1
  /\ EndPass(r)
  /\ lock' = Released(r)
  /\ UNCHANGED <<queue, expiries>>

\* The worker dies: the lock stays until it expires.
Crash(r) ==
  /\ pc[r] # "idle"
  /\ faults < MaxFaults /\ faults' = faults + 1
  /\ EndPass(r)
  /\ UNCHANGED <<queue, lock, expiries>>

-----------------------------------------------------------------------------
\* A step that takes the pass on.
Work(r) ==
  \/ Fetch(r) \/ MarkUnrouted(r) \/ NextRow(r)
  \/ \E c \in Consumers : CheckInbox(r, c)
  \/ HandleAtomic(r) \/ Handle(r) \/ RecordIfNew(r) \/ HandlerFails(r)
  \/ Conclude(r) \/ DeadLetter(r) \/ MarkDelivered(r)

Next ==
  \/ \E m \in Rows : Publish(m) \/ BecomeDue(m)
  \/ Expire
  \/ \E r \in Relays : Acquire(r) \/ Work(r) \/ PassFails(r) \/ Crash(r)

Spec == Init /\ [][Next]_vars

\* Timers tick and passes run on, an orphaned lock expires and time passes; no
\* handler is assumed ever to succeed.
FairSpec ==
  /\ Spec
  /\ \A r \in Relays : WF_vars(Work(r))
  /\ WF_vars(\E r \in Relays : Acquire(r))
  /\ \A m \in Rows : WF_vars(BecomeDue(m))
  /\ WF_vars(Expire)

-----------------------------------------------------------------------------
(* Properties. *)

\* Every variable has its type; no row is tried more often than the schedule allows.
TypeOK ==
  /\ row \in [Rows -> RowState]
  /\ inbox \subseteq Consumers \X Rows /\ dead \subseteq Consumers \X Rows
  /\ effects \in [Consumers \X Rows -> 0..2]
  /\ lock \in Relays \cup {NoRelay}
  /\ pc \in [Relays -> Steps]
  /\ batch \in [Relays -> SUBSET Due] /\ cur \in [Relays -> Due \cup {NoDue}]
  /\ todo \in [Relays -> SUBSET Consumers] /\ failed \in [Relays -> SUBSET Consumers]
  /\ con \in [Relays -> Consumers \cup {NoConsumer}]
  /\ faults \in Nat /\ expiries \in Nat

\* Exactly-once effect: an atomic consumer takes effect at most once per message,
\* whatever is redelivered, crashes, or runs in two relays at once.
AtomicAtMostOnce ==
  \A c \in Atomic, m \in Rows : effects[<<c, m>>] <= 1

\* Nothing is lost: a row leaves the queue only when each of its consumers has
\* taken effect or has a dead-letter record.
NothingLost ==
  \A m \in Rows : row[m].status = "published" =>
    \A c \in Subscribers[m] : effects[<<c, m>>] > 0 \/ <<c, m>> \in dead

\* An inbox record is never there without the effect it stands for.
InboxMeansEffect == \A x \in inbox : effects[x] > 0

\* A second relay may redeliver, but never moves a delivered row back.
DeliveredIsFinal ==
  [][\A m \in Rows : row[m].status = "published" => row'[m] = row[m]]_vars

\* Every row leaves the queue in the end, though handlers may fail for ever:
\* one failing row delays neither itself nor the rows behind it for good.
EveryRowSettles ==
  \A m \in Rows : row[m].status = "pending" ~> row[m].status = "published"
=============================================================================
