------------------------ MODULE OutboxDeliveryProofs ------------------------
(***************************************************************************)
(* Proofs about OutboxDelivery, for any number of rows, consumers and        *)
(* relays, any subscription, batch size and retry schedule, and any number   *)
(* of crashes, failures and lock expiries.                                   *)
(***************************************************************************)
EXTENDS OutboxDelivery, TLAPS

\* A relay is at work on a row.
Delivering == {"deliver", "handle", "record", "deadLetter", "finish"}

\* A relay at work on a row has one, and one running a handler has a consumer.
PassTyped ==
  \A r \in Relays :
    /\ pc[r] \in Delivering => cur[r] \in Due
    /\ pc[r] \in {"handle", "record"} => con[r] \in Consumers

\* TypeOK, made inductive.
Typed == TypeOK /\ PassTyped

-----------------------------------------------------------------------------
(* What the writes of the queue make of a row. *)

\* Publishing, or settling, a row changes its status only.
LEMMA StatusWrite ==
  ASSUME NEW x \in RowState, NEW s \in Statuses
  PROVE  [x EXCEPT !.status = s] \in RowState
BY DEF RowState

\* Deferring a row sets its attempts and makes it wait.
LEMMA DeferWrite ==
  ASSUME NEW x \in RowState, NEW n \in 0..MaxRounds
  PROVE  [x EXCEPT !.attempts = n, !.waiting = TRUE] \in RowState
BY DEF RowState

\* Becoming due ends the waiting.
LEMMA DueWrite ==
  ASSUME NEW x \in RowState
  PROVE  [x EXCEPT !.waiting = FALSE] \in RowState
BY DEF RowState

\* markDelivered leaves a well-formed table.
LEMMA DeliverTyped ==
  ASSUME NEW ms, row \in [Rows -> RowState]
  PROVE  Deliver(ms) \in [Rows -> RowState]
BY StatusWrite DEF Deliver, Statuses

\* defer leaves a well-formed table when the rounds are within the schedule.
LEMMA DeferredTyped ==
  ASSUME NEW m \in Rows, NEW n \in 0..MaxRounds, row \in [Rows -> RowState]
  PROVE  Deferred(m, n) \in [Rows -> RowState]
BY DeferWrite DEF Deferred

-----------------------------------------------------------------------------
(* Types. *)

\* The empty queue and idle relays are well formed.
LEMMA InitTyped == Init => Typed
BY DeliveryAssumption
DEF Init, Typed, TypeOK, PassTyped, RowState, Statuses, Steps, Delivering, Rows

\* Every step keeps the types of the queue and of the passes.
LEMMA NextTyped == Typed /\ [Next]_vars => Typed'
<1> SUFFICES ASSUME Typed, [Next]_vars PROVE Typed'
  OBVIOUS
<1> USE DeliveryAssumption
<1>1. ASSUME NEW m \in Rows, Publish(m) \/ BecomeDue(m) PROVE Typed'
  <2>1. row' \in [Rows -> RowState]
    <3>1. CASE Publish(m)
      BY <3>1, StatusWrite DEF Publish, Typed, TypeOK, Statuses
    <3>2. CASE BecomeDue(m)
      BY <3>2, DueWrite DEF BecomeDue, Typed, TypeOK
    <3>3. QED
      BY <1>1, <3>1, <3>2
  <2>2. UNCHANGED <<inbox, effects, dead, lock, pass, bounds>>
    BY <1>1 DEF Publish, BecomeDue
  <2>3. QED
    BY <2>1, <2>2 DEF Typed, TypeOK, PassTyped, pass, bounds
<1>2. CASE Expire
  BY <1>2 DEF Expire, Typed, TypeOK, PassTyped, Delivering, queue, pass, Due
<1>3. ASSUME NEW r \in Relays, Acquire(r) PROVE Typed'
  BY <1>3 DEF Acquire, Goto, Typed, TypeOK, PassTyped, Steps, Delivering, queue, bounds
<1>4. ASSUME NEW r \in Relays, Fetch(r) PROVE Typed'
  <2>1. FetchDue \subseteq Due
    BY DEF FetchDue, Due, RowState, Typed, TypeOK
  <2>2. QED
    BY <1>4, <2>1 DEF Fetch, Goto, Typed, TypeOK, PassTyped, Steps, Delivering, queue, bounds
<1>5. ASSUME NEW r \in Relays, MarkUnrouted(r) PROVE Typed'
  BY <1>5, DeliverTyped DEF MarkUnrouted, Goto, Typed, TypeOK, PassTyped, Steps, Delivering, bounds
<1>6. ASSUME NEW r \in Relays, NextRow(r) PROVE Typed'
  <2>1. CASE batch[r] = {} /\ EndPass(r) /\ lock' = Released(r)
    BY <1>6, <2>1 DEF NextRow, EndPass, Released, Goto, Typed, TypeOK, PassTyped, Steps, Delivering, queue, bounds
  <2>2. ASSUME NEW d \in batch[r],
               batch' = [batch EXCEPT ![r] = @ \ {d}],
               cur' = [cur EXCEPT ![r] = d],
               todo' = [todo EXCEPT ![r] = Subscribers[d.row]],
               failed' = [failed EXCEPT ![r] = {}],
               Goto(r, "deliver"), UNCHANGED <<lock, con>>
        PROVE Typed'
    <3>1. d \in Due /\ Subscribers[d.row] \subseteq Consumers
      BY DEF Typed, TypeOK, Due
    <3>2. QED
      BY <1>6, <2>2, <3>1 DEF NextRow, Goto, Typed, TypeOK, PassTyped, Steps, Delivering, queue, bounds
  <2>3. QED
    BY <1>6, <2>1, <2>2 DEF NextRow
<1>7. ASSUME NEW r \in Relays, NEW c \in Consumers, CheckInbox(r, c) PROVE Typed'
  BY <1>7 DEF CheckInbox, Goto, Typed, TypeOK, PassTyped, Steps, Delivering, queue, bounds
<1>8. ASSUME NEW r \in Relays, HandleAtomic(r) \/ Handle(r) \/ RecordIfNew(r) \/ HandlerFails(r)
      PROVE Typed'
  <2>1. Here(r) \in Consumers \X Rows
    BY <1>8 DEF HandleAtomic, Handle, RecordIfNew, HandlerFails, Here, Current, Typed, PassTyped, Delivering, Due
  <2>2. \A n \in 0..2 : Bump(n) \in 0..2
    BY DEF Bump
  <2>3. CASE HandleAtomic(r)
    BY <2>1, <2>2, <2>3 DEF HandleAtomic, BackToRow, Goto, Typed, TypeOK, PassTyped, Steps, Delivering, bounds
  <2>4. CASE Handle(r)
    BY <2>1, <2>2, <2>4 DEF Handle, Goto, Typed, TypeOK, PassTyped, Steps, Delivering, bounds
  <2>5. CASE RecordIfNew(r)
    BY <2>1, <2>5 DEF RecordIfNew, BackToRow, Goto, Typed, TypeOK, PassTyped, Steps, Delivering, bounds
  <2>6. CASE HandlerFails(r)
    BY <2>1, <2>6 DEF HandlerFails, BackToRow, Goto, Typed, TypeOK, PassTyped, Steps, Delivering, queue, bounds
  <2>7. QED
    BY <1>8, <2>3, <2>4, <2>5, <2>6
<1>9. ASSUME NEW r \in Relays, Conclude(r) PROVE Typed'
  <2>1. Current(r) \in Rows /\ cur[r].attempts \in Nat
    BY <1>9 DEF Conclude, Current, Typed, PassTyped, Delivering, Due
  <2>2. Rounds(r) <= MaxRounds => Deferred(Current(r), Rounds(r)) \in [Rows -> RowState]
    BY <2>1, DeferredTyped DEF Rounds, Typed, TypeOK
  <2>3. QED
    BY <1>9, <2>2 DEF Conclude, Goto, Typed, TypeOK, PassTyped, Steps, Delivering, bounds
<1>10. ASSUME NEW r \in Relays, DeadLetter(r) PROVE Typed'
  <2>1. Current(r) \in Rows
    BY <1>10 DEF DeadLetter, Current, Typed, PassTyped, Delivering, Due
  <2>2. QED
    BY <1>10, <2>1 DEF DeadLetter, Goto, Typed, TypeOK, PassTyped, Steps, Delivering, bounds
<1>11. ASSUME NEW r \in Relays, MarkDelivered(r) PROVE Typed'
  BY <1>11, DeliverTyped DEF MarkDelivered, Goto, Typed, TypeOK, PassTyped, Steps, Delivering, bounds
<1>12. ASSUME NEW r \in Relays, PassFails(r) \/ Crash(r) PROVE Typed'
  <2>1. EndPass(r) /\ UNCHANGED <<queue, expiries>>
    BY <1>12 DEF PassFails, Crash
  <2>2. lock' \in Relays \cup {NoRelay} /\ faults' \in Nat
    BY <1>12 DEF PassFails, Crash, Released, Typed, TypeOK
  <2>3. QED
    BY <2>1, <2>2 DEF EndPass, Goto, Typed, TypeOK, PassTyped, Steps, Delivering, queue
<1>13. CASE UNCHANGED vars
  BY <1>13 DEF vars, queue, pass, bounds, Typed, TypeOK, PassTyped
<1>14. QED
  BY <1>1, <1>2, <1>3, <1>4, <1>5, <1>6, <1>7, <1>8, <1>9, <1>10, <1>11, <1>12, <1>13
  DEF Next, Work

\* Every variable keeps its type, and no row is tried more often than the retry
\* schedule of OutboxDeliveryRelay allows.
THEOREM TypeCorrect == Spec => []TypeOK
<1>1. Typed => TypeOK
  BY DEF Typed
<1>2. QED
  BY <1>1, InitTyped, NextTyped, PTL DEF Spec

-----------------------------------------------------------------------------
(* The inbox. *)

\* What an atomic consumer did is in its inbox: effect and record commit together.
AtomicRecorded ==
  \A c \in Atomic, m \in Rows :
    effects[<<c, m>>] <= 1 /\ (effects[<<c, m>>] = 1 => <<c, m>> \in inbox)

\* A handler that has run, and whose inbox record is due, has had its effect.
RecordFollowsEffect ==
  \A r \in Relays : pc[r] = "record" => effects[Here(r)] > 0

\* InboxMeansEffect and AtomicAtMostOnce, made inductive.
Recorded == Typed /\ InboxMeansEffect /\ AtomicRecorded /\ RecordFollowsEffect

\* No step takes an effect back; only the handlers add one.
LEMMA EffectsGrow ==
  ASSUME Typed, [Next]_vars
  PROVE  /\ \A x \in Consumers \X Rows : effects[x] > 0 => effects'[x] > 0
         /\ inbox \subseteq inbox' /\ dead \subseteq dead'
<1>1. ASSUME NEW r \in Relays, HandleAtomic(r) \/ Handle(r)
      PROVE  /\ \A x \in Consumers \X Rows : effects[x] > 0 => effects'[x] > 0
             /\ inbox \subseteq inbox' /\ dead \subseteq dead'
  <2>1. /\ effects' \in {effects, [effects EXCEPT ![Here(r)] = Bump(@)]}
        /\ inbox' \in {inbox, inbox \cup {Here(r)}} /\ dead' = dead
    BY <1>1 DEF HandleAtomic, Handle
  <2>2. \A x \in Consumers \X Rows : effects[x] \in 0..2 /\ effects'[x] \in {effects[x], Bump(effects[x])}
    BY <2>1 DEF Typed, TypeOK
  <2>3. QED
    BY <2>1, <2>2 DEF Bump
<1>2. ASSUME ~\E r \in Relays : HandleAtomic(r) \/ Handle(r)
      PROVE  effects' = effects /\ inbox \subseteq inbox' /\ dead \subseteq dead'
  BY <1>2 DEF Next, Work, Publish, BecomeDue, Expire, Acquire, Fetch, MarkUnrouted, NextRow,
    CheckInbox, RecordIfNew, HandlerFails, Conclude, DeadLetter, MarkDelivered, PassFails, Crash,
    vars, queue
<1>3. QED
  BY <1>1, <1>2

\* Every step keeps inbox records and effects in line.
LEMMA NextRecorded == Recorded /\ [Next]_vars => Recorded'
<1> SUFFICES ASSUME Recorded, [Next]_vars PROVE Recorded'
  OBVIOUS
<1> USE DeliveryAssumption
<1>1. Typed'
  BY NextTyped DEF Recorded
<1>2. ASSUME NEW r \in Relays, HandleAtomic(r) PROVE Recorded'
  <2>1. Here(r) \in Consumers \X Rows
    BY <1>2 DEF HandleAtomic, Here, Current, Recorded, Typed, PassTyped, Delivering, Due
  <2>2. CASE Here(r) \in inbox
    <3>1. UNCHANGED <<inbox, effects, cur>> /\ pc' = [pc EXCEPT ![r] = "deliver"]
          /\ con' = [con EXCEPT ![r] = NoConsumer]
      BY <1>2, <2>2 DEF HandleAtomic, BackToRow, Goto
    <3>2. QED
      BY <1>1, <3>1 DEF Recorded, InboxMeansEffect, AtomicRecorded, RecordFollowsEffect, Here,
        Current, Typed, TypeOK
  <2>3. CASE Here(r) \notin inbox
    <3>1. /\ inbox' = inbox \cup {Here(r)}
          /\ effects' = [effects EXCEPT ![Here(r)] = Bump(@)]
          /\ UNCHANGED cur
          /\ pc' = [pc EXCEPT ![r] = "deliver"] /\ con' = [con EXCEPT ![r] = NoConsumer]
      BY <1>2, <2>3 DEF HandleAtomic, BackToRow, Goto
    <3>2. effects[Here(r)] = 0
      BY <1>2, <2>1, <2>3 DEF HandleAtomic, Here, Current, Recorded, AtomicRecorded, Typed,
        TypeOK
    <3>3. InboxMeansEffect' /\ AtomicRecorded'
      BY <2>1, <3>1, <3>2 DEF Bump, Recorded, InboxMeansEffect, AtomicRecorded, Typed, TypeOK
    <3>4. RecordFollowsEffect'
      BY <2>1, <3>1, <3>2 DEF Bump, Recorded, RecordFollowsEffect, Here, Current, Typed, TypeOK
    <3>5. QED
      BY <1>1, <3>3, <3>4 DEF Recorded
  <2>4. QED
    BY <2>2, <2>3
<1>3. ASSUME NEW r \in Relays, Handle(r) PROVE Recorded'
  <2>1. Here(r) \in Consumers \X Rows /\ con[r] \notin Atomic
    BY <1>3 DEF Handle, Here, Current, Recorded, Typed, PassTyped, Delivering, Due
  <2>2. /\ effects' = [effects EXCEPT ![Here(r)] = Bump(@)]
        /\ pc' = [pc EXCEPT ![r] = "record"] /\ UNCHANGED <<inbox, cur, con>>
    BY <1>3 DEF Handle, Goto
  <2>3. InboxMeansEffect' /\ RecordFollowsEffect'
    BY <2>1, <2>2 DEF Bump, Recorded, InboxMeansEffect, RecordFollowsEffect, Here, Current,
      Typed, TypeOK
  <2>4. AtomicRecorded'
    BY <2>1, <2>2 DEF Recorded, AtomicRecorded, Here, Typed, TypeOK
  <2>5. QED
    BY <1>1, <2>3, <2>4 DEF Recorded
<1>4. ASSUME NEW r \in Relays, RecordIfNew(r) PROVE Recorded'
  <2>1. /\ inbox' = inbox \cup {Here(r)} /\ UNCHANGED <<effects, cur>>
        /\ pc' = [pc EXCEPT ![r] = "deliver"] /\ con' = [con EXCEPT ![r] = NoConsumer]
    BY <1>4 DEF RecordIfNew, BackToRow, Goto
  <2>2. effects[Here(r)] > 0
    BY <1>4 DEF RecordIfNew, Recorded, RecordFollowsEffect
  <2>3. QED
    BY <1>1, <2>1, <2>2 DEF Recorded, InboxMeansEffect, AtomicRecorded, RecordFollowsEffect, Here,
      Current, Typed, TypeOK
<1>5. ASSUME ~\E r \in Relays : HandleAtomic(r) \/ Handle(r) \/ RecordIfNew(r) PROVE Recorded'
  <2>1. UNCHANGED <<effects, inbox>>
    BY <1>5 DEF Next, Work, Publish, BecomeDue, Expire, Acquire, Fetch, MarkUnrouted, NextRow,
      CheckInbox, HandlerFails, Conclude, DeadLetter, MarkDelivered, PassFails, Crash, vars, queue
  <2>2. \A r \in Relays : pc'[r] = "record" =>
          pc[r] = "record" /\ cur'[r] = cur[r] /\ con'[r] = con[r]
    <3> DEFINE Kept == \A r \in Relays : pc'[r] = "record" =>
                 pc[r] = "record" /\ cur'[r] = cur[r] /\ con'[r] = con[r]
    <3>1. ASSUME NEW r \in Relays, Acquire(r) \/ Fetch(r) \/ MarkUnrouted(r) \/ Conclude(r)
                   \/ DeadLetter(r) \/ MarkDelivered(r)
          PROVE Kept
      BY <3>1 DEF Acquire, Fetch, MarkUnrouted, Conclude, DeadLetter, MarkDelivered, Goto,
        Recorded, Typed, TypeOK
    <3>2. ASSUME NEW r \in Relays, NextRow(r) \/ PassFails(r) \/ Crash(r) PROVE Kept
      BY <3>2 DEF NextRow, PassFails, Crash, EndPass, Goto, Recorded, Typed, TypeOK
    <3>3. ASSUME NEW r \in Relays, HandlerFails(r) \/ \E c \in Consumers : CheckInbox(r, c)
          PROVE Kept
      BY <3>3 DEF HandlerFails, CheckInbox, BackToRow, Goto, Recorded, Typed, TypeOK
    <3>4. CASE \/ Expire \/ UNCHANGED vars
               \/ \E m \in Rows : Publish(m) \/ BecomeDue(m)
      BY <3>4 DEF Expire, Publish, BecomeDue, vars, pass
    <3>5. QED
      BY <1>5, <3>1, <3>2, <3>3, <3>4 DEF Next, Work
  <2>3. QED
    BY <1>1, <2>1, <2>2 DEF Recorded, InboxMeansEffect, AtomicRecorded, RecordFollowsEffect, Here,
      Current
<1>6. QED
  BY <1>2, <1>3, <1>4, <1>5

\* The inbox starts empty and no handler has run.
LEMMA InitRecorded == Init => Recorded
BY InitTyped, DeliveryAssumption
DEF Init, Recorded, InboxMeansEffect, AtomicRecorded, RecordFollowsEffect

\* handleAtomic's promise: however rows are redelivered, relays overlap and workers
\* crash, an atomic consumer takes effect at most once per message.
THEOREM AtomicOnce == Spec => []AtomicAtMostOnce
<1>1. Recorded => AtomicAtMostOnce
  BY DEF Recorded, AtomicRecorded, AtomicAtMostOnce
<1>2. QED
  BY <1>1, InitRecorded, NextRecorded, PTL DEF Spec

\* An inbox record is never there without the effect it stands for, so skipping a
\* message on the inbox pre-check never loses it.
THEOREM InboxSound == Spec => []InboxMeansEffect
<1>1. Recorded => InboxMeansEffect
  BY DEF Recorded
<1>2. QED
  BY <1>1, InitRecorded, NextRecorded, PTL DEF Spec

-----------------------------------------------------------------------------
(* Nothing is lost. *)

\* The consumer has taken effect on the row, or has a dead letter for it.
Settled(c, m) == effects[<<c, m>>] > 0 \/ <<c, m>> \in dead

\* The consumer whose handler the relay is running, if any.
InHand(r) == IF pc[r] \in {"handle", "record"} THEN {con[r]} ELSE {}

\* Every consumer of the row at hand is still to be tried, has failed, is being
\* tried, or is settled; a relay about to settle the row has none left.
Accounted(r) ==
  /\ pc[r] \in Delivering =>
       \A c \in Subscribers[Current(r)] :
         c \in todo[r] \cup failed[r] \cup InHand(r) \/ Settled(c, Current(r))
  /\ pc[r] \in {"deadLetter", "finish"} => todo[r] = {}
  /\ pc[r] = "finish" => failed[r] = {}

\* NothingLost, made inductive.
Handled == Recorded /\ NothingLost /\ \A r \in Relays : Accounted(r)

\* A consumer that is settled stays settled.
LEMMA SettledStays ==
  ASSUME Typed, [Next]_vars, NEW c \in Consumers, NEW m \in Rows, Settled(c, m)
  PROVE  Settled(c, m)'
BY EffectsGrow DEF Settled

\* A relay whose pass a step does not touch keeps its account.
LEMMA OtherRelay ==
  ASSUME Typed, [Next]_vars, NEW q \in Relays, Accounted(q),
         pc'[q] = pc[q], cur'[q] = cur[q], todo'[q] = todo[q], failed'[q] = failed[q],
         con'[q] = con[q]
  PROVE  Accounted(q)'
<1>1. ASSUME pc[q] \in Delivering, NEW c \in Subscribers[Current(q)],
             Settled(c, Current(q))
      PROVE  Settled(c, Current(q))'
  <2>1. Current(q) \in Rows /\ c \in Consumers /\ Current(q)' = Current(q)
    BY <1>1, DeliveryAssumption DEF Current, Typed, PassTyped, Due
  <2>2. Settled(c, cur[q].row)'
    BY <1>1, <2>1, SettledStays DEF Current
  <2>3. QED
    BY <2>1, <2>2 DEF Current, Settled
<1>2. QED
  BY <1>1 DEF Accounted, InHand, Current

\* Every step keeps the account of every relay.
LEMMA NextAccounted ==
  ASSUME Recorded, [Next]_vars, \A r \in Relays : Accounted(r)
  PROVE  \A r \in Relays : Accounted(r)'
<1> USE DeliveryAssumption
<1>0. Typed /\ Typed'
  BY NextTyped DEF Recorded
<1> DEFINE Same(q) == /\ pc'[q] = pc[q] /\ cur'[q] = cur[q] /\ todo'[q] = todo[q]
                      /\ failed'[q] = failed[q] /\ con'[q] = con[q]
<1>1. ASSUME NEW r \in Relays, \A q \in Relays : q # r => Same(q), Accounted(r)'
      PROVE  \A q \in Relays : Accounted(q)'
  <2>1. ASSUME NEW q \in Relays, q # r PROVE Accounted(q)'
    <3>1. Same(q) /\ Accounted(q)
      BY <1>1, <2>1
    <3>2. QED
      BY <1>0, <3>1, OtherRelay
  <2>2. QED
    BY <1>1, <2>1
<1>2. CASE \/ Expire \/ UNCHANGED vars
           \/ \E m \in Rows : Publish(m) \/ BecomeDue(m)
  <2>1. ASSUME NEW q \in Relays PROVE Same(q)
    BY <1>2 DEF Expire, Publish, BecomeDue, vars, pass
  <2>2. QED
    BY <1>0, <2>1, OtherRelay
<1>3. ASSUME NEW r \in Relays,
             \/ Acquire(r) \/ Fetch(r) \/ MarkUnrouted(r) \/ MarkDelivered(r)
             \/ PassFails(r) \/ Crash(r)
      PROVE  \A q \in Relays : Accounted(q)'
  <2>1. pc'[r] \notin Delivering
    BY <1>0, <1>3 DEF Acquire, Fetch, MarkUnrouted, MarkDelivered, PassFails, Crash, EndPass, Goto,
      Delivering, Typed, TypeOK
  <2>2. \A q \in Relays : q # r => Same(q)
    BY <1>0, <1>3 DEF Acquire, Fetch, MarkUnrouted, MarkDelivered, PassFails, Crash, EndPass, Goto,
      Typed, TypeOK
  <2>3. QED
    BY <1>1, <2>1, <2>2 DEF Accounted, Delivering
<1>4. ASSUME NEW r \in Relays, NextRow(r) PROVE \A q \in Relays : Accounted(q)'
  <2>1. \A q \in Relays : q # r => Same(q)
    BY <1>0, <1>4 DEF NextRow, EndPass, Goto, Typed, TypeOK
  <2>2. \/ pc'[r] = "idle"
        \/ pc'[r] = "deliver" /\ todo'[r] = Subscribers[cur'[r].row]
    BY <1>0, <1>4 DEF NextRow, EndPass, Goto, Typed, TypeOK
  <2>3. Accounted(r)'
    BY <2>2 DEF Accounted, Delivering, Current
  <2>4. QED
    BY <1>1, <2>1, <2>3
<1>5. ASSUME NEW r \in Relays, NEW c \in Consumers, CheckInbox(r, c)
      PROVE  \A q \in Relays : Accounted(q)'
  <2>1. \A q \in Relays : q # r => Same(q)
    BY <1>0, <1>5 DEF CheckInbox, Goto, Typed, TypeOK
  <2>2. /\ pc[r] = "deliver" /\ todo'[r] = todo[r] \ {c}
        /\ cur'[r] = cur[r] /\ failed'[r] = failed[r] /\ UNCHANGED <<effects, dead>>
        /\ \/ <<c, Current(r)>> \in inbox /\ pc'[r] = "deliver"
           \/ pc'[r] = "handle" /\ con'[r] = c
    BY <1>0, <1>5 DEF CheckInbox, Goto, queue, Typed, TypeOK
  <2>3. \A d \in Subscribers[Current(r)] :
          d \in todo[r] \cup failed[r] \/ Settled(d, Current(r))
    BY <2>2 DEF Accounted, InHand, Delivering
  <2>4. <<c, Current(r)>> \in inbox => Settled(c, Current(r))
    BY DEF Recorded, InboxMeansEffect, Settled
  <2>5. Accounted(r)'
    BY <2>2, <2>3, <2>4 DEF Accounted, InHand, Delivering, Current, Settled
  <2>6. QED
    BY <1>1, <2>1, <2>5
<1>6. ASSUME NEW r \in Relays, HandleAtomic(r) \/ RecordIfNew(r)
      PROVE  \A q \in Relays : Accounted(q)'
  <2>1. \A q \in Relays : q # r => Same(q)
    BY <1>0, <1>6 DEF HandleAtomic, RecordIfNew, BackToRow, Goto, Typed, TypeOK
  <2>2. /\ pc[r] \in {"handle", "record"} /\ pc'[r] = "deliver"
        /\ cur'[r] = cur[r] /\ todo'[r] = todo[r] /\ failed'[r] = failed[r]
        /\ Here(r) \in inbox'
    BY <1>0, <1>6 DEF HandleAtomic, RecordIfNew, BackToRow, Goto, Typed, TypeOK
  <2>3. /\ Current(r) \in Rows /\ con[r] \in Consumers
        /\ Subscribers[Current(r)] \subseteq Consumers
    BY <1>0, <2>2 DEF Current, Typed, PassTyped, Delivering, Due
  <2>4. \A d \in Subscribers[Current(r)] :
          d \in todo[r] \cup failed[r] \cup {con[r]} \/ Settled(d, Current(r))
    BY <2>2 DEF Accounted, InHand, Delivering
  <2>5. \A d \in Consumers, m \in Rows : Settled(d, m) => Settled(d, m)'
    BY <1>0, SettledStays
  <2>6. effects'[<<con[r], cur[r].row>>] > 0
    BY <2>2, NextRecorded DEF Recorded, InboxMeansEffect, Here, Current
  <2>7. Accounted(r)'
    BY <2>2, <2>3, <2>4, <2>5, <2>6 DEF Accounted, InHand, Delivering, Current, Settled
  <2>8. QED
    BY <1>1, <2>1, <2>7
<1>7. ASSUME NEW r \in Relays, Handle(r) PROVE \A q \in Relays : Accounted(q)'
  <2>1. \A q \in Relays : q # r => Same(q)
    BY <1>0, <1>7 DEF Handle, Goto, Typed, TypeOK
  <2>2. /\ pc[r] = "handle" /\ pc'[r] = "record" /\ con'[r] = con[r]
        /\ cur'[r] = cur[r] /\ todo'[r] = todo[r] /\ failed'[r] = failed[r]
    BY <1>0, <1>7 DEF Handle, Goto, Typed, TypeOK
  <2>3. Current(r) \in Rows /\ Subscribers[Current(r)] \subseteq Consumers
    BY <1>0, <2>2 DEF Current, Typed, PassTyped, Delivering, Due
  <2>4. \A d \in Consumers, m \in Rows : Settled(d, m) => Settled(d, m)'
    BY <1>0, SettledStays
  <2>5. Accounted(r)'
    BY <2>2, <2>3, <2>4 DEF Accounted, InHand, Delivering, Current, Settled
  <2>6. QED
    BY <1>1, <2>1, <2>5
<1>8. ASSUME NEW r \in Relays, HandlerFails(r) PROVE \A q \in Relays : Accounted(q)'
  <2>1. \A q \in Relays : q # r => Same(q)
    BY <1>0, <1>8 DEF HandlerFails, BackToRow, Goto, Typed, TypeOK
  <2>2. /\ pc[r] \in {"handle", "record"} /\ pc'[r] = "deliver"
        /\ cur'[r] = cur[r] /\ todo'[r] = todo[r] /\ failed'[r] = failed[r] \cup {con[r]}
        /\ UNCHANGED <<effects, dead>>
    BY <1>0, <1>8 DEF HandlerFails, BackToRow, Goto, queue, Typed, TypeOK
  <2>3. Accounted(r)'
    BY <2>2 DEF Accounted, InHand, Delivering, Current, Settled
  <2>4. QED
    BY <1>1, <2>1, <2>3
<1>9. ASSUME NEW r \in Relays, Conclude(r) PROVE \A q \in Relays : Accounted(q)'
  <2>1. \A q \in Relays : q # r => Same(q)
    BY <1>0, <1>9 DEF Conclude, Goto, Typed, TypeOK
  <2>2. /\ pc[r] = "deliver" /\ todo[r] = {} /\ todo'[r] = {} /\ cur'[r] = cur[r]
        /\ UNCHANGED <<effects, dead>>
        /\ \/ pc'[r] = "finish" /\ failed[r] = {} /\ failed'[r] = {}
           \/ pc'[r] = "next"
           \/ pc'[r] = "deadLetter" /\ failed'[r] = failed[r]
    BY <1>0, <1>9 DEF Conclude, Goto, Typed, TypeOK
  <2>3. Accounted(r)'
    BY <2>2 DEF Accounted, InHand, Delivering, Current, Settled
  <2>4. QED
    BY <1>1, <2>1, <2>3
<1>10. ASSUME NEW r \in Relays, DeadLetter(r) PROVE \A q \in Relays : Accounted(q)'
  <2>1. \A q \in Relays : q # r => Same(q)
    BY <1>0, <1>10 DEF DeadLetter, Goto, Typed, TypeOK
  <2>2. PICK c \in failed[r] :
          /\ dead' = dead \cup {<<c, Current(r)>>}
          /\ failed' = [failed EXCEPT ![r] = @ \ {c}]
          /\ Goto(r, IF failed[r] = {c} THEN "finish" ELSE "deadLetter")
    BY <1>10 DEF DeadLetter
  <2>3. /\ pc[r] = "deadLetter" /\ todo'[r] = todo[r] /\ cur'[r] = cur[r] /\ effects' = effects
        /\ failed'[r] = failed[r] \ {c}
        /\ \/ pc'[r] = "finish" /\ failed[r] = {c}
           \/ pc'[r] = "deadLetter"
    BY <1>0, <1>10, <2>2 DEF DeadLetter, Goto, Typed, TypeOK
  <2>4. \A d \in Subscribers[Current(r)] :
          d \in todo[r] \cup failed[r] \/ Settled(d, Current(r))
    BY <2>3 DEF Accounted, InHand, Delivering
  <2>5. Accounted(r)'
    BY <2>2, <2>3, <2>4 DEF Accounted, InHand, Delivering, Current, Settled
  <2>6. QED
    BY <1>1, <2>1, <2>5
<1>11. QED
  BY <1>2, <1>3, <1>4, <1>5, <1>6, <1>7, <1>8, <1>9, <1>10 DEF Next, Work

\* A row is settled only by a relay that has accounted for all its consumers, or
\* because it has none.
LEMMA NextNothingLost ==
  ASSUME Handled, [Next]_vars
  PROVE  NothingLost'
<1> USE DeliveryAssumption
<1>0. Typed
  BY DEF Handled, Recorded
<1>1. SUFFICES ASSUME NEW m \in Rows, row'[m].status = "published", NEW c \in Subscribers[m]
               PROVE  Settled(c, m)'
  BY DEF NothingLost, Settled
<1>2. c \in Consumers
  OBVIOUS
<1>3. CASE row[m].status = "published"
  BY <1>0, <1>2, <1>3, SettledStays DEF Handled, NothingLost, Settled
<1>4. CASE row[m].status # "published"
  <2>1. ASSUME NEW r \in Relays, MarkDelivered(r) PROVE Settled(c, m)
    <3>1. m = Current(r) /\ pc[r] = "finish"
      BY <1>1, <1>4, <2>1 DEF MarkDelivered, Deliver
    <3>2. QED
      BY <3>1 DEF Handled, Accounted, InHand, Delivering
  <2>2. ASSUME NEW r \in Relays, MarkUnrouted(r) PROVE FALSE
    BY <1>1, <1>4, <2>2 DEF MarkUnrouted, Deliver, Routed
  <2>3. ASSUME NEW r \in Relays, Conclude(r) PROVE FALSE
    <3>1. row' = row \/ row' = Deferred(Current(r), Rounds(r))
      BY <2>3 DEF Conclude
    <3>2. QED
      BY <1>0, <1>1, <1>4, <3>1 DEF Deferred, Typed, TypeOK, RowState
  <2>4. ASSUME NEW n \in Rows, Publish(n) \/ BecomeDue(n) PROVE FALSE
    <3>1. row[m] \in RowState /\ DOMAIN row = Rows
      BY <1>0 DEF Typed, TypeOK
    <3>2. CASE Publish(n)
      BY <1>1, <1>4, <3>1, <3>2 DEF Publish, RowState
    <3>3. CASE BecomeDue(n)
      <4>1. row'[m] = row[m] \/ row'[m] = [row[m] EXCEPT !.waiting = FALSE]
        BY <1>0, <3>3 DEF BecomeDue, Typed, TypeOK
      <4>2. row'[m].status = row[m].status
        BY <3>1, <4>1 DEF RowState
      <4>3. QED
        BY <1>1, <1>4, <4>2
    <3>4. QED
      BY <2>4, <3>2, <3>3
  <2>5. \E r \in Relays : MarkDelivered(r)
    BY <1>1, <1>4, <2>2, <2>3, <2>4 DEF Next, Work, Expire, Acquire, Fetch, NextRow,
      CheckInbox, HandleAtomic, Handle, RecordIfNew, HandlerFails, DeadLetter, PassFails, Crash,
      vars, queue
  <2>6. QED
    BY <1>0, <1>2, <2>1, <2>5, SettledStays
<1>5. QED
  BY <1>3, <1>4

\* The queue starts empty.
LEMMA InitHandled == Init => Handled
BY InitRecorded DEF Init, Handled, NothingLost, Accounted, Delivering

\* OutboxDeliveryRelay's at-least-once promise: a row leaves the queue only when each
\* consumer of its topic has taken effect on it or has a dead letter for it.
THEOREM NothingIsLost == Spec => []NothingLost
<1>1. Handled /\ [Next]_vars => Handled'
  BY NextRecorded, NextAccounted, NextNothingLost DEF Handled
<1>2. Handled => NothingLost
  BY DEF Handled
<1>3. QED
  BY <1>1, <1>2, InitHandled, PTL DEF Spec

\* The promise of PrismaOutboxDeliveryQueue: its writes are conditional on the row
\* being pending, so no relay, however late, moves a delivered row back.
THEOREM DeliveredStays == Spec => DeliveredIsFinal
<1>1. ASSUME Typed, [Next]_vars, NEW m \in Rows, row[m].status = "published"
      PROVE  row'[m] = row[m]
  <2>1. ASSUME NEW n \in Rows, Publish(n) \/ BecomeDue(n) PROVE row'[m] = row[m]
    BY <1>1, <2>1 DEF Publish, BecomeDue, Typed, TypeOK, RowState
  <2>2. ASSUME NEW r \in Relays, MarkUnrouted(r) \/ MarkDelivered(r) PROVE row'[m] = row[m]
    BY <1>1, <2>2 DEF MarkUnrouted, MarkDelivered, Deliver
  <2>3. ASSUME NEW r \in Relays, Conclude(r) PROVE row'[m] = row[m]
    <3>1. row' = row \/ row' = Deferred(Current(r), Rounds(r))
      BY <2>3 DEF Conclude
    <3>2. QED
      BY <1>1, <3>1 DEF Deferred, Typed, TypeOK
  <2>4. QED
    BY <1>1, <2>1, <2>2, <2>3 DEF Next, Work, Expire, Acquire, Fetch, NextRow, CheckInbox,
      HandleAtomic, Handle, RecordIfNew, HandlerFails, DeadLetter, PassFails, Crash, vars, queue
<1>2. Typed /\ [Next]_vars =>
        [\A m \in Rows : row[m].status = "published" => row'[m] = row[m]]_vars
  BY <1>1
<1>3. QED
  BY <1>2, InitTyped, NextTyped, PTL DEF Spec, DeliveredIsFinal
=============================================================================
