------------------------ MODULE KafkaTransportProofs ------------------------
(***************************************************************************)
(* What the Kafka transport promises for any number of messages, groups,     *)
(* retries and crashes.                                                      *)
(*                                                                           *)
(* NothingLost is not inductive: a consumer that is done with a record is    *)
(* about to commit past it.  Hold says what it has seen to before that: the  *)
(* message is marked, dead-lettered, or waits again further down the retry   *)
(* topic.                                                                    *)
(***************************************************************************)
EXTENDS KafkaTransport, FiniteSetTheorems, TLAPS

\* The group has the message settled or still before it.
Safe(g, m) == m \in inbox[g] \/ m \in dead[g] \/ UnderWay(g, m)

\* The message of c's record no longer depends on that record.
Passed(c) ==
  \/ Msg(c) \in inbox[c[1]]
  \/ Msg(c) \in dead[c[1]]
  \/ \E k \in (offset[<<c[1], "retry">>] + 1)..Len(topic["retry"]) :
       /\ topic["retry"][k].message = Msg(c)
       /\ c[2] = "retry" => k > offset[c] + 1

Hold(c) ==
  /\ step[c] # "idle" => Waiting(c)
  /\ step[c] = "handled" => c[1] \notin Atomic /\ effects[c[1]][Msg(c)] > 0
  /\ step[c] = "done" => Passed(c)

\* A marker stands for an effect, and an atomic effect has its marker.
Marks ==
  \A g \in Groups, m \in Messages :
    /\ m \in inbox[g] => effects[g][m] > 0
    /\ g \in Atomic => effects[g][m] <= 1 /\ (effects[g][m] = 1 => m \in inbox[g])

\* What the relay has published, marked or not.
Published ==
  \A m \in Messages, g \in Groups : outbox[m] = "published" \/ m \in batch => Safe(g, m)

\* The inductive invariant.
IInv == TypeOK /\ Marks /\ Published /\ \A c \in Consumers : Hold(c)

-----------------------------------------------------------------------------
(* Consumers and their records. *)

LEMMA ConsumerParts ==
  ASSUME NEW c \in Consumers
  PROVE  c[1] \in Groups /\ c[2] \in Topics /\ c = <<c[1], c[2]>> /\ <<c[1], "retry">> \in Consumers
BY DEF Consumers, Topics

LEMMA Typed ==
  ASSUME TypeOK
  PROVE  /\ \A t \in Topics : topic[t] \in Seq(Record) /\ Len(topic[t]) \in Nat
         /\ \A c \in Consumers : offset[c] \in Nat /\ offset[c] <= Len(topic[c[2]])
         /\ \A g \in Groups, m \in Messages : effects[g][m] \in Nat
         /\ DOMAIN step = Consumers /\ DOMAIN topic = Topics /\ DOMAIN offset = Consumers
BY DEF TypeOK

\* A consumer that has a record has one of a message.
LEMMA RecordRead ==
  ASSUME TypeOK, NEW c \in Consumers, Waiting(c)
  PROVE  /\ offset[c] + 1 \in 1..Len(topic[c[2]])
         /\ Rec(c) \in Record /\ Msg(c) \in Messages /\ Rec(c).attempt \in 0..MaxAttempts
<1>1. /\ c[2] \in Topics /\ topic[c[2]] \in Seq(Record) /\ offset[c] \in Nat
      /\ Len(topic[c[2]]) \in Nat
  BY ConsumerParts, Typed
<1>2. offset[c] + 1 \in 1..Len(topic[c[2]])
  BY <1>1 DEF Waiting
<1>3. Rec(c) \in Record
  BY <1>1, <1>2 DEF Rec
<1> QED BY <1>2, <1>3 DEF Msg, Record

-----------------------------------------------------------------------------
(* What can only grow. *)

\* Topics are only appended to; markers and dead letters stay; effects add up.
Grow ==
  /\ \A t \in Topics : /\ Len(topic'[t]) \in Nat /\ Len(topic'[t]) >= Len(topic[t])
                       /\ \A k \in 1..Len(topic[t]) : topic'[t][k] = topic[t][k]
  /\ \A g \in Groups : inbox[g] \subseteq inbox'[g] /\ dead[g] \subseteq dead'[g]
  /\ \A g \in Groups, m \in Messages : effects'[g][m] \in Nat /\ effects'[g][m] >= effects[g][m]

LEMMA SafeKept ==
  ASSUME TypeOK, Grow, UNCHANGED offset, NEW g \in Groups, NEW m \in Messages, Safe(g, m)
  PROVE  Safe(g, m)'
<1>1. CASE UnderWay(g, m)
  <2>1. PICK t \in Topics : \E k \in (offset[<<g, t>>] + 1)..Len(topic[t]) : topic[t][k].message = m
    BY <1>1 DEF UnderWay
  <2>2. PICK k \in (offset[<<g, t>>] + 1)..Len(topic[t]) : topic[t][k].message = m
    BY <2>1
  <2>3. <<g, t>> \in Consumers /\ offset[<<g, t>>] \in Nat /\ Len(topic[t]) \in Nat
    BY Typed DEF Consumers
  <2>4. k \in 1..Len(topic[t])
    BY <2>3
  <2>5. topic'[t][k].message = m /\ k \in (offset'[<<g, t>>] + 1)..Len(topic'[t])
    BY <2>2, <2>3, <2>4 DEF Grow
  <2> QED BY <2>5 DEF Safe, UnderWay
<1>2. CASE m \in inbox[g] \/ m \in dead[g]
  BY <1>2 DEF Safe, Grow
<1> QED BY <1>1, <1>2 DEF Safe

LEMMA HoldKept ==
  ASSUME TypeOK, Grow, UNCHANGED offset, NEW c \in Consumers, Hold(c), step'[c] = step[c]
  PROVE  Hold(c)'
<1>1. CASE step[c] = "idle"
  BY <1>1 DEF Hold
<1>2. CASE step[c] # "idle"
  <2>0. /\ c[1] \in Groups /\ c[2] \in Topics /\ <<c[1], "retry">> \in Consumers
        /\ "retry" \in Topics /\ Waiting(c)
    BY <1>2, ConsumerParts DEF Hold, Topics
  <2>1. /\ offset[c] + 1 \in 1..Len(topic[c[2]]) /\ Msg(c) \in Messages /\ offset[c] \in Nat
        /\ offset[<<c[1], "retry">>] \in Nat /\ Len(topic["retry"]) \in Nat
        /\ Len(topic[c[2]]) \in Nat
    BY <2>0, RecordRead, Typed
  <2>2. Waiting(c)' /\ Rec(c)' = Rec(c) /\ Msg(c)' = Msg(c)
    BY <2>0, <2>1 DEF Grow, Waiting, Rec, Msg
  <2>3. step[c] = "handled" => c[1] \notin Atomic /\ effects'[c[1]][Msg(c)] > 0
    <3>1. effects[c[1]][Msg(c)] \in Nat /\ effects'[c[1]][Msg(c)] \in Nat
          /\ effects'[c[1]][Msg(c)] >= effects[c[1]][Msg(c)]
      BY <2>0, <2>1, Typed DEF Grow
    <3> QED BY <3>1 DEF Hold
  <2>4. step[c] = "done" => Passed(c)'
    <3> HAVE step[c] = "done"
    <3>1. Passed(c)
      BY DEF Hold
    <3>2. CASE Msg(c) \in inbox[c[1]] \/ Msg(c) \in dead[c[1]]
      BY <2>0, <2>2, <3>2 DEF Passed, Grow
    <3>3. ASSUME NEW k \in (offset[<<c[1], "retry">>] + 1)..Len(topic["retry"]),
                 topic["retry"][k].message = Msg(c), c[2] = "retry" => k > offset[c] + 1
          PROVE  Passed(c)'
      <4>1. k \in 1..Len(topic["retry"])
        BY <2>1
      <4>2. topic'["retry"][k] = topic["retry"][k] /\ Len(topic'["retry"]) \in Nat
            /\ Len(topic'["retry"]) >= Len(topic["retry"])
        BY <2>0, <4>1 DEF Grow
      <4>3. k \in (offset'[<<c[1], "retry">>] + 1)..Len(topic'["retry"])
        BY <2>1, <4>2
      <4> QED BY <2>2, <3>3, <4>2, <4>3 DEF Passed
    <3> QED BY <3>1, <3>2, <3>3 DEF Passed
  <2> QED BY <2>2, <2>3, <2>4 DEF Hold
<1> QED BY <1>1, <1>2

\* A step that only adds.
LEMMA Growing ==
  ASSUME IInv, TypeOK', Grow, UNCHANGED offset, NEW c \in Consumers,
         \A d \in Consumers : d # c => step'[d] = step[d], Hold(c)', Marks',
         \A m \in Messages : outbox'[m] = "published" \/ m \in batch' =>
                               outbox[m] = "published" \/ m \in batch
  PROVE  IInv'
<1>1. \A d \in Consumers : Hold(d)'
  BY HoldKept DEF IInv
<1>2. Published'
  <2> SUFFICES ASSUME NEW m \in Messages, NEW g \in Groups, outbox'[m] = "published" \/ m \in batch'
               PROVE  Safe(g, m)'
    BY DEF Published
  <2>1. Safe(g, m)
    BY DEF IInv, Published
  <2> QED BY <2>1, SafeKept DEF IInv
<1> QED BY <1>1, <1>2 DEF IInv

-----------------------------------------------------------------------------
(* The steps. *)

\* Marks after a step that leaves inbox and effects alone.
LEMMA MarksKept ==
  ASSUME Marks, UNCHANGED <<inbox, effects>>
  PROVE  Marks'
BY DEF Marks

\* A consumer goes on to another place with everything else unchanged but the
\* retry topic, the dead letters and the crashes.
LEMMA StepTyped ==
  ASSUME TypeOK, NEW c \in Consumers,
         NEW s \in {"idle", "checked", "handled", "failed", "done"}, Goto(c, s)
  PROVE  /\ step' \in [Consumers -> {"idle", "checked", "handled", "failed", "done"}]
         /\ step'[c] = s /\ \A d \in Consumers : d # c => step'[d] = step[d]
BY DEF TypeOK, Goto

\* Nothing changes but the place of c.
LEMMA Quiet ==
  ASSUME IInv, NEW c \in Consumers,
         NEW s \in {"idle", "checked", "handled", "failed", "done"}, Goto(c, s),
         UNCHANGED <<outbox, batch, topic, offset, inbox, effects, dead>>,
         crashes' \in 0..MaxCrashes,
         s # "idle" => Waiting(c), s # "handled",
         s = "done" => Passed(c)
  PROVE  IInv'
<1>0. TypeOK /\ Marks
  BY DEF IInv
<1>1. /\ step' \in [Consumers -> {"idle", "checked", "handled", "failed", "done"}]
      /\ step'[c] = s /\ \A d \in Consumers : d # c => step'[d] = step[d]
  BY <1>0, StepTyped
<1>2. TypeOK'
  BY <1>0, <1>1 DEF TypeOK
<1>3. Grow
  BY <1>0, Typed DEF Grow
<1>4. Hold(c)'
  BY <1>1 DEF Hold, Waiting, Passed, Msg, Rec
<1>5. Marks'
  BY <1>0, MarksKept
<1> QED BY <1>1, <1>2, <1>3, <1>4, <1>5, Growing

LEMMA CheckInboxStep ==
  ASSUME IInv, NEW c \in Consumers, CheckInbox(c)
  PROVE  IInv'
<1>0. crashes' \in 0..MaxCrashes
  BY DEF IInv, TypeOK, CheckInbox
<1>1. CASE Msg(c) \in inbox[c[1]]
  <2>1. Goto(c, "done") /\ Passed(c)
    BY <1>1 DEF CheckInbox, Passed
  <2> QED BY <1>0, <2>1, Quiet DEF CheckInbox, relay
<1>2. CASE Msg(c) \notin inbox[c[1]]
  <2>1. Goto(c, "checked")
    BY <1>2 DEF CheckInbox
  <2> QED BY <1>0, <2>1, Quiet DEF CheckInbox, relay
<1> QED BY <1>1, <1>2

LEMMA LookupFailsStep ==
  ASSUME IInv, NEW c \in Consumers, LookupFails(c)
  PROVE  IInv'
<1>0. /\ UNCHANGED <<outbox, batch, topic, offset, step, inbox, effects, dead>>
      /\ crashes' \in 0..MaxCrashes
  BY KafkaAssumption DEF IInv, TypeOK, LookupFails, CountCrash, relay
<1>1. TypeOK' /\ Marks'
  BY <1>0 DEF IInv, TypeOK, Marks
<1>2. Grow
  BY <1>0, Typed DEF IInv, Grow
<1>3. \A d \in Consumers : Hold(d)'
  BY <1>0, <1>2, HoldKept DEF IInv
<1>4. Published'
  BY <1>0 DEF IInv, Published, Safe, UnderWay
<1> QED BY <1>1, <1>3, <1>4 DEF IInv

LEMMA FailStep ==
  ASSUME IInv, NEW c \in Consumers, Fail(c)
  PROVE  IInv'
<1>1. crashes' \in 0..MaxCrashes /\ Waiting(c)
  BY DEF IInv, TypeOK, Fail, Hold
<1> QED BY <1>1, Quiet DEF Fail, relay

LEMMA CrashStep ==
  ASSUME IInv, NEW c \in Consumers, Crash(c)
  PROVE  IInv'
<1>1. crashes' \in 0..MaxCrashes
  BY KafkaAssumption DEF IInv, TypeOK, Crash, CountCrash
<1> QED BY <1>1, Quiet DEF Crash, relay

\* The effect and the marker of a handler.
LEMMA EffectTyped ==
  ASSUME TypeOK, NEW c \in Consumers, Waiting(c), Effect(c)
  PROVE  /\ effects' \in [Groups -> [Messages -> Nat]]
         /\ effects'[c[1]][Msg(c)] = effects[c[1]][Msg(c)] + 1
         /\ \A g \in Groups, m \in Messages :
              <<g, m>> # <<c[1], Msg(c)>> => effects'[g][m] = effects[g][m]
<1> DEFINE h == c[1]
           n == Msg(c)
           x == effects[h][n] + 1
<1>1. h \in Groups /\ n \in Messages
  BY ConsumerParts, RecordRead
<1>2. effects' = [effects EXCEPT ![h] = [effects[h] EXCEPT ![n] = x]]
  BY DEF Effect
<1>3. effects \in [Groups -> [Messages -> Nat]] /\ effects[h] \in [Messages -> Nat] /\ x \in Nat
  BY <1>1 DEF TypeOK
<1>a. x = effects[h][n] + 1
  OBVIOUS
<1> HIDE DEF h, n, x
<1> DEFINE row == [effects[h] EXCEPT ![n] = x]
<1>4. row \in [Messages -> Nat] /\ row[n] = x /\ \A m \in Messages : m # n => row[m] = effects[h][m]
  BY <1>1, <1>3
<1> HIDE DEF row
<1>5. effects' = [effects EXCEPT ![h] = row]
  BY <1>2 DEF row
<1>6. /\ effects' \in [Groups -> [Messages -> Nat]] /\ effects'[h] = row
      /\ \A g \in Groups : g # h => effects'[g] = effects[g]
  BY <1>1, <1>3, <1>4, <1>5
<1>7. \A g \in Groups, m \in Messages : <<g, m>> # <<h, n>> => effects'[g][m] = effects[g][m]
  BY <1>4, <1>6
<1> QED BY <1>4, <1>6, <1>7, <1>a DEF h, n

LEMMA MarkTyped ==
  ASSUME TypeOK, NEW c \in Consumers, Waiting(c), Mark(c)
  PROVE  /\ inbox' \in [Groups -> SUBSET Messages]
         /\ inbox'[c[1]] = inbox[c[1]] \cup {Msg(c)}
         /\ \A g \in Groups : g # c[1] => inbox'[g] = inbox[g]
<1>1. c[1] \in Groups /\ Msg(c) \in Messages
  BY ConsumerParts, RecordRead
<1> QED BY <1>1 DEF TypeOK, Mark

LEMMA HandleAtomicStep ==
  ASSUME IInv, NEW c \in Consumers, HandleAtomic(c)
  PROVE  IInv'
<1>0. TypeOK /\ Marks /\ Waiting(c) /\ Goto(c, "done") /\ c[1] \in Groups /\ Msg(c) \in Messages
  BY ConsumerParts, RecordRead DEF IInv, Hold, HandleAtomic, At
<1>1. CASE Msg(c) \in inbox[c[1]]
  <2>1. Passed(c) /\ crashes' \in 0..MaxCrashes
    BY <1>0, <1>1 DEF Passed, HandleAtomic, TypeOK
  <2> QED BY <1>0, <1>1, <2>1, Quiet DEF HandleAtomic, relay
<1>2. CASE Msg(c) \notin inbox[c[1]]
  <2>0. Effect(c) /\ Mark(c) /\ UNCHANGED <<outbox, batch, topic, offset, dead, crashes>>
    BY <1>2 DEF HandleAtomic, relay
  <2>1. /\ effects' \in [Groups -> [Messages -> Nat]]
        /\ effects'[c[1]][Msg(c)] = effects[c[1]][Msg(c)] + 1
        /\ \A g \in Groups, m \in Messages :
             <<g, m>> # <<c[1], Msg(c)>> => effects'[g][m] = effects[g][m]
    BY <1>0, <2>0, EffectTyped
  <2>2. /\ inbox' \in [Groups -> SUBSET Messages]
        /\ inbox'[c[1]] = inbox[c[1]] \cup {Msg(c)}
        /\ \A g \in Groups : g # c[1] => inbox'[g] = inbox[g]
    BY <1>0, <2>0, MarkTyped
  <2>3. /\ step' \in [Consumers -> {"idle", "checked", "handled", "failed", "done"}]
        /\ step'[c] = "done" /\ \A d \in Consumers : d # c => step'[d] = step[d]
    BY <1>0, StepTyped
  <2>4. TypeOK'
    BY <1>0, <2>0, <2>1, <2>2, <2>3 DEF TypeOK
  <2>5. \A g \in Groups, m \in Messages : effects[g][m] \in Nat
    BY <1>0, Typed
  <2>6. \A g \in Groups, m \in Messages :
          effects'[g][m] \in Nat /\ effects'[g][m] >= effects[g][m]
    BY <1>0, <2>1, <2>5
  <2>7. Grow
    BY <1>0, <2>0, <2>2, <2>6, Typed DEF Grow
  <2>8. effects[c[1]][Msg(c)] = 0
    <3>1. /\ effects[c[1]][Msg(c)] \in Nat /\ effects[c[1]][Msg(c)] <= 1
          /\ effects[c[1]][Msg(c)] # 1
      BY <1>0, <1>2, <2>5 DEF Marks, HandleAtomic
    <3> QED BY <3>1
  <2>9. Marks'
    <3> SUFFICES ASSUME NEW g \in Groups, NEW m \in Messages
                 PROVE  /\ m \in inbox'[g] => effects'[g][m] > 0
                        /\ g \in Atomic => /\ effects'[g][m] <= 1
                                           /\ effects'[g][m] = 1 => m \in inbox'[g]
      BY DEF Marks
    <3>1. CASE g = c[1] /\ m = Msg(c)
      BY <2>1, <2>2, <2>8, <3>1
    <3>2. CASE ~(g = c[1] /\ m = Msg(c))
      <4>1. effects'[g][m] = effects[g][m]
        BY <2>1, <3>2
      <4>2. m \in inbox'[g] <=> m \in inbox[g]
        BY <2>2, <3>2
      <4> QED BY <1>0, <4>1, <4>2 DEF Marks
    <3> QED BY <3>1, <3>2
  <2>10. Hold(c)'
    <3>1. Msg(c)' = Msg(c) /\ Waiting(c)' /\ Msg(c) \in inbox'[c[1]]
      BY <1>0, <2>0, <2>2 DEF Msg, Rec, Waiting
    <3> QED BY <2>3, <3>1 DEF Hold, Passed
  <2> QED BY <2>0, <2>3, <2>4, <2>7, <2>9, <2>10, Growing
<1> QED BY <1>1, <1>2

LEMMA HandleStep ==
  ASSUME IInv, NEW c \in Consumers, Handle(c)
  PROVE  IInv'
<1>0. TypeOK /\ Marks /\ Waiting(c) /\ Goto(c, "handled") /\ c[1] \in Groups /\ Msg(c) \in Messages
  BY ConsumerParts, RecordRead DEF IInv, Hold, Handle, At
<1>1. /\ Effect(c) /\ c[1] \notin Atomic
      /\ UNCHANGED <<outbox, batch, topic, offset, inbox, dead, crashes>>
  BY DEF Handle, relay
<1>2. /\ effects' \in [Groups -> [Messages -> Nat]]
      /\ effects'[c[1]][Msg(c)] = effects[c[1]][Msg(c)] + 1
      /\ \A g \in Groups, m \in Messages :
           <<g, m>> # <<c[1], Msg(c)>> => effects'[g][m] = effects[g][m]
  BY <1>0, <1>1, EffectTyped
<1>3. /\ step' \in [Consumers -> {"idle", "checked", "handled", "failed", "done"}]
      /\ step'[c] = "handled" /\ \A d \in Consumers : d # c => step'[d] = step[d]
  BY <1>0, StepTyped
<1>4. TypeOK'
  BY <1>0, <1>1, <1>2, <1>3 DEF TypeOK
<1>5. \A g \in Groups, m \in Messages : effects[g][m] \in Nat
  BY <1>0, Typed
<1>6. \A g \in Groups, m \in Messages :
        effects'[g][m] \in Nat /\ effects'[g][m] >= effects[g][m]
  BY <1>0, <1>2, <1>5
<1>7. Grow
  BY <1>0, <1>1, <1>6, Typed DEF Grow
<1>8. effects'[c[1]][Msg(c)] > 0
  BY <1>0, <1>2, <1>5
<1>9. Marks'
  <2> SUFFICES ASSUME NEW g \in Groups, NEW m \in Messages
               PROVE  /\ m \in inbox'[g] => effects'[g][m] > 0
                      /\ g \in Atomic => /\ effects'[g][m] <= 1
                                         /\ effects'[g][m] = 1 => m \in inbox'[g]
    BY DEF Marks
  <2>1. CASE g = c[1] /\ m = Msg(c)
    BY <1>1, <1>8, <2>1
  <2>2. CASE ~(g = c[1] /\ m = Msg(c))
    <3>1. effects'[g][m] = effects[g][m]
      BY <1>2, <2>2
    <3> QED BY <1>0, <1>1, <3>1 DEF Marks
  <2> QED BY <2>1, <2>2
<1>10. Hold(c)'
  <2>1. Msg(c)' = Msg(c) /\ Waiting(c)'
    BY <1>0, <1>1 DEF Msg, Rec, Waiting
  <2> QED BY <1>1, <1>3, <1>8, <2>1 DEF Hold
<1> QED BY <1>1, <1>3, <1>4, <1>7, <1>9, <1>10, Growing

LEMMA RecordIfNewStep ==
  ASSUME IInv, NEW c \in Consumers, RecordIfNew(c)
  PROVE  IInv'
<1>0. /\ TypeOK /\ Marks /\ Waiting(c) /\ Goto(c, "done") /\ c[1] \in Groups
      /\ Msg(c) \in Messages /\ c[1] \notin Atomic /\ effects[c[1]][Msg(c)] > 0
  BY ConsumerParts, RecordRead DEF IInv, Hold, RecordIfNew, At
<1>1. Mark(c) /\ UNCHANGED <<outbox, batch, topic, offset, effects, dead, crashes>>
  BY DEF RecordIfNew, relay
<1>2. /\ inbox' \in [Groups -> SUBSET Messages]
      /\ inbox'[c[1]] = inbox[c[1]] \cup {Msg(c)}
      /\ \A g \in Groups : g # c[1] => inbox'[g] = inbox[g]
  BY <1>0, <1>1, MarkTyped
<1>3. /\ step' \in [Consumers -> {"idle", "checked", "handled", "failed", "done"}]
      /\ step'[c] = "done" /\ \A d \in Consumers : d # c => step'[d] = step[d]
  BY <1>0, StepTyped
<1>4. TypeOK'
  BY <1>0, <1>1, <1>2, <1>3 DEF TypeOK
<1>5. Grow
  BY <1>0, <1>1, <1>2, Typed DEF Grow
<1>6. Marks'
  BY <1>0, <1>1, <1>2 DEF Marks
<1>7. Hold(c)'
  <2>1. Msg(c)' = Msg(c) /\ Waiting(c)' /\ Msg(c) \in inbox'[c[1]]
    BY <1>0, <1>1, <1>2 DEF Msg, Rec, Waiting
  <2> QED BY <1>3, <2>1 DEF Hold, Passed
<1> QED BY <1>1, <1>3, <1>4, <1>5, <1>6, <1>7, Growing

LEMMA DeadLetterStep ==
  ASSUME IInv, NEW c \in Consumers, DeadLetter(c)
  PROVE  IInv'
<1>0. /\ TypeOK /\ Marks /\ Waiting(c) /\ Goto(c, "done") /\ c[1] \in Groups
      /\ Msg(c) \in Messages
  BY ConsumerParts, RecordRead DEF IInv, Hold, DeadLetter, At
<1>1. /\ dead' = [dead EXCEPT ![c[1]] = @ \cup {Msg(c)}]
      /\ UNCHANGED <<outbox, batch, topic, offset, inbox, effects, crashes>>
  BY DEF DeadLetter, relay
<1>2. /\ dead' \in [Groups -> SUBSET Messages] /\ Msg(c) \in dead'[c[1]]
      /\ \A g \in Groups : dead[g] \subseteq dead'[g]
  BY <1>0, <1>1 DEF TypeOK
<1>3. /\ step' \in [Consumers -> {"idle", "checked", "handled", "failed", "done"}]
      /\ step'[c] = "done" /\ \A d \in Consumers : d # c => step'[d] = step[d]
  BY <1>0, StepTyped
<1>4. TypeOK'
  BY <1>0, <1>1, <1>2, <1>3 DEF TypeOK
<1>5. Grow
  BY <1>0, <1>1, <1>2, Typed DEF Grow
<1>6. Marks'
  BY <1>0, <1>1, MarksKept
<1>7. Hold(c)'
  <2>1. Msg(c)' = Msg(c) /\ Waiting(c)'
    BY <1>0, <1>1 DEF Msg, Rec, Waiting
  <2> QED BY <1>2, <1>3, <2>1 DEF Hold, Passed
<1> QED BY <1>1, <1>3, <1>4, <1>5, <1>6, <1>7, Growing

\* A record added to a topic.
LEMMA Appended ==
  ASSUME TypeOK, NEW t \in Topics, NEW recs \in Seq(Record),
         topic' = [topic EXCEPT ![t] = topic[t] \o recs]
  PROVE  /\ topic' \in [Topics -> Seq(Record)]
         /\ Len(topic'[t]) = Len(topic[t]) + Len(recs)
         /\ \A j \in 1..Len(recs) : topic'[t][Len(topic[t]) + j] = recs[j]
         /\ \A u \in Topics : /\ Len(topic'[u]) \in Nat /\ Len(topic'[u]) >= Len(topic[u])
                              /\ \A k \in 1..Len(topic[u]) : topic'[u][k] = topic[u][k]
<1> DEFINE s == topic[t]
           r == s \o recs
<1>1. /\ s \in Seq(Record) /\ Len(s) \in Nat /\ Len(recs) \in Nat
      /\ topic \in [Topics -> Seq(Record)]
      /\ \A u \in Topics : Len(topic[u]) \in Nat
  BY Typed DEF TypeOK
<1>2. r \in Seq(Record) /\ Len(r) = Len(s) + Len(recs)
  BY <1>1
<1>3. /\ \A j \in 1..Len(recs) : r[Len(s) + j] = recs[j]
      /\ \A k \in 1..Len(s) : r[k] = s[k]
  BY <1>1
<1>4. topic' = [topic EXCEPT ![t] = r]
  OBVIOUS
<1> HIDE DEF r
<1>5. /\ topic' \in [Topics -> Seq(Record)] /\ topic'[t] = r
      /\ \A u \in Topics : u # t => topic'[u] = topic[u]
  BY <1>1, <1>2, <1>4
<1>6. \A u \in Topics : /\ Len(topic'[u]) \in Nat /\ Len(topic'[u]) >= Len(topic[u])
                        /\ \A k \in 1..Len(topic[u]) : topic'[u][k] = topic[u][k]
  <2> TAKE u \in Topics
  <2>1. CASE u = t
    BY <1>1, <1>2, <1>3, <1>5, <2>1
  <2>2. CASE u # t
    BY <1>1, <1>5, <2>2
  <2> QED BY <2>1, <2>2
<1> QED BY <1>2, <1>3, <1>5, <1>6

LEMMA ScheduleRetryStep ==
  ASSUME IInv, NEW c \in Consumers, ScheduleRetry(c)
  PROVE  IInv'
<1> DEFINE rec == [message |-> Msg(c), attempt |-> NextAttempt(c)]
           n == Len(topic["retry"])
<1>0. /\ TypeOK /\ Marks /\ Waiting(c) /\ Goto(c, "done") /\ c[1] \in Groups
      /\ c[2] \in Topics /\ c = <<c[1], c[2]>> /\ <<c[1], "retry">> \in Consumers
      /\ Msg(c) \in Messages /\ Rec(c).attempt \in 0..MaxAttempts /\ "retry" \in Topics
  BY ConsumerParts, RecordRead DEF IInv, Hold, ScheduleRetry, At, Topics
<1>1. /\ topic' = [topic EXCEPT !["retry"] = Append(topic["retry"], rec)]
      /\ UNCHANGED <<outbox, batch, offset, inbox, effects, dead, crashes>>
  BY DEF ScheduleRetry, relay
<1>2. rec \in Record /\ rec.message = Msg(c)
  <2>1. NextAttempt(c) \in 0..MaxAttempts
    BY <1>0, KafkaAssumption DEF NextAttempt, ScheduleRetry
  <2> QED BY <1>0, <2>1 DEF Record
<1> HIDE DEF rec
<1>3. topic["retry"] \in Seq(Record) /\ n \in Nat /\ n + 1 \in Nat
  BY <1>0, Typed
<1>4. /\ <<rec>> \in Seq(Record) /\ Len(<<rec>>) = 1 /\ <<rec>>[1] = rec
      /\ Append(topic["retry"], rec) = topic["retry"] \o <<rec>>
  BY <1>2, <1>3
<1>5. topic' = [topic EXCEPT !["retry"] = topic["retry"] \o <<rec>>]
  BY <1>1, <1>4
<1>6. /\ topic' \in [Topics -> Seq(Record)] /\ Len(topic'["retry"]) = n + 1
      /\ topic'["retry"][n + 1] = rec
      /\ \A u \in Topics : /\ Len(topic'[u]) \in Nat /\ Len(topic'[u]) >= Len(topic[u])
                           /\ \A k \in 1..Len(topic[u]) : topic'[u][k] = topic[u][k]
  <2>1. /\ topic' \in [Topics -> Seq(Record)]
        /\ Len(topic'["retry"]) = n + Len(<<rec>>)
        /\ \A j \in 1..Len(<<rec>>) : topic'["retry"][n + j] = <<rec>>[j]
        /\ \A u \in Topics : /\ Len(topic'[u]) \in Nat /\ Len(topic'[u]) >= Len(topic[u])
                             /\ \A k \in 1..Len(topic[u]) : topic'[u][k] = topic[u][k]
    BY <1>0, <1>4, <1>5, Appended
  <2>2. 1 \in 1..Len(<<rec>>)
    BY <1>4
  <2> QED BY <1>4, <2>1, <2>2
<1>7. /\ step' \in [Consumers -> {"idle", "checked", "handled", "failed", "done"}]
      /\ step'[c] = "done" /\ \A d \in Consumers : d # c => step'[d] = step[d]
  BY <1>0, StepTyped
<1>8. \A d \in Consumers : offset[d] \in Nat /\ offset[d] <= Len(topic[d[2]]) /\ d[2] \in Topics
  BY <1>0, Typed, ConsumerParts
<1>9. TypeOK'
  <2>1. \A d \in Consumers : offset[d] <= Len(topic'[d[2]])
    <3> TAKE d \in Consumers
    <3>1. /\ Len(topic[d[2]]) \in Nat /\ Len(topic'[d[2]]) \in Nat
          /\ Len(topic'[d[2]]) >= Len(topic[d[2]])
      BY <1>0, <1>6, <1>8, Typed
    <3> QED BY <1>8, <3>1
  <2> QED BY <1>0, <1>1, <1>6, <1>7, <2>1 DEF TypeOK
<1>10. Grow
  BY <1>0, <1>1, <1>6, Typed DEF Grow
<1>11. Marks'
  BY <1>0, <1>1, MarksKept
<1>12. Hold(c)'
  <2>1. offset[c] + 1 \in 1..Len(topic[c[2]]) /\ Len(topic[c[2]]) \in Nat /\ offset[c] \in Nat
    BY <1>0, RecordRead, Typed
  <2>2. Msg(c)' = Msg(c) /\ Waiting(c)'
    BY <1>0, <1>1, <1>6, <2>1 DEF Msg, Rec, Waiting
  <2>3. offset[<<c[1], "retry">>] \in Nat /\ offset[<<c[1], "retry">>] <= n
    BY <1>0, <1>8
  <2>4. n + 1 \in (offset'[<<c[1], "retry">>] + 1)..Len(topic'["retry"])
    BY <1>1, <1>3, <1>6, <2>3
  <2>5. c[2] = "retry" => n + 1 > offset'[c] + 1
    BY <1>0, <1>1, <1>3, <2>1 DEF Waiting
  <2>6. topic'["retry"][n + 1].message = Msg(c)
    BY <1>2, <1>6
  <2>7. Passed(c)'
    BY <2>2, <2>4, <2>5, <2>6 DEF Passed
  <2> QED BY <1>7, <2>2, <2>7 DEF Hold
<1> QED BY <1>1, <1>7, <1>9, <1>10, <1>11, <1>12, Growing

\* Where a record of the group stands after c has committed: the committed one
\* leaves, and its message has been seen to.
LEMMA CommittedSafe ==
  ASSUME IInv, NEW c \in Consumers, Commit(c), NEW g \in Groups, NEW m \in Messages, Safe(g, m)
  PROVE  Safe(g, m)'
<1>0. /\ TypeOK /\ Waiting(c) /\ Passed(c) /\ c[1] \in Groups /\ c[2] \in Topics
      /\ c = <<c[1], c[2]>> /\ <<c[1], "retry">> \in Consumers /\ "retry" \in Topics
  BY ConsumerParts DEF IInv, Hold, Commit, At, Topics
<1>1. /\ UNCHANGED <<topic, inbox, dead>> /\ offset' = [offset EXCEPT ![c] = offset[c] + 1]
  BY DEF Commit
<1>2. /\ \A d \in Consumers : offset[d] \in Nat
      /\ offset'[c] = offset[c] + 1 /\ \A d \in Consumers : d # c => offset'[d] = offset[d]
      /\ \A t \in Topics : Len(topic[t]) \in Nat
  BY <1>0, <1>1, Typed
<1>3. CASE m \in inbox[g] \/ m \in dead[g]
  BY <1>1, <1>3 DEF Safe
<1>4. CASE g = c[1] /\ m = Msg(c)
  <2>1. CASE Msg(c) \in inbox[c[1]] \/ Msg(c) \in dead[c[1]]
    BY <1>1, <1>4, <2>1 DEF Safe
  <2>2. ASSUME NEW k \in (offset[<<c[1], "retry">>] + 1)..Len(topic["retry"]),
               topic["retry"][k].message = Msg(c), c[2] = "retry" => k > offset[c] + 1
        PROVE  Safe(g, m)'
    <3>1. k \in (offset'[<<c[1], "retry">>] + 1)..Len(topic["retry"])
      <4>1. CASE c[2] = "retry"
        <5>1. <<c[1], "retry">> = c
          BY <1>0, <4>1
        <5> QED BY <1>0, <1>2, <2>2, <4>1, <5>1
      <4>2. CASE c[2] # "retry"
        <5>1. <<c[1], "retry">> # c
          BY <1>0, <4>2
        <5> QED BY <1>0, <1>2, <2>2, <5>1
      <4> QED BY <4>1, <4>2
    <3>2. UnderWay(g, m)'
      BY <1>0, <1>1, <1>4, <2>2, <3>1 DEF UnderWay
    <3> QED BY <3>2 DEF Safe
  <2> QED BY <1>0, <2>1, <2>2 DEF Passed
<1>5. ASSUME NEW t \in Topics, NEW k \in (offset[<<g, t>>] + 1)..Len(topic[t]),
             topic[t][k].message = m, ~(g = c[1] /\ m = Msg(c))
      PROVE  Safe(g, m)'
  <2>0. <<g, t>> \in Consumers
    BY DEF Consumers
  <2>1. CASE <<g, t>> = c
    <3>1. g = c[1] /\ t = c[2]
      BY <2>1
    <3>2. k # offset[c] + 1
      BY <1>5, <3>1 DEF Msg, Rec
    <3>3. k \in (offset'[<<g, t>>] + 1)..Len(topic[t])
      BY <1>2, <2>0, <2>1, <3>2
    <3> QED BY <1>1, <1>5, <3>3 DEF Safe, UnderWay
  <2>2. CASE <<g, t>> # c
    <3>1. k \in (offset'[<<g, t>>] + 1)..Len(topic[t])
      BY <1>2, <2>0, <2>2
    <3> QED BY <1>1, <1>5, <3>1 DEF Safe, UnderWay
  <2> QED BY <2>1, <2>2
<1> QED BY <1>3, <1>4, <1>5 DEF Safe, UnderWay

LEMMA CommittedHold ==
  ASSUME IInv, NEW c \in Consumers, Commit(c), NEW d \in Consumers, d # c
  PROVE  Hold(d)'
<1>0. /\ TypeOK /\ Waiting(c) /\ Passed(c) /\ Hold(d)
      /\ c = <<c[1], c[2]>> /\ d = <<d[1], d[2]>> /\ d[2] \in Topics /\ "retry" \in Topics
      /\ <<d[1], "retry">> \in Consumers
  BY ConsumerParts DEF IInv, Hold, Commit, At, Topics
<1>1. /\ UNCHANGED <<topic, inbox, effects, dead>>
      /\ offset' = [offset EXCEPT ![c] = offset[c] + 1]
  BY DEF Commit
<1>2. /\ \A e \in Consumers : offset[e] \in Nat
      /\ offset'[c] = offset[c] + 1 /\ \A e \in Consumers : e # c => offset'[e] = offset[e]
      /\ Len(topic["retry"]) \in Nat
  BY <1>0, <1>1, Typed
<1>3. step'[d] = step[d]
  BY <1>0 DEF Commit, Goto, TypeOK
<1>4. Waiting(d)' = Waiting(d) /\ Msg(d)' = Msg(d)
  BY <1>1, <1>2 DEF Waiting, Msg, Rec
<1>5. ASSUME Passed(d) PROVE Passed(d)'
  <2>1. CASE Msg(d) \in inbox[d[1]] \/ Msg(d) \in dead[d[1]]
    BY <1>1, <1>4, <2>1 DEF Passed
  <2>2. ASSUME NEW k \in (offset[<<d[1], "retry">>] + 1)..Len(topic["retry"]),
               topic["retry"][k].message = Msg(d), d[2] = "retry" => k > offset[d] + 1
        PROVE  Passed(d)'
    <3>1. CASE <<d[1], "retry">> # c \/ k # offset[c] + 1
      <4>1. k \in (offset'[<<d[1], "retry">>] + 1)..Len(topic["retry"])
        BY <1>0, <1>2, <3>1
      <4> QED BY <1>1, <1>2, <1>4, <2>2, <4>1 DEF Passed
    <3>2. CASE <<d[1], "retry">> = c /\ k = offset[c] + 1
      <4>1. c[1] = d[1] /\ c[2] = "retry" /\ d[2] # "retry"
        BY <1>0, <3>2
      <4>2. Msg(c) = Msg(d)
        BY <2>2, <3>2, <4>1 DEF Msg, Rec
      <4>3. CASE Msg(c) \in inbox[c[1]] \/ Msg(c) \in dead[c[1]]
        BY <1>1, <1>4, <4>1, <4>2, <4>3 DEF Passed
      <4>4. ASSUME NEW j \in (offset[<<c[1], "retry">>] + 1)..Len(topic["retry"]),
                   topic["retry"][j].message = Msg(c), c[2] = "retry" => j > offset[c] + 1
            PROVE  Passed(d)'
        <5>1. j \in (offset'[<<d[1], "retry">>] + 1)..Len(topic["retry"])
          BY <1>2, <3>2, <4>1, <4>4
        <5> QED BY <1>1, <1>4, <4>1, <4>2, <4>4, <5>1 DEF Passed
      <4> QED BY <1>0, <4>3, <4>4 DEF Passed
    <3> QED BY <3>1, <3>2
  <2> QED BY <1>5, <2>1, <2>2 DEF Passed
<1> QED BY <1>0, <1>1, <1>3, <1>4, <1>5 DEF Hold

LEMMA CommitStep ==
  ASSUME IInv, NEW c \in Consumers, Commit(c)
  PROVE  IInv'
<1>0. TypeOK /\ Marks /\ Waiting(c) /\ c[2] \in Topics /\ Goto(c, "idle")
  BY ConsumerParts DEF IInv, Hold, Commit, At
<1>1. /\ UNCHANGED <<outbox, batch, topic, inbox, effects, dead, crashes>>
      /\ offset' = [offset EXCEPT ![c] = offset[c] + 1]
  BY DEF Commit, relay
<1>2. /\ step' \in [Consumers -> {"idle", "checked", "handled", "failed", "done"}]
      /\ step'[c] = "idle" /\ \A d \in Consumers : d # c => step'[d] = step[d]
  BY <1>0, StepTyped
<1>3. offset' \in [Consumers -> Nat] /\ \A d \in Consumers : offset'[d] <= Len(topic'[d[2]])
  <2>1. /\ offset \in [Consumers -> Nat] /\ offset[c] + 1 \in Nat
        /\ offset[c] + 1 <= Len(topic[c[2]])
        /\ \A d \in Consumers : offset[d] <= Len(topic[d[2]])
    BY <1>0, Typed DEF Waiting, TypeOK
  <2> QED BY <1>1, <2>1
<1>4. TypeOK'
  BY <1>0, <1>1, <1>2, <1>3 DEF TypeOK
<1>5. Marks'
  BY <1>0, <1>1, MarksKept
<1>6. \A d \in Consumers : Hold(d)'
  <2> TAKE d \in Consumers
  <2>1. CASE d = c
    BY <1>2, <2>1 DEF Hold
  <2>2. CASE d # c
    BY <2>2, CommittedHold
  <2> QED BY <2>1, <2>2
<1>7. Published'
  <2> SUFFICES ASSUME NEW m \in Messages, NEW g \in Groups, outbox'[m] = "published" \/ m \in batch'
               PROVE  Safe(g, m)'
    BY DEF Published
  <2>1. Safe(g, m)
    BY <1>1 DEF IInv, Published
  <2> QED BY <2>1, CommittedSafe
<1> QED BY <1>4, <1>5, <1>6, <1>7 DEF IInv

\* The records of a batch carry every row of it.
LEMMA EveryRowIsSent ==
  ASSUME NEW rows \in SUBSET Messages, NEW s \in Ordered(rows)
  PROVE  /\ Cardinality(rows) \in Nat /\ s \in [1..Cardinality(rows) -> rows]
         /\ \A m \in rows : \E j \in 1..Cardinality(rows) : s[j] = m
<1> DEFINE n == Cardinality(rows)
<1>1. IsFiniteSet(rows) /\ n \in Nat
  <2>1. IsFiniteSet(Messages)
    BY FS_Interval, KafkaAssumption DEF Messages
  <2> QED BY <2>1, FS_Subset, FS_CardinalityType
<1>2. s \in [1..n -> rows] /\ \A j, k \in 1..n : j < k => s[j] < s[k]
  BY DEF Ordered
<1>3. s \in Injection(1..n, rows)
  <2>1. \A j, k \in 1..n : s[j] = s[k] => j = k
    <3> TAKE j, k \in 1..n
    <3> HAVE s[j] = s[k]
    <3>1. s[j] \in Nat /\ s[k] \in Nat
      <4>1. s[j] \in rows /\ s[k] \in rows /\ rows \subseteq Messages
        BY <1>2
      <4>2. Messages \subseteq Nat
        BY KafkaAssumption DEF Messages
      <4> QED BY <4>1, <4>2
    <3>2. ~(j < k) /\ ~(k < j)
      BY <1>2, <3>1
    <3> QED BY <1>1, <3>2
  <2> QED BY <1>2, <2>1 DEF Injection, IsInjective
<1>4. IsFiniteSet(1..n) /\ Cardinality(1..n) = n
  <2>1. IsFiniteSet(1..n) /\ Cardinality(1..n) = IF 1 > n THEN 0 ELSE n - 1 + 1
    BY <1>1, FS_Interval
  <2> QED BY <1>1, <2>1
<1> HIDE DEF n
<1>5. s \in Surjection(1..n, rows)
  <2>1. Cardinality(1..n) = Cardinality(rows)
    BY <1>4 DEF n
  <2> QED BY <1>1, <1>3, <2>1, FS_Injection
<1>6. \A m \in rows : \E j \in 1..n : s[j] = m
  BY <1>5 DEF Surjection
<1> QED BY <1>1, <1>2, <1>6 DEF n

LEMMA PublishStep ==
  ASSUME IInv, Publish
  PROVE  IInv'
<1>b. PICK rows \in Fetchable : \E s \in Ordered(rows) :
        /\ batch' = rows
        /\ topic' = [topic EXCEPT !["main"] = topic["main"] \o
                       [k \in 1..Cardinality(rows) |-> [message |-> s[k], attempt |-> 0]]]
  BY DEF Publish
<1>1. PICK s \in Ordered(rows) :
        /\ batch' = rows
        /\ topic' = [topic EXCEPT !["main"] = topic["main"] \o
                       [k \in 1..Cardinality(rows) |-> [message |-> s[k], attempt |-> 0]]]
  BY <1>b
<1> DEFINE n == Cardinality(rows)
           recs == [k \in 1..n |-> [message |-> s[k], attempt |-> 0]]
           l == Len(topic["main"])
<1>0. TypeOK /\ Marks /\ UNCHANGED <<outbox, offset, step, inbox, effects, dead, crashes>>
  BY DEF IInv, Publish
<1>2. rows \in SUBSET Messages
  BY DEF Fetchable, Pending
<1>3. /\ n \in Nat /\ s \in [1..n -> rows]
      /\ \A m \in rows : \E j \in 1..n : s[j] = m
  BY <1>2, EveryRowIsSent
<1>a. topic' = [topic EXCEPT !["main"] = topic["main"] \o recs]
  BY <1>1
<1> HIDE DEF n
<1>4. recs \in Seq(Record) /\ Len(recs) = n /\ \A j \in 1..n : recs[j].message = s[j]
  <2>1. \A k \in 1..n : [message |-> s[k], attempt |-> 0] \in Record
    BY <1>2, <1>3, KafkaAssumption DEF Record
  <2>2. recs \in [1..n -> Record]
    BY <2>1
  <2>3. recs \in Seq(Record) /\ Len(recs) = n
    BY <1>3, <2>2
  <2> QED BY <2>3
<1> HIDE DEF recs
<1>5. "main" \in Topics
  BY DEF Topics
<1>6. /\ topic' \in [Topics -> Seq(Record)] /\ Len(topic'["main"]) = l + n
      /\ \A j \in 1..n : topic'["main"][l + j] = recs[j]
      /\ \A u \in Topics : /\ Len(topic'[u]) \in Nat /\ Len(topic'[u]) >= Len(topic[u])
                           /\ \A k \in 1..Len(topic[u]) : topic'[u][k] = topic[u][k]
  BY <1>0, <1>4, <1>5, <1>a, Appended
<1>7. \A d \in Consumers : offset[d] \in Nat /\ offset[d] <= Len(topic[d[2]]) /\ d[2] \in Topics
  BY <1>0, Typed, ConsumerParts
<1>8. TypeOK'
  <2>1. \A d \in Consumers : offset[d] <= Len(topic'[d[2]])
    <3> TAKE d \in Consumers
    <3>1. /\ Len(topic[d[2]]) \in Nat /\ Len(topic'[d[2]]) \in Nat
          /\ Len(topic'[d[2]]) >= Len(topic[d[2]])
      BY <1>0, <1>6, <1>7, Typed
    <3> QED BY <1>7, <3>1
  <2> QED BY <1>0, <1>1, <1>2, <1>6, <2>1 DEF TypeOK
<1>9. Grow
  BY <1>0, <1>6, Typed DEF Grow
<1>10. Marks'
  BY <1>0, MarksKept
<1>11. \A d \in Consumers : Hold(d)'
  BY <1>0, <1>9, HoldKept DEF IInv
<1>12. Published'
  <2> SUFFICES ASSUME NEW m \in Messages, NEW g \in Groups, outbox'[m] = "published" \/ m \in batch'
               PROVE  Safe(g, m)'
    BY DEF Published
  <2>1. CASE outbox[m] = "published"
    <3>1. Safe(g, m)
      BY <2>1 DEF IInv, Published
    <3> QED BY <1>0, <1>9, <3>1, SafeKept
  <2>2. CASE m \in rows
    <3>1. PICK j \in 1..n : s[j] = m
      BY <1>3, <2>2
    <3>2. /\ <<g, "main">> \in Consumers /\ offset[<<g, "main">>] \in Nat
          /\ offset[<<g, "main">>] <= l /\ l \in Nat
      BY <1>0, <1>5, <1>7, Typed DEF Consumers
    <3>3. l + j \in (offset'[<<g, "main">>] + 1)..Len(topic'["main"])
      BY <1>0, <1>3, <1>6, <3>2
    <3>4. topic'["main"][l + j].message = m
      BY <1>4, <1>6, <3>1
    <3> QED BY <1>5, <3>3, <3>4 DEF Safe, UnderWay
  <2> QED BY <1>0, <1>1, <2>1, <2>2
<1> QED BY <1>8, <1>10, <1>11, <1>12 DEF IInv

\* The relay marks its batch, or loses it.
LEMMA RelayStep ==
  ASSUME IInv, MarkPublished \/ RelayCrash
  PROVE  IInv'
<1>0. TypeOK /\ Marks /\ UNCHANGED <<topic, offset, step, inbox, effects, dead>>
  BY DEF IInv, MarkPublished, RelayCrash
<1>1. batch' = {} /\ outbox' \in [Messages -> {"pending", "published"}]
      /\ \A m \in Messages : outbox'[m] = "published" => outbox[m] = "published" \/ m \in batch
  BY <1>0 DEF MarkPublished, RelayCrash, TypeOK
<1>2. crashes' \in 0..MaxCrashes
  BY <1>0, KafkaAssumption DEF MarkPublished, RelayCrash, CountCrash, TypeOK
<1>3. TypeOK'
  BY <1>0, <1>1, <1>2 DEF TypeOK
<1>4. Marks'
  BY <1>0, MarksKept
<1>5. Grow
  BY <1>0, Typed DEF Grow
<1>6. \A d \in Consumers : Hold(d)'
  BY <1>0, <1>5, HoldKept DEF IInv
<1>7. Published'
  <2> SUFFICES ASSUME NEW m \in Messages, NEW g \in Groups, outbox'[m] = "published" \/ m \in batch'
               PROVE  Safe(g, m)'
    BY DEF Published
  <2>1. Safe(g, m)
    BY <1>1 DEF IInv, Published
  <2> QED BY <1>0, <1>5, <2>1, SafeKept
<1> QED BY <1>3, <1>4, <1>6, <1>7 DEF IInv

LEMMA InitInvariant ==
  ASSUME Init
  PROVE  IInv
<1>1. TypeOK
  BY KafkaAssumption DEF Init, TypeOK, Record, Consumers, Topics
<1>2. Marks
  BY DEF Init, Marks
<1>3. Published
  BY DEF Init, Published
<1>4. \A c \in Consumers : Hold(c)
  BY DEF Init, Hold
<1> QED BY <1>1, <1>2, <1>3, <1>4 DEF IInv

LEMMA Inductive == Spec => []IInv
<1>1. Init => IInv
  BY InitInvariant
<1>2. IInv /\ [Next]_vars => IInv'
  <2> SUFFICES ASSUME IInv, [Next]_vars PROVE IInv'
    OBVIOUS
  <2>1. CASE Drain \/ RelayCrash
    BY <2>1, PublishStep, RelayStep DEF Drain
  <2>2. ASSUME NEW c \in Consumers, Consume(c) \/ LookupFails(c) \/ Crash(c)
        PROVE  IInv'
    BY <2>2, CheckInboxStep, LookupFailsStep, HandleAtomicStep, HandleStep, RecordIfNewStep, FailStep,
       ScheduleRetryStep, DeadLetterStep, CommitStep, CrashStep DEF Consume
  <2>3. CASE UNCHANGED vars
    <3>0. UNCHANGED <<outbox, batch, topic, offset, step, inbox, effects, dead, crashes>>
      BY <2>3 DEF vars
    <3>1. TypeOK' /\ Marks'
      BY <3>0 DEF IInv, TypeOK, Marks
    <3>2. Grow
      BY <3>0, Typed DEF IInv, Grow
    <3>3. \A c \in Consumers : Hold(c)'
      BY <3>0, <3>2, HoldKept DEF IInv
    <3>4. Published'
      BY <3>0 DEF IInv, Published, Safe, UnderWay
    <3> QED BY <3>1, <3>3, <3>4 DEF IInv
  <2> QED BY <2>1, <2>2, <2>3 DEF Next
<1> QED BY <1>1, <1>2, PTL DEF Spec

-----------------------------------------------------------------------------
\* TypeOK for every instance: no record is retried beyond MaxAttempts and no
\* consumer commits past the end of its topic, whoever appends to it.
THEOREM KafkaTypeCorrect == Spec => []TypeOK
<1>1. IInv => TypeOK
  BY DEF IInv
<1> QED BY <1>1, Inductive, PTL

\* A published message is never dropped between the outbox, the topic, the retry
\* topic and the dead letters, for any number of messages, groups and crashes.
THEOREM NothingIsDropped == Spec => []NothingLost
<1>1. IInv => NothingLost
  BY DEF IInv, Published, Marks, Safe, NothingLost
<1> QED BY <1>1, Inductive, PTL

\* An atomic consumer takes effect at most once per message, however often it is
\* published, retried and delivered again.
THEOREM AtomicHandlersOnce == Spec => []AtomicAtMostOnce
<1>1. IInv => AtomicAtMostOnce
  BY KafkaAssumption DEF IInv, Marks, AtomicAtMostOnce
<1> QED BY <1>1, Inductive, PTL

=============================================================================
