-------------------------- MODULE KafkaMonitor_proofs --------------------------
(***************************************************************************)
(* Proofs about KafkaMonitor, for any number of monitors, messages,        *)
(* expiries, crashes, interrupts and rebalances.                           *)
(***************************************************************************)
EXTENDS KafkaMonitor, SequenceTheorems, TLAPS

\* An offset that the group may pass.
Dealt(o) == o \in settled \cup dropped \cup expired

\* Only a consumer that has the partition, as far as it knows, works on a message.
AtWork ==
    \A m \in Monitors : Busy(m) => m \in assigned /\ InHand(m) \in Offsets

\* The messages that a handler may get.
Routable == {"good", "refused", "fatal"}

\* A message is counted before its fate is known, and its fate fits its kind.
Progress ==
    \A m \in Monitors :
        /\ Busy(m) => topic[InHand(m)] # "undecodable"
        /\ pc[m] \in {"route", "handle", "fail"} => InHand(m) \in total
        /\ pc[m] \in {"route", "handle"} => topic[InHand(m)] \in Routable
        /\ pc[m] = "handle" => InHand(m) \in routed
        /\ pc[m] = "fail" => topic[InHand(m)] \in {"unfit", "refused"}
Fates ==
    /\ settled \cup routed \subseteq total /\ handled \subseteq routed
    /\ \A o \in routed : topic[o] \in Routable
    /\ \A o \in failed : topic[o] \in {"unfit", "refused"}

\* What retention has removed is dealt with, and so is what a consumer that believes to
\* have the partition has passed, short of the message in its hands.
RemovedDealt == \A o \in Offsets : o < start => Dealt(o)
PassedDealt ==
    \A m \in assigned : \A o \in Offsets :
        o < pos[m] => Dealt(o) \/ (Busy(m) /\ o = InHand(m))

\* The group has not got past its owner, nor past the message in its owner's hands.
OwnerAhead ==
    \A m \in assigned : owner = m => committed <= IF Busy(m) THEN InHand(m) ELSE pos[m]

\* The inductive invariant.
GroupInv ==
    /\ KafkaTypeOK /\ AtWork /\ Progress /\ Fates
    /\ RemovedDealt /\ PassedDealt /\ OwnerAhead /\ NothingSkipped

----------------------------------------------------------------------------
\* A producer appends: the messages of before stay where they are.
LEMMA TopicGrows ==
    ASSUME KafkaTypeOK, NEW kind \in Kinds, Feed(kind)
    PROVE  /\ topic' \in Seq(Kinds) /\ Len(topic') <= MaxMessages
           /\ Len(topic) \in Nat /\ Len(topic') \in Nat /\ Len(topic) <= Len(topic')
           /\ Offsets \subseteq Offsets'
           /\ \A o \in Offsets : topic'[o] = topic[o]
<1>1. PICK copies \in Retries : /\ Len(topic) + copies <= MaxMessages
                               /\ topic' = topic \o [i \in 1..copies |-> kind]
  BY DEF Feed
<1> DEFINE more == [i \in 1..copies |-> kind]
<1>2. more \in Seq(Kinds) /\ Len(more) = copies /\ copies \in Nat
  BY DEF Retries
<1>3. topic \in Seq(Kinds) /\ Len(topic) \in Nat
  BY DEF KafkaTypeOK
<1>4. topic' \in Seq(Kinds) /\ Len(topic') = Len(topic) + copies
  BY <1>1, <1>2, <1>3, ConcatProperties
<1>5. \A o \in 1..Len(topic) : topic'[o] = topic[o]
  BY <1>1, <1>2, <1>3, ConcatProperties
<1>6. QED
  BY <1>1, <1>2, <1>3, <1>4, <1>5 DEF Offsets

\* A process that goes on or dies keeps the types of what it changes.
LEMMA MoveTypes ==
    ASSUME KafkaTypeOK, NEW m \in Monitors,
           \/ Die(m)
           \/ UNCHANGED assigned /\ \E to \in {"poll", "route", "handle", "fail"} : Goto(m, to)
    PROVE  /\ assigned' \subseteq Monitors
           /\ pc' \in [Monitors -> {"down", "poll", "count", "route", "handle", "fail"}]
           /\ \A n \in assigned' : pc'[n] # "down"
  BY DEF Die, Goto, KafkaTypeOK

\* Types are kept.
LEMMA TypeStep ==
    ASSUME KafkaTypeOK, AtWork, [Next]_vars
    PROVE  KafkaTypeOK'
<1> USE KafkaAssumption DEF KafkaAssumption
<1>1. Len(topic) \in Nat
  BY DEF KafkaTypeOK
<1>2. ASSUME NEW m \in Monitors, Take(m) PROVE KafkaTypeOK'
  BY <1>1, <1>2 DEF Take, KafkaTypeOK, Goto, broker, history, stats, Offsets
<1>3. ASSUME NEW m \in Monitors, Count(m) PROVE KafkaTypeOK'
  <2>1. \/ Die(m)
        \/ UNCHANGED assigned /\ \E to \in {"poll", "route", "handle", "fail"} : Goto(m, to)
    BY <1>3 DEF Count
  <2>2. /\ assigned' \subseteq Monitors
        /\ pc' \in [Monitors -> {"down", "poll", "count", "route", "handle", "fail"}]
        /\ \A n \in assigned' : pc'[n] # "down"
    BY <2>1, MoveTypes
  <2>3. total' \subseteq Offsets
    BY <1>3 DEF Count, KafkaTypeOK, AtWork, Busy
  <2>4. QED
    BY <1>3, <2>2, <2>3 DEF Count, KafkaTypeOK, broker, Offsets
<1>4. ASSUME NEW m \in Monitors, Route(m) PROVE KafkaTypeOK'
  BY <1>4 DEF Route, KafkaTypeOK, Goto, broker, consumers, AtWork, Busy, Offsets
<1>5. ASSUME NEW m \in Monitors, Handle(m) PROVE KafkaTypeOK'
  <2>1. \/ Die(m)
        \/ UNCHANGED assigned /\ \E to \in {"poll", "route", "handle", "fail"} : Goto(m, to)
    BY <1>5 DEF Handle
  <2>2. /\ assigned' \subseteq Monitors
        /\ pc' \in [Monitors -> {"down", "poll", "count", "route", "handle", "fail"}]
        /\ \A n \in assigned' : pc'[n] # "down"
    BY <2>1, MoveTypes
  <2>3. handled' \subseteq Offsets
    BY <1>5 DEF Handle, KafkaTypeOK, AtWork, Busy
  <2>4. QED
    BY <1>5, <2>2, <2>3 DEF Handle, KafkaTypeOK, broker, stats, Offsets
<1>6. ASSUME NEW m \in Monitors, Fail(m) PROVE KafkaTypeOK'
  BY <1>6 DEF Fail, KafkaTypeOK, Goto, broker, consumers, AtWork, Busy, Offsets
<1>7. ASSUME NEW m \in Monitors, Undecodable(m) \/ Notice(m) PROVE KafkaTypeOK'
  BY <1>7 DEF Undecodable, Notice, Die, KafkaTypeOK, Goto, broker, history, stats, Offsets
<1>8. ASSUME NEW m \in Monitors, Reset(m) PROVE KafkaTypeOK'
  BY <1>1, <1>8 DEF Reset, Fallback, KafkaTypeOK, broker, history, stats, Offsets
<1>9. ASSUME NEW m \in Monitors, Commit(m) PROVE KafkaTypeOK'
  BY <1>1, <1>9 DEF Commit, KafkaTypeOK, consumers, history, stats, Offsets
<1>10. ASSUME NEW m \in Monitors, Start(m) PROVE KafkaTypeOK'
  BY <1>10 DEF Start, KafkaTypeOK, Goto, broker, consumers, history, stats, Offsets
<1>11. ASSUME NEW m \in Monitors, Crash(m) PROVE KafkaTypeOK'
  BY <1>11 DEF Crash, Change, Die, KafkaTypeOK, Goto, broker, history, stats, Offsets
<1>12. ASSUME NEW m \in Monitors, Interrupt(m) PROVE KafkaTypeOK'
  <2>1. dropped' \subseteq Offsets
    BY <1>12 DEF Interrupt, KafkaTypeOK, AtWork
  <2>2. committed' \in 0..Len(topic) + 1 /\ owner' \in Monitors \cup {Nobody}
    BY <1>1, <1>12 DEF Interrupt, KafkaTypeOK
  <2>3. QED
    BY <1>12, <2>1, <2>2 DEF Interrupt, Change, KafkaTypeOK, Goto, stats, Offsets
<1>13. ASSUME NEW m \in Monitors, Assign(m) PROVE KafkaTypeOK'
  BY <1>1, <1>13 DEF Assign, Begin, Fallback, KafkaTypeOK, history, stats, Offsets
<1>14. ASSUME NEW m \in Monitors, Rebalance(m) PROVE KafkaTypeOK'
  BY <1>1, <1>14 DEF Rebalance, Change, KafkaTypeOK, history, stats, Offsets
<1>15. ASSUME NEW kind \in Kinds, Feed(kind) PROVE KafkaTypeOK'
  <2>1. /\ topic' \in Seq(Kinds) /\ Len(topic') <= MaxMessages
        /\ Len(topic') \in Nat /\ Len(topic) <= Len(topic') /\ Offsets \subseteq Offsets'
    BY <1>15, TopicGrows
  <2>2. /\ 1..Len(topic) + 1 \subseteq 1..Len(topic') + 1
        /\ 0..Len(topic) + 1 \subseteq 0..Len(topic') + 1
    BY <1>1, <2>1
  <2>3. {total', routed', failed', handled', dropped', expired'} \subseteq SUBSET Offsets'
    BY <1>15, <2>1 DEF Feed, KafkaTypeOK, history, stats
  <2>4. QED
    BY <1>15, <2>1, <2>2, <2>3 DEF Feed, KafkaTypeOK, consumers
<1>16. CASE Evict
  BY <1>16 DEF Evict, Change, KafkaTypeOK, consumers, history, stats, Offsets
<1>17. CASE Expire
  BY <1>1, <1>17 DEF Expire, KafkaTypeOK, consumers, stats, Offsets
<1>18. CASE UNCHANGED vars
  BY <1>18 DEF vars, broker, consumers, history, stats, KafkaTypeOK, Offsets
<1>19. QED
  BY <1>2, <1>3, <1>4, <1>5, <1>6, <1>7, <1>8, <1>9, <1>10, <1>11, <1>12, <1>13, <1>14,
     <1>15, <1>16, <1>17, <1>18 DEF Next, Work

\* Nothing that was dealt with is undone, and no message is changed.
LEMMA DealtStays ==
    ASSUME KafkaTypeOK, [Next]_vars
    PROVE  /\ \A o : Dealt(o) => Dealt(o)'
           /\ \A o \in Offsets : o \in Offsets' /\ topic'[o] = topic[o]
<1> USE DEF Dealt, settled
<1>1. ASSUME NEW m \in Monitors, Work(m)
      PROVE  topic' = topic /\ \A o : Dealt(o) => Dealt(o)'
  <2>1. CASE Take(m) \/ Undecodable(m) \/ Reset(m) \/ Notice(m)
    BY <2>1 DEF Take, Undecodable, Reset, Notice, broker, history, stats
  <2>2. CASE Count(m) \/ Route(m) \/ Handle(m) \/ Fail(m)
    BY <2>2 DEF Count, Route, Handle, Fail, broker, stats
  <2>3. QED
    BY <1>1, <2>1, <2>2 DEF Work
<1>2. ASSUME NEW m \in Monitors,
             Commit(m) \/ Start(m) \/ Crash(m) \/ Interrupt(m) \/ Assign(m) \/ Rebalance(m)
      PROVE  topic' = topic /\ \A o : Dealt(o) => Dealt(o)'
  <2>1. CASE Commit(m) \/ Start(m) \/ Crash(m)
    BY <2>1 DEF Commit, Start, Crash, broker, history, stats
  <2>2. CASE Assign(m) \/ Rebalance(m)
    BY <2>2 DEF Assign, Rebalance, history, stats
  <2>3. CASE Interrupt(m)
    BY <2>3 DEF Interrupt, stats
  <2>4. QED
    BY <1>2, <2>1, <2>2, <2>3
<1>3. ASSUME NEW kind \in Kinds, Feed(kind)
      PROVE  /\ \A o : Dealt(o) => Dealt(o)'
             /\ \A o \in Offsets : o \in Offsets' /\ topic'[o] = topic[o]
  BY <1>3, TopicGrows DEF Feed, history, stats
<1>4. ASSUME Evict \/ Expire \/ UNCHANGED vars
      PROVE  topic' = topic /\ \A o : Dealt(o) => Dealt(o)'
  <2>1. UNCHANGED <<topic, handled, failed, dropped>> /\ expired \subseteq expired'
    BY <1>4 DEF Evict, Expire, vars, broker, history, stats
  <2>2. QED
    BY <2>1
<1>5. topic' = topic => \A o \in Offsets : o \in Offsets' /\ topic'[o] = topic[o]
  BY DEF Offsets
<1>6. QED
  BY <1>1, <1>2, <1>3, <1>4, <1>5 DEF Next

\* A step that touches neither what a message is counted as nor the work of any monitor,
\* except that monitors may stop or go back to the loop, keeps who works and how far.
LEMMA WorkStays ==
    ASSUME KafkaTypeOK, AtWork, Progress, Fates, [Next]_vars,
           \A m \in Monitors : Busy(m)' => /\ pc'[m] = pc[m] /\ pos'[m] = pos[m]
                                           /\ m \in assigned => m \in assigned',
           UNCHANGED <<total, routed, failed, handled>>
    PROVE  AtWork' /\ Progress' /\ Fates'
<1>1. \A o \in Offsets : o \in Offsets' /\ topic'[o] = topic[o]
  BY DealtStays
<1>2. \A m \in Monitors : Busy(m)' => Busy(m) /\ InHand(m)' = InHand(m)
  BY DEF Busy, InHand
<1>3. AtWork'
  BY <1>1, <1>2 DEF AtWork
<1>4. Progress'
  BY <1>1, <1>2 DEF Progress, AtWork, Busy
<1>5. Fates'
  BY <1>1 DEF Fates, settled, KafkaTypeOK
<1>6. QED
  BY <1>3, <1>4, <1>5

\* Who works on a message, and what it and the counters show of it.
LEMMA WorkStep ==
    ASSUME KafkaTypeOK, AtWork, Progress, Fates, [Next]_vars
    PROVE  AtWork' /\ Progress' /\ Fates'
<1> USE KafkaAssumption DEF KafkaAssumption
<1>1. Len(topic) \in Nat
  BY DEF KafkaTypeOK
<1>2. ASSUME NEW m \in Monitors, Take(m) PROVE AtWork' /\ Progress' /\ Fates'
  <2> USE <1>2 DEF Take, Goto, broker, history, stats, KafkaTypeOK
  <2>1. /\ pc' = [pc EXCEPT ![m] = "count"] /\ pos' = [pos EXCEPT ![m] = @ + 1]
        /\ UNCHANGED <<topic, assigned, stats, handled>>
    OBVIOUS
  <2>2. AtWork'
    BY <1>1, <2>1 DEF AtWork, Busy, InHand, Offsets
  <2>3. Progress'
    BY <2>1 DEF Progress, Busy, InHand, Offsets
  <2>4. Fates'
    BY <2>1 DEF Fates, settled
  <2>5. QED
    BY <2>2, <2>3, <2>4
<1>3. ASSUME NEW m \in Monitors, Count(m) PROVE AtWork' /\ Progress' /\ Fates'
  <2> USE <1>3 DEF Count, Die, Goto, broker, KafkaTypeOK
  <2>1. topic[InHand(m)] \in Routable \cup {"unfit"}
    BY DEF Progress, AtWork, Busy, Offsets, Kinds, Routable
  <2>2. AtWork'
    BY DEF AtWork, Busy, InHand, Offsets
  <2>3. Progress'
    BY <2>1 DEF Progress, Busy, InHand, Offsets
  <2>4. Fates'
    BY DEF Fates, settled
  <2>5. QED
    BY <2>2, <2>3, <2>4
<1>4. ASSUME NEW m \in Monitors, Route(m) PROVE AtWork' /\ Progress' /\ Fates'
  <2> USE <1>4 DEF Route, Goto, broker, consumers, KafkaTypeOK
  <2>1. AtWork'
    BY DEF AtWork, Busy, InHand, Offsets
  <2>2. Progress'
    BY DEF Progress, Busy, InHand, Offsets
  <2>3. Fates'
    BY DEF Fates, Progress, settled
  <2>4. QED
    BY <2>1, <2>2, <2>3
<1>5. ASSUME NEW m \in Monitors, Handle(m) PROVE AtWork' /\ Progress' /\ Fates'
  <2> USE <1>5 DEF Handle, Survived, Routable, Die, Goto, broker, stats, KafkaTypeOK
  <2>1. AtWork'
    BY DEF AtWork, Busy, InHand, Offsets
  <2>2. Progress'
    BY DEF Progress, Busy, InHand, Offsets
  <2>3. Fates'
    BY DEF Fates, Progress, settled
  <2>4. QED
    BY <2>1, <2>2, <2>3
<1>6. ASSUME NEW m \in Monitors, Fail(m) PROVE AtWork' /\ Progress' /\ Fates'
  <2> USE <1>6 DEF Fail, Goto, broker, consumers, KafkaTypeOK
  <2>1. AtWork'
    BY DEF AtWork, Busy, InHand, Offsets
  <2>2. Progress'
    BY DEF Progress, Busy, InHand, Offsets
  <2>3. Fates'
    BY DEF Fates, Progress, settled
  <2>4. QED
    BY <2>1, <2>2, <2>3
<1>7. ASSUME NEW m \in Monitors,
             \/ Undecodable(m) \/ Reset(m) \/ Notice(m) \/ Commit(m) \/ Start(m)
             \/ Crash(m) \/ Interrupt(m) \/ Assign(m) \/ Rebalance(m)
      PROVE  AtWork' /\ Progress' /\ Fates'
  <2>1. UNCHANGED <<total, routed, failed, handled>>
    BY <1>7 DEF Undecodable, Reset, Notice, Commit, Start, Crash, Interrupt, Assign,
                Rebalance, history, stats
  <2>2. ASSUME NEW n \in Monitors, Busy(n)'
        PROVE  /\ pc'[n] = pc[n] /\ pos'[n] = pos[n]
               /\ n \in assigned => n \in assigned'
    <3>1. CASE Undecodable(m) \/ Crash(m) \/ Interrupt(m)
      BY <2>2, <3>1 DEF Undecodable, Crash, Interrupt, Die, Goto, Busy, KafkaTypeOK
    <3>2. CASE Reset(m) \/ Notice(m) \/ Assign(m) \/ Rebalance(m)
      BY <2>2, <3>2 DEF Reset, Notice, Assign, Rebalance, Busy, KafkaTypeOK
    <3>3. CASE Commit(m) \/ Start(m)
      BY <2>2, <3>3 DEF Commit, Start, Goto, consumers, Busy, KafkaTypeOK
    <3>4. QED
      BY <1>7, <3>1, <3>2, <3>3
  <2>3. QED
    BY <2>1, <2>2, WorkStays
<1>8. CASE (\E kind \in Kinds : Feed(kind)) \/ Evict \/ Expire \/ UNCHANGED vars
  <2>1. UNCHANGED <<total, routed, failed, handled, pc, pos, assigned>>
    BY <1>8 DEF Feed, Evict, Expire, vars, consumers, history, stats
  <2>2. QED
    BY <2>1, WorkStays DEF Busy
<1>9. QED
  BY <1>2, <1>3, <1>4, <1>5, <1>6, <1>7, <1>8 DEF Next, Work

----------------------------------------------------------------------------
\* A consumer that keeps the partition and neither moves nor finishes a message has passed
\* nothing new.
LEMMA PassedStays ==
    ASSUME KafkaTypeOK, PassedDealt, [Next]_vars, NEW n \in assigned, n \in Monitors,
           pos'[n] = pos[n], Busy(n) => Busy(n)',
           NEW o \in Offsets', o < pos'[n]
    PROVE  Dealt(o)' \/ (Busy(n)' /\ o = InHand(n)')
<1>1. pos[n] \in 1..Len(topic) + 1 /\ Len(topic) \in Nat
  BY DEF KafkaTypeOK
<1>2. o \in Offsets
  BY <1>1 DEF Offsets
<1>3. Dealt(o) \/ (Busy(n) /\ o = InHand(n))
  BY <1>2 DEF PassedDealt
<1>4. QED
  BY <1>3, DealtStays DEF InHand

\* PassedDealt and RemovedDealt are kept.
LEMMA PassedStep ==
    ASSUME KafkaTypeOK, AtWork, Progress, RemovedDealt, PassedDealt, NothingSkipped, [Next]_vars
    PROVE  RemovedDealt' /\ PassedDealt'
<1> USE KafkaAssumption DEF KafkaAssumption
<1>1. Len(topic) \in Nat /\ start \in 1..Len(topic) + 1 /\ assigned \subseteq Monitors
  BY DEF KafkaTypeOK
<1>2. RemovedDealt'
  <2>1. start' \in {start, start + 1}
    BY DEF Next, Work, Take, Count, Route, Handle, Fail, Undecodable, Reset, Notice, Commit,
           Start, Crash, Interrupt, Assign, Rebalance, Feed, Evict, Expire, vars, broker
  <2>2. start' # start => Expire
    BY DEF Next, Work, Take, Count, Route, Handle, Fail, Undecodable, Reset, Notice, Commit,
           Start, Crash, Interrupt, Assign, Rebalance, Feed, Evict, vars, broker
  <2>3. \A o : o = start /\ start' # start => Dealt(o)'
    BY <2>2 DEF Expire, Dealt, settled, stats
  <2>4. \A o \in Offsets' : o < start => o \in Offsets
    BY <1>1 DEF Offsets
  <2>5. \A o \in Offsets' : o < start' => o < start \/ (o = start /\ start' # start)
    BY <1>1, <2>1 DEF Offsets
  <2>6. QED
    BY <2>3, <2>4, <2>5, DealtStays DEF RemovedDealt
<1>3. SUFFICES ASSUME NEW n \in assigned', NEW o \in Offsets', o < pos'[n]
               PROVE  Dealt(o)' \/ (Busy(n)' /\ o = InHand(n)')
  BY <1>2 DEF PassedDealt
<1> DEFINE Goal == Dealt(o)' \/ (Busy(n)' /\ o = InHand(n)')
<1>4. ASSUME NEW m \in Monitors, Take(m) PROVE Goal
  <2>1. CASE n # m
    BY <1>1, <1>3, <1>4, <2>1, PassedStays DEF Take, Goto, KafkaTypeOK, Busy
  <2>2. CASE n = m
    <3>1. o \in Offsets /\ m \in assigned /\ ~Busy(m) /\ pos[m] \in Nat
      BY <1>4, <1>1 DEF Take, broker, Offsets, Busy
    <3>2. Busy(m)' /\ InHand(m)' = pos[m] /\ pos'[m] = pos[m] + 1
      BY <1>1, <1>4, <3>1 DEF Take, Goto, KafkaTypeOK, Busy, InHand
    <3>3. o < pos[m] => Dealt(o)
      BY <3>1 DEF PassedDealt
    <3>4. o < pos[m] \/ o = pos[m]
      BY <1>3, <2>2, <3>1, <3>2 DEF Offsets
    <3>5. QED
      BY <2>2, <3>2, <3>3, <3>4, DealtStays
  <2>3. QED
    BY <2>1, <2>2
<1>5. ASSUME NEW m \in Monitors, Count(m) \/ Route(m) PROVE Goal
  <2>1. n \in assigned /\ pos'[n] = pos[n] /\ (Busy(n) => Busy(n)')
    BY <1>1, <1>3, <1>5 DEF Count, Route, Die, Goto, consumers, KafkaTypeOK, Busy
  <2>2. QED
    BY <1>1, <1>3, <2>1, PassedStays
<1>6. ASSUME NEW m \in Monitors, Handle(m) \/ Fail(m) PROVE Goal
  <2>1. n \in assigned /\ n \in Monitors /\ pos' = pos /\ topic' = topic
    BY <1>1, <1>3, <1>6 DEF Handle, Fail, Die, consumers, broker
  <2>2. CASE Busy(n) => Busy(n)'
    BY <1>3, <2>1, <2>2, PassedStays
  <2>3. CASE Busy(n) /\ ~Busy(n)'
    <3>1. n = m
      BY <1>6, <2>1, <2>3 DEF Handle, Fail, Die, Goto, KafkaTypeOK, Busy
    <3>2. \A x : x = InHand(m) => Dealt(x)'
      BY <1>3, <1>6, <2>1, <2>3, <3>1 DEF Handle, Fail, Die, Goto, KafkaTypeOK, Busy, Dealt, settled
    <3>3. o \in Offsets /\ (Dealt(o) \/ o = InHand(m))
      BY <1>3, <2>1, <3>1 DEF Offsets, PassedDealt
    <3>4. QED
      BY <3>2, <3>3, DealtStays
  <2>4. QED
    BY <2>2, <2>3
<1>7. ASSUME NEW m \in Monitors, Reset(m) PROVE Goal
  <2>1. CASE n # m
    BY <1>1, <1>3, <1>7, <2>1, PassedStays DEF Reset, KafkaTypeOK, Busy
  <2>2. CASE n = m
    <3>1. o \in Offsets /\ o < start
      BY <1>3, <1>1, <1>7, <2>2 DEF Reset, Fallback, KafkaTypeOK, broker, Offsets
    <3>2. QED
      BY <3>1, DealtStays DEF RemovedDealt
  <2>3. QED
    BY <2>1, <2>2
<1>8. ASSUME NEW m \in Monitors, Assign(m) PROVE Goal
  <2>1. CASE n # m
    BY <1>1, <1>3, <1>8, <2>1, PassedStays DEF Assign, KafkaTypeOK, Busy
  <2>2. CASE n = m
    <3>1. o \in Offsets
      BY <1>8 DEF Assign, Offsets
    <3>2. o < start \/ o < committed
      BY <1>3, <1>1, <1>8, <2>2 DEF Assign, Begin, Fallback, KafkaTypeOK
    <3>3. QED
      BY <3>1, <3>2, DealtStays DEF RemovedDealt, NothingSkipped, Dealt
  <2>3. QED
    BY <2>1, <2>2
<1>9. ASSUME NEW m \in Monitors, Undecodable(m) \/ Notice(m) \/ Rebalance(m) PROVE Goal
  <2>1. n \in assigned /\ pos'[n] = pos[n] /\ (Busy(n) => Busy(n)')
    BY <1>1, <1>3, <1>9 DEF Undecodable, Notice, Rebalance, Die, Goto, KafkaTypeOK, Busy
  <2>2. QED
    BY <1>1, <1>3, <2>1, PassedStays
<1>10. ASSUME NEW m \in Monitors, Crash(m) \/ Interrupt(m) PROVE Goal
  <2>1. n \in assigned /\ pos'[n] = pos[n] /\ (Busy(n) => Busy(n)')
    BY <1>1, <1>3, <1>10 DEF Crash, Interrupt, Die, Goto, KafkaTypeOK, Busy
  <2>2. QED
    BY <1>1, <1>3, <2>1, PassedStays
<1>11. ASSUME NEW m \in Monitors, Commit(m) \/ Start(m) PROVE Goal
  <2>1. n \in assigned /\ pos'[n] = pos[n] /\ (Busy(n) => Busy(n)')
    BY <1>1, <1>3, <1>11 DEF Commit, Start, Goto, consumers, KafkaTypeOK, Busy
  <2>2. QED
    BY <1>1, <1>3, <2>1, PassedStays
<1>12. CASE (\E kind \in Kinds : Feed(kind)) \/ Evict \/ Expire \/ UNCHANGED vars
  <2>1. UNCHANGED <<assigned, pos, pc>>
    BY <1>12 DEF Feed, Evict, Expire, vars, consumers
  <2>2. QED
    BY <1>1, <1>3, <2>1, PassedStays DEF Busy
<1>13. QED
  BY <1>4, <1>5, <1>6, <1>7, <1>8, <1>9, <1>10, <1>11, <1>12 DEF Next, Work

\* OwnerAhead and NothingSkipped are kept.
LEMMA OwnerStep ==
    ASSUME KafkaTypeOK, AtWork, RemovedDealt, PassedDealt, OwnerAhead, NothingSkipped, [Next]_vars
    PROVE  OwnerAhead' /\ NothingSkipped'
<1> USE KafkaAssumption DEF KafkaAssumption
<1>1. /\ Len(topic) \in Nat /\ start \in 1..Len(topic) + 1 /\ committed \in 0..Len(topic) + 1
      /\ pos \in [Monitors -> 1..Len(topic) + 1] /\ assigned \subseteq Monitors
      /\ pc \in [Monitors -> {"down", "poll", "count", "route", "handle", "fail"}]
  BY DEF KafkaTypeOK
<1>2. committed' = committed => NothingSkipped'
  <2>1. \A o \in Offsets' : o < committed => o \in Offsets
    BY <1>1 DEF Offsets
  <2>2. QED
    BY <2>1, DealtStays DEF NothingSkipped, Dealt
<1>3. ASSUME NEW m \in Monitors, Take(m) \/ Reset(m) PROVE OwnerAhead' /\ NothingSkipped'
  <2>1. OwnerAhead'
    BY <1>1, <1>3 DEF Take, Reset, Fallback, Goto, broker, OwnerAhead, Busy, InHand
  <2>2. QED
    BY <1>2, <1>3, <2>1 DEF Take, Reset, broker
<1>4. ASSUME NEW m \in Monitors, Count(m) \/ Route(m) \/ Handle(m) \/ Fail(m)
      PROVE  OwnerAhead' /\ NothingSkipped'
  <2>1. UNCHANGED <<committed, owner, pos>> /\ assigned' \subseteq assigned
    BY <1>4 DEF Count, Route, Handle, Fail, Die, broker, consumers
  <2>2. \A n \in assigned' : Busy(n)' => Busy(n)
    BY <1>1, <1>4, <2>1 DEF Count, Route, Handle, Fail, Die, Goto, Busy
  <2>3. OwnerAhead'
    BY <1>1, <2>1, <2>2 DEF OwnerAhead, InHand
  <2>4. QED
    BY <1>2, <2>1, <2>3
<1>5. ASSUME NEW m \in Monitors, Undecodable(m) \/ Notice(m) \/ Crash(m) \/ Start(m)
      PROVE  OwnerAhead' /\ NothingSkipped'
  <2>1. UNCHANGED <<committed, owner, pos>> /\ assigned' \subseteq assigned
    BY <1>5 DEF Undecodable, Notice, Crash, Start, Die, broker, consumers
  <2>2. \A n \in assigned' : Busy(n)' => Busy(n)
    BY <1>1, <1>5, <2>1 DEF Undecodable, Notice, Crash, Start, Die, Goto, Busy
  <2>3. OwnerAhead'
    BY <1>1, <2>1, <2>2 DEF OwnerAhead, InHand
  <2>4. QED
    BY <1>2, <2>1, <2>3
<1>6. ASSUME NEW m \in Monitors, Commit(m) PROVE OwnerAhead' /\ NothingSkipped'
  <2>1. m \in assigned /\ ~Busy(m) /\ committed' = pos[m] /\ owner = m
        /\ UNCHANGED <<topic, owner, assigned, pos, pc, history>>
    BY <1>6 DEF Commit, MayCommit, Busy, consumers
  <2>2. OwnerAhead'
    BY <1>1, <2>1 DEF OwnerAhead, Busy
  <2>3. NothingSkipped'
    BY <1>1, <2>1 DEF NothingSkipped, PassedDealt, Dealt, settled, Offsets, history, stats
  <2>4. QED
    BY <2>2, <2>3
<1>7. ASSUME NEW m \in Monitors, Interrupt(m) PROVE OwnerAhead' /\ NothingSkipped'
  <2>1. OwnerAhead'
    BY <1>1, <1>7 DEF Interrupt, Goto, OwnerAhead, Busy, InHand
  <2>2. CASE m \in assigned /\ owner = m
    <3>1. committed' = pos[m] /\ topic' = topic /\ (Busy(m) => InHand(m) \in dropped')
      BY <1>7, <2>2 DEF Interrupt
    <3>2. \A o \in Offsets : o < pos[m] => Dealt(o)'
      BY <2>2, <3>1, DealtStays DEF PassedDealt, Dealt
    <3>3. QED
      BY <2>1, <3>1, <3>2 DEF NothingSkipped, Dealt, Offsets
  <2>3. CASE ~(m \in assigned /\ owner = m)
    BY <1>2, <1>7, <2>1, <2>3 DEF Interrupt
  <2>4. QED
    BY <2>2, <2>3
<1>8. ASSUME NEW m \in Monitors, Rebalance(m) PROVE OwnerAhead' /\ NothingSkipped'
  <2>1. OwnerAhead'
    BY <1>1, <1>8 DEF Rebalance, OwnerAhead, Busy, InHand
  <2>2. m \in assigned /\ ~Busy(m) /\ committed' = pos[m] /\ UNCHANGED <<topic, history>>
    BY <1>8 DEF Rebalance, Busy
  <2>3. NothingSkipped'
    BY <1>1, <2>2 DEF NothingSkipped, PassedDealt, Dealt, settled, Offsets, history, stats
  <2>4. QED
    BY <2>1, <2>3
<1>9. ASSUME NEW m \in Monitors, Assign(m) PROVE OwnerAhead' /\ NothingSkipped'
  <2>1. ~Busy(m) /\ committed' = committed /\ owner' = m /\ UNCHANGED pc
    BY <1>9 DEF Assign, Busy
  <2>2. committed <= pos'[m]
    BY <1>1, <1>9 DEF Assign, Begin, Fallback
  <2>3. OwnerAhead'
    BY <1>1, <2>1, <2>2 DEF OwnerAhead, Busy
  <2>4. QED
    BY <1>2, <2>1, <2>3
<1>10. CASE (\E kind \in Kinds : Feed(kind)) \/ Evict \/ Expire \/ UNCHANGED vars
  <2>1. UNCHANGED <<committed, pos, pc, assigned>> /\ owner' \in {owner, Nobody}
    BY <1>10 DEF Feed, Evict, Expire, vars, broker, consumers
  <2>2. OwnerAhead'
    BY <1>1, <2>1 DEF OwnerAhead, Busy, InHand
  <2>3. QED
    BY <1>2, <2>1, <2>2
<1>11. QED
  BY <1>3, <1>4, <1>5, <1>6, <1>7, <1>8, <1>9, <1>10 DEF Next, Work

----------------------------------------------------------------------------
\* The invariant of the group.
THEOREM GroupInvariant == Spec => []GroupInv
<1>1. Init => GroupInv
  BY KafkaAssumption DEF KafkaAssumption, Init, GroupInv, KafkaTypeOK, AtWork, Progress, Fates,
     RemovedDealt, PassedDealt, OwnerAhead, NothingSkipped, Busy, Offsets, settled
<1>2. GroupInv /\ [Next]_vars => GroupInv'
  BY TypeStep, WorkStep, PassedStep, OwnerStep DEF GroupInv
<1>3. QED
  BY <1>1, <1>2, PTL DEF Spec

\* Nothing is skipped and the counters agree (_process_messages against the commit timer,
\* close and the offset reset), for any number of monitors, messages and faults.
THEOREM NothingIsSkipped == Spec => []KafkaInv
<1>1. GroupInv => KafkaInv
  <2>1. Fates => StatsAgree
    BY DEF Fates, StatsAgree, Routable
  <2>2. QED
    BY <2>1 DEF GroupInv, KafkaInv
<1>2. QED
  BY <1>1, GroupInvariant, PTL

\* The message in the hands of the owner is not committed.
THEOREM InHandStaysUncommitted == Spec => []InHandIsUncommitted
<1>1. GroupInv => InHandIsUncommitted
  <2> SUFFICES ASSUME GroupInv, NEW m \in Monitors, Busy(m), owner = m
               PROVE  InHand(m) >= committed
    BY DEF InHandIsUncommitted
  <2>1. m \in assigned /\ committed <= InHand(m)
    BY DEF GroupInv, AtWork, OwnerAhead
  <2>2. QED
    BY <2>1 DEF GroupInv, KafkaTypeOK, InHand
<1>2. QED
  BY <1>1, GroupInvariant, PTL
----------------------------------------------------------------------------
\* The owner of the partition may commit how far it has got: what it has passed was dealt
\* with, except for the message in its hands, which is dropped with an interrupt.
LEMMA MayPass ==
    ASSUME GroupInv, NEW m \in Monitors, m \in assigned, owner = m,
           committed' = pos[m], committed' # committed,
           UNCHANGED <<topic, handled, failed, expired>>,
           dropped' = dropped \cup (IF Busy(m) THEN {InHand(m)} ELSE {})
    PROVE  Reader!Pass
<1>1. /\ pos[m] \in 1..Len(topic) + 1 /\ Len(topic) \in Nat /\ topic \in Seq(Kinds)
      /\ committed \in 0..Len(topic) + 1
  BY DEF GroupInv, KafkaTypeOK
<1>2. committed <= pos[m]
  BY <1>1 DEF GroupInv, OwnerAhead, InHand
<1>3. dropped' \cup expired' \in
         {dropped \cup expired, (dropped \cup expired) \cup {committed' - 1}}
  BY DEF InHand
<1>4. \A o \in DOMAIN topic : o < pos[m] => o \in settled \cup (dropped' \cup expired')
  BY <1>1 DEF GroupInv, PassedDealt, Dealt, Offsets
<1>5. settled' = settled
  BY DEF settled
<1>6. committed' > committed /\ committed' <= Len(topic) + 1
  BY <1>1, <1>2
<1>7. QED
  BY <1>3, <1>4, <1>5, <1>6 DEF Reader!Pass

\* A step of the group is a step of the abstract reader, or one that it does not see.
LEMMA ReaderStep ==
    ASSUME GroupInv, [Next]_vars
    PROVE  [Reader!Next]_Reader!vars
<1> DEFINE lost == dropped \cup expired
<1> DEFINE Seen == [Reader!Next]_Reader!vars
<1>0. /\ KafkaTypeOK /\ AtWork /\ topic \in Seq(Kinds) /\ DOMAIN topic = Offsets
      /\ start \in 1..Len(topic) + 1 /\ Len(topic) \in Nat
  BY DEF GroupInv, KafkaTypeOK, Offsets
<1>1. ASSUME UNCHANGED <<topic, committed, handled, failed, dropped, expired>> PROVE Seen
  BY <1>1 DEF Reader!vars, settled
<1>2. ASSUME NEW m \in Monitors, Handle(m) \/ Fail(m) PROVE Seen
  <2>1. UNCHANGED <<topic, committed, dropped, expired>>
    BY <1>2 DEF Handle, Fail, broker, stats
  <2>2. InHand(m) \in Offsets
    BY <1>0, <1>2 DEF Handle, Fail, AtWork, Busy
  <2>3. settled' = settled \/ settled' = settled \cup {InHand(m)}
    BY <1>2 DEF Handle, Fail, settled, stats
  <2>4. CASE settled' = settled
    BY <2>1, <2>4 DEF Reader!vars
  <2>5. CASE settled' = settled \cup {InHand(m)}
    <3>1. Reader!Deal(InHand(m))
      BY <2>1, <2>5 DEF Reader!Deal
    <3>2. QED
      BY <1>0, <2>2, <3>1 DEF Reader!Next
  <2>6. QED
    BY <2>3, <2>4, <2>5
<1>3. ASSUME NEW m \in Monitors, Commit(m) \/ Rebalance(m) PROVE Seen
  <2>1. /\ m \in assigned /\ owner = m /\ ~Busy(m) /\ committed' = pos[m]
        /\ UNCHANGED <<topic, handled, failed, dropped, expired>>
    BY <1>3 DEF Commit, Rebalance, MayCommit, Busy, history, stats
  <2>2. CASE committed' = committed
    BY <1>1, <2>1, <2>2
  <2>3. CASE committed' # committed
    <3>1. dropped' = dropped \cup (IF Busy(m) THEN {InHand(m)} ELSE {})
      BY <2>1
    <3>2. QED
      BY <2>1, <2>3, <3>1, MayPass DEF Reader!Next
  <2>4. QED
    BY <2>2, <2>3
<1>4. ASSUME NEW m \in Monitors, Interrupt(m) PROVE Seen
  <2>1. UNCHANGED <<topic, handled, failed, expired>>
    BY <1>4 DEF Interrupt, stats
  <2>2. CASE ~(m \in assigned /\ owner = m)
    BY <1>1, <1>4, <2>1, <2>2 DEF Interrupt
  <2>3. CASE m \in assigned /\ owner = m
    <3>1. committed' = pos[m] /\ dropped' = dropped \cup (IF Busy(m) THEN {InHand(m)} ELSE {})
      BY <1>4, <2>3 DEF Interrupt
    <3>2. CASE committed' # committed
      BY <2>1, <2>3, <3>1, <3>2, MayPass DEF Reader!Next
    <3>3. CASE committed' = committed
      <4>1. ~Busy(m)
        <5>1. pos[m] \in Nat /\ committed = pos[m]
          BY <1>0, <3>1, <3>3 DEF KafkaTypeOK
        <5>2. Busy(m) => committed <= pos[m] - 1
          BY <2>3 DEF GroupInv, OwnerAhead, InHand
        <5>3. QED
          BY <5>1, <5>2
      <4>2. QED
        BY <1>1, <2>1, <3>1, <3>3, <4>1
    <3>4. QED
      BY <3>2, <3>3
  <2>4. QED
    BY <2>2, <2>3
<1>5. ASSUME NEW kind \in Kinds, Feed(kind) PROVE Seen
  <2>1. UNCHANGED <<committed, handled, failed, dropped, expired>>
    BY <1>5 DEF Feed, history, stats
  <2>2. \A o \in Offsets : topic'[o] = topic[o]
    BY <1>0, <1>5, TopicGrows
  <2>3. Len(topic') > Len(topic)
    <3>1. PICK copies \in Retries : topic' = topic \o [i \in 1..copies |-> kind]
      BY <1>5 DEF Feed
    <3> DEFINE more == [i \in 1..copies |-> kind]
    <3>2. more \in Seq(Kinds) /\ Len(more) = copies /\ copies \in 1..2
      BY DEF Retries
    <3> HIDE DEF more
    <3>3. Len(topic \o more) = Len(topic) + copies
      BY <1>0, <3>2, ConcatProperties
    <3>4. topic' = topic \o more
      BY <3>1 DEF more
    <3>5. QED
      BY <1>0, <3>2, <3>3, <3>4
  <2>4. Reader!Produce
    BY <1>0, <2>1, <2>2, <2>3 DEF Reader!Produce, settled
  <2>5. QED
    BY <2>4 DEF Reader!Next
<1>6. ASSUME Expire PROVE Seen
  <2>1. UNCHANGED <<topic, committed, handled, failed, dropped>>
    BY <1>6 DEF Expire, stats
  <2>2. start \in Offsets /\ expired' \in {expired, expired \cup {start}}
    BY <1>6 DEF Expire
  <2>3. CASE expired' = expired
    BY <1>1, <2>1, <2>3
  <2>4. CASE expired' = expired \cup {start}
    <3>1. Reader!Lose(start)
      BY <2>1, <2>4 DEF Reader!Lose, settled
    <3>2. QED
      BY <1>0, <2>2, <3>1 DEF Reader!Next
  <2>5. QED
    BY <2>2, <2>3, <2>4
<1>7. ASSUME NEW m \in Monitors,
             \/ Take(m) \/ Count(m) \/ Route(m) \/ Undecodable(m) \/ Reset(m) \/ Notice(m)
             \/ Start(m) \/ Crash(m) \/ Assign(m)
      PROVE  Seen
  <2>1. UNCHANGED <<topic, committed, handled, failed, dropped, expired>>
    BY <1>7 DEF Take, Count, Route, Undecodable, Reset, Notice, Start, Crash, Assign,
                broker, history, stats
  <2>2. QED
    BY <1>1, <2>1
<1>8. ASSUME Evict \/ UNCHANGED vars PROVE Seen
  <2>1. UNCHANGED <<topic, committed, handled, failed, dropped, expired>>
    BY <1>8 DEF Evict, vars, broker, history, stats
  <2>2. QED
    BY <1>1, <2>1
<1>9. QED
  BY <1>2, <1>3, <1>4, <1>5, <1>6, <1>7, <1>8 DEF Next, Work

\* The Kafka monitors read the topic at least once: whatever dies, is evicted or takes over,
\* the committed offset never goes back and passes only what was dealt with or lost
\* (_process_messages, with the commits, the rebalances and the close of the library).
THEOREM ReadsAtLeastOnce == Spec => ReaderSpec
<1>1. Init => Reader!Init
  BY DEF Init, Reader!Init, settled
<1>2. GroupInv /\ [Next]_vars => [Reader!Next]_Reader!vars
  BY ReaderStep
<1>3. QED
  BY <1>1, <1>2, GroupInvariant, PTL DEF Spec, ReaderSpec, Reader!Spec
=============================================================================
