----------------------------- MODULE Stats_proofs -----------------------------
(***************************************************************************)
(* Theorems about the statistics: about StatsCollector, for every set of   *)
(* processes, window and cycle time, and about ClusterStats, for every     *)
(* number of processes, machines and types of spiders and every timing.    *)
(***************************************************************************)
EXTENDS StatsCollector, ClusterStats, FiniteSetTheorems, TLAPS

----------------------------------------------------------------------------
(***************************************************************************)
(* StatsCollector: the inductive invariants.                               *)
(***************************************************************************)
\* A thread that is awake works at one tick of the clock, and a call of increment ends one
\* tick after it has read the time.
OnTime(p) ==
    /\ start[p] <= now
    /\ pc[p] = "sleep" => wake[p] >= now /\ wake[p] <= now + CycleTime
    /\ stamp[p] # None => pc[p] # "down" /\ stamp[p] <= now /\ stamp[p] >= now - 1
    /\ pc[p] = "remove" => cutoff[p] = now - Window

\* The key of a process is that of its window; the worker sets it a step after the window.
OwnKey(p) == IF ~roll THEN Plain
             ELSE IF pc[p] = "rekey" THEN start[p] - Window ELSE start[p]

Keyed(p) ==
    /\ pc[p] # "down" => key[p] = OwnKey(p)
    /\ pc[p] = "rekey" => roll

\* Nothing stored lies in the future, and without windows it all has the same key.
Past ==
    /\ IsFiniteSet(written)
    /\ reset <= now
    /\ \A h \in written : h.at <= now
    /\ ~roll => \A h \in written : h.key = Plain

ClockInv ==
    /\ StatsTypeOK
    /\ kind = "rolling" => ~roll
    /\ \A p \in Processes : OnTime(p) /\ Keyed(p)
    /\ Past

\* InItsWindow: a worker is no later than its cycles and the errors it met; it catches up
\* with a window at a time.
Awake(p) == IF pc[p] = "sleep" THEN wake[p] ELSE now

Late(p) ==
    pc[p] # "down" =>
        /\ Awake(p) < start[p] + Window + Delay
        /\ pc[p] = "rekey" => now < start[p] + Delay

LateInv == roll => \A p \in Processes : Late(p)

\* RollingCounts: either the worker has met nothing but errors since it was launched, or what
\* it has left in Redis is no older than that, even when it wakes again.
OnlyErrors(p) ==
    pc[p] # "roll" /\ Awake(p) < start[p] + Window + CycleTime * faults

Swept(p) ==
    \A h \in store : Awake(p) - h.at <= Window + (IF pc[p] = "roll" THEN 0 ELSE Delay)

SweptInv ==
    kind = "rolling" => \A p \in Processes : pc[p] # "down" => OnlyErrors(p) \/ Swept(p)

RecentKept == kind = "rolling" => \A h \in written : now - h.at < Window => h \in store

----------------------------------------------------------------------------
LEMMA Constants ==
  /\ Window \in Nat /\ Window >= 1 /\ CycleTime \in Nat /\ CycleTime >= 1 /\ CycleTime <= Window
  /\ MaxTime \in Nat /\ MaxHits \in Nat /\ MaxFaults \in Nat /\ MaxCrashes \in Nat
<1>1. {Window, CycleTime} \subseteq Nat \ {0} /\ CycleTime <= Window
  BY StatsAssumption DEF StatsAssumption
<1>2. {MaxTime, MaxHits, MaxFaults, MaxCrashes} \subseteq Nat
  BY StatsAssumption DEF StatsAssumption
<1>3. Window \in Nat /\ Window # 0 /\ CycleTime \in Nat /\ CycleTime # 0
  BY <1>1
<1>4. QED
  BY <1>1, <1>2, <1>3

\* The start of the window of a time (ThreadedCounter.__init__).
LEMMA WindowStart ==
  ASSUME NEW t \in Nat
  PROVE  t - (t % Window) \in Nat /\ t - (t % Window) <= t /\ t < t - (t % Window) + Window
<1>1. Window \in Nat /\ Window > 0
  BY Constants
<1>2. t % Window \in 0..(Window - 1)
  BY <1>1
<1>3. t = Window * (t \div Window) + (t % Window)
  BY <1>1
<1>4. t \div Window \in Nat
  BY <1>1
<1>5. Window * (t \div Window) \in Nat
  BY <1>1, <1>4
<1>6. QED
  BY <1>1, <1>2, <1>3, <1>5

\* An error of Redis delays a worker by one more cycle.
LEMMA DelayFacts ==
  ASSUME faults \in Nat
  PROVE  CycleTime * faults \in Nat /\ Delay \in Nat /\ Delay = CycleTime + CycleTime * faults
BY Constants DEF Delay

LEMMA DelayGrows ==
  ASSUME faults \in Nat, faults' = faults + 1
  PROVE  Delay' = Delay + CycleTime /\ CycleTime * faults' = CycleTime * faults + CycleTime
BY Constants DEF Delay

\* A step of one process leaves the windows and the threads of the others alone.
ProcessStep(p) ==
    Launch(p) \/ Crash(p) \/ Worker(p) \/ Increment(p) \/ SetStart(p) \/ Add(p)

LEMMA OthersStay ==
  ASSUME StatsTypeOK, NEW p \in Processes, ProcessStep(p), NEW q \in Processes, q # p
  PROVE  /\ pc'[q] = pc[q] /\ wake'[q] = wake[q] /\ cutoff'[q] = cutoff[q]
         /\ start'[q] = start[q] /\ key'[q] = key[q] /\ stamp'[q] = stamp[q]
<1> USE DEF config, window, worker, redis
<1>1. pc'[q] = pc[q]
  BY DEF ProcessStep, Launch, Crash, Worker, Expire, Remove, RemoveFails, Roll, Rekey, Wake,
     Increment, SetStart, Add, Goto, Sleep, StatsTypeOK
<1>2. wake'[q] = wake[q] /\ cutoff'[q] = cutoff[q]
  BY DEF ProcessStep, Launch, Crash, Worker, Expire, Remove, RemoveFails, Roll, Rekey, Wake,
     Increment, SetStart, Add, Sleep, StatsTypeOK
<1>3. start'[q] = start[q] /\ key'[q] = key[q]
  BY DEF ProcessStep, Launch, Crash, Worker, Expire, Remove, RemoveFails, Roll, Rekey, Wake,
     Increment, SetStart, Add, StatsTypeOK
<1>4. stamp'[q] = stamp[q]
  BY DEF ProcessStep, Launch, Crash, Worker, Expire, Remove, RemoveFails, Roll, Rekey, Wake,
     Increment, SetStart, Add, StatsTypeOK
<1>5. QED
  BY <1>1, <1>2, <1>3, <1>4

----------------------------------------------------------------------------
LEMMA GotoType ==
  ASSUME StatsTypeOK, NEW p \in Processes,
         NEW to \in {"down", "expire", "remove", "roll", "rekey", "sleep"}, Goto(p, to)
  PROVE  /\ pc' \in [Processes -> {"down", "expire", "remove", "roll", "rekey", "sleep"}]
         /\ pc'[p] = to
BY DEF StatsTypeOK, Goto

LEMMA SleepType ==
  ASSUME StatsTypeOK, NEW p \in Processes, Sleep(p)
  PROVE  /\ pc' \in [Processes -> {"down", "expire", "remove", "roll", "rekey", "sleep"}]
         /\ wake' \in [Processes -> 0..MaxTime + CycleTime]
         /\ pc'[p] = "sleep" /\ wake'[p] = now + CycleTime
<1>1. now + CycleTime \in 0..MaxTime + CycleTime
  BY Constants DEF StatsTypeOK, Times
<1>2. QED
  BY <1>1, GotoType DEF StatsTypeOK, Sleep

\* Every variable keeps its type.
LEMMA TypeStep ==
  ASSUME ClockInv, [Next]_vars
  PROVE  StatsTypeOK' /\ IsFiniteSet(written)'
<1> USE DEF config, window, worker, redis
<1>0. StatsTypeOK /\ IsFiniteSet(written)
  BY DEF ClockInv, Past
<1>1. ASSUME NEW p \in Processes, Launch(p) PROVE StatsTypeOK'
  <2> DEFINE begin == now - (now % Window)
  <2>1. begin \in Times
    BY <1>0, Constants, WindowStart DEF StatsTypeOK, Times
  <2>2. FinalKey(begin) \in Times \cup {Plain}
    BY <2>1 DEF FinalKey
  <2>3. start' = [start EXCEPT ![p] = begin] /\ key' = [key EXCEPT ![p] = FinalKey(begin)]
    BY <1>1 DEF Launch
  <2> HIDE DEF begin
  <2>4. start' \in [Processes -> Times] /\ key' \in [Processes -> Times \cup {Plain}]
    BY <1>0, <2>1, <2>2, <2>3 DEF StatsTypeOK
  <2>5. pc' \in [Processes -> {"down", "expire", "remove", "roll", "rekey", "sleep"}]
    BY <1>0, <1>1, GotoType DEF Launch
  <2>6. QED
    BY <1>0, <1>1, <2>4, <2>5 DEF Launch, StatsTypeOK
<1>2. ASSUME NEW p \in Processes, Crash(p) PROVE StatsTypeOK'
  <2>1. pc' \in [Processes -> {"down", "expire", "remove", "roll", "rekey", "sleep"}]
    BY <1>0, <1>2, GotoType DEF Crash
  <2>2. stamp' \in [Processes -> Times \cup {None}] /\ crashes' \in 0..MaxCrashes
    BY <1>0, <1>2, Constants DEF Crash, StatsTypeOK
  <2>3. QED
    BY <1>0, <1>2, <2>1, <2>2 DEF Crash, StatsTypeOK
<1>3. ASSUME NEW p \in Processes, Expire(p) PROVE StatsTypeOK'
  <2>1. Expires \in -Window..MaxTime
    BY <1>0, Constants DEF Expires, StatsTypeOK, Times
  <2>2. cutoff' \in [Processes -> -Window..MaxTime]
    BY <1>0, <1>3, <2>1 DEF Expire, StatsTypeOK
  <2>3. pc' \in [Processes -> {"down", "expire", "remove", "roll", "rekey", "sleep"}]
    BY <1>0, <1>3, GotoType DEF Expire
  <2>4. QED
    BY <1>0, <1>3, <2>2, <2>3 DEF Expire, StatsTypeOK
<1>4. ASSUME NEW p \in Processes, Remove(p) PROVE StatsTypeOK'
  <2>1. pc' \in [Processes -> {"down", "expire", "remove", "roll", "rekey", "sleep"}]
    BY <1>0, <1>4, GotoType DEF Remove
  <2>2. store' \subseteq written'
    BY <1>0, <1>4 DEF Remove, StatsTypeOK
  <2>3. QED
    BY <1>0, <1>4, <2>1, <2>2 DEF Remove, StatsTypeOK
<1>5. ASSUME NEW p \in Processes, RemoveFails(p) PROVE StatsTypeOK'
  <2>1. /\ pc' \in [Processes -> {"down", "expire", "remove", "roll", "rekey", "sleep"}]
        /\ wake' \in [Processes -> 0..MaxTime + CycleTime]
    BY <1>0, <1>5, SleepType DEF RemoveFails
  <2>2. faults' \in 0..MaxFaults
    BY <1>0, <1>5, Constants DEF RemoveFails, StatsTypeOK
  <2>3. QED
    BY <1>0, <1>5, <2>1, <2>2 DEF RemoveFails, StatsTypeOK
<1>6. ASSUME NEW p \in Processes, Roll(p) PROVE StatsTypeOK'
  <2>1. CASE Sleep(p) /\ UNCHANGED start
    <3>1. /\ pc' \in [Processes -> {"down", "expire", "remove", "roll", "rekey", "sleep"}]
          /\ wake' \in [Processes -> 0..MaxTime + CycleTime]
      BY <1>0, <2>1, SleepType
    <3>2. QED
      BY <1>0, <1>6, <2>1, <3>1 DEF Roll, StatsTypeOK
  <2>2. CASE /\ IsExpired(p) /\ start' = [start EXCEPT ![p] = @ + Window]
             /\ Goto(p, "rekey") /\ UNCHANGED wake
    <3>1. start[p] + Window \in Times
      BY <1>0, <2>2, Constants DEF IsExpired, StatsTypeOK, Times
    <3>2. start' \in [Processes -> Times]
      BY <1>0, <2>2, <3>1 DEF StatsTypeOK
    <3>3. pc' \in [Processes -> {"down", "expire", "remove", "roll", "rekey", "sleep"}]
      BY <1>0, <2>2, GotoType
    <3>4. QED
      BY <1>0, <1>6, <2>2, <3>2, <3>3 DEF Roll, StatsTypeOK
  <2>3. QED
    BY <1>6, <2>1, <2>2 DEF Roll
<1>7. ASSUME NEW p \in Processes, Rekey(p) PROVE StatsTypeOK'
  <2>1. /\ pc' \in [Processes -> {"down", "expire", "remove", "roll", "rekey", "sleep"}]
        /\ wake' \in [Processes -> 0..MaxTime + CycleTime]
    BY <1>0, <1>7, SleepType DEF Rekey
  <2>2. key' \in [Processes -> Times \cup {Plain}]
    BY <1>0, <1>7 DEF Rekey, FinalKey, StatsTypeOK
  <2>3. QED
    BY <1>0, <1>7, <2>1, <2>2 DEF Rekey, StatsTypeOK
<1>8. ASSUME NEW p \in Processes, Wake(p) PROVE StatsTypeOK'
  <2>1. pc' \in [Processes -> {"down", "expire", "remove", "roll", "rekey", "sleep"}]
    BY <1>0, <1>8, GotoType DEF Wake
  <2>2. QED
    BY <1>0, <1>8, <2>1 DEF Wake, StatsTypeOK
<1>9. ASSUME NEW p \in Processes, Increment(p) PROVE StatsTypeOK'
  <2>1. stamp' \in [Processes -> Times \cup {None}]
    BY <1>0, <1>9 DEF Increment, StatsTypeOK
  <2>2. QED
    BY <1>0, <1>9, <2>1 DEF Increment, StatsTypeOK
<1>10. ASSUME NEW p \in Processes, SetStart(p) PROVE StatsTypeOK'
  <2>1. store' \subseteq written' /\ init' \subseteq Processes /\ reset' \in Times \cup {None}
    BY <1>0, <1>10 DEF SetStart, StatsTypeOK
  <2>2. QED
    BY <1>0, <1>10, <2>1 DEF SetStart, StatsTypeOK
<1>11. ASSUME NEW p \in Processes, Add(p) PROVE StatsTypeOK' /\ IsFiniteSet(written)'
  <2> DEFINE hit == [key |-> key[p], at |-> stamp[p], n |-> Cardinality(written) + 1]
  <2>1. stamp[p] \in Times /\ key[p] \in Times \cup {Plain}
    BY <1>0, <1>11 DEF Add, StatsTypeOK
  <2>2. Cardinality(written) + 1 \in 1..MaxHits
    BY <1>0, <1>11, FS_CardinalityType, Constants DEF Add
  <2>3. hit \in Hits
    BY <2>1, <2>2 DEF Hits
  <2>4. store' = store \cup {hit} /\ written' = written \cup {hit}
    BY <1>11 DEF Add
  <2> HIDE DEF hit
  <2>5. store' \subseteq written' /\ written' \subseteq Hits
    BY <1>0, <2>3, <2>4 DEF StatsTypeOK
  <2>6. IsFiniteSet(written')
    BY <1>0, <2>4, FS_AddElement
  <2>7. stamp' \in [Processes -> Times \cup {None}]
    BY <1>0, <1>11 DEF Add, StatsTypeOK
  <2>8. StatsTypeOK'
    BY <1>0, <1>11, <2>5, <2>7 DEF Add, StatsTypeOK
  <2>9. QED
    BY <2>6, <2>8
<1>12. CASE Tick
  <2>1. now' \in Times
    BY <1>0, <1>12, Constants DEF Tick, StatsTypeOK, Times
  <2>2. QED
    BY <1>0, <1>12, <2>1 DEF Tick, StatsTypeOK
<1>13. CASE UNCHANGED vars
  BY <1>0, <1>13 DEF vars, StatsTypeOK
<1>14. StatsTypeOK'
  BY <1>1, <1>2, <1>3, <1>4, <1>5, <1>6, <1>7, <1>8, <1>9, <1>10, <1>11, <1>12, <1>13
  DEF Next, Worker
<1>15. IsFiniteSet(written)'
  <2>1. UNCHANGED written \/ \E p \in Processes : Add(p)
    BY DEF Next, Worker, vars, Launch, Crash, Expire, Remove, RemoveFails, Roll, Rekey, Wake,
       Increment, SetStart, Tick
  <2>2. QED
    BY <1>0, <1>11, <2>1
<1>16. QED
  BY <1>14, <1>15

----------------------------------------------------------------------------
(***************************************************************************)
(* What each step does to the process that takes it.                       *)
(***************************************************************************)
LEMMA TypeFacts ==
  ASSUME StatsTypeOK, NEW p \in Processes
  PROVE  /\ now \in Nat /\ start[p] \in Nat /\ key[p] \in Int /\ wake[p] \in Nat
         /\ cutoff[p] \in Int /\ stamp[p] \in Int /\ faults \in Nat /\ reset \in Int
<1>1. now \in Nat /\ faults \in Nat /\ reset \in Int
  BY Constants DEF StatsTypeOK, Times, None
<1>2. start[p] \in Nat /\ wake[p] \in Nat
  BY Constants DEF StatsTypeOK, Times
<1>3. key[p] \in Int /\ stamp[p] \in Int
  BY Constants DEF StatsTypeOK, Times, None, Plain
<1>4. cutoff[p] \in Int
  BY Constants DEF StatsTypeOK
<1>5. QED
  BY <1>1, <1>2, <1>3, <1>4

LEMMA HitFacts ==
  ASSUME StatsTypeOK, NEW h \in written
  PROVE  h.at \in Nat /\ h.key \in Int
<1>1. h \in Hits
  BY DEF StatsTypeOK
<1>2. QED
  BY <1>1, Constants DEF Hits, Times, Plain

LEMMA LaunchDoes ==
  ASSUME StatsTypeOK, NEW p \in Processes, Launch(p)
  PROVE  /\ start'[p] \in Nat /\ start'[p] <= now /\ now < start'[p] + Window
         /\ key'[p] = FinalKey(start'[p]) /\ pc'[p] = "expire" /\ pc[p] = "down"
         /\ wake'[p] = wake[p] /\ stamp'[p] = stamp[p] /\ cutoff'[p] = cutoff[p]
         /\ UNCHANGED <<kind, roll, now, store, written, reset, faults>>
<1> DEFINE begin == now - (now % Window)
<1>1. begin \in Nat /\ begin <= now /\ now < begin + Window
  BY WindowStart, TypeFacts
<1>2. start' = [start EXCEPT ![p] = begin] /\ key' = [key EXCEPT ![p] = FinalKey(begin)]
  BY DEF Launch
<1> HIDE DEF begin
<1>3. start'[p] = begin /\ key'[p] = FinalKey(begin)
  BY <1>2 DEF StatsTypeOK
<1>4. pc'[p] = "expire" /\ pc[p] = "down"
  BY GotoType DEF Launch
<1>5. QED
  BY <1>1, <1>3, <1>4 DEF Launch, config, redis

LEMMA CrashDoes ==
  ASSUME StatsTypeOK, NEW p \in Processes, Crash(p)
  PROVE  /\ pc'[p] = "down" /\ stamp'[p] = None
         /\ UNCHANGED <<kind, roll, now, start, key, wake, cutoff, store, written, reset, faults>>
<1>1. pc'[p] = "down" /\ stamp'[p] = None
  BY GotoType DEF Crash, StatsTypeOK
<1>2. QED
  BY <1>1 DEF Crash, config, window, redis

LEMMA ExpireDoes ==
  ASSUME StatsTypeOK, NEW p \in Processes, Expire(p)
  PROVE  /\ pc[p] = "expire"
         /\ \/ pc'[p] = "remove" /\ cutoff'[p] = now - Window
            \/ pc'[p] = "roll" /\ kind # "rolling"
         /\ UNCHANGED <<kind, roll, now, start, key, wake, stamp, store, written, reset, faults>>
<1>1. CASE kind \in {"rolling", "time"}
  <2>1. pc'[p] = "remove"
    BY <1>1, GotoType DEF Expire
  <2>2. cutoff'[p] = now - Window
    BY <1>1 DEF Expire, Expires, StatsTypeOK
  <2>3. QED
    BY <2>1, <2>2 DEF Expire, config, window, redis
<1>2. CASE kind \notin {"rolling", "time"}
  <2>1. pc'[p] = "roll"
    BY <1>2, GotoType DEF Expire
  <2>2. QED
    BY <1>2, <2>1 DEF Expire, config, window, redis
<1>3. QED
  BY <1>1, <1>2

LEMMA RemoveDoes ==
  ASSUME StatsTypeOK, NEW p \in Processes, Remove(p)
  PROVE  /\ pc[p] = "remove" /\ pc'[p] = "roll"
         /\ store' = {h \in store : h.key = key[p] => ~TooOld(p, h.at)}
         /\ UNCHANGED <<kind, roll, now, start, key, wake, cutoff, stamp, written, reset, faults>>
<1>1. pc'[p] = "roll"
  BY GotoType DEF Remove
<1>2. QED
  BY <1>1 DEF Remove, config, window

LEMMA RemoveFailsDoes ==
  ASSUME StatsTypeOK, NEW p \in Processes, RemoveFails(p)
  PROVE  /\ pc[p] = "remove" /\ pc'[p] = "sleep" /\ wake'[p] = now + CycleTime
         /\ faults' = faults + 1
         /\ UNCHANGED <<kind, roll, now, start, key, cutoff, stamp, store, written, reset>>
<1>1. pc'[p] = "sleep" /\ wake'[p] = now + CycleTime
  BY SleepType DEF RemoveFails
<1>2. QED
  BY <1>1 DEF RemoveFails, config, window, redis

LEMMA RollDoes ==
  ASSUME StatsTypeOK, NEW p \in Processes, Roll(p)
  PROVE  /\ pc[p] = "roll"
         /\ \/ /\ roll /\ IsExpired(p) /\ pc'[p] = "rekey"
               /\ start'[p] = start[p] + Window
            \/ /\ ~(roll /\ IsExpired(p)) /\ pc'[p] = "sleep"
               /\ wake'[p] = now + CycleTime /\ start'[p] = start[p]
         /\ UNCHANGED <<kind, roll, now, key, cutoff, stamp, store, written, reset, faults>>
<1>1. CASE roll /\ IsExpired(p)
  <2>1. start'[p] = start[p] + Window
    BY <1>1 DEF Roll, StatsTypeOK
  <2>2. pc'[p] = "rekey"
    BY <1>1, GotoType DEF Roll
  <2>3. QED
    BY <1>1, <2>1, <2>2 DEF Roll, config, redis
<1>2. CASE ~(roll /\ IsExpired(p))
  <2>1. pc'[p] = "sleep" /\ wake'[p] = now + CycleTime
    BY <1>2, SleepType DEF Roll
  <2>2. QED
    BY <1>2, <2>1 DEF Roll, config, redis
<1>3. QED
  BY <1>1, <1>2

LEMMA RekeyDoes ==
  ASSUME StatsTypeOK, NEW p \in Processes, Rekey(p)
  PROVE  /\ pc[p] = "rekey" /\ pc'[p] = "sleep" /\ wake'[p] = now + CycleTime
         /\ key'[p] = FinalKey(start[p])
         /\ UNCHANGED <<kind, roll, now, start, cutoff, stamp, store, written, reset, faults>>
<1>1. pc'[p] = "sleep" /\ wake'[p] = now + CycleTime
  BY SleepType DEF Rekey
<1>2. key'[p] = FinalKey(start[p])
  BY DEF Rekey, StatsTypeOK
<1>3. QED
  BY <1>1, <1>2 DEF Rekey, config, redis

LEMMA WakeDoes ==
  ASSUME StatsTypeOK, NEW p \in Processes, Wake(p)
  PROVE  /\ pc[p] = "sleep" /\ wake[p] <= now /\ pc'[p] = "expire"
         /\ UNCHANGED <<kind, roll, now, start, key, wake, cutoff, stamp, store, written, reset,
                        faults>>
<1>1. pc'[p] = "expire"
  BY GotoType DEF Wake
<1>2. QED
  BY <1>1 DEF Wake, config, window, redis

LEMMA IncrementDoes ==
  ASSUME StatsTypeOK, NEW p \in Processes, Increment(p)
  PROVE  /\ pc[p] # "down" /\ stamp'[p] = now
         /\ UNCHANGED <<kind, roll, now, start, key, pc, wake, cutoff, store, written, reset,
                        faults>>
<1>1. stamp'[p] = now
  BY DEF Increment, StatsTypeOK
<1>2. QED
  BY <1>1 DEF Increment, config, window, worker, redis

LEMMA SetStartDoes ==
  ASSUME StatsTypeOK, NEW p \in Processes, SetStart(p)
  PROVE  /\ kind = "counter" /\ reset' = now
         /\ store' = {h \in store : h.key # key[p]}
         /\ UNCHANGED <<kind, roll, now, start, key, pc, wake, cutoff, stamp, written, faults>>
BY DEF SetStart, config, window, worker

LEMMA AddDoes ==
  ASSUME StatsTypeOK, NEW p \in Processes, Add(p)
  PROVE  /\ stamp[p] # None /\ stamp'[p] = None
         /\ \E hit : /\ hit.key = key[p] /\ hit.at = stamp[p]
                     /\ store' = store \cup {hit} /\ written' = written \cup {hit}
         /\ UNCHANGED <<kind, roll, now, start, key, pc, wake, cutoff, reset, faults>>
<1>1. stamp'[p] = None /\ stamp[p] # None
  BY DEF Add, StatsTypeOK
<1> DEFINE hit == [key |-> key[p], at |-> stamp[p], n |-> Cardinality(written) + 1]
<1>2. hit.key = key[p] /\ hit.at = stamp[p]
  OBVIOUS
<1>3. store' = store \cup {hit} /\ written' = written \cup {hit}
  BY DEF Add
<1> HIDE DEF hit
<1>4. QED
  BY <1>1, <1>2, <1>3 DEF Add, config, window, worker

----------------------------------------------------------------------------
(***************************************************************************)
(* ClockInv.                                                               *)
(***************************************************************************)
\* The class of a counter is fixed, and no step of a process takes time.
LEMMA StepKeeps ==
  ASSUME StatsTypeOK, NEW p \in Processes, ProcessStep(p)
  PROVE  /\ kind' = kind /\ roll' = roll /\ now' = now
         /\ faults' \in {faults, faults + 1}
<1>1. kind' = kind /\ roll' = roll /\ now' = now
  BY DEF ProcessStep, Launch, Crash, Worker, Expire, Remove, RemoveFails, Roll, Rekey, Wake,
     Increment, SetStart, Add, config
<1>2. faults' = faults \/ faults' = faults + 1
  BY DEF ProcessStep, Launch, Crash, Worker, Expire, Remove, RemoveFails, Roll, Rekey, Wake,
     Increment, SetStart, Add
<1>3. QED
  BY <1>1, <1>2

LEMMA TickDoes ==
  ASSUME StatsTypeOK, Tick
  PROVE  /\ now' = now + 1
         /\ \A p \in Processes : pc[p] = "down" \/ (pc[p] = "sleep" /\ wake[p] > now)
         /\ \A p \in Processes : stamp[p] \in {now, None}
         /\ UNCHANGED <<kind, roll, start, key, pc, wake, cutoff, stamp, store, written, reset,
                        faults>>
BY DEF Tick, config, window, worker, redis

\* The process that takes a step.
LEMMA OwnClock ==
  ASSUME ClockInv, NEW p \in Processes, ProcessStep(p)
  PROVE  (OnTime(p) /\ Keyed(p))'
<1>0. StatsTypeOK /\ OnTime(p) /\ Keyed(p)
  BY DEF ClockInv
<1>1. /\ now \in Nat /\ start[p] \in Nat /\ key[p] \in Int /\ wake[p] \in Nat
      /\ cutoff[p] \in Int /\ stamp[p] \in Int
  BY <1>0, TypeFacts
<1>2. CASE Launch(p)
  BY <1>0, <1>1, <1>2, LaunchDoes DEF OnTime, Keyed, OwnKey, FinalKey
<1>3. CASE Crash(p)
  BY <1>0, <1>1, <1>3, CrashDoes DEF OnTime, Keyed
<1>4. CASE Expire(p)
  BY <1>0, <1>1, <1>4, ExpireDoes DEF OnTime, Keyed, OwnKey
<1>5. CASE Remove(p)
  BY <1>0, <1>1, <1>5, RemoveDoes DEF OnTime, Keyed, OwnKey
<1>6. CASE RemoveFails(p)
  BY <1>0, <1>1, <1>6, RemoveFailsDoes, Constants DEF OnTime, Keyed, OwnKey
<1>7. CASE Roll(p)
  <2>1. OnTime(p)'
    BY <1>0, <1>1, <1>7, RollDoes, Constants DEF OnTime, IsExpired
  <2>2. Keyed(p)'
    BY <1>0, <1>1, <1>7, RollDoes, Constants DEF Keyed, OwnKey
  <2>3. QED
    BY <2>1, <2>2
<1>8. CASE Rekey(p)
  BY <1>0, <1>1, <1>8, RekeyDoes, Constants DEF OnTime, Keyed, OwnKey, FinalKey
<1>9. CASE Wake(p)
  BY <1>0, <1>1, <1>9, WakeDoes DEF OnTime, Keyed, OwnKey
<1>10. CASE Increment(p)
  BY <1>0, <1>1, <1>10, IncrementDoes DEF OnTime, Keyed, OwnKey
<1>11. CASE SetStart(p)
  BY <1>0, <1>1, <1>11, SetStartDoes DEF OnTime, Keyed, OwnKey
<1>12. CASE Add(p)
  BY <1>0, <1>1, <1>12, AddDoes DEF OnTime, Keyed, OwnKey
<1>13. QED
  BY <1>2, <1>3, <1>4, <1>5, <1>6, <1>7, <1>8, <1>9, <1>10, <1>11, <1>12
  DEF ProcessStep, Worker

\* What is added has the key and the time of its process.
LEMMA StoredBy ==
  ASSUME StatsTypeOK, NEW p \in Processes, ProcessStep(p)
  PROVE  \/ written' = written /\ store' \subseteq store
         \/ /\ UNCHANGED <<pc, wake, start, key, faults>> /\ stamp[p] # None
            /\ \E hit : /\ hit.key = key[p] /\ hit.at = stamp[p]
                        /\ store' = store \cup {hit} /\ written' = written \cup {hit}
<1>1. CASE Add(p)
  BY <1>1, AddDoes
<1>2. CASE Remove(p)
  BY <1>2, RemoveDoes
<1>3. CASE SetStart(p)
  BY <1>3, SetStartDoes
<1>4. CASE ~(Add(p) \/ Remove(p) \/ SetStart(p))
  BY <1>4 DEF ProcessStep, Worker, Launch, Crash, Expire, RemoveFails, Roll, Rekey, Wake,
     Increment, redis
<1>5. QED
  BY <1>1, <1>2, <1>3, <1>4

LEMMA ClockStep ==
  ASSUME ClockInv, [Next]_vars
  PROVE  ClockInv'
<1>0. StatsTypeOK /\ (kind = "rolling" => ~roll) /\ Past
  BY DEF ClockInv
<1>1. StatsTypeOK' /\ IsFiniteSet(written')
  BY TypeStep
<1>2. ASSUME NEW p \in Processes, ProcessStep(p) PROVE ClockInv'
  <2>1. kind' = kind /\ roll' = roll /\ now' = now
    BY <1>0, <1>2, StepKeeps
  <2>2. ASSUME NEW q \in Processes PROVE (OnTime(q) /\ Keyed(q))'
    <3>1. CASE q = p
      BY <1>2, <3>1, OwnClock
    <3>2. CASE q # p
      <4>1. OnTime(q) /\ Keyed(q)
        BY DEF ClockInv
      <4>2. /\ pc'[q] = pc[q] /\ wake'[q] = wake[q] /\ cutoff'[q] = cutoff[q]
            /\ start'[q] = start[q] /\ key'[q] = key[q] /\ stamp'[q] = stamp[q]
        BY <1>0, <1>2, <3>2, OthersStay
      <4>3. QED
        BY <4>1, <4>2, <2>1 DEF OnTime, Keyed, OwnKey
    <3>3. QED
      BY <3>1, <3>2
  <2>3. (reset <= now)'
    <3>1. reset' = reset \/ reset' = now
      BY <1>2 DEF ProcessStep, Worker, Launch, Crash, Expire, Remove, RemoveFails, Roll, Rekey,
         Wake, Increment, SetStart, Add, redis
    <3>2. now \in Nat
      BY <1>0, TypeFacts
    <3>3. QED
      BY <1>0, <2>1, <3>1, <3>2 DEF Past
  <2>4. ASSUME NEW h \in written' PROVE h.at <= now /\ (~roll => h.key = Plain)
    <3>1. CASE h \in written
      BY <1>0, <3>1 DEF Past
    <3>2. CASE h \notin written
      <4>1. h.key = key[p] /\ h.at = stamp[p] /\ stamp[p] # None
        BY <1>0, <1>2, <2>4, <3>2, StoredBy
      <4>2. OnTime(p) /\ Keyed(p)
        BY DEF ClockInv
      <4>3. QED
        BY <4>1, <4>2 DEF OnTime, Keyed, OwnKey
    <3>3. QED
      BY <3>1, <3>2
  <2>5. Past'
    BY <1>1, <2>1, <2>3, <2>4 DEF Past
  <2>6. QED
    BY <1>0, <1>1, <2>1, <2>2, <2>5 DEF ClockInv
<1>3. CASE Tick
  <2>1. /\ now' = now + 1
        /\ UNCHANGED <<kind, roll, start, key, pc, wake, cutoff, stamp, written, reset>>
    BY <1>0, <1>3, TickDoes
  <2>2. ASSUME NEW q \in Processes PROVE (OnTime(q) /\ Keyed(q))'
    <3>1. OnTime(q) /\ Keyed(q)
      BY DEF ClockInv
    <3>2. /\ pc[q] = "down" \/ (pc[q] = "sleep" /\ wake[q] > now)
          /\ stamp[q] \in {now, None}
      BY <1>0, <1>3, TickDoes
    <3>3. /\ now \in Nat /\ start[q] \in Nat /\ wake[q] \in Nat /\ stamp[q] \in Int
          /\ CycleTime \in Nat
      BY <1>0, TypeFacts, Constants
    <3>4. OnTime(q)'
      BY <2>1, <3>1, <3>2, <3>3 DEF OnTime
    <3>5. Keyed(q)'
      BY <2>1, <3>1 DEF Keyed, OwnKey
    <3>6. QED
      BY <3>4, <3>5
  <2>3. Past'
    <3>1. now \in Nat /\ reset \in Int
      BY <1>0, Constants DEF StatsTypeOK, Times, None
    <3>2. \A h \in written : h.at <= now /\ h.at \in Nat
      BY <1>0, HitFacts DEF Past
    <3>3. reset <= now'
      BY <1>0, <2>1, <3>1 DEF Past
    <3>4. \A h \in written : h.at <= now'
      BY <2>1, <3>1, <3>2
    <3>5. QED
      BY <1>0, <1>1, <2>1, <3>3, <3>4 DEF Past
  <2>4. QED
    BY <1>0, <1>1, <2>1, <2>2, <2>3 DEF ClockInv
<1>4. CASE UNCHANGED vars
  BY <1>1, <1>4 DEF vars, config, window, worker, redis, ClockInv, OnTime, Keyed, OwnKey, Past
<1>5. QED
  BY <1>2, <1>3, <1>4 DEF Next, ProcessStep

----------------------------------------------------------------------------
(***************************************************************************)
(* InItsWindow.                                                            *)
(***************************************************************************)
\* A worker may only become later.
LEMMA DelayStays ==
  ASSUME faults \in Nat, faults' \in {faults, faults + 1}
  PROVE  /\ Delay' \in Nat /\ Delay' >= Delay
         /\ CycleTime * faults' \in Nat /\ CycleTime * faults' >= CycleTime * faults
<1> DEFINE d == Delay  m == CycleTime * faults  dd == Delay'  mm == CycleTime * faults'
<1>1. m \in Nat /\ d \in Nat /\ CycleTime \in Nat
  BY DelayFacts, Constants
<1>2. (dd = d /\ mm = m) \/ (dd = d + CycleTime /\ mm = m + CycleTime)
  <2>1. CASE faults' = faults
    BY <2>1 DEF Delay
  <2>2. CASE faults' = faults + 1
    BY <2>2, DelayGrows
  <2>3. QED
    BY <2>1, <2>2
<1> HIDE DEF d, m, dd, mm
<1>3. dd \in Nat /\ dd >= d /\ mm \in Nat /\ mm >= m
  BY <1>1, <1>2
<1>4. QED
  BY <1>3 DEF d, m, dd, mm

LEMMA OwnLate ==
  ASSUME ClockInv, roll, NEW p \in Processes, Late(p), ProcessStep(p)
  PROVE  Late(p)'
<1>0. StatsTypeOK /\ OnTime(p) /\ Keyed(p)
  BY DEF ClockInv
<1>1. now \in Nat /\ start[p] \in Nat /\ wake[p] \in Nat /\ faults \in Nat
  BY <1>0, TypeFacts
<1>2. /\ Delay \in Nat /\ Delay >= CycleTime
      /\ Window \in Nat /\ CycleTime \in Nat /\ CycleTime >= 1 /\ CycleTime <= Window
  BY <1>1, DelayFacts, Constants
<1>3. CASE Launch(p)
  <2>1. start'[p] \in Nat /\ now < start'[p] + Window /\ pc'[p] = "expire" /\ now' = now
    BY <1>0, <1>3, LaunchDoes
  <2>2. Delay' = Delay
    BY <1>0, <1>3, LaunchDoes DEF Delay
  <2>3. QED
    BY <1>1, <1>2, <2>1, <2>2 DEF Late, Awake
<1>4. CASE Crash(p)
  BY <1>0, <1>4, CrashDoes DEF Late
<1>5. CASE Expire(p)
  <2>1. UNCHANGED <<now, start>> /\ pc[p] = "expire" /\ pc'[p] \in {"remove", "roll"}
    BY <1>0, <1>5, ExpireDoes
  <2>2. Delay' = Delay
    BY <1>0, <1>5, ExpireDoes DEF Delay
  <2>3. QED
    BY <2>1, <2>2 DEF Late, Awake
<1>6. CASE Remove(p)
  <2>1. UNCHANGED <<now, start>> /\ pc[p] = "remove" /\ pc'[p] = "roll"
    BY <1>0, <1>6, RemoveDoes
  <2>2. Delay' = Delay
    BY <1>0, <1>6, RemoveDoes DEF Delay
  <2>3. QED
    BY <2>1, <2>2 DEF Late, Awake
<1>7. CASE RemoveFails(p)
  <2>1. /\ UNCHANGED <<now, start>> /\ pc[p] = "remove" /\ pc'[p] = "sleep"
        /\ wake'[p] = now + CycleTime /\ faults' = faults + 1
    BY <1>0, <1>7, RemoveFailsDoes
  <2>2. Delay' = Delay + CycleTime
    BY <1>1, <2>1, DelayGrows
  <2>3. QED
    BY <1>1, <1>2, <2>1, <2>2 DEF Late, Awake
<1>8. CASE Roll(p)
  <2>1. now' = now /\ pc[p] = "roll"
    BY <1>0, <1>8, RollDoes
  <2>2. Delay' = Delay
    BY <1>0, <1>8, RollDoes DEF Delay
  <2>3. CASE IsExpired(p)
    <3>1. pc'[p] = "rekey" /\ start'[p] = start[p] + Window
      BY <1>0, <1>8, <2>3, RollDoes
    <3>2. QED
      BY <1>1, <1>2, <2>1, <2>2, <3>1 DEF Late, Awake
  <2>4. CASE ~IsExpired(p)
    <3>1. pc'[p] = "sleep" /\ wake'[p] = now + CycleTime /\ start'[p] = start[p]
      BY <1>0, <1>8, <2>4, RollDoes
    <3>2. QED
      BY <1>1, <1>2, <2>1, <2>2, <2>4, <3>1 DEF Late, Awake, IsExpired
  <2>5. QED
    BY <2>3, <2>4
<1>9. CASE Rekey(p)
  <2>1. /\ UNCHANGED <<now, start>> /\ pc[p] = "rekey" /\ pc'[p] = "sleep"
        /\ wake'[p] = now + CycleTime
    BY <1>0, <1>9, RekeyDoes
  <2>2. Delay' = Delay
    BY <1>0, <1>9, RekeyDoes DEF Delay
  <2>3. QED
    BY <1>1, <1>2, <2>1, <2>2 DEF Late, Awake
<1>10. CASE Wake(p)
  <2>1. UNCHANGED <<now, start>> /\ pc[p] = "sleep" /\ wake[p] <= now /\ pc'[p] = "expire"
    BY <1>0, <1>10, WakeDoes
  <2>2. Delay' = Delay
    BY <1>0, <1>10, WakeDoes DEF Delay
  <2>3. wake[p] = now
    BY <1>0, <1>1, <2>1 DEF OnTime
  <2>4. QED
    BY <2>1, <2>2, <2>3 DEF Late, Awake
<1>11. CASE Increment(p) \/ SetStart(p) \/ Add(p)
  <2>1. UNCHANGED <<now, start, pc, wake>>
    BY <1>0, <1>11, IncrementDoes, SetStartDoes, AddDoes
  <2>2. Delay' = Delay
    BY <1>0, <1>11, IncrementDoes, SetStartDoes, AddDoes DEF Delay
  <2>3. QED
    BY <2>1, <2>2 DEF Late, Awake
<1>12. QED
  BY <1>3, <1>4, <1>5, <1>6, <1>7, <1>8, <1>9, <1>10, <1>11 DEF ProcessStep, Worker

LEMMA LateStep ==
  ASSUME ClockInv, LateInv, [Next]_vars
  PROVE  LateInv'
<1>0. StatsTypeOK
  BY DEF ClockInv
<1>1. ASSUME NEW p \in Processes, ProcessStep(p) PROVE LateInv'
  <2>1. kind' = kind /\ roll' = roll /\ now' = now /\ faults' \in {faults, faults + 1}
    BY <1>0, <1>1, StepKeeps
  <2>2. ASSUME roll, NEW q \in Processes PROVE Late(q)'
    <3>1. Late(q)
      BY <2>2 DEF LateInv
    <3>2. CASE q = p
      BY <1>1, <2>2, <3>1, <3>2, OwnLate
    <3>3. CASE q # p
      <4>1. pc'[q] = pc[q] /\ wake'[q] = wake[q] /\ start'[q] = start[q]
        BY <1>0, <1>1, <3>3, OthersStay
      <4>2. /\ now \in Nat /\ start[q] \in Nat /\ wake[q] \in Nat /\ faults \in Nat
            /\ Window \in Nat
        BY <1>0, TypeFacts, Constants
      <4>3. Delay \in Nat /\ Delay' \in Nat /\ Delay' >= Delay
        BY <2>1, <4>2, DelayStays, DelayFacts
      <4>4. QED
        BY <2>1, <3>1, <4>1, <4>2, <4>3 DEF Late, Awake
    <3>4. QED
      BY <3>2, <3>3
  <2>3. QED
    BY <2>1, <2>2 DEF LateInv
<1>2. CASE Tick
  <2>1. UNCHANGED <<roll, start, pc, wake, faults>>
    BY <1>0, <1>2, TickDoes
  <2>2. Delay' = Delay
    BY <2>1 DEF Delay
  <2>3. \A q \in Processes : pc[q] \in {"down", "sleep"}
    BY <1>0, <1>2, TickDoes
  <2>4. QED
    BY <2>1, <2>2, <2>3 DEF LateInv, Late, Awake
<1>3. CASE UNCHANGED vars
  <2>1. UNCHANGED <<roll, start, pc, wake, now>>
    BY <1>3 DEF vars, config, window, worker
  <2>2. Delay' = Delay
    BY <1>3 DEF vars, Delay
  <2>3. QED
    BY <2>1, <2>2 DEF LateInv, Late, Awake
<1>4. QED
  BY <1>1, <1>2, <1>3 DEF Next, ProcessStep

LEMMA InItsWindowStep ==
  ASSUME ClockInv, LateInv, InItsWindow, [Next]_vars
  PROVE  InItsWindow'
<1>0. StatsTypeOK
  BY DEF ClockInv
<1> DEFINE Fits(h, d) == h.at >= h.key - 1 /\ h.at < h.key + Window + d
<1>1. ASSUME NEW h \in store, Fits(h, Delay), faults' \in {faults, faults + 1}
      PROVE  Fits(h, Delay')
  <2>1. h.at \in Nat /\ h.key \in Int
    BY <1>0, HitFacts DEF StatsTypeOK
  <2>2. faults \in Nat
    BY <1>0 DEF StatsTypeOK
  <2>3. Delay \in Nat /\ Delay' \in Nat /\ Delay' >= Delay
    BY <1>1, <2>2, DelayStays, DelayFacts
  <2>4. QED
    BY <1>1, <2>1, <2>3, Constants
<1>2. ASSUME NEW p \in Processes, ProcessStep(p) PROVE InItsWindow'
  <2>1. kind' = kind /\ roll' = roll /\ now' = now /\ faults' \in {faults, faults + 1}
    BY <1>0, <1>2, StepKeeps
  <2>2. ASSUME roll, NEW h \in store' PROVE Fits(h, Delay')
    <3>1. CASE h \in store
      BY <1>1, <2>1, <2>2, <3>1 DEF InItsWindow
    <3>2. CASE h \notin store
      <4>1. /\ h.key = key[p] /\ h.at = stamp[p] /\ stamp[p] # None
            /\ UNCHANGED <<pc, wake, start, key, faults>>
        BY <1>0, <1>2, <2>2, <3>2, StoredBy
      <4>2. OnTime(p) /\ Keyed(p) /\ Late(p)
        BY <2>2 DEF ClockInv, LateInv
      <4>3. /\ now \in Nat /\ start[p] \in Nat /\ wake[p] \in Nat /\ stamp[p] \in Int
            /\ key[p] \in Int /\ faults \in Nat
        BY <1>0, TypeFacts
      <4>4. Delay' = Delay
        BY <4>1 DEF Delay
      <4>5. Delay \in Nat /\ Window \in Nat /\ Window >= 1
        BY <4>3, DelayFacts, Constants
      <4>6. h.at >= h.key - 1
        BY <2>2, <4>1, <4>2, <4>3, <4>5 DEF OnTime, Keyed, OwnKey
      <4>7. h.at < h.key + Window + Delay
        BY <2>2, <4>1, <4>2, <4>3, <4>5 DEF OnTime, Keyed, OwnKey, Late, Awake
      <4>8. QED
        BY <4>4, <4>6, <4>7
    <3>3. QED
      BY <3>1, <3>2
  <2>3. QED
    BY <2>1, <2>2 DEF InItsWindow
<1>3. CASE Tick
  <2>1. UNCHANGED <<roll, store, faults>>
    BY <1>0, <1>3, TickDoes
  <2>2. Delay' = Delay
    BY <2>1 DEF Delay
  <2>3. QED
    BY <2>1, <2>2 DEF InItsWindow
<1>4. CASE UNCHANGED vars
  <2>1. UNCHANGED <<roll, store>>
    BY <1>4 DEF vars, config, redis
  <2>2. Delay' = Delay
    BY <1>4 DEF vars, Delay
  <2>3. QED
    BY <2>1, <2>2 DEF InItsWindow
<1>5. QED
  BY <1>2, <1>3, <1>4 DEF Next, ProcessStep

----------------------------------------------------------------------------
(***************************************************************************)
(* RollingCounts and Kept.                                                 *)
(***************************************************************************)
\* Whoever adds, what is added is so recent that no worker is late with it.
LEMMA AddedIsRecent ==
  ASSUME ClockInv, NEW p \in Processes, ProcessStep(p), NEW h \in store', h \notin store,
         NEW q \in Processes, pc[q] # "down"
  PROVE  /\ h.at \in Nat /\ h.at <= now /\ now - h.at <= 1
         /\ Awake(q) - h.at <= Window + (IF pc[q] = "roll" THEN 0 ELSE Delay)
         /\ UNCHANGED <<pc, wake, faults>>
<1>0. StatsTypeOK /\ OnTime(p) /\ OnTime(q)
  BY DEF ClockInv
<1>1. h.at = stamp[p] /\ stamp[p] # None /\ UNCHANGED <<pc, wake, faults>>
  BY <1>0, StoredBy
<1>2. stamp[p] \in Nat
  BY <1>0, <1>1, Constants DEF StatsTypeOK, Times
<1>3. now \in Nat /\ wake[q] \in Nat /\ faults \in Nat
  BY <1>0, TypeFacts
<1>4. /\ Window \in Nat /\ Window >= 1 /\ CycleTime \in Nat
      /\ Delay \in Nat /\ Delay >= CycleTime
  BY <1>3, Constants, DelayFacts
<1>5. h.at <= now /\ now - h.at <= 1
  BY <1>0, <1>1, <1>2, <1>3 DEF OnTime
<1>6. Awake(q) - h.at <= Window + (IF pc[q] = "roll" THEN 0 ELSE Delay)
  <2>1. CASE pc[q] = "sleep"
    <3>1. wake[q] <= now + CycleTime
      BY <1>0, <2>1 DEF OnTime
    <3>2. QED
      BY <1>1, <1>2, <1>3, <1>4, <1>5, <2>1, <3>1 DEF Awake
  <2>2. CASE pc[q] # "sleep"
    BY <1>1, <1>2, <1>3, <1>4, <1>5, <2>2 DEF Awake
  <2>3. QED
    BY <2>1, <2>2
<1>7. QED
  BY <1>1, <1>2, <1>5, <1>6

\* A process whose thread does not move.
LEMMA StillSwept ==
  ASSUME ClockInv, kind = "rolling", NEW p \in Processes, ProcessStep(p), NEW q \in Processes,
         pc[q] # "down", pc'[q] = pc[q], wake'[q] = wake[q], start'[q] = start[q],
         OnlyErrors(q) \/ Swept(q)
  PROVE  (OnlyErrors(q) \/ Swept(q))'
<1>0. StatsTypeOK /\ OnTime(q)
  BY DEF ClockInv
<1>1. now' = now /\ faults' \in {faults, faults + 1}
  BY <1>0, StepKeeps
<1>2. now \in Nat /\ start[q] \in Nat /\ wake[q] \in Nat /\ faults \in Nat /\ Window \in Nat
  BY <1>0, TypeFacts, Constants
<1>3. /\ Delay \in Nat /\ Delay' \in Nat /\ Delay' >= Delay /\ CycleTime * faults \in Nat
      /\ CycleTime * faults' \in Nat /\ CycleTime * faults' >= CycleTime * faults
  BY <1>1, <1>2, DelayStays, DelayFacts
<1>4. Awake(q)' = Awake(q) /\ Awake(q) \in Nat
  BY <1>1, <1>2 DEF Awake
<1>5. CASE OnlyErrors(q)
  <2> DEFINE m == CycleTime * faults  mm == CycleTime * faults'  a == Awake(q)  aa == Awake(q)'
  <2>1. a < start[q] + Window + m /\ pc[q] # "roll" /\ aa = a
    BY <1>4, <1>5 DEF OnlyErrors
  <2>2. m \in Nat /\ mm \in Nat /\ mm >= m /\ a \in Nat
    BY <1>3, <1>4
  <2> HIDE DEF m, mm, a, aa
  <2>3. aa < start[q] + Window + mm
    BY <1>2, <2>1, <2>2
  <2>4. QED
    BY <2>1, <2>3 DEF OnlyErrors, mm, aa
<1>6. CASE Swept(q)
  <2>1. ASSUME NEW h \in store'
        PROVE  Awake(q)' - h.at <= Window + (IF pc'[q] = "roll" THEN 0 ELSE Delay')
    <3>1. CASE h \in store
      <4>1. h.at \in Nat
        BY <1>0, <3>1, HitFacts DEF StatsTypeOK
      <4>2. Awake(q) - h.at <= Window + (IF pc[q] = "roll" THEN 0 ELSE Delay)
        BY <1>6, <3>1 DEF Swept
      <4>3. QED
        BY <1>2, <1>3, <1>4, <4>1, <4>2
    <3>2. CASE h \notin store
      <4>1. /\ h.at \in Nat
            /\ Awake(q) - h.at <= Window + (IF pc[q] = "roll" THEN 0 ELSE Delay)
        BY <3>2, AddedIsRecent
      <4>2. QED
        BY <1>2, <1>3, <1>4, <4>1
    <3>3. QED
      BY <3>1, <3>2
  <2>2. QED
    BY <2>1 DEF Swept
<1>7. QED
  BY <1>5, <1>6

\* The worker that takes a step.
LEMMA OwnSwept ==
  ASSUME ClockInv, kind = "rolling", NEW p \in Processes, Launch(p) \/ Crash(p) \/ Worker(p),
         pc[p] # "down" => OnlyErrors(p) \/ Swept(p)
  PROVE  pc'[p] # "down" => (OnlyErrors(p) \/ Swept(p))'
<1>0. StatsTypeOK /\ OnTime(p) /\ Keyed(p) /\ ~roll /\ Past
  BY DEF ClockInv
<1>1. now \in Nat /\ start[p] \in Nat /\ wake[p] \in Nat /\ faults \in Nat
  BY <1>0, TypeFacts
<1> DEFINE m == CycleTime * faults
<1>2. /\ Delay \in Nat /\ Delay >= CycleTime /\ m \in Nat
      /\ Window \in Nat /\ CycleTime \in Nat /\ CycleTime >= 1 /\ CycleTime <= Window
  BY <1>1, DelayFacts, Constants
<1>3. CASE Launch(p)
  <2>1. start'[p] \in Nat /\ now < start'[p] + Window /\ pc'[p] = "expire" /\ now' = now
    BY <1>0, <1>3, LaunchDoes
  <2>2. CycleTime * faults' = m
    BY <1>0, <1>3, LaunchDoes
  <2> HIDE DEF m
  <2>3. QED
    BY <1>1, <1>2, <2>1, <2>2 DEF OnlyErrors, Awake
<1>4. CASE Crash(p)
  BY <1>0, <1>4, CrashDoes
<1>5. CASE Expire(p)
  <2>1. UNCHANGED <<now, start, store>> /\ pc[p] = "expire" /\ pc'[p] = "remove"
    BY <1>0, <1>5, ExpireDoes
  <2>2. Delay' = Delay /\ CycleTime * faults' = m
    BY <1>0, <1>5, ExpireDoes DEF Delay
  <2>3. QED
    BY <2>1, <2>2 DEF OnlyErrors, Swept, Awake
<1>6. CASE Remove(p)
  <2>1. /\ now' = now /\ pc[p] = "remove" /\ pc'[p] = "roll"
        /\ store' = {h \in store : h.key = key[p] => ~TooOld(p, h.at)}
    BY <1>0, <1>6, RemoveDoes
  <2>2. cutoff[p] = now - Window /\ key[p] = Plain
    BY <1>0, <2>1 DEF OnTime, Keyed, OwnKey
  <2>3. ASSUME NEW h \in store' PROVE now - h.at <= Window
    <3>1. h \in store /\ h \in written
      BY <1>0, <2>1 DEF StatsTypeOK
    <3>2. h.key = Plain /\ h.at \in Nat
      BY <1>0, <3>1, HitFacts DEF Past
    <3>3. ~(h.at <= cutoff[p])
      BY <2>1, <2>2, <3>2 DEF TooOld
    <3>4. QED
      BY <1>1, <1>2, <2>2, <3>2, <3>3
  <2>4. Swept(p)'
    BY <1>2, <2>1, <2>3 DEF Swept, Awake
  <2>5. QED
    BY <2>4
<1>7. CASE RemoveFails(p)
  <2>1. /\ UNCHANGED <<now, start, store>> /\ pc[p] = "remove" /\ pc'[p] = "sleep"
        /\ wake'[p] = now + CycleTime /\ faults' = faults + 1
    BY <1>0, <1>7, RemoveFailsDoes
  <2>2. Delay' = Delay + CycleTime /\ CycleTime * faults' = m + CycleTime
    BY <1>1, <2>1, DelayGrows
  <2>3. CASE OnlyErrors(p)
    <3>1. now < start[p] + Window + m
      BY <2>1, <2>3 DEF OnlyErrors, Awake
    <3> HIDE DEF m
    <3>2. OnlyErrors(p)'
      BY <1>1, <1>2, <2>1, <2>2, <3>1 DEF OnlyErrors, Awake
    <3>3. QED
      BY <3>2
  <2>4. CASE Swept(p)
    <3>1. ASSUME NEW h \in store PROVE now + CycleTime - h.at <= Window + Delay + CycleTime
      <4>1. h.at \in Nat
        BY <1>0, HitFacts DEF StatsTypeOK
      <4>2. now - h.at <= Window + Delay
        BY <2>1, <2>4 DEF Swept, Awake
      <4>3. QED
        BY <1>1, <1>2, <4>1, <4>2
    <3>2. ASSUME NEW h \in store PROVE wake'[p] - h.at <= Window + Delay'
      <4>1. h.at \in Nat
        BY <1>0, HitFacts DEF StatsTypeOK
      <4>2. QED
        BY <1>1, <1>2, <2>1, <2>2, <3>1, <4>1
    <3>3. Swept(p)'
      BY <2>1, <3>2 DEF Swept, Awake
    <3>4. QED
      BY <3>3
  <2>5. QED
    BY <1>0, <2>1, <2>3, <2>4
<1>8. CASE Roll(p)
  <2>1. /\ UNCHANGED <<now, store>> /\ pc[p] = "roll" /\ pc'[p] = "sleep"
        /\ wake'[p] = now + CycleTime
    BY <1>0, <1>8, RollDoes
  <2>2. Delay' = Delay
    BY <1>0, <1>8, RollDoes DEF Delay
  <2>3. Swept(p)
    BY <2>1 DEF OnlyErrors
  <2>4. ASSUME NEW h \in store PROVE now + CycleTime - h.at <= Window + Delay
    <3>1. h.at \in Nat
      BY <1>0, HitFacts DEF StatsTypeOK
    <3>2. now - h.at <= Window
      BY <1>2, <2>1, <2>3 DEF Swept, Awake
    <3>3. QED
      BY <1>1, <1>2, <3>1, <3>2
  <2>5. ASSUME NEW h \in store PROVE wake'[p] - h.at <= Window + Delay'
    <3>1. h.at \in Nat
      BY <1>0, HitFacts DEF StatsTypeOK
    <3>2. QED
      BY <1>1, <1>2, <2>1, <2>2, <2>4, <3>1
  <2>6. Swept(p)'
    BY <2>1, <2>5 DEF Swept, Awake
  <2>7. QED
    BY <2>6
<1>9. CASE Rekey(p)
  BY <1>0, <1>9, RekeyDoes DEF Keyed
<1>10. CASE Wake(p)
  <2>1. UNCHANGED <<now, start, store>> /\ pc[p] = "sleep" /\ wake[p] <= now /\ pc'[p] = "expire"
    BY <1>0, <1>10, WakeDoes
  <2>2. Delay' = Delay /\ CycleTime * faults' = m
    BY <1>0, <1>10, WakeDoes DEF Delay
  <2>3. wake[p] = now
    BY <1>0, <1>1, <2>1 DEF OnTime
  <2>4. QED
    BY <2>1, <2>2, <2>3 DEF OnlyErrors, Swept, Awake
<1>11. QED
  BY <1>3, <1>4, <1>5, <1>6, <1>7, <1>8, <1>9, <1>10 DEF Worker

LEMMA SweptStep ==
  ASSUME ClockInv, SweptInv, [Next]_vars
  PROVE  SweptInv'
<1>0. StatsTypeOK
  BY DEF ClockInv
<1>1. ASSUME NEW p \in Processes, ProcessStep(p) PROVE SweptInv'
  <2>1. kind' = kind
    BY <1>0, <1>1, StepKeeps
  <2>2. ASSUME kind = "rolling", NEW q \in Processes, pc'[q] # "down"
        PROVE  (OnlyErrors(q) \/ Swept(q))'
    <3>1. pc[q] # "down" => OnlyErrors(q) \/ Swept(q)
      BY <2>2 DEF SweptInv
    <3>2. CASE q = p /\ (Launch(p) \/ Crash(p) \/ Worker(p))
      BY <2>2, <3>1, <3>2, OwnSwept
    <3>3. CASE pc'[q] = pc[q] /\ wake'[q] = wake[q] /\ start'[q] = start[q]
      BY <1>1, <2>2, <3>1, <3>3, StillSwept
    <3>4. CASE q = p /\ (Increment(p) \/ SetStart(p) \/ Add(p))
      <4>1. UNCHANGED <<pc, wake, start>>
        BY <1>0, <3>4, IncrementDoes, SetStartDoes, AddDoes
      <4>2. QED
        BY <3>3, <4>1
    <3>5. CASE q # p
      <4>1. pc'[q] = pc[q] /\ wake'[q] = wake[q] /\ start'[q] = start[q]
        BY <1>0, <1>1, <3>5, OthersStay
      <4>2. QED
        BY <3>3, <4>1
    <3>6. QED
      BY <1>1, <3>2, <3>4, <3>5 DEF ProcessStep
  <2>3. QED
    BY <2>1, <2>2 DEF SweptInv
<1>2. CASE Tick
  <2>1. UNCHANGED <<kind, start, pc, wake, faults, store>>
    BY <1>0, <1>2, TickDoes
  <2>2. Delay' = Delay /\ CycleTime * faults' = CycleTime * faults
    BY <2>1 DEF Delay
  <2>3. \A q \in Processes : pc[q] \in {"down", "sleep"}
    BY <1>0, <1>2, TickDoes
  <2>4. \A q \in Processes : pc[q] = "sleep" =>
            (OnlyErrors(q)' <=> OnlyErrors(q)) /\ (Swept(q)' <=> Swept(q))
    BY <2>1, <2>2 DEF OnlyErrors, Swept, Awake
  <2>5. QED
    BY <2>1, <2>3, <2>4 DEF SweptInv
<1>3. CASE UNCHANGED vars
  <2>1. UNCHANGED <<kind, start, pc, wake, now, store, faults>>
    BY <1>3 DEF vars, config, window, worker, redis
  <2>2. Delay' = Delay /\ CycleTime * faults' = CycleTime * faults
    BY <2>1 DEF Delay
  <2>3. \A q \in Processes : (OnlyErrors(q)' <=> OnlyErrors(q)) /\ (Swept(q)' <=> Swept(q))
    BY <2>1, <2>2 DEF OnlyErrors, Swept, Awake
  <2>4. QED
    BY <2>1, <2>3 DEF SweptInv
<1>4. QED
  BY <1>1, <1>2, <1>3 DEF Next, ProcessStep

\* Only what is older than the window is removed from a rolling one.
LEMMA RecentStep ==
  ASSUME ClockInv, RecentKept, [Next]_vars
  PROVE  RecentKept'
<1>0. StatsTypeOK
  BY DEF ClockInv
<1>1. ASSUME NEW p \in Processes, ProcessStep(p), kind = "rolling", NEW h \in written',
             now - h.at < Window
      PROVE  h \in store'
  <2>1. CASE h \notin written
    BY <1>0, <1>1, <2>1, StoredBy
  <2>2. CASE h \in written /\ Remove(p)
    <3>1. h \in store
      BY <1>1, <2>2 DEF RecentKept
    <3>2. /\ pc[p] = "remove" /\ store' = {g \in store : g.key = key[p] => ~TooOld(p, g.at)}
      BY <1>0, <2>2, RemoveDoes
    <3>3. cutoff[p] = now - Window
      BY <3>2 DEF ClockInv, OnTime
    <3>4. now \in Nat /\ h.at \in Nat /\ Window \in Nat
      BY <1>0, <2>2, HitFacts, TypeFacts, Constants
    <3>5. ~(h.at <= cutoff[p])
      BY <1>1, <3>3, <3>4
    <3>6. QED
      BY <1>1, <3>1, <3>2, <3>5 DEF TooOld
  <2>3. CASE h \in written /\ ~Remove(p)
    <3>1. h \in store
      BY <1>1, <2>3 DEF RecentKept
    <3>2. store \subseteq store'
      <4>1. CASE Add(p)
        BY <1>0, <4>1, AddDoes
      <4>2. ~SetStart(p)
        BY <1>1 DEF SetStart
      <4>3. CASE ~Add(p)
        BY <1>1, <2>3, <4>2, <4>3 DEF ProcessStep, Worker, Launch, Crash, Expire, RemoveFails,
           Roll, Rekey, Wake, Increment, redis
      <4>4. QED
        BY <4>1, <4>3
    <3>3. QED
      BY <3>1, <3>2
  <2>4. QED
    BY <2>1, <2>2, <2>3
<1>2. CASE \E p \in Processes : ProcessStep(p)
  <2>1. kind' = kind /\ now' = now
    BY <1>0, <1>2, StepKeeps
  <2>2. QED
    BY <1>1, <1>2, <2>1 DEF RecentKept
<1>3. CASE Tick
  <2>1. UNCHANGED <<kind, store, written>> /\ now' = now + 1
    BY <1>0, <1>3, TickDoes
  <2>2. now \in Nat /\ Window \in Nat
    BY <1>0, Constants DEF StatsTypeOK, Times
  <2>3. ASSUME NEW h \in written, now' - h.at < Window PROVE now - h.at < Window
    <3>1. h.at \in Nat
      BY <1>0, HitFacts
    <3>2. QED
      BY <2>1, <2>2, <2>3, <3>1
  <2>4. QED
    BY <2>1, <2>3 DEF RecentKept
<1>4. CASE UNCHANGED vars
  BY <1>4 DEF vars, config, redis, RecentKept
<1>5. QED
  BY <1>2, <1>3, <1>4 DEF Next, ProcessStep

LEMMA KeptStep ==
  ASSUME ClockInv, Kept, [Next]_vars
  PROVE  Kept'
<1>0. StatsTypeOK
  BY DEF ClockInv
<1> DEFINE Fate(h, r) ==
             \/ kind = "rolling"
             \/ kind = "time" /\ (roll => h.at < h.key \/ h.at >= h.key + Window)
             \/ kind = "counter" /\ h.at <= r
<1>1. ASSUME NEW p \in Processes, ProcessStep(p), NEW h \in written' \ store'
      PROVE  Fate(h, reset')
  <2>1. h \in written
    BY <1>0, <1>1, StoredBy
  <2>2. /\ h.at \in Nat /\ h.key \in Int /\ h.at <= now /\ reset <= now
        /\ now \in Nat /\ reset \in Int
    BY <1>0, <2>1, HitFacts, TypeFacts DEF ClockInv, Past
  <2>3. CASE Remove(p)
    <3>1. /\ pc[p] = "remove" /\ store' = {g \in store : g.key = key[p] => ~TooOld(p, g.at)}
          /\ reset' = reset
      BY <1>0, <2>3, RemoveDoes
    <3>2. CASE h \in store
      <4>1. h.key = key[p] /\ TooOld(p, h.at)
        BY <1>1, <3>1, <3>2
      <4>2. roll => key[p] = start[p]
        BY <3>1 DEF ClockInv, Keyed, OwnKey
      <4>3. QED
        BY <4>1, <4>2 DEF TooOld
    <3>3. CASE h \notin store
      BY <2>1, <3>1, <3>3 DEF Kept
    <3>4. QED
      BY <3>2, <3>3
  <2>4. CASE SetStart(p)
    <3>1. kind = "counter" /\ reset' = now
      BY <1>0, <2>4, SetStartDoes
    <3>2. QED
      BY <2>2, <3>1
  <2>5. CASE ~Remove(p) /\ ~SetStart(p)
    <3>1. reset' = reset /\ store \subseteq store'
      <4>1. CASE Add(p)
        BY <1>0, <4>1, AddDoes
      <4>2. CASE ~Add(p)
        BY <1>1, <2>5, <4>2 DEF ProcessStep, Worker, Launch, Crash, Expire, RemoveFails, Roll,
           Rekey, Wake, Increment, redis
      <4>3. QED
        BY <4>1, <4>2
    <3>2. h \in written \ store
      BY <1>1, <2>1, <3>1
    <3>3. QED
      BY <3>1, <3>2 DEF Kept
  <2>6. QED
    BY <2>3, <2>4, <2>5
<1>2. CASE \E p \in Processes : ProcessStep(p)
  <2>1. kind' = kind /\ roll' = roll
    BY <1>0, <1>2, StepKeeps
  <2>2. QED
    BY <1>1, <1>2, <2>1 DEF Kept
<1>3. CASE Tick
  <2>1. UNCHANGED <<kind, roll, store, written, reset>>
    BY <1>0, <1>3, TickDoes
  <2>2. QED
    BY <2>1 DEF Kept
<1>4. CASE UNCHANGED vars
  BY <1>4 DEF vars, config, redis, Kept
<1>5. QED
  BY <1>2, <1>3, <1>4 DEF Next, ProcessStep

----------------------------------------------------------------------------
(***************************************************************************)
(* The theorems.                                                           *)
(***************************************************************************)
StatsIInv == ClockInv /\ SweptInv /\ RecentKept /\ Kept

LEMMA InitStats ==
  ASSUME Init
  PROVE  StatsIInv /\ LateInv /\ InItsWindow
<1>1. StatsTypeOK
  <2>1. 0 \in Times /\ 0 \in 0..MaxTime + CycleTime /\ 0 \in -Window..MaxTime
    BY Constants DEF Times
  <2>2. 0 \in 0..MaxFaults /\ 0 \in 0..MaxCrashes
    BY Constants
  <2>3. QED
    BY <2>1, <2>2 DEF Init, StatsTypeOK
<1>2. \A p \in Processes : OnTime(p) /\ Keyed(p)
  BY DEF Init, OnTime, Keyed
<1>3. Past
  <2>1. reset <= now
    BY DEF Init, None
  <2>2. QED
    BY <2>1, FS_EmptySet DEF Init, Past
<1>4. QED
  BY <1>1, <1>2, <1>3 DEF Init, StatsIInv, ClockInv, LateInv, Late, SweptInv, RecentKept, Kept,
     InItsWindow

LEMMA StepStats ==
  ASSUME StatsIInv, [Next]_vars
  PROVE  StatsIInv'
BY ClockStep, SweptStep, RecentStep, KeptStep DEF StatsIInv

\* What a worker leaves in Redis bounds value until it wakes again.
LEMMA ValueIsBounded ==
  ASSUME StatsIInv, kind = "rolling", NEW p \in Processes, pc[p] = "sleep", wake[p] > now,
         now >= start[p] + Window + CycleTime * faults, NEW h \in store
  PROVE  now - h.at < Window + Delay
<1>0. StatsTypeOK
  BY DEF StatsIInv, ClockInv
<1> DEFINE m == CycleTime * faults
<1>1. now \in Nat /\ start[p] \in Nat /\ wake[p] \in Nat /\ faults \in Nat
  BY <1>0, TypeFacts
<1>2. h.at \in Nat
  BY <1>0, HitFacts DEF StatsTypeOK
<1>3. m \in Nat /\ Delay \in Nat /\ Window \in Nat
  BY <1>1, DelayFacts, Constants
<1>4. Awake(p) = wake[p] /\ pc[p] # "down"
  BY DEF Awake
<1>5. OnlyErrors(p) \/ Swept(p)
  BY <1>4 DEF StatsIInv, SweptInv
<1>6. ~OnlyErrors(p)
  <2>1. now >= start[p] + Window + m
    OBVIOUS
  <2>2. SUFFICES ~(wake[p] < start[p] + Window + m)
    BY <1>4 DEF OnlyErrors
  <2> HIDE DEF m
  <2>3. QED
    BY <1>1, <1>3, <2>1
<1>7. wake[p] - h.at <= Window + Delay
  BY <1>3, <1>4, <1>5, <1>6 DEF Swept
<1>8. QED
  BY <1>1, <1>2, <1>3, <1>7

\* The value of a rolling window lies between the hits of its last Window seconds and those
\* of the time by which its worker may be late in addition; what is removed from a static
\* window or a Counter never counted in it; the other kinds lose nothing.
THEOREM CountersKeep == Spec => []StatsInv
<1>1. Init => StatsIInv
  BY InitStats
<1>2. StatsIInv /\ [Next]_vars => StatsIInv'
  BY StepStats
<1>3. StatsIInv => StatsInv
  <2>1. ASSUME StatsIInv PROVE RollingCounts
    BY <2>1, ValueIsBounded DEF RollingCounts, StatsIInv, RecentKept
  <2>2. QED
    BY <2>1 DEF StatsIInv, StatsInv, ClockInv
<1>4. QED
  BY <1>1, <1>2, <1>3, PTL DEF Spec

\* A hit is stored under the key of its window, or of the one before for as long as the
\* worker is late, or of the next one when the worker rolls in the middle of increment.
THEOREM HitsInTheirWindow == Spec => []InItsWindow
<1>1. Init => ClockInv /\ LateInv /\ InItsWindow
  BY InitStats DEF StatsIInv
<1>2. ClockInv /\ LateInv /\ InItsWindow /\ [Next]_vars => (ClockInv /\ LateInv /\ InItsWindow)'
  BY ClockStep, LateStep, InItsWindowStep
<1>3. QED
  BY <1>1, <1>2, PTL DEF Spec

----------------------------------------------------------------------------
(***************************************************************************)
(* ClusterStats: the inductive invariant.                                  *)
(***************************************************************************)
\* A process that was started has a role; a hit of a spider is counted for a machine.
HasBorn ==
    /\ \A i \in Ids : life[i] # "unborn" => role[i] \in Roles
    /\ \A h \in stored \cup before : h.key.role \in Spiders => h.key.place \in Machines

\* LiveListed: the key of a punctual process lives for what is left of its expiry, which is
\* more than the time until it reports again.
Listed ==
    \A i \in Ids :
        /\ life[i] = "setting" => ttl[i] = Forever /\ quiet[i] = 0
        /\ life[i] = "up" /\ i \notin late =>
              ttl[i] = Forever \/ ttl[i] + quiet[i] >= Timeout

\* DeadForgotten: a key that was set whole runs out, whether its process lives or not.
Forgotten ==
    \A i \in Ids :
        /\ life[i] # "dead" => gone[i] = 0
        /\ i \notin cut => ttl[i] # Forever
        /\ life[i] = "dead" /\ i \notin cut => ttl[i] + gone[i] <= Timeout

\* CountersFresh: a hit is purged by the next cycle before it is as old as Old.
Fresh ==
    \A i \in Ids : due[i] > 0 =>
        \A h \in stored : h.key = KeyOf(i) => h.age + due[i] < Old

KeysBefore == {h.key : h \in before}

\* What the stats plugin reads are keys that it has listed, and a hit of then that still
\* counts is still there.
Asked ==
    /\ asked = "nothing" => before = {} /\ todo = {} /\ answer = NoAnswer
    /\ asked \in {"spiders", "machines"} => \A g \in before : g.key.role \in Spiders
    /\ todo \subseteq KeysBefore
    /\ \A g \in before : g.age < ShownFor => g \in stored

\* AnswerRight, for the counters that have been read so far.
ValuesRead ==
    asked # "machines" => \A k \in Counting :
        /\ \A g, h \in answer.value[k] : g.key = h.key /\ h.key.role = k
        /\ \A ck \in KeysOf(k) \ todo :
              KeysOf(k) = {ck} => InWindow(ck) \subseteq answer.value[k]

SumsRead ==
    asked = "machines" =>
        /\ \A m \in Machines : \A h \in answer.sum[m] : h.key.place = m
        /\ \A ck \in KeysBefore \ todo : InWindow(ck) \subseteq answer.sum[ck.place]

ClusterIInv ==
    /\ ClusterTypeOK /\ HasBorn /\ Listed /\ Forgotten /\ Fresh
    /\ Asked /\ ValuesRead /\ SumsRead

----------------------------------------------------------------------------
LEMMA ClusterConstants ==
  /\ Interval \in Nat /\ Interval > 0 /\ Interval < Timeout
  /\ Timeout \in Nat /\ Timeout > 0
  /\ ShownFor \in Nat /\ ShownFor > 0
  /\ Cycle \in Nat /\ Cycle > 0
  /\ MaxStarts \in Nat /\ MaxCounts \in Nat /\ MaxTroubles \in Nat
  /\ Nowhere \notin Machines /\ Nowhere \notin Roles
  /\ Rest \notin Counting /\ Spiders \cap Services = {}
  /\ Spiders \subseteq Counting /\ Services \subseteq Counting
  /\ Counting \subseteq Roles /\ Rest \in Roles /\ Roles \ {Rest} \subseteq Counting
BY ClusterAssumption DEF ClusterAssumption, Roles, Counting

LEMMA KeyOfType ==
  ASSUME ClusterTypeOK, HasBorn, NEW i \in Ids, Alive(i), role[i] # Rest
  PROVE  /\ role[i] \in Counting /\ KeyOf(i) \in CountKeys
         /\ KeyOf(i).role \in Spiders => KeyOf(i).place \in Machines
<1>1. role[i] \in Counting
  BY ClusterConstants DEF HasBorn, Alive
<1>2. place[i] \in Machines
  BY DEF ClusterTypeOK, Alive
<1> QED
  BY <1>1, <1>2 DEF KeyOf, CountKeys

LEMMA HitsOfType ==
  ASSUME ClusterTypeOK, NEW ck \in CountKeys
  PROVE  HitsOf(ck) \subseteq Idents
BY DEF ClusterTypeOK, HitsOf, Idents, ClusterHits

LEMMA AgedHits ==
  ASSUME NEW hits, hits \subseteq ClusterHits
  PROVE  /\ Aged(hits) \subseteq ClusterHits
         /\ \A g \in Aged(hits) : \E h \in hits :
               /\ g = [h EXCEPT !.age = g.age] /\ g.key = h.key /\ g.n = h.n
               /\ IF h.age < Old THEN g.age = h.age + 1 ELSE g.age = Old
         /\ \A h \in hits : h.age < Old => [h EXCEPT !.age = h.age + 1] \in Aged(hits)
         /\ \A h \in hits : \E g \in Aged(hits) : g.key = h.key
<1>0. Old \in Nat
  BY ClusterConstants DEF Old
<1> DEFINE Age(h) == [h EXCEPT !.age = IF @ < Old THEN @ + 1 ELSE Old]
<1>1. Aged(hits) = {Age(h) : h \in hits}
  BY DEF Aged
<1>2. ASSUME NEW h \in hits
      PROVE  /\ Age(h) \in ClusterHits /\ Age(h).key = h.key /\ Age(h).n = h.n
             /\ Age(h).age = IF h.age < Old THEN h.age + 1 ELSE Old
             /\ Age(h) = [h EXCEPT !.age = Age(h).age]
             /\ h.age < Old => Age(h) = [h EXCEPT !.age = h.age + 1]
  BY <1>0 DEF ClusterHits
<1> HIDE DEF Age
<1> QED
  BY <1>1, <1>2

LEMMA ClusterTypeInit ==
  ASSUME ClusterInit
  PROVE  ClusterTypeOK
BY ClusterConstants DEF ClusterInit, ClusterTypeOK, NoAnswer, Requests, Absent, Never, Alive

LEMMA ClusterTypeStep ==
  ASSUME ClusterTypeOK, HasBorn, [ClusterNext]_clusterVars
  PROVE  ClusterTypeOK'
<1> USE ClusterConstants
<1>1. ASSUME NEW k \in Roles, NEW m \in Machines, Join(k, m)
      PROVE  ClusterTypeOK'
  <2>1. PICK i \in Ids :
           /\ life[i] = "unborn"
           /\ life' = [life EXCEPT ![i] = "new"]
           /\ role' = [role EXCEPT ![i] = k] /\ place' = [place EXCEPT ![i] = m]
           /\ due' = [due EXCEPT ![i] = IF k \in Services THEN 0 ELSE Never]
           /\ UNCHANGED <<quiet, late, ttl, gone, cut, stored, counted, reader>>
           /\ UNCHANGED troubles
    BY <1>1 DEF Join
  <2> QED
    BY <2>1 DEF ClusterTypeOK, reader, Never, Alive
<1>2. ASSUME NEW i \in Ids, Report(i)
      PROVE  ClusterTypeOK'
  BY <1>2 DEF ClusterTypeOK, Report, counters, reader, Forever, Alive
<1>3. ASSUME NEW i \in Ids, SetExpiry(i)
      PROVE  ClusterTypeOK'
  BY <1>3 DEF ClusterTypeOK, SetExpiry, Expiry, counters, reader, Alive
<1>4. ASSUME NEW i \in Ids, ReportFails(i)
      PROVE  ClusterTypeOK'
  BY <1>4 DEF ClusterTypeOK, ReportFails, HasTrouble, counters, reader, Alive
<1>5. ASSUME NEW i \in Ids, HoldUp(i)
      PROVE  ClusterTypeOK'
  BY <1>5 DEF ClusterTypeOK, HoldUp, HasTrouble, counters, reader, Alive
<1>6. ASSUME NEW i \in Ids, Die(i)
      PROVE  ClusterTypeOK'
  BY <1>6 DEF ClusterTypeOK, Die, reader, Alive, Never
<1>7. ASSUME NEW i \in Ids, Count(i)
      PROVE  ClusterTypeOK'
  <2>1. KeyOf(i) \in CountKeys
    BY <1>7, KeyOfType DEF Count
  <2>2. counted + 1 \in 1..MaxCounts /\ 0 \in 0..Old
    BY <1>7 DEF ClusterTypeOK, Count, Old
  <2>3. [key |-> KeyOf(i), n |-> counted + 1, age |-> 0] \in ClusterHits
    BY <2>1, <2>2 DEF ClusterHits
  <2>4. stored' \subseteq ClusterHits
    BY <1>7, <2>3 DEF ClusterTypeOK, Count
  <2> QED
    BY <1>7, <2>2, <2>4 DEF ClusterTypeOK, Count, processes, reader, Alive, Never
<1>8. ASSUME NEW i \in Ids, Purge(i)
      PROVE  ClusterTypeOK'
  BY <1>8 DEF ClusterTypeOK, Purge, processes, reader, Alive, Never
<1>9. ASSUME ClusterTick
      PROVE  ClusterTypeOK'
  <2>1. stored' \subseteq ClusterHits /\ before' \subseteq ClusterHits
    BY <1>9, AgedHits DEF ClusterTypeOK, ClusterTick
  <2>2. /\ quiet' \in [Ids -> 0..Interval]
        /\ ttl' \in [Ids -> {Forever} \cup 0..Timeout]
        /\ gone' \in [Ids -> 0..Timeout]
        /\ due' \in [Ids -> {Never} \cup 0..Cycle]
    BY <1>9 DEF ClusterTypeOK, ClusterTick, Never, Forever
  <2> QED
    BY <1>9, <2>1, <2>2 DEF ClusterTypeOK, ClusterTick, Alive
<1>10. ASSUME NEW r \in Requests, NEW k \in Services, Ask(r, k)
       PROVE  ClusterTypeOK'
  <2>1. before' \subseteq ClusterHits /\ todo' \subseteq CountKeys
    BY <1>10 DEF ClusterTypeOK, Ask, ClusterHits
  <2> QED
    BY <1>10, <2>1 DEF ClusterTypeOK, Ask, processes, counters, Alive
<1>11. ASSUME NEW ck \in todo, ReadValue(ck)
       PROVE  ClusterTypeOK'
  <2>1. ck \in CountKeys /\ HitsOf(ck) \in SUBSET Idents
    BY HitsOfType DEF ClusterTypeOK
  <2>2. answer' \in [value : [Counting -> SUBSET Idents], sum : [Machines -> SUBSET Idents]]
    BY <1>11, <2>1 DEF ClusterTypeOK, ReadValue, Assigned, CountKeys
  <2> QED
    BY <1>11, <2>2 DEF ClusterTypeOK, ReadValue, processes, counters, Alive
<1>12. ASSUME NEW ck \in todo, ReadMachine(ck)
       PROVE  ClusterTypeOK'
  <2>1. ck \in CountKeys /\ HitsOf(ck) \in SUBSET Idents
    BY HitsOfType DEF ClusterTypeOK
  <2>2. answer' \in [value : [Counting -> SUBSET Idents], sum : [Machines -> SUBSET Idents]]
    BY <1>12, <2>1 DEF ClusterTypeOK, ReadMachine, Summed, CountKeys
  <2> QED
    BY <1>12, <2>2 DEF ClusterTypeOK, ReadMachine, processes, counters, Alive
<1>13. ASSUME Send
       PROVE  ClusterTypeOK'
  <2>1. answer' \in [value : [Counting -> SUBSET Idents], sum : [Machines -> SUBSET Idents]]
    BY <1>13 DEF Send, NoAnswer
  <2> QED
    BY <1>13, <2>1 DEF ClusterTypeOK, Send, Requests, processes, counters, Alive
<1>14. ASSUME UNCHANGED clusterVars
       PROVE  ClusterTypeOK'
  BY <1>14 DEF ClusterTypeOK, clusterVars, processes, counters, reader, Alive
<1> QED
  BY <1>1, <1>2, <1>3, <1>4, <1>5, <1>6, <1>7, <1>8, <1>9, <1>10, <1>11, <1>12, <1>13,
     <1>14 DEF ClusterNext

LEMMA ProcessesStep ==
  ASSUME ClusterTypeOK, Listed, Forgotten, [ClusterNext]_clusterVars
  PROVE  Listed' /\ Forgotten'
<1> USE ClusterConstants
<1>1. ASSUME NEW k \in Roles, NEW m \in Machines, Join(k, m)
      PROVE  Listed' /\ Forgotten'
  <2>1. PICK i \in Ids :
           /\ life[i] = "unborn"
           /\ life' = [life EXCEPT ![i] = "new"]
           /\ UNCHANGED <<quiet, late, ttl, gone, cut>>
    BY <1>1 DEF Join
  <2> QED
    BY <2>1 DEF ClusterTypeOK, Listed, Forgotten
<1>2. ASSUME NEW i \in Ids, Report(i)
      PROVE  Listed' /\ Forgotten'
  BY <1>2 DEF ClusterTypeOK, Listed, Forgotten, Report, Forever
<1>3. ASSUME NEW i \in Ids, SetExpiry(i)
      PROVE  Listed' /\ Forgotten'
  BY <1>3 DEF ClusterTypeOK, Listed, Forgotten, SetExpiry, Expiry, Forever
<1>4. ASSUME NEW i \in Ids, ReportFails(i)
      PROVE  Listed' /\ Forgotten'
  BY <1>4 DEF ClusterTypeOK, Listed, Forgotten, ReportFails
<1>5. ASSUME NEW i \in Ids, HoldUp(i)
      PROVE  Listed' /\ Forgotten'
  BY <1>5 DEF ClusterTypeOK, Listed, Forgotten, HoldUp
<1>6. ASSUME NEW i \in Ids, Die(i)
      PROVE  Listed' /\ Forgotten'
  BY <1>6 DEF ClusterTypeOK, Listed, Forgotten, Die, Alive, Forever
<1>7. ASSUME ClusterTick
      PROVE  Listed' /\ Forgotten'
  <2>1. ASSUME NEW i \in Ids, life[i] = "up", i \notin late, ttl[i] # Forever
        PROVE  ttl'[i] + quiet'[i] >= Timeout
    BY <1>7, <2>1 DEF ClusterTypeOK, Listed, ClusterTick, Alive, Forever
  <2>2. Listed'
    BY <1>7, <2>1 DEF ClusterTypeOK, Listed, ClusterTick, Alive, Forever
  <2>3. Forgotten'
    BY <1>7 DEF ClusterTypeOK, Forgotten, ClusterTick, Alive, Forever
  <2> QED
    BY <2>2, <2>3
<1>8. ASSUME UNCHANGED processes
      PROVE  Listed' /\ Forgotten'
  BY <1>8 DEF Listed, Forgotten, processes
<1> QED
  BY <1>1, <1>2, <1>3, <1>4, <1>5, <1>6, <1>7, <1>8
  DEF ClusterNext, clusterVars, Count, Purge, Ask, ReadValue, ReadMachine, Send

LEMMA HasBornStep ==
  ASSUME ClusterTypeOK, HasBorn, [ClusterNext]_clusterVars
  PROVE  HasBorn'
<1> USE ClusterConstants
<1>1. ASSUME NEW k \in Roles, NEW m \in Machines, Join(k, m)
      PROVE  HasBorn'
  <2>1. PICK i \in Ids :
           /\ life[i] = "unborn"
           /\ life' = [life EXCEPT ![i] = "new"]
           /\ role' = [role EXCEPT ![i] = k]
           /\ UNCHANGED <<stored, reader>>
    BY <1>1 DEF Join
  <2> QED
    BY <2>1 DEF ClusterTypeOK, HasBorn, reader
<1>2. ASSUME NEW i \in Ids, Count(i)
      PROVE  HasBorn'
  <2>1. KeyOf(i).role \in Spiders => KeyOf(i).place \in Machines
    BY <1>2, KeyOfType DEF Count
  <2> QED
    BY <1>2, <2>1 DEF HasBorn, Count, processes, reader
<1>3. ASSUME NEW i \in Ids, Purge(i)
      PROVE  HasBorn'
  BY <1>3 DEF HasBorn, Purge, processes, reader
<1>4. ASSUME ClusterTick
      PROVE  HasBorn'
  <2>1. /\ \A g \in Aged(stored) : \E h \in stored : g.key = h.key
        /\ \A g \in Aged(before) : \E h \in before : g.key = h.key
    BY AgedHits DEF ClusterTypeOK
  <2> QED
    BY <1>4, <2>1 DEF HasBorn, ClusterTick
<1>5. ASSUME NEW r \in Requests, NEW k \in Services, Ask(r, k)
      PROVE  HasBorn'
  BY <1>5 DEF HasBorn, Ask, processes, counters
<1>6. ASSUME Send
      PROVE  HasBorn'
  BY <1>6 DEF HasBorn, Send, processes, counters
<1>7. ASSUME NEW i \in Ids,
             Report(i) \/ SetExpiry(i) \/ ReportFails(i) \/ HoldUp(i) \/ Die(i)
      PROVE  HasBorn'
  <2>1. /\ UNCHANGED <<role, stored, before>>
        /\ \A j \in Ids : life'[j] # "unborn" => life[j] # "unborn"
    BY <1>7
    DEF ClusterTypeOK, Report, SetExpiry, ReportFails, HoldUp, HasTrouble, Die, counters, reader, Alive
  <2> QED
    BY <2>1 DEF HasBorn
<1>8. ASSUME UNCHANGED <<processes, counters, before>>
      PROVE  HasBorn'
  BY <1>8 DEF HasBorn, processes, counters
<1> QED
  BY <1>1, <1>2, <1>3, <1>4, <1>5, <1>6, <1>7, <1>8
  DEF ClusterNext, clusterVars, reader, ReadValue, ReadMachine

LEMMA FreshStep ==
  ASSUME ClusterTypeOK, Fresh, [ClusterNext]_clusterVars
  PROVE  Fresh'
<1> USE ClusterConstants
<1>0. Old = ShownFor + Cycle /\ Old \in Nat
  BY DEF Old
<1>1. ASSUME NEW k \in Roles, NEW m \in Machines, Join(k, m)
      PROVE  Fresh'
  <2>1. PICK i \in Ids :
           /\ role' = [role EXCEPT ![i] = k] /\ place' = [place EXCEPT ![i] = m]
           /\ due' = [due EXCEPT ![i] = IF k \in Services THEN 0 ELSE Never]
           /\ UNCHANGED stored
    BY <1>1 DEF Join
  <2>2. ~(due'[i] > 0)
    BY <2>1 DEF ClusterTypeOK, Never
  <2>3. ASSUME NEW j \in Ids, j # i
        PROVE  due'[j] = due[j] /\ KeyOf(j)' = KeyOf(j)
    BY <2>1, <2>3 DEF ClusterTypeOK, KeyOf
  <2> QED
    BY <2>1, <2>2, <2>3 DEF Fresh
<1>2. ASSUME NEW i \in Ids, Count(i)
      PROVE  Fresh'
  <2>1. ASSUME NEW j \in Ids, due'[j] > 0
        PROVE  due'[j] = due[j] /\ KeyOf(j)' = KeyOf(j) /\ due[j] < Old
    BY <1>0, <1>2, <2>1 DEF ClusterTypeOK, Count, processes, KeyOf, Never
  <2>2. ASSUME NEW h \in stored', h \notin stored
        PROVE  h.age = 0
    BY <1>2, <2>2 DEF Count
  <2>3. ASSUME NEW j \in Ids, due'[j] > 0, NEW h \in stored', h.key = KeyOf(j)'
        PROVE  h.age + due'[j] < Old
    <3>1. CASE h \in stored
      BY <3>1, <2>1, <2>3 DEF Fresh
    <3>2. CASE h \notin stored
      BY <3>2, <2>1, <2>2, <2>3 DEF ClusterTypeOK, Never
    <3> QED
      BY <3>1, <3>2
  <2> QED
    BY <2>3 DEF Fresh
<1>3. ASSUME NEW i \in Ids, Purge(i)
      PROVE  Fresh'
  <2>1. ASSUME NEW j \in Ids
        PROVE  KeyOf(j)' = KeyOf(j)
    BY <1>3 DEF Purge, processes, KeyOf
  <2>2. ASSUME NEW j \in Ids, due'[j] > 0, NEW h \in stored', h.key = KeyOf(j)'
        PROVE  h.age + due'[j] < Old
    <3>1. CASE j = i
      <4>1. due'[j] = Cycle /\ h.age < ShownFor /\ h \in ClusterHits
        BY <1>3, <2>1, <2>2, <3>1 DEF Purge, ClusterTypeOK
      <4>2. h.age \in 0..Old
        BY <4>1 DEF ClusterHits
      <4> QED
        BY <1>0, <4>1, <4>2
    <3>2. CASE j # i
      BY <1>3, <2>1, <2>2, <3>2 DEF Purge, ClusterTypeOK, Fresh
    <3> QED
      BY <3>1, <3>2
  <2> QED
    BY <2>2 DEF Fresh
<1>4. ASSUME ClusterTick
      PROVE  Fresh'
  <2>1. ASSUME NEW j \in Ids
        PROVE  KeyOf(j)' = KeyOf(j)
    BY <1>4 DEF ClusterTick, KeyOf
  <2>2. ASSUME NEW j \in Ids, due'[j] > 0, NEW g \in stored', g.key = KeyOf(j)'
        PROVE  g.age + due'[j] < Old
    <3>1. due[j] > 0 /\ due[j] \in Nat /\ due'[j] = due[j] - 1
      BY <1>4, <2>2 DEF ClusterTick, ClusterTypeOK, Never
    <3>2. PICK h \in stored : g.key = h.key
                  /\ IF h.age < Old THEN g.age = h.age + 1 ELSE g.age = Old
      BY <1>4, <2>2, AgedHits DEF ClusterTick, ClusterTypeOK
    <3>3. h.age + due[j] < Old
      BY <2>1, <2>2, <3>1, <3>2 DEF Fresh
    <3>4. h.age \in 0..Old
      BY <3>2 DEF ClusterTypeOK, ClusterHits
    <3> QED
      BY <1>0, <3>1, <3>2, <3>3, <3>4
  <2> QED
    BY <2>2 DEF Fresh
<1>5. ASSUME NEW i \in Ids, Die(i)
      PROVE  Fresh'
  <2>1. ASSUME NEW j \in Ids, due'[j] > 0
        PROVE  due'[j] = due[j] /\ KeyOf(j)' = KeyOf(j)
    BY <1>5, <2>1 DEF Die, ClusterTypeOK, KeyOf, Never
  <2> QED
    BY <1>5, <2>1 DEF Die, Fresh
<1>6. ASSUME UNCHANGED <<role, place, counters>>
      PROVE  Fresh'
  BY <1>6 DEF Fresh, KeyOf, counters
<1> QED
  BY <1>1, <1>2, <1>3, <1>4, <1>5, <1>6
  DEF ClusterNext, clusterVars, processes, Report, SetExpiry, ReportFails, HoldUp, HasTrouble,
      Ask, ReadValue, ReadMachine, Send

LEMMA NothingRead ==
  /\ \A k \in Counting : NoAnswer.value[k] = {}
  /\ \A m \in Machines : NoAnswer.sum[m] = {}
BY DEF NoAnswer

LEMMA AgedBefore ==
  ASSUME ClusterTypeOK, ClusterTick
  PROVE  /\ KeysBefore' = KeysBefore
         /\ \A k : KeysOf(k)' = KeysOf(k)
         /\ \A ck : InWindow(ck)' \subseteq InWindow(ck)
<1>1. /\ \A g \in before' : \E h \in before : /\ g.key = h.key /\ g.n = h.n
                                              /\ g.age < ShownFor => h.age < ShownFor
      /\ \A h \in before : \E g \in before' : g.key = h.key
  <2>1. /\ before \subseteq ClusterHits /\ before' = Aged(before)
        /\ Old > ShownFor /\ ShownFor \in Nat
    BY ClusterConstants DEF ClusterTypeOK, ClusterTick, Old
  <2>2. ASSUME NEW h \in before
        PROVE  h.age \in 0..Old /\ Old \in Nat
    BY <2>1, ClusterConstants DEF ClusterHits, Old
  <2>3. ASSUME NEW g \in before'
        PROVE  \E h \in before : /\ g.key = h.key /\ g.n = h.n
                                 /\ g.age < ShownFor => h.age < ShownFor
    <3>1. PICK h \in before :
             /\ g.key = h.key /\ g.n = h.n
             /\ IF h.age < Old THEN g.age = h.age + 1 ELSE g.age = Old
      BY <2>1, AgedHits
    <3> QED
      BY <2>1, <2>2, <3>1
  <2> QED
    BY <2>1, <2>3, AgedHits
<1>2. KeysBefore' = KeysBefore
  <2>1. KeysBefore' \subseteq KeysBefore
    BY <1>1 DEF KeysBefore
  <2>2. KeysBefore \subseteq KeysBefore'
    BY <1>1 DEF KeysBefore
  <2> QED
    BY <2>1, <2>2
<1>3. ASSUME NEW k
      PROVE  KeysOf(k)' = KeysOf(k)
  <2>1. KeysOf(k)' \subseteq KeysOf(k)
    BY <1>1 DEF KeysOf
  <2>2. KeysOf(k) \subseteq KeysOf(k)'
    BY <1>1 DEF KeysOf
  <2> QED
    BY <2>1, <2>2
<1>4. ASSUME NEW ck
      PROVE  InWindow(ck)' \subseteq InWindow(ck)
  <2>1. ASSUME NEW w \in InWindow(ck)'
        PROVE  w \in InWindow(ck)
    <3>1. PICK g \in before' : g.key = ck /\ g.age < ShownFor /\ w = [key |-> ck, n |-> g.n]
      BY <2>1 DEF InWindow
    <3>2. PICK h \in before : h.key = ck /\ h.age < ShownFor /\ h.n = g.n
      BY <1>1, <3>1
    <3> QED
      BY <3>1, <3>2 DEF InWindow
  <2> QED
    BY <2>1
<1> QED
  BY <1>2, <1>3, <1>4

LEMMA WindowIsRead ==
  ASSUME Asked, NEW ck
  PROVE  InWindow(ck) \subseteq HitsOf(ck)
BY DEF Asked, InWindow, HitsOf

LEMMA AskedStep ==
  ASSUME ClusterTypeOK, Asked, [ClusterNext]_clusterVars
  PROVE  Asked'
<1> USE ClusterConstants
<1>1. ASSUME NEW i \in Ids, Count(i)
      PROVE  Asked'
  BY <1>1 DEF Asked, KeysBefore, Count, reader
<1>2. ASSUME NEW i \in Ids, Purge(i)
      PROVE  Asked'
  BY <1>2 DEF Asked, KeysBefore, Purge, reader
<1>3. ASSUME ClusterTick
      PROVE  Asked'
  <2>1. UNCHANGED <<asked, todo, answer>> /\ KeysBefore' = KeysBefore
    BY <1>3, AgedBefore DEF ClusterTick
  <2>2. before = {} => before' = {}
    BY <1>3 DEF ClusterTick, Aged
  <2>3. asked \in {"spiders", "machines"} => \A g \in before' : g.key.role \in Spiders
    BY <1>3, AgedHits DEF ClusterTick, ClusterTypeOK, Asked
  <2>4. ASSUME NEW g \in before', g.age < ShownFor
        PROVE  g \in stored'
    <3>1. PICK h \in before :
             /\ g = [h EXCEPT !.age = g.age]
             /\ IF h.age < Old THEN g.age = h.age + 1 ELSE g.age = Old
      BY <1>3, <2>4, AgedHits DEF ClusterTick, ClusterTypeOK
    <3>2. h.age \in 0..Old /\ Old = ShownFor + Cycle
      BY <3>1 DEF ClusterTypeOK, ClusterHits, Old
    <3>3. h.age < ShownFor /\ h.age < Old /\ g = [h EXCEPT !.age = h.age + 1]
      BY <2>4, <3>1, <3>2
    <3>4. h \in stored
      BY <3>3 DEF Asked
    <3> QED
      BY <1>3, <3>3, <3>4, AgedHits DEF ClusterTick, ClusterTypeOK
  <2> QED
    BY <2>1, <2>2, <2>3, <2>4 DEF Asked
<1>4. ASSUME NEW r \in Requests, NEW k \in Services, Ask(r, k)
      PROVE  Asked'
  BY <1>4 DEF Asked, KeysBefore, Ask, About, counters
<1>5. ASSUME NEW ck \in todo, ReadValue(ck) \/ ReadMachine(ck)
      PROVE  Asked'
  BY <1>5 DEF Asked, KeysBefore, ReadValue, ReadMachine, counters
<1>6. ASSUME Send
      PROVE  Asked'
  BY <1>6 DEF Asked, KeysBefore, Send, Complete
<1>7. ASSUME UNCHANGED <<stored, reader>>
      PROVE  Asked'
  BY <1>7 DEF Asked, KeysBefore, reader
<1> QED
  BY <1>1, <1>2, <1>3, <1>4, <1>5, <1>6, <1>7
  DEF ClusterNext, clusterVars, counters, Join, Report, SetExpiry, ReportFails, HoldUp, HasTrouble, Die

LEMMA ValuesReadStep ==
  ASSUME ClusterTypeOK, Asked, ValuesRead, [ClusterNext]_clusterVars
  PROVE  ValuesRead'
<1>1. ASSUME NEW r \in Requests, NEW k \in Services, Ask(r, k)
      PROVE  ValuesRead'
  <2>1. \A c \in Counting : answer'.value[c] = {}
    BY <1>1, NothingRead DEF Ask, Asked
  <2>2. ASSUME NEW c
        PROVE  KeysOf(c)' \subseteq todo'
    BY <1>1 DEF Ask, KeysOf
  <2> QED
    BY <2>1, <2>2 DEF ValuesRead
<1>2. ASSUME NEW read \in todo, ReadValue(read)
      PROVE  ValuesRead'
  <2>1. /\ read \in CountKeys /\ read.role \in Counting
        /\ UNCHANGED <<asked, before>> /\ todo' = todo \ {read} /\ asked # "machines"
        /\ answer'.value = [answer.value EXCEPT ![read.role] = HitsOf(read)]
    BY <1>2 DEF ClusterTypeOK, ReadValue, CountKeys, Assigned
  <2>2. ASSUME NEW k \in Counting
        PROVE  \A g, h \in answer'.value[k] : g.key = h.key /\ h.key.role = k
    <3>1. CASE k = read.role
      BY <2>1, <3>1 DEF ClusterTypeOK, HitsOf
    <3>2. CASE k # read.role
      BY <2>1, <2>2, <3>2 DEF ClusterTypeOK, ValuesRead
    <3> QED
      BY <3>1, <3>2
  <2>3. ASSUME NEW k \in Counting, NEW ck \in KeysOf(k) \ todo', KeysOf(k) = {ck}
        PROVE  InWindow(ck) \subseteq answer'.value[k]
    <3>1. CASE ck = read
      <4>1. k = read.role
        BY <2>3, <3>1 DEF KeysOf
      <4> QED
        BY <2>1, <3>1, <4>1, WindowIsRead DEF ClusterTypeOK
    <3>2. CASE ck # read
      <4>1. ck \in KeysOf(k) \ todo
        BY <2>1, <2>3, <3>2
      <4>2. read.role # k
        BY <2>1, <2>3, <3>2 DEF Asked, KeysBefore, KeysOf
      <4> QED
        BY <2>1, <2>3, <4>1, <4>2 DEF ClusterTypeOK, ValuesRead
    <3> QED
      BY <3>1, <3>2
  <2>4. \A k : KeysOf(k)' = KeysOf(k) /\ InWindow(k)' = InWindow(k)
    BY <2>1 DEF KeysOf, InWindow
  <2> QED
    BY <2>2, <2>3, <2>4 DEF ValuesRead
<1>3. ASSUME NEW read \in todo, ReadMachine(read)
      PROVE  ValuesRead'
  BY <1>3 DEF ReadMachine, ValuesRead
<1>4. ASSUME Send
      PROVE  ValuesRead'
  <2>1. /\ \A k \in Counting : answer'.value[k] = {}
        /\ \A k : KeysOf(k)' = {}
    BY <1>4, NothingRead DEF Send, KeysOf
  <2> QED
    BY <2>1 DEF ValuesRead
<1>5. ASSUME ClusterTick
      PROVE  ValuesRead'
  <2>1. /\ UNCHANGED <<asked, todo, answer>>
        /\ \A k : KeysOf(k)' = KeysOf(k) /\ InWindow(k)' \subseteq InWindow(k)
    BY <1>5, AgedBefore DEF ClusterTick
  <2> QED
    BY <2>1 DEF ValuesRead
<1>6. ASSUME UNCHANGED reader
      PROVE  ValuesRead'
  BY <1>6 DEF reader, ValuesRead, KeysOf, InWindow
<1> QED
  BY <1>1, <1>2, <1>3, <1>4, <1>5, <1>6
  DEF ClusterNext, clusterVars, Join, Report, SetExpiry, ReportFails, HoldUp, HasTrouble, Die,
      Count, Purge

LEMMA SumsReadStep ==
  ASSUME ClusterTypeOK, HasBorn, Asked, SumsRead, [ClusterNext]_clusterVars
  PROVE  SumsRead'
<1>1. ASSUME NEW r \in Requests, NEW k \in Services, Ask(r, k)
      PROVE  SumsRead'
  <2>1. \A m \in Machines : answer'.sum[m] = {}
    BY <1>1, NothingRead DEF Ask, Asked
  <2>2. KeysBefore' \subseteq todo'
    BY <1>1 DEF Ask, KeysBefore
  <2> QED
    BY <2>1, <2>2 DEF SumsRead
<1>2. ASSUME NEW read \in todo, ReadMachine(read)
      PROVE  SumsRead'
  <2>1. /\ UNCHANGED <<asked, before>> /\ todo' = todo \ {read} /\ asked = "machines"
        /\ answer' = [answer EXCEPT !.sum[read.place] = @ \cup HitsOf(read)]
    BY <1>2 DEF ReadMachine, Summed
  <2>2. read.place \in Machines
    BY <2>1 DEF Asked, KeysBefore, HasBorn
  <2>3. answer'.sum = [answer.sum EXCEPT ![read.place] = @ \cup HitsOf(read)]
    BY <2>1 DEF ClusterTypeOK
  <2>4. \A m \in Machines : /\ answer.sum[m] \subseteq answer'.sum[m]
                            /\ m # read.place => answer'.sum[m] = answer.sum[m]
    BY <2>3 DEF ClusterTypeOK
  <2>5. answer'.sum[read.place] = answer.sum[read.place] \cup HitsOf(read)
    BY <2>2, <2>3 DEF ClusterTypeOK
  <2>6. ASSUME NEW m \in Machines, NEW h \in answer'.sum[m]
        PROVE  h.key.place = m
    <3>1. CASE h \in answer.sum[m]
      BY <2>1, <3>1 DEF SumsRead
    <3>2. CASE h \notin answer.sum[m]
      BY <2>4, <2>5, <2>6, <3>2 DEF HitsOf
    <3> QED
      BY <3>1, <3>2
  <2>7. ASSUME NEW ck \in KeysBefore \ todo'
        PROVE  InWindow(ck) \subseteq answer'.sum[ck.place]
    <3>1. CASE ck = read
      BY <2>5, <3>1, WindowIsRead
    <3>2. CASE ck # read
      <4>1. ck \in KeysBefore \ todo /\ ck.place \in Machines
        BY <2>1, <2>7, <3>2 DEF Asked, KeysBefore, HasBorn
      <4> QED
        BY <2>1, <2>4, <4>1 DEF SumsRead
    <3> QED
      BY <3>1, <3>2
  <2>8. KeysBefore' = KeysBefore /\ \A ck : InWindow(ck)' = InWindow(ck)
    BY <2>1 DEF KeysBefore, InWindow
  <2> QED
    BY <2>6, <2>7, <2>8 DEF SumsRead
<1>3. ASSUME NEW read \in todo, ReadValue(read)
      PROVE  SumsRead'
  BY <1>3 DEF ReadValue, SumsRead
<1>4. ASSUME Send
      PROVE  SumsRead'
  BY <1>4 DEF Send, SumsRead
<1>5. ASSUME ClusterTick
      PROVE  SumsRead'
  <2>1. /\ UNCHANGED <<asked, todo, answer>> /\ KeysBefore' = KeysBefore
        /\ \A ck : InWindow(ck)' \subseteq InWindow(ck)
    BY <1>5, AgedBefore DEF ClusterTick
  <2> QED
    BY <2>1 DEF SumsRead
<1>6. ASSUME UNCHANGED reader
      PROVE  SumsRead'
  BY <1>6 DEF reader, SumsRead, KeysBefore, InWindow
<1> QED
  BY <1>1, <1>2, <1>3, <1>4, <1>5, <1>6
  DEF ClusterNext, clusterVars, Join, Report, SetExpiry, ReportFails, HoldUp, HasTrouble, Die,
      Count, Purge

LEMMA ClusterInitIInv ==
  ASSUME ClusterInit
  PROVE  ClusterIInv
<1>1. ClusterTypeOK
  BY ClusterTypeInit
<1>2. HasBorn /\ Listed /\ Forgotten /\ Fresh /\ Asked
  BY ClusterConstants
  DEF ClusterInit, HasBorn, Listed, Forgotten, Fresh, Asked, KeysBefore,
      Absent, Forever, Never
<1>3. ValuesRead /\ SumsRead
  BY NothingRead DEF ClusterInit, ValuesRead, SumsRead, KeysOf
<1> QED
  BY <1>1, <1>2, <1>3 DEF ClusterIInv

LEMMA ClusterStep ==
  ASSUME ClusterIInv, [ClusterNext]_clusterVars
  PROVE  ClusterIInv'
BY ClusterTypeStep, ProcessesStep, HasBornStep, FreshStep, AskedStep, ValuesReadStep,
   SumsReadStep DEF ClusterIInv

LEMMA ClusterIndImplies ==
  ASSUME ClusterIInv
  PROVE  ClusterInv /\ AnswerRight
<1> USE ClusterConstants DEF ClusterIInv
<1>1. LiveListed
  BY DEF LiveListed, Listed, ClusterTypeOK, Forever, Absent
<1>2. DeadForgotten
  BY DEF DeadForgotten, Forgotten
<1>3. CountersFresh
  <2>1. ASSUME NEW i \in Ids, due[i] > 0, NEW h \in stored, h.key = KeyOf(i)
        PROVE  h.age < Old
    <3>1. h.age + due[i] < Old
      BY <2>1 DEF Fresh
    <3>2. h.age \in 0..Old /\ due[i] \in Int /\ Old \in Nat
      BY DEF ClusterTypeOK, ClusterHits, Never, Old
    <3> QED
      BY <2>1, <3>1, <3>2
  <2> QED
    BY <2>1 DEF CountersFresh
<1>4. ASSUME Complete, asked # "machines", NEW k \in Counting
      PROVE  /\ \A g, h \in answer.value[k] : g.key = h.key /\ h.key.role = k
             /\ \A ck \in KeysOf(k) :
                   KeysOf(k) = {ck} => InWindow(ck) \subseteq answer.value[k]
  BY <1>4 DEF ValuesRead, Complete
<1>5. ASSUME Complete, asked = "machines", NEW m \in Machines
      PROVE  /\ \A h \in answer.sum[m] : h.key.place = m
             /\ \A s \in Spiders :
                   InWindow([role |-> s, place |-> m]) \subseteq answer.sum[m]
  <2>1. \A h \in answer.sum[m] : h.key.place = m
    BY <1>5 DEF SumsRead
  <2>2. ASSUME NEW s \in Spiders, NEW h \in InWindow([role |-> s, place |-> m])
        PROVE  h \in answer.sum[m]
    <3>1. [role |-> s, place |-> m] \in KeysBefore \ todo
      BY <1>5, <2>2 DEF InWindow, KeysBefore, Complete
    <3> QED
      BY <1>5, <2>2, <3>1 DEF SumsRead
  <2> QED
    BY <2>1, <2>2
<1>6. AnswerRight
  BY <1>4, <1>5 DEF AnswerRight
<1> QED
  BY <1>1, <1>2, <1>3, <1>6 DEF ClusterInv

\* A process that reports in time is listed, a dead one is forgotten within the expiry of
\* its last whole report, and no counter shows what is older than its window and a cycle
\* (report_self of every process, and the workers of the counters).
THEOREM ClusterHolds ==
  ClusterSpec => []ClusterInv
<1>1. ClusterInit => ClusterIInv
  BY ClusterInitIInv
<1>2. ClusterIInv /\ [ClusterNext]_clusterVars => ClusterIInv'
  BY ClusterStep
<1>3. ClusterIInv => ClusterInv
  BY ClusterIndImplies
<1> QED
  BY <1>1, <1>2, <1>3, PTL DEF ClusterSpec

\* An answer of the stats plugin that is complete has, for a service and for each machine,
\* all hits that were in the window the whole time, and none of elsewhere; for a type of
\* spider it has those of one machine (stats_monitor.py).
THEOREM AnswersAreRight ==
  ClusterSpec => []AnswerRight
<1>1. ClusterInit => ClusterIInv
  BY ClusterInitIInv
<1>2. ClusterIInv /\ [ClusterNext]_clusterVars => ClusterIInv'
  BY ClusterStep
<1>3. ClusterIInv => AnswerRight
  BY ClusterIndImplies
<1> QED
  BY <1>1, <1>2, <1>3, PTL DEF ClusterSpec
=============================================================================
