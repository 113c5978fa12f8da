----------------------- MODULE SchedulerQueues_proofs -----------------------
(***************************************************************************)
(* Theorems about SchedulerQueues, for every set of domains, threads of    *)
(* Kazoo, settings and configurations.                                     *)
(***************************************************************************)
EXTENDS SchedulerQueues, FiniteSetTheorems, TLAPS

----------------------------------------------------------------------------
(***************************************************************************)
(* The inductive invariants.                                               *)
(***************************************************************************)
Queue == [limit : Settings, pace : Settings \ {Broken}]

\* A thread that is about to use a domain, or a setting it has read, has one.
HasRead ==
    \A t \in Threads :
        /\ pc[t] \in {"look", "store", "touch"} => cur[t] \in Domains
        /\ pc[t] = "store" => read[t] # Unset

TypeInv == SchedulerTypeOK /\ HasRead

\* NoneMissing: the loop that makes the current list still has to come to every listed
\* key that has no queue.
ToBuild(t, d) ==
    /\ pc[t] \in Building
    /\ d \in todo[t] \/ (pc[t] \in {"look", "store"} /\ cur[t] = d)

ListInv == ~torn => \A d \in keys : queues[d] # Gone \/ ToBuild(listedBy, d)

\* LimitRight: a queue that has another limit than its domain should have, with nobody to
\* blame for it, is one that the callback still has to come to.  error_config works for a
\* domain_config that is still to be emptied.
ToSet(w, d) ==
    \/ pc[w] \in Reverting \cup {"update", "touch"} /\ d \in todo[w]
    \/ pc[w] = "touch" /\ cur[w] = d

Due(w, d) == IF pc[w] \in Reverting THEN Default ELSE Wanted(d)

LimitInv ==
    \A w \in Watchers : Watchers = {w} =>
        \A d \in Domains :
            queues[d] # Gone => \/ d \in astray
                                \/ queues[d].limit = Due(w, d)
                                \/ ToSet(w, d)

\* ConfigLands: create_queues under a new configuration builds every listed queue again.
Settled(d) == queues[d] = [limit |-> Wanted(d), pace |-> Wanted(d)]

LandInv ==
    \A w \in Watchers :
        Watchers = {w} /\ listedBy = w /\ fresh[w] /\ pc[w] \in Building /\ ~torn =>
            \A d \in keys : d \in astray \/ Settled(d) \/ ToBuild(w, d)

----------------------------------------------------------------------------
LEMMA GotoMoves ==
  ASSUME SchedulerTypeOK, NEW t \in Threads, NEW s, Goto(t, s)
  PROVE  \A u \in Threads : pc'[u] = IF u = t THEN s ELSE pc[u]
BY DEF SchedulerTypeOK, Goto

LEMMA GotoType ==
  ASSUME SchedulerTypeOK, NEW t \in Threads, NEW s \in Steps, Goto(t, s)
  PROVE  pc' \in [Threads -> Steps]
BY DEF SchedulerTypeOK, Goto

LEMMA LeaveMoves ==
  ASSUME SchedulerTypeOK, NEW t \in Threads, NEW s, Leave(t, s)
  PROVE  \A u \in Threads :
            /\ pc'[u] = IF u = t THEN s ELSE pc[u]
            /\ todo'[u] = IF u = t THEN {} ELSE todo[u]
            /\ cur'[u] = IF u = t THEN Gone ELSE cur[u]
            /\ read'[u] = IF u = t THEN Unset ELSE read[u]
            /\ u # t => fresh'[u] = fresh[u]
<1>1. \A u \in Threads :
            /\ pc'[u] = IF u = t THEN s ELSE pc[u]
            /\ todo'[u] = IF u = t THEN {} ELSE todo[u]
  BY DEF SchedulerTypeOK, Goto, Leave
<1>2. \A u \in Threads :
            /\ cur'[u] = IF u = t THEN Gone ELSE cur[u]
            /\ read'[u] = IF u = t THEN Unset ELSE read[u]
            /\ u # t => fresh'[u] = fresh[u]
  BY DEF SchedulerTypeOK, Leave
<1>3. QED
  BY <1>1, <1>2

LEMMA LeaveType ==
  ASSUME SchedulerTypeOK, NEW t \in Threads, NEW s \in Steps, Leave(t, s)
  PROVE  /\ pc' \in [Threads -> Steps]
         /\ todo' \in [Threads -> SUBSET Domains]
         /\ cur' \in [Threads -> Domains \cup {Gone}]
         /\ read' \in [Threads -> Settings \cup {Unset}]
         /\ fresh' \in [Threads -> BOOLEAN]
<1>1. pc' \in [Threads -> Steps]
  BY GotoType DEF Leave
<1>2. todo' \in [Threads -> SUBSET Domains] /\ cur' \in [Threads -> Domains \cup {Gone}]
  BY DEF SchedulerTypeOK, Leave
<1>3. read' \in [Threads -> Settings \cup {Unset}]
  BY DEF SchedulerTypeOK, Leave
<1>4. fresh' \in [Threads -> BOOLEAN]
  BY DEF SchedulerTypeOK, Leave
<1>5. QED
  BY <1>1, <1>2, <1>3, <1>4

\* A queue is not the value of a key without one, and keeps its moderation when it gets
\* another limit.
LEMMA QueueFacts ==
  /\ Gone \notin Queue /\ Unset \notin Settings /\ Default \in Settings \ {Broken}
  /\ \A q \in Queue : q.limit \in Settings
  /\ \A q \in Queue, s \in Settings :
        [q EXCEPT !.limit = s] \in Queue /\ [q EXCEPT !.limit = s].limit = s
  /\ \A s \in Settings \ {Broken} : [limit |-> s, pace |-> s] \in Queue
<1>1. Gone \notin [limit : Settings, pace : Settings] /\ Unset \notin Settings /\ Default # Broken
  BY SchedulerAssumption DEF SchedulerAssumption
<1>2. \A q \in Queue : q \in [limit : Settings, pace : Settings]
  BY DEF Queue
<1>3. Gone \notin Queue
  BY <1>1, <1>2
<1>4. \A q \in Queue, s \in Settings :
        [q EXCEPT !.limit = s] \in Queue /\ [q EXCEPT !.limit = s].limit = s
  BY DEF Queue
<1>5. \A q \in Queue : q.limit \in Settings
  BY DEF Queue
<1>6. \A s \in Settings \ {Broken} : [limit |-> s, pace |-> s] \in Queue
  BY DEF Queue
<1>7. QED
  BY <1>1, <1>3, <1>4, <1>5, <1>6 DEF Settings

----------------------------------------------------------------------------
\* A thread that takes a step of its own is the only one whose locals move.
LEMMA TypeBuildStep ==
  ASSUME TypeInv, NEW t \in Threads, BuildStep(t)
  PROVE  TypeInv'
<1> USE DEF memory, config
<1>0. SchedulerTypeOK /\ HasRead
  BY DEF TypeInv
<1>1. CASE List(t)
  <2>1. pc' \in [Threads -> Steps]
    BY <1>0, <1>1, GotoType DEF List, Steps, Building
  <2>2. todo' \in [Threads -> SUBSET Domains]
    BY <1>0, <1>1 DEF List, SchedulerTypeOK
  <2>3. fresh' \in [Threads -> BOOLEAN]
    BY <1>0, <1>1 DEF List, SchedulerTypeOK, Taken
  <2>4. flag' \in BOOLEAN /\ torn' \in BOOLEAN
    BY <1>1 DEF List
  <2>5. keys' \in SUBSET Domains /\ listedBy' \in Threads
    BY <1>0, <1>1 DEF List, SchedulerTypeOK
  <2>6. SchedulerTypeOK'
    BY <1>0, <1>1, <2>1, <2>2, <2>3, <2>4, <2>5 DEF List, SchedulerTypeOK
  <2>7. HasRead'
    <3>1. \A u \in Threads : pc'[u] = IF u = t THEN "build" ELSE pc[u]
      BY <1>0, <1>1, GotoMoves DEF List
    <3>2. UNCHANGED <<cur, read>>
      BY <1>1 DEF List
    <3>3. QED
      BY <1>0, <3>1, <3>2 DEF HasRead
  <2>8. QED
    BY <2>6, <2>7 DEF TypeInv
<1>2. CASE Build(t)
  <2> PICK d \in todo[t] :
          /\ todo' = [todo EXCEPT ![t] = @ \ {d}]
          /\ \/ UNCHANGED <<pc, cur, read>>
             \/ /\ cur' = [cur EXCEPT ![t] = d]
                /\ \/ /\ read' = [read EXCEPT ![t] = Default]
                      /\ Goto(t, "store")
                   \/ /\ Goto(t, "look")
                      /\ UNCHANGED read
    BY <1>2 DEF Build
  <2>1. d \in Domains /\ todo' \in [Threads -> SUBSET Domains]
    BY <1>0 DEF SchedulerTypeOK
  <2>2. pc' \in [Threads -> Steps]
    <3>1. CASE UNCHANGED <<pc, cur, read>>
      BY <1>0, <3>1 DEF SchedulerTypeOK
    <3>2. CASE Goto(t, "store") \/ Goto(t, "look")
      BY <1>0, <3>2, GotoType DEF Steps, Building
    <3>3. QED
      BY <3>1, <3>2
  <2>3. cur' \in [Threads -> Domains \cup {Gone}]
    BY <1>0, <2>1 DEF SchedulerTypeOK
  <2>4. read' \in [Threads -> Settings \cup {Unset}]
    BY <1>0, QueueFacts DEF SchedulerTypeOK
  <2>5. SchedulerTypeOK'
    BY <1>0, <1>2, <2>1, <2>2, <2>3, <2>4 DEF Build, SchedulerTypeOK
  <2>6. HasRead'
    <3>1. CASE UNCHANGED <<pc, cur, read>>
      BY <1>0, <3>1 DEF HasRead
    <3>2. CASE Goto(t, "store") /\ cur' = [cur EXCEPT ![t] = d] /\ read' = [read EXCEPT ![t] = Default]
      <4>1. \A u \in Threads : /\ pc'[u] = IF u = t THEN "store" ELSE pc[u]
                               /\ cur'[u] = IF u = t THEN d ELSE cur[u]
                               /\ read'[u] = IF u = t THEN Default ELSE read[u]
        BY <1>0, <3>2, GotoMoves DEF SchedulerTypeOK
      <4>2. QED
        BY <1>0, <2>1, <4>1, QueueFacts DEF HasRead
    <3>3. CASE Goto(t, "look") /\ cur' = [cur EXCEPT ![t] = d] /\ UNCHANGED read
      <4>1. \A u \in Threads : /\ pc'[u] = IF u = t THEN "look" ELSE pc[u]
                               /\ cur'[u] = IF u = t THEN d ELSE cur[u]
        BY <1>0, <3>3, GotoMoves DEF SchedulerTypeOK
      <4>2. QED
        BY <1>0, <2>1, <3>3, <4>1 DEF HasRead
    <3>4. QED
      BY <3>1, <3>2, <3>3
  <2>7. QED
    BY <2>5, <2>6 DEF TypeInv
\* An exception leaves nothing behind.
<1>3. ASSUME CutShort(t), UNCHANGED <<present, memory, config, astray, events, ages>>
      PROVE  TypeInv'
  <2>1. Leave(t, "idle")
    BY <1>3 DEF CutShort
  <2>2. /\ pc' \in [Threads -> Steps] /\ todo' \in [Threads -> SUBSET Domains]
        /\ cur' \in [Threads -> Domains \cup {Gone}] /\ read' \in [Threads -> Settings \cup {Unset}]
        /\ fresh' \in [Threads -> BOOLEAN]
    BY <1>0, <2>1, LeaveType DEF Steps
  <2>3. torn' \in BOOLEAN
    BY <1>0, <1>3 DEF CutShort, SchedulerTypeOK
  <2>4. SchedulerTypeOK'
    BY <1>0, <1>3, <2>2, <2>3 DEF SchedulerTypeOK
  <2>5. HasRead'
    BY <1>0, <2>1, LeaveMoves DEF HasRead
  <2>6. QED
    BY <2>4, <2>5 DEF TypeInv
<1>4. CASE LookUp(t)
  <2>1. CASE CutShort(t)
    BY <1>3, <1>4, <2>1 DEF LookUp
  <2>2. CASE /\ conf[cur[t]] # Unset /\ read' = [read EXCEPT ![t] = conf[cur[t]]] /\ Goto(t, "store")
             /\ UNCHANGED <<todo, cur, fresh, torn>>
    <3>1. cur[t] \in Domains /\ conf[cur[t]] \in Settings
      BY <1>0, <1>4, <2>2 DEF LookUp, HasRead, SchedulerTypeOK
    <3>2. pc' \in [Threads -> Steps]
      BY <1>0, <2>2, GotoType DEF Steps, Building
    <3>3. read' \in [Threads -> Settings \cup {Unset}]
      BY <1>0, <2>2, <3>1 DEF SchedulerTypeOK
    <3>4. SchedulerTypeOK'
      BY <1>0, <1>4, <2>2, <3>2, <3>3 DEF LookUp, SchedulerTypeOK
    <3>5. \A u \in Threads : /\ pc'[u] = IF u = t THEN "store" ELSE pc[u]
                             /\ read'[u] = IF u = t THEN conf[cur[t]] ELSE read[u]
      BY <1>0, <2>2, GotoMoves DEF SchedulerTypeOK
    <3>6. HasRead'
      BY <1>0, <2>2, <3>1, <3>5 DEF HasRead
    <3>7. QED
      BY <3>4, <3>6 DEF TypeInv
  <2>3. QED
    BY <1>4, <2>1, <2>2 DEF LookUp
<1>5. CASE Store(t)
  <2>0. /\ cur[t] \in Domains /\ read[t] \in Settings
    BY <1>0, <1>5 DEF Store, HasRead, SchedulerTypeOK
  <2>1. CASE CutShort(t) /\ UNCHANGED <<queues, aged, astray>>
    BY <1>3, <1>5, <2>1 DEF Store
  <2>2. CASE /\ read[t] # Broken
             /\ queues' = [queues EXCEPT ![cur[t]] = [limit |-> read[t], pace |-> read[t]]]
             /\ aged' = aged \ {cur[t]}
             /\ astray' \in {astray \cup {cur[t]}, astray \ {cur[t]}}
             /\ Goto(t, "build")
             /\ cur' = [cur EXCEPT ![t] = Gone]
             /\ read' = [read EXCEPT ![t] = Unset]
             /\ UNCHANGED <<todo, fresh, torn>>
    <3>1. [limit |-> read[t], pace |-> read[t]] \in Queue
      BY <2>0, <2>2, QueueFacts
    <3>2. queues \in [Domains -> Queue \cup {Gone}]
      BY <1>0 DEF SchedulerTypeOK, Queue
    <3> DEFINE q == [limit |-> read[t], pace |-> read[t]]
    <3>3. q \in Queue /\ queues' = [queues EXCEPT ![cur[t]] = q]
      BY <2>2, <3>1
    <3> HIDE DEF q
    <3>4. /\ queues' \in [Domains -> Queue \cup {Gone}]
          /\ \A d \in Domains : queues'[d] = IF d = cur[t] THEN q ELSE queues[d]
      BY <2>0, <3>2, <3>3
    <3>5. aged' \in SUBSET {d \in Domains : queues'[d] # Gone}
      BY <1>0, <2>2, <3>4 DEF SchedulerTypeOK
    <3>6. pc' \in [Threads -> Steps]
      BY <1>0, <2>2, GotoType DEF Steps, Building
    <3>7. cur' \in [Threads -> Domains \cup {Gone}] /\ read' \in [Threads -> Settings \cup {Unset}]
      BY <1>0, <2>2 DEF SchedulerTypeOK
    <3>8. astray' \in SUBSET Domains
      BY <1>0, <2>0, <2>2 DEF SchedulerTypeOK
    <3>9. SchedulerTypeOK'
      BY <1>0, <1>5, <2>2, <3>4, <3>5, <3>6, <3>7, <3>8 DEF Store, SchedulerTypeOK, Queue
    <3>10. \A u \in Threads : /\ pc'[u] = IF u = t THEN "build" ELSE pc[u]
                              /\ u # t => cur'[u] = cur[u] /\ read'[u] = read[u]
      BY <1>0, <2>2, GotoMoves DEF SchedulerTypeOK
    <3>11. HasRead'
      BY <1>0, <3>10 DEF HasRead
    <3>12. QED
      BY <3>9, <3>11 DEF TypeInv
  <2>3. QED
    BY <1>5, <2>1, <2>2 DEF Store
<1>6. CASE Built(t)
  <2>1. CASE Leave(t, "idle")
    <3>1. /\ pc' \in [Threads -> Steps] /\ todo' \in [Threads -> SUBSET Domains]
          /\ cur' \in [Threads -> Domains \cup {Gone}] /\ read' \in [Threads -> Settings \cup {Unset}]
          /\ fresh' \in [Threads -> BOOLEAN]
      BY <1>0, <2>1, LeaveType DEF Steps
    <3>2. SchedulerTypeOK'
      BY <1>0, <1>6, <3>1 DEF Built, SchedulerTypeOK
    <3>3. HasRead'
      BY <1>0, <2>1, LeaveMoves DEF HasRead
    <3>4. QED
      BY <3>2, <3>3 DEF TypeInv
  <2>2. CASE /\ Goto(t, IF aged = {} THEN "find" ELSE "expire")
             /\ todo' = [todo EXCEPT ![t] = aged]
             /\ fresh' = [fresh EXCEPT ![t] = FALSE]
             /\ UNCHANGED <<cur, read>>
    <3> DEFINE s == IF aged = {} THEN "find" ELSE "expire"
    <3>1. Goto(t, s) /\ s \in {"find", "expire"}
      BY <2>2
    <3> HIDE DEF s
    <3>2. pc' \in [Threads -> Steps]
      BY <1>0, <3>1, GotoType DEF Steps
    <3>3. todo' \in [Threads -> SUBSET Domains]
      BY <1>0, <2>2 DEF SchedulerTypeOK
    <3>4. fresh' \in [Threads -> BOOLEAN]
      BY <1>0, <2>2 DEF SchedulerTypeOK
    <3>5. SchedulerTypeOK'
      BY <1>0, <1>6, <2>2, <3>2, <3>3, <3>4 DEF Built, SchedulerTypeOK
    <3>6. HasRead'
      BY <1>0, <2>2, <3>1, GotoMoves DEF HasRead
    <3>7. QED
      BY <3>5, <3>6 DEF TypeInv
  <2>3. QED
    BY <1>6, <2>1, <2>2 DEF Built
<1>7. QED
  BY <1>1, <1>2, <1>4, <1>5, <1>6 DEF BuildStep

\* expire_queues and the shuffle of the list also move a loop of a watcher, and nothing else
\* of it.
LEMMA TypeExpire ==
  ASSUME TypeInv, Expire
  PROVE  TypeInv'
<1> USE DEF config, memory
<1>0. SchedulerTypeOK /\ HasRead /\ Reactor \in Threads
  BY DEF TypeInv, Threads
<1>1. UNCHANGED <<present, listedBy, config, cur, read, fresh, astray, events, ages>>
  BY DEF Expire
<1>2. PICK d \in todo[Reactor] :
        \/ /\ queues' = [queues EXCEPT ![d] = Gone]
           /\ aged' = aged \ {d}
           /\ keys' = Unlisted(d)
           /\ \/ /\ todo' = [todo EXCEPT ![Reactor] = @ \ {d}]
                 /\ UNCHANGED torn
              \/ \E w \in Misled :
                   /\ torn' = (torn \/ d \notin todo[w])
                   /\ \/ todo' = [todo EXCEPT ![Reactor] = @ \ {d}, ![w] = @ \ {d}]
                      \/ \E e \in todo[w] :
                           todo' = [todo EXCEPT ![Reactor] = @ \ {d}, ![w] = @ \ {e}]
        \/ /\ todo' = [todo EXCEPT ![Reactor] = @ \ {d}]
           /\ UNCHANGED <<keys, queues, aged, torn>>
  BY DEF Expire
<1>3. d \in Domains
  BY <1>0 DEF SchedulerTypeOK
<1>4. todo' \in [Threads -> SUBSET Domains]
  <2>1. CASE todo' = [todo EXCEPT ![Reactor] = @ \ {d}]
    BY <1>0, <2>1 DEF SchedulerTypeOK
  <2>2. ASSUME NEW w \in Misled, NEW e, todo' = [todo EXCEPT ![Reactor] = @ \ {d}, ![w] = @ \ {e}]
        PROVE  todo' \in [Threads -> SUBSET Domains]
    BY <1>0, <2>2 DEF SchedulerTypeOK
  <2>3. QED
    BY <1>2, <2>1, <2>2
<1>5. torn' \in BOOLEAN
  BY <1>0, <1>2 DEF SchedulerTypeOK
<1>6. /\ queues' \in [Domains -> Queue \cup {Gone}]
      /\ aged' \in SUBSET {x \in Domains : queues'[x] # Gone}
      /\ keys' \in SUBSET Domains
  <2>1. queues \in [Domains -> Queue \cup {Gone}]
    BY <1>0 DEF SchedulerTypeOK, Queue
  <2>2. CASE UNCHANGED <<keys, queues, aged>>
    BY <1>0, <2>1, <2>2 DEF SchedulerTypeOK
  <2>3. CASE queues' = [queues EXCEPT ![d] = Gone] /\ aged' = aged \ {d} /\ keys' = Unlisted(d)
    <3>1. queues' \in [Domains -> Queue \cup {Gone}] /\ \A x \in Domains : x # d => queues'[x] = queues[x]
      BY <1>3, <2>1, <2>3
    <3>2. aged' \in SUBSET {x \in Domains : queues'[x] # Gone}
      BY <1>0, <2>3, <3>1 DEF SchedulerTypeOK
    <3>3. keys' \in SUBSET Domains
      BY <1>0, <2>3 DEF SchedulerTypeOK, Unlisted
    <3>4. QED
      BY <3>1, <3>2, <3>3
  <2>4. QED
    BY <1>2, <2>2, <2>3
<1>7. PICK s \in {"find", "expire"} : Goto(Reactor, s)
  BY DEF Expire
<1>8. pc' \in [Threads -> Steps]
  BY <1>0, <1>7, GotoType DEF Steps
<1>9. SchedulerTypeOK'
  BY <1>0, <1>1, <1>4, <1>5, <1>6, <1>8 DEF SchedulerTypeOK, Queue
<1>10. HasRead'
  BY <1>0, <1>1, <1>7, GotoMoves DEF HasRead
<1>11. QED
  BY <1>9, <1>10 DEF TypeInv

LEMMA TypeShuffle ==
  ASSUME TypeInv, Shuffle
  PROVE  todo' \in [Threads -> SUBSET Domains] /\ torn' \in BOOLEAN
<1>0. SchedulerTypeOK /\ \A w \in Misled : w \in Threads
  BY DEF TypeInv, Misled, Threads
<1>1. CASE UNCHANGED <<todo, torn>>
  BY <1>0, <1>1 DEF SchedulerTypeOK
<1>2. CASE \E w \in Misled : \E rest \in SUBSET keys :
          /\ todo' = [todo EXCEPT ![w] = rest]
          /\ torn' = (torn \/ rest # todo[w])
  <2>1. PICK w \in Misled : \E rest \in SUBSET keys :
          /\ todo' = [todo EXCEPT ![w] = rest]
          /\ torn' = (torn \/ rest # todo[w])
    BY <1>2
  <2>2. PICK rest \in SUBSET keys :
          /\ todo' = [todo EXCEPT ![w] = rest]
          /\ torn' = (torn \/ rest # todo[w])
    BY <2>1
  <2>3. rest \in SUBSET Domains
    BY <1>0 DEF SchedulerTypeOK
  <2>4. todo' \in [Threads -> SUBSET Domains]
    BY <1>0, <2>2, <2>3 DEF SchedulerTypeOK
  <2>5. torn' \in BOOLEAN
    BY <1>0, <2>2 DEF SchedulerTypeOK
  <2>6. QED
    BY <2>4, <2>5
<1>3. QED
  BY <1>1, <1>2 DEF Shuffle

LEMMA TypeFind ==
  ASSUME TypeInv, FindNothing \/ \E d \in Domains : Pop(d)
  PROVE  TypeInv'
<1> USE DEF config, memory
<1>0. SchedulerTypeOK /\ HasRead /\ Reactor \in Threads
  BY DEF TypeInv, Threads
<1>1. /\ Shuffle /\ Goto(Reactor, "idle")
      /\ UNCHANGED <<keys, listedBy, queues, config, cur, read, fresh, astray, events, ages>>
  BY DEF FindNothing, Pop
<1>2. present' \in SUBSET Domains /\ aged' \in SUBSET {d \in Domains : queues'[d] # Gone}
  <2>1. CASE FindNothing
    BY <1>0, <2>1 DEF FindNothing, SchedulerTypeOK
  <2>2. ASSUME NEW d \in Domains, Pop(d)
        PROVE  present' \in SUBSET Domains /\ aged' \in SUBSET {x \in Domains : queues'[x] # Gone}
    <3>1. aged' = aged \ {d} /\ queues' = queues /\ present' \in {present, present \ {d}}
      BY <2>2 DEF Pop
    <3>2. QED
      BY <1>0, <3>1 DEF SchedulerTypeOK
  <2>3. QED
    BY <2>1, <2>2
<1>3. pc' \in [Threads -> Steps]
  BY <1>0, <1>1, GotoType DEF Steps
<1>4. todo' \in [Threads -> SUBSET Domains] /\ torn' \in BOOLEAN
  BY <1>1, TypeShuffle
<1>5. SchedulerTypeOK'
  BY <1>0, <1>1, <1>2, <1>3, <1>4 DEF SchedulerTypeOK
<1>6. HasRead'
  BY <1>0, <1>1, GotoMoves DEF HasRead
<1>7. QED
  BY <1>5, <1>6 DEF TypeInv

\* The callbacks of the watcher.
LEMMA TypeCallback ==
  ASSUME TypeInv, NEW w \in Watchers,
         \/ ChangeConfig(w) \/ LoadConfig(w) \/ Update(w) \/ Touch(w)
         \/ ErrorConfig(w) \/ Revert(w) \/ Reverted(w)
  PROVE  TypeInv'
<1> USE DEF config, memory
<1>0. SchedulerTypeOK /\ HasRead /\ w \in Threads
  BY DEF TypeInv, Threads
<1>1. queues \in [Domains -> Queue \cup {Gone}]
  BY <1>0 DEF SchedulerTypeOK, Queue
\* A callback that goes on at a step that uses no domain.
<1>2. ASSUME NEW s \in Steps \ {"look", "store", "touch"}, Goto(w, s), UNCHANGED <<cur, read>>
      PROVE  pc' \in [Threads -> Steps] /\ HasRead'
  <2>1. pc' \in [Threads -> Steps]
    BY <1>0, <1>2, GotoType
  <2>2. HasRead'
    BY <1>0, <1>2, GotoMoves DEF HasRead
  <2>3. QED
    BY <2>1, <2>2
<1>3. events' \in 0..MaxEvents
  <2>1. MaxEvents \in Nat /\ events \in 0..MaxEvents
    BY <1>0, SchedulerAssumption DEF SchedulerAssumption, SchedulerTypeOK
  <2>2. events' = events \/ (events < MaxEvents /\ events' = events + 1)
    BY DEF ChangeConfig, LoadConfig, Update, Touch, ErrorConfig, Revert, Reverted, Called
  <2>3. QED
    BY <2>1, <2>2
<1>4. CASE ChangeConfig(w)
  <2>1. /\ conf' = [d \in Domains |-> Unset] /\ astray' = astray \cup Configured /\ Goto(w, "load")
        /\ UNCHANGED <<present, memory, flag, black, todo, cur, read, fresh, torn, ages>>
    BY <1>4 DEF ChangeConfig
  <2>2. pc' \in [Threads -> Steps] /\ HasRead'
    BY <1>2, <2>1 DEF Steps
  <2>3. conf' \in [Domains -> Settings \cup {Unset}] /\ astray' \in SUBSET Domains
    BY <1>0, <2>1 DEF SchedulerTypeOK, Configured
  <2>4. SchedulerTypeOK'
    BY <1>0, <1>3, <2>1, <2>2, <2>3 DEF SchedulerTypeOK
  <2>5. QED
    BY <2>2, <2>4 DEF TypeInv
<1>5. CASE LoadConfig(w)
  <2>1. /\ flag' = TRUE /\ Goto(w, "update")
        /\ UNCHANGED <<present, memory, cur, read, fresh, torn, astray, events, ages>>
    BY <1>5 DEF LoadConfig
  <2>2. PICK loaded \in Configs :
          /\ conf' = [d \in Domains |->
                        IF loaded.domains[d] = Unset THEN conf[d] ELSE loaded.domains[d]]
          /\ todo' = [todo EXCEPT ![w] = {d \in Domains : conf'[d] # Unset}]
          /\ black' = IF loaded.blacklist = Unset THEN black ELSE loaded.blacklist
    BY <1>5 DEF LoadConfig
  <2>3. /\ loaded.domains \in [Domains -> Custom \cup {Broken, Unset}]
        /\ loaded.blacklist \in (SUBSET Domains) \cup {Unset}
    BY SchedulerAssumption DEF SchedulerAssumption
  <2>4. conf' \in [Domains -> Settings \cup {Unset}]
    BY <1>0, <2>2, <2>3 DEF SchedulerTypeOK, Settings
  <2>5. todo' \in [Threads -> SUBSET Domains] /\ black' \in SUBSET Domains
    BY <1>0, <2>2, <2>3 DEF SchedulerTypeOK
  <2>6. pc' \in [Threads -> Steps] /\ HasRead'
    BY <1>2, <2>1 DEF Steps
  <2>7. SchedulerTypeOK'
    BY <1>0, <2>1, <2>4, <2>5, <2>6 DEF SchedulerTypeOK
  <2>8. QED
    BY <2>6, <2>7 DEF TypeInv
<1>6. CASE Update(w)
  <2>0. UNCHANGED <<present, memory, config, read, fresh, torn, astray, events, ages>>
    BY <1>6 DEF Update
  <2>1. CASE Goto(w, "list") /\ UNCHANGED <<todo, cur>>
    <3>1. pc' \in [Threads -> Steps] /\ HasRead'
      BY <1>2, <2>0, <2>1 DEF Steps
    <3>2. SchedulerTypeOK'
      BY <1>0, <2>0, <2>1, <3>1 DEF SchedulerTypeOK
    <3>3. QED
      BY <3>1, <3>2 DEF TypeInv
  <2>2. ASSUME NEW d \in todo[w], todo' = [todo EXCEPT ![w] = @ \ {d}],
               \/ UNCHANGED <<pc, cur>>
               \/ cur' = [cur EXCEPT ![w] = d] /\ Goto(w, "touch")
        PROVE  TypeInv'
    <3>1. d \in Domains /\ todo' \in [Threads -> SUBSET Domains]
      BY <1>0, <2>2 DEF SchedulerTypeOK
    <3>2. CASE UNCHANGED <<pc, cur>>
      <4>1. SchedulerTypeOK'
        BY <1>0, <2>0, <3>1, <3>2 DEF SchedulerTypeOK
      <4>2. HasRead'
        BY <1>0, <2>0, <3>2 DEF HasRead
      <4>3. QED
        BY <4>1, <4>2 DEF TypeInv
    <3>3. CASE cur' = [cur EXCEPT ![w] = d] /\ Goto(w, "touch")
      <4>1. pc' \in [Threads -> Steps]
        BY <1>0, <3>3, GotoType DEF Steps
      <4>2. cur' \in [Threads -> Domains \cup {Gone}]
        BY <1>0, <3>1, <3>3 DEF SchedulerTypeOK
      <4>3. SchedulerTypeOK'
        BY <1>0, <2>0, <3>1, <4>1, <4>2 DEF SchedulerTypeOK
      <4>4. \A u \in Threads : /\ pc'[u] = IF u = w THEN "touch" ELSE pc[u]
                               /\ cur'[u] = IF u = w THEN d ELSE cur[u]
        BY <1>0, <3>3, GotoMoves DEF SchedulerTypeOK
      <4>5. HasRead'
        BY <1>0, <2>0, <3>1, <4>4 DEF HasRead
      <4>6. QED
        BY <4>3, <4>5 DEF TypeInv
    <3>4. QED
      BY <2>2, <3>2, <3>3
  <2>3. QED
    BY <1>6, <2>1, <2>2 DEF Update
\* A KeyError, or one queue of the loop.
<1>7. ASSUME Leave(w, "idle"), astray' = astray \cup Amiss, UNCHANGED queues,
             UNCHANGED <<present, keys, listedBy, aged, config, torn, events, ages>>
      PROVE  TypeInv'
  <2>1. /\ pc' \in [Threads -> Steps] /\ todo' \in [Threads -> SUBSET Domains]
        /\ cur' \in [Threads -> Domains \cup {Gone}] /\ read' \in [Threads -> Settings \cup {Unset}]
        /\ fresh' \in [Threads -> BOOLEAN]
    BY <1>0, <1>7, LeaveType DEF Steps
  <2>2. astray' \in SUBSET Domains
    BY <1>0, <1>7 DEF SchedulerTypeOK, Amiss
  <2>3. SchedulerTypeOK'
    BY <1>0, <1>7, <2>1, <2>2 DEF SchedulerTypeOK
  <2>4. HasRead'
    BY <1>0, <1>7, LeaveMoves DEF HasRead
  <2>5. QED
    BY <2>3, <2>4 DEF TypeInv
<1>8. ASSUME NEW d \in Domains, NEW s \in Settings, queues[d] # Gone,
             queues' = [queues EXCEPT ![d] = [queues[d] EXCEPT !.limit = s]], UNCHANGED aged
      PROVE  /\ queues' \in [Domains -> [limit : Settings, pace : Settings \ {Broken}] \cup {Gone}]
             /\ aged' \in SUBSET {x \in Domains : queues'[x] # Gone}
  <2> DEFINE q == [queues[d] EXCEPT !.limit = s]
  <2>1. q \in Queue /\ q # Gone
    BY <1>1, <1>8, QueueFacts
  <2> HIDE DEF q
  <2>2. queues' = [queues EXCEPT ![d] = q]
    BY <1>8 DEF q
  <2>3. queues' \in [Domains -> Queue \cup {Gone}] /\ \A x \in Domains : queues'[x] = IF x = d THEN q ELSE queues[x]
    BY <1>1, <2>1, <2>2
  <2>4. aged' \in SUBSET {x \in Domains : queues'[x] # Gone}
    BY <1>0, <1>8, <2>1, <2>3 DEF SchedulerTypeOK
  <2>5. QED
    BY <2>3, <2>4 DEF Queue
<1>9. CASE Touch(w)
  <2>0. /\ cur[w] \in Domains
        /\ UNCHANGED <<present, keys, listedBy, aged, config, torn, events, ages>>
    BY <1>0, <1>9 DEF Touch, HasRead
  <2>1. CASE Leave(w, "idle") /\ astray' = astray \cup Amiss /\ UNCHANGED queues
    BY <1>7, <2>0, <2>1
  <2>2. CASE /\ queues[cur[w]] # Gone /\ conf[cur[w]] # Unset
             /\ queues' = [queues EXCEPT ![cur[w]] = Retuned(cur[w])]
             /\ astray' = astray \ {cur[w]}
             /\ Goto(w, "update")
             /\ cur' = [cur EXCEPT ![w] = Gone]
             /\ UNCHANGED <<todo, read, fresh>>
    <3>1. conf[cur[w]] \in Settings
      BY <1>0, <2>0, <2>2 DEF SchedulerTypeOK
    <3>2. /\ queues' \in [Domains -> [limit : Settings, pace : Settings \ {Broken}] \cup {Gone}]
          /\ aged' \in SUBSET {x \in Domains : queues'[x] # Gone}
      BY <1>8, <2>0, <2>2, <3>1 DEF Retuned
    <3>3. pc' \in [Threads -> Steps]
      BY <1>0, <2>2, GotoType DEF Steps
    <3>4. cur' \in [Threads -> Domains \cup {Gone}] /\ astray' \in SUBSET Domains
      BY <1>0, <2>2 DEF SchedulerTypeOK
    <3>5. SchedulerTypeOK'
      BY <1>0, <2>0, <2>2, <3>2, <3>3, <3>4 DEF SchedulerTypeOK
    <3>6. \A u \in Threads : /\ pc'[u] = IF u = w THEN "update" ELSE pc[u]
                             /\ u # w => cur'[u] = cur[u]
      BY <1>0, <2>2, GotoMoves DEF SchedulerTypeOK
    <3>7. HasRead'
      BY <1>0, <2>2, <3>6 DEF HasRead
    <3>8. QED
      BY <3>5, <3>7 DEF TypeInv
  <2>3. QED
    BY <1>9, <2>1, <2>2 DEF Touch
<1>10. CASE ErrorConfig(w)
  <2>1. PICK s \in Reverting : Goto(w, s)
    BY <1>10 DEF ErrorConfig
  <2>2. /\ todo' = [todo EXCEPT ![w] = Configured]
        /\ UNCHANGED <<present, memory, config, cur, read, fresh, torn, astray, ages>>
    BY <1>10 DEF ErrorConfig
  <2>3. pc' \in [Threads -> Steps] /\ HasRead'
    BY <1>2, <2>1, <2>2 DEF Steps, Reverting
  <2>4. todo' \in [Threads -> SUBSET Domains]
    BY <1>0, <2>2 DEF SchedulerTypeOK, Configured
  <2>5. SchedulerTypeOK'
    BY <1>0, <1>3, <2>2, <2>3, <2>4 DEF SchedulerTypeOK
  <2>6. QED
    BY <2>3, <2>5 DEF TypeInv
<1>11. CASE Revert(w)
  <2>0. UNCHANGED <<present, keys, listedBy, aged, config, torn, events, ages>>
    BY <1>11 DEF Revert
  <2>1. ASSUME NEW d \in todo[w], queues[d] # Gone, queues' = [queues EXCEPT ![d].limit = Default],
               todo' = [todo EXCEPT ![w] = @ \ {d}], astray' = astray \ {d},
               UNCHANGED <<pc, cur, read, fresh>>
        PROVE  TypeInv'
    <3>1. d \in Domains /\ todo' \in [Threads -> SUBSET Domains] /\ astray' \in SUBSET Domains
      BY <1>0, <2>1 DEF SchedulerTypeOK
    <3>2. /\ queues' \in [Domains -> [limit : Settings, pace : Settings \ {Broken}] \cup {Gone}]
          /\ aged' \in SUBSET {x \in Domains : queues'[x] # Gone}
      BY <1>8, <2>0, <2>1, <3>1, QueueFacts
    <3>3. SchedulerTypeOK'
      BY <1>0, <2>0, <2>1, <3>1, <3>2 DEF SchedulerTypeOK
    <3>4. HasRead'
      BY <1>0, <2>1 DEF HasRead
    <3>5. QED
      BY <3>3, <3>4 DEF TypeInv
  <2>2. QED
    BY <1>7, <1>11, <2>0, <2>1 DEF Revert
<1>12. CASE Reverted(w)
  <2>1. /\ conf' = [d \in Domains |-> Unset]
        /\ UNCHANGED <<present, memory, flag, black, todo, cur, read, fresh, torn, astray, events, ages>>
    BY <1>12 DEF Reverted
  <2>2. PICK s \in {"list", "idle"} : Goto(w, s)
    BY <1>12 DEF Reverted
  <2>3. pc' \in [Threads -> Steps] /\ HasRead'
    BY <1>2, <2>1, <2>2 DEF Steps
  <2>4. conf' \in [Domains -> Settings \cup {Unset}]
    BY <2>1
  <2>5. SchedulerTypeOK'
    BY <1>0, <2>1, <2>3, <2>4 DEF SchedulerTypeOK
  <2>6. QED
    BY <2>3, <2>5 DEF TypeInv
<1>13. QED
  BY <1>4, <1>5, <1>6, <1>9, <1>10, <1>11, <1>12

LEMMA TypeStep ==
  ASSUME TypeInv, [Next]_vars
  PROVE  TypeInv'
<1> USE DEF locals, memory, config
<1>0. SchedulerTypeOK /\ HasRead
  BY DEF TypeInv
<1>1. ASSUME NEW d \in Domains, Enqueue(d) \/ Elsewhere(d) \/ Age(d)
      PROVE  TypeInv'
  <2>1. /\ present' \in {present, present \cup {d}, present \ {d}}
        /\ UNCHANGED <<keys, listedBy, queues, config, locals, torn, astray, events>>
    BY <1>1 DEF Enqueue, Elsewhere, Age
  <2>2. present' \in SUBSET Domains
    BY <1>0, <2>1 DEF SchedulerTypeOK
  <2>3. aged' \in SUBSET {x \in Domains : queues'[x] # Gone} /\ ages' \in 0..MaxAges
    <3>1. CASE UNCHANGED <<aged, ages>>
      BY <1>0, <2>1, <3>1 DEF SchedulerTypeOK
    <3>2. CASE queues[d] # Gone /\ aged' = aged \cup {d} /\ ages < MaxAges /\ ages' = ages + 1
      <4>1. MaxAges \in Nat
        BY SchedulerAssumption DEF SchedulerAssumption
      <4>2. ages' \in 0..MaxAges
        BY <1>0, <3>2, <4>1 DEF SchedulerTypeOK
      <4>3. aged' \in SUBSET {x \in Domains : queues'[x] # Gone}
        BY <1>0, <2>1, <3>2 DEF SchedulerTypeOK
      <4>4. QED
        BY <4>2, <4>3
    <3>3. QED
      BY <1>1, <3>1, <3>2 DEF Enqueue, Elsewhere, Age
  <2>4. SchedulerTypeOK'
    BY <1>0, <2>1, <2>2, <2>3 DEF SchedulerTypeOK
  <2>5. HasRead'
    BY <1>0, <2>1 DEF HasRead
  <2>6. QED
    BY <2>4, <2>5 DEF TypeInv
<1>2. CASE UNCHANGED vars
  <2>1. SchedulerTypeOK'
    BY <1>0, <1>2 DEF SchedulerTypeOK, vars
  <2>2. HasRead'
    BY <1>0, <1>2 DEF HasRead, vars
  <2>3. QED
    BY <2>1, <2>2 DEF TypeInv
<1>3. Reactor \in Threads /\ \A w \in Watchers : w \in Threads
  BY DEF Threads
<1>4. CASE ReactorStep
  BY <1>3, <1>4, TypeBuildStep, TypeExpire, TypeFind DEF ReactorStep
<1>5. ASSUME NEW w \in Watchers, CallbackStep(w) \/ ChangeConfig(w) \/ ErrorConfig(w) PROVE TypeInv'
  BY <1>3, <1>5, TypeBuildStep, TypeCallback DEF CallbackStep
<1>6. QED
  BY <1>1, <1>2, <1>4, <1>5 DEF Next

\* What create_queues and the callbacks store keeps its shape, whatever is interleaved: in
\* particular no queue is built with the moderation of a setting that has no hits.
LEMMA TypeCorrect == Spec => []TypeInv
<1>1. ASSUME Init PROVE TypeInv
  <2>1. conf \in [Domains -> Settings \cup {Unset}] /\ black \in SUBSET Domains
        /\ \A d \in Domains : conf[d] # Broken
    <3>1. CASE conf = [d \in Domains |-> Unset] /\ black = {}
      <4>1. Unset # Broken
        BY QueueFacts DEF Settings
      <4>2. QED
        BY <3>1, <4>1
    <3>2. ASSUME NEW c \in Configs, conf = c.domains, \A d \in Domains : conf[d] # Broken,
                 black = IF c.blacklist = Unset THEN {} ELSE c.blacklist
          PROVE  conf \in [Domains -> Settings \cup {Unset}] /\ black \in SUBSET Domains
      <4>1. /\ c.domains \in [Domains -> Custom \cup {Broken, Unset}]
            /\ c.blacklist \in (SUBSET Domains) \cup {Unset}
        BY SchedulerAssumption DEF SchedulerAssumption
      <4>2. c.domains \in [Domains -> Settings \cup {Unset}]
        BY <4>1 DEF Settings
      <4>3. QED
        BY <3>2, <4>1, <4>2
    <3>3. QED
      BY <1>1, <3>1, <3>2 DEF Init
  <2>2. \A d \in Domains : Wanted(d) \in Settings \ {Broken}
    BY <2>1, QueueFacts DEF Wanted
  <2>3. \A d \in Domains : [limit |-> Wanted(d), pace |-> Wanted(d)] \in Queue
    BY <2>2, QueueFacts
  <2>4. queues \in [Domains -> Queue \cup {Gone}]
    BY <1>1, <2>3 DEF Init
  <2>5. /\ pc \in [Threads -> Steps] /\ todo \in [Threads -> SUBSET Domains]
        /\ cur \in [Threads -> Domains \cup {Gone}]
    BY <1>1 DEF Init, Steps
  <2>6. read \in [Threads -> Settings \cup {Unset}] /\ fresh \in [Threads -> BOOLEAN]
    BY <1>1 DEF Init
  <2>7. events \in 0..MaxEvents /\ ages \in 0..MaxAges
    BY <1>1, SchedulerAssumption DEF Init, SchedulerAssumption
  <2>8. /\ present \in SUBSET Domains /\ keys \in SUBSET Domains /\ listedBy \in Threads
        /\ aged = {} /\ astray = {}
    BY <1>1 DEF Init, Threads
  <2>9. flag \in BOOLEAN /\ torn \in BOOLEAN
    BY <1>1 DEF Init
  <2>10. SchedulerTypeOK
    BY <2>1, <2>4, <2>5, <2>6, <2>7, <2>8, <2>9 DEF SchedulerTypeOK, Queue
  <2>11. HasRead
    BY <1>1 DEF Init, HasRead
  <2>12. QED
    BY <2>10, <2>11 DEF TypeInv
<1>2. QED
  BY <1>1, TypeStep, PTL DEF Spec

----------------------------------------------------------------------------
\* What a callback does to the other threads, to the list, and to the queues.
LEMMA CallbackMoves ==
  ASSUME TypeInv, NEW w \in Watchers,
         \/ ChangeConfig(w) \/ LoadConfig(w) \/ Update(w) \/ Touch(w)
         \/ ErrorConfig(w) \/ Revert(w) \/ Reverted(w)
  PROVE  /\ \A u \in Threads : u # w => pc'[u] = pc[u] /\ todo'[u] = todo[u] /\ cur'[u] = cur[u]
         /\ UNCHANGED <<keys, listedBy, torn>>
         /\ \A d \in Domains : queues'[d] # Gone <=> queues[d] # Gone
         /\ pc[w] \notin Building /\ pc'[w] \notin Building
<1> USE DEF config, memory
<1>0. SchedulerTypeOK /\ HasRead /\ w \in Threads /\ queues \in [Domains -> Queue \cup {Gone}]
  BY DEF TypeInv, Threads, SchedulerTypeOK, Queue
<1>1. UNCHANGED <<keys, listedBy, torn>> /\ pc[w] \notin Building /\ pc'[w] \notin Building
  <2>1. UNCHANGED <<keys, listedBy, torn>> /\ pc[w] \notin Building
    BY DEF ChangeConfig, LoadConfig, Update, Touch, ErrorConfig, Revert, Reverted, Called, Building, Reverting
  <2>2. \/ \E s \in {"idle", "load", "update", "list", "touch"} \cup Reverting : Goto(w, s)
        \/ UNCHANGED pc
    BY DEF ChangeConfig, LoadConfig, Update, Touch, ErrorConfig, Revert, Reverted, Leave
  <2>3. pc'[w] \notin Building
    BY <1>0, <2>1, <2>2, GotoMoves DEF Building, Reverting
  <2>4. QED
    BY <2>1, <2>3
<1>2. ASSUME NEW d \in Domains, NEW s \in Settings, queues[d] # Gone,
             queues' = [queues EXCEPT ![d] = [queues[d] EXCEPT !.limit = s]]
      PROVE  \A x \in Domains : queues'[x] # Gone <=> queues[x] # Gone
  <2> DEFINE q == [queues[d] EXCEPT !.limit = s]
  <2>1. q # Gone
    BY <1>0, <1>2, QueueFacts
  <2> HIDE DEF q
  <2>2. queues' = [queues EXCEPT ![d] = q]
    BY <1>2 DEF q
  <2>3. QED
    BY <1>0, <1>2, <2>1, <2>2
\* A KeyError moves nothing but the locals of the callback.
<1>3. ASSUME Leave(w, "idle"), UNCHANGED queues
      PROVE  /\ \A u \in Threads : u # w => pc'[u] = pc[u] /\ todo'[u] = todo[u] /\ cur'[u] = cur[u]
             /\ \A d \in Domains : queues'[d] # Gone <=> queues[d] # Gone
  BY <1>0, <1>3, LeaveMoves
<1>4. ASSUME NEW s, Goto(w, s), UNCHANGED queues, NEW set, todo' \in {todo, [todo EXCEPT ![w] = set]},
             NEW x, cur' \in {cur, [cur EXCEPT ![w] = x]}
      PROVE  /\ \A u \in Threads : u # w => pc'[u] = pc[u] /\ todo'[u] = todo[u] /\ cur'[u] = cur[u]
             /\ \A d \in Domains : queues'[d] # Gone <=> queues[d] # Gone
  <2>1. \A u \in Threads : u # w => pc'[u] = pc[u]
    BY <1>0, <1>4, GotoMoves
  <2>2. \A u \in Threads : u # w => todo'[u] = todo[u] /\ cur'[u] = cur[u]
    BY <1>0, <1>4 DEF SchedulerTypeOK
  <2>3. QED
    BY <1>4, <2>1, <2>2
<1>5. CASE ChangeConfig(w)
  BY <1>1, <1>4, <1>5 DEF ChangeConfig
<1>6. CASE LoadConfig(w)
  BY <1>1, <1>4, <1>6 DEF LoadConfig
<1>7. CASE Update(w)
  <2>1. CASE Goto(w, "list") /\ UNCHANGED <<todo, cur>>
    BY <1>1, <1>4, <1>7, <2>1 DEF Update
  <2>2. ASSUME NEW d \in todo[w], todo' = [todo EXCEPT ![w] = @ \ {d}], UNCHANGED <<pc, cur>>
        PROVE  \A u \in Threads : u # w => pc'[u] = pc[u] /\ todo'[u] = todo[u] /\ cur'[u] = cur[u]
    BY <1>0, <2>2 DEF SchedulerTypeOK
  <2>3. ASSUME NEW d \in todo[w], todo' = [todo EXCEPT ![w] = @ \ {d}],
               cur' = [cur EXCEPT ![w] = d], Goto(w, "touch")
        PROVE  \A u \in Threads : u # w => pc'[u] = pc[u] /\ todo'[u] = todo[u] /\ cur'[u] = cur[u]
    BY <1>0, <2>3, GotoMoves DEF SchedulerTypeOK
  <2>4. UNCHANGED queues
    BY <1>7 DEF Update
  <2>5. QED
    BY <1>1, <1>7, <2>1, <2>2, <2>3, <2>4 DEF Update
<1>8. CASE Touch(w)
  <2>1. CASE Leave(w, "idle") /\ UNCHANGED queues
    BY <1>1, <1>3, <2>1
  <2>2. CASE /\ queues[cur[w]] # Gone /\ conf[cur[w]] # Unset
             /\ queues' = [queues EXCEPT ![cur[w]] = Retuned(cur[w])]
             /\ Goto(w, "update") /\ cur' = [cur EXCEPT ![w] = Gone] /\ UNCHANGED todo
    <3>1. cur[w] \in Domains /\ conf[cur[w]] \in Settings
      BY <1>0, <1>8, <2>2 DEF Touch, HasRead, SchedulerTypeOK
    <3>2. \A x \in Domains : queues'[x] # Gone <=> queues[x] # Gone
      BY <1>2, <2>2, <3>1 DEF Retuned
    <3>3. \A u \in Threads : u # w => pc'[u] = pc[u] /\ todo'[u] = todo[u] /\ cur'[u] = cur[u]
      BY <1>0, <2>2, GotoMoves DEF SchedulerTypeOK
    <3>4. QED
      BY <1>1, <3>2, <3>3
  <2>3. QED
    BY <1>8, <2>1, <2>2 DEF Touch
<1>9. CASE ErrorConfig(w)
  <2>1. PICK s \in Reverting : Goto(w, s)
    BY <1>9 DEF ErrorConfig
  <2>2. todo' = [todo EXCEPT ![w] = Configured] /\ UNCHANGED <<queues, cur>>
    BY <1>9 DEF ErrorConfig
  <2>3. \A u \in Threads : u # w => pc'[u] = pc[u] /\ todo'[u] = todo[u] /\ cur'[u] = cur[u]
    BY <1>0, <2>1, <2>2, GotoMoves DEF SchedulerTypeOK
  <2>4. QED
    BY <1>1, <2>2, <2>3
<1>10. CASE Revert(w)
  <2>1. ASSUME NEW d \in todo[w], queues[d] # Gone, queues' = [queues EXCEPT ![d].limit = Default],
               todo' = [todo EXCEPT ![w] = @ \ {d}], UNCHANGED <<pc, cur>>
        PROVE  /\ \A u \in Threads : u # w => pc'[u] = pc[u] /\ todo'[u] = todo[u] /\ cur'[u] = cur[u]
               /\ \A x \in Domains : queues'[x] # Gone <=> queues[x] # Gone
    <3>1. d \in Domains
      BY <1>0 DEF SchedulerTypeOK
    <3>2. \A x \in Domains : queues'[x] # Gone <=> queues[x] # Gone
      BY <1>2, <2>1, <3>1, QueueFacts
    <3>3. QED
      BY <1>0, <2>1, <3>2 DEF SchedulerTypeOK
  <2>2. QED
    BY <1>1, <1>3, <1>10, <2>1 DEF Revert
<1>11. CASE Reverted(w)
  BY <1>1, <1>4, <1>11 DEF Reverted
<1>12. QED
  BY <1>5, <1>6, <1>7, <1>8, <1>9, <1>10, <1>11

\* What the loop of create_queues does to the other threads.
LEMMA BuildMoves ==
  ASSUME TypeInv, NEW t \in Threads, BuildStep(t)
  PROVE  /\ \A u \in Threads : u # t => /\ pc'[u] = pc[u] /\ todo'[u] = todo[u] /\ cur'[u] = cur[u]
                                       /\ fresh'[u] = fresh[u]
         /\ UNCHANGED conf
<1> USE DEF config
<1>0. SchedulerTypeOK
  BY DEF TypeInv
<1>1. UNCHANGED conf
  BY DEF BuildStep, List, Build, LookUp, Store, Built
<1>2. ASSUME NEW s, Goto(t, s) \/ pc' = pc, NEW set, todo' \in {todo, [todo EXCEPT ![t] = set]},
             NEW x, cur' \in {cur, [cur EXCEPT ![t] = x]}, NEW b, fresh' \in {fresh, [fresh EXCEPT ![t] = b]}
      PROVE  \A u \in Threads : u # t => /\ pc'[u] = pc[u] /\ todo'[u] = todo[u] /\ cur'[u] = cur[u]
                                         /\ fresh'[u] = fresh[u]
  <2>1. \A u \in Threads : u # t => pc'[u] = pc[u]
    BY <1>0, <1>2, GotoMoves
  <2>2. \A u \in Threads : u # t => todo'[u] = todo[u] /\ cur'[u] = cur[u]
    BY <1>0, <1>2 DEF SchedulerTypeOK
  <2>3. \A u \in Threads : u # t => fresh'[u] = fresh[u]
    BY <1>0, <1>2 DEF SchedulerTypeOK
  <2>4. QED
    BY <2>1, <2>2, <2>3
<1>3. CASE List(t)
  <2>1. Goto(t, "build") /\ todo' = [todo EXCEPT ![t] = present] /\ UNCHANGED cur
    BY <1>3 DEF List
  <2>2. \A u \in Threads : u # t => pc'[u] = pc[u] /\ todo'[u] = todo[u] /\ cur'[u] = cur[u]
    BY <1>0, <2>1, GotoMoves DEF SchedulerTypeOK
  <2>3. \A u \in Threads : u # t => fresh'[u] = fresh[u]
    BY <1>0, <1>3 DEF List, SchedulerTypeOK
  <2>4. QED
    BY <1>1, <2>2, <2>3
<1>4. CASE Build(t)
  <2> PICK d \in todo[t] :
          /\ todo' = [todo EXCEPT ![t] = @ \ {d}]
          /\ \/ UNCHANGED <<pc, cur>>
             \/ /\ cur' = [cur EXCEPT ![t] = d]
                /\ Goto(t, "store") \/ Goto(t, "look")
    BY <1>4 DEF Build
  <2>1. UNCHANGED fresh
    BY <1>4 DEF Build
  <2>2. Goto(t, "store") \/ Goto(t, "look") \/ pc' = pc
    OBVIOUS
  <2>3. \A u \in Threads : u # t => pc'[u] = pc[u]
    BY <1>0, <2>2, GotoMoves
  <2>4. \A u \in Threads : u # t => todo'[u] = todo[u] /\ cur'[u] = cur[u]
    BY <1>0 DEF SchedulerTypeOK
  <2>5. QED
    BY <1>1, <2>1, <2>3, <2>4
<1>5. CASE LookUp(t)
  BY <1>0, <1>1, <1>2, <1>5, LeaveMoves DEF LookUp, CutShort
<1>6. CASE Store(t)
  BY <1>0, <1>1, <1>2, <1>6, LeaveMoves DEF Store, CutShort
<1>7. CASE Built(t)
  BY <1>0, <1>1, <1>2, <1>7, LeaveMoves DEF Built
<1>8. QED
  BY <1>3, <1>4, <1>5, <1>6, <1>7 DEF BuildStep

----------------------------------------------------------------------------
\* NoneMissing.  Nothing is lost while the list gets no longer, what has a queue keeps it,
\* and the loop that makes the list still comes to the rest.
LEMMA ListKept ==
  ASSUME ListInv, UNCHANGED listedBy, keys' \subseteq keys, ~torn' => ~torn,
         \A d \in keys' : queues[d] # Gone => queues'[d] # Gone,
         \A d \in keys' : ~torn' /\ ToBuild(listedBy, d) =>
             queues'[d] # Gone \/ ToBuild(listedBy, d)'
  PROVE  ListInv'
BY DEF ListInv

LEMMA ListBuildStep ==
  ASSUME TypeInv, ListInv, NEW t \in Threads, BuildStep(t)
  PROVE  ListInv'
<1> USE DEF config, memory
<1>0. SchedulerTypeOK /\ HasRead /\ queues \in [Domains -> Queue \cup {Gone}]
      /\ keys \subseteq Domains /\ listedBy \in Threads
  BY DEF TypeInv, SchedulerTypeOK, Queue
<1>1. CASE List(t)
  <2>1. /\ keys' = present /\ listedBy' = t /\ todo' = [todo EXCEPT ![t] = present]
        /\ Goto(t, "build") /\ UNCHANGED queues
    BY <1>1 DEF List
  <2>2. pc'[t] = "build" /\ todo'[t] = present
    BY <1>0, <2>1, GotoMoves DEF SchedulerTypeOK
  <2>3. QED
    BY <2>1, <2>2 DEF ListInv, ToBuild, Building
\* Another thread may build queues for keys of a list that it did not make, and no more.
<1>2. ASSUME UNCHANGED <<keys, listedBy>>, ~torn' => ~torn,
             \A d \in keys : queues[d] # Gone => queues'[d] # Gone,
             t = listedBy => \A d \in keys : ~torn' /\ ToBuild(t, d) =>
                                queues'[d] # Gone \/ ToBuild(t, d)'
      PROVE  ListInv'
  <2>1. CASE t = listedBy
    BY <1>2, <2>1, ListKept
  <2>2. CASE t # listedBy
    <3>1. pc'[listedBy] = pc[listedBy] /\ todo'[listedBy] = todo[listedBy] /\ cur'[listedBy] = cur[listedBy]
      BY <1>0, <2>2, BuildMoves
    <3>2. \A d \in keys : ToBuild(listedBy, d) => ToBuild(listedBy, d)'
      BY <1>2, <3>1 DEF ToBuild
    <3>3. QED
      BY <1>2, <3>2, ListKept
  <2>3. QED
    BY <2>1, <2>2
<1>3. CASE Build(t)
  <2>1. UNCHANGED <<keys, listedBy, torn, queues>> /\ pc[t] = "build"
    BY <1>3 DEF Build
  <2> PICK e \in todo[t] :
          /\ todo' = [todo EXCEPT ![t] = @ \ {e}]
          /\ \/ ~Rebuilt(t, e) /\ UNCHANGED <<pc, cur>>
             \/ /\ cur' = [cur EXCEPT ![t] = e]
                /\ Goto(t, "store") \/ Goto(t, "look")
    BY <1>3 DEF Build
  <2>2. todo'[t] = todo[t] \ {e}
    BY <1>0 DEF SchedulerTypeOK
  <2>3. pc'[t] \in Building
    BY <1>0, <2>1, GotoMoves DEF Building
  <2>4. queues[e] # Gone \/ (pc'[t] \in {"look", "store"} /\ cur'[t] = e)
    BY <1>0, GotoMoves DEF Rebuilt, SchedulerTypeOK
  <2>5. \A d \in keys : ToBuild(t, d) => queues'[d] # Gone \/ ToBuild(t, d)'
    BY <2>1, <2>2, <2>3, <2>4 DEF ToBuild
  <2>6. QED
    BY <1>2, <2>1, <2>5
<1>4. ASSUME CutShort(t), UNCHANGED <<keys, listedBy, queues>>
      PROVE  ListInv'
  BY <1>2, <1>4 DEF CutShort
<1>5. CASE LookUp(t)
  <2>1. CASE CutShort(t)
    BY <1>4, <1>5, <2>1 DEF LookUp
  <2>2. CASE Goto(t, "store") /\ UNCHANGED <<todo, cur, torn>>
    <3>1. pc'[t] = "store" /\ pc[t] = "look" /\ UNCHANGED <<keys, listedBy, queues>>
      BY <1>0, <1>5, <2>2, GotoMoves DEF LookUp
    <3>2. \A d \in keys : ToBuild(t, d) => ToBuild(t, d)'
      BY <2>2, <3>1 DEF ToBuild, Building
    <3>3. QED
      BY <1>2, <2>2, <3>1, <3>2
  <2>3. QED
    BY <1>5, <2>1, <2>2 DEF LookUp
<1>6. CASE Store(t)
  <2>0. cur[t] \in Domains /\ read[t] \in Settings /\ pc[t] = "store" /\ UNCHANGED <<keys, listedBy>>
    BY <1>0, <1>6 DEF Store, HasRead, SchedulerTypeOK
  <2>1. CASE CutShort(t) /\ UNCHANGED queues
    BY <1>4, <2>0, <2>1
  <2>2. CASE /\ read[t] # Broken
             /\ queues' = [queues EXCEPT ![cur[t]] = [limit |-> read[t], pace |-> read[t]]]
             /\ Goto(t, "build") /\ UNCHANGED <<todo, torn>>
    <3> DEFINE q == [limit |-> read[t], pace |-> read[t]]
    <3>1. q # Gone
      BY <2>0, <2>2, QueueFacts
    <3> HIDE DEF q
    <3>2. queues' = [queues EXCEPT ![cur[t]] = q]
      BY <2>2 DEF q
    <3>3. \A d \in Domains : queues'[d] = IF d = cur[t] THEN q ELSE queues[d]
      BY <1>0, <2>0, <3>2
    <3>4. pc'[t] = "build"
      BY <1>0, <2>2, GotoMoves
    <3>5. \A d \in keys : ToBuild(t, d) => queues'[d] # Gone \/ ToBuild(t, d)'
      BY <1>0, <2>0, <2>2, <3>1, <3>3, <3>4 DEF ToBuild, Building
    <3>6. \A d \in keys : queues[d] # Gone => queues'[d] # Gone
      BY <1>0, <3>1, <3>3
    <3>7. QED
      BY <1>2, <2>0, <2>2, <3>5, <3>6
  <2>3. QED
    BY <1>6, <2>1, <2>2 DEF Store
<1>7. CASE Built(t)
  <2>1. pc[t] = "build" /\ todo[t] = {} /\ UNCHANGED <<keys, listedBy, queues, torn>>
    BY <1>7 DEF Built
  <2>2. \A d \in keys : ~ToBuild(t, d)
    BY <2>1 DEF ToBuild
  <2>3. QED
    BY <1>2, <2>1, <2>2
<1>8. QED
  BY <1>1, <1>3, <1>5, <1>6, <1>7 DEF BuildStep

\* Deleting a queue takes its key off the list, and out of a loop over that list, which may
\* skip a key: then the list is torn.
LEMMA LoopExpire ==
  ASSUME TypeInv, Expire
  PROVE  /\ ~torn' => ~torn
         /\ keys' \subseteq keys /\ UNCHANGED listedBy
         /\ \A x \in keys' : queues'[x] = queues[x]
         /\ \A x \in keys' : ~torn' /\ ToBuild(listedBy, x) => ToBuild(listedBy, x)'
<1> USE DEF config, memory
<1>0. SchedulerTypeOK /\ Reactor \in Threads /\ listedBy \in Threads /\ keys \subseteq Domains
  BY DEF TypeInv, Threads, SchedulerTypeOK
<1>1. pc[Reactor] = "expire" /\ UNCHANGED <<listedBy, cur>>
  BY DEF Expire
<1>2. \A u \in Threads : u # Reactor => pc'[u] = pc[u] /\ cur'[u] = cur[u]
  <2>1. PICK s \in {"find", "expire"} : Goto(Reactor, s)
    BY DEF Expire
  <2>2. QED
    BY <1>0, <1>1, <2>1, GotoMoves
<1>3. \A d \in keys : ToBuild(listedBy, d) => listedBy # Reactor
  BY <1>1 DEF ToBuild, Building
<1>4. \A w \in Misled : w = listedBy /\ w # Reactor /\ w \in Threads
  BY SchedulerAssumption DEF Misled, Threads, SchedulerAssumption
\* The loop has at least what it had, without the key that went.
<1>5. ASSUME NEW d \in Domains, UNCHANGED torn \/ (torn' <=> torn \/ d \notin todo[listedBy]),
             \/ UNCHANGED <<keys, queues>>
             \/ keys' = keys \ {d} /\ queues' = [queues EXCEPT ![d] = Gone],
             ~torn' /\ listedBy # Reactor => todo[listedBy] \ {d} \subseteq todo'[listedBy],
             UNCHANGED <<keys, queues>> => listedBy = Reactor \/ todo'[listedBy] = todo[listedBy]
      PROVE  /\ ~torn' => ~torn
             /\ keys' \subseteq keys /\ UNCHANGED listedBy
             /\ \A x \in keys' : queues'[x] = queues[x]
             /\ \A x \in keys' : ~torn' /\ ToBuild(listedBy, x) => ToBuild(listedBy, x)'
  <2>1. keys' \subseteq keys /\ (~torn' => ~torn)
    BY <1>5
  <2>2. \A x \in keys' : queues'[x] = queues[x]
    BY <1>0, <1>5 DEF SchedulerTypeOK
  <2>3. \A x \in keys' : ~torn' /\ ToBuild(listedBy, x) => ToBuild(listedBy, x)'
    <3> SUFFICES ASSUME NEW x \in keys', ~torn', ToBuild(listedBy, x)
                 PROVE  ToBuild(listedBy, x)'
      OBVIOUS
    <3>1. listedBy # Reactor /\ pc'[listedBy] = pc[listedBy] /\ cur'[listedBy] = cur[listedBy]
      BY <1>0, <1>2, <1>3, <2>1
    <3>2. x \in todo[listedBy] => x \in todo'[listedBy]
      BY <1>5, <3>1
    <3>3. QED
      BY <1>1, <3>1, <3>2 DEF ToBuild
  <2>4. QED
    BY <1>1, <2>1, <2>2, <2>3
<1>6. PICK d \in todo[Reactor] :
        \/ /\ queues' = [queues EXCEPT ![d] = Gone]
           /\ keys' = Unlisted(d)
           /\ \/ /\ todo' = [todo EXCEPT ![Reactor] = @ \ {d}]
                 /\ UNCHANGED torn
              \/ \E w \in Misled :
                   /\ torn' = (torn \/ d \notin todo[w])
                   /\ \/ todo' = [todo EXCEPT ![Reactor] = @ \ {d}, ![w] = @ \ {d}]
                      \/ /\ d \notin todo[w]
                         /\ \E e \in todo[w] :
                               todo' = [todo EXCEPT ![Reactor] = @ \ {d}, ![w] = @ \ {e}]
        \/ /\ todo' = [todo EXCEPT ![Reactor] = @ \ {d}]
           /\ UNCHANGED <<keys, queues, aged, torn>>
  BY DEF Expire
<1>7. d \in Domains
  BY <1>0 DEF SchedulerTypeOK
<1>8. CASE todo' = [todo EXCEPT ![Reactor] = @ \ {d}] /\ UNCHANGED torn
           /\ \/ UNCHANGED <<keys, queues>>
              \/ keys' = Unlisted(d) /\ queues' = [queues EXCEPT ![d] = Gone]
  <2>1. \A u \in Threads : u # Reactor => todo'[u] = todo[u]
    BY <1>0, <1>8 DEF SchedulerTypeOK
  <2>2. QED
    BY <1>0, <1>5, <1>7, <1>8, <2>1 DEF Unlisted
<1>9. ASSUME NEW w \in Misled, torn' = (torn \/ d \notin todo[w]),
             keys' = Unlisted(d), queues' = [queues EXCEPT ![d] = Gone],
             \/ todo' = [todo EXCEPT ![Reactor] = @ \ {d}, ![w] = @ \ {d}]
             \/ d \notin todo[w]
      PROVE  /\ ~torn' => ~torn
             /\ keys' \subseteq keys /\ UNCHANGED listedBy
             /\ \A x \in keys' : queues'[x] = queues[x]
             /\ \A x \in keys' : ~torn' /\ ToBuild(listedBy, x) => ToBuild(listedBy, x)'
  <2>1. w = listedBy /\ w # Reactor /\ w \in Threads
    BY <1>4
  <2>2. ~torn' => todo'[w] = todo[w] \ {d}
    BY <1>0, <1>9, <2>1 DEF SchedulerTypeOK
  <2>3. torn' <=> torn \/ d \notin todo[listedBy]
    BY <1>9, <2>1
  <2>4. ~torn' => ~torn
    BY <2>3
  <2>5. keys' = keys \ {d} /\ \A x \in keys' : queues'[x] = queues[x]
    BY <1>0, <1>9 DEF Unlisted, SchedulerTypeOK
  <2>6. \A x \in keys' : ~torn' /\ ToBuild(listedBy, x) => ToBuild(listedBy, x)'
    <3> SUFFICES ASSUME NEW x \in keys', ~torn', ToBuild(listedBy, x)
                 PROVE  ToBuild(listedBy, x)'
      OBVIOUS
    <3>1. pc'[listedBy] = pc[listedBy] /\ cur'[listedBy] = cur[listedBy]
      BY <1>0, <1>2, <2>1
    <3>2. x \in todo[listedBy] => x \in todo'[listedBy]
      BY <2>1, <2>2, <2>5
    <3>3. QED
      BY <1>1, <3>1, <3>2 DEF ToBuild
  <2>7. keys' \subseteq keys
    BY <2>5
  <2>8. QED
    BY <1>1, <2>4, <2>5, <2>6, <2>7
<1>10. QED
  BY <1>6, <1>8, <1>9

LEMMA ListShuffle ==
  ASSUME TypeInv, Shuffle, NEW t \in Watchers, t = listedBy, pc[t] \in Building, ~torn'
  PROVE  todo'[t] = todo[t] /\ ~torn
<1>0. SchedulerTypeOK /\ t \in Threads
  BY DEF TypeInv, Threads
<1>1. \A w \in Misled : w = listedBy
  BY DEF Misled
<1>2. CASE UNCHANGED <<todo, torn>>
  BY <1>2
<1>3. ASSUME NEW w \in Misled, NEW rest \in SUBSET keys,
             todo' = [todo EXCEPT ![w] = rest], torn' = (torn \/ rest # todo[w])
      PROVE  todo'[t] = todo[t] /\ ~torn
  <2>1. w = t /\ ~torn /\ rest = todo[t]
    BY <1>1, <1>3
  <2>2. QED
    BY <1>0, <1>3, <2>1 DEF SchedulerTypeOK
<1>4. QED
  BY <1>2, <1>3 DEF Shuffle

\* A shuffle that leaves the list whole leaves the loop over it as it was.
LEMMA LoopFind ==
  ASSUME TypeInv, FindNothing \/ \E d \in Domains : Pop(d)
  PROVE  /\ ~torn' => ~torn
         /\ UNCHANGED <<keys, listedBy, queues>>
         /\ \A x \in keys : ~torn' /\ ToBuild(listedBy, x) => ToBuild(listedBy, x)'
<1> USE DEF config, memory
<1>0. SchedulerTypeOK /\ Reactor \in Threads /\ listedBy \in Threads
  BY DEF TypeInv, Threads, SchedulerTypeOK
<1>1. /\ Shuffle /\ Goto(Reactor, "idle") /\ pc[Reactor] \in {"idle", "find"}
      /\ UNCHANGED <<keys, listedBy, queues, cur>>
  BY DEF FindNothing, Pop
<1>2. ~torn' => ~torn
  BY <1>1 DEF Shuffle
<1>3. \A d \in keys : ~torn' /\ ToBuild(listedBy, d) => ToBuild(listedBy, d)'
  <2> SUFFICES ASSUME NEW d \in keys, ~torn', ToBuild(listedBy, d)
               PROVE  ToBuild(listedBy, d)'
    OBVIOUS
  <2>1. pc[listedBy] \in Building
    BY DEF ToBuild
  <2>2. listedBy # Reactor /\ listedBy \in Watchers
    BY <1>0, <1>1, <2>1 DEF Building, Threads
  <2>3. todo'[listedBy] = todo[listedBy]
    BY <1>1, <2>1, <2>2, ListShuffle
  <2>4. pc'[listedBy] = pc[listedBy]
    BY <1>0, <1>1, <2>2, GotoMoves
  <2>5. QED
    BY <1>1, <2>3, <2>4 DEF ToBuild
<1>4. QED
  BY <1>1, <1>2, <1>3

LEMMA ListStep ==
  ASSUME TypeInv, ListInv, [Next]_vars
  PROVE  ListInv'
<1> USE DEF config, memory, locals
<1>0. Reactor \in Threads /\ (\A w \in Watchers : w \in Threads) /\ keys \subseteq Domains
      /\ listedBy \in Threads
  BY DEF Threads, TypeInv, SchedulerTypeOK
<1>1. ASSUME UNCHANGED <<keys, listedBy, queues, locals, torn>> PROVE ListInv'
  BY <1>1 DEF ListInv, ToBuild
<1>2. ASSUME NEW d \in Domains, Enqueue(d) \/ Elsewhere(d) \/ Age(d) PROVE ListInv'
  BY <1>1, <1>2 DEF Enqueue, Elsewhere, Age
<1>3. ASSUME NEW w \in Watchers,
             \/ ChangeConfig(w) \/ LoadConfig(w) \/ Update(w) \/ Touch(w)
             \/ ErrorConfig(w) \/ Revert(w) \/ Reverted(w)
      PROVE  ListInv'
  <2>1. /\ \A u \in Threads : u # w => pc'[u] = pc[u] /\ todo'[u] = todo[u] /\ cur'[u] = cur[u]
        /\ UNCHANGED <<keys, listedBy, torn>>
        /\ \A d \in Domains : queues'[d] # Gone <=> queues[d] # Gone
        /\ pc[w] \notin Building
    BY <1>3, CallbackMoves
  <2>2. \A d \in keys : ToBuild(listedBy, d) => ToBuild(listedBy, d)'
    BY <1>0, <2>1 DEF ToBuild
  <2>3. QED
    BY <1>0, <2>1, <2>2, ListKept
<1>4. CASE ReactorStep
  <2>1. CASE Expire
    BY <2>1, LoopExpire, ListKept
  <2>2. CASE FindNothing \/ \E d \in Domains : Pop(d)
    BY <2>2, LoopFind, ListKept
  <2>3. QED
    BY <1>0, <1>4, <2>1, <2>2, ListBuildStep DEF ReactorStep
<1>5. ASSUME NEW w \in Watchers, CallbackStep(w) \/ ChangeConfig(w) \/ ErrorConfig(w) PROVE ListInv'
  BY <1>0, <1>3, <1>5, ListBuildStep DEF CallbackStep
<1>6. CASE UNCHANGED vars
  BY <1>1, <1>6 DEF vars
<1>7. QED
  BY <1>2, <1>4, <1>5, <1>6 DEF Next

\* find_item, enqueue_request and close index queue_dict by what queue_keys lists: for any
\* number of domains and threads of Kazoo, every key of a list that was built to its end has
\* a queue, whoever replaces the list or deletes queues meanwhile.
THEOREM ListedHaveQueues == Spec => []SchedulerInv
<1>1. ASSUME Init PROVE ListInv
  <2>1. \A d \in keys : queues[d] # Gone
    <3> SUFFICES ASSUME NEW d \in keys PROVE queues[d] # Gone
      OBVIOUS
    <3> DEFINE q == [limit |-> Wanted(d), pace |-> Wanted(d)]
    <3>1. d \in Domains /\ queues[d] = q
      BY <1>1 DEF Init
    <3>2. Wanted(d) \in Settings
      <4>1. conf \in [Domains -> Settings \cup {Unset}]
        <5>1. \A c \in Configs : c.domains \in [Domains -> Settings \cup {Unset}]
          BY SchedulerAssumption DEF SchedulerAssumption, Settings
        <5>2. QED
          BY <1>1, <5>1 DEF Init
      <4>2. QED
        BY <3>1, <4>1, QueueFacts DEF Wanted
    <3>3. q \in [limit : Settings, pace : Settings]
      BY <3>2
    <3>4. QED
      BY <3>1, <3>3, SchedulerAssumption DEF SchedulerAssumption
  <2>2. QED
    BY <2>1 DEF ListInv
<1>2. TypeInv /\ ListInv => SchedulerInv
  BY DEF TypeInv, ListInv, SchedulerInv, NoneMissing, ToBuild
<1>3. QED
  BY <1>1, <1>2, ListStep, TypeCorrect, PTL DEF Spec

----------------------------------------------------------------------------
\* LimitRight and ConfigLands, for one thread of Kazoo.  What create_queues stores is what the
\* domain should have, unless history says otherwise.
LEMMA StoreLeaves ==
  ASSUME TypeInv, NEW t \in Threads, Store(t)
  PROVE  \/ CutShort(t) /\ UNCHANGED <<queues, astray, conf>>
         \/ /\ UNCHANGED <<todo, fresh, conf>> /\ pc'[t] = "build"
            /\ \A d \in Domains : d # cur[t] => /\ queues'[d] = queues[d]
                                                /\ d \in astray' <=> d \in astray
            /\ \A d \in Domains : d = cur[t] =>
                  d \in astray' \/ (/\ Settled(d)'
                                    /\ queues'[d].limit = Wanted(d)
                                    /\ \A w \in Watchers : pc[w] \in Reverting =>
                                          queues'[d].limit = Default)
<1> USE DEF config
<1>0. SchedulerTypeOK /\ queues \in [Domains -> Queue \cup {Gone}]
      /\ cur[t] \in Domains /\ read[t] \in Settings
  BY DEF TypeInv, SchedulerTypeOK, Queue, HasRead, Store
<1>1. CASE CutShort(t) /\ UNCHANGED <<queues, aged, astray>>
  BY <1>1 DEF Store
<1>2. CASE /\ queues' = [queues EXCEPT ![cur[t]] = [limit |-> read[t], pace |-> read[t]]]
           /\ astray' = IF \/ read[t] # Wanted(cur[t])
                           \/ read[t] # Default /\ \E w \in Watchers : pc[w] \in Reverting
                        THEN astray \cup {cur[t]} ELSE astray \ {cur[t]}
           /\ Goto(t, "build") /\ UNCHANGED <<todo, fresh>>
  <2>1. pc'[t] = "build" /\ UNCHANGED conf
    BY <1>0, <1>2, GotoMoves DEF Store
  <2> DEFINE q == [limit |-> read[t], pace |-> read[t]]
  <2>2. q.limit = read[t]
    OBVIOUS
  <2> HIDE DEF q
  <2>3. \A d \in Domains : queues'[d] = IF d = cur[t] THEN q ELSE queues[d]
    <3>1. queues' = [queues EXCEPT ![cur[t]] = q]
      BY <1>2 DEF q
    <3>2. QED
      BY <1>0, <3>1
  <2>4. \A d \in Domains : d # cur[t] => (d \in astray' <=> d \in astray)
    BY <1>2
  <2>5. cur[t] \in astray' \/ (read[t] = Wanted(cur[t]) /\
                               \A w \in Watchers : pc[w] \in Reverting => read[t] = Default)
    BY <1>2
  <2>6. ASSUME NEW d \in Domains, d = cur[t], read[t] = Wanted(d) PROVE Settled(d)'
    <3>1. Wanted(d)' = Wanted(d)
      BY <2>1 DEF Wanted
    <3>2. queues'[d] = [limit |-> Wanted(d), pace |-> Wanted(d)]
      BY <2>3, <2>6 DEF q
    <3>3. QED
      BY <3>1, <3>2 DEF Settled
  <2>7. queues'[cur[t]].limit = read[t]
    BY <1>0, <2>2, <2>3
  <2>8. QED
    BY <1>2, <2>1, <2>3, <2>4, <2>5, <2>6, <2>7
<1>3. QED
  BY <1>1, <1>2 DEF Store

\* Every other step of create_queues builds nothing.
LEMMA BuildLeaves ==
  ASSUME TypeInv, NEW t \in Threads, BuildStep(t), ~Store(t)
  PROVE  UNCHANGED <<queues, astray, conf>>
BY DEF BuildStep, List, Build, LookUp, Built, memory, config

----------------------------------------------------------------------------
\* Nothing changes for the callback, nor for a queue that stays.
LEMMA LimitKept ==
  ASSUME LimitInv, UNCHANGED conf, astray \subseteq astray',
         \A w \in Watchers : Watchers = {w} =>
            /\ pc'[w] \in Reverting <=> pc[w] \in Reverting
            /\ \A d \in Domains : ToSet(w, d) => ToSet(w, d)',
         \A d \in Domains : queues'[d] # Gone => queues'[d] = queues[d]
  PROVE  LimitInv'
<1> SUFFICES ASSUME NEW w \in Watchers, Watchers = {w}, NEW d \in Domains, queues'[d] # Gone
             PROVE  \/ d \in astray'
                    \/ queues'[d].limit = Due(w, d)'
                    \/ ToSet(w, d)'
  BY DEF LimitInv
<1>1. queues'[d] = queues[d] /\ queues[d] # Gone
  OBVIOUS
<1>2. d \in astray \/ queues[d].limit = Due(w, d) \/ ToSet(w, d)
  BY <1>1 DEF LimitInv
<1>3. Due(w, d)' = Due(w, d)
  BY DEF Due, Wanted
<1>4. QED
  BY <1>1, <1>2, <1>3

LEMMA LimitBuildStep ==
  ASSUME TypeInv, LimitInv, NEW t \in Threads, BuildStep(t)
  PROVE  LimitInv'
<1>0. SchedulerTypeOK /\ \A w \in Watchers : w \in Threads
  BY DEF TypeInv, Threads
<1>1. UNCHANGED conf
  BY BuildMoves
<1>2. ASSUME NEW w \in Watchers
      PROVE  /\ pc'[w] \in Reverting <=> pc[w] \in Reverting
             /\ \A d \in Domains : ToSet(w, d) => ToSet(w, d)'
  <2>1. CASE t # w
    <3>1. pc'[w] = pc[w] /\ todo'[w] = todo[w] /\ cur'[w] = cur[w]
      BY <1>0, <2>1, BuildMoves
    <3>2. QED
      BY <3>1 DEF ToSet
  <2>2. CASE t = w
    <3>1. pc[w] \in Building \cup {"idle", "list"}
      BY <2>2 DEF BuildStep, List, Build, LookUp, Store, Built, Building
    <3>2. (\E s \in Building \cup {"idle", "find", "expire"} : Goto(w, s)) \/ UNCHANGED pc
      BY <2>2 DEF BuildStep, List, Build, LookUp, Store, Built, Building, CutShort, Leave
    <3>3. pc'[w] \in Building \cup {"idle", "list", "find", "expire"}
      BY <1>0, <3>1, <3>2, GotoMoves
    <3>4. QED
      BY <3>1, <3>3 DEF ToSet, Building, Reverting
  <2>3. QED
    BY <2>1, <2>2
<1>3. CASE UNCHANGED <<queues, astray>>
  BY <1>1, <1>2, <1>3, LimitKept
<1>4. CASE /\ \A d \in Domains : d # cur[t] => /\ queues'[d] = queues[d]
                                               /\ d \in astray' <=> d \in astray
           /\ \A d \in Domains : d = cur[t] =>
                 d \in astray' \/ (/\ queues'[d].limit = Wanted(d)
                                   /\ \A w \in Watchers : pc[w] \in Reverting =>
                                         queues'[d].limit = Default)
  <2> SUFFICES ASSUME NEW w \in Watchers, Watchers = {w}, NEW d \in Domains, queues'[d] # Gone
               PROVE  \/ d \in astray'
                      \/ queues'[d].limit = Due(w, d)'
                      \/ ToSet(w, d)'
    BY DEF LimitInv
  <2>1. Due(w, d)' = Due(w, d)
    BY <1>1, <1>2 DEF Due, Wanted
  <2>2. CASE d # cur[t]
    <3>1. queues'[d] = queues[d] /\ (d \in astray' <=> d \in astray)
      BY <1>4, <2>2
    <3>2. d \in astray \/ queues[d].limit = Due(w, d) \/ ToSet(w, d)
      BY <3>1 DEF LimitInv
    <3>3. QED
      BY <1>2, <2>1, <3>1, <3>2
  <2>3. CASE d = cur[t]
    BY <1>4, <2>1, <2>3 DEF Due
  <2>4. QED
    BY <2>2, <2>3
<1>5. QED
  BY <1>3, <1>4, StoreLeaves, BuildLeaves

LEMMA LimitReactor ==
  ASSUME TypeInv, LimitInv, Expire \/ FindNothing \/ \E d \in Domains : Pop(d)
  PROVE  LimitInv'
<1> USE DEF config, memory
<1>0. SchedulerTypeOK /\ Reactor \in Threads /\ \A w \in Watchers : w \in Threads /\ w # Reactor
  BY SchedulerAssumption DEF TypeInv, Threads, SchedulerAssumption
<1>1. UNCHANGED <<conf, astray, cur>> /\ \E s \in {"find", "expire", "idle"} : Goto(Reactor, s)
  BY DEF Expire, FindNothing, Pop
<1>2. \A w \in Watchers : pc'[w] = pc[w] /\ cur'[w] = cur[w]
  BY <1>0, <1>1, GotoMoves
<1>3. \A w \in Watchers : w \notin Misled => todo'[w] = todo[w]
  <2>1. CASE Expire
    <3>1. \E d : \/ todo' = [todo EXCEPT ![Reactor] = @ \ {d}]
                 \/ \E v \in Misled : \E e : todo' = [todo EXCEPT ![Reactor] = @ \ {d}, ![v] = @ \ {e}]
      BY <2>1 DEF Expire
    <3>2. QED
      BY <1>0, <3>1 DEF SchedulerTypeOK
  <2>2. CASE Shuffle
    <3>1. UNCHANGED todo \/ \E v \in Misled : \E rest : todo' = [todo EXCEPT ![v] = rest]
      BY <2>2 DEF Shuffle
    <3>2. QED
      BY <1>0, <3>1 DEF SchedulerTypeOK
  <2>3. QED
    BY <2>1, <2>2 DEF FindNothing, Pop
<1>4. \A w \in Watchers, d \in Domains : ToSet(w, d) => ToSet(w, d)'
  BY <1>2, <1>3 DEF ToSet, Misled, Building, Reverting
<1>5. \A d \in Domains : queues'[d] # Gone => queues'[d] = queues[d]
  <2>1. CASE Expire
    <3>1. UNCHANGED queues \/ \E d : queues' = [queues EXCEPT ![d] = Gone]
      BY <2>1 DEF Expire
    <3>2. QED
      BY <1>0, <3>1 DEF SchedulerTypeOK
  <2>2. QED
    BY <2>1 DEF FindNothing, Pop
<1>6. QED
  BY <1>1, <1>2, <1>4, <1>5, LimitKept

\* The callbacks of the only watcher.
LEMMA LimitCallback ==
  ASSUME TypeInv, LimitInv, NEW w \in Watchers,
         \/ ChangeConfig(w) \/ LoadConfig(w) \/ Update(w) \/ Touch(w)
         \/ ErrorConfig(w) \/ Revert(w) \/ Reverted(w)
  PROVE  LimitInv'
<1> USE DEF config, memory
<1>0. /\ SchedulerTypeOK /\ HasRead /\ w \in Threads /\ queues \in [Domains -> Queue \cup {Gone}]
  BY DEF TypeInv, Threads, SchedulerTypeOK, Queue
<1> SUFFICES ASSUME Watchers = {w}, NEW d \in Domains, queues'[d] # Gone
             PROVE  \/ d \in astray'
                    \/ queues'[d].limit = Due(w, d)'
                    \/ ToSet(w, d)'
  BY DEF LimitInv
<1>1. queues[d] # Gone => d \in astray \/ queues[d].limit = Due(w, d) \/ ToSet(w, d)
  BY DEF LimitInv
<1>2. CASE ChangeConfig(w)
  <2>1. /\ pc[w] = "idle" /\ Goto(w, "load") /\ conf' = [x \in Domains |-> Unset]
        /\ astray' = astray \cup Configured /\ UNCHANGED queues
    BY <1>2 DEF ChangeConfig, Called
  <2>2. pc'[w] = "load"
    BY <1>0, <2>1, GotoMoves
  <2>3. CASE conf[d] # Unset
    BY <2>1, <2>3 DEF Configured
  <2>4. CASE conf[d] = Unset
    <3>1. Due(w, d)' = Due(w, d) /\ ~ToSet(w, d)
      BY <2>1, <2>2, <2>4 DEF Due, Wanted, ToSet, Reverting
    <3>2. QED
      BY <1>1, <2>1, <3>1
  <2>5. QED
    BY <2>3, <2>4
<1>3. CASE LoadConfig(w)
  <2>1. pc[w] = "load" /\ Goto(w, "update") /\ UNCHANGED <<queues, astray>>
    BY <1>3 DEF LoadConfig
  <2>2. PICK loaded \in Configs :
          /\ conf' = [x \in Domains |->
                        IF loaded.domains[x] = Unset THEN conf[x] ELSE loaded.domains[x]]
          /\ todo' = [todo EXCEPT ![w] = {x \in Domains : conf'[x] # Unset}]
    BY <1>3 DEF LoadConfig
  <2>3. pc'[w] = "update"
    BY <1>0, <2>1, GotoMoves
  <2>4. CASE conf'[d] # Unset
    <3>1. d \in todo'[w]
      BY <1>0, <2>2, <2>4 DEF SchedulerTypeOK
    <3>2. QED
      BY <2>3, <3>1 DEF ToSet
  <2>5. CASE conf'[d] = Unset
    <3>1. conf[d] = Unset
      BY <2>2, <2>5
    <3>2. Due(w, d)' = Due(w, d) /\ ~ToSet(w, d)
      BY <2>1, <2>3, <2>5, <3>1 DEF Due, Wanted, ToSet, Reverting
    <3>3. QED
      BY <1>1, <2>1, <3>2
  <2>6. QED
    BY <2>4, <2>5
<1>4. CASE Update(w)
  <2>1. pc[w] = "update" /\ UNCHANGED <<queues, astray, conf>>
    BY <1>4 DEF Update
  <2>2. CASE todo[w] = {} /\ Goto(w, "list")
    <3>1. pc'[w] = "list"
      BY <1>0, <2>2, GotoMoves
    <3>2. Due(w, d)' = Due(w, d) /\ ~ToSet(w, d)
      BY <2>1, <2>2, <3>1 DEF Due, Wanted, ToSet, Reverting
    <3>3. QED
      BY <1>1, <2>1, <3>2
  <2>3. ASSUME NEW e \in todo[w], todo' = [todo EXCEPT ![w] = @ \ {e}],
               \/ queues[e] = Gone /\ UNCHANGED <<pc, cur>>
               \/ cur' = [cur EXCEPT ![w] = e] /\ Goto(w, "touch")
        PROVE  d \in astray' \/ queues'[d].limit = Due(w, d)' \/ ToSet(w, d)'
    <3>1. todo'[w] = todo[w] \ {e}
      BY <1>0, <2>3 DEF SchedulerTypeOK
    <3>2. CASE queues[e] = Gone /\ UNCHANGED <<pc, cur>>
      <4>1. Due(w, d)' = Due(w, d) /\ d # e
        BY <2>1, <3>2 DEF Due, Wanted
      <4>2. ToSet(w, d) => ToSet(w, d)'
        BY <3>1, <3>2, <4>1 DEF ToSet
      <4>3. QED
        BY <1>1, <2>1, <4>1, <4>2
    <3>3. CASE cur' = [cur EXCEPT ![w] = e] /\ Goto(w, "touch")
      <4>1. pc'[w] = "touch" /\ cur'[w] = e
        BY <1>0, <3>3, GotoMoves DEF SchedulerTypeOK
      <4>2. Due(w, d)' = Due(w, d)
        BY <2>1, <4>1 DEF Due, Wanted, Reverting
      <4>3. ToSet(w, d) => ToSet(w, d)'
        BY <2>1, <3>1, <4>1 DEF ToSet
      <4>4. QED
        BY <1>1, <2>1, <4>2, <4>3
    <3>4. QED
      BY <2>3, <3>2, <3>3
  <2>4. QED
    BY <1>4, <2>2, <2>3 DEF Update
\* The KeyError: history takes what is amiss.
<1>5. ASSUME Leave(w, "idle"), astray' = astray \cup Amiss, UNCHANGED <<queues, conf>>
      PROVE  d \in astray' \/ queues'[d].limit = Due(w, d)'
  <2>1. pc'[w] = "idle"
    BY <1>0, <1>5, LeaveMoves
  <2>2. Due(w, d)' = Wanted(d)
    BY <1>5, <2>1 DEF Due, Wanted, Reverting
  <2>3. QED
    BY <1>5, <2>2 DEF Amiss
\* One queue gets a new limit.
<1>6. ASSUME NEW e \in Domains, NEW s \in Settings, queues[e] # Gone,
             queues' = [queues EXCEPT ![e] = [queues[e] EXCEPT !.limit = s]]
      PROVE  queues'[e].limit = s /\ (d # e => queues'[d] = queues[d])
  <2> DEFINE q == [queues[e] EXCEPT !.limit = s]
  <2>1. q.limit = s
    BY <1>0, <1>6, QueueFacts
  <2> HIDE DEF q
  <2>2. queues' = [queues EXCEPT ![e] = q]
    BY <1>6 DEF q
  <2>3. queues'[e] = q /\ (d # e => queues'[d] = queues[d])
    BY <1>0, <2>2
  <2>4. QED
    BY <2>1, <2>3
<1>7. CASE Touch(w)
  <2>0. pc[w] = "touch" /\ cur[w] \in Domains /\ UNCHANGED conf
    BY <1>0, <1>7 DEF Touch, HasRead
  <2>1. CASE Leave(w, "idle") /\ astray' = astray \cup Amiss /\ UNCHANGED queues
    BY <1>5, <2>0, <2>1
  <2>2. CASE /\ queues[cur[w]] # Gone /\ conf[cur[w]] # Unset
             /\ queues' = [queues EXCEPT ![cur[w]] = Retuned(cur[w])]
             /\ astray' = astray \ {cur[w]}
             /\ Goto(w, "update")
             /\ UNCHANGED todo
    <3>1. conf[cur[w]] \in Settings
      BY <1>0, <2>0, <2>2 DEF SchedulerTypeOK
    <3>2. queues'[cur[w]].limit = conf[cur[w]] /\ (d # cur[w] => queues'[d] = queues[d])
      BY <1>6, <2>0, <2>2, <3>1 DEF Retuned
    <3>3. pc'[w] = "update"
      BY <1>0, <2>2, GotoMoves
    <3>4. Due(w, d)' = Wanted(d) /\ Due(w, d) = Wanted(d)
      BY <2>0, <3>3 DEF Due, Wanted, Reverting
    <3>5. CASE d = cur[w]
      BY <2>2, <3>2, <3>4, <3>5 DEF Wanted
    <3>6. CASE d # cur[w]
      <4>1. ToSet(w, d) => ToSet(w, d)'
        BY <2>0, <2>2, <3>3, <3>6 DEF ToSet
      <4>2. QED
        BY <1>1, <2>2, <3>2, <3>4, <3>6, <4>1
    <3>7. QED
      BY <3>5, <3>6
  <2>3. QED
    BY <1>7, <2>1, <2>2 DEF Touch
<1>8. CASE ErrorConfig(w)
  <2>1. /\ pc[w] = "idle" /\ todo' = [todo EXCEPT ![w] = Configured]
        /\ UNCHANGED <<queues, astray, conf>>
    BY <1>8 DEF ErrorConfig, Called
  <2>2. PICK s \in Reverting : Goto(w, s)
    BY <1>8 DEF ErrorConfig
  <2>3. pc'[w] \in Reverting /\ todo'[w] = Configured
    BY <1>0, <2>1, <2>2, GotoMoves DEF SchedulerTypeOK
  <2>4. CASE conf[d] # Unset
    BY <2>3, <2>4 DEF ToSet, Configured
  <2>5. CASE conf[d] = Unset
    <3>1. Due(w, d)' = Due(w, d) /\ ~ToSet(w, d)
      BY <2>1, <2>3, <2>5 DEF Due, Wanted, ToSet, Reverting
    <3>2. QED
      BY <1>1, <2>1, <3>1
  <2>6. QED
    BY <2>4, <2>5
<1>9. CASE Revert(w)
  <2>0. pc[w] \in Reverting /\ UNCHANGED conf
    BY <1>9 DEF Revert
  <2>1. ASSUME NEW e \in todo[w], queues[e] # Gone, queues' = [queues EXCEPT ![e].limit = Default],
               todo' = [todo EXCEPT ![w] = @ \ {e}], astray' = astray \ {e}, UNCHANGED pc
        PROVE  d \in astray' \/ queues'[d].limit = Due(w, d)' \/ ToSet(w, d)'
    <3>1. e \in Domains /\ todo'[w] = todo[w] \ {e}
      BY <1>0, <2>1 DEF SchedulerTypeOK
    <3>2. queues'[e].limit = Default /\ (d # e => queues'[d] = queues[d])
      BY <1>6, <2>1, <3>1, QueueFacts
    <3>3. Due(w, d)' = Default /\ Due(w, d) = Default
      BY <2>0, <2>1 DEF Due
    <3>4. CASE d = e
      BY <3>2, <3>3, <3>4
    <3>5. CASE d # e
      <4>1. ToSet(w, d) => ToSet(w, d)'
        BY <2>0, <2>1, <3>1, <3>5 DEF ToSet, Reverting
      <4>2. QED
        BY <1>1, <2>1, <3>2, <3>3, <3>5, <4>1
    <3>6. QED
      BY <3>4, <3>5
  <2>2. QED
    BY <1>5, <1>9, <2>0, <2>1 DEF Revert
<1>10. CASE Reverted(w)
  <2>1. /\ pc[w] \in Reverting /\ todo[w] = {} /\ conf' = [x \in Domains |-> Unset]
        /\ UNCHANGED <<queues, astray>>
    BY <1>10 DEF Reverted
  <2>2. PICK s \in {"list", "idle"} : Goto(w, s)
    BY <1>10 DEF Reverted
  <2>3. pc'[w] \in {"list", "idle"}
    BY <1>0, <2>2, GotoMoves
  <2>4. Due(w, d) = Default /\ Due(w, d)' = Default /\ ~ToSet(w, d)
    BY <2>1, <2>3 DEF Due, Wanted, ToSet, Reverting
  <2>5. QED
    BY <1>1, <2>1, <2>4
<1>11. QED
  BY <1>2, <1>3, <1>4, <1>7, <1>8, <1>9, <1>10

LEMMA LimitStep ==
  ASSUME TypeInv, LimitInv, [Next]_vars
  PROVE  LimitInv'
<1> USE DEF config, memory, locals
<1>0. Reactor \in Threads /\ \A w \in Watchers : w \in Threads
  BY DEF Threads
<1>1. ASSUME UNCHANGED <<queues, conf, astray, locals>> PROVE LimitInv'
  BY <1>1 DEF LimitInv, ToSet, Due, Wanted
<1>2. ASSUME NEW d \in Domains, Enqueue(d) \/ Elsewhere(d) \/ Age(d) PROVE LimitInv'
  BY <1>1, <1>2 DEF Enqueue, Elsewhere, Age
<1>3. CASE ReactorStep
  BY <1>0, <1>3, LimitBuildStep, LimitReactor DEF ReactorStep
<1>4. ASSUME NEW w \in Watchers, CallbackStep(w) \/ ChangeConfig(w) \/ ErrorConfig(w) PROVE LimitInv'
  BY <1>0, <1>4, LimitBuildStep, LimitCallback DEF CallbackStep
<1>5. CASE UNCHANGED vars
  BY <1>1, <1>5 DEF vars
<1>6. QED
  BY <1>2, <1>3, <1>4, <1>5 DEF Next

LEMMA OneWatcher == InTurn => \E w \in Watchers : Watchers = {w}
<1> SUFFICES ASSUME InTurn PROVE \E w : Watchers = {w}
  OBVIOUS
<1>1. IsFiniteSet(Watchers) /\ Cardinality(Watchers) = 1
  BY SchedulerAssumption DEF SchedulerAssumption, InTurn
<1>2. QED
  BY <1>1, FS_Singleton

\* change_config, error_config and create_queues, for any number of domains: with callbacks
\* that come one after the other, a queue at rest has the limit that domain_config and the
\* defaults give its domain, unless one of the named ways led past it.
THEOREM LimitsAreRight == Spec => []LimitRight
<1>1. ASSUME Init PROVE LimitInv
  <2> SUFFICES ASSUME NEW w \in Watchers, NEW d \in Domains, queues[d] # Gone
               PROVE  queues[d].limit = Due(w, d)
    BY DEF LimitInv
  <2>1. queues[d] = [limit |-> Wanted(d), pace |-> Wanted(d)] /\ pc[w] = "idle"
    BY <1>1 DEF Init, Threads
  <2>2. queues[d].limit = Wanted(d)
    BY <2>1
  <2>3. QED
    BY <2>1, <2>2 DEF Due, Reverting
<1>2. ASSUME LimitInv PROVE LimitRight
  <2> SUFFICES ASSUME Resting, InTurn, NEW d \in Amiss PROVE d \in astray
    BY DEF LimitRight
  <2>1. PICK w \in Watchers : Watchers = {w}
    BY OneWatcher
  <2>2. pc[w] \in {"idle", "expire", "find"}
    BY DEF Resting, Threads
  <2>3. d \in Domains /\ queues[d] # Gone /\ queues[d].limit # Wanted(d)
    BY DEF Amiss
  <2>4. d \in astray \/ queues[d].limit = Due(w, d) \/ ToSet(w, d)
    BY <1>2, <2>1, <2>3 DEF LimitInv
  <2>5. Due(w, d) = Wanted(d) /\ ~ToSet(w, d)
    BY <2>2 DEF Due, ToSet, Reverting
  <2>6. QED
    BY <2>3, <2>4, <2>5
<1>3. QED
  BY <1>1, <1>2, LimitStep, TypeCorrect, PTL DEF Spec

----------------------------------------------------------------------------
\* ConfigLands.  While the callback builds the list, a queue that is settled stays settled, and
\* the loop loses sight of no other.
LEMMA LandKept ==
  ASSUME TypeInv, LandInv,
         \A w \in Watchers :
            Watchers = {w} /\ listedBy' = w /\ fresh'[w] /\ pc'[w] \in Building /\ ~torn' =>
               /\ listedBy = w /\ fresh[w] /\ pc[w] \in Building /\ ~torn
               /\ keys' \subseteq keys
               /\ \A d \in keys' :
                     d \in astray \/ Settled(d) => d \in astray' \/ Settled(d)'
               /\ \A d \in keys' :
                     ToBuild(w, d) => d \in astray' \/ Settled(d)' \/ ToBuild(w, d)'
  PROVE  LandInv'
<1> SUFFICES ASSUME NEW w \in Watchers, Watchers = {w}, listedBy' = w, fresh'[w],
                    pc'[w] \in Building, ~torn', NEW d \in keys'
             PROVE  d \in astray' \/ Settled(d)' \/ ToBuild(w, d)'
  BY DEF LandInv
<1>1. /\ listedBy = w /\ fresh[w] /\ pc[w] \in Building /\ ~torn
      /\ d \in keys
  OBVIOUS
<1>2. d \in astray \/ Settled(d) \/ ToBuild(w, d)
  BY <1>1 DEF LandInv
<1>3. QED
  BY <1>2

LEMMA LandList ==
  ASSUME TypeInv, NEW t \in Threads, List(t)
  PROVE  LandInv'
<1>0. SchedulerTypeOK
  BY DEF TypeInv
<1>1. keys' = present /\ listedBy' = t /\ todo'[t] = present /\ pc'[t] = "build"
  BY <1>0, GotoMoves DEF List, SchedulerTypeOK
<1>2. QED
  BY <1>1 DEF LandInv, ToBuild, Building

LEMMA LandBuildStep ==
  ASSUME TypeInv, LandInv, NEW t \in Threads, BuildStep(t)
  PROVE  LandInv'
<1> USE DEF config, memory
<1>0. SchedulerTypeOK /\ HasRead /\ keys \subseteq Domains /\ \A w \in Watchers : w \in Threads
  BY DEF TypeInv, SchedulerTypeOK, Threads
<1>1. UNCHANGED conf
  BY BuildMoves
<1>2. CASE List(t)
  BY <1>2, LandList
<1>3. ASSUME ~List(t)
      PROVE  UNCHANGED <<keys, listedBy>> /\ (~torn' => ~torn)
  <2>1. UNCHANGED <<keys, listedBy>>
    BY <1>3 DEF BuildStep, Build, LookUp, Store, Built
  <2>2. UNCHANGED torn \/ CutShort(t)
    BY <1>3 DEF BuildStep, Build, LookUp, Store, Built
  <2>3. ~torn' => ~torn
    BY <2>2 DEF CutShort
  <2>4. QED
    BY <2>1, <2>3
\* What is settled stays so, even when the reactor stores another setting.
<1>4. ASSUME ~List(t)
      PROVE  \A d \in Domains : d \in astray \/ Settled(d) => d \in astray' \/ Settled(d)'
  <2>1. CASE UNCHANGED <<queues, astray>>
    BY <1>1, <2>1 DEF Settled, Wanted
  <2>2. CASE Store(t) /\ ~(UNCHANGED <<queues, astray>>)
    <3>1. /\ \A d \in Domains : d # cur[t] => /\ queues'[d] = queues[d]
                                              /\ d \in astray' <=> d \in astray
          /\ \A d \in Domains : d = cur[t] => d \in astray' \/ Settled(d)'
      BY <2>2, StoreLeaves
    <3>2. \A d \in Domains : d # cur[t] => (Settled(d) => Settled(d)')
      BY <1>1, <3>1 DEF Settled, Wanted
    <3>3. QED
      BY <3>1, <3>2
  <2>3. QED
    BY <1>4, <2>1, <2>2, BuildLeaves
<1>5. ASSUME ~List(t), NEW w \in Watchers, t # w
      PROVE  /\ pc'[w] = pc[w] /\ fresh'[w] = fresh[w]
             /\ \A d \in Domains : ToBuild(w, d) => ToBuild(w, d)'
  <2>1. pc'[w] = pc[w] /\ todo'[w] = todo[w] /\ cur'[w] = cur[w] /\ fresh'[w] = fresh[w]
    BY <1>0, <1>5, BuildMoves
  <2>2. QED
    BY <2>1 DEF ToBuild
<1>6. ASSUME ~List(t), t \in Watchers, t = listedBy, fresh'[t], pc'[t] \in Building, ~torn'
      PROVE  /\ fresh[t] /\ pc[t] \in Building
             /\ \A d \in keys : ToBuild(t, d) => d \in astray' \/ Settled(d)' \/ ToBuild(t, d)'
  <2>0. ~CutShort(t)
    BY <1>6 DEF CutShort
  <2>1. CASE Build(t)
    <3>1. pc[t] = "build" /\ UNCHANGED fresh
      BY <2>1 DEF Build
    <3> PICK e \in todo[t] :
          /\ todo' = [todo EXCEPT ![t] = @ \ {e}]
          /\ \/ ~Rebuilt(t, e)
             \/ /\ cur' = [cur EXCEPT ![t] = e]
                /\ Goto(t, "store") \/ Goto(t, "look")
      BY <2>1 DEF Build
    <3>2. fresh[t] /\ todo'[t] = todo[t] \ {e}
      BY <1>0, <1>6, <3>1 DEF SchedulerTypeOK
    <3>3. pc'[t] \in {"look", "store"} /\ cur'[t] = e
      BY <1>0, <3>2, GotoMoves DEF Rebuilt, SchedulerTypeOK
    <3>4. \A d \in keys : ToBuild(t, d) => ToBuild(t, d)'
      BY <3>1, <3>2, <3>3 DEF ToBuild, Building
    <3>5. QED
      BY <3>1, <3>2, <3>4 DEF Building
  <2>2. CASE LookUp(t)
    <3>1. pc[t] = "look" /\ Goto(t, "store") /\ UNCHANGED <<todo, cur, fresh>>
      BY <2>0, <2>2 DEF LookUp
    <3>2. pc'[t] = "store"
      BY <1>0, <3>1, GotoMoves
    <3>3. QED
      BY <1>6, <3>1, <3>2 DEF ToBuild, Building
  <2>3. CASE Store(t)
    <3>1. /\ UNCHANGED <<todo, fresh>> /\ pc'[t] = "build"
          /\ \A d \in Domains : d = cur[t] => d \in astray' \/ Settled(d)'
      BY <2>0, <2>3, StoreLeaves
    <3>2. pc[t] = "store"
      BY <2>3 DEF Store
    <3>3. \A d \in keys : ToBuild(t, d) => d = cur[t] \/ ToBuild(t, d)'
      BY <3>1, <3>2 DEF ToBuild, Building
    <3>4. QED
      BY <1>0, <1>6, <3>1, <3>2, <3>3 DEF Building
  <2>4. CASE Built(t)
    <3>1. pc'[t] \in {"idle", "find", "expire"}
      <4>1. CASE Leave(t, "idle")
        BY <1>0, <4>1, LeaveMoves
      <4>2. CASE \E s \in {"find", "expire"} : Goto(t, s)
        BY <1>0, <4>2, GotoMoves
      <4>3. QED
        BY <2>4, <4>1, <4>2 DEF Built
    <3>2. QED
      BY <1>6, <3>1 DEF Building
  <2>5. QED
    BY <1>6, <2>1, <2>2, <2>3, <2>4 DEF BuildStep
<1>7. CASE ~List(t)
  <2>1. UNCHANGED <<keys, listedBy>> /\ (~torn' => ~torn)
    BY <1>3, <1>7
  <2>2. \A d \in keys : d \in astray \/ Settled(d) => d \in astray' \/ Settled(d)'
    BY <1>0, <1>4, <1>7
  <2>3. ASSUME NEW w \in Watchers, listedBy' = w, fresh'[w], pc'[w] \in Building, ~torn'
        PROVE  /\ fresh[w] /\ pc[w] \in Building
               /\ \A d \in keys : ToBuild(w, d) => d \in astray' \/ Settled(d)' \/ ToBuild(w, d)'
    <3>1. CASE t = w
      BY <1>6, <1>7, <2>1, <2>3, <3>1
    <3>2. CASE t # w
      BY <1>0, <1>5, <1>7, <2>3, <3>2
    <3>3. QED
      BY <3>1, <3>2
  <2>4. QED
    BY <2>1, <2>2, <2>3, LandKept
<1>8. QED
  BY <1>2, <1>7

LEMMA LandReactor ==
  ASSUME TypeInv, LandInv, Expire \/ FindNothing \/ \E d \in Domains : Pop(d)
  PROVE  LandInv'
<1> USE DEF config, memory
<1>0. SchedulerTypeOK /\ Reactor \in Threads /\ \A w \in Watchers : w \in Threads /\ w # Reactor
  BY SchedulerAssumption DEF TypeInv, Threads, SchedulerAssumption
<1>1. UNCHANGED <<conf, astray, fresh>> /\ \E s \in {"find", "expire", "idle"} : Goto(Reactor, s)
  BY DEF Expire, FindNothing, Pop
<1>2. \A w \in Watchers : pc'[w] = pc[w]
  BY <1>0, <1>1, GotoMoves
<1>3. /\ ~torn' => ~torn
      /\ keys' \subseteq keys /\ UNCHANGED listedBy
      /\ \A x \in keys' : queues'[x] = queues[x]
      /\ \A x \in keys' : ~torn' /\ ToBuild(listedBy, x) => ToBuild(listedBy, x)'
  <2>1. CASE Expire
    BY <2>1, LoopExpire
  <2>2. CASE FindNothing \/ \E d \in Domains : Pop(d)
    BY <2>2, LoopFind
  <2>3. QED
    BY <2>1, <2>2
<1>4. \A d \in keys' : Settled(d) => Settled(d)'
  BY <1>1, <1>3 DEF Settled, Wanted
<1>5. QED
  BY <1>1, <1>2, <1>3, <1>4, LandKept

LEMMA LandStep ==
  ASSUME TypeInv, LandInv, [Next]_vars
  PROVE  LandInv'
<1> USE DEF config, memory, locals
<1>0. Reactor \in Threads /\ \A w \in Watchers : w \in Threads
  BY DEF Threads
<1>1. ASSUME UNCHANGED <<keys, listedBy, queues, conf, astray, locals, torn>> PROVE LandInv'
  <2>1. \A d : (Settled(d) => Settled(d)') /\ \A w : ToBuild(w, d) => ToBuild(w, d)'
    BY <1>1 DEF Settled, Wanted, ToBuild
  <2>2. QED
    BY <1>1, <2>1, LandKept
<1>2. ASSUME NEW d \in Domains, Enqueue(d) \/ Elsewhere(d) \/ Age(d) PROVE LandInv'
  BY <1>1, <1>2 DEF Enqueue, Elsewhere, Age
<1>3. CASE ReactorStep
  BY <1>0, <1>3, LandBuildStep, LandReactor DEF ReactorStep
<1>4. ASSUME NEW w \in Watchers,
             \/ ChangeConfig(w) \/ LoadConfig(w) \/ Update(w) \/ Touch(w)
             \/ ErrorConfig(w) \/ Revert(w) \/ Reverted(w)
      PROVE  LandInv'
  <2>1. pc'[w] \notin Building
    BY <1>4, CallbackMoves
  <2>2. \A v \in Watchers : Watchers = {v} => v = w
    OBVIOUS
  <2>3. QED
    BY <2>1, <2>2 DEF LandInv
<1>5. ASSUME NEW w \in Watchers, CallbackStep(w) \/ ChangeConfig(w) \/ ErrorConfig(w) PROVE LandInv'
  BY <1>0, <1>4, <1>5, LandBuildStep DEF CallbackStep
<1>6. CASE UNCHANGED vars
  BY <1>1, <1>6 DEF vars
<1>7. QED
  BY <1>2, <1>3, <1>5, <1>6 DEF Next

\* change_config, update_domain_queues and create_queues, for any number of domains: when the
\* callback has come to its end, what was listed in Redis has the window, limit and moderation
\* of the new configuration, whatever the reactor built, expired and popped meanwhile.
THEOREM ConfigsLand == Spec => ConfigLands
<1>1. Init => LandInv
  BY DEF Init, LandInv, Threads, Building
<1>2. ASSUME TypeInv, LandInv PROVE \A w \in Watchers : Built(w) => Landed(w)
  <2> SUFFICES ASSUME NEW w \in Watchers, Built(w), fresh[w], InTurn, listedBy = w, ~torn,
                      NEW d \in keys
               PROVE  d \in astray \/ Settled(d)
    BY DEF Landed, Settled
  <2>1. pc[w] = "build" /\ todo[w] = {}
    BY DEF Built
  <2>2. Watchers = {w}
    BY OneWatcher
  <2>3. d \in astray \/ Settled(d) \/ ToBuild(w, d)
    BY <1>2, <2>1, <2>2 DEF LandInv, Building
  <2>4. QED
    BY <2>1, <2>3 DEF ToBuild
<1>3. QED
  BY <1>1, <1>2, LandStep, TypeCorrect, PTL DEF Spec, ConfigLands
=============================================================================
