--------------------- MODULE RedisThrottledQueue_proofs ---------------------
(***************************************************************************)
(* Theorems about RedisThrottledQueue, for every set of clients, window    *)
(* and limit.                                                              *)
(***************************************************************************)
EXTENDS RedisThrottledQueue, FiniteSetTheorems, TLAPS

----------------------------------------------------------------------------
\* What Goto and Return do to the program counters and the dead locals.
LEMMA GotoType ==
  ASSUME TypeOK, NEW c \in Clients, NEW s \in Steps, Goto(c, s)
  PROVE  pc' \in [Clients -> Steps]
BY DEF TypeOK, Goto

LEMMA ReturnType ==
  ASSUME TypeOK, NEW c \in Clients, Return(c)
  PROVE  /\ pc' \in [Clients -> Steps]
         /\ clk' \in [Clients -> Nat]
         /\ stamp' \in [Clients -> Nat]
         /\ cleanW' \in SUBSET Clients
         /\ cleanM' \in SUBSET Clients
BY DEF TypeOK, Goto, Return, Steps

\* Every variable keeps its type; in particular elastic_kick_in (pop) never
\* exceeds the limit, whatever restarts and clears happen in between.
THEOREM TypeCorrect == Spec => []TypeOK
<1> USE ThrottleAssumption
<1>1. Init => TypeOK
  BY DEF Init, TypeOK, Steps
<1>2. TypeOK /\ [Next]_vars => TypeOK'
  <2> SUFFICES ASSUME TypeOK, [Next]_vars PROVE TypeOK'
    OBVIOUS
  <2> USE DEF keys, locals, watches, history
  <2>1. ASSUME NEW c \in Clients, StartPop(c) PROVE TypeOK'
    <3>1. pc' \in [Clients -> Steps]
      BY <2>1, GotoType DEF StartPop, Steps
    <3>2. QED
      BY <2>1, <3>1 DEF StartPop, TypeOK
  <2>2. ASSUME NEW c \in Clients, TrimWindow(c) PROVE TypeOK'
    <3>1. pc' \in [Clients -> Steps]
      BY <2>2, GotoType DEF TrimWindow, Unmoved, Steps
    <3>2. QED
      BY <2>2, <3>1 DEF TrimWindow, Unmoved, TypeOK
  <2>3. ASSUME NEW c \in Clients, WatchModerate(c) PROVE TypeOK'
    <3>1. pc' \in [Clients -> Steps]
      BY <2>3, GotoType DEF WatchModerate, Steps
    <3>2. QED
      BY <2>3, <3>1 DEF WatchModerate, TypeOK
  <2>4. ASSUME NEW c \in Clients, CheckModeration(c) PROVE TypeOK'
    <3>1. CASE UNCHANGED <<clk, stamp, watches>>
      <4>1. pc' \in [Clients -> Steps]
        BY <2>4, GotoType, ReturnType DEF CheckModeration, Steps
      <4>2. QED
        BY <2>4, <3>1, <4>1 DEF CheckModeration, TypeOK
    <3>2. CASE Return(c)
      BY <2>4, <3>2, ReturnType DEF CheckModeration, TypeOK
    <3>3. QED
      BY <2>4, <3>1, <3>2 DEF CheckModeration
  <2>5. ASSUME NEW c \in Clients, CheckElastic(c) PROVE TypeOK'
    <3>1. CASE Goto(c, "watchW") /\ UNCHANGED <<clk, stamp, watches>>
      <4>1. pc' \in [Clients -> Steps]
        BY <3>1, GotoType DEF Steps
      <4>2. QED
        BY <2>5, <3>1, <4>1 DEF CheckElastic, TypeOK
    <3>2. CASE Return(c)
      BY <2>5, <3>2, ReturnType DEF CheckElastic, TypeOK
    <3>3. QED
      BY <2>5, <3>1, <3>2 DEF CheckElastic
  <2>6. ASSUME NEW c \in Clients, WatchWindow(c) PROVE TypeOK'
    <3>1. pc' \in [Clients -> Steps]
      BY <2>6, GotoType DEF WatchWindow, Steps
    <3>2. QED
      BY <2>6, <3>1 DEF WatchWindow, TypeOK
  <2>7. ASSUME NEW c \in Clients, CountHits(c) PROVE TypeOK'
    <3>1. CASE Goto(c, "execW") /\ stamp' = [stamp EXCEPT ![c] = now]
               /\ UNCHANGED <<clk, watches>>
      <4>1. pc' \in [Clients -> Steps]
        BY <3>1, GotoType DEF Steps
      <4>2. QED
        BY <2>7, <3>1, <4>1 DEF CountHits, Room, TypeOK
    <3>2. CASE Return(c)
      BY <2>7, <3>2, ReturnType DEF CountHits, Room, TypeOK
    <3>3. QED
      BY <2>7, <3>1, <3>2 DEF CountHits, Room
  <2>8. ASSUME NEW c \in Clients, ExecHit(c) PROVE TypeOK'
    <3>1. CASE c \in cleanW
      <4>1. pc' \in [Clients -> Steps]
        BY <2>8, <3>1, GotoType DEF ExecHit, WindowUntouched, Steps
      <4>2. /\ hits' = hits \cup {stamp[c]}
            /\ grants' = grants \cup {stamp[c]}
            /\ cleanW' = {}
            /\ now' = now + 1
            /\ UNCHANGED <<clk, stamp, cleanM, modTime, qlen, kick, pops, clears, crashes>>
        BY <2>8, <3>1 DEF ExecHit, WindowUntouched
      <4>3. stamp[c] \in Nat /\ now + 1 \in Nat
        BY DEF TypeOK
      <4>4. QED
        BY <4>1, <4>2, <4>3 DEF TypeOK
    <3>2. CASE c \notin cleanW
      BY <2>8, <3>2, ReturnType DEF ExecHit, WindowUntouched, TypeOK
    <3>3. QED
      BY <3>1, <3>2
  <2>9. ASSUME NEW c \in Clients, ExecModerate(c) PROVE TypeOK'
    <3>1. CASE c \in cleanM
      <4>1. pc' \in [Clients -> Steps]
        BY <2>9, <3>1, GotoType DEF ExecModerate, ModerateUntouched, Steps
      <4>2. QED
        BY <2>9, <3>1, <4>1 DEF ExecModerate, ModerateUntouched, TypeOK
    <3>2. CASE c \notin cleanM
      BY <2>9, <3>2, ReturnType DEF ExecModerate, ModerateUntouched, TypeOK
    <3>3. QED
      BY <3>1, <3>2
  <2>10. ASSUME NEW c \in Clients, PopItem(c) PROVE TypeOK'
    <3>1. [client |-> c, stamp |-> stamp[c], at |-> now, got |-> qlen > 0] \in PopRecord
      BY DEF PopRecord, TypeOK
    <3>2. pops' \in SUBSET PopRecord
      BY <2>10, <3>1 DEF PopItem, TypeOK
    <3>3. kick' \in [Clients -> 0..Limit]
      BY <2>10 DEF PopItem, Kicked, TypeOK
    <3>4. qlen' \in 0..MaxQueue
      BY <2>10 DEF PopItem, TypeOK
    <3>5. QED
      BY <2>10, <3>2, <3>3, <3>4, ReturnType DEF PopItem, TypeOK
  <2>11. CASE Push
    BY <2>11 DEF Push, TypeOK
  <2>12. ASSUME NEW c \in Clients, ClearWindow(c) PROVE TypeOK'
    <3>1. pc' \in [Clients -> Steps]
      BY <2>12, GotoType DEF ClearWindow, Steps
    <3>2. QED
      BY <2>12, <3>1 DEF ClearWindow, TypeOK
  <2>13. ASSUME NEW c \in Clients, ClearModerate(c) PROVE TypeOK'
    <3>1. CASE Moderated
      <4>1. pc' \in [Clients -> Steps]
        BY <2>13, <3>1, GotoType DEF ClearModerate, Steps
      <4>2. QED
        BY <2>13, <3>1, <4>1 DEF ClearModerate, TypeOK
    <3>2. CASE ~Moderated
      BY <2>13, <3>2, ReturnType DEF ClearModerate, TypeOK
    <3>3. QED
      BY <3>1, <3>2
  <2>14. ASSUME NEW c \in Clients, ClearQueue(c) PROVE TypeOK'
    BY <2>14, ReturnType DEF ClearQueue, TypeOK
  <2>15. ASSUME NEW c \in Clients, Crash(c) PROVE TypeOK'
    <3>1. kick' \in [Clients -> 0..Limit]
      BY <2>15 DEF Crash, TypeOK
    <3>2. QED
      BY <2>15, <3>1, ReturnType DEF Crash, TypeOK
  <2>16. CASE WindowKeyExpires \/ ModerateKeyExpires \/ Tick
    <3>1. CASE WindowKeyExpires
      BY <3>1 DEF WindowKeyExpires, TypeOK
    <3>2. CASE ModerateKeyExpires
      BY <3>2 DEF ModerateKeyExpires, TypeOK
    <3>3. CASE Tick
      <4>1. now' \in Nat
        BY <3>3 DEF Tick, TypeOK
      <4>2. QED
        BY <3>3, <4>1 DEF Tick, TypeOK
    <3>4. QED
      BY <2>16, <3>1, <3>2, <3>3
  <2>17. CASE UNCHANGED vars
    BY <2>17 DEF vars, TypeOK
  <2>18. QED
    BY <2>1, <2>2, <2>3, <2>4, <2>5, <2>6, <2>7, <2>8, <2>9, <2>10, <2>11,
       <2>12, <2>13, <2>14, <2>15, <2>16, <2>17 DEF Next, ClientStep, ClearStep
<1>3. QED
  BY <1>1, <1>2, PTL DEF Spec

----------------------------------------------------------------------------
\* A step that enters no hit and drops no recent one keeps the invariant, provided the
\* clients that wait in front of a valid EXEC waited there before.
LEMMA QuietStep ==
  ASSUME TypeOK, ThrottleInv,
         UNCHANGED <<now, grants>>,
         RecentHitsKept', IsFiniteSet(hits'),
         \A c \in Clients : clk'[c] <= now /\ stamp'[c] <= now,
         \A c \in cleanW' : pc'[c] = "execW" =>
            c \in cleanW /\ pc[c] = "execW" /\ stamp'[c] = stamp[c]
  PROVE  ThrottleInv'
<1>1. TimesPast'
  BY DEF ThrottleInv, TimesPast
<1>3. CountStillTrue'
  <2> SUFFICES ASSUME NEW c \in cleanW', pc'[c] = "execW"
               PROVE  /\ \A g \in grants : g < stamp[c]
                      /\ Cardinality({g \in grants : g > stamp[c] - Window}) < Limit
    BY DEF CountStillTrue
  <2> QED
    BY DEF ThrottleInv, CountStillTrue
<1>4. WindowBound'
  BY DEF ThrottleInv, WindowBound, InWindow
<1>5. QED
  BY <1>1, <1>3, <1>4 DEF ThrottleInv

\* Where a client stands after Goto and after Return.
LEMMA GotoMoves ==
  ASSUME TypeOK, NEW c \in Clients, NEW s, Goto(c, s)
  PROVE  \A d \in Clients : pc'[d] = IF d = c THEN s ELSE pc[d]
BY DEF TypeOK, Goto

LEMMA ReturnMoves ==
  ASSUME TypeOK, NEW c \in Clients, Return(c)
  PROVE  /\ \A d \in Clients : /\ pc'[d] = IF d = c THEN "idle" ELSE pc[d]
                               /\ clk'[d] = IF d = c THEN 0 ELSE clk[d]
                               /\ stamp'[d] = IF d = c THEN 0 ELSE stamp[d]
         /\ cleanW' = cleanW \ {c}
BY GotoMoves DEF TypeOK, Return

LEMMA QuietReturn ==
  ASSUME TypeOK, ThrottleInv, NEW c \in Clients, Return(c),
         UNCHANGED <<now, grants, hits>>
  PROVE  ThrottleInv'
<1>1. \A d \in Clients : clk'[d] <= now /\ stamp'[d] <= now
  BY ReturnMoves DEF TypeOK, ThrottleInv, TimesPast
<1>2. \A d \in cleanW' : pc'[d] = "execW" =>
          d \in cleanW /\ pc[d] = "execW" /\ stamp'[d] = stamp[d]
  BY ReturnMoves DEF TypeOK
<1>3. RecentHitsKept' /\ IsFiniteSet(hits')
  BY DEF ThrottleInv, TimesPast, RecentHitsKept
<1>4. QED
  BY <1>1, <1>2, <1>3, QuietStep

\* A client that only moves on, to a step other than execW, disturbs nothing.
LEMMA QuietGoto ==
  ASSUME TypeOK, ThrottleInv, NEW c \in Clients, NEW s, Goto(c, s), s # "execW",
         UNCHANGED <<now, grants, hits, stamp>>,
         cleanW' \subseteq cleanW \cup {c},
         \A d \in Clients : clk'[d] <= now
  PROVE  ThrottleInv'
<1>1. \A d \in Clients : clk'[d] <= now /\ stamp'[d] <= now
  BY DEF ThrottleInv, TimesPast
<1>2. \A d \in cleanW' : pc'[d] = "execW" =>
          d \in cleanW /\ pc[d] = "execW" /\ stamp'[d] = stamp[d]
  BY GotoMoves DEF TypeOK
<1>3. RecentHitsKept' /\ IsFiniteSet(hits')
  BY DEF ThrottleInv, TimesPast, RecentHitsKept
<1>4. QED
  BY <1>1, <1>2, <1>3, QuietStep

\* zremrangebyscore by a reading of the clock that may be old: it removes no hit
\* of the window that ends now.
LEMMA TrimStep ==
  ASSUME TypeOK, ThrottleInv, NEW c \in Clients, TrimWindow(c)
  PROVE  ThrottleInv'
<1>1. RecentHitsKept'
  <2>1. clk[c] <= now /\ clk[c] \in Nat /\ now \in Nat /\ Window \in Nat
    BY ThrottleAssumption DEF ThrottleAssumption, TypeOK, ThrottleInv, TimesPast
  <2>2. \A g \in grants : g \in Nat
    BY DEF TypeOK
  <2>3. \A g \in grants : g > now - Window => g \in hits /\ ~(g <= clk[c] - Window)
    BY <2>1, <2>2 DEF ThrottleInv, RecentHitsKept
  <2>4. QED
    BY <2>3 DEF TrimWindow, Unmoved, Expired, history, RecentHitsKept
<1>2. IsFiniteSet(hits')
  BY FS_Subset DEF TrimWindow, Unmoved, ThrottleInv, TimesPast
<1>3. \A d \in Clients : clk'[d] <= now /\ stamp'[d] <= now
  BY DEF TrimWindow, Unmoved, ThrottleInv, TimesPast
<1>4. \A d \in cleanW' : pc'[d] = "execW" =>
          d \in cleanW /\ pc[d] = "execW" /\ stamp'[d] = stamp[d]
  <2>1. Goto(c, IF Moderated THEN "watchM" ELSE "watchW") /\ cleanW' \subseteq cleanW
    BY DEF TrimWindow, Unmoved
  <2>2. \A d \in Clients : pc'[d] = IF d = c THEN IF Moderated THEN "watchM" ELSE "watchW"
                                  ELSE pc[d]
    BY <2>1, GotoMoves
  <2>3. UNCHANGED stamp
    BY DEF TrimWindow, Unmoved
  <2>4. QED
    BY <2>1, <2>2, <2>3 DEF TypeOK
<1>5. UNCHANGED <<now, grants>>
  BY DEF TrimWindow, Unmoved, history
<1>6. QED
  BY <1>1, <1>2, <1>3, <1>4, <1>5, QuietStep

\* test_hits, ZCARD: the count that lets a client go on covers the whole window
\* that ends at its stamp.
LEMMA CountStep ==
  ASSUME TypeOK, ThrottleInv, NEW c \in Clients, CountHits(c)
  PROVE  ThrottleInv'
<1>1. CASE Return(c)
  BY <1>1, QuietReturn DEF CountHits, Room, keys, history
<1>2. CASE /\ Cardinality(hits) < Limit
           /\ stamp' = [stamp EXCEPT ![c] = now]
           /\ Goto(c, "execW")
           /\ UNCHANGED <<clk, watches>>
  <2>1. UNCHANGED <<now, hits, grants, clk, cleanW>>
    BY <1>2 DEF CountHits, Room, keys, history, watches
  <2>2. \A d \in Clients : /\ pc'[d] = IF d = c THEN "execW" ELSE pc[d]
                           /\ stamp'[d] = IF d = c THEN now ELSE stamp[d]
    BY <1>2, GotoMoves DEF TypeOK
  <2>3. TimesPast' /\ RecentHitsKept' /\ WindowBound'
    BY <2>1, <2>2 DEF TypeOK, ThrottleInv, TimesPast, RecentHitsKept, WindowBound, InWindow
  <2>4. Cardinality({g \in grants : g > now - Window}) < Limit
    <3>1. {g \in grants : g > now - Window} \in SUBSET hits
      BY DEF ThrottleInv, RecentHitsKept
    <3>2. /\ Cardinality({g \in grants : g > now - Window}) <= Cardinality(hits)
          /\ Cardinality(hits) \in Nat
          /\ Cardinality({g \in grants : g > now - Window}) \in Nat
      BY <3>1, FS_Subset, FS_CardinalityType DEF ThrottleInv, TimesPast
    <3>3. QED
      BY <1>2, <3>2, ThrottleAssumption DEF ThrottleAssumption
  <2>5. CountStillTrue'
    <3> SUFFICES ASSUME NEW d \in cleanW', pc'[d] = "execW"
                 PROVE  /\ \A g \in grants : g < stamp'[d]
                        /\ Cardinality({g \in grants : g > stamp'[d] - Window}) < Limit
      BY <2>1 DEF CountStillTrue
    <3>1. CASE d = c
      BY <2>2, <2>4, <3>1 DEF ThrottleInv, TimesPast
    <3>2. CASE d # c
      BY <2>1, <2>2, <3>2 DEF ThrottleInv, CountStillTrue, TypeOK
    <3>3. QED
      BY <3>1, <3>2
  <2>6. QED
    BY <2>3, <2>5 DEF ThrottleInv
<1>3. QED
  BY <1>1, <1>2 DEF CountHits, Room

\* A stamp later than every other, counted against the window that ends at it,
\* keeps every window within the limit.
LEMMA WindowGrows ==
  ASSUME NEW G \in SUBSET Nat, IsFiniteSet(G), NEW s \in Nat, NEW n \in Nat,
         \A g \in G : g < s, s <= n,
         \A t \in 0..n : Cardinality(G \cap InWindow(t)) <= Limit,
         Cardinality({g \in G : g > s - Window}) < Limit,
         NEW t \in 0..(n + 1)
  PROVE  Cardinality((G \cup {s}) \cap InWindow(t)) <= Limit
<1> USE ThrottleAssumption DEF ThrottleAssumption
<1>1. CASE t < s
  <2>1. (G \cup {s}) \cap InWindow(t) = G \cap InWindow(t)
    BY <1>1 DEF InWindow
  <2>2. t \in 0..n
    BY <1>1
  <2>3. QED
    BY <2>1, <2>2
<1>2. CASE t >= s
  <2> DEFINE recent == {g \in G : g > s - Window}
  <2>1. (G \cup {s}) \cap InWindow(t) \in SUBSET (recent \cup {s})
    BY <1>2 DEF InWindow
  <2>2. IsFiniteSet(recent)
    BY FS_Subset
  <2>3. Cardinality(recent) < Limit
    OBVIOUS
  <2> HIDE DEF recent
  <2>4. /\ IsFiniteSet(recent \cup {s})
        /\ Cardinality(recent) \in Nat
        /\ Cardinality(recent \cup {s}) \in Nat
        /\ Cardinality(recent \cup {s}) <= Cardinality(recent) + 1
    <3>1. IsFiniteSet(recent \cup {s})
      BY <2>2, FS_AddElement
    <3>2. Cardinality(recent) \in Nat /\ Cardinality(recent \cup {s}) \in Nat
      BY <2>2, <3>1, FS_CardinalityType
    <3>3. Cardinality(recent \cup {s}) = IF s \in recent THEN Cardinality(recent)
                                                        ELSE Cardinality(recent) + 1
      BY <2>2, FS_AddElement
    <3>4. QED
      BY <3>1, <3>2, <3>3
  <2>5. /\ Cardinality((G \cup {s}) \cap InWindow(t)) <= Cardinality(recent \cup {s})
        /\ Cardinality((G \cup {s}) \cap InWindow(t)) \in Nat
    BY <2>1, <2>4, FS_Subset, FS_CardinalityType
  <2>6. QED
    BY <2>3, <2>4, <2>5
<1>3. QED
  BY <1>1, <1>2

\* test_hits, EXEC.
LEMMA ExecStep ==
  ASSUME TypeOK, ThrottleInv, NEW c \in Clients, ExecHit(c)
  PROVE  ThrottleInv'
<1> USE ThrottleAssumption DEF ThrottleAssumption
<1>1. CASE c \notin cleanW
  BY <1>1, QuietReturn DEF ExecHit, WindowUntouched
<1>2. CASE c \in cleanW
  <2>1. /\ pc[c] = "execW"
        /\ hits' = hits \cup {stamp[c]}
        /\ grants' = grants \cup {stamp[c]}
        /\ cleanW' = {}
        /\ now' = now + 1
        /\ UNCHANGED <<clk, stamp>>
    BY <1>2 DEF ExecHit, WindowUntouched
  <2>2. /\ \A g \in grants : g < stamp[c]
        /\ Cardinality({g \in grants : g > stamp[c] - Window}) < Limit
        /\ stamp[c] <= now
        /\ stamp[c] \in Nat
    BY <1>2, <2>1 DEF ThrottleInv, CountStillTrue, TimesPast, TypeOK
  <2>3. TimesPast'
    <3>1. IsFiniteSet(hits') /\ IsFiniteSet(grants')
      BY <2>1, FS_AddElement DEF ThrottleInv, TimesPast
    <3>2. (\A g \in grants : g < now) /\ \A d \in Clients : clk[d] <= now /\ stamp[d] <= now
      BY DEF ThrottleInv, TimesPast
    <3>3. \A g \in grants' : g < now'
      BY <2>1, <2>2, <3>2 DEF TypeOK
    <3>4. \A d \in Clients : clk'[d] <= now' /\ stamp'[d] <= now'
      BY <2>1, <3>2 DEF TypeOK
    <3>5. QED
      BY <3>1, <3>3, <3>4 DEF TimesPast
  <2>4. RecentHitsKept'
    BY <2>1 DEF ThrottleInv, RecentHitsKept, TypeOK
  <2>5. CountStillTrue'
    BY <2>1 DEF CountStillTrue
  <2>6. WindowBound'
    <3>1. IsFiniteSet(grants) /\ grants \in SUBSET Nat
      BY DEF ThrottleInv, TimesPast, TypeOK
    <3>2. now \in Nat /\ \A t \in 0..now : Cardinality(grants \cap InWindow(t)) <= Limit
      BY DEF ThrottleInv, WindowBound, TypeOK
    <3>3. \A t \in 0..(now + 1) :
             Cardinality((grants \cup {stamp[c]}) \cap InWindow(t)) <= Limit
      BY <2>2, <3>1, <3>2, WindowGrows
    <3>4. QED
      BY <2>1, <3>3 DEF WindowBound, InWindow
  <2>7. QED
    BY <2>3, <2>4, <2>5, <2>6 DEF ThrottleInv
<1>3. QED
  BY <1>1, <1>2

\* clear(): with the window gone there is nothing left to bound.
LEMMA ClearStepQuiet ==
  ASSUME TypeOK, ThrottleInv, NEW c \in Clients, ClearWindow(c)
  PROVE  ThrottleInv'
<1> USE ThrottleAssumption DEF ThrottleAssumption
<1>1. /\ hits' = {} /\ grants' = {} /\ UNCHANGED <<now, clk, stamp>>
  BY DEF ClearWindow
<1>2. {g \in {} : FALSE} = {}
  OBVIOUS
<1>3. TimesPast' /\ RecentHitsKept' /\ WindowBound'
  BY <1>1, FS_EmptySet DEF ThrottleInv, TimesPast, RecentHitsKept, WindowBound
<1>4. CountStillTrue'
  <2> SUFFICES ASSUME NEW d \in cleanW'
               PROVE  Cardinality({g \in {} : g > stamp'[d] - Window}) < Limit
    BY <1>1 DEF CountStillTrue
  <2>1. {g \in {} : g > stamp'[d] - Window} = {}
    OBVIOUS
  <2>2. QED
    BY <2>1, FS_EmptySet
<1>5. QED
  BY <1>3, <1>4 DEF ThrottleInv

\* Time passes, or Redis drops an old key.
LEMMA TimeStep ==
  ASSUME TypeOK, ThrottleInv, Tick \/ WindowKeyExpires
  PROVE  ThrottleInv'
<1> USE ThrottleAssumption DEF ThrottleAssumption
<1>1. /\ UNCHANGED <<grants, clk, stamp, pc, cleanW>>
      /\ now' \in Nat /\ now <= now'
  BY DEF Tick, WindowKeyExpires, keys, locals, watches, history, TypeOK
<1>2. CountStillTrue'
  BY <1>1 DEF ThrottleInv, CountStillTrue
<1>6. WindowBound'
  <2>1. CASE WindowKeyExpires
    BY <2>1 DEF WindowKeyExpires, history, ThrottleInv, WindowBound, InWindow
  <2>2. CASE Tick
    <3> SUFFICES ASSUME NEW t \in 0..(now + 1)
                 PROVE  Cardinality(grants \cap InWindow(t)) <= Limit
      BY <1>1, <2>2 DEF Tick, WindowBound, InWindow
    <3>1. now \in Nat /\ \A u \in 0..now : Cardinality(grants \cap InWindow(u)) <= Limit
      BY DEF ThrottleInv, WindowBound, TypeOK
    <3>2. CASE t \in 0..now
      BY <3>1, <3>2
    <3>3. CASE t = now + 1
      <4>1. grants \cap InWindow(t) \in SUBSET (grants \cap InWindow(now))
        BY <3>3 DEF ThrottleInv, TimesPast, InWindow, TypeOK
      <4>2. IsFiniteSet(grants \cap InWindow(now))
        BY FS_Intersection DEF ThrottleInv, TimesPast
      <4>3. /\ Cardinality(grants \cap InWindow(t)) <= Cardinality(grants \cap InWindow(now))
            /\ Cardinality(grants \cap InWindow(t)) \in Nat
            /\ Cardinality(grants \cap InWindow(now)) \in Nat
        BY <4>1, <4>2, FS_Subset, FS_CardinalityType
      <4>4. QED
        BY <3>1, <4>3
    <3>4. QED
      BY <3>1, <3>2, <3>3
  <2>3. QED
    BY <2>1, <2>2
<1>3. TimesPast'
  <2>1. (\A g \in grants : g < now) /\ \A d \in Clients : clk[d] <= now /\ stamp[d] <= now
    BY DEF ThrottleInv, TimesPast
  <2>2. (\A g \in grants : g < now') /\ \A d \in Clients : clk[d] <= now' /\ stamp[d] <= now'
    BY <1>1, <2>1 DEF TypeOK
  <2>3. IsFiniteSet(hits') /\ IsFiniteSet(grants)
    BY FS_EmptySet DEF Tick, WindowKeyExpires, keys, ThrottleInv, TimesPast
  <2>4. QED
    BY <1>1, <2>2, <2>3 DEF TimesPast
<1>4. RecentHitsKept'
  <2>1. CASE Tick
    BY <2>1, <1>1 DEF Tick, keys, ThrottleInv, RecentHitsKept, TypeOK
  <2>2. CASE WindowKeyExpires
    <3>1. \A g \in grants : g > now - Window => g \in hits /\ g + 2 * Window <= now /\ g \in Nat
      BY <2>2 DEF WindowKeyExpires, ThrottleInv, RecentHitsKept, TypeOK
    <3>2. \A g \in grants : ~(g > now - Window)
      BY <3>1 DEF TypeOK
    <3>3. QED
      BY <2>2, <3>2 DEF WindowKeyExpires, history, RecentHitsKept
  <2>3. QED
    BY <2>1, <2>2
<1>5. QED
  BY <1>2, <1>3, <1>4, <1>6 DEF ThrottleInv

\* The limiter's promise, for every number of clients, window and limit: whatever
\* the interleaving of the clients' transactions, the stamps they let in number at
\* most Limit in any rolling window (test_hits, allowed).
THEOREM WindowIsBounded == Spec => [](ThrottleInv /\ WindowBound)
<1>1. Init => ThrottleInv
  <2> SUFFICES ASSUME Init PROVE ThrottleInv
    OBVIOUS
  <2>1. TimesPast
    BY FS_EmptySet, ThrottleAssumption DEF ThrottleAssumption, Init, TimesPast
  <2>2. RecentHitsKept /\ CountStillTrue
    BY DEF Init, RecentHitsKept, CountStillTrue
  <2>3. WindowBound
    <3>1. \A t \in 0..now : grants \cap InWindow(t) = {}
      BY DEF Init
    <3>2. QED
      BY <3>1, FS_EmptySet, ThrottleAssumption DEF ThrottleAssumption, WindowBound
  <2>4. QED
    BY <2>1, <2>2, <2>3 DEF ThrottleInv
<1>2. TypeOK /\ ThrottleInv /\ [Next]_vars => ThrottleInv'
  <2> SUFFICES ASSUME TypeOK, ThrottleInv, [Next]_vars PROVE ThrottleInv'
    OBVIOUS
  <2> USE DEF keys, locals, watches, history
  <2>0. \A d \in Clients : clk[d] <= now /\ now <= now
    BY DEF ThrottleInv, TimesPast, TypeOK
  <2>1. ASSUME NEW c \in Clients, StartPop(c) PROVE ThrottleInv'
    <3>1. \A d \in Clients : clk'[d] <= now
      BY <2>0, <2>1 DEF StartPop, TypeOK
    <3>2. QED
      BY <2>1, <3>1, QuietGoto DEF StartPop
  <2>2. ASSUME NEW c \in Clients, TrimWindow(c) PROVE ThrottleInv'
    BY <2>2, TrimStep
  <2>3. ASSUME NEW c \in Clients, WatchModerate(c) PROVE ThrottleInv'
    <3>1. \A d \in Clients : clk'[d] <= now
      BY <2>0, <2>3 DEF WatchModerate, TypeOK
    <3>2. QED
      BY <2>3, <3>1, QuietGoto DEF WatchModerate
  <2>4. ASSUME NEW c \in Clients, CheckModeration(c) PROVE ThrottleInv'
    BY <2>0, <2>4, QuietGoto, QuietReturn DEF CheckModeration
  <2>5. ASSUME NEW c \in Clients, CheckElastic(c) PROVE ThrottleInv'
    BY <2>0, <2>5, QuietGoto, QuietReturn DEF CheckElastic
  <2>6. ASSUME NEW c \in Clients, WatchWindow(c) PROVE ThrottleInv'
    BY <2>0, <2>6, QuietGoto DEF WatchWindow
  <2>7. ASSUME NEW c \in Clients, CountHits(c) PROVE ThrottleInv'
    BY <2>7, CountStep
  <2>8. ASSUME NEW c \in Clients, ExecHit(c) PROVE ThrottleInv'
    BY <2>8, ExecStep
  <2>9. ASSUME NEW c \in Clients, ExecModerate(c) PROVE ThrottleInv'
    BY <2>0, <2>9, QuietGoto, QuietReturn DEF ExecModerate, ModerateUntouched
  <2>10. ASSUME NEW c \in Clients, PopItem(c) PROVE ThrottleInv'
    BY <2>10, QuietReturn DEF PopItem
  <2>11. ASSUME NEW c \in Clients, ClearWindow(c) PROVE ThrottleInv'
    BY <2>11, ClearStepQuiet
  <2>12. ASSUME NEW c \in Clients, ClearModerate(c) PROVE ThrottleInv'
    BY <2>0, <2>12, QuietGoto, QuietReturn DEF ClearModerate
  <2>13. ASSUME NEW c \in Clients, ClearQueue(c) PROVE ThrottleInv'
    BY <2>13, QuietReturn DEF ClearQueue
  <2>14. ASSUME NEW c \in Clients, Crash(c) PROVE ThrottleInv'
    BY <2>14, QuietReturn DEF Crash
  <2>15. CASE Push \/ ModerateKeyExpires \/ UNCHANGED vars
    <3>1. UNCHANGED <<now, grants, hits, clk, stamp, pc, cleanW>>
      BY <2>15 DEF Push, ModerateKeyExpires, vars
    <3>2. QED
      BY <3>1 DEF ThrottleInv, TimesPast, RecentHitsKept, CountStillTrue, WindowBound, InWindow
  <2>16. CASE Tick \/ WindowKeyExpires
    BY <2>16, TimeStep
  <2>17. QED
    BY <2>1, <2>2, <2>3, <2>4, <2>5, <2>6, <2>7, <2>8, <2>9, <2>10, <2>11,
       <2>12, <2>13, <2>14, <2>15, <2>16 DEF Next, ClientStep, ClearStep
<1>3. ThrottleInv => WindowBound
  BY DEF ThrottleInv
<1>4. QED
  BY <1>1, <1>2, <1>3, TypeCorrect, PTL DEF Spec

----------------------------------------------------------------------------
\* Stamps in use are positive: 0 stands for no permit in the limiter.
LEMMA StampsAreRead == Spec => []StampsRead
<1> USE ThrottleAssumption DEF ThrottleAssumption, StampsRead
<1>1. Init => StampsRead
  BY DEF Init
<1>2. TypeOK /\ StampsRead /\ [Next]_vars => StampsRead'
  <2> SUFFICES ASSUME TypeOK, StampsRead, [Next]_vars PROVE StampsRead'
    OBVIOUS
  <2> USE DEF keys, locals, watches, history
  <2>1. ASSUME NEW c \in Clients, Return(c), UNCHANGED now PROVE StampsRead'
    BY <2>1, ReturnMoves DEF TypeOK
  <2>2. ASSUME NEW c \in Clients, NEW s, Goto(c, s), UNCHANGED <<now, stamp>>,
               s \in {"execM", "pop"} => pc[c] = "execM", s # "execW"
        PROVE  StampsRead'
    BY <2>2, GotoMoves DEF TypeOK
  <2>3. ASSUME NEW c \in Clients,
               StartPop(c) \/ TrimWindow(c) \/ WatchModerate(c) \/ WatchWindow(c)
                 \/ ClearWindow(c)
        PROVE  StampsRead'
    BY <2>2, <2>3 DEF StartPop, TrimWindow, Unmoved, WatchModerate, WatchWindow, ClearWindow
  <2>4. ASSUME NEW c \in Clients,
               CheckModeration(c) \/ CheckElastic(c) \/ ClearModerate(c)
        PROVE  StampsRead'
    BY <2>1, <2>2, <2>4 DEF CheckModeration, CheckElastic, ClearModerate
  <2>5. ASSUME NEW c \in Clients, CountHits(c) PROVE StampsRead'
    <3>1. CASE stamp' = [stamp EXCEPT ![c] = now] /\ Goto(c, "execW")
      BY <2>5, <3>1, GotoMoves DEF CountHits, Room, TypeOK
    <3>2. QED
      BY <2>1, <2>5, <3>1 DEF CountHits, Room
  <2>6. ASSUME NEW c \in Clients, ExecHit(c) PROVE StampsRead'
    <3>1. CASE c \in cleanW
      <4>1. /\ pc[c] = "execW" /\ now' = now + 1 /\ stamp' = stamp
            /\ Goto(c, IF Moderated THEN "execM" ELSE "pop")
        BY <2>6, <3>1 DEF ExecHit, WindowUntouched
      <4>2. \A d \in Clients : d # c => pc'[d] = pc[d]
        BY <4>1, GotoMoves
      <4>3. QED
        BY <4>1, <4>2 DEF TypeOK
    <3>2. QED
      BY <2>1, <2>6, <3>1 DEF ExecHit, WindowUntouched
  <2>7. ASSUME NEW c \in Clients, ExecModerate(c) PROVE StampsRead'
    BY <2>1, <2>2, <2>7 DEF ExecModerate, ModerateUntouched
  <2>8. ASSUME NEW c \in Clients, PopItem(c) \/ ClearQueue(c) \/ Crash(c)
        PROVE  StampsRead'
    BY <2>1, <2>8 DEF PopItem, ClearQueue, Crash
  <2>9. CASE Push \/ WindowKeyExpires \/ ModerateKeyExpires \/ UNCHANGED vars
    BY <2>9 DEF Push, WindowKeyExpires, ModerateKeyExpires, vars
  <2>10. CASE Tick
    BY <2>10 DEF Tick, TypeOK
  <2>11. QED
    BY <2>3, <2>4, <2>5, <2>6, <2>7, <2>8, <2>9, <2>10 DEF Next, ClientStep, ClearStep
<1>3. QED
  BY <1>1, <1>2, TypeCorrect, PTL DEF Spec

----------------------------------------------------------------------------
\* How a client's move shows in the permits.
LEMMA PermitMoves ==
  ASSUME TypeOK, NEW c \in Clients,
         \A d \in Clients \ {c} : pc'[d] = pc[d] /\ stamp'[d] = stamp[d]
  PROVE  Permit' = [Permit EXCEPT ![c] = IF pc'[c] \in {"execM", "pop"}
                                         THEN stamp'[c] ELSE 0]
BY DEF Permit, Holding

LEMMA PermitStays ==
  ASSUME TypeOK, NEW c \in Clients,
         \A d \in Clients \ {c} : pc'[d] = pc[d] /\ stamp'[d] = stamp[d],
         (IF pc'[c] \in {"execM", "pop"} THEN stamp'[c] ELSE 0) = Permit[c]
  PROVE  Permit' = Permit
BY PermitMoves DEF Permit

\* A client with no permit that moves on without one, or returns, is a stutter.
LEMMA PermitGoto ==
  ASSUME TypeOK, NEW c \in Clients, NEW s, Goto(c, s), ~Holding(c),
         s \notin {"execM", "pop"}, \A d \in Clients \ {c} : stamp'[d] = stamp[d]
  PROVE  Permit' = Permit
<1>1. \A d \in Clients \ {c} : pc'[d] = pc[d]
  BY GotoMoves
<1>2. pc'[c] = s
  BY GotoMoves
<1>3. Permit[c] = 0
  BY DEF Permit
<1>4. QED
  BY <1>1, <1>2, <1>3, PermitStays

LEMMA PermitReturn ==
  ASSUME TypeOK, NEW c \in Clients, Return(c)
  PROVE  /\ Permit' = [Permit EXCEPT ![c] = 0]
         /\ ~Holding(c) => Permit' = Permit
<1>1. /\ \A d \in Clients \ {c} : pc'[d] = pc[d] /\ stamp'[d] = stamp[d]
      /\ pc'[c] = "idle"
  BY ReturnMoves
<1>2. ~Holding(c) => Permit[c] = 0
  BY DEF Permit
<1>3. QED
  BY <1>1, <1>2, PermitMoves, PermitStays

\* The limiter counts as this module does.
LEMMA SameCardinality ==
  ASSUME NEW S
  PROVE  Limiter!Cardinality(S) = Cardinality(S)
BY DEF Limiter!Cardinality, Cardinality

\* test_hits, EXEC: the limiter admits the stamp and hands out the permit.
LEMMA ExecAdmits ==
  ASSUME TypeOK, ThrottleInv, StampsRead, NEW c \in Clients, ExecHit(c), c \in cleanW
  PROVE  Limiter!Admit(c)
<1>1. /\ pc[c] = "execW"
      /\ grants' = grants \cup {stamp[c]}
      /\ now' = now + 1
      /\ Goto(c, IF Moderated THEN "execM" ELSE "pop")
      /\ UNCHANGED <<stamp, qlen>>
  BY DEF ExecHit, WindowUntouched
<1>2. /\ \A g \in grants : g < stamp[c]
      /\ Cardinality({g \in grants : g > stamp[c] - Window}) < Limit
      /\ stamp[c] \in 1..now
  BY <1>1 DEF ThrottleInv, CountStillTrue, TimesPast, StampsRead, TypeOK
<1>3. Permit[c] = 0
  BY <1>1 DEF Permit, Holding
<1>4. pc'[c] \in {"execM", "pop"} /\ \A d \in Clients \ {c} : pc'[d] = pc[d]
  BY <1>1, GotoMoves
<1>5. Permit' = [Permit EXCEPT ![c] = stamp[c]]
  BY <1>1, <1>4, PermitMoves
<1>6. now' >= now
  BY <1>1 DEF TypeOK
<1>7. Limiter!Cardinality({g \in grants : g > stamp[c] - Window}) < Limit
  BY <1>2, SameCardinality
<1>8. QED
  BY <1>1, <1>2, <1>3, <1>5, <1>6, <1>7 DEF Limiter!Admit

\* The optimistic locking of RedisThrottledQueue implements the rate limiter: the
\* abstract state maps every step of the code to a step of the limiter or to none.
THEOREM ThrottleIsLimiter == Spec => LimiterSpec
<1> USE DEF keys, locals, watches, history
<1>1. Init => Limiter!Init
  BY DEF Init, Limiter!Init, Permit, Holding
<1>2. TypeOK /\ ThrottleInv /\ StampsRead /\ [Next]_vars => [Limiter!Next]_(Limiter!vars)
  <2> SUFFICES ASSUME TypeOK, ThrottleInv, StampsRead, [Next]_vars
               PROVE  Limiter!Next \/ UNCHANGED <<now, grants, Permit, qlen>>
    BY DEF Limiter!vars
  <2>1. ASSUME NEW c \in Clients,
               StartPop(c) \/ TrimWindow(c) \/ WatchModerate(c) \/ WatchWindow(c)
        PROVE  UNCHANGED <<now, grants, Permit, qlen>>
    <3>1. /\ UNCHANGED <<now, grants, qlen, stamp>> /\ ~Holding(c)
          /\ \E s : Goto(c, s) /\ s \notin {"execM", "pop"}
      BY <2>1 DEF StartPop, TrimWindow, Unmoved, WatchModerate, WatchWindow, Holding
    <3>2. QED
      BY <3>1, PermitGoto
  <2>2. ASSUME NEW c \in Clients,
               CheckModeration(c) \/ CheckElastic(c) \/ CountHits(c) \/ ClearModerate(c)
        PROVE  UNCHANGED <<now, grants, Permit, qlen>>
    <3>1. UNCHANGED <<now, grants, qlen>> /\ ~Holding(c)
      BY <2>2 DEF CheckModeration, CheckElastic, CountHits, Room, ClearModerate, Holding
    <3>2. \/ Return(c)
          \/ /\ \E s : Goto(c, s) /\ s \notin {"execM", "pop"}
             /\ \A d \in Clients \ {c} : stamp'[d] = stamp[d]
      BY <2>2 DEF CheckModeration, CheckElastic, CountHits, Room, ClearModerate, TypeOK
    <3>3. QED
      BY <3>1, <3>2, PermitGoto, PermitReturn
  <2>3. ASSUME NEW c \in Clients, ExecHit(c)
        PROVE  Limiter!Admit(c) \/ UNCHANGED <<now, grants, Permit, qlen>>
    <3>1. CASE c \in cleanW
      BY <2>3, <3>1, ExecAdmits
    <3>2. CASE c \notin cleanW
      BY <2>3, <3>2, PermitReturn DEF ExecHit, WindowUntouched, Holding
    <3>3. QED
      BY <3>1, <3>2
  <2>4. ASSUME NEW c \in Clients, ExecModerate(c)
        PROVE  Limiter!Lose(c) \/ UNCHANGED <<now, grants, Permit, qlen>>
    <3>1. CASE c \in cleanM
      <4>1. Goto(c, "pop") /\ pc[c] = "execM" /\ UNCHANGED <<now, grants, qlen, stamp>>
        BY <2>4, <3>1 DEF ExecModerate, ModerateUntouched
      <4>2. /\ \A d \in Clients \ {c} : pc'[d] = pc[d] /\ stamp'[d] = stamp[d]
            /\ pc'[c] = "pop" /\ stamp'[c] = Permit[c]
        BY <4>1, GotoMoves DEF Permit, Holding
      <4>3. QED
        BY <4>1, <4>2, PermitStays
    <3>2. CASE c \notin cleanM
      BY <2>4, <3>2, PermitReturn DEF ExecModerate, ModerateUntouched, Limiter!Lose
    <3>3. QED
      BY <3>1, <3>2
  <2>5. ASSUME NEW c \in Clients, PopItem(c) PROVE Limiter!Use(c)
    <3>1. Permit[c] # 0
      BY <2>5 DEF PopItem, Permit, Holding, StampsRead, TypeOK
    <3>2. QED
      BY <2>5, <3>1, PermitReturn DEF PopItem, Limiter!Use
  <2>6. ASSUME NEW c \in Clients, Crash(c) PROVE Limiter!Lose(c)
    BY <2>6, PermitReturn DEF Crash, Limiter!Lose
  <2>7. ASSUME NEW c \in Clients, ClearWindow(c) PROVE Limiter!Reset
    <3>1. UNCHANGED Permit
      BY <2>7, PermitGoto DEF ClearWindow, Holding
    <3>2. QED
      BY <2>7, <3>1 DEF ClearWindow, Limiter!Reset
  <2>8. ASSUME NEW c \in Clients, ClearQueue(c) PROVE Limiter!Reset
    BY <2>8, PermitReturn DEF ClearQueue, Holding, Limiter!Reset
  <2>9. CASE Push
    BY <2>9 DEF Push, Limiter!Next, Limiter!Put, Permit, Holding
  <2>10. CASE Tick
    BY <2>10 DEF Tick, Limiter!Next, Limiter!Advance, Permit, Holding, TypeOK
  <2>11. CASE WindowKeyExpires \/ ModerateKeyExpires \/ UNCHANGED vars
    BY <2>11 DEF WindowKeyExpires, ModerateKeyExpires, vars, Permit, Holding
  <2>12. QED
    BY <2>1, <2>2, <2>3, <2>4, <2>5, <2>6, <2>7, <2>8, <2>9, <2>10, <2>11
    DEF Next, ClientStep, ClearStep, Limiter!Next
<1>3. QED
  BY <1>1, <1>2, TypeCorrect, WindowIsBounded, StampsAreRead, PTL
  DEF Spec, LimiterSpec, Limiter!Spec

----------------------------------------------------------------------------
\* A step after which nobody holds or awaits anything new keeps PopInv.
LEMMA PopsQuiet ==
  ASSUME TypeOK, PopInv, now' \in Nat, now <= now', UNCHANGED <<pops, grants>>,
         \A d \in Clients : Holding(d)' => Holding(d) /\ stamp'[d] = stamp[d],
         \A d \in Clients : pc'[d] = "execW" => pc[d] = "execW" /\ stamp'[d] = stamp[d],
         \A d \in cleanW' : pc'[d] = "execW" => d \in cleanW
  PROVE  PopInv'
<1>1. \A p \in pops : p.stamp \in Nat /\ p.at \in Nat /\ p.client \in Clients
  BY DEF TypeOK, PopRecord
<1>2. now \in Nat /\ \A d \in Clients : stamp[d] \in Nat
  BY DEF TypeOK
<1>3. cleanW' \subseteq Clients \/ \A d \in cleanW' : pc'[d] = "execW" => d \in Clients
  BY DEF TypeOK
<1>4. StampsServeOnce'
  <2>1. (\A p \in pops : p.stamp < now') /\ \A c \in Clients : Holding(c)' => stamp'[c] < now'
    BY <1>1, <1>2 DEF PopInv, StampsServeOnce
  <2>2. /\ \A p, q \in pops : p.stamp = q.stamp => p = q
        /\ \A c \in Clients : Holding(c)' => \A p \in pops : p.stamp # stamp'[c]
        /\ \A c, d \in Clients :
              Holding(c)' /\ Holding(d)' /\ stamp'[c] = stamp'[d] => c = d
    BY DEF PopInv, StampsServeOnce
  <2>3. \A c \in cleanW' : pc'[c] = "execW" =>
          /\ \A p \in pops : p.stamp < stamp'[c]
          /\ \A d \in Clients : Holding(d)' => stamp'[d] < stamp'[c]
    BY <1>3 DEF PopInv, StampsServeOnce, TypeOK
  <2>4. QED
    BY <2>1, <2>2, <2>3 DEF StampsServeOnce
<1>5. PopsInTurn'
  <2>1. IsFiniteSet(pops) /\ \A p \in pops : p.stamp <= p.at /\ p.at <= now'
    BY <1>1, <1>2 DEF PopInv, PopsInTurn
  <2>2. \A p \in pops :
          /\ pc'[p.client] \in {"execW", "execM", "pop"} => p.at <= stamp'[p.client]
          /\ Holding(p.client)' => stamp'[p.client] \in grants
    BY <1>1 DEF PopInv, PopsInTurn, Holding
  <2>3. QED
    BY <2>1, <2>2 DEF PopInv, PopsInTurn
<1>6. QED
  BY <1>4, <1>5 DEF PopInv

LEMMA PopsGoto ==
  ASSUME TypeOK, PopInv, NEW c \in Clients, NEW s, Goto(c, s),
         s # "execW", s = "pop" => pc[c] = "execM", s # "execM",
         UNCHANGED <<now, pops, grants, stamp>>, cleanW' \subseteq cleanW \cup {c}
  PROVE  PopInv'
<1>1. \A d \in Clients : pc'[d] = IF d = c THEN s ELSE pc[d]
  BY GotoMoves
<1>2. now' \in Nat /\ now <= now'
  BY DEF TypeOK
<1>3. /\ \A d \in Clients : Holding(d)' => Holding(d) /\ stamp'[d] = stamp[d]
      /\ \A d \in Clients : pc'[d] = "execW" => pc[d] = "execW" /\ stamp'[d] = stamp[d]
      /\ \A d \in cleanW' : pc'[d] = "execW" => d \in cleanW
  BY <1>1 DEF Holding
<1>4. QED
  BY <1>2, <1>3, PopsQuiet

LEMMA PopsReturn ==
  ASSUME TypeOK, PopInv, NEW c \in Clients, Return(c), UNCHANGED <<now, pops, grants>>
  PROVE  PopInv'
<1>1. now' \in Nat /\ now <= now'
  BY DEF TypeOK
<1>2. /\ \A d \in Clients : Holding(d)' => Holding(d) /\ stamp'[d] = stamp[d]
      /\ \A d \in Clients : pc'[d] = "execW" => pc[d] = "execW" /\ stamp'[d] = stamp[d]
      /\ \A d \in cleanW' : pc'[d] = "execW" => d \in cleanW
  BY ReturnMoves DEF Holding
<1>3. QED
  BY <1>1, <1>2, PopsQuiet

\* test_hits, ZCARD: the new stamp is later than everything that happened.
LEMMA PopsCount ==
  ASSUME TypeOK, PopInv, NEW c \in Clients, CountHits(c)
  PROVE  PopInv'
<1>1. CASE Return(c)
  BY <1>1, PopsReturn DEF CountHits, Room, history
<1>2. CASE stamp' = [stamp EXCEPT ![c] = now] /\ Goto(c, "execW") /\ UNCHANGED watches
  <2>1. /\ UNCHANGED <<now, pops, grants, cleanW>>
        /\ \A d \in Clients : /\ pc'[d] = IF d = c THEN "execW" ELSE pc[d]
                              /\ stamp'[d] = IF d = c THEN now ELSE stamp[d]
    BY <1>2, GotoMoves DEF CountHits, Room, watches, history, TypeOK
  <2>2. \A d \in Clients : Holding(d)' <=> Holding(d) /\ d # c
    BY <2>1 DEF Holding
  <2>3. \A p \in pops : p.client \in Clients
    BY DEF TypeOK, PopRecord
  <2>4. StampsServeOnce'
    <3>1. (\A p \in pops : p.stamp < now) /\ \A d \in Clients : Holding(d)' => stamp'[d] < now
      BY <2>1, <2>2 DEF PopInv, StampsServeOnce
    <3>2. /\ \A p, q \in pops : p.stamp = q.stamp => p = q
          /\ \A d \in Clients : Holding(d)' => \A p \in pops : p.stamp # stamp'[d]
          /\ \A d, e \in Clients :
                Holding(d)' /\ Holding(e)' /\ stamp'[d] = stamp'[e] => d = e
      BY <2>1, <2>2 DEF PopInv, StampsServeOnce
    <3>3. \A d \in cleanW : pc'[d] = "execW" =>
             /\ \A p \in pops : p.stamp < stamp'[d]
             /\ \A e \in Clients : Holding(e)' => stamp'[e] < stamp'[d]
      BY <2>1, <2>2, <3>1 DEF PopInv, StampsServeOnce, TypeOK
    <3>4. QED
      BY <2>1, <3>1, <3>2, <3>3 DEF StampsServeOnce
  <2>5. PopsInTurn'
    BY <2>1, <2>2, <2>3 DEF PopInv, PopsInTurn
  <2>6. QED
    BY <2>4, <2>5 DEF PopInv
<1>3. QED
  BY <1>1, <1>2 DEF CountHits, Room

\* test_hits, EXEC: the stamp that becomes a permit is newer than all others, and
\* the other clients that waited have lost their watch.
LEMMA PopsExec ==
  ASSUME TypeOK, ThrottleInv, PopInv, NEW c \in Clients, ExecHit(c), c \in cleanW
  PROVE  PopInv'
<1>1. /\ pc[c] = "execW"
      /\ grants' = grants \cup {stamp[c]}
      /\ cleanW' = {}
      /\ now' = now + 1
      /\ UNCHANGED <<stamp, pops>>
      /\ Goto(c, IF Moderated THEN "execM" ELSE "pop")
  BY DEF ExecHit, WindowUntouched
<1>2. \A d \in Clients : pc'[d] = IF d = c THEN IF Moderated THEN "execM" ELSE "pop" ELSE pc[d]
  BY <1>1, GotoMoves
<1>held. \A d \in Clients : Holding(d)' <=> (Holding(d) \/ d = c)
  BY <1>2 DEF Holding
<1>3. /\ \A p \in pops : p.stamp < stamp[c]
      /\ \A d \in Clients : Holding(d) => stamp[d] < stamp[c]
      /\ stamp[c] <= now
  BY <1>1 DEF PopInv, StampsServeOnce, ThrottleInv, TimesPast
<1>4. /\ now \in Nat /\ \A d \in Clients : stamp[d] \in Nat
      /\ \A p \in pops : p.stamp \in Nat /\ p.at \in Nat /\ p.client \in Clients
  BY DEF TypeOK, PopRecord
<1>5. StampsServeOnce'
  <2>1. (\A p \in pops : p.stamp < now + 1) /\ \A d \in Clients : Holding(d)' => stamp[d] < now + 1
    BY <1>2, <1>held, <1>3, <1>4 DEF PopInv, StampsServeOnce
  <2>2. \A d \in Clients : Holding(d)' => \A p \in pops : p.stamp # stamp[d]
    BY <1>2, <1>held, <1>3, <1>4 DEF PopInv, StampsServeOnce
  <2>3. \A d, e \in Clients : Holding(d)' /\ Holding(e)' /\ stamp[d] = stamp[e] => d = e
    BY <1>2, <1>held, <1>3, <1>4 DEF PopInv, StampsServeOnce
  <2>4. QED
    BY <1>1, <2>1, <2>2, <2>3 DEF PopInv, StampsServeOnce
<1>6. PopsInTurn'
  <2>1. IsFiniteSet(pops) /\ \A p \in pops : p.stamp <= p.at /\ p.at <= now + 1
    BY <1>4 DEF PopInv, PopsInTurn
  <2>2. \A p, q \in pops : p.client = q.client /\ p # q =>
          \/ p.at <= q.stamp /\ q.stamp \in grants'
          \/ q.at <= p.stamp /\ p.stamp \in grants'
    BY <1>1 DEF PopInv, PopsInTurn
  <2>3. \A p \in pops :
          /\ pc'[p.client] \in {"execW", "execM", "pop"} => p.at <= stamp[p.client]
          /\ Holding(p.client)' => stamp[p.client] \in grants'
    BY <1>1, <1>2, <1>held, <1>4 DEF PopInv, PopsInTurn
  <2>4. QED
    BY <1>1, <2>1, <2>2, <2>3 DEF PopsInTurn
<1>7. QED
  BY <1>5, <1>6 DEF PopInv

\* pop: the permit turns into a call of queue.pop.
LEMMA PopsPop ==
  ASSUME TypeOK, PopInv, NEW c \in Clients, PopItem(c)
  PROVE  PopInv'
<1> DEFINE r == [client |-> c, stamp |-> stamp[c], at |-> now, got |-> qlen > 0]
<1>1. pops' = pops \cup {r} /\ Return(c) /\ pc[c] = "pop" /\ UNCHANGED <<now, grants>>
  BY DEF PopItem
<1>2. r.client = c /\ r.stamp = stamp[c] /\ r.at = now
  OBVIOUS
<1> HIDE DEF r
<1>3. /\ \A d \in Clients : /\ pc'[d] = IF d = c THEN "idle" ELSE pc[d]
                            /\ d # c => stamp'[d] = stamp[d]
      /\ cleanW' = cleanW \ {c}
      /\ Holding(c)
  BY <1>1, ReturnMoves DEF Holding
<1>held. \A d \in Clients : Holding(d)' <=> (Holding(d) /\ d # c)
  BY <1>3 DEF Holding
<1>4. /\ now \in Nat /\ \A d \in Clients : stamp[d] \in Nat
      /\ \A p \in pops : p.stamp \in Nat /\ p.at \in Nat /\ p.client \in Clients
      /\ cleanW \subseteq Clients
  BY DEF TypeOK, PopRecord
<1>5. StampsServeOnce'
  <2>1. (\A p \in pops' : p.stamp < now) /\ \A d \in Clients : Holding(d)' => stamp'[d] < now
    BY <1>1, <1>2, <1>held, <1>3 DEF PopInv, StampsServeOnce
  <2>2. \A p, q \in pops' : p.stamp = q.stamp => p = q
    BY <1>1, <1>2, <1>held, <1>3 DEF PopInv, StampsServeOnce
  <2>3. \A d \in Clients : Holding(d)' => \A p \in pops' : p.stamp # stamp'[d]
    BY <1>1, <1>2, <1>held, <1>3 DEF PopInv, StampsServeOnce
  <2>4. \A d, e \in Clients : Holding(d)' /\ Holding(e)' /\ stamp'[d] = stamp'[e] => d = e
    BY <1>3, <1>held DEF PopInv, StampsServeOnce
  <2>5. \A d \in cleanW' : pc'[d] = "execW" =>
           /\ \A p \in pops' : p.stamp < stamp'[d]
           /\ \A e \in Clients : Holding(e)' => stamp'[e] < stamp'[d]
    BY <1>1, <1>2, <1>held, <1>3, <1>4 DEF PopInv, StampsServeOnce
  <2>6. QED
    BY <1>1, <2>1, <2>2, <2>3, <2>4, <2>5 DEF StampsServeOnce
<1>6. PopsInTurn'
  <2>1. IsFiniteSet(pops')
    BY <1>1, FS_AddElement DEF PopInv, PopsInTurn
  <2>2. \A p \in pops' : p.stamp <= p.at /\ p.at <= now
    BY <1>1, <1>2, <1>held, <1>3, <1>4 DEF PopInv, PopsInTurn, StampsServeOnce
  <2>3. \A p \in pops : p.client = c => p.at <= stamp[c] /\ stamp[c] \in grants
    BY <1>1, <1>3, <1>held DEF PopInv, PopsInTurn
  <2>4. \A p, q \in pops' : p.client = q.client /\ p # q =>
          \/ p.at <= q.stamp /\ q.stamp \in grants
          \/ q.at <= p.stamp /\ p.stamp \in grants
    BY <1>1, <1>2, <1>held, <2>3 DEF PopInv, PopsInTurn
  <2>5. \A p \in pops' :
          /\ pc'[p.client] \in {"execW", "execM", "pop"} => p.at <= stamp'[p.client]
          /\ Holding(p.client)' => stamp'[p.client] \in grants
    BY <1>1, <1>2, <1>held, <1>3, <1>4 DEF PopInv, PopsInTurn
  <2>6. QED
    BY <1>1, <2>1, <2>2, <2>4, <2>5 DEF PopsInTurn
<1>7. QED
  BY <1>5, <1>6 DEF PopInv

\* clear(): the calls before it are forgotten; permits already handed out live on.
LEMMA PopsClear ==
  ASSUME TypeOK, PopInv, NEW c \in Clients, ClearWindow(c)
  PROVE  PopInv'
<1>1. /\ pops' = {} /\ Goto(c, "clearM") /\ pc[c] = "idle"
      /\ UNCHANGED <<now, stamp>> /\ cleanW' \subseteq cleanW
  BY DEF ClearWindow
<1>2. \A d \in Clients : pc'[d] = IF d = c THEN "clearM" ELSE pc[d]
  BY <1>1, GotoMoves
<1>held. \A d \in Clients : Holding(d)' <=> Holding(d)
  BY <1>1, <1>2 DEF Holding
<1>3. StampsServeOnce'
  BY <1>1, <1>2, <1>held DEF PopInv, StampsServeOnce, TypeOK
<1>4. PopsInTurn'
  BY <1>1, FS_EmptySet DEF PopsInTurn
<1>5. QED
  BY <1>3, <1>4 DEF PopInv

LEMMA PopsStep == TypeOK /\ ThrottleInv /\ PopInv /\ [Next]_vars => PopInv'
<1> SUFFICES ASSUME TypeOK, ThrottleInv, PopInv, [Next]_vars PROVE PopInv'
  OBVIOUS
<1> USE DEF keys, locals, watches, history
<1>1. ASSUME NEW c \in Clients,
             StartPop(c) \/ TrimWindow(c) \/ WatchModerate(c) \/ WatchWindow(c)
      PROVE  PopInv'
  BY <1>1, PopsGoto DEF StartPop, TrimWindow, Unmoved, WatchModerate, WatchWindow
<1>2. ASSUME NEW c \in Clients,
             CheckModeration(c) \/ CheckElastic(c) \/ ClearModerate(c)
      PROVE  PopInv'
  BY <1>2, PopsGoto, PopsReturn DEF CheckModeration, CheckElastic, ClearModerate
<1>3. ASSUME NEW c \in Clients, CountHits(c) PROVE PopInv'
  BY <1>3, PopsCount
<1>4. ASSUME NEW c \in Clients, ExecHit(c) PROVE PopInv'
  BY <1>4, PopsExec, PopsReturn DEF ExecHit, WindowUntouched
<1>5. ASSUME NEW c \in Clients, ExecModerate(c) PROVE PopInv'
  BY <1>5, PopsGoto, PopsReturn DEF ExecModerate, ModerateUntouched
<1>6. ASSUME NEW c \in Clients, PopItem(c) PROVE PopInv'
  BY <1>6, PopsPop
<1>7. ASSUME NEW c \in Clients, ClearWindow(c) PROVE PopInv'
  BY <1>7, PopsClear
<1>8. ASSUME NEW c \in Clients, ClearQueue(c) \/ Crash(c) PROVE PopInv'
  BY <1>8, PopsReturn DEF ClearQueue, Crash
<1>9. CASE Push \/ WindowKeyExpires \/ ModerateKeyExpires \/ Tick \/ UNCHANGED vars
  <2>1. now' \in Nat /\ now <= now' /\ UNCHANGED <<pops, grants, pc, stamp, cleanW>>
    BY <1>9 DEF Push, WindowKeyExpires, ModerateKeyExpires, Tick, vars, TypeOK
  <2>2. \A d \in Clients : Holding(d)' <=> Holding(d)
    BY <2>1 DEF Holding
  <2>3. QED
    BY <2>1, <2>2, PopsQuiet
<1>10. QED
  BY <1>1, <1>2, <1>3, <1>4, <1>5, <1>6, <1>7, <1>8, <1>9 DEF Next, ClientStep, ClearStep

\* The pops of one window either have their stamp in it too, and are few because
\* stamps are, or came late; of the late ones each client has at most one.
LEMMA PopsFewInWindow == TypeOK /\ ThrottleInv /\ PopInv => PopBound
<1> SUFFICES ASSUME TypeOK, ThrottleInv, PopInv, NEW q \in pops
             PROVE  Cardinality({p \in pops : p.at \in InWindow(q.at)})
                      <= Limit + Cardinality(Clients)
  BY DEF PopBound
<1> USE ThrottleAssumption DEF ThrottleAssumption
<1> DEFINE t == q.at
           all == {p \in pops : p.at \in InWindow(t)}
           prompt == {p \in all : p.stamp \in grants \cap InWindow(t)}
           late == all \ prompt
           stamps == grants \cap InWindow(t)
<1>1. \A p \in pops : p.stamp \in Nat /\ p.at \in Nat /\ p.client \in Clients
  BY DEF TypeOK, PopRecord
<1>2. t \in 0..now /\ now \in Nat
  BY <1>1 DEF PopInv, PopsInTurn, TypeOK
<1>3. IsFiniteSet(pops) /\ IsFiniteSet(grants)
  BY DEF PopInv, PopsInTurn, ThrottleInv, TimesPast
<1>4. IsFiniteSet(stamps) /\ Cardinality(stamps) <= Limit
  BY <1>2, <1>3, FS_Subset DEF ThrottleInv, WindowBound
<1>5. IsFiniteSet(prompt) /\ IsFiniteSet(late)
  BY <1>3, FS_Subset
<1>6. Cardinality(prompt) <= Cardinality(stamps)
  <2> DEFINE f == [p \in prompt |-> p.stamp]
  <2>1. f \in Injection(prompt, stamps)
    <3>1. f \in [prompt -> stamps]
      OBVIOUS
    <3>2. \A a, b \in prompt : f[a] = f[b] => a = b
      BY DEF PopInv, StampsServeOnce
    <3>3. QED
      BY <3>1, <3>2 DEF Injection, IsInjective
  <2>2. QED
    BY <2>1, <1>4, FS_Injection
<1>7. Cardinality(late) <= Cardinality(Clients)
  <2> DEFINE f == [p \in late |-> p.client]
  <2>1. f \in Injection(late, Clients)
    <3>1. f \in [late -> Clients]
      BY <1>1
    <3>2. ASSUME NEW a \in late, NEW b \in late, a.client = b.client, a # b PROVE FALSE
      <4>1. ASSUME NEW x \in late, NEW y \in late, x.at <= y.stamp, y.stamp \in grants
            PROVE FALSE
        <5>1. x.at >= t - Window + 1 /\ y.at <= t /\ y.stamp <= y.at
          BY <1>1, <1>2 DEF InWindow, PopInv, PopsInTurn
        <5>2. y.stamp \in InWindow(t)
          BY <5>1, <4>1, <1>1, <1>2 DEF InWindow
        <5>3. QED
          BY <5>2, <4>1
      <4>2. QED
        BY <3>2, <4>1 DEF PopInv, PopsInTurn
    <3>3. \A a, b \in late : f[a] = f[b] => a = b
      BY <3>2
    <3>4. QED
      BY <3>1, <3>3 DEF Injection, IsInjective
  <2>2. QED
    BY <2>1, FS_Injection
<1>8. /\ all = prompt \cup late /\ prompt \cap late = {}
      /\ Cardinality(all) = Cardinality(prompt) + Cardinality(late)
                              - Cardinality(prompt \cap late)
  <2>1. all = prompt \cup late /\ prompt \cap late = {}
    OBVIOUS
  <2> HIDE DEF all, prompt, late
  <2>2. QED
    BY <2>1, <1>5, FS_Union
<1>9. Cardinality(prompt \cap late) = 0
  BY <1>8, FS_EmptySet
<1>10. /\ Cardinality(prompt) \in Nat /\ Cardinality(late) \in Nat
       /\ Cardinality(stamps) \in Nat /\ Cardinality(Clients) \in Nat
  BY <1>4, <1>5, FS_CardinalityType
<1> HIDE DEF all, prompt, late, stamps
<1>11. Cardinality(all) <= Limit + Cardinality(Clients)
  BY <1>4, <1>6, <1>7, <1>8, <1>9, <1>10
<1>12. QED
  BY <1>11 DEF all

\* pop(), for every number of clients, limit and window: in any window the wrapped
\* queue is asked at most Limit times and once more per client, however long a
\* client sleeps between the commands of redis_throttled_queue.py and whenever
\* processes crash.
THEOREM PopsAreBounded == Spec => []PopBound
<1>1. Init => PopInv
  BY FS_EmptySet DEF Init, PopInv, StampsServeOnce, PopsInTurn, Holding
<1>2. QED
  BY <1>1, PopsStep, PopsFewInWindow, TypeCorrect, WindowIsBounded, PTL DEF Spec

----------------------------------------------------------------------------
(***************************************************************************)
(* ModerationSpacing.  A client whose WATCH of moderate_key is intact      *)
(* still knows how old the last pop is; if that was too recent, it has     *)
(* earned to go on.                                                        *)
(***************************************************************************)
ModerationKnown ==
    \A c \in cleanM :
        /\ pc[c] \in {"getM", "elastic", "watchW", "count", "execW", "execM", "pop"}
        /\ pc[c] # "getM" /\ TooSoon(c) => Elastic /\ kick[c] = Limit

(***************************************************************************)
(* WasteBound.  A moderated client wastes its hit when its WATCH of        *)
(* moderate_key is lost before its EXEC.  Whoever wins the key, or clears  *)
(* it, takes the watch of all others at most.                              *)
(***************************************************************************)
Doomed ==
    {c \in Clients : /\ Moderated /\ c \notin cleanM
                     /\ pc[c] \in {"getM", "elastic", "watchW", "count", "execW", "execM"}}
Clearing == {c \in Clients : pc[c] = "clearM"}
Winning == {c \in Clients : pc[c] = "pop"}
Winners == Cardinality(pops) + Cardinality(Winning)

Others == Cardinality(Clients) - 1
Budget == Others * (Winners + crashes + 2 * clears) + crashes

WasteInv ==
    /\ \A c \in Clients : pc[c] = "execM" => Moderated
    /\ Cardinality(Clearing) <= clears
    /\ Cardinality(Wasted) + Cardinality(Doomed) + Others * Cardinality(Clearing) <= Budget

----------------------------------------------------------------------------
LEMMA KnownStep ==
  ASSUME TypeOK, ModerationKnown, [Next]_vars
  PROVE  ModerationKnown'
<1> USE DEF keys, locals, watches, history
<1>0. /\ ModerationKnown /\ cleanM \subseteq Clients
      /\ \A c \in Clients : clk[c] \in Nat /\ kick[c] \in 0..Limit
      /\ modTime \in Nat
  BY DEF TypeOK
\* Clients that keep their watch stand where they stood, and read the same clock; the
\* moderation they know is there or gone.
<1>1. ASSUME NEW c \in Clients, cleanM' \subseteq cleanM, modTime' \in {modTime, 0},
             \A d \in cleanM' : d # c => /\ pc'[d] = pc[d] /\ clk'[d] = clk[d]
                                         /\ kick'[d] = kick[d],
             c \in cleanM' => /\ pc'[c] \in {"elastic", "watchW", "count", "execW", "execM", "pop"}
                              /\ clk'[c] = clk[c] /\ kick'[c] = kick[c]
                              /\ pc[c] = "getM" => ~TooSoon(c) \/ (Elastic /\ kick[c] = Limit)
      PROVE  ModerationKnown'
  <2>1. \A d \in cleanM' : TooSoon(d)' => TooSoon(d)
    BY <1>0, <1>1 DEF TooSoon
  <2>2. QED
    BY <1>0, <1>1, <2>1 DEF ModerationKnown
<1>2. ASSUME UNCHANGED <<pc, clk, kick, cleanM>>, modTime' \in {modTime, 0} PROVE ModerationKnown'
  <2>1. \A d \in cleanM' : TooSoon(d)' => TooSoon(d)
    BY <1>0, <1>2 DEF TooSoon
  <2>2. QED
    BY <1>0, <1>2, <2>1 DEF ModerationKnown
\* A call that returns has no watch.
<1>3. ASSUME NEW c \in Clients, Return(c), modTime' \in {modTime, 0},
             \A d \in Clients : d # c => kick'[d] = kick[d]
      PROVE  ModerationKnown'
  <2>1. cleanM' \subseteq cleanM /\ c \notin cleanM'
    BY <1>3 DEF Return
  <2>2. \A d \in Clients : d # c => pc'[d] = pc[d] /\ clk'[d] = clk[d]
    BY <1>3, ReturnMoves
  <2>3. QED
    BY <1>0, <1>1, <1>3, <2>1, <2>2
<1>4. ASSUME NEW c \in Clients, StartPop(c) \/ TrimWindow(c) PROVE ModerationKnown'
  <2>1. c \notin cleanM /\ UNCHANGED <<cleanM, modTime, kick>>
    BY <1>0, <1>4 DEF StartPop, TrimWindow, ModerationKnown
  <2>2. \A d \in Clients : d # c => pc'[d] = pc[d] /\ clk'[d] = clk[d]
    BY <1>4, GotoMoves DEF StartPop, TrimWindow, TypeOK
  <2>3. QED
    BY <1>0, <1>1, <2>1, <2>2
<1>5. ASSUME NEW c \in Clients, WatchModerate(c) PROVE ModerationKnown'
  <2>1. /\ cleanM' = cleanM \cup {c} /\ UNCHANGED <<modTime, kick>>
        /\ pc'[c] = "getM"
        /\ \A d \in Clients : d # c => pc'[d] = pc[d] /\ clk'[d] = clk[d]
    BY <1>5, GotoMoves DEF WatchModerate, TypeOK
  <2>2. \A d \in cleanM' : d # c => d \in cleanM /\ (TooSoon(d)' <=> TooSoon(d))
    BY <1>0, <2>1 DEF TooSoon
  <2>3. QED
    BY <1>0, <2>1, <2>2 DEF ModerationKnown
<1>6. ASSUME NEW c \in Clients, CheckModeration(c) PROVE ModerationKnown'
  <2>1. UNCHANGED <<modTime, kick>>
    BY <1>6 DEF CheckModeration
  <2>2. CASE Return(c)
    BY <1>3, <2>1, <2>2
  <2>3. CASE /\ Goto(c, "watchW") \/ Goto(c, "elastic")
             /\ ~TooSoon(c) \/ Earned(c)
             /\ UNCHANGED <<clk, cleanM>>
    <3>1. /\ pc'[c] \in {"watchW", "elastic"} /\ \A d \in Clients : d # c => pc'[d] = pc[d]
      BY <2>3, GotoMoves
    <3>2. QED
      BY <1>0, <1>1, <2>1, <2>3, <3>1 DEF Earned
  <2>4. QED
    BY <1>6, <2>2, <2>3 DEF CheckModeration
\* A client moves on behind its reading of the moderation.
<1>7. ASSUME NEW c \in Clients, NEW s, Goto(c, s), UNCHANGED <<modTime, clk, kick, cleanM>>,
             s \in {"watchW", "count", "execW", "execM", "pop"}, pc[c] # "getM"
      PROVE  ModerationKnown'
  <2>1. pc'[c] = s /\ \A d \in Clients : d # c => pc'[d] = pc[d]
    BY <1>7, GotoMoves
  <2>2. QED
    BY <1>0, <1>1, <1>7, <2>1
<1>8. ASSUME NEW c \in Clients, CheckElastic(c) PROVE ModerationKnown'
  BY <1>3, <1>7, <1>8 DEF CheckElastic
<1>9. ASSUME NEW c \in Clients, WatchWindow(c) PROVE ModerationKnown'
  BY <1>7, <1>9 DEF WatchWindow
<1>10. ASSUME NEW c \in Clients, CountHits(c) PROVE ModerationKnown'
  BY <1>3, <1>7, <1>10 DEF CountHits
<1>11. ASSUME NEW c \in Clients, ExecHit(c) PROVE ModerationKnown'
  BY <1>3, <1>7, <1>11 DEF ExecHit
<1>12. ASSUME NEW c \in Clients, ExecModerate(c) PROVE ModerationKnown'
  <2>1. CASE cleanM' = {}
    BY <2>1 DEF ModerationKnown
  <2>2. CASE Return(c) /\ UNCHANGED <<modTime, kick>>
    BY <1>3, <2>2
  <2>3. QED
    BY <1>12, <2>1, <2>2 DEF ExecModerate
<1>13. ASSUME NEW c \in Clients, PopItem(c) PROVE ModerationKnown'
  <2>1. Return(c) /\ modTime' = modTime /\ \A d \in Clients : d # c => kick'[d] = kick[d]
    BY <1>13 DEF PopItem, TypeOK
  <2>2. QED
    BY <1>3, <2>1
<1>14. ASSUME NEW c \in Clients, Crash(c) PROVE ModerationKnown'
  <2>1. Return(c) /\ modTime' = modTime /\ \A d \in Clients : d # c => kick'[d] = kick[d]
    BY <1>14 DEF Crash, TypeOK
  <2>2. QED
    BY <1>3, <2>1
<1>15. ASSUME NEW c \in Clients, ClearWindow(c) PROVE ModerationKnown'
  <2>1. c \notin cleanM /\ UNCHANGED <<cleanM, modTime, kick, clk>>
    BY <1>0, <1>15 DEF ClearWindow, ModerationKnown
  <2>2. \A d \in Clients : d # c => pc'[d] = pc[d]
    BY <1>15, GotoMoves DEF ClearWindow
  <2>3. QED
    BY <1>0, <1>1, <2>1, <2>2
<1>16. ASSUME NEW c \in Clients, ClearModerate(c) PROVE ModerationKnown'
  <2>1. CASE Return(c) /\ UNCHANGED <<modTime, kick>>
    BY <1>3, <2>1
  <2>2. CASE Goto(c, "clearQ") /\ modTime' = 0 /\ cleanM' \subseteq cleanM /\ UNCHANGED <<clk, kick>>
    <3>1. c \notin cleanM
      BY <1>0, <1>16 DEF ClearModerate, ModerationKnown
    <3>2. \A d \in Clients : d # c => pc'[d] = pc[d]
      BY <2>2, GotoMoves
    <3>3. QED
      BY <1>0, <1>1, <2>2, <3>1, <3>2
  <2>3. QED
    BY <1>16, <2>1, <2>2 DEF ClearModerate
<1>17. ASSUME NEW c \in Clients, ClearQueue(c) PROVE ModerationKnown'
  BY <1>3, <1>17 DEF ClearQueue
<1>18. CASE Push \/ WindowKeyExpires \/ ModerateKeyExpires \/ Tick \/ UNCHANGED vars
  BY <1>2, <1>18 DEF Push, WindowKeyExpires, ModerateKeyExpires, Tick, vars
<1>19. QED
  BY <1>4, <1>5, <1>6, <1>8, <1>9, <1>10, <1>11, <1>12, <1>13, <1>14, <1>15, <1>16, <1>17, <1>18
  DEF Next, ClientStep, ClearStep

\* is_moderated and check_elastic, for every number of clients, window and limit: what
\* follows in moderate_key comes at least window / limit later, whoever wrote it, unless the
\* writer is elastic and has called queue.pop Limit times.
THEOREM ModerationIsKept == Spec => ModerationSpacing
<1> DEFINE Spaced ==
        \A c \in Clients :
            /\ pc[c] = "execM" /\ pc'[c] = "pop"
            /\ modTime # 0 /\ (modTime' - modTime) * Limit < Window
            => Elastic /\ kick[c] = Limit
<1>1. Init => ModerationKnown
  BY DEF Init, ModerationKnown
<1>2. TypeOK /\ ModerationKnown /\ [Next]_vars => ModerationKnown'
  BY KnownStep
<1>3. TypeOK /\ ModerationKnown /\ [Next]_vars => [Spaced]_vars
  <2> SUFFICES ASSUME TypeOK, ModerationKnown, [Next]_vars, NEW c \in Clients,
                      pc[c] = "execM", pc'[c] = "pop",
                      modTime # 0, (modTime' - modTime) * Limit < Window
               PROVE  Elastic /\ kick[c] = Limit
    OBVIOUS
  <2> USE DEF keys, locals, watches, history
  <2>1. ExecModerate(c)
    <3>1. \A d \in Clients : d # c =>
              ~ClientStep(d) /\ ~ClearStep(d) /\ ~Crash(d)
      BY GotoMoves, ReturnMoves DEF ClientStep, ClearStep, StartPop, TrimWindow, WatchModerate,
         CheckModeration, CheckElastic, WatchWindow, CountHits, ExecHit, ExecModerate, PopItem,
         ClearWindow, ClearModerate, ClearQueue, Crash
    <3>2. ~Crash(c) /\ ~ClearStep(c) /\ (ClientStep(c) => ExecModerate(c))
      BY ReturnMoves DEF ClientStep, ClearStep, StartPop, TrimWindow, WatchModerate,
         CheckModeration, CheckElastic, WatchWindow, CountHits, ExecHit, PopItem,
         ClearWindow, ClearModerate, ClearQueue, Crash
    <3>3. ~(Push \/ WindowKeyExpires \/ ModerateKeyExpires \/ Tick \/ UNCHANGED vars)
      BY DEF Push, WindowKeyExpires, ModerateKeyExpires, Tick, vars
    <3>4. QED
      BY <3>1, <3>2, <3>3 DEF Next
  <2>2. ModerateUntouched(c) /\ modTime' = clk[c]
    BY <2>1, ReturnMoves DEF ExecModerate
  <2>3. TooSoon(c) /\ c \in cleanM
    BY <2>2 DEF TooSoon, ModerateUntouched
  <2>4. QED
    BY <2>3 DEF ModerationKnown
<1>4. QED
  BY <1>1, <1>2, <1>3, TypeCorrect, PTL DEF Spec, ModerationSpacing

----------------------------------------------------------------------------
\* Sets that only lose members, lose one, or gain one at most.
LEMMA CardLess ==
  ASSUME NEW S, NEW T, IsFiniteSet(S), T \subseteq S
  PROVE  IsFiniteSet(T) /\ Cardinality(T) \in Nat /\ Cardinality(T) <= Cardinality(S)
BY FS_Subset, FS_CardinalityType

LEMMA CardLost ==
  ASSUME NEW S, NEW T, NEW a \in S, IsFiniteSet(S), T \subseteq S \ {a}
  PROVE  Cardinality(T) \in Nat /\ Cardinality(T) + 1 <= Cardinality(S)
<1>1. IsFiniteSet(S \ {a}) /\ Cardinality(S \ {a}) = Cardinality(S) - 1
  BY FS_RemoveElement
<1>2. Cardinality(T) \in Nat /\ Cardinality(T) <= Cardinality(S \ {a}) /\ Cardinality(S) \in Nat
  BY <1>1, CardLess, FS_CardinalityType
<1>3. QED
  BY <1>1, <1>2

LEMMA CardGained ==
  ASSUME NEW S, NEW T, NEW b, IsFiniteSet(S), T \subseteq S \cup {b}
  PROVE  Cardinality(T) \in Nat /\ Cardinality(T) <= Cardinality(S) + 1
<1>1. /\ IsFiniteSet(S \cup {b}) /\ Cardinality(S) \in Nat
      /\ Cardinality(S \cup {b}) \in {Cardinality(S), Cardinality(S) + 1}
  BY FS_AddElement, FS_CardinalityType
<1>2. Cardinality(T) \in Nat /\ Cardinality(T) <= Cardinality(S \cup {b})
  BY <1>1, CardLess
<1>3. Cardinality(S \cup {b}) \in Nat /\ Cardinality(S) \in Nat
  BY <1>1, FS_CardinalityType
<1>4. QED
  BY <1>1, <1>2, <1>3

\* The arithmetic of the bound: what is wasted and doomed (x), the clears underway (c), all
\* that has paid for it (t), and the crashes (f).  A step may waste so many more shares as it
\* pays for or as it ends clears, and e more for crashes.
LEMMA SharesPaid ==
  ASSUME NEW k \in Nat, NEW x \in Nat, NEW c \in Nat, NEW t \in Nat, NEW f \in Nat,
         NEW x2 \in Nat, NEW c2 \in Nat, NEW t2 \in Nat, NEW f2 \in Nat, NEW n \in Nat, NEW e \in Nat,
         x + k * c <= k * t + f,
         x2 <= x + k * n + e, n + c2 + t <= c + t2, e + f <= f2
  PROVE  x2 + k * c2 <= k * t2 + f2
<1> DEFINE d == (c + t2) - (n + c2 + t)
<1>1. d \in Nat /\ c + t2 = n + c2 + t + d
  OBVIOUS
<1> HIDE DEF d
<1>2. k * d \in Nat
  BY <1>1
<1>3. k * (c + t2) = k * (n + c2 + t + d)
  BY <1>1
<1>4. k * (c + t2) = k * c + k * t2
  OBVIOUS
<1>5. k * (n + c2 + t + d) = k * n + k * c2 + k * t + k * d
  BY <1>1
<1>6. /\ k * c \in Nat /\ k * t2 \in Nat /\ k * n \in Nat /\ k * c2 \in Nat /\ k * t \in Nat
  OBVIOUS
<1>7. QED
  BY <1>2, <1>3, <1>4, <1>5, <1>6

\* All sets that are counted are finite.
LEMMA WasteFinite ==
  ASSUME TypeOK, ThrottleInv, PopInv
  PROVE  /\ IsFiniteSet(Wasted) /\ Cardinality(Wasted) \in Nat
         /\ IsFiniteSet(Doomed) /\ Cardinality(Doomed) \in Nat
         /\ IsFiniteSet(Clearing) /\ Cardinality(Clearing) \in Nat
         /\ IsFiniteSet(Winning) /\ Cardinality(Winning) \in Nat
         /\ IsFiniteSet(pops) /\ Cardinality(pops) \in Nat
         /\ Winners \in Nat /\ Others \in Int /\ (Clients # {} => Others \in Nat)
<1> USE ThrottleAssumption DEF ThrottleAssumption
<1>1. IsFiniteSet(grants) /\ IsFiniteSet(pops) /\ IsFiniteSet(Clients)
  BY DEF ThrottleInv, TimesPast, PopInv, PopsInTurn
<1>2. /\ Wasted \subseteq grants /\ Doomed \subseteq Clients
      /\ Clearing \subseteq Clients /\ Winning \subseteq Clients
  BY DEF Wasted, Doomed, Clearing, Winning
<1>3. /\ IsFiniteSet(Wasted) /\ IsFiniteSet(Doomed) /\ IsFiniteSet(Clearing) /\ IsFiniteSet(Winning)
  BY <1>1, <1>2, CardLess
<1>4. Clients # {} => Others \in Nat
  <2> SUFFICES ASSUME NEW c \in Clients PROVE Others \in Nat
    OBVIOUS
  <2>1. Cardinality({}) + 1 <= Cardinality(Clients) /\ Cardinality({}) \in Nat
    BY <1>1, CardLost
  <2>2. Cardinality(Clients) \in Nat
    BY <1>1, FS_CardinalityType
  <2>3. QED
    BY <2>1, <2>2 DEF Others
<1>5. QED
  BY <1>1, <1>3, <1>4, FS_CardinalityType DEF Winners, Others

LEMMA Totals == \A a, b, c \in Nat : a + b + 2 * c \in Nat
OBVIOUS

\* What a step must show: that it pays for what it wastes.
LEMMA WastePaid ==
  ASSUME TypeOK, TypeOK', ThrottleInv, ThrottleInv', PopInv, PopInv', WasteInv, Clients # {},
         \A c \in Clients : pc'[c] = "execM" => Moderated,
         NEW n \in Nat, NEW e \in Nat,
         Cardinality(Wasted') + Cardinality(Doomed')
            <= Cardinality(Wasted) + Cardinality(Doomed) + Others * n + e,
         n + Cardinality(Clearing') + (Winners + crashes + 2 * clears)
            <= Cardinality(Clearing) + (Winners' + crashes' + 2 * clears'),
         e + crashes <= crashes',
         Cardinality(Clearing') <= clears'
  PROVE  WasteInv'
<1>1. /\ Cardinality(Wasted) \in Nat /\ Cardinality(Doomed) \in Nat
      /\ Cardinality(Clearing) \in Nat /\ Winners \in Nat /\ Others \in Nat
  BY WasteFinite
<1>2. /\ Cardinality(Wasted') \in Nat /\ Cardinality(Doomed') \in Nat
      /\ Cardinality(Clearing') \in Nat /\ Winners' \in Nat
  <2>1. IsFiniteSet(Clients) /\ IsFiniteSet(grants') /\ IsFiniteSet(pops')
    BY ThrottleAssumption DEF ThrottleAssumption, ThrottleInv, TimesPast, PopInv, PopsInTurn
  <2>2. /\ Wasted' \subseteq grants' /\ Doomed' \subseteq Clients
        /\ Clearing' \subseteq Clients /\ Winning' \subseteq Clients
    BY DEF Wasted, Doomed, Clearing, Winning
  <2>3. /\ Cardinality(Wasted') \in Nat /\ Cardinality(Doomed') \in Nat
        /\ Cardinality(Clearing') \in Nat /\ Cardinality(Winning') \in Nat
    BY <2>1, <2>2, CardLess
  <2>4. QED
    BY <2>1, <2>3, FS_CardinalityType DEF Winners
<1>3. /\ crashes \in Nat /\ clears \in Nat /\ crashes' \in Nat /\ clears' \in Nat
  BY ThrottleAssumption DEF ThrottleAssumption, TypeOK
<1> DEFINE x == Cardinality(Wasted) + Cardinality(Doomed)
           x2 == Cardinality(Wasted') + Cardinality(Doomed')
           t == Winners + crashes + 2 * clears
           t2 == Winners' + crashes' + 2 * clears'
<1>4. x \in Nat /\ x2 \in Nat /\ t \in Nat /\ t2 \in Nat
  <2>1. x \in Nat /\ x2 \in Nat
    BY <1>1, <1>2
  <2>2. t \in Nat /\ t2 \in Nat
    BY <1>1, <1>2, <1>3, Totals
  <2>3. QED
    BY <2>1, <2>2
<1>5. x + Others * Cardinality(Clearing) <= Others * t + crashes
  BY DEF WasteInv, Budget
<1>6. x2 + Others * Cardinality(Clearing') <= Others * t2 + crashes'
  <2> HIDE DEF x, x2, t, t2
  <2>1. x2 <= x + Others * n + e /\ n + Cardinality(Clearing') + t <= Cardinality(Clearing) + t2
    BY DEF x, x2, t, t2
  <2>2. QED
    BY <1>1, <1>2, <1>3, <1>4, <1>5, <2>1, SharesPaid
<1>7. QED
  BY <1>6 DEF WasteInv, Budget, Others

\* A call that returns has wasted its hit if it held one, and is counted no more.
LEMMA WasteReturn ==
  ASSUME TypeOK, NEW c \in Clients, Return(c), UNCHANGED <<grants, pops>>
  PROVE  /\ Wasted' \subseteq Wasted \cup {stamp[c]}
         /\ ~Holding(c) => Wasted' \subseteq Wasted
         /\ Doomed' \subseteq Doomed \ {c}
         /\ Clearing' \subseteq Clearing \ {c}
         /\ Winning' = Winning \ {c}
         /\ \A d \in Clients : pc'[d] = "execM" => pc[d] = "execM"
<1>1. \A d \in Clients : /\ pc'[d] = IF d = c THEN "idle" ELSE pc[d]
                         /\ stamp'[d] = IF d = c THEN 0 ELSE stamp[d]
  BY ReturnMoves
<1>2. cleanM' = cleanM \ {c}
  BY DEF Return
<1>3. \A d \in Clients : d # c => Holding(d)' = Holding(d)
  BY <1>1 DEF Holding
<1>4. Wasted' \subseteq Wasted \cup {stamp[c]} /\ (~Holding(c) => Wasted' \subseteq Wasted)
  BY <1>1, <1>3 DEF Wasted
<1>5. Doomed' \subseteq Doomed \ {c}
  BY <1>1, <1>2 DEF Doomed
<1>6. QED
  BY <1>1, <1>4, <1>5 DEF Clearing, Winning

\* A client moves on within its call, with the hit it holds, if any, in hand.
LEMMA WasteGoto ==
  ASSUME TypeOK, NEW c \in Clients, NEW s, Goto(c, s), UNCHANGED pops,
         Holding(c) => s \in {"execM", "pop"} /\ stamp'[c] = stamp[c],
         grants' = grants \/ (s \in {"execM", "pop"} /\ grants' = grants \cup {stamp'[c]}),
         \A d \in Clients : d # c => stamp'[d] = stamp[d],
         s # "clearM"
  PROVE  /\ Wasted' \subseteq Wasted
         /\ Clearing' \subseteq Clearing \ {c}
         /\ s # "pop" => Winning' = Winning \ {c}
         /\ s = "pop" => Winning' = Winning \cup {c}
         /\ \A d \in Clients : pc'[d] = "execM" => pc[d] = "execM" \/ s = "execM"
<1>1. \A d \in Clients : pc'[d] = IF d = c THEN s ELSE pc[d]
  BY GotoMoves
<1>2. \A d \in Clients : Holding(d) => Holding(d)' /\ stamp'[d] = stamp[d]
  BY <1>1 DEF Holding
<1>3. s \in {"execM", "pop"} => Holding(c)'
  BY <1>1 DEF Holding
<1>4. Wasted' \subseteq Wasted
  BY <1>2, <1>3 DEF Wasted
<1>5. QED
  BY <1>1, <1>4 DEF Clearing, Winning

\* A step that wastes nothing, dooms nobody, and forgets no winner.
LEMMA WasteQuiet ==
  ASSUME TypeOK, TypeOK', ThrottleInv, ThrottleInv', PopInv, PopInv', WasteInv, Clients # {},
         Wasted' \subseteq Wasted, Doomed' \subseteq Doomed, Clearing' \subseteq Clearing,
         UNCHANGED <<clears, crashes>>, Winners <= Winners',
         \A c \in Clients : pc'[c] = "execM" => Moderated
  PROVE  WasteInv'
<1>1. /\ Cardinality(Wasted) \in Nat /\ Cardinality(Doomed) \in Nat
      /\ Cardinality(Clearing) \in Nat /\ Winners \in Nat /\ Others \in Nat
  BY WasteFinite
<1>2. /\ Cardinality(Wasted') \in Nat /\ Cardinality(Wasted') <= Cardinality(Wasted)
      /\ Cardinality(Doomed') \in Nat /\ Cardinality(Doomed') <= Cardinality(Doomed)
      /\ Cardinality(Clearing') \in Nat /\ Cardinality(Clearing') <= Cardinality(Clearing)
  BY WasteFinite, CardLess
<1>3. crashes \in Nat /\ clears \in Nat
  BY ThrottleAssumption DEF ThrottleAssumption, TypeOK
<1>4. Winners' \in Nat
  <2>1. IsFiniteSet(Winning') /\ IsFiniteSet(pops')
    <3>1. Winning' \subseteq Clients
      BY DEF Winning
    <3>2. QED
      BY <3>1, CardLess, ThrottleAssumption DEF ThrottleAssumption, PopInv, PopsInTurn
  <2>2. QED
    BY <2>1, FS_CardinalityType DEF Winners
<1>5. Cardinality(Clearing) <= clears
  BY DEF WasteInv
<1>6. Others * 0 = 0
  BY <1>1
<1>7. /\ Cardinality(Wasted') + Cardinality(Doomed')
           <= Cardinality(Wasted) + Cardinality(Doomed) + Others * 0 + 0
      /\ 0 + Cardinality(Clearing') + (Winners + crashes + 2 * clears)
           <= Cardinality(Clearing) + (Winners' + crashes' + 2 * clears')
      /\ 0 + crashes <= crashes' /\ Cardinality(Clearing') <= clears'
  BY <1>1, <1>2, <1>3, <1>4, <1>5, <1>6
<1>8. 0 \in Nat
  OBVIOUS
<1>9. QED
  BY <1>7, <1>8, WastePaid

\* A return without a hit in hand.
LEMMA WasteReturnQuiet ==
  ASSUME TypeOK, TypeOK', ThrottleInv, ThrottleInv', PopInv, PopInv', WasteInv,
         NEW c \in Clients, Return(c), ~Holding(c), UNCHANGED <<grants, pops, clears, crashes>>
  PROVE  WasteInv'
<1>1. Winning' = Winning
  BY WasteReturn DEF Winning, Holding
<1>2. Winners' = Winners /\ Winners \in Nat
  BY <1>1, WasteFinite DEF Winners
<1>3. Winners <= Winners'
  BY <1>2
<1>4. QED
  BY <1>3, WasteReturn, WasteQuiet DEF WasteInv

\* A client moves on, without a hit or with one, and is doomed only if it was.
LEMMA WasteGotoQuiet ==
  ASSUME TypeOK, TypeOK', ThrottleInv, ThrottleInv', PopInv, PopInv', WasteInv,
         NEW c \in Clients, NEW s, Goto(c, s), UNCHANGED <<pops, clears, crashes>>,
         Holding(c) => s \in {"execM", "pop"} /\ stamp'[c] = stamp[c],
         grants' = grants \/ (s \in {"execM", "pop"} /\ grants' = grants \cup {stamp'[c]}),
         \A d \in Clients : d # c => stamp'[d] = stamp[d],
         s # "clearM", pc[c] # "pop", s = "execM" => Moderated,
         Doomed' \subseteq Doomed
  PROVE  WasteInv'
<1>1. /\ Wasted' \subseteq Wasted /\ Clearing' \subseteq Clearing
      /\ \A d \in Clients : pc'[d] = "execM" => pc[d] = "execM" \/ s = "execM"
  BY WasteGoto
<1>2. Winning \subseteq Winning'
  BY WasteGoto DEF Winning
<1>3. IsFiniteSet(Winning')
  <2>1. Winning' \subseteq Clients
    BY DEF Winning
  <2>2. QED
    BY <2>1, CardLess, ThrottleAssumption DEF ThrottleAssumption
<1>4. Cardinality(Winning) <= Cardinality(Winning') /\ Cardinality(Winning') \in Nat
  BY <1>2, <1>3, CardLess, FS_CardinalityType
<1>5. Winners <= Winners'
  BY <1>4, WasteFinite DEF Winners
<1>6. QED
  BY <1>1, <1>5, WasteQuiet DEF WasteInv

\* Nobody but the client that takes or clears moderate_key is needed to count the doomed.
LEMMA OthersBound ==
  ASSUME NEW c \in Clients, NEW T, T \subseteq Clients \ {c}
  PROVE  Cardinality(T) \in Nat /\ Cardinality(T) <= Others /\ Others \in Nat
<1>1. IsFiniteSet(Clients) /\ Cardinality(Clients) \in Nat
  BY ThrottleAssumption, FS_CardinalityType DEF ThrottleAssumption
<1>2. Cardinality(T) \in Nat /\ Cardinality(T) + 1 <= Cardinality(Clients)
  BY <1>1, CardLost
<1>3. QED
  BY <1>1, <1>2 DEF Others

\* allowed() up to the hit: a client that moves on or gives up there wastes nothing.
LEMMA WasteBeforeHit ==
  ASSUME TypeOK, TypeOK', ThrottleInv, ThrottleInv', PopInv, PopInv', WasteInv, NEW c \in Clients,
         \/ StartPop(c) \/ TrimWindow(c) \/ WatchModerate(c) \/ CheckModeration(c)
         \/ CheckElastic(c) \/ WatchWindow(c) \/ CountHits(c) \/ ExecHit(c)
  PROVE  WasteInv'
<1> USE DEF keys, locals, watches, history
<1>1. ASSUME NEW s, Goto(c, s), s \notin {"clearM", "pop", "execM"}, UNCHANGED <<grants, pops, clears, crashes>>,
             \A d \in Clients : d # c => stamp'[d] = stamp[d],
             ~Holding(c),
             Doomed' \subseteq Doomed
      PROVE  WasteInv'
  BY <1>1, WasteGotoQuiet DEF Holding
<1>2. ASSUME Return(c), ~Holding(c), UNCHANGED <<grants, pops, clears, crashes>>
      PROVE  WasteInv'
  BY <1>2, WasteReturnQuiet
<1>3. CASE StartPop(c)
  <2>1. pc[c] = "idle" /\ Goto(c, "trim") /\ UNCHANGED <<stamp, cleanM, grants, pops, clears, crashes>>
    BY <1>3 DEF StartPop
  <2>2. Doomed' \subseteq Doomed
    BY <2>1, GotoMoves DEF Doomed
  <2>3. QED
    BY <1>1, <2>1, <2>2 DEF Holding
<1>4. CASE TrimWindow(c)
  <2> DEFINE s == IF Moderated THEN "watchM" ELSE "watchW"
  <2>1. pc[c] = "trim" /\ Goto(c, s) /\ UNCHANGED <<stamp, cleanM, grants, pops, clears, crashes>>
    BY <1>4 DEF TrimWindow
  <2>2. \A d \in Clients : pc'[d] = IF d = c THEN s ELSE pc[d]
    BY <2>1, GotoMoves
  <2>3. Doomed' \subseteq Doomed
    BY <2>1, <2>2 DEF Doomed
  <2>4. s \notin {"clearM", "pop", "execM"}
    OBVIOUS
  <2>5. QED
    BY <1>1, <2>1, <2>3, <2>4 DEF Holding
<1>5. CASE WatchModerate(c)
  <2>1. /\ pc[c] = "watchM" /\ Goto(c, "getM") /\ cleanM' = cleanM \cup {c}
        /\ UNCHANGED <<stamp, grants, pops, clears, crashes>>
    BY <1>5 DEF WatchModerate
  <2>2. Doomed' \subseteq Doomed
    BY <2>1, GotoMoves DEF Doomed
  <2>3. QED
    BY <1>1, <2>1, <2>2 DEF Holding
\* The rest of the way a client is as doomed as it was.
<1>6. ASSUME NEW s, Goto(c, s), s \in {"elastic", "watchW", "count", "execW", "execM"},
             pc[c] \in {"getM", "elastic", "watchW", "count", "execW"}, UNCHANGED cleanM
      PROVE  Doomed' \subseteq Doomed
  BY <1>6, GotoMoves DEF Doomed
<1>7. CASE CheckModeration(c)
  <2>1. pc[c] = "getM" /\ ~Holding(c) /\ UNCHANGED <<grants, pops, clears, crashes>>
    BY <1>7 DEF CheckModeration, Holding
  <2>2. ASSUME NEW s \in {"watchW", "elastic"}, Goto(c, s), UNCHANGED <<clk, stamp, watches>>
        PROVE  WasteInv'
    BY <1>1, <1>6, <2>1, <2>2
  <2>3. QED
    BY <1>2, <1>7, <2>1, <2>2 DEF CheckModeration
<1>8. CASE CheckElastic(c)
  <2>1. pc[c] = "elastic" /\ ~Holding(c) /\ UNCHANGED <<grants, pops, clears, crashes>>
    BY <1>8 DEF CheckElastic, Holding
  <2>2. CASE Goto(c, "watchW") /\ UNCHANGED <<clk, stamp, watches>>
    BY <1>1, <1>6, <2>1, <2>2
  <2>3. QED
    BY <1>2, <1>8, <2>1, <2>2 DEF CheckElastic
<1>9. CASE WatchWindow(c)
  <2>1. /\ pc[c] = "watchW" /\ ~Holding(c) /\ Goto(c, "count")
        /\ UNCHANGED <<stamp, cleanM, grants, pops, clears, crashes>>
    BY <1>9 DEF WatchWindow, Holding
  <2>2. QED
    BY <1>1, <1>6, <2>1
<1>10. CASE CountHits(c)
  <2>1. pc[c] = "count" /\ ~Holding(c) /\ UNCHANGED <<grants, pops, clears, crashes>>
    BY <1>10 DEF CountHits, Holding
  <2>2. CASE Goto(c, "execW") /\ stamp' = [stamp EXCEPT ![c] = now] /\ UNCHANGED <<clk, watches>>
    <3>1. \A d \in Clients : d # c => stamp'[d] = stamp[d]
      BY <2>2 DEF TypeOK
    <3>2. QED
      BY <1>1, <1>6, <2>1, <2>2, <3>1
  <2>3. QED
    BY <1>2, <1>10, <2>1, <2>2 DEF CountHits
<1>11. CASE ExecHit(c)
  <2>1. pc[c] = "execW" /\ ~Holding(c) /\ UNCHANGED <<pops, clears, crashes>>
    BY <1>11 DEF ExecHit, Holding
  <2>2. CASE Return(c) /\ UNCHANGED grants
    BY <1>2, <2>1, <2>2
  <2>3. CASE /\ Goto(c, IF Moderated THEN "execM" ELSE "pop")
             /\ grants' = grants \cup {stamp[c]} /\ UNCHANGED <<stamp, cleanM>>
    <3> DEFINE s == IF Moderated THEN "execM" ELSE "pop"
    <3>1. Goto(c, s) /\ s \in {"execM", "pop"} /\ (s = "execM" => Moderated)
      BY <2>3
    <3>2. \A d \in Clients : pc'[d] = IF d = c THEN s ELSE pc[d]
      BY <3>1, GotoMoves
    <3>3. Doomed' \subseteq Doomed
      BY <2>1, <2>3, <3>2 DEF Doomed
    <3>4. grants' = grants \cup {stamp'[c]} /\ \A d \in Clients : d # c => stamp'[d] = stamp[d]
      BY <2>3
    <3>5. s # "clearM" /\ pc[c] # "pop"
      BY <2>1, <3>1
    <3> HIDE DEF s
    <3>6. QED
      BY <2>1, <3>1, <3>3, <3>4, <3>5, WasteGotoQuiet
  <2>4. QED
    BY <1>11, <2>2, <2>3 DEF ExecHit
<1>12. QED
  BY <1>3, <1>4, <1>5, <1>7, <1>8, <1>9, <1>10, <1>11

\* SET moderate_key: the winner takes the watch of every other client at most, and pays for
\* it; the loser's hit is wasted, and the loser doomed no more.
LEMMA WasteModerate ==
  ASSUME TypeOK, TypeOK', ThrottleInv, ThrottleInv', PopInv, PopInv', WasteInv,
         NEW c \in Clients, ExecModerate(c)
  PROVE  WasteInv'
<1> USE DEF keys, locals, watches, history
<1>0. /\ pc[c] = "execM" /\ UNCHANGED <<grants, pops, clears, crashes>>
      /\ Cardinality(Clearing) <= clears /\ clears \in Nat /\ crashes \in Nat
  BY ThrottleAssumption DEF ThrottleAssumption, ExecModerate, WasteInv, TypeOK
<1>1. /\ IsFiniteSet(Wasted) /\ Cardinality(Wasted) \in Nat
      /\ IsFiniteSet(Doomed) /\ Cardinality(Doomed) \in Nat
      /\ IsFiniteSet(Clearing) /\ Cardinality(Clearing) \in Nat
      /\ IsFiniteSet(Winning) /\ Cardinality(Winning) \in Nat
      /\ Cardinality(pops) \in Nat /\ Others \in Nat
  BY WasteFinite
<1>2. CASE Goto(c, "pop") /\ UNCHANGED stamp
  <2>1. /\ Wasted' \subseteq Wasted /\ Clearing' \subseteq Clearing
        /\ Winning' = Winning \cup {c} /\ c \notin Winning
        /\ \A d \in Clients : pc'[d] = "execM" => Moderated
    BY <1>0, <1>2, WasteGoto DEF WasteInv, Winning
  <2>2. /\ Cardinality(Wasted') \in Nat /\ Cardinality(Wasted') <= Cardinality(Wasted)
        /\ Cardinality(Clearing') \in Nat /\ Cardinality(Clearing') <= Cardinality(Clearing)
    BY <1>1, <2>1, CardLess
  <2>3. Cardinality(Winning') = Cardinality(Winning) + 1
    BY <1>1, <2>1, FS_AddElement
  <2>4. Winners' = Winners + 1 /\ Winners \in Nat
    BY <1>0, <1>1, <2>3 DEF Winners
  <2>5. Doomed' \subseteq Clients \ {c}
    BY <1>2, GotoMoves DEF Doomed
  <2>6. Cardinality(Doomed') \in Nat /\ Cardinality(Doomed') <= Others
    BY <2>5, OthersBound
  <2>7. Others * 1 = Others
    BY <1>1
  <2>8. /\ Cardinality(Wasted') + Cardinality(Doomed')
             <= Cardinality(Wasted) + Cardinality(Doomed) + Others * 1 + 0
        /\ 1 + Cardinality(Clearing') + (Winners + crashes + 2 * clears)
             <= Cardinality(Clearing) + (Winners' + crashes' + 2 * clears')
        /\ 0 + crashes <= crashes' /\ Cardinality(Clearing') <= clears'
    BY <1>0, <1>1, <2>2, <2>4, <2>6, <2>7
  <2>9. 0 \in Nat /\ 1 \in Nat
    OBVIOUS
  <2>10. QED
    BY <2>1, <2>8, <2>9, WastePaid
<1>3. CASE Return(c) /\ c \notin cleanM
  <2>1. /\ Wasted' \subseteq Wasted \cup {stamp[c]} /\ Doomed' \subseteq Doomed \ {c}
        /\ Clearing' \subseteq Clearing /\ Winning' = Winning
        /\ \A d \in Clients : pc'[d] = "execM" => Moderated
    BY <1>0, <1>3, WasteReturn DEF WasteInv, Winning
  <2>2. c \in Doomed
    BY <1>0, <1>3 DEF Doomed, WasteInv
  <2>3. /\ Cardinality(Wasted') \in Nat /\ Cardinality(Wasted') <= Cardinality(Wasted) + 1
        /\ Cardinality(Doomed') \in Nat /\ Cardinality(Doomed') + 1 <= Cardinality(Doomed)
        /\ Cardinality(Clearing') \in Nat /\ Cardinality(Clearing') <= Cardinality(Clearing)
    <3>1. Cardinality(Wasted') \in Nat /\ Cardinality(Wasted') <= Cardinality(Wasted) + 1
      BY <1>1, <2>1, CardGained
    <3>2. Cardinality(Doomed') \in Nat /\ Cardinality(Doomed') + 1 <= Cardinality(Doomed)
      BY <1>1, <2>1, <2>2, CardLost
    <3>3. Cardinality(Clearing') \in Nat /\ Cardinality(Clearing') <= Cardinality(Clearing)
      BY <1>1, <2>1, CardLess
    <3>4. QED
      BY <3>1, <3>2, <3>3
  <2>4. Winners' = Winners /\ Winners \in Nat
    BY <1>0, <1>1, <2>1 DEF Winners
  <2>5. Others * 0 = 0
    BY <1>1
  <2>6. /\ Cardinality(Wasted') + Cardinality(Doomed')
             <= Cardinality(Wasted) + Cardinality(Doomed) + Others * 0 + 0
        /\ 0 + Cardinality(Clearing') + (Winners + crashes + 2 * clears)
             <= Cardinality(Clearing) + (Winners' + crashes' + 2 * clears')
        /\ 0 + crashes <= crashes' /\ Cardinality(Clearing') <= clears'
    BY <1>0, <1>1, <2>3, <2>4, <2>5
  <2>7. 0 \in Nat
    OBVIOUS
  <2>8. QED
    BY <2>1, <2>6, <2>7, WastePaid
<1>4. QED
  BY <1>2, <1>3 DEF ExecModerate, ModerateUntouched

\* queue.pop: the client that held the hit becomes the call that used it.
LEMMA WastePop ==
  ASSUME TypeOK, TypeOK', ThrottleInv, ThrottleInv', PopInv, PopInv', WasteInv,
         NEW c \in Clients, PopItem(c)
  PROVE  WasteInv'
<1> DEFINE new == [client |-> c, stamp |-> stamp[c], at |-> now, got |-> qlen > 0]
<1>0. pc[c] = "pop" /\ pops' = pops \cup {new} /\ Return(c) /\ UNCHANGED <<grants, clears, crashes>>
  BY DEF PopItem
<1>1. \A d \in Clients : /\ pc'[d] = IF d = c THEN "idle" ELSE pc[d]
                         /\ stamp'[d] = IF d = c THEN 0 ELSE stamp[d]
  BY <1>0, ReturnMoves
<1>2. cleanM' = cleanM \ {c}
  BY <1>0 DEF Return
<1>3. \A d \in Clients : d # c => Holding(d)' = Holding(d)
  BY <1>1 DEF Holding
<1>4. Wasted' \subseteq Wasted
  <2>1. new.stamp = stamp[c] /\ new \in pops'
    BY <1>0
  <2>2. pops \subseteq pops'
    BY <1>0
  <2> HIDE DEF new
  <2>3. QED
    BY <1>0, <1>1, <1>3, <2>1, <2>2 DEF Wasted
<1>5. Doomed' \subseteq Doomed /\ Clearing' \subseteq Clearing
  BY <1>1, <1>2 DEF Doomed, Clearing
<1>6. Winning' = Winning \ {c} /\ c \in Winning
  BY <1>0, <1>1 DEF Winning
<1>7. new \notin pops
  <2>1. \A p \in pops : p.stamp # stamp[c]
    BY <1>0 DEF PopInv, StampsServeOnce, Holding
  <2>2. QED
    BY <2>1
<1>8. /\ IsFiniteSet(Winning) /\ Cardinality(Winning) \in Nat
      /\ IsFiniteSet(pops) /\ Cardinality(pops) \in Nat /\ Winners \in Nat
  BY WasteFinite
<1>9. Cardinality(Winning') = Cardinality(Winning) - 1
  BY <1>6, <1>8, FS_RemoveElement
<1> HIDE DEF new
<1>10. Cardinality(pops') = Cardinality(pops) + 1
  BY <1>0, <1>7, <1>8, FS_AddElement
<1>11. Winners <= Winners'
  BY <1>8, <1>9, <1>10 DEF Winners
<1>12. \A d \in Clients : pc'[d] = "execM" => Moderated
  BY <1>1 DEF WasteInv
<1>13. QED
  BY <1>0, <1>4, <1>5, <1>11, <1>12, WasteQuiet

\* clear() forgets the hits and the winners, and is to spoil moderate_key next.
LEMMA WasteClearWindow ==
  ASSUME TypeOK, TypeOK', ThrottleInv, ThrottleInv', PopInv, PopInv', WasteInv,
         NEW c \in Clients, ClearWindow(c)
  PROVE  WasteInv'
<1>0. /\ pc[c] = "idle" /\ Goto(c, "clearM") /\ grants' = {} /\ pops' = {}
      /\ clears' = clears + 1 /\ UNCHANGED <<cleanM, crashes>>
  BY DEF ClearWindow
<1>1. \A d \in Clients : pc'[d] = IF d = c THEN "clearM" ELSE pc[d]
  BY <1>0, GotoMoves
<1>2. /\ IsFiniteSet(Clearing) /\ Cardinality(Clearing) \in Nat
      /\ Cardinality(Clearing) <= clears /\ clears \in Nat /\ crashes \in Nat /\ Others \in Nat
  BY WasteFinite, ThrottleAssumption DEF ThrottleAssumption, WasteInv, TypeOK
<1>3. Wasted' = {} /\ Cardinality(Wasted') = 0
  BY <1>0, FS_EmptySet DEF Wasted
<1>4. Clearing' \subseteq Clearing \cup {c} /\ Doomed' \subseteq Clients \ {c}
  BY <1>1 DEF Clearing, Doomed
<1>5. Cardinality(Clearing') \in Nat /\ Cardinality(Clearing') <= clears'
  <2>1. Cardinality(Clearing') \in Nat /\ Cardinality(Clearing') <= Cardinality(Clearing) + 1
    BY <1>2, <1>4, CardGained
  <2>2. QED
    BY <1>0, <1>2, <2>1
<1>6. Cardinality(Doomed') \in Nat /\ Cardinality(Doomed') <= Others
  BY <1>4, OthersBound
<1>7. Winners' \in Nat
  <2>1. Winning' \subseteq Clients /\ IsFiniteSet(Clients)
    BY ThrottleAssumption DEF ThrottleAssumption, Winning
  <2>2. Cardinality(Winning') \in Nat /\ Cardinality(pops') = 0
    BY <1>0, <2>1, CardLess, FS_EmptySet
  <2>3. QED
    BY <2>2 DEF Winners
<1>8. \A k, d, m, n, w, f \in Nat :
         d <= k /\ m <= n + 1 => d + k * m <= k * (w + f + 2 * (n + 1)) + f
  <2> SUFFICES ASSUME NEW k \in Nat, NEW d \in Nat, NEW m \in Nat, NEW n \in Nat,
                      NEW w \in Nat, NEW f \in Nat, d <= k, m <= n + 1
               PROVE  d + k * m <= k * (w + f + 2 * (n + 1)) + f
    OBVIOUS
  <2> DEFINE r == (w + f + 2 * (n + 1)) - (1 + m)
  <2>1. r \in Nat /\ w + f + 2 * (n + 1) = 1 + m + r
    OBVIOUS
  <2> HIDE DEF r
  <2>2. k * (1 + m + r) = k + k * m + k * r /\ k * r \in Nat /\ k * m \in Nat
    BY <2>1
  <2>3. QED
    BY <2>1, <2>2
<1>9. Cardinality(Wasted') + Cardinality(Doomed') + Others * Cardinality(Clearing')
         <= Others * (Winners' + crashes' + 2 * clears') + crashes'
  <2> DEFINE d == Cardinality(Doomed')
             m == Cardinality(Clearing')
             w == Winners'
  <2>1. d \in Nat /\ m \in Nat /\ w \in Nat /\ d <= Others /\ m <= clears + 1
    BY <1>0, <1>5, <1>6, <1>7
  <2> HIDE DEF d, m, w
  <2>2. d + Others * m <= Others * (w + crashes + 2 * (clears + 1)) + crashes
    BY <1>2, <1>8, <2>1
  <2>3. Cardinality(Wasted') + d = d
    BY <1>3, <2>1
  <2>4. QED
    BY <1>0, <2>2, <2>3 DEF d, m, w
<1>10. QED
  BY <1>1, <1>5, <1>9 DEF WasteInv, Budget, Others

\* DEL moderate_key: the clear that was underway pays.
LEMMA WasteClearModerate ==
  ASSUME TypeOK, TypeOK', ThrottleInv, ThrottleInv', PopInv, PopInv', WasteInv,
         NEW c \in Clients, ClearModerate(c)
  PROVE  WasteInv'
<1> USE DEF watches, history
<1>0. pc[c] = "clearM" /\ ~Holding(c) /\ UNCHANGED <<grants, pops, clears, crashes>>
  BY DEF ClearModerate, Holding
<1>1. CASE Return(c)
  BY <1>0, <1>1, WasteReturnQuiet
<1>2. CASE Goto(c, "clearQ") /\ UNCHANGED stamp
  <2>1. /\ Wasted' \subseteq Wasted /\ Clearing' \subseteq Clearing \ {c} /\ c \in Clearing
        /\ Winning' = Winning \ {c} /\ c \notin Winning
        /\ \A d \in Clients : pc'[d] = "execM" => Moderated
    BY <1>0, <1>2, WasteGoto DEF WasteInv, Winning, Clearing
  <2>2. /\ IsFiniteSet(Wasted) /\ Cardinality(Wasted) \in Nat
        /\ Cardinality(Doomed) \in Nat
        /\ IsFiniteSet(Clearing) /\ Cardinality(Clearing) \in Nat
        /\ Winners \in Nat /\ Others \in Nat
        /\ clears \in Nat /\ crashes \in Nat /\ Cardinality(Clearing) <= clears
    BY WasteFinite, ThrottleAssumption DEF ThrottleAssumption, TypeOK, WasteInv
  <2>3. /\ Cardinality(Wasted') \in Nat /\ Cardinality(Wasted') <= Cardinality(Wasted)
        /\ Cardinality(Clearing') \in Nat /\ Cardinality(Clearing') + 1 <= Cardinality(Clearing)
    BY <2>1, <2>2, CardLess, CardLost
  <2>4. Winners' = Winners
    BY <1>0, <2>1 DEF Winners
  <2>5. Doomed' \subseteq Clients \ {c}
    BY <1>2, GotoMoves DEF Doomed
  <2>6. Cardinality(Doomed') \in Nat /\ Cardinality(Doomed') <= Others
    BY <2>5, OthersBound
  <2>7. Others * 1 = Others
    BY <2>2
  <2>8. /\ Cardinality(Wasted') + Cardinality(Doomed')
             <= Cardinality(Wasted) + Cardinality(Doomed) + Others * 1 + 0
        /\ 1 + Cardinality(Clearing') + (Winners + crashes + 2 * clears)
             <= Cardinality(Clearing) + (Winners' + crashes' + 2 * clears')
        /\ 0 + crashes <= crashes' /\ Cardinality(Clearing') <= clears'
    BY <1>0, <2>2, <2>3, <2>4, <2>6, <2>7
  <2>9. 0 \in Nat /\ 1 \in Nat
    OBVIOUS
  <2>10. QED
    BY <2>1, <2>8, <2>9, WastePaid
<1>3. QED
  BY <1>1, <1>2 DEF ClearModerate

\* A crash wastes the hit in hand, and a winner may be lost with it.
LEMMA WasteCrash ==
  ASSUME TypeOK, TypeOK', ThrottleInv, ThrottleInv', PopInv, PopInv', WasteInv,
         NEW c \in Clients, Crash(c)
  PROVE  WasteInv'
<1>0. Return(c) /\ UNCHANGED <<grants, pops, clears>> /\ crashes' = crashes + 1
  BY DEF Crash
<1>1. /\ Wasted' \subseteq Wasted \cup {stamp[c]} /\ Doomed' \subseteq Doomed
      /\ Clearing' \subseteq Clearing /\ Winning' = Winning \ {c}
      /\ \A d \in Clients : pc'[d] = "execM" => Moderated
  BY <1>0, WasteReturn DEF WasteInv
<1>2. /\ IsFiniteSet(Wasted) /\ Cardinality(Wasted) \in Nat
      /\ IsFiniteSet(Doomed) /\ Cardinality(Doomed) \in Nat
      /\ IsFiniteSet(Clearing) /\ Cardinality(Clearing) \in Nat
      /\ IsFiniteSet(Winning) /\ Cardinality(Winning) \in Nat
      /\ Cardinality(pops) \in Nat /\ Others \in Nat
      /\ clears \in Nat /\ crashes \in Nat /\ Cardinality(Clearing) <= clears
  BY WasteFinite, ThrottleAssumption DEF ThrottleAssumption, TypeOK, WasteInv
<1>3. /\ Cardinality(Wasted') \in Nat /\ Cardinality(Wasted') <= Cardinality(Wasted) + 1
      /\ Cardinality(Doomed') \in Nat /\ Cardinality(Doomed') <= Cardinality(Doomed)
      /\ Cardinality(Clearing') \in Nat /\ Cardinality(Clearing') <= Cardinality(Clearing)
  BY <1>1, <1>2, CardLess, CardGained
<1>4. Cardinality(Winning') \in Nat /\ Cardinality(Winning) <= Cardinality(Winning') + 1
  <2>1. IsFiniteSet(Winning') /\ Winning \subseteq Winning' \cup {c}
    BY <1>1, <1>2, CardLess
  <2>2. QED
    BY <2>1, CardGained, FS_CardinalityType
<1>5. Winners' \in Nat /\ Winners <= Winners' + 1 /\ Winners \in Nat
  BY <1>0, <1>2, <1>4 DEF Winners
<1>6. Others * 0 = 0
  BY <1>2
<1>7. /\ Cardinality(Wasted') + Cardinality(Doomed')
           <= Cardinality(Wasted) + Cardinality(Doomed) + Others * 0 + 1
      /\ 0 + Cardinality(Clearing') + (Winners + crashes + 2 * clears)
           <= Cardinality(Clearing) + (Winners' + crashes' + 2 * clears')
      /\ 1 + crashes <= crashes' /\ Cardinality(Clearing') <= clears'
  <2>1. /\ Cardinality(Wasted') + Cardinality(Doomed')
             <= Cardinality(Wasted) + Cardinality(Doomed) + Others * 0 + 1
        /\ 1 + crashes <= crashes' /\ Cardinality(Clearing') <= clears'
    BY <1>0, <1>2, <1>3, <1>6
  <2>2. crashes' = crashes + 1 /\ clears' = clears
    BY <1>0
  <2>3. 0 + Cardinality(Clearing') + (Winners + crashes + 2 * clears)
           <= Cardinality(Clearing) + (Winners' + crashes' + 2 * clears')
    <3> DEFINE m == Cardinality(Clearing')
               w == Winners'
    <3>1. m \in Nat /\ m <= Cardinality(Clearing) /\ w \in Nat /\ Winners <= w + 1 /\ Winners \in Nat
      BY <1>3, <1>5
    <3> HIDE DEF m, w
    <3>2. 0 + m + (Winners + crashes + 2 * clears)
             <= Cardinality(Clearing) + (w + (crashes + 1) + 2 * clears)
      BY <1>2, <3>1
    <3>3. QED
      BY <2>2, <3>2 DEF m, w
  <2>4. QED
    BY <2>1, <2>3
<1>8. 0 \in Nat /\ 1 \in Nat
  OBVIOUS
<1>9. QED
  BY <1>1, <1>7, <1>8, WastePaid

LEMMA WasteStep ==
  TypeOK /\ TypeOK' /\ ThrottleInv /\ ThrottleInv' /\ PopInv /\ PopInv' /\ WasteInv /\ [Next]_vars
  => WasteInv'
<1> SUFFICES ASSUME TypeOK, TypeOK', ThrottleInv, ThrottleInv', PopInv, PopInv', WasteInv, [Next]_vars
             PROVE  WasteInv'
  OBVIOUS
<1> USE DEF keys, locals, watches, history
<1>1. ASSUME NEW c \in Clients, ClearQueue(c) PROVE WasteInv'
  <2>1. Return(c) /\ ~Holding(c) /\ UNCHANGED <<grants, pops, clears, crashes>>
    BY <1>1 DEF ClearQueue, Holding
  <2>2. QED
    BY <2>1, WasteReturnQuiet
<1>2. CASE Push \/ WindowKeyExpires \/ ModerateKeyExpires \/ Tick \/ UNCHANGED vars
  <2>1. UNCHANGED <<pc, stamp, cleanM, grants, pops, clears, crashes>>
    BY <1>2 DEF Push, WindowKeyExpires, ModerateKeyExpires, Tick, vars
  <2>2. UNCHANGED <<Wasted, Doomed, Clearing, Winning>>
    BY <2>1 DEF Wasted, Doomed, Clearing, Winning, Holding
  <2>3. QED
    BY <2>1, <2>2 DEF WasteInv, Budget, Winners, Others
<1>3. ASSUME NEW c \in Clients, ClientStep(c) PROVE WasteInv'
  BY <1>3, WasteBeforeHit, WasteModerate, WastePop DEF ClientStep
<1>4. ASSUME NEW c \in Clients, ClearStep(c) PROVE WasteInv'
  BY <1>1, <1>4, WasteClearWindow, WasteClearModerate DEF ClearStep
<1>5. QED
  BY <1>2, <1>3, <1>4, WasteCrash DEF Next

\* allowed() enters its hit before it wins moderate_key: for every number of clients, limit
\* and window, however they interleave, crash and clear, what that wastes is bounded by what
\* is popped.
THEOREM WasteIsBounded == Spec => []WasteBound
<1>1. Init => PopInv
  BY FS_EmptySet DEF Init, PopInv, StampsServeOnce, PopsInTurn, Holding
<1>2. ASSUME Init PROVE WasteInv
  <2>1. Wasted = {} /\ Doomed = {} /\ Clearing = {} /\ Winning = {} /\ pops = {}
    BY <1>2 DEF Init, Wasted, Doomed, Clearing, Winning
  <2>2. crashes = 0 /\ clears = 0 /\ \A c \in Clients : pc[c] # "execM"
    BY <1>2 DEF Init
  <2>3. Cardinality({}) = 0
    BY FS_EmptySet
  <2>4. Others \in Int
    BY ThrottleAssumption, FS_CardinalityType DEF ThrottleAssumption, Others
  <2>5. Winners = 0
    BY <2>1, <2>3 DEF Winners
  <2>6. Budget = 0 /\ Others * 0 = 0
    BY <2>2, <2>4, <2>5 DEF Budget
  <2>7. QED
    BY <2>1, <2>2, <2>3, <2>6 DEF WasteInv
<1>3. ASSUME TypeOK, ThrottleInv, PopInv, WasteInv PROVE WasteBound
  <2>1. /\ Cardinality(Wasted) \in Nat /\ Cardinality(Doomed) \in Nat
        /\ Cardinality(Clearing) \in Nat /\ Winners \in Nat
        /\ Others \in Int /\ (Clients # {} => Others \in Nat)
        /\ crashes \in Nat /\ clears \in Nat
    BY <1>3, WasteFinite, ThrottleAssumption DEF ThrottleAssumption, TypeOK
  <2>2. Others * Cardinality(Clearing) \in Nat
    <3>1. CASE Clients # {}
      BY <2>1, <3>1
    <3>2. CASE Clients = {}
      <4>1. Clearing = {} /\ Cardinality(Clearing) = 0
        BY <3>2, FS_EmptySet DEF Clearing
      <4>2. QED
        BY <2>1, <4>1
    <3>3. QED
      BY <3>1, <3>2
  <2>3. Budget \in Int
    <3>1. Winners + crashes + 2 * clears \in Nat
      BY <2>1, Totals
    <3>2. QED
      BY <2>1, <3>1 DEF Budget
  <2>4. Cardinality(Wasted) <= Budget
    BY <1>3, <2>1, <2>2, <2>3 DEF WasteInv
  <2>5. QED
    BY <2>4 DEF WasteBound, Budget, Others, Winners, Winning
<1>4. QED
  BY <1>1, <1>2, <1>3, WasteStep, PopsStep, TypeCorrect, WindowIsBounded, PTL DEF Spec
=============================================================================
