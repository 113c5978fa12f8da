------------------------- MODULE RedisMonitor_proofs -------------------------
(***************************************************************************)
(* Proofs about RedisMonitor, for any number of monitors, keys, requests,  *)
(* exceptions, crashes, stalls and repeated keys.                          *)
(***************************************************************************)
EXTENDS RedisMonitor, FiniteSetTheorems, TLAPS

\* Type correctness: in particular the failure count never passes its maximum.
THEOREM MonitorTypeCorrect == Spec => []MonitorTypeOK
<1> USE MonitorAssumption DEF MonitorAssumption
<1>1. Init => MonitorTypeOK
  BY DEF Init, MonitorTypeOK, Requests, Steps
<1>2. MonitorTypeOK /\ [Next]_vars => MonitorTypeOK'
  <2> SUFFICES ASSUME MonitorTypeOK, [Next]_vars PROVE MonitorTypeOK'
    OBVIOUS
  <2>1. ASSUME NEW k \in Keys, Submit(k) PROVE MonitorTypeOK'
    BY <2>1 DEF Submit, MonitorTypeOK, locals, history
  <2>2. ASSUME NEW k \in Keys, ComeDue(k) PROVE MonitorTypeOK'
    <3>1. store[k] \in Requests
      BY <2>2 DEF ComeDue, MonitorTypeOK, Requests
    <3>2. QED
      BY <2>2, <3>1 DEF ComeDue, MonitorTypeOK, redis, locals, history
  <2>3. ASSUME NEW m \in Monitors, StartScan(m) PROVE MonitorTypeOK'
    BY <2>3 DEF StartScan, MonitorTypeOK, redis, history, Matching
  <2>4. ASSUME NEW m \in Monitors, Acquire(m) PROVE MonitorTypeOK'
    BY <2>4 DEF Acquire, MonitorTypeOK, Goto, history, Steps
  <2>5. ASSUME NEW m \in Monitors, GetValue(m) PROVE MonitorTypeOK'
    BY <2>5 DEF GetValue, Refused, MonitorTypeOK, Goto, redis, Steps, Noted
  <2>6. ASSUME NEW m \in Monitors, Handle(m) PROVE MonitorTypeOK'
    <3>1. val[m] # 0 => val[m] \in Requests
      BY DEF MonitorTypeOK, Requests
    <3>2. acted' \in [Requests -> Nat] /\ ghosts' \in [Keys -> Nat]
      BY <2>6, <3>1 DEF Handle, MonitorTypeOK, Noted
    <3>3. pc' \in [Monitors -> Steps] /\ pc'[m] \in {"delete", "withdraw"}
      BY <2>6 DEF Handle, MonitorTypeOK, Goto, Steps
    <3>4. QED
      BY <2>6, <3>2, <3>3 DEF Handle, MonitorTypeOK, Goto, redis
  <2>7. ASSUME NEW m \in Monitors, Withdraw(m) PROVE MonitorTypeOK'
    BY <2>7 DEF Withdraw, MonitorTypeOK, Goto, Steps, Noted, Delete
  <2>8. ASSUME NEW m \in Monitors, Raise(m) PROVE MonitorTypeOK'
    <3>1. missed' \in [Keys -> Nat]
      BY <2>8 DEF Raise, MonitorTypeOK, Noted
    <3>2. faults' \in Nat /\ late' \in Nat
      BY <2>8 DEF Raise, MonitorTypeOK, Counted
    <3>3. pc' \in [Monitors -> Steps] /\ pc'[m] = "failed"
      BY <2>8 DEF Raise, MonitorTypeOK, Goto, Steps
    <3>4. QED
      BY <2>8, <3>1, <3>2, <3>3 DEF Raise, MonitorTypeOK, Goto, redis
  <2>9. ASSUME NEW m \in Monitors, DeleteKey(m) PROVE MonitorTypeOK'
    BY <2>9 DEF DeleteKey, MonitorTypeOK, Goto, Steps, Noted, Delete
  <2>10. ASSUME NEW m \in Monitors, CleanFailKey(m) PROVE MonitorTypeOK'
    BY <2>10 DEF CleanFailKey, MonitorTypeOK, Goto, Steps
  <2>11. ASSUME NEW m \in Monitors, ReadFailures(m) PROVE MonitorTypeOK'
    BY <2>11 DEF ReadFailures, MonitorTypeOK, Goto, redis, history, Steps, MayRetry
  <2>12. ASSUME NEW m \in Monitors, CountFailure(m) PROVE MonitorTypeOK'
    BY <2>12 DEF CountFailure, MonitorTypeOK, Goto, history, Steps, Increased
  <2>13. ASSUME NEW m \in Monitors, ForgiveFailures(m) PROVE MonitorTypeOK'
    BY <2>13 DEF ForgiveFailures, MonitorTypeOK, Goto, history, Steps
  <2>14. ASSUME NEW m \in Monitors, DropKey(m) PROVE MonitorTypeOK'
    BY <2>14 DEF DropKey, MonitorTypeOK, Goto, Steps, Noted, Delete
  <2>15. ASSUME NEW m \in Monitors, Release(m) PROVE MonitorTypeOK'
    BY <2>15 DEF Release, Forget, MonitorTypeOK, Goto, history, Steps
  <2>16. ASSUME NEW m \in Monitors, Crash(m) PROVE MonitorTypeOK'
    BY <2>16 DEF Crash, Forget, MonitorTypeOK, Goto, Steps
  <2>17. ASSUME NEW k \in Keys, VacantLockExpires(k) PROVE MonitorTypeOK'
    BY <2>17 DEF VacantLockExpires, MonitorTypeOK, locals, history
  <2>18. ASSUME NEW k \in Keys, LoseLock(k) PROVE MonitorTypeOK'
    BY <2>18 DEF LoseLock, MonitorTypeOK, locals
  <2>19. CASE UNCHANGED vars
    BY <2>19 DEF vars, redis, locals, history, MonitorTypeOK
  <2>20. QED
    BY <2>1, <2>2, <2>3, <2>4, <2>5, <2>6, <2>7, <2>8, <2>9, <2>10, <2>11, <2>12,
       <2>13, <2>14, <2>15, <2>16, <2>17, <2>18, <2>19 DEF Next, MonitorStep
<1>3. QED
  BY <1>1, <1>2, PTL DEF Spec

----------------------------------------------------------------------------
\* The monitor's lock: without stalls a monitor that works on a key holds its lock.
THEOREM WorkersAreInCharge == Spec => []InCharge
<1> USE MonitorAssumption DEF MonitorAssumption
<1>1. Init => InCharge
  BY DEF Init, InCharge, Working
<1>2. MonitorTypeOK /\ InCharge /\ [Next]_vars => InCharge'
  <2> SUFFICES ASSUME MonitorTypeOK, InCharge, [Next]_vars PROVE InCharge'
    OBVIOUS
  <2> USE DEF InCharge, Working, MonitorTypeOK
  <2>1. ASSUME NEW k \in Keys, Submit(k) \/ ComeDue(k) PROVE InCharge'
    BY <2>1 DEF Submit, ComeDue, redis, locals, history
  <2>2. ASSUME NEW m \in Monitors, StartScan(m) PROVE InCharge'
    BY <2>2 DEF StartScan, redis, history
  <2>3. ASSUME NEW m \in Monitors, Acquire(m) PROVE InCharge'
    BY <2>3 DEF Acquire, Free, Goto, history
  <2>4. ASSUME NEW m \in Monitors, GetValue(m) \/ Handle(m) \/ ReadFailures(m) PROVE InCharge'
    BY <2>4 DEF GetValue, Refused, Handle, ReadFailures, Goto, redis, history
  <2>5. ASSUME NEW m \in Monitors, Raise(m) \/ Withdraw(m) \/ DeleteKey(m) PROVE InCharge'
    BY <2>5 DEF Raise, Withdraw, DeleteKey, Goto, redis
  <2>6. ASSUME NEW m \in Monitors, CleanFailKey(m) \/ DropKey(m) PROVE InCharge'
    BY <2>6 DEF CleanFailKey, DropKey, Goto
  <2>7. ASSUME NEW m \in Monitors, CountFailure(m) \/ ForgiveFailures(m) PROVE InCharge'
    BY <2>7 DEF CountFailure, ForgiveFailures, Goto, history
  <2>8. ASSUME NEW m \in Monitors, Release(m) PROVE InCharge'
    BY <2>8 DEF Release, Forget, Held, Goto, history
  <2>9. ASSUME NEW m \in Monitors, Crash(m) PROVE InCharge'
    BY <2>9 DEF Crash, Forget, Goto
  <2>10. ASSUME NEW k \in Keys, VacantLockExpires(k) PROVE InCharge'
    BY <2>10 DEF VacantLockExpires, locals, history
  <2>11. ASSUME NEW k \in Keys, LoseLock(k) PROVE InCharge'
    BY <2>11 DEF LoseLock
  <2>12. CASE UNCHANGED vars
    BY <2>12 DEF vars, redis, locals, history
  <2>13. QED
    BY <2>1, <2>2, <2>3, <2>4, <2>5, <2>6, <2>7, <2>8, <2>9, <2>10, <2>11, <2>12
       DEF Next, MonitorStep
<1>3. QED
  BY <1>1, <1>2, MonitorTypeCorrect, PTL DEF Spec

----------------------------------------------------------------------------
(***************************************************************************)
(* ActedOnce.  A request's tokens are counted: a step that acts spends     *)
(* one, and only a crash, a late exception or a stall makes a new one.     *)
(***************************************************************************)
\* What a set may become when its members are dropped, one is exchanged for another,
\* or one is added.
LEMMA FewerTokens ==
    ASSUME NEW S, NEW T, IsFiniteSet(S), T \subseteq S
    PROVE  Cardinality(T) \in Nat /\ Cardinality(T) <= Cardinality(S)
BY FS_Subset, FS_CardinalityType

LEMMA TokenSpent ==
    ASSUME NEW S, NEW T, NEW a \in S, IsFiniteSet(S), T \subseteq S \ {a}
    PROVE  Cardinality(T) \in Nat /\ Cardinality(T) + 1 <= Cardinality(S)
<1>1. IsFiniteSet(S \ {a}) /\ Cardinality(S \ {a}) = Cardinality(S) - 1
  BY FS_RemoveElement
<1>2. Cardinality(S) \in Nat /\ Cardinality(S \ {a}) \in Nat
  BY <1>1, FS_CardinalityType
<1>3. Cardinality(T) \in Nat /\ Cardinality(T) <= Cardinality(S \ {a})
  BY <1>1, FewerTokens
<1>4. QED
  BY <1>1, <1>2, <1>3

LEMMA TokenAdded ==
    ASSUME NEW S, NEW T, NEW b, IsFiniteSet(S), T \subseteq S \cup {b}
    PROVE  Cardinality(T) \in Nat /\ Cardinality(T) <= Cardinality(S) + 1
<1>1. /\ IsFiniteSet(S \cup {b})
      /\ Cardinality(S \cup {b}) = Cardinality(S) \/ Cardinality(S \cup {b}) = Cardinality(S) + 1
  BY FS_AddElement
<1>2. Cardinality(S) \in Nat
  BY FS_CardinalityType
<1>3. Cardinality(T) \in Nat /\ Cardinality(T) <= Cardinality(S \cup {b})
  BY <1>1, FewerTokens
<1>4. QED
  BY <1>1, <1>2, <1>3

LEMMA TokensUnited ==
    ASSUME NEW S, NEW A, NEW T, IsFiniteSet(S), IsFiniteSet(A), T \subseteq S \cup A
    PROVE  Cardinality(T) \in Nat /\ Cardinality(T) <= Cardinality(S) + Cardinality(A)
<1>1. /\ IsFiniteSet(S \cup A)
      /\ Cardinality(S \cup A) = Cardinality(S) + Cardinality(A) - Cardinality(S \cap A)
  BY FS_Union
<1>2. /\ Cardinality(S) \in Nat /\ Cardinality(A) \in Nat /\ Cardinality(S \cup A) \in Nat
      /\ Cardinality(S \cap A) \in Nat
  BY <1>1, FS_Intersection, FS_CardinalityType
<1>3. Cardinality(T) \in Nat /\ Cardinality(T) <= Cardinality(S \cup A)
  BY <1>1, FewerTokens
<1>4. QED
  BY <1>1, <1>2, <1>3

LEMMA TokenExchanged ==
    ASSUME NEW S, NEW T, NEW a \in S, NEW b, IsFiniteSet(S), T \subseteq (S \ {a}) \cup {b}
    PROVE  Cardinality(T) \in Nat /\ Cardinality(T) <= Cardinality(S)
<1>1. IsFiniteSet(S \ {a}) /\ Cardinality(S \ {a}) + 1 <= Cardinality(S)
  BY TokenSpent, FS_RemoveElement
<1>2. Cardinality(S) \in Nat /\ Cardinality(S \ {a}) \in Nat
  BY <1>1, FS_CardinalityType
<1>3. Cardinality(T) \in Nat /\ Cardinality(T) <= Cardinality(S \ {a}) + 1
  BY <1>1, TokenAdded
<1>4. QED
  BY <1>1, <1>2, <1>3

\* The sets counted are finite.
LEMMA TokensFinite ==
    /\ IsFiniteSet(Loose)
    /\ \A r : IsFiniteSet(Tokens(r))
    /\ \A r : Tokens(r) \subseteq Monitors \cup {Nobody}
<1> USE MonitorAssumption DEF MonitorAssumption
<1>1. IsFiniteSet(Monitors \cup {Nobody})
  BY FS_AddElement
<1>2. Loose \subseteq Monitors /\ \A r : Tokens(r) \subseteq Monitors \cup {Nobody}
  BY DEF Loose, Tokens
<1>3. QED
  BY <1>1, <1>2, FS_Subset

\* A request stays at the one key it was stored at.
LEMMA OneKeyStep ==
    ASSUME MonitorTypeOK, OneKeyEach, [Next]_vars
    PROVE  OneKeyEach'
<1> USE MonitorAssumption DEF MonitorAssumption, OneKeyEach
<1>1. ASSUME NEW k \in Keys, Submit(k) PROVE OneKeyEach'
  BY <1>1 DEF Submit, locals, MonitorTypeOK
<1>2. ASSUME NEW k \in Keys, ComeDue(k) \/ VacantLockExpires(k) \/ LoseLock(k)
      PROVE  OneKeyEach'
  BY <1>2 DEF ComeDue, VacantLockExpires, LoseLock, redis, locals
<1>3. ASSUME NEW m \in Monitors, StartScan(m) \/ ReadFailures(m) \/ Raise(m)
      PROVE  OneKeyEach'
  BY <1>3 DEF StartScan, ReadFailures, Raise, redis, Goto, MonitorTypeOK
<1>4. ASSUME NEW m \in Monitors, Acquire(m) PROVE OneKeyEach'
  BY <1>4 DEF Acquire, Goto, MonitorTypeOK
<1>5. ASSUME NEW m \in Monitors, GetValue(m) PROVE OneKeyEach'
  <2>1. key[m] \in Keys
    BY <1>5 DEF GetValue, Refused, MonitorTypeOK
  <2>2. QED
    BY <1>5, <2>1 DEF GetValue, Refused, redis, Goto, MonitorTypeOK
<1>6. ASSUME NEW m \in Monitors, Handle(m) PROVE OneKeyEach'
  BY <1>6 DEF Handle, redis, Goto, MonitorTypeOK
<1>7. ASSUME NEW m \in Monitors,
             CleanFailKey(m) \/ CountFailure(m) \/ ForgiveFailures(m)
      PROVE  OneKeyEach'
  BY <1>7 DEF CleanFailKey, CountFailure, ForgiveFailures, Goto, MonitorTypeOK
<1>8. ASSUME NEW m \in Monitors, Withdraw(m) \/ DeleteKey(m) \/ DropKey(m)
      PROVE  OneKeyEach'
  BY <1>8 DEF Withdraw, DeleteKey, DropKey, Delete, Goto, MonitorTypeOK
<1>9. ASSUME NEW m \in Monitors, Release(m) \/ Crash(m) PROVE OneKeyEach'
  BY <1>9 DEF Release, Crash, Forget, Goto, MonitorTypeOK
<1>10. CASE UNCHANGED vars
  BY <1>10 DEF vars, redis, locals
<1>11. QED
  BY <1>1, <1>2, <1>3, <1>4, <1>5, <1>6, <1>7, <1>8, <1>9, <1>10 DEF Next, MonitorStep

\* Most steps make no token.
LEMMA QuietStep ==
    ASSUME MonitorTypeOK, OneKeyEach,
           \/ \E k \in Keys : ComeDue(k) \/ VacantLockExpires(k)
           \/ \E m \in Monitors :
                 \/ StartScan(m) \/ Acquire(m) \/ Withdraw(m) \/ DeleteKey(m)
                 \/ CleanFailKey(m) \/ ReadFailures(m) \/ CountFailure(m)
                 \/ ForgiveFailures(m) \/ DropKey(m) \/ Release(m)
           \/ UNCHANGED vars
    PROVE  Loose' \subseteq Loose /\ \A r \in Requests : Tokens(r)' \subseteq Tokens(r)
<1> USE MonitorAssumption DEF MonitorAssumption
<1> DEFINE Quiet == Loose' \subseteq Loose
                    /\ \A r \in Requests : Tokens(r)' \subseteq Tokens(r)
<1>1. ASSUME NEW k \in Keys, ComeDue(k) PROVE Quiet
  BY <1>1 DEF ComeDue, redis, locals, Loose, Tokens, TakenCare
<1>2. ASSUME NEW k \in Keys, VacantLockExpires(k) PROVE Quiet
  <2>1. Loose' = Loose /\ \A r : TakenCare(r)' <=> TakenCare(r)
    BY <1>2 DEF VacantLockExpires, locals, Loose, TakenCare, MonitorTypeOK
  <2>2. QED
    BY <1>2, <2>1 DEF VacantLockExpires, locals, Tokens
<1>3. ASSUME NEW m \in Monitors, StartScan(m) PROVE Quiet
  BY <1>3 DEF StartScan, redis, Loose, Tokens, TakenCare
<1>4. ASSUME NEW m \in Monitors, Acquire(m) PROVE Quiet
  <2>1. Loose' \subseteq Loose
    BY <1>4 DEF Acquire, Goto, Free, Loose, MonitorTypeOK
  <2>2. \A d \in Loose' : key'[d] = key[d]
    BY <1>4 DEF Acquire, Goto, Free, Loose, MonitorTypeOK
  <2>3. \A r : TakenCare(r) => TakenCare(r)'
    BY <1>4 DEF Acquire, Goto, Free, TakenCare, MonitorTypeOK
  <2>4. \A d \in Monitors : pc'[d] = "handle" => pc[d] = "handle"
    BY <1>4 DEF Acquire, Goto, MonitorTypeOK
  <2>5. store' = store /\ val' = val
    BY <1>4 DEF Acquire
  <2>6. QED
    BY <2>1, <2>2, <2>3, <2>4, <2>5 DEF Tokens
<1>5. ASSUME NEW m \in Monitors, Withdraw(m) PROVE Quiet
  <2>1. Loose' = Loose
    BY <1>5 DEF Withdraw, Goto, Loose, MonitorTypeOK
  <2>2. \A r : TakenCare(r) => TakenCare(r)'
    BY <1>5 DEF Withdraw, Goto, TakenCare, MonitorTypeOK
  <2>3. \A d \in Monitors : pc'[d] = "handle" => pc[d] = "handle"
    BY <1>5 DEF Withdraw, Goto, MonitorTypeOK
  <2>4. \A k \in Keys, r \in Requests : store'[k] = r => store[k] = r
    BY <1>5 DEF Withdraw, Delete, MonitorTypeOK, Requests
  <2>5. val' = val /\ key' = key
    BY <1>5 DEF Withdraw
  <2>6. \A d \in Loose : key[d] \in Keys
    BY DEF Loose, MonitorTypeOK
  <2>7. QED
    BY <2>1, <2>2, <2>3, <2>4, <2>5, <2>6 DEF Tokens
<1>6. ASSUME NEW m \in Monitors, DeleteKey(m) PROVE Quiet
  <2>1. Loose' = Loose
    BY <1>6 DEF DeleteKey, Goto, Loose, MonitorTypeOK
  <2>2. key[m] \in Keys
    BY <1>6 DEF DeleteKey, MonitorTypeOK
  <2>3. \A d \in Monitors : pc'[d] = "handle" => pc[d] = "handle"
    BY <1>6 DEF DeleteKey, Goto, MonitorTypeOK
  <2>4. \A k \in Keys, r \in Requests : store'[k] = r => store[k] = r /\ k # key[m]
    BY <1>6, <2>2 DEF DeleteKey, Delete, MonitorTypeOK, Requests
  <2>5. val' = val /\ key' = key /\ lock' = lock
    BY <1>6 DEF DeleteKey
  <2>6. \A d \in Loose : key[d] \in Keys
    BY DEF Loose, MonitorTypeOK
  <2>7. ASSUME NEW r \in Requests, TakenCare(r), NEW k \in Keys, store'[k] = r
        PROVE  TakenCare(r)'
    <3>1. PICK d \in Monitors : /\ pc[d] \in {"handle", "withdraw", "delete"}
                                /\ val[d] = r /\ lock[key[d]] = d
      BY <2>7 DEF TakenCare
    <3>2. d # m
      BY <2>4, <2>7, <3>1 DEF OneKeyEach, Requests
    <3>3. pc'[d] = pc[d]
      BY <1>6, <3>2 DEF DeleteKey, Goto, MonitorTypeOK
    <3>4. QED
      BY <2>5, <3>1, <3>3 DEF TakenCare
  <2>8. QED
    BY <2>1, <2>3, <2>4, <2>5, <2>6, <2>7 DEF Tokens
<1>7. ASSUME NEW m \in Monitors, CleanFailKey(m) \/ CountFailure(m) \/ ForgiveFailures(m)
      PROVE  Quiet
  <2>1. Loose' = Loose /\ \A r : TakenCare(r)' <=> TakenCare(r)
    BY <1>7 DEF CleanFailKey, CountFailure, ForgiveFailures, Goto, Loose, TakenCare,
                MonitorTypeOK
  <2>2. \A d \in Monitors : pc'[d] = "handle" => pc[d] = "handle"
    BY <1>7 DEF CleanFailKey, CountFailure, ForgiveFailures, Goto, MonitorTypeOK
  <2>3. store' = store /\ val' = val /\ key' = key
    BY <1>7 DEF CleanFailKey, CountFailure, ForgiveFailures
  <2>4. QED
    BY <2>1, <2>2, <2>3 DEF Tokens
<1>8. ASSUME NEW m \in Monitors, ReadFailures(m) PROVE Quiet
  <2>1. Loose' = Loose /\ \A r : TakenCare(r)' <=> TakenCare(r)
    BY <1>8 DEF ReadFailures, Goto, redis, Loose, TakenCare, MonitorTypeOK
  <2>2. \A d \in Monitors : pc'[d] = "handle" => pc[d] = "handle"
    BY <1>8 DEF ReadFailures, Goto, MonitorTypeOK
  <2>3. store' = store /\ val' = val /\ key' = key
    BY <1>8 DEF ReadFailures, redis
  <2>4. QED
    BY <2>1, <2>2, <2>3 DEF Tokens
<1>9. ASSUME NEW m \in Monitors, DropKey(m) PROVE Quiet
  <2>1. Loose' = Loose /\ \A r : TakenCare(r)' <=> TakenCare(r)
    BY <1>9 DEF DropKey, Goto, Loose, TakenCare, MonitorTypeOK
  <2>2. \A d \in Monitors : pc'[d] = "handle" => pc[d] = "handle"
    BY <1>9 DEF DropKey, Goto, MonitorTypeOK
  <2>3. \A k \in Keys, r \in Requests : store'[k] = r => store[k] = r
    BY <1>9 DEF DropKey, Delete, MonitorTypeOK, Requests
  <2>4. val' = val /\ key' = key
    BY <1>9 DEF DropKey
  <2>5. \A d \in Loose : key[d] \in Keys
    BY DEF Loose, MonitorTypeOK
  <2>6. QED
    BY <2>1, <2>2, <2>3, <2>4, <2>5 DEF Tokens
<1>10. ASSUME NEW m \in Monitors, Release(m) PROVE Quiet
  <2>1. Loose' \subseteq Loose /\ \A d \in Loose' : key'[d] = key[d]
    BY <1>10 DEF Release, Forget, Goto, Held, Loose, MonitorTypeOK
  <2>2. \A r : TakenCare(r) => TakenCare(r)'
    BY <1>10 DEF Release, Forget, Goto, Held, TakenCare, MonitorTypeOK
  <2>3. \A d \in Monitors : pc'[d] = "handle" => pc[d] = "handle" /\ val'[d] = val[d]
    BY <1>10 DEF Release, Forget, Goto, MonitorTypeOK
  <2>4. store' = store
    BY <1>10 DEF Release
  <2>5. QED
    BY <2>1, <2>2, <2>3, <2>4 DEF Tokens
<1>11. CASE UNCHANGED vars
  BY <1>11 DEF vars, redis, locals, Loose, Tokens, TakenCare
<1>12. QED
  BY <1>1, <1>2, <1>3, <1>4, <1>5, <1>6, <1>7, <1>8, <1>9, <1>10, <1>11

\* Reading the value makes the reader a token in place of Nobody, or of itself.
LEMMA GetValueStep ==
    ASSUME MonitorTypeOK, OneKeyEach, NEW m \in Monitors, GetValue(m)
    PROVE  /\ Loose' \subseteq Loose
           /\ \A r \in Requests :
                 \/ Tokens(r)' \subseteq Tokens(r)
                 \/ /\ Nobody \in Tokens(r)
                    /\ Tokens(r)' \subseteq (Tokens(r) \ {Nobody}) \cup {m}
<1> USE MonitorAssumption DEF MonitorAssumption
<1>1. /\ pc[m] = "get" /\ key[m] \in Keys
      /\ store' = store /\ lock' = lock /\ key' = key
      /\ val' = [val EXCEPT ![m] = store[key[m]]]
      /\ \A d \in Monitors \ {m} : pc'[d] = pc[d] /\ val'[d] = val[d]
      /\ pc'[m] \in {"failed", "handle", "release"} /\ val'[m] = store[key[m]]
  BY DEF GetValue, Refused, Goto, redis, MonitorTypeOK
<1>2. Loose' \subseteq Loose /\ m \notin Loose'
  BY <1>1 DEF Loose
<1>3. ASSUME NEW r \in Requests
      PROVE  \/ Tokens(r)' \subseteq Tokens(r)
             \/ /\ Nobody \in Tokens(r)
                /\ Tokens(r)' \subseteq (Tokens(r) \ {Nobody}) \cup {m}
  <2>1. TakenCare(r) => TakenCare(r)'
    BY <1>1 DEF TakenCare
  <2>2. CASE store[key[m]] = r /\ lock[key[m]] = m /\ pc'[m] = "handle"
    <3>1. TakenCare(r)'
      BY <1>1, <2>2 DEF TakenCare
    <3>2. ~TakenCare(r)
      <4>1. SUFFICES ASSUME NEW d \in Monitors, pc[d] \in {"handle", "withdraw", "delete"},
                            val[d] = r, lock[key[d]] = d
                     PROVE  FALSE
        BY DEF TakenCare
      <4>2. key[d] = key[m]
        BY <1>1, <2>2, <4>1 DEF OneKeyEach, Requests
      <4>3. QED
        BY <1>1, <2>2, <4>1, <4>2
    <3>3. Nobody \in Tokens(r)
      BY <1>1, <2>2, <3>2 DEF Tokens
    <3>4. Nobody \notin Tokens(r)'
      BY <3>1 DEF Tokens, Loose
    <3>5. Tokens(r)' \subseteq Tokens(r) \cup {m}
      BY <1>1, <1>2, <2>1 DEF Tokens
    <3>6. QED
      BY <3>3, <3>4, <3>5
  <2>3. CASE store[key[m]] = r /\ lock[key[m]] # m
    <3>1. m \in Tokens(r)
      BY <1>1, <2>3 DEF Tokens, Loose
    <3>2. QED
      BY <1>1, <1>2, <2>1, <3>1 DEF Tokens
  <2>4. CASE store[key[m]] # r \/ pc'[m] # "handle"
    BY <1>1, <1>2, <2>1, <2>4 DEF Tokens
  <2>5. QED
    BY <2>2, <2>3, <2>4
<1>4. QED
  BY <1>2, <1>3

\* The handler acts: the token of the monitor that acts is spent.
LEMMA HandleStep ==
    ASSUME MonitorTypeOK, NEW m \in Monitors, Handle(m)
    PROVE  /\ Loose' \subseteq Loose
           /\ \A r \in Requests :
                 /\ Tokens(r)' \subseteq Tokens(r)
                 /\ val[m] = r => m \in Tokens(r) /\ m \notin Tokens(r)'
<1> USE MonitorAssumption DEF MonitorAssumption
<1>1. /\ pc[m] = "handle"
      /\ store' = store /\ lock' = lock /\ key' = key /\ val' = val
      /\ \A d \in Monitors \ {m} : pc'[d] = pc[d]
      /\ pc'[m] \in {"delete", "withdraw"}
  BY DEF Handle, Goto, redis, MonitorTypeOK
<1>2. Loose' = Loose /\ m \notin Loose
  BY <1>1 DEF Loose
<1>3. \A r : TakenCare(r)' <=> TakenCare(r)
  BY <1>1 DEF TakenCare
<1>4. QED
  BY <1>1, <1>2, <1>3 DEF Tokens

\* A failed attempt gives the monitor's token back to the next holder of the lock;
\* when the handler had acted already, it makes one.
LEMMA RaiseStep ==
    ASSUME MonitorTypeOK, NEW m \in Monitors, Raise(m)
    PROVE  /\ Loose' \subseteq Loose
           /\ \A r \in Requests :
                 /\ Tokens(r)' \subseteq Tokens(r) \cup {Nobody}
                 /\ pc[m] = "handle" =>
                       \/ Tokens(r)' \subseteq Tokens(r)
                       \/ /\ m \in Tokens(r)
                          /\ Tokens(r)' \subseteq (Tokens(r) \ {m}) \cup {Nobody}
<1> USE MonitorAssumption DEF MonitorAssumption
<1>1. /\ pc[m] \in {"handle", "withdraw", "delete", "clean"}
      /\ store' = store /\ lock' = lock /\ key' = key /\ val' = val
      /\ \A d \in Monitors \ {m} : pc'[d] = pc[d]
      /\ pc'[m] = "failed"
  BY DEF Raise, Goto, redis, MonitorTypeOK
<1>2. Loose' = Loose /\ m \notin Loose
  BY <1>1 DEF Loose
<1>3. \A r \in Requests : Tokens(r)' \subseteq Tokens(r) \cup {Nobody}
  BY <1>1, <1>2 DEF Tokens
<1>4. ASSUME NEW r \in Requests, pc[m] = "handle"
      PROVE  \/ Tokens(r)' \subseteq Tokens(r)
             \/ /\ m \in Tokens(r)
                /\ Tokens(r)' \subseteq (Tokens(r) \ {m}) \cup {Nobody}
  <2>1. CASE val[m] = r
    <3>1. m \in Tokens(r)
      BY <1>4, <2>1 DEF Tokens
    <3>2. m \notin Tokens(r)'
      BY <1>1, <1>2 DEF Tokens
    <3>3. QED
      BY <1>3, <3>1, <3>2
  <2>2. CASE val[m] # r
    <3>1. TakenCare(r)' <=> TakenCare(r)
      BY <1>1, <2>2 DEF TakenCare
    <3>2. QED
      BY <1>1, <1>2, <3>1 DEF Tokens
  <2>3. QED
    BY <2>1, <2>2
<1>5. QED
  BY <1>2, <1>3, <1>4

\* A new request has a token for every monitor that lost its lock, and Nobody's.
LEMMA SubmitStep ==
    ASSUME MonitorTypeOK, NEW k \in Keys, Submit(k)
    PROVE  /\ Loose' = Loose
           /\ \A r \in Requests :
                 Tokens(r)' \subseteq IF r = sent + 1 THEN Loose \cup {Nobody} ELSE Tokens(r)
<1>1. Loose' = Loose /\ \A r : TakenCare(r)' <=> TakenCare(r)
  BY DEF Submit, locals, Loose, TakenCare
<1>2. \A d \in Loose : key[d] \in Keys
  BY DEF Loose, MonitorTypeOK
<1>3. \A j \in Keys, r \in Requests : store'[j] = r /\ r # sent + 1 => store[j] = r
  BY DEF Submit, MonitorTypeOK
<1>4. \A d \in Monitors : val[d] # sent + 1
  BY DEF MonitorTypeOK
<1>5. pc' = pc /\ val' = val /\ key' = key
  BY DEF Submit, locals
<1>6. QED
  BY <1>1, <1>2, <1>3, <1>4, <1>5 DEF Tokens

\* A crash may leave a request to the next holder of the lock.
LEMMA CrashStep ==
    ASSUME MonitorTypeOK, NEW m \in Monitors, Crash(m)
    PROVE  /\ Loose' \subseteq Loose
           /\ \A r \in Requests : Tokens(r)' \subseteq Tokens(r) \cup {Nobody}
<1> USE MonitorAssumption DEF MonitorAssumption
<1>1. \A d \in Loose' : d \in Loose /\ key'[d] = key[d]
  BY DEF Crash, Forget, Goto, Loose, MonitorTypeOK
<1>2. \A d \in Monitors : pc'[d] = "handle" => pc[d] = "handle" /\ val'[d] = val[d]
  BY DEF Crash, Forget, Goto, MonitorTypeOK
<1>3. store' = store
  BY DEF Crash
<1>4. QED
  BY <1>1, <1>2, <1>3 DEF Tokens

\* A lost lock makes a token of its owner if it has still to read the value, and of
\* the next holder otherwise.
LEMMA StallStep ==
    ASSUME MonitorTypeOK, NEW k \in Keys, LoseLock(k)
    PROVE  \E x :
              /\ Loose' \subseteq Loose \cup {x}
              /\ \A r \in Requests : Tokens(r)' \subseteq Tokens(r) \cup {x}
<1> USE MonitorAssumption DEF MonitorAssumption
<1> DEFINE m == lock[k]
<1>1. /\ m \in Monitors
      /\ store' = store /\ key' = key /\ pc' = pc /\ val' = val
      /\ lock' = [lock EXCEPT ![k] = Nobody]
  BY DEF LoseLock, locals
<1> HIDE DEF m
<1>2. \A d \in Monitors : key[d] \in Keys /\ lock'[key[d]] # d /\ lock[key[d]] = d => d = m /\ key[d] = k
  BY <1>1 DEF MonitorTypeOK, m
<1>3. Loose' \subseteq Loose \cup {m}
  BY <1>1, <1>2 DEF Loose, MonitorTypeOK
<1>4. CASE pc[m] = "get"
  <2>1. \A r : TakenCare(r) => TakenCare(r)'
    <3>1. ASSUME NEW r, NEW d \in Monitors, pc[d] \in {"handle", "withdraw", "delete"},
                 val[d] = r, lock[key[d]] = d
          PROVE  TakenCare(r)'
      <4>1. d # m /\ key[d] \in Keys
        BY <1>4, <3>1 DEF MonitorTypeOK
      <4>2. lock'[key[d]] = d
        BY <1>2, <3>1, <4>1
      <4>3. QED
        BY <1>1, <3>1, <4>2 DEF TakenCare
    <3>2. QED
      BY <3>1 DEF TakenCare
  <2>2. \A r \in Requests : Tokens(r)' \subseteq Tokens(r) \cup {m}
    BY <1>1, <1>3, <2>1 DEF Tokens
  <2>3. QED
    BY <1>3, <2>2
<1>5. CASE pc[m] # "get"
  <2>1. Loose' \subseteq Loose
    BY <1>1, <1>3, <1>5 DEF Loose
  <2>2. \A r \in Requests : Tokens(r)' \subseteq Tokens(r) \cup {Nobody}
    BY <1>1, <2>1 DEF Tokens
  <2>3. QED
    BY <2>1, <2>2
<1>6. QED
  BY <1>4, <1>5

----------------------------------------------------------------------------
\* A request is acted on once, and again only for a crash, a late exception or a
\* stall that has happened: the lock of _process_plugin and the deletion of the key
\* after handle leave no other way.
THEOREM ActsAreBounded ==
    ASSUME KeepHistory
    PROVE  Spec => []ActedOnce
<1> USE MonitorAssumption DEF MonitorAssumption
<1>1. Init => ActedInv
  <2> SUFFICES ASSUME Init PROVE ActedInv
    OBVIOUS
  <2>1. Loose = {} /\ \A r \in Requests : Tokens(r) = {}
    BY DEF Init, Loose, Tokens, Requests
  <2>2. Cardinality({}) = 0
    BY FS_EmptySet
  <2>3. OneKeyEach
    BY DEF Init, OneKeyEach
  <2>4. QED
    BY <2>1, <2>2, <2>3 DEF Init, ActedInv
<1>2. MonitorTypeOK /\ ActedInv => ActedOnce
  <2>1. ASSUME NEW r \in Requests PROVE Cardinality(Tokens(r)) \in Nat
    BY TokensFinite, FS_CardinalityType
  <2>2. QED
    BY <2>1 DEF MonitorTypeOK, ActedInv, ActedOnce
<1>3. MonitorTypeOK /\ ActedInv /\ [Next]_vars => ActedInv'
  <2> SUFFICES ASSUME MonitorTypeOK, ActedInv, [Next]_vars PROVE ActedInv'
    OBVIOUS
  <2> DEFINE Budget == 1 + crashes + late + stalls
             Cost(r) == acted[r] + Cardinality(Tokens(r))
  <2>1. OneKeyEach /\ OneKeyEach'
    BY OneKeyStep DEF ActedInv
  <2>2. /\ crashes \in Nat /\ late \in Nat /\ stalls \in Nat /\ sent \in Nat
        /\ \A r \in Requests : acted[r] \in Nat /\ r \in Nat
    BY DEF MonitorTypeOK, Requests
  <2>3. IsFiniteSet(Loose) /\ Cardinality(Loose) \in Nat
    BY TokensFinite, FS_CardinalityType
  <2>4. \A r \in Requests : IsFiniteSet(Tokens(r)) /\ Cardinality(Tokens(r)) \in Nat
    BY TokensFinite, FS_CardinalityType
  <2>5. /\ Cardinality(Loose) <= stalls
        /\ \A r \in Requests : r > sent => acted[r] = 0
        /\ \A r \in Requests : Cost(r) <= Budget
    BY DEF ActedInv
  \* What is left to show of a step.
  <2>6. ASSUME Cardinality(Loose') <= stalls',
               \A r \in Requests : r > sent' => acted'[r] = 0,
               \A r \in Requests : acted'[r] + Cardinality(Tokens(r)') <= Budget'
        PROVE  ActedInv'
    BY <2>1, <2>6 DEF ActedInv
  \* A step that takes nobody's lock has no more loose monitors than before.
  <2>7. ASSUME Loose' \subseteq Loose, stalls' = stalls
        PROVE  Cardinality(Loose') <= stalls'
    <3>1. Cardinality(Loose') \in Nat /\ Cardinality(Loose') <= Cardinality(Loose)
      BY <2>3, <2>7, FewerTokens
    <3>2. QED
      BY <2>2, <2>3, <2>5, <2>7, <3>1
  <2> HIDE DEF Budget
  <2>8. ASSUME Loose' \subseteq Loose,
               \A r \in Requests : Tokens(r)' \subseteq Tokens(r),
               UNCHANGED <<acted, crashes, late, stalls, sent>>
        PROVE  ActedInv'
    <3>1. Budget' = Budget
      BY <2>8 DEF Budget
    <3>2. ASSUME NEW r \in Requests PROVE acted'[r] + Cardinality(Tokens(r)') <= Budget'
      <4>1. Cardinality(Tokens(r)') \in Nat /\ Cardinality(Tokens(r)') <= Cardinality(Tokens(r))
        BY <2>4, <2>8, FewerTokens
      <4>2. QED
        BY <2>2, <2>4, <2>5, <2>8, <3>1, <4>1 DEF Budget
    <3>3. QED
      BY <2>5, <2>6, <2>7, <2>8, <3>2
  \* A step that adds one token and pays for it.
  <2>9. ASSUME Loose' \subseteq Loose,
               NEW x, \A r \in Requests : Tokens(r)' \subseteq Tokens(r) \cup {x},
               UNCHANGED <<acted, stalls, sent>>,
               Budget' = Budget + 1
        PROVE  ActedInv'
    <3>1. ASSUME NEW r \in Requests PROVE acted'[r] + Cardinality(Tokens(r)') <= Budget'
      <4>1. Cardinality(Tokens(r)') \in Nat /\ Cardinality(Tokens(r)') <= Cardinality(Tokens(r)) + 1
        BY <2>4, <2>9, TokenAdded
      <4>2. QED
        BY <2>2, <2>4, <2>5, <2>9, <4>1 DEF Budget
    <3>2. QED
      BY <2>5, <2>6, <2>7, <2>9, <3>1
  <2>10. CASE \/ \E k \in Keys : ComeDue(k) \/ VacantLockExpires(k)
              \/ \E m \in Monitors :
                    \/ StartScan(m) \/ Acquire(m) \/ Withdraw(m) \/ DeleteKey(m)
                    \/ CleanFailKey(m) \/ ReadFailures(m) \/ CountFailure(m)
                    \/ ForgiveFailures(m) \/ DropKey(m) \/ Release(m)
              \/ UNCHANGED vars
    <3>1. Loose' \subseteq Loose /\ \A r \in Requests : Tokens(r)' \subseteq Tokens(r)
      BY <2>1, <2>10, QuietStep
    <3>2. UNCHANGED <<acted, crashes, late, stalls, sent>>
      BY <2>10 DEF ComeDue, VacantLockExpires, StartScan, Acquire, Withdraw, DeleteKey,
                   CleanFailKey, ReadFailures, CountFailure, ForgiveFailures, DropKey,
                   Release, history, vars
    <3>3. QED
      BY <2>8, <3>1, <3>2
  <2>11. ASSUME NEW m \in Monitors, GetValue(m) PROVE ActedInv'
    <3>1. UNCHANGED <<acted, crashes, late, stalls, sent>>
      BY <2>11 DEF GetValue
    <3>2. Loose' \subseteq Loose
      BY <2>1, <2>11, GetValueStep
    <3>3. ASSUME NEW r \in Requests
          PROVE  Cardinality(Tokens(r)') \in Nat /\ Cardinality(Tokens(r)') <= Cardinality(Tokens(r))
      <4>1. CASE Tokens(r)' \subseteq Tokens(r)
        BY <2>4, <4>1, FewerTokens
      <4>2. CASE Nobody \in Tokens(r) /\ Tokens(r)' \subseteq (Tokens(r) \ {Nobody}) \cup {m}
        BY <2>4, <4>2, TokenExchanged
      <4>3. QED
        BY <2>1, <2>11, <4>1, <4>2, GetValueStep
    <3>4. ASSUME NEW r \in Requests PROVE acted'[r] + Cardinality(Tokens(r)') <= Budget'
      BY <2>2, <2>4, <2>5, <3>1, <3>3 DEF Budget
    <3>5. QED
      BY <2>5, <2>6, <2>7, <3>1, <3>2, <3>4
  <2>12. ASSUME NEW m \in Monitors, Handle(m) PROVE ActedInv'
    <3>1. UNCHANGED <<crashes, late, stalls, sent>>
      BY <2>12 DEF Handle
    <3>2. Loose' \subseteq Loose
      BY <2>12, HandleStep
    <3>3. /\ val[m] \in Nat /\ val[m] <= sent
          /\ val[m] # 0 => val[m] \in Requests
          /\ acted' = IF val[m] = 0 THEN acted ELSE [acted EXCEPT ![val[m]] = @ + 1]
      <4>1. val[m] \in 0..sent /\ sent \in 0..MaxRequests
        BY DEF MonitorTypeOK
      <4>2. val[m] \in Nat /\ val[m] <= sent /\ (val[m] # 0 => val[m] \in Requests)
        BY <4>1 DEF Requests
      <4>3. acted' = IF val[m] = 0 THEN acted ELSE [acted EXCEPT ![val[m]] = @ + 1]
        BY <2>12 DEF Handle, Noted
      <4>4. QED
        BY <4>2, <4>3
    <3>4. ASSUME NEW r \in Requests PROVE acted'[r] + Cardinality(Tokens(r)') <= Budget'
      <4>1. Tokens(r)' \subseteq Tokens(r)
        BY <2>12, HandleStep
      <4>2. CASE val[m] = r
        <5>1. m \in Tokens(r) /\ m \notin Tokens(r)'
          BY <2>12, <4>2, HandleStep
        <5>2. Tokens(r)' \subseteq Tokens(r) \ {m}
          BY <4>1, <5>1
        <5>3. Cardinality(Tokens(r)') \in Nat /\ Cardinality(Tokens(r)') + 1 <= Cardinality(Tokens(r))
          BY <2>4, <5>1, <5>2, TokenSpent
        <5>4. acted'[r] = acted[r] + 1
          BY <3>3, <4>2 DEF MonitorTypeOK, Requests
        <5>5. QED
          BY <2>2, <2>4, <2>5, <3>1, <5>3, <5>4 DEF Budget
      <4>3. CASE val[m] # r
        <5>1. Cardinality(Tokens(r)') \in Nat /\ Cardinality(Tokens(r)') <= Cardinality(Tokens(r))
          BY <2>4, <4>1, FewerTokens
        <5>2. acted'[r] = acted[r]
          BY <3>3, <4>3 DEF MonitorTypeOK
        <5>3. QED
          BY <2>2, <2>4, <2>5, <3>1, <5>1, <5>2 DEF Budget
      <4>4. QED
        BY <4>2, <4>3
    <3>5. \A r \in Requests : r > sent' => acted'[r] = 0
      BY <2>2, <2>5, <3>1, <3>3 DEF MonitorTypeOK
    <3>6. QED
      BY <2>6, <2>7, <3>1, <3>2, <3>4, <3>5
  <2>13. ASSUME NEW m \in Monitors, Raise(m) PROVE ActedInv'
    <3>1. UNCHANGED <<acted, crashes, stalls, sent>>
      BY <2>13 DEF Raise
    <3>2. Loose' \subseteq Loose
      BY <2>13, RaiseStep
    <3>3. CASE pc[m] # "handle"
      <4>1. \A r \in Requests : Tokens(r)' \subseteq Tokens(r) \cup {Nobody}
        BY <2>13, RaiseStep
      <4>2. late' = late + 1
        BY <2>13, <3>3 DEF Raise, Counted
      <4>3. Budget' = Budget + 1
        BY <2>2, <3>1, <4>2 DEF Budget
      <4>4. QED
        BY <2>9, <3>1, <3>2, <4>1, <4>3
    <3>4. CASE pc[m] = "handle"
      <4>1. late' = late
        BY <2>13, <3>4 DEF Raise
      <4>2. ASSUME NEW r \in Requests
            PROVE  /\ Cardinality(Tokens(r)') \in Nat
                   /\ Cardinality(Tokens(r)') <= Cardinality(Tokens(r))
        <5>1. CASE Tokens(r)' \subseteq Tokens(r)
          BY <2>4, <5>1, FewerTokens
        <5>2. CASE m \in Tokens(r) /\ Tokens(r)' \subseteq (Tokens(r) \ {m}) \cup {Nobody}
          BY <2>4, <5>2, TokenExchanged
        <5>3. QED
          BY <2>13, <3>4, <5>1, <5>2, RaiseStep
      <4>3. ASSUME NEW r \in Requests PROVE acted'[r] + Cardinality(Tokens(r)') <= Budget'
        BY <2>2, <2>4, <2>5, <3>1, <4>1, <4>2 DEF Budget
      <4>4. QED
        BY <2>5, <2>6, <2>7, <3>1, <3>2, <4>3
    <3>5. QED
      BY <2>13, <3>3, <3>4 DEF Raise
  <2>14. ASSUME NEW k \in Keys, Submit(k) PROVE ActedInv'
    <3>1. UNCHANGED <<acted, crashes, late, stalls>> /\ sent' = sent + 1
      BY <2>14 DEF Submit, history
    <3>2. Loose' \subseteq Loose
      BY <2>14, SubmitStep
    <3>3. ASSUME NEW r \in Requests PROVE acted'[r] + Cardinality(Tokens(r)') <= Budget'
      <4>1. CASE r = sent + 1
        <5>1. Tokens(r)' \subseteq Loose \cup {Nobody}
          BY <2>14, <4>1, SubmitStep
        <5>2. /\ Cardinality(Tokens(r)') \in Nat
              /\ Cardinality(Tokens(r)') <= Cardinality(Loose) + 1
          BY <2>3, <5>1, TokenAdded
        <5>3. acted'[r] = 0
          BY <2>2, <2>5, <3>1, <4>1
        <5>4. QED
          BY <2>2, <2>3, <2>5, <3>1, <5>2, <5>3 DEF Budget
      <4>2. CASE r # sent + 1
        <5>1. Tokens(r)' \subseteq Tokens(r)
          BY <2>14, <4>2, SubmitStep
        <5>2. Cardinality(Tokens(r)') \in Nat /\ Cardinality(Tokens(r)') <= Cardinality(Tokens(r))
          BY <2>4, <5>1, FewerTokens
        <5>3. QED
          BY <2>2, <2>4, <2>5, <3>1, <5>2 DEF Budget
      <4>3. QED
        BY <4>1, <4>2
    <3>4. \A r \in Requests : r > sent' => acted'[r] = 0
      BY <2>2, <2>5, <3>1
    <3>5. QED
      BY <2>6, <2>7, <3>1, <3>2, <3>3, <3>4
  <2>15. ASSUME NEW m \in Monitors, Crash(m) PROVE ActedInv'
    <3>1. UNCHANGED <<acted, late, stalls, sent>> /\ crashes' = crashes + 1
      BY <2>15 DEF Crash
    <3>2. Budget' = Budget + 1
      BY <2>2, <3>1 DEF Budget
    <3>3. Loose' \subseteq Loose /\ \A r \in Requests : Tokens(r)' \subseteq Tokens(r) \cup {Nobody}
      BY <2>15, CrashStep
    <3>4. QED
      BY <2>9, <3>1, <3>2, <3>3
  <2>16. ASSUME NEW k \in Keys, LoseLock(k) PROVE ActedInv'
    <3>1. UNCHANGED <<acted, crashes, late, sent>> /\ stalls' = stalls + 1
      BY <2>16 DEF LoseLock
    <3>2. PICK x : /\ Loose' \subseteq Loose \cup {x}
                   /\ \A r \in Requests : Tokens(r)' \subseteq Tokens(r) \cup {x}
      BY <2>16, StallStep
    <3>3. Cardinality(Loose') \in Nat /\ Cardinality(Loose') <= Cardinality(Loose) + 1
      BY <2>3, <3>2, TokenAdded
    <3>4. Cardinality(Loose') <= stalls'
      BY <2>2, <2>3, <2>5, <3>1, <3>3
    <3>5. ASSUME NEW r \in Requests PROVE acted'[r] + Cardinality(Tokens(r)') <= Budget'
      <4>1. Cardinality(Tokens(r)') \in Nat /\ Cardinality(Tokens(r)') <= Cardinality(Tokens(r)) + 1
        BY <2>4, <3>2, TokenAdded
      <4>2. QED
        BY <2>2, <2>4, <2>5, <3>1, <4>1 DEF Budget
    <3>6. QED
      BY <2>5, <2>6, <3>1, <3>4, <3>5
  <2>17. QED
    BY <2>10, <2>11, <2>12, <2>13, <2>14, <2>15, <2>16 DEF Next, MonitorStep
<1>4. QED
  BY <1>1, <1>2, <1>3, MonitorTypeCorrect, PTL DEF Spec

----------------------------------------------------------------------------
(***************************************************************************)
(* GhostBound.  When a key is taken away, every monitor whose reply of     *)
(* SCAN still names it, or that was just about to read it, may come to     *)
(* call the handler without a value; the one that took it away is done     *)
(* with it, unless it was working on another key, or the reply named the   *)
(* key once more, which was paid for when it did.                          *)
(***************************************************************************)
\* The monitors about to call the handler of k without a value.
Ready(k) ==
    {m \in Monitors : /\ key[m] = k
                      /\ \/ pc[m] = "get" /\ store[k] = 0
                         \/ pc[m] = "handle" /\ val[m] = 0}

\* Those whose reply names k, which is away, or which they are already handling.
Listed(k) ==
    {m \in Monitors : k \in todo[m] /\ (store[k] = 0 \/ (Working(m) /\ key[m] = k))}

Share(k) == Cardinality(Monitors) - IF k \in Timed THEN 0 ELSE 1

Callers(k) == Cardinality(Ready(k)) + Cardinality(Listed(k))

GhostInv == \A k \in Keys : ghosts[k] + Callers(k) <= Share(k) * removed[k] + repeats

(***************************************************************************)
(* GiveUpCounted.  The failure count of a key is at most its failed        *)
(* attempts, and one less while an attempt that failed was not counted.    *)
(***************************************************************************)
FailuresPaid ==
    /\ \A k \in Keys : failures[k] <= missed[k]
    /\ \A m \in Monitors :
          /\ pc[m] = "failed" => failures[key[m]] < missed[key[m]]
          /\ pc[m] = "count" => seen[m] < missed[key[m]]
          /\ pc[m] = "drop" => failures[key[m]] = 0

FailuresInv == stalls = 0 => FailuresPaid

(***************************************************************************)
(* TakenForCause.  What a monitor read at its key is not younger than what *)
(* the key holds; it comes to the DEL after handle only if it acted on     *)
(* what it read, and to the other DEL only if the key failed often enough. *)
(***************************************************************************)
ReadBefore == \A m \in Monitors : key[m] \in Keys => store[key[m]] = 0 \/ val[m] <= store[key[m]]

ActedFirst == \A m \in Monitors : pc[m] \in {"withdraw", "delete"} /\ val[m] # 0 => acted[val[m]] > 0

GivenUp ==
    stalls = 0 => \A m \in Monitors : pc[m] \in {"forgive", "drop"} => missed[key[m]] > MaxFailures

CauseInv == OneKeyEach /\ ReadBefore /\ ActedFirst /\ GivenUp

----------------------------------------------------------------------------
LEMMA FailuresStep ==
    ASSUME KeepHistory, MonitorTypeOK, InCharge, FailuresInv, [Next]_vars
    PROVE  FailuresInv'
<1> USE MonitorAssumption DEF MonitorAssumption
<1> SUFFICES ASSUME stalls' = 0 PROVE FailuresPaid'
  BY DEF FailuresInv
<1>1. stalls = 0
  <2>1. stalls' \in {stalls, stalls + 1} /\ stalls \in Nat
    BY DEF Next, MonitorStep, StartScan, Acquire, GetValue, Handle, Withdraw, Raise, DeleteKey,
       CleanFailKey, ReadFailures, CountFailure, ForgiveFailures, DropKey, Release, Crash, Submit,
       ComeDue, VacantLockExpires, LoseLock, vars, history, MonitorTypeOK
  <2>2. QED
    BY <2>1
<1>2. FailuresPaid
  BY <1>1 DEF FailuresInv
\* No two monitors work on one key.
<1>3. \A m, n \in Monitors : Working(m) /\ Working(n) /\ key[m] = key[n] => m = n
  BY <1>1 DEF InCharge
<1> USE DEF FailuresPaid, Working
<1>4. ASSUME UNCHANGED <<failures, missed, pc, key, seen>> PROVE FailuresPaid'
  BY <1>2, <1>4
<1>5. ASSUME NEW k \in Keys, Submit(k) \/ ComeDue(k) \/ VacantLockExpires(k) PROVE FailuresPaid'
  BY <1>4, <1>5 DEF Submit, ComeDue, VacantLockExpires, redis, locals, history
<1>6. ASSUME NEW m \in Monitors, StartScan(m) PROVE FailuresPaid'
  BY <1>4, <1>6 DEF StartScan, redis, history
\* Only the monitor itself moves, to a step that nothing is said of.
<1>7. ASSUME NEW m \in Monitors, NEW to, to \notin {"failed", "count", "drop"},
             pc' = [pc EXCEPT ![m] = to], UNCHANGED <<failures, missed>>,
             \A n \in Monitors : n # m => key'[n] = key[n] /\ seen'[n] = seen[n]
      PROVE  FailuresPaid'
  <2>1. pc'[m] = to /\ \A n \in Monitors : n # m => pc'[n] = pc[n]
    BY <1>7 DEF MonitorTypeOK
  <2>2. QED
    BY <1>2, <1>7, <2>1
<1>8. ASSUME NEW m \in Monitors, Acquire(m) PROVE FailuresPaid'
  <2>1. CASE UNCHANGED pc /\ UNCHANGED key
    BY <1>4, <1>8, <2>1 DEF Acquire, history
  <2>2. CASE Goto(m, "get") /\ \E k \in Keys : key' = [key EXCEPT ![m] = k]
    BY <1>7, <1>8, <2>2 DEF Acquire, Goto, history, MonitorTypeOK
  <2>3. todo[m] \subseteq Keys
    BY DEF MonitorTypeOK
  <2>4. QED
    BY <1>8, <2>1, <2>2, <2>3 DEF Acquire
<1>9. ASSUME NEW m \in Monitors, Handle(m) \/ Withdraw(m) \/ DeleteKey(m) PROVE FailuresPaid'
  BY <1>7, <1>9 DEF Handle, Withdraw, DeleteKey, Goto, redis
<1>10. ASSUME NEW m \in Monitors, Release(m) \/ Crash(m) PROVE FailuresPaid'
  BY <1>7, <1>10 DEF Release, Crash, Forget, Goto, history, MonitorTypeOK
\* An attempt fails.
<1>11. ASSUME NEW m \in Monitors, pc[m] \in {"get", "handle", "withdraw", "delete", "clean"},
              pc' = [pc EXCEPT ![m] = "failed"], missed' = [missed EXCEPT ![key[m]] = @ + 1],
              UNCHANGED <<failures, key, seen>>
       PROVE  FailuresPaid'
  <2>1. key[m] \in Keys
    BY <1>11 DEF MonitorTypeOK
  <2>2. /\ missed'[key[m]] = missed[key[m]] + 1 /\ missed[key[m]] \in Nat
        /\ \A k \in Keys : k # key[m] => missed'[k] = missed[k]
    BY <1>11, <2>1 DEF MonitorTypeOK
  <2>3. \A k \in Keys : failures[k] \in Nat /\ missed[k] \in Nat
    BY DEF MonitorTypeOK
  <2>4. pc'[m] = "failed" /\ \A n \in Monitors : n # m => pc'[n] = pc[n]
    BY <1>11 DEF MonitorTypeOK
  <2>5. \A n \in Monitors : n # m /\ pc[n] # "visit" => key[n] \in Keys /\ key[n] # key[m]
    BY <1>3, <1>11 DEF MonitorTypeOK
  <2>6. QED
    BY <1>2, <1>11, <2>1, <2>2, <2>3, <2>4, <2>5
<1>12. ASSUME NEW m \in Monitors, Raise(m) PROVE FailuresPaid'
  BY <1>11, <1>12 DEF Raise, Noted, Goto, redis
<1>13. ASSUME NEW m \in Monitors, GetValue(m) PROVE FailuresPaid'
  <2>1. UNCHANGED <<failures, key, seen>> /\ pc[m] = "get"
    BY <1>13 DEF GetValue, Refused, redis
  <2>2. CASE PreconditionRaises(m)
    BY <1>11, <1>13, <2>1, <2>2 DEF GetValue, Refused, Noted, Goto
  <2>3. CASE ~PreconditionRaises(m)
    BY <1>7, <1>13, <2>1, <2>3 DEF GetValue, Refused, Goto
  <2>4. QED
    BY <2>2, <2>3
\* The slate is clean.
<1>14. ASSUME NEW m \in Monitors, CleanFailKey(m) PROVE FailuresPaid'
  <2>1. key[m] \in Keys /\ pc[m] = "clean"
    BY <1>14 DEF CleanFailKey, MonitorTypeOK
  <2>2. /\ failures'[key[m]] = 0 /\ missed'[key[m]] = 0
        /\ \A k \in Keys : k # key[m] => failures'[k] = failures[k] /\ missed'[k] = missed[k]
    BY <1>14, <2>1 DEF CleanFailKey, MonitorTypeOK
  <2>3. pc'[m] = "release" /\ \A n \in Monitors : n # m => pc'[n] = pc[n]
    BY <1>14 DEF CleanFailKey, Goto, MonitorTypeOK
  <2>4. \A n \in Monitors : n # m /\ pc[n] # "visit" => key[n] \in Keys /\ key[n] # key[m]
    BY <1>3, <2>1 DEF MonitorTypeOK
  <2>5. UNCHANGED <<key, seen>>
    BY <1>14 DEF CleanFailKey
  <2>6. QED
    BY <1>2, <2>1, <2>2, <2>3, <2>4, <2>5
<1>15. ASSUME NEW m \in Monitors, ReadFailures(m) PROVE FailuresPaid'
  <2>1. key[m] \in Keys /\ pc[m] = "failed" /\ UNCHANGED <<failures, missed, key>>
    BY <1>15 DEF ReadFailures, MonitorTypeOK, redis, history
  <2>2. /\ pc'[m] \in {"release", "count", "forgive"}
        /\ pc'[m] = "count" => seen'[m] = failures[key[m]]
        /\ \A n \in Monitors : n # m => pc'[n] = pc[n] /\ seen'[n] = seen[n]
    BY <1>15 DEF ReadFailures, Goto, MonitorTypeOK
  <2>3. QED
    BY <1>2, <2>1, <2>2
<1>16. ASSUME NEW m \in Monitors, CountFailure(m) PROVE FailuresPaid'
  <2>1. key[m] \in Keys /\ pc[m] = "count" /\ UNCHANGED <<missed, key, seen>> /\ seen[m] \in Nat
    BY <1>16 DEF CountFailure, MonitorTypeOK, history
  <2>2. /\ failures'[key[m]] = seen[m] + 1
        /\ \A k \in Keys : k # key[m] => failures'[k] = failures[k]
    BY <1>16, <2>1 DEF CountFailure, Increased, MonitorTypeOK
  <2>3. pc'[m] = "release" /\ \A n \in Monitors : n # m => pc'[n] = pc[n]
    BY <1>16 DEF CountFailure, Goto, MonitorTypeOK
  <2>4. \A n \in Monitors : n # m /\ pc[n] # "visit" => key[n] \in Keys /\ key[n] # key[m]
    BY <1>3, <2>1 DEF MonitorTypeOK
  <2>5. missed[key[m]] \in Nat
    BY <2>1 DEF MonitorTypeOK
  <2>6. QED
    BY <1>2, <2>1, <2>2, <2>3, <2>4, <2>5
<1>17. ASSUME NEW m \in Monitors, ForgiveFailures(m) PROVE FailuresPaid'
  <2>1. key[m] \in Keys /\ pc[m] = "forgive" /\ UNCHANGED <<missed, key, seen>>
    BY <1>17 DEF ForgiveFailures, MonitorTypeOK, history
  <2>2. /\ failures'[key[m]] = 0
        /\ \A k \in Keys : k # key[m] => failures'[k] = failures[k]
    BY <1>17, <2>1 DEF ForgiveFailures, MonitorTypeOK
  <2>3. pc'[m] = "drop" /\ \A n \in Monitors : n # m => pc'[n] = pc[n]
    BY <1>17 DEF ForgiveFailures, Goto, MonitorTypeOK
  <2>4. \A n \in Monitors : n # m /\ pc[n] # "visit" => key[n] \in Keys /\ key[n] # key[m]
    BY <1>3, <2>1 DEF MonitorTypeOK
  <2>5. missed[key[m]] \in Nat
    BY <2>1 DEF MonitorTypeOK
  <2>6. QED
    BY <1>2, <2>1, <2>2, <2>3, <2>4, <2>5
<1>18. ASSUME NEW m \in Monitors, DropKey(m) PROVE FailuresPaid'
  <2>1. key[m] \in Keys /\ pc[m] = "drop" /\ UNCHANGED <<failures, key, seen>>
    BY <1>18 DEF DropKey, MonitorTypeOK
  <2>2. /\ missed'[key[m]] = 0
        /\ \A k \in Keys : k # key[m] => missed'[k] = missed[k]
    BY <1>18, <2>1 DEF DropKey, MonitorTypeOK
  <2>3. pc'[m] = "release" /\ \A n \in Monitors : n # m => pc'[n] = pc[n]
    BY <1>18 DEF DropKey, Goto, MonitorTypeOK
  <2>4. \A n \in Monitors : n # m /\ pc[n] # "visit" => key[n] \in Keys /\ key[n] # key[m]
    BY <1>3, <2>1 DEF MonitorTypeOK
  <2>5. QED
    BY <1>2, <2>1, <2>2, <2>3, <2>4
<1>19. ASSUME NEW k \in Keys, LoseLock(k) PROVE FALSE
  BY <1>1, <1>19 DEF LoseLock
<1>20. CASE UNCHANGED vars
  BY <1>4, <1>20 DEF vars, redis, locals, history
<1>21. QED
  BY <1>5, <1>6, <1>8, <1>9, <1>10, <1>12, <1>13, <1>14, <1>15, <1>16, <1>17, <1>18, <1>19, <1>20
  DEF Next, MonitorStep

\* A key is given up only after RETRY_FAILURES_MAX + 1 failed attempts at it, whatever
\* crashes come in between, as long as no monitor stalls.
THEOREM GiveUpsAreEarned ==
    ASSUME KeepHistory
    PROVE  Spec => GiveUpCounted
<1> DEFINE Earned ==
        \A m \in Monitors : stalls = 0 /\ pc[m] = "failed" /\ pc'[m] = "forgive"
                            => missed[key[m]] > MaxFailures
<1>1. Init => FailuresInv
  BY DEF Init, FailuresInv, FailuresPaid
<1>2. MonitorTypeOK /\ InCharge /\ FailuresInv /\ [Next]_vars => FailuresInv'
  BY FailuresStep
<1>3. MonitorTypeOK /\ InCharge /\ FailuresInv /\ [Next]_vars => [Earned]_vars
  <2> SUFFICES ASSUME MonitorTypeOK, FailuresInv, [Next]_vars,
                      NEW m \in Monitors, stalls = 0, pc[m] = "failed", pc'[m] = "forgive"
               PROVE  missed[key[m]] > MaxFailures
    OBVIOUS
  <2>1. ReadFailures(m)
    <3>1. \A n \in Monitors : n # m => pc'[m] = pc[m] \/ (~MonitorStep(n) /\ ~Crash(n))
      BY DEF MonitorStep, StartScan, Acquire, GetValue, Handle, Withdraw, Raise, DeleteKey,
         CleanFailKey, ReadFailures, CountFailure, ForgiveFailures, DropKey, Release, Crash,
         Forget, Goto, MonitorTypeOK
    <3>2. pc'[m] # pc[m]
      OBVIOUS
    <3>3. Crash(m) => pc'[m] = "visit"
      BY DEF Crash, Forget, Goto, MonitorTypeOK
    <3>4. MonitorStep(m) => ReadFailures(m)
      BY DEF MonitorStep, StartScan, Acquire, GetValue, Handle, Withdraw, Raise, DeleteKey,
         CleanFailKey, CountFailure, ForgiveFailures, DropKey, Release
    <3>5. \A k \in Keys : Submit(k) \/ ComeDue(k) \/ VacantLockExpires(k) \/ LoseLock(k) => pc' = pc
      BY DEF Submit, ComeDue, VacantLockExpires, LoseLock, locals
    <3>6. UNCHANGED vars => pc' = pc
      BY DEF vars, locals
    <3>7. QED
      BY <3>1, <3>2, <3>3, <3>4, <3>5, <3>6 DEF Next
  <2>2. key[m] \in Keys
    BY DEF MonitorTypeOK
  <2>3. /\ failures[key[m]] \in Nat /\ missed[key[m]] \in Nat /\ MaxFailures \in Nat
        /\ failures[key[m]] < missed[key[m]]
    BY <2>2, MonitorAssumption DEF MonitorTypeOK, MonitorAssumption, FailuresInv, FailuresPaid
  <2>4. ~(failures[key[m]] < MaxFailures)
    BY <2>1 DEF ReadFailures, MayRetry, Goto, MonitorTypeOK
  <2>5. QED
    BY <2>3, <2>4
<1>4. QED
  BY <1>1, <1>2, <1>3, MonitorTypeCorrect, WorkersAreInCharge, PTL DEF Spec, GiveUpCounted

----------------------------------------------------------------------------
\* Requests are numbered as they come, and a monitor reads the newest at its key.
LEMMA ReadBeforeStep ==
    ASSUME MonitorTypeOK, OneKeyEach, ReadBefore, [Next]_vars
    PROVE  ReadBefore'
<1> USE MonitorAssumption DEF MonitorAssumption, ReadBefore
<1>1. \A k \in Keys : store[k] \in Nat
  BY DEF MonitorTypeOK
<1>2. \A m \in Monitors : val[m] \in Nat /\ (pc[m] = "visit" => val[m] = 0)
  BY DEF MonitorTypeOK, OneKeyEach
<1>3. ASSUME NEW k \in Keys, Submit(k) PROVE ReadBefore'
  BY <1>1, <1>2, <1>3 DEF Submit, locals, MonitorTypeOK
\* DEL and nothing else.
<1>4. ASSUME NEW k \in Keys, Delete(k), UNCHANGED <<key, val>> PROVE ReadBefore'
  BY <1>1, <1>2, <1>4 DEF Delete, MonitorTypeOK
<1>5. ASSUME NEW m \in Monitors, Acquire(m) PROVE ReadBefore'
  BY <1>1, <1>2, <1>5 DEF Acquire, MonitorTypeOK
<1>6. ASSUME NEW m \in Monitors, GetValue(m) PROVE ReadBefore'
  BY <1>1, <1>2, <1>6 DEF GetValue, redis, MonitorTypeOK
<1>7. ASSUME NEW m \in Monitors, Release(m) \/ Crash(m) PROVE ReadBefore'
  BY <1>1, <1>2, <1>7 DEF Release, Crash, Forget, MonitorTypeOK
<1>8. ASSUME NEW m \in Monitors, Withdraw(m) \/ DeleteKey(m) \/ DropKey(m) PROVE ReadBefore'
  <2>1. UNCHANGED <<key, val>> /\ key[m] \in Keys
    BY <1>8 DEF Withdraw, DeleteKey, DropKey, MonitorTypeOK
  <2>2. UNCHANGED store \/ \E k \in Keys : Delete(k)
    BY <1>8, <2>1 DEF Withdraw, DeleteKey, DropKey
  <2>3. QED
    BY <1>4, <2>1, <2>2
<1>9. ASSUME UNCHANGED <<store, key, val>> PROVE ReadBefore'
  BY <1>9
<1>10. ASSUME NEW m \in Monitors,
              \/ StartScan(m) \/ Handle(m) \/ Raise(m) \/ CleanFailKey(m) \/ ReadFailures(m)
              \/ CountFailure(m) \/ ForgiveFailures(m)
       PROVE  ReadBefore'
  BY <1>9, <1>10 DEF StartScan, Handle, Raise, CleanFailKey, ReadFailures, CountFailure,
     ForgiveFailures, redis
<1>11. ASSUME NEW k \in Keys, ComeDue(k) \/ VacantLockExpires(k) \/ LoseLock(k) PROVE ReadBefore'
  BY <1>9, <1>11 DEF ComeDue, VacantLockExpires, LoseLock, redis, locals
<1>12. CASE UNCHANGED vars
  BY <1>9, <1>12 DEF vars, redis, locals
<1>13. QED
  BY <1>3, <1>5, <1>6, <1>7, <1>8, <1>10, <1>11, <1>12 DEF Next, MonitorStep

\* Nothing that was acted on is forgotten, and nobody comes to the DEL after handle past it.
LEMMA ActedFirstStep ==
    ASSUME KeepHistory, MonitorTypeOK, ActedFirst, [Next]_vars
    PROVE  ActedFirst'
<1> USE MonitorAssumption DEF MonitorAssumption, ActedFirst
<1>1. \A m \in Monitors : val[m] # 0 => val[m] \in Requests
  BY DEF MonitorTypeOK, Requests
<1>2. \A r \in Requests : acted[r] \in Nat
  BY DEF MonitorTypeOK
\* A monitor moves to a step that nothing is said of.
<1>3. ASSUME NEW m \in Monitors, NEW to, to \notin {"withdraw", "delete"},
             pc' = [pc EXCEPT ![m] = to], UNCHANGED acted,
             \A n \in Monitors : n # m => val'[n] = val[n]
      PROVE  ActedFirst'
  <2>1. pc'[m] = to /\ \A n \in Monitors : n # m => pc'[n] = pc[n]
    BY <1>3 DEF MonitorTypeOK
  <2>2. QED
    BY <1>3, <2>1
<1>4. ASSUME UNCHANGED <<pc, val, acted>> PROVE ActedFirst'
  BY <1>4
<1>5. ASSUME NEW k \in Keys, Submit(k) \/ ComeDue(k) \/ VacantLockExpires(k) \/ LoseLock(k)
      PROVE  ActedFirst'
  BY <1>4, <1>5 DEF Submit, ComeDue, VacantLockExpires, LoseLock, locals, history
<1>6. ASSUME NEW m \in Monitors, StartScan(m) PROVE ActedFirst'
  BY <1>4, <1>6 DEF StartScan, history
<1>7. ASSUME NEW m \in Monitors, Acquire(m) PROVE ActedFirst'
  BY <1>3, <1>4, <1>7 DEF Acquire, Goto, history
<1>8. ASSUME NEW m \in Monitors, GetValue(m) PROVE ActedFirst'
  <2>1. UNCHANGED acted /\ \A n \in Monitors : n # m => val'[n] = val[n]
    BY <1>8 DEF GetValue, MonitorTypeOK
  <2>2. Goto(m, "failed") \/ Goto(m, "handle") \/ Goto(m, "release")
    BY <1>8 DEF GetValue, Refused
  <2>3. QED
    BY <1>3, <2>1, <2>2 DEF Goto
<1>9. ASSUME NEW m \in Monitors, Handle(m) PROVE ActedFirst'
  <2>1. UNCHANGED val /\ \A n \in Monitors : n # m => pc'[n] = pc[n]
    BY <1>9 DEF Handle, Goto, MonitorTypeOK
  <2>2. \A r \in Requests : acted'[r] >= acted[r]
    BY <1>1, <1>2, <1>9 DEF Handle, Noted, MonitorTypeOK
  <2>3. val[m] # 0 => acted'[val[m]] > 0
    BY <1>1, <1>2, <1>9 DEF Handle, Noted, MonitorTypeOK
  <2>4. \A r \in Requests : acted'[r] \in Nat
    BY <1>1, <1>2, <1>9 DEF Handle, Noted, MonitorTypeOK
  <2>5. QED
    BY <1>1, <1>2, <2>1, <2>2, <2>3, <2>4
<1>10. ASSUME NEW m \in Monitors, Withdraw(m) PROVE ActedFirst'
  <2>1. UNCHANGED <<val, acted>> /\ pc[m] = "withdraw" /\ \A n \in Monitors : n # m => pc'[n] = pc[n]
    BY <1>10 DEF Withdraw, Goto, MonitorTypeOK
  <2>2. QED
    BY <2>1
<1>11. ASSUME NEW m \in Monitors, Raise(m) \/ DeleteKey(m) \/ CleanFailKey(m) PROVE ActedFirst'
  BY <1>3, <1>11 DEF Raise, DeleteKey, CleanFailKey, Goto
<1>12. ASSUME NEW m \in Monitors, ReadFailures(m) PROVE ActedFirst'
  BY <1>3, <1>12 DEF ReadFailures, Goto, history
<1>13. ASSUME NEW m \in Monitors, CountFailure(m) \/ ForgiveFailures(m) \/ DropKey(m) PROVE ActedFirst'
  BY <1>3, <1>13 DEF CountFailure, ForgiveFailures, DropKey, Goto, history
<1>14. ASSUME NEW m \in Monitors, Release(m) \/ Crash(m) PROVE ActedFirst'
  BY <1>3, <1>14 DEF Release, Crash, Forget, Goto, history, MonitorTypeOK
<1>15. CASE UNCHANGED vars
  BY <1>4, <1>15 DEF vars, locals, history
<1>16. QED
  BY <1>5, <1>6, <1>7, <1>8, <1>9, <1>10, <1>11, <1>12, <1>13, <1>14, <1>15 DEF Next, MonitorStep

\* The failed attempts at a key that is given up are not struck out before its DEL: only
\* the monitor that works on a key strikes them out.
LEMMA GivenUpStep ==
    ASSUME KeepHistory, MonitorTypeOK, InCharge, FailuresInv, GivenUp, [Next]_vars
    PROVE  GivenUp'
<1> USE MonitorAssumption DEF MonitorAssumption
<1> DEFINE PaidFor == \A m \in Monitors : pc[m] \in {"forgive", "drop"} => missed[key[m]] > MaxFailures
<1> SUFFICES ASSUME stalls' = 0 PROVE PaidFor'
  BY DEF GivenUp
<1>1. stalls = 0
  <2>1. stalls' \in {stalls, stalls + 1} /\ stalls \in Nat
    BY DEF Next, MonitorStep, StartScan, Acquire, GetValue, Handle, Withdraw, Raise, DeleteKey,
       CleanFailKey, ReadFailures, CountFailure, ForgiveFailures, DropKey, Release, Crash, Submit,
       ComeDue, VacantLockExpires, LoseLock, vars, history, MonitorTypeOK
  <2>2. QED
    BY <2>1
<1>2. PaidFor
  BY <1>1 DEF GivenUp
<1>3. \A m, n \in Monitors : Working(m) /\ Working(n) /\ key[m] = key[n] => m = n
  BY <1>1 DEF InCharge
<1>4. \A k \in Keys : missed[k] \in Nat
  BY DEF MonitorTypeOK
<1>5. \A m \in Monitors : Working(m) => key[m] \in Keys
  BY DEF MonitorTypeOK, Working
<1>6. ASSUME UNCHANGED <<missed, pc, key>> PROVE PaidFor'
  BY <1>2, <1>6
\* A monitor moves to a step that nothing is said of, and changes at most its own key's count.
<1>7. ASSUME NEW m \in Monitors, NEW to, to \notin {"forgive", "drop"}, Working(m),
             pc' = [pc EXCEPT ![m] = to],
             \A n \in Monitors : n # m => key'[n] = key[n],
             \A k \in Keys : k # key[m] => missed'[k] = missed[k]
      PROVE  PaidFor'
  <2>1. pc'[m] = to /\ \A n \in Monitors : n # m => pc'[n] = pc[n]
    BY <1>7 DEF MonitorTypeOK
  <2>2. \A n \in Monitors : n # m /\ Working(n) => key[n] \in Keys /\ key[n] # key[m]
    BY <1>3, <1>5, <1>7
  <2>3. \A n \in Monitors : pc[n] \in {"forgive", "drop"} => Working(n)
    BY DEF Working
  <2>4. QED
    BY <1>2, <1>7, <2>1, <2>2, <2>3
<1>8. ASSUME NEW k \in Keys, Submit(k) \/ ComeDue(k) \/ VacantLockExpires(k) PROVE PaidFor'
  BY <1>6, <1>8 DEF Submit, ComeDue, VacantLockExpires, redis, locals, history
<1>9. ASSUME NEW k \in Keys, LoseLock(k) PROVE FALSE
  BY <1>1, <1>9 DEF LoseLock
<1>10. ASSUME NEW m \in Monitors, StartScan(m) PROVE PaidFor'
  BY <1>6, <1>10 DEF StartScan, history
<1>11. ASSUME NEW m \in Monitors, Acquire(m) PROVE PaidFor'
  <2>1. /\ UNCHANGED missed /\ pc[m] = "visit" /\ pc'[m] \in {"visit", "get"}
        /\ \A n \in Monitors : n # m => pc'[n] = pc[n] /\ key'[n] = key[n]
    BY <1>11 DEF Acquire, Goto, history, MonitorTypeOK
  <2>2. QED
    BY <1>2, <2>1
<1>12. ASSUME NEW m \in Monitors, GetValue(m) PROVE PaidFor'
  <2>1. Working(m) /\ UNCHANGED key
    BY <1>12 DEF GetValue, Working
  <2>2. \A k \in Keys : k # key[m] => missed'[k] = missed[k]
    BY <1>12 DEF GetValue, Noted, MonitorTypeOK
  <2>3. Goto(m, "failed") \/ Goto(m, "handle") \/ Goto(m, "release")
    BY <1>12 DEF GetValue, Refused
  <2>4. QED
    BY <1>7, <2>1, <2>2, <2>3 DEF Goto
<1>13. ASSUME NEW m \in Monitors, Handle(m) \/ Withdraw(m) \/ DeleteKey(m) PROVE PaidFor'
  BY <1>7, <1>13 DEF Handle, Withdraw, DeleteKey, Goto, Working
<1>14. ASSUME NEW m \in Monitors, Raise(m) PROVE PaidFor'
  <2>1. Working(m) /\ UNCHANGED key /\ Goto(m, "failed")
    BY <1>14 DEF Raise, Working
  <2>2. \A k \in Keys : k # key[m] => missed'[k] = missed[k]
    BY <1>14 DEF Raise, Noted, MonitorTypeOK
  <2>3. QED
    BY <1>7, <2>1, <2>2 DEF Goto
<1>15. ASSUME NEW m \in Monitors, CleanFailKey(m) \/ DropKey(m) PROVE PaidFor'
  <2>1. Working(m) /\ UNCHANGED key /\ Goto(m, "release")
    BY <1>15 DEF CleanFailKey, DropKey, Working
  <2>2. \A k \in Keys : k # key[m] => missed'[k] = missed[k]
    BY <1>15 DEF CleanFailKey, DropKey, MonitorTypeOK
  <2>3. QED
    BY <1>7, <2>1, <2>2 DEF Goto
\* The key is given up.
<1>16. ASSUME NEW m \in Monitors, ReadFailures(m) PROVE PaidFor'
  <2>1. UNCHANGED <<missed, key>> /\ pc[m] = "failed" /\ key[m] \in Keys
    BY <1>16 DEF ReadFailures, history, MonitorTypeOK
  <2>2. \A n \in Monitors : n # m => pc'[n] = pc[n]
    BY <1>16 DEF ReadFailures, Goto, MonitorTypeOK
  <2>3. /\ pc'[m] \in {"count", "forgive", "release"}
        /\ pc'[m] = "forgive" => ~(failures[key[m]] < MaxFailures)
    BY <1>16 DEF ReadFailures, MayRetry, Goto, MonitorTypeOK
  <2>4. /\ failures[key[m]] \in Nat /\ missed[key[m]] \in Nat
        /\ failures[key[m]] < missed[key[m]]
    BY <1>1, <2>1 DEF MonitorTypeOK, FailuresInv, FailuresPaid
  <2>5. pc'[m] = "forgive" => missed[key[m]] > MaxFailures
    BY <2>3, <2>4
  <2>6. QED
    BY <1>2, <2>1, <2>2, <2>3, <2>5
<1>17. ASSUME NEW m \in Monitors, CountFailure(m) PROVE PaidFor'
  BY <1>7, <1>17 DEF CountFailure, Goto, Working, history
<1>18. ASSUME NEW m \in Monitors, ForgiveFailures(m) PROVE PaidFor'
  <2>1. UNCHANGED <<missed, key>> /\ pc[m] = "forgive" /\ \A n \in Monitors : n # m => pc'[n] = pc[n]
    BY <1>18 DEF ForgiveFailures, Goto, history, MonitorTypeOK
  <2>2. QED
    BY <1>2, <2>1
<1>19. ASSUME NEW m \in Monitors, Release(m) \/ Crash(m) PROVE PaidFor'
  <2>1. /\ UNCHANGED missed /\ pc'[m] = "visit"
        /\ \A n \in Monitors : n # m => pc'[n] = pc[n] /\ key'[n] = key[n]
    BY <1>19 DEF Release, Crash, Forget, Goto, history, MonitorTypeOK
  <2>2. QED
    BY <1>2, <2>1
<1>20. CASE UNCHANGED vars
  BY <1>6, <1>20 DEF vars, locals, history
<1>21. QED
  BY <1>8, <1>9, <1>10, <1>11, <1>12, <1>13, <1>14, <1>15, <1>16, <1>17, <1>18, <1>19, <1>20
  DEF Next, MonitorStep

\* A stored request goes away only for a cause: it was acted on, its key has failed more than
\* RETRY_FAILURES_MAX times, a stop took its timeout, or it came while its key was handled.
THEOREM RequestsLeaveForCause ==
    ASSUME KeepHistory
    PROVE  Spec => TakenForCause
<1> DEFINE Cause(k) ==
          \/ acted[store[k]] > 0
          \/ \E m \in Monitors :
                \/ pc[m] = "drop" /\ key[m] = k /\ (stalls = 0 => missed[k] > MaxFailures)
                \/ pc[m] = "withdraw" /\ pc'[m] = "delete" /\ k \in Timed
                \/ pc[m] = "delete" /\ key[m] = k /\ val[m] < store[k]
<1> DEFINE ForCause == \A k \in Keys : store[k] # 0 /\ store'[k] = 0 => Cause(k)
<1>1. Init => CauseInv /\ FailuresInv
  BY DEF Init, CauseInv, OneKeyEach, ReadBefore, ActedFirst, GivenUp, FailuresInv, FailuresPaid
<1>2. MonitorTypeOK /\ InCharge /\ FailuresInv /\ CauseInv /\ [Next]_vars => CauseInv' /\ FailuresInv'
  BY OneKeyStep, ReadBeforeStep, ActedFirstStep, GivenUpStep, FailuresStep DEF CauseInv
<1>3. MonitorTypeOK /\ CauseInv /\ [Next]_vars => [ForCause]_vars
  <2> SUFFICES ASSUME MonitorTypeOK, CauseInv, [Next]_vars, NEW k \in Keys,
                      store[k] # 0, store'[k] = 0
               PROVE  Cause(k)
    OBVIOUS
  <2>1. ASSUME NEW m \in Monitors, DeleteKey(m) PROVE Cause(k)
    <3>1. pc[m] = "delete" /\ key[m] = k
      BY <2>1 DEF DeleteKey, Delete, MonitorTypeOK
    <3>2. val[m] = store[k] \/ val[m] < store[k]
      BY <3>1 DEF CauseInv, ReadBefore, MonitorTypeOK
    <3>3. val[m] = store[k] => acted[store[k]] > 0
      BY <3>1 DEF CauseInv, ActedFirst
    <3>4. QED
      BY <3>1, <3>2, <3>3
  <2>2. ASSUME NEW m \in Monitors, DropKey(m) PROVE Cause(k)
    <3>1. pc[m] = "drop" /\ key[m] = k
      BY <2>2 DEF DropKey, Delete, MonitorTypeOK
    <3>2. QED
      BY <3>1 DEF CauseInv, GivenUp
  <2>3. ASSUME NEW m \in Monitors, Withdraw(m) PROVE Cause(k)
    <3>1. pc[m] = "withdraw" /\ pc'[m] = "delete"
      BY <2>3 DEF Withdraw, Goto, MonitorTypeOK
    <3>2. k \in Timed
      BY <2>3, MonitorAssumption DEF Withdraw, Delete, MonitorTypeOK, MonitorAssumption
    <3>3. QED
      BY <3>1, <3>2
  \* Every other step leaves what is stored, or stores more.
  <2>4. ASSUME UNCHANGED store \/ \E d \in Keys : Submit(d) PROVE FALSE
    BY <2>4 DEF Submit, MonitorTypeOK
  <2>5. ASSUME \/ \E m \in Monitors :
                    \/ StartScan(m) \/ Acquire(m) \/ GetValue(m) \/ Handle(m) \/ Raise(m)
                    \/ CleanFailKey(m) \/ ReadFailures(m) \/ CountFailure(m)
                    \/ ForgiveFailures(m) \/ Release(m) \/ Crash(m)
               \/ \E d \in Keys : ComeDue(d) \/ VacantLockExpires(d) \/ LoseLock(d)
               \/ UNCHANGED vars
        PROVE  UNCHANGED store
    BY <2>5 DEF StartScan, Acquire, GetValue, Handle, Raise, CleanFailKey, ReadFailures,
       CountFailure, ForgiveFailures, Release, Crash, ComeDue, VacantLockExpires, LoseLock, vars, redis
  <2> HIDE DEF Cause
  <2>6. QED
    BY <2>1, <2>2, <2>3, <2>4, <2>5 DEF Next, MonitorStep
<1>4. QED
  BY <1>1, <1>2, <1>3, MonitorTypeCorrect, WorkersAreInCharge, PTL DEF Spec, TakenForCause

----------------------------------------------------------------------------
LEMMA CallersFinite ==
    \A k : /\ IsFiniteSet(Ready(k)) /\ IsFiniteSet(Listed(k))
           /\ Cardinality(Ready(k)) \in Nat /\ Cardinality(Listed(k)) \in Nat /\ Callers(k) \in Nat
<1>1. IsFiniteSet(Monitors)
  BY MonitorAssumption DEF MonitorAssumption
<1>2. \A k : Ready(k) \subseteq Monitors /\ Listed(k) \subseteq Monitors
  BY DEF Ready, Listed
<1>3. \A k : IsFiniteSet(Ready(k)) /\ IsFiniteSet(Listed(k))
  BY <1>1, <1>2, FS_Subset
<1>4. \A k : Cardinality(Ready(k)) \in Nat /\ Cardinality(Listed(k)) \in Nat
  BY <1>3, FS_CardinalityType
<1>5. QED
  BY <1>3, <1>4 DEF Callers

\* The same after a step.
LEMMA ReadyTyped == \A k : Callers(k)' \in Nat
<1>1. IsFiniteSet(Monitors)
  BY MonitorAssumption DEF MonitorAssumption
<1>2. \A k : Ready(k)' \subseteq Monitors /\ Listed(k)' \subseteq Monitors
  BY DEF Ready, Listed
<1>3. QED
  BY <1>1, <1>2, FewerTokens DEF Callers

\* Most steps bring no new caller: a reply names no key that is away, and what is on a list,
\* read or held was there before.
LEMMA NoNewCaller ==
    ASSUME MonitorTypeOK, NEW k \in Keys, store'[k] = 0 => store[k] = 0,
           \/ \E m \in Monitors :
                 \/ StartScan(m) \/ GetValue(m) \/ Handle(m) \/ Withdraw(m) \/ Raise(m)
                 \/ DeleteKey(m) \/ CleanFailKey(m) \/ ReadFailures(m) \/ CountFailure(m)
                 \/ ForgiveFailures(m) \/ DropKey(m) \/ Release(m) \/ Crash(m)
           \/ \E d \in Keys : Submit(d) \/ ComeDue(d) \/ VacantLockExpires(d) \/ LoseLock(d)
           \/ UNCHANGED vars
    PROVE  Ready(k)' \subseteq Ready(k) /\ Listed(k)' \subseteq Listed(k)
<1> DEFINE Fewer == Ready(k)' \subseteq Ready(k) /\ Listed(k)' \subseteq Listed(k)
<1> USE DEF Ready, Listed, Working, MonitorTypeOK
<1>1. ASSUME NEW m \in Monitors, StartScan(m) PROVE Fewer
  BY <1>1 DEF StartScan, redis, Matching
<1>2. ASSUME NEW m \in Monitors, GetValue(m) PROVE Fewer
  BY <1>2 DEF GetValue, Refused, Goto, redis
<1>3. ASSUME NEW m \in Monitors, Handle(m) PROVE Fewer
  BY <1>3 DEF Handle, Goto, redis
<1>4. ASSUME NEW m \in Monitors, Release(m) \/ Crash(m) PROVE Fewer
  BY <1>4, MonitorAssumption DEF Release, Crash, Forget, Goto, MonitorAssumption
<1>5. ASSUME NEW m \in Monitors, Withdraw(m) \/ Raise(m) PROVE Fewer
  BY <1>5 DEF Withdraw, Raise, Goto, redis
<1>6. ASSUME NEW m \in Monitors, DeleteKey(m) \/ CleanFailKey(m) \/ ReadFailures(m) PROVE Fewer
  BY <1>6 DEF DeleteKey, CleanFailKey, ReadFailures, Goto, redis
<1>7. ASSUME NEW m \in Monitors, CountFailure(m) \/ ForgiveFailures(m) \/ DropKey(m) PROVE Fewer
  BY <1>7 DEF CountFailure, ForgiveFailures, DropKey, Goto
<1>8. ASSUME NEW d \in Keys, Submit(d) \/ ComeDue(d) \/ VacantLockExpires(d) \/ LoseLock(d)
      PROVE  Fewer
  BY <1>8 DEF Submit, ComeDue, VacantLockExpires, LoseLock, redis, locals
<1>9. ASSUME UNCHANGED vars PROVE Fewer
  BY <1>9 DEF vars, redis, locals
<1>10. QED
  BY <1>1, <1>2, <1>3, <1>4, <1>5, <1>6, <1>7, <1>8, <1>9

\* A key that is away and comes up on a list is exchanged for the call it leads to; one that
\* the reply names again was paid for.
LEMMA VisitStep ==
    ASSUME MonitorTypeOK, NEW m \in Monitors, Acquire(m), NEW k \in Keys
    PROVE  Callers(k)' + repeats <= Callers(k) + repeats'
<1>1. PICK d \in Keys :
         /\ d \in todo[m]
         /\ \/ todo' = [todo EXCEPT ![m] = @ \ {d}] /\ repeats' = repeats
            \/ todo' = todo /\ repeats' = repeats + 1
         /\ \/ key' = [key EXCEPT ![m] = d] /\ pc' = [pc EXCEPT ![m] = "get"]
            \/ key' = key /\ pc' = pc
  <2>1. todo[m] \subseteq Keys
    BY DEF MonitorTypeOK
  <2>2. QED
    BY <2>1 DEF Acquire, Goto
<1>2. /\ store' = store /\ val' = val /\ pc[m] = "visit" /\ repeats \in Nat
      /\ \A n \in Monitors : n # m => pc'[n] = pc[n] /\ key'[n] = key[n] /\ todo'[n] = todo[n]
      /\ todo'[m] \subseteq todo[m] /\ todo[m] \subseteq Keys
  BY <1>1 DEF Acquire, MonitorTypeOK
<1>3. /\ Cardinality(Ready(k)) \in Nat /\ Cardinality(Listed(k)) \in Nat
      /\ IsFiniteSet(Ready(k)) /\ IsFiniteSet(Listed(k))
  BY CallersFinite
<1>4. ASSUME Ready(k)' \subseteq Ready(k), Listed(k)' \subseteq Listed(k)
      PROVE  Callers(k)' + repeats <= Callers(k) + repeats'
  <2>1. /\ Cardinality(Ready(k)') \in Nat /\ Cardinality(Ready(k)') <= Cardinality(Ready(k))
        /\ Cardinality(Listed(k)') \in Nat /\ Cardinality(Listed(k)') <= Cardinality(Listed(k))
    BY <1>3, <1>4, FewerTokens
  <2>2. repeats' \in Nat /\ repeats <= repeats'
    BY <1>1, <1>2
  <2>3. QED
    BY <1>2, <1>3, <2>1, <2>2 DEF Callers
<1>5. CASE key' = key /\ pc' = pc
  <2>1. Ready(k)' \subseteq Ready(k) /\ Listed(k)' \subseteq Listed(k)
    BY <1>2, <1>5 DEF Ready, Listed, Working
  <2>2. QED
    BY <1>4, <2>1
<1>6. CASE key' = [key EXCEPT ![m] = d] /\ pc' = [pc EXCEPT ![m] = "get"]
  <2>1. key'[m] = d /\ pc'[m] = "get"
    BY <1>6 DEF MonitorTypeOK
  <2>2. CASE k # d
    <3>1. Ready(k)' \subseteq Ready(k) /\ Listed(k)' \subseteq Listed(k)
      BY <1>2, <2>1, <2>2 DEF Ready, Listed, Working
    <3>2. QED
      BY <1>4, <3>1
  <2>3. CASE k = d /\ store[k] = 0
    <3>1. Ready(k)' \subseteq Ready(k) \cup {m} /\ m \in Listed(k)
      BY <1>1, <1>2, <2>1, <2>3 DEF Ready, Listed, Working
    <3>2. Cardinality(Ready(k)') \in Nat /\ Cardinality(Ready(k)') <= Cardinality(Ready(k)) + 1
      BY <1>3, <3>1, TokenAdded
    <3>3. CASE todo' = [todo EXCEPT ![m] = @ \ {d}] /\ repeats' = repeats
      <4>1. k \notin todo'[m]
        BY <2>3, <3>3 DEF MonitorTypeOK
      <4>2. Listed(k)' \subseteq Listed(k) \ {m}
        BY <1>2, <2>3, <4>1 DEF Listed, Working
      <4>3. Cardinality(Listed(k)') \in Nat /\ Cardinality(Listed(k)') + 1 <= Cardinality(Listed(k))
        BY <1>3, <3>1, <4>2, TokenSpent
      <4>4. QED
        BY <1>2, <1>3, <3>2, <3>3, <4>3 DEF Callers
    <3>4. CASE todo' = todo /\ repeats' = repeats + 1
      <4>1. Listed(k)' \subseteq Listed(k)
        BY <1>2, <2>3, <3>4 DEF Listed, Working
      <4>2. Cardinality(Listed(k)') \in Nat /\ Cardinality(Listed(k)') <= Cardinality(Listed(k))
        BY <1>3, <4>1, FewerTokens
      <4>3. QED
        BY <1>2, <1>3, <3>2, <3>4, <4>2 DEF Callers
    <3>5. QED
      BY <1>1, <3>3, <3>4
  <2>4. CASE k = d /\ store[k] # 0
    <3>1. Ready(k)' \subseteq Ready(k)
      BY <1>2, <2>1, <2>4 DEF Ready
    <3>2. CASE todo' = [todo EXCEPT ![m] = @ \ {d}] /\ repeats' = repeats
      <4>1. k \notin todo'[m]
        BY <2>4, <3>2 DEF MonitorTypeOK
      <4>2. Listed(k)' \subseteq Listed(k)
        BY <1>2, <2>4, <4>1 DEF Listed, Working
      <4>3. QED
        BY <1>4, <3>1, <4>2
    <3>3. CASE todo' = todo /\ repeats' = repeats + 1
      <4>1. Listed(k)' \subseteq Listed(k) \cup {m}
        BY <1>2, <2>4, <3>3 DEF Listed, Working
      <4>2. Cardinality(Listed(k)') \in Nat /\ Cardinality(Listed(k)') <= Cardinality(Listed(k)) + 1
        BY <1>3, <4>1, TokenAdded
      <4>3. Cardinality(Ready(k)') \in Nat /\ Cardinality(Ready(k)') <= Cardinality(Ready(k))
        BY <1>3, <3>1, FewerTokens
      <4>4. QED
        BY <1>2, <1>3, <3>3, <4>2, <4>3 DEF Callers
    <3>4. QED
      BY <1>1, <3>2, <3>3
  <2>5. QED
    BY <2>2, <2>3, <2>4
<1>7. QED
  BY <1>1, <1>5, <1>6

\* Whoever takes a key away that is not a timeout was working on it, and is done with it: the
\* others may be about to read it, or come to it on their lists, and not both at once.
LEMMA TakingStep ==
    ASSUME MonitorTypeOK, NEW m \in Monitors, DeleteKey(m) \/ DropKey(m) \/ Withdraw(m),
           NEW k \in Keys, Delete(k), k \notin Timed => key[m] = k
    PROVE  Callers(k)' <= Callers(k) + Share(k)
<1> DEFINE Others == IF k \in Timed THEN Monitors ELSE Monitors \ {m}
           Reading == {n \in Monitors : pc[n] = "get" /\ key[n] = k}
           Named == {n \in Monitors : k \in todo[n] /\ ~(Working(n) /\ key[n] = k)}
<1>1. /\ pc[m] \in {"withdraw", "delete", "drop"} /\ pc'[m] \in {"delete", "clean", "release"}
      /\ \A n \in Monitors : n # m => pc'[n] = pc[n]
      /\ key' = key /\ val' = val /\ todo' = todo
  BY DEF DeleteKey, DropKey, Withdraw, Goto, MonitorTypeOK
<1>2. Reading \cup Named \subseteq Others /\ Reading \cap Named = {}
  BY <1>1 DEF Working
<1>3. Ready(k)' \subseteq Ready(k) \cup Reading
  BY <1>1 DEF Ready
<1>4. Listed(k)' \subseteq Listed(k) \cup Named
  BY <1>1 DEF Listed
<1>5. IsFiniteSet(Others) /\ Cardinality(Others) = Share(k)
  <2>1. IsFiniteSet(Monitors)
    BY MonitorAssumption DEF MonitorAssumption
  <2>2. Cardinality(Monitors) \in Nat
    BY <2>1, FS_CardinalityType
  <2>3. CASE k \in Timed
    BY <2>1, <2>2, <2>3 DEF Share
  <2>4. CASE k \notin Timed
    <3>1. IsFiniteSet(Monitors \ {m}) /\ Cardinality(Monitors \ {m}) = Cardinality(Monitors) - 1
      BY <2>1, FS_RemoveElement
    <3>2. QED
      BY <2>4, <3>1 DEF Share
  <2>5. QED
    BY <2>3, <2>4
<1> HIDE DEF Others, Reading, Named
<1>6. /\ IsFiniteSet(Reading) /\ IsFiniteSet(Named) /\ Share(k) \in Nat
      /\ Cardinality(Reading) \in Nat /\ Cardinality(Named) \in Nat
      /\ Cardinality(Reading) + Cardinality(Named) <= Share(k)
  <2>1. IsFiniteSet(Reading \cup Named) /\ Cardinality(Reading \cup Named) <= Share(k)
    BY <1>2, <1>5, FS_Subset
  <2>2. IsFiniteSet(Reading) /\ IsFiniteSet(Named)
    BY <2>1, FS_Subset
  <2>3. /\ Cardinality(Reading) \in Nat /\ Cardinality(Named) \in Nat /\ Share(k) \in Nat
    BY <1>5, <2>2, FS_CardinalityType
  <2>4. Cardinality(Reading \cup Named)
          = Cardinality(Reading) + Cardinality(Named) - Cardinality(Reading \cap Named)
    BY <2>2, FS_Union
  <2>5. Cardinality(Reading \cap Named) = 0
    BY <1>2, FS_EmptySet
  <2>6. QED
    BY <2>1, <2>2, <2>3, <2>4, <2>5
<1>7. /\ IsFiniteSet(Ready(k)) /\ IsFiniteSet(Listed(k))
      /\ Cardinality(Ready(k)) \in Nat /\ Cardinality(Listed(k)) \in Nat
  BY CallersFinite
<1>8. /\ Cardinality(Ready(k)') \in Nat
      /\ Cardinality(Ready(k)') <= Cardinality(Ready(k)) + Cardinality(Reading)
  BY <1>3, <1>6, <1>7, TokensUnited
<1>9. /\ Cardinality(Listed(k)') \in Nat
      /\ Cardinality(Listed(k)') <= Cardinality(Listed(k)) + Cardinality(Named)
  BY <1>4, <1>6, <1>7, TokensUnited
<1>10. QED
  BY <1>6, <1>7, <1>8, <1>9 DEF Callers

LEMMA GhostStep ==
    ASSUME KeepHistory, MonitorTypeOK, GhostInv, [Next]_vars
    PROVE  GhostInv'
<1> DEFINE Paid(k) == ghosts'[k] + Callers(k)' <= Share(k) * removed'[k] + repeats'
<1> SUFFICES ASSUME NEW k \in Keys PROVE Paid(k)
  BY DEF GhostInv, Share
<1>1. /\ ghosts[k] \in Nat /\ removed[k] \in Nat /\ repeats \in Nat
      /\ Share(k) \in Int /\ Share(k) * removed[k] \in Int /\ Callers(k) \in Nat
      /\ Cardinality(Ready(k)) \in Nat /\ Cardinality(Listed(k)) \in Nat
  <2>1. Cardinality(Monitors) \in Nat
    BY MonitorAssumption, FS_CardinalityType DEF MonitorAssumption
  <2>2. Share(k) \in Int /\ removed[k] \in Nat
    BY <2>1 DEF Share, MonitorTypeOK
  <2>3. QED
    BY <2>2, CallersFinite DEF MonitorTypeOK
<1>2. ghosts[k] + Callers(k) <= Share(k) * removed[k] + repeats
  BY DEF GhostInv
\* Nothing is taken away, and no handler called without a value.
<1>3. ASSUME Ready(k)' \subseteq Ready(k), Listed(k)' \subseteq Listed(k),
             ghosts'[k] = ghosts[k], removed'[k] = removed[k], repeats' = repeats
      PROVE  Paid(k)
  <2>1. /\ Cardinality(Ready(k)') \in Nat /\ Cardinality(Ready(k)') <= Cardinality(Ready(k))
        /\ Cardinality(Listed(k)') \in Nat /\ Cardinality(Listed(k)') <= Cardinality(Listed(k))
    BY <1>3, CallersFinite, FewerTokens
  <2>2. Callers(k)' \in Nat /\ Callers(k)' <= Callers(k)
    BY <1>1, <2>1 DEF Callers
  <2>3. QED
    BY <1>1, <1>2, <1>3, <2>2
\* DEL of a key.
<1>4. ASSUME NEW m \in Monitors, DeleteKey(m) \/ DropKey(m) \/ Withdraw(m),
             NEW d \in Keys, Delete(d), d \notin Timed => key[m] = d
      PROVE  Paid(k)
  <2>1. ghosts' = ghosts /\ repeats' = repeats
    BY <1>4 DEF DeleteKey, DropKey, Withdraw
  <2>2. CASE d = k /\ store[k] # 0
    <3>1. removed'[k] = removed[k] + 1
      BY <1>4, <2>2 DEF Delete, Noted, MonitorTypeOK
    <3>2. Callers(k)' <= Callers(k) + Share(k)
      BY <1>4, <2>2, TakingStep
    <3>3. Callers(k)' \in Nat
      BY ReadyTyped, <1>4
    <3>4. Share(k) * (removed[k] + 1) = Share(k) * removed[k] + Share(k)
      BY <1>1
    <3>5. QED
      BY <1>1, <1>2, <2>1, <3>1, <3>2, <3>3, <3>4
  <2>3. CASE d # k \/ store[k] = 0
    <3>1. removed'[k] = removed[k] /\ (store'[k] = 0 => store[k] = 0)
      BY <1>4, <2>3 DEF Delete, Noted, MonitorTypeOK
    <3>2. Ready(k)' \subseteq Ready(k) /\ Listed(k)' \subseteq Listed(k)
      BY <1>4, <3>1, NoNewCaller
    <3>3. QED
      BY <1>3, <2>1, <3>1, <3>2
  <2>4. QED
    BY <2>2, <2>3
<1>5. ASSUME NEW m \in Monitors, DeleteKey(m) \/ DropKey(m) PROVE Paid(k)
  <2>1. key[m] \in Keys /\ Delete(key[m])
    BY <1>5 DEF DeleteKey, DropKey, MonitorTypeOK
  <2>2. QED
    BY <1>4, <1>5, <2>1
<1>6. ASSUME NEW m \in Monitors, Withdraw(m) PROVE Paid(k)
  <2>1. CASE \E d \in Timed : Delete(d)
    BY <1>4, <1>6, <2>1, MonitorAssumption DEF MonitorAssumption
  <2>2. CASE UNCHANGED <<store, removed>>
    <3>1. Ready(k)' \subseteq Ready(k) /\ Listed(k)' \subseteq Listed(k)
      BY <1>6, <2>2, NoNewCaller
    <3>2. QED
      BY <1>3, <1>6, <2>2, <3>1 DEF Withdraw
  <2>3. QED
    BY <1>6, <2>1, <2>2 DEF Withdraw
\* The handler is called.
<1>7. ASSUME NEW m \in Monitors, Handle(m) PROVE Paid(k)
  <2>1. /\ removed' = removed /\ repeats' = repeats /\ store' = store
        /\ key' = key /\ val' = val /\ key[m] \in Keys /\ pc[m] = "handle"
    BY <1>7 DEF Handle, MonitorTypeOK, redis
  <2>2. Ready(k)' \subseteq Ready(k) /\ Listed(k)' \subseteq Listed(k)
    BY <1>7, <2>1, NoNewCaller
  <2>3. CASE val[m] = 0 /\ key[m] = k
    <3>1. ghosts'[k] = ghosts[k] + 1
      BY <1>7, <2>3 DEF Handle, Noted, MonitorTypeOK
    <3>2. pc'[m] \in {"delete", "withdraw"}
      BY <1>7 DEF Handle, Goto, MonitorTypeOK
    <3>3. m \in Ready(k) /\ m \notin Ready(k)'
      BY <2>1, <2>3, <3>2 DEF Ready
    <3>4. Ready(k)' \subseteq Ready(k) \ {m}
      BY <2>2, <3>3
    <3>5. Cardinality(Ready(k)') \in Nat /\ Cardinality(Ready(k)') + 1 <= Cardinality(Ready(k))
      BY <3>3, <3>4, CallersFinite, TokenSpent
    <3>6. Cardinality(Listed(k)') \in Nat /\ Cardinality(Listed(k)') <= Cardinality(Listed(k))
      BY <2>2, CallersFinite, FewerTokens
    <3>7. Callers(k)' \in Nat /\ Callers(k)' + 1 <= Callers(k)
      BY <1>1, <3>5, <3>6 DEF Callers
    <3>8. QED
      BY <1>1, <1>2, <2>1, <3>1, <3>7
  <2>4. CASE val[m] # 0 \/ key[m] # k
    <3>1. ghosts'[k] = ghosts[k]
      BY <1>7, <2>1, <2>4 DEF Handle, Noted, MonitorTypeOK
    <3>2. QED
      BY <1>3, <2>1, <2>2, <3>1
  <2>5. QED
    BY <2>3, <2>4
\* The monitor visits a key.
<1>8. ASSUME NEW m \in Monitors, Acquire(m) PROVE Paid(k)
  <2>1. ghosts' = ghosts /\ removed' = removed
    BY <1>8 DEF Acquire
  <2>2. repeats' \in Nat
    BY <1>1, <1>8 DEF Acquire
  <2>3. Callers(k)' + repeats <= Callers(k) + repeats'
    BY <1>8, VisitStep
  <2>4. Callers(k)' \in Nat
    BY ReadyTyped
  <2>5. QED
    BY <1>1, <1>2, <2>1, <2>2, <2>3, <2>4
\* The rest.
<1>9. ASSUME \/ \E m \in Monitors :
                   \/ StartScan(m) \/ GetValue(m) \/ Raise(m) \/ CleanFailKey(m)
                   \/ ReadFailures(m) \/ CountFailure(m) \/ ForgiveFailures(m) \/ Release(m)
                   \/ Crash(m)
             \/ \E d \in Keys : Submit(d) \/ ComeDue(d) \/ VacantLockExpires(d) \/ LoseLock(d)
             \/ UNCHANGED vars
      PROVE  Paid(k)
  <2>1. UNCHANGED <<ghosts, removed, repeats>>
    BY <1>9 DEF StartScan, GetValue, Raise, CleanFailKey, ReadFailures, CountFailure,
       ForgiveFailures, Release, Crash, Submit, ComeDue, VacantLockExpires, LoseLock, vars, history
  <2>2. store'[k] = 0 => store[k] = 0
    <3>1. store' = store \/ \E d \in Keys : Submit(d)
      BY <1>9 DEF StartScan, GetValue, Raise, CleanFailKey, ReadFailures, CountFailure,
         ForgiveFailures, Release, Crash, ComeDue, VacantLockExpires, LoseLock, vars, redis
    <3>2. QED
      BY <3>1 DEF Submit, MonitorTypeOK
  <2>3. Ready(k)' \subseteq Ready(k) /\ Listed(k)' \subseteq Listed(k)
    BY <1>9, <2>2, NoNewCaller
  <2>4. QED
    BY <1>3, <2>1, <2>3
<1> HIDE DEF Paid
<1>10. QED
  BY <1>5, <1>6, <1>7, <1>8, <1>9 DEF Next, MonitorStep

\* For each time a key is taken away, every monitor calls its handler at most once without a
\* value; the one that took it away does not, unless it is a timeout that a stop took; and
\* each time a reply of SCAN names a key once more pays for another call.
THEOREM GhostsAreBounded ==
    ASSUME KeepHistory
    PROVE  Spec => []GhostBound
<1>1. Init => GhostInv
  <2> SUFFICES ASSUME Init, NEW k \in Keys
               PROVE  ghosts[k] + Callers(k) <= Share(k) * removed[k] + repeats
    BY DEF GhostInv
  <2>1. Ready(k) = {} /\ Listed(k) = {} /\ ghosts[k] = 0 /\ removed[k] = 0 /\ repeats = 0
    BY DEF Init, Ready, Listed
  <2>2. Share(k) \in Int
    BY MonitorAssumption, FS_CardinalityType DEF MonitorAssumption, Share
  <2>3. Callers(k) = 0
    BY <2>1, FS_EmptySet DEF Callers
  <2>4. QED
    BY <2>1, <2>2, <2>3
<1>2. MonitorTypeOK /\ GhostInv /\ [Next]_vars => GhostInv'
  BY GhostStep
<1>3. MonitorTypeOK /\ GhostInv => GhostBound
  <2> SUFFICES ASSUME MonitorTypeOK, GhostInv, NEW k \in Keys
               PROVE  ghosts[k] <= Share(k) * removed[k] + repeats
    BY DEF GhostBound, Share
  <2>1. /\ ghosts[k] \in Nat /\ removed[k] \in Nat /\ repeats \in Nat /\ Share(k) \in Int
        /\ Callers(k) \in Nat
    BY MonitorAssumption, FS_CardinalityType, CallersFinite DEF MonitorTypeOK, MonitorAssumption, Share
  <2>2. Share(k) * removed[k] \in Int
    BY <2>1
  <2>3. QED
    BY <2>1, <2>2 DEF GhostInv
<1>4. QED
  BY <1>1, <1>2, <1>3, MonitorTypeCorrect, PTL DEF Spec
=============================================================================
