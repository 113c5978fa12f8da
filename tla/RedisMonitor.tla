---------------------------- MODULE RedisMonitor ----------------------------
(***************************************************************************)
(* redis-monitor/redis_monitor.py: several monitor processes look for      *)
(* action keys in one Redis, and handle each of them under a lock.  The    *)
(* plugins appear through what the monitor sees of them: check_precondition*)
(* may be false or raise, handle acts once and may raise before or after.  *)
(*                                                                         *)
(* The grain is one action per Redis command.  A value stored at a key is  *)
(* the number of the request that stored it, 0 when the key is absent.     *)
(***************************************************************************)
EXTENDS Integers, FiniteSets

CONSTANTS
    Monitors,      \* the monitor processes
    Keys,          \* the names of action keys
    Timed,         \* the keys of the expire plugin, timeout:*:*:*
    Nobody,        \* no owner of a lock
    Vacant,        \* the owner of a lock whose process has died
    Retry,         \* RETRY_FAILURES
    MaxFailures,   \* RETRY_FAILURES_MAX
    MaxRequests,   \* bound: the number of requests
    MaxTroubles,   \* bound: exceptions, restarts, lost locks and repeated keys in all
    KeepHistory    \* FALSE: no history is kept and exceptions have no bound

ASSUME MonitorAssumption ==
    /\ IsFiniteSet(Monitors)
    /\ Timed \subseteq Keys
    /\ Nobody \notin Monitors /\ Vacant \notin Monitors /\ Nobody # Vacant
    /\ Retry \in BOOLEAN /\ KeepHistory \in BOOLEAN
    /\ MaxFailures \in Nat /\ MaxRequests \in Nat /\ MaxTroubles \in Nat

VARIABLES
    store,        \* the request stored at each key
    due,          \* the requests whose time has come: all but pending timeouts
    failures,     \* lock:<key>:failures; 0 when absent
    lock,         \* the owner of each key's lock
    todo,         \* what is left of the SCAN reply each monitor goes through
    pc,           \* the command each monitor is about to send
    key,          \* the key a monitor works on; any key when it has none
    val,          \* the value it read there
    seen,         \* the failure count it read
    sent,         \* the number of requests so far
    acted,        \* history: how often each request was acted on
    ghosts,       \* history: how often a handler was called without a value
    removed,      \* history: how often each key was taken away
    missed,       \* history: failed attempts at each key since its last clean slate
    late,         \* history: exceptions after the handler had acted
    faults,       \* history: exceptions in plugins
    crashes,      \* history: restarts
    stalls,       \* history: locks lost by live monitors
    repeats       \* history: keys a SCAN reply named once more

redis == <<store, failures, lock>>
locals == <<todo, pc, key, val, seen>>
history == <<acted, ghosts, removed, missed,
             late, faults, crashes, stalls, repeats>>
vars == <<redis, due, locals, sent, history>>

Requests == 1..MaxRequests
Steps == {"visit", "get", "handle", "withdraw", "delete", "clean",
          "failed", "count", "forgive", "drop", "release"}

MonitorTypeOK ==
    /\ store \in [Keys -> 0..sent]
    /\ due \in SUBSET Requests
    /\ failures \in [Keys -> 0..MaxFailures]
    /\ lock \in [Keys -> Monitors \cup {Nobody, Vacant}]
    /\ todo \in [Monitors -> SUBSET Keys]
    /\ pc \in [Monitors -> Steps]
    /\ key \in [Monitors -> Keys \cup {Nobody}]
    /\ \A m \in Monitors : pc[m] # "visit" => key[m] \in Keys
    /\ val \in [Monitors -> 0..sent]
    /\ seen \in [Monitors -> 0..MaxFailures]
    /\ \A m \in Monitors : pc[m] = "count" => seen[m] < MaxFailures
    /\ sent \in 0..MaxRequests
    /\ acted \in [Requests -> Nat]
    /\ ghosts \in [Keys -> Nat] /\ removed \in [Keys -> Nat] /\ missed \in [Keys -> Nat]
    /\ late \in Nat /\ faults \in Nat /\ crashes \in Nat
    /\ stalls \in Nat /\ repeats \in Nat

----------------------------------------------------------------------------
(***************************************************************************)
(* Decisions of the code.  The name of a mistaken variant, which only a    *)
(* mutation uses, ends in Regardless, Always, Anyway or Never.             *)
(***************************************************************************)
\* The keys a reply of SCAN can name: those that are there, whatever becomes of
\* them while the loop goes through the reply.
MatchingAlways == Keys
Matching == {k \in Keys : store[k] # 0}

\* lock.acquire(blocking=False): SET NX.
FreeRegardless(k) == TRUE
Free(k) == lock[k] = Nobody

\* lock._held: the lock still carries this object's id.
HeldAnyway(m) == TRUE
Held(m) == lock[key[m]] = m

\* _process_failures: another attempt is allowed.
MayRetryAlways(n) == Retry
MayRetryNever(n) == FALSE
MayRetry(n) == n < MaxFailures
IncreasedNever(n) == n
Increased(n) == n + 1

\* The precondition of a plugin: the expire plugin compares the value with the
\* clock, and float(None) raises when the key has vanished.
PreconditionRaises(m) == key[m] \in Timed /\ store[key[m]] = 0
Precondition(m) == key[m] \in Timed => store[key[m]] \in due

\* _process_key_val: a key whose precondition does not hold is left as it is.
RefusedAnyway == "delete"
Refused == "release"

\* Something may go wrong once more.
Trouble == faults + crashes + stalls + repeats < MaxTroubles

Goto(m, step) == pc' = [pc EXCEPT ![m] = step]

Noted(h, x) == IF KeepHistory THEN [h EXCEPT ![x] = @ + 1] ELSE h
Counted(n) == IF KeepHistory THEN n + 1 ELSE n

\* DEL key.
Delete(k) ==
    /\ store' = [store EXCEPT ![k] = 0]
    /\ removed' = IF store[k] = 0 THEN removed ELSE Noted(removed, k)

Init ==
    /\ store = [k \in Keys |-> 0]
    /\ due = {}
    /\ failures = [k \in Keys |-> 0]
    /\ lock = [k \in Keys |-> Nobody]
    /\ todo = [m \in Monitors |-> {}]
    /\ pc = [m \in Monitors |-> "visit"]
    /\ key = [m \in Monitors |-> Nobody]
    /\ val = [m \in Monitors |-> 0]
    /\ seen = [m \in Monitors |-> 0]
    /\ sent = 0
    /\ acted = [r \in Requests |-> 0]
    /\ ghosts = [k \in Keys |-> 0]
    /\ removed = [k \in Keys |-> 0]
    /\ missed = [k \in Keys |-> 0]
    /\ late = 0 /\ faults = 0 /\ crashes = 0 /\ stalls = 0 /\ repeats = 0

----------------------------------------------------------------------------
(***************************************************************************)
(* The Kafka monitor stores requests: ActionHandler with the request's     *)
(* uuid, ScraperHandler with the time a crawl expires.  A key that is      *)
(* still there is overwritten.                                             *)
(***************************************************************************)
Submit(k) ==
    /\ sent < MaxRequests
    /\ sent' = sent + 1
    /\ store' = [store EXCEPT ![k] = sent + 1]
    /\ UNCHANGED <<due, failures, lock, locals, history>>

\* The clock passes the time a timeout key holds.
ComeDue(k) ==
    /\ store[k] # 0 /\ store[k] \notin due
    /\ k \in Timed
    /\ due' = due \cup {store[k]}
    /\ UNCHANGED <<redis, locals, sent, history>>

\* scan_iter asks for the next reply of SCAN when it has gone through the last.  A
\* reply names some of the keys, and a later one may name them again.
StartScan(m) ==
    /\ pc[m] = "visit" /\ todo[m] = {}
    /\ \E reply \in SUBSET Matching \ {{}} : todo' = [todo EXCEPT ![m] = reply]
    /\ UNCHANGED <<redis, due, pc, key, val, seen, sent, history>>

\* A key whose lock is taken is passed over.  The reply may name the key once more.
Acquire(m) ==
    /\ pc[m] = "visit"
    /\ \E k \in todo[m] :
          /\ \/ /\ todo' = [todo EXCEPT ![m] = @ \ {k}]
                /\ UNCHANGED repeats
             \/ /\ Trouble
                /\ repeats' = repeats + 1
                /\ UNCHANGED todo
          /\ \/ /\ Free(k)
                /\ lock' = [lock EXCEPT ![k] = m]
                /\ key' = [key EXCEPT ![m] = k]
                /\ Goto(m, "get")
             \/ /\ ~Free(k)
                /\ UNCHANGED <<lock, key, pc>>
    /\ UNCHANGED <<store, due, failures, val, seen, sent,
                   acted, ghosts, removed, missed, late, faults, crashes, stalls>>

\* GET, then check_precondition.
GetValue(m) ==
    /\ pc[m] = "get"
    /\ val' = [val EXCEPT ![m] = store[key[m]]]
    /\ \/ /\ PreconditionRaises(m)
          /\ Goto(m, "failed")
          /\ missed' = Noted(missed, key[m])
       \/ /\ ~PreconditionRaises(m)
          /\ Goto(m, IF Precondition(m) THEN "handle" ELSE Refused)
          /\ UNCHANGED missed
    /\ UNCHANGED <<redis, due, todo, key, seen, sent,
                   acted, ghosts, removed, late, faults, crashes, stalls, repeats>>

\* instance.handle acts: it blacklists and purges, reads or configures, and
\* sends the answer.  Nothing asks whether a value was found.
Handle(m) ==
    /\ pc[m] = "handle"
    /\ \/ /\ val[m] # 0
          /\ acted' = Noted(acted, val[m])
          /\ UNCHANGED ghosts
       \/ /\ val[m] = 0
          /\ ghosts' = Noted(ghosts, key[m])
          /\ UNCHANGED acted
    /\ Goto(m, IF key[m] \in Timed THEN "delete" ELSE "withdraw")
    /\ UNCHANGED <<redis, due, todo, key, val, seen, sent,
                   removed, missed, late, faults, crashes, stalls, repeats>>

\* StopMonitor deletes its crawl's timeout key, without that key's lock; the
\* other plugins and a stop whose answer could not be sent leave it.
Withdraw(m) ==
    /\ pc[m] = "withdraw"
    /\ Goto(m, "delete")
    /\ \/ \E k \in Timed : Delete(k)
       \/ UNCHANGED <<store, removed>>
    /\ UNCHANGED <<failures, lock, due, todo, key, val, seen, sent,
                   acted, ghosts, missed, late, faults, crashes, stalls, repeats>>

\* An exception in check_precondition or handle, before handle acts or after it,
\* or an error of Redis in one of the commands that follow it.
Raise(m) ==
    /\ pc[m] \in {"handle", "withdraw", "delete", "clean"}
    /\ KeepHistory => Trouble
    /\ faults' = Counted(faults)
    /\ late' = IF pc[m] = "handle" THEN late ELSE Counted(late)
    /\ missed' = Noted(missed, key[m])
    /\ Goto(m, "failed")
    /\ UNCHANGED <<redis, due, todo, key, val, seen, sent,
                   acted, ghosts, removed, crashes, stalls, repeats>>

\* _process_key_val after handle: DEL of the key, whatever it now holds.
DeleteKey(m) ==
    /\ pc[m] = "delete"
    /\ Delete(key[m])
    /\ Goto(m, "clean")
    /\ UNCHANGED <<failures, lock, due, todo, key, val, seen, sent,
                   acted, ghosts, missed, late, faults, crashes, stalls, repeats>>

\* EXISTS and DEL of the failure count.
CleanFailKey(m) ==
    /\ pc[m] = "clean"
    /\ failures' = [failures EXCEPT ![key[m]] = 0]
    /\ missed' = [missed EXCEPT ![key[m]] = 0]
    /\ Goto(m, "release")
    /\ UNCHANGED <<store, lock, due, todo, key, val, seen, sent,
                   acted, ghosts, removed, late, faults, crashes, stalls, repeats>>

\* _process_failures: GET of the failure count.
ReadFailures(m) ==
    /\ pc[m] = "failed"
    /\ \/ /\ Retry
          /\ seen' = [seen EXCEPT ![m] = failures[key[m]]]
          /\ Goto(m, IF MayRetry(failures[key[m]]) THEN "count" ELSE "forgive")
       \/ /\ ~Retry
          /\ Goto(m, "release")
          /\ UNCHANGED seen
    /\ UNCHANGED <<redis, due, todo, key, val, sent, history>>

CountFailure(m) ==
    /\ pc[m] = "count"
    /\ failures' = [failures EXCEPT ![key[m]] = Increased(seen[m])]
    /\ Goto(m, "release")
    /\ UNCHANGED <<store, lock, due, todo, key, val, seen, sent, history>>

\* Giving up: DEL of the failure count, then DEL of the key.
ForgiveFailures(m) ==
    /\ pc[m] = "forgive"
    /\ failures' = [failures EXCEPT ![key[m]] = 0]
    /\ Goto(m, "drop")
    /\ UNCHANGED <<store, lock, due, todo, key, val, seen, sent, history>>

DropKey(m) ==
    /\ pc[m] = "drop"
    /\ Delete(key[m])
    /\ missed' = [missed EXCEPT ![key[m]] = 0]
    /\ Goto(m, "release")
    /\ UNCHANGED <<failures, lock, due, todo, key, val, seen, sent,
                   acted, ghosts, late, faults, crashes, stalls, repeats>>

\* The loop goes on with its next key, and reads its locals again before use.
Forget(m) ==
    /\ Goto(m, "visit")
    /\ key' = [key EXCEPT ![m] = Nobody]
    /\ val' = [val EXCEPT ![m] = 0]
    /\ seen' = [seen EXCEPT ![m] = 0]

Release(m) ==
    /\ pc[m] = "release"
    /\ lock' = IF Held(m) THEN [lock EXCEPT ![key[m]] = Nobody] ELSE lock
    /\ Forget(m)
    /\ UNCHANGED <<store, failures, due, todo, sent, history>>

----------------------------------------------------------------------------
\* The process dies; its lock stays behind until it expires.
Crash(m) ==
    /\ Trouble
    /\ crashes' = crashes + 1
    /\ lock' = [k \in Keys |-> IF lock[k] = m THEN Vacant ELSE lock[k]]
    /\ todo' = [todo EXCEPT ![m] = {}]
    /\ Forget(m)
    /\ UNCHANGED <<store, failures, due, sent,
                   acted, ghosts, removed, missed, late, faults, stalls, repeats>>

VacantLockExpires(k) ==
    /\ lock[k] = Vacant
    /\ lock' = [lock EXCEPT ![k] = Nobody]
    /\ UNCHANGED <<store, failures, due, locals, sent, history>>

\* A live monitor does not renew its lock in time, and goes on without it.
LoseLock(k) ==
    /\ Trouble
    /\ lock[k] \in Monitors
    /\ stalls' = stalls + 1
    /\ lock' = [lock EXCEPT ![k] = Nobody]
    /\ UNCHANGED <<store, failures, due, locals, sent,
                   acted, ghosts, removed, missed, late, faults, crashes, repeats>>

MonitorStep(m) ==
    \/ StartScan(m) \/ Acquire(m) \/ GetValue(m) \/ Handle(m) \/ Withdraw(m)
    \/ Raise(m) \/ DeleteKey(m) \/ CleanFailKey(m)
    \/ ReadFailures(m) \/ CountFailure(m) \/ ForgiveFailures(m) \/ DropKey(m)
    \/ Release(m)

Next ==
    \/ \E m \in Monitors : MonitorStep(m) \/ Crash(m)
    \/ \E k \in Keys :
          Submit(k) \/ ComeDue(k) \/ VacantLockExpires(k) \/ LoseLock(k)

Spec == Init /\ [][Next]_vars

\* Each monitor's loop goes on, clocks advance and locks of the dead expire; and a
\* SCAN that goes on to its end has named every key that was there all the time, so
\* that a monitor whose loop goes on cannot be without one for ever.
FairSpec ==
    /\ Spec
    /\ \A m \in Monitors : WF_vars(MonitorStep(m))
    /\ \A k \in Keys : SF_vars(\E m \in Monitors : StartScan(m) /\ k \in todo'[m])
    /\ \A k \in Keys : WF_vars(ComeDue(k)) /\ WF_vars(VacantLockExpires(k))

----------------------------------------------------------------------------
Working(m) == pc[m] # "visit"

\* The lock of _process_plugin excludes: without stalls, a monitor that works on
\* a key holds its lock.
InCharge == stalls = 0 => \A m \in Monitors : Working(m) => lock[key[m]] = m

\* What the lock gives: a request is acted on again only after a crash, after an
\* exception that came once the handler had acted, or next to a monitor that went
\* on without its lock.
ActedOnce == \A r \in Requests : acted[r] <= 1 + crashes + late + stalls

\* A request is stored at one key, and handled under that key.
OneKeyEach ==
    /\ \A k1, k2 \in Keys : store[k1] = store[k2] /\ store[k1] # 0 => k1 = k2
    /\ \A m \in Monitors : pc[m] \in {"visit", "get"} => val[m] = 0
    /\ \A m \in Monitors, k \in Keys :
          val[m] = store[k] /\ val[m] # 0 => key[m] = k

\* The monitors that lost their lock between acquiring it and reading the value.
Loose == {m \in Monitors : pc[m] = "get" /\ lock[key[m]] # m}

\* A monitor in charge of a stored request, which will act once and delete its key.
TakenCare(r) ==
    \E m \in Monitors :
        /\ pc[m] \in {"handle", "withdraw", "delete"} /\ val[m] = r
        /\ lock[key[m]] = m

\* Everyone who can still come to act on a request: the monitors about to, those that
\* will read it without a lock, and, for the next lock holder, Nobody.
Tokens(r) ==
    {m \in Monitors : pc[m] = "handle" /\ val[m] = r}
    \cup {m \in Loose : store[key[m]] = r}
    \cup (IF (\E k \in Keys : store[k] = r) /\ ~TakenCare(r) THEN {Nobody} ELSE {})

\* The inductive invariant behind ActedOnce: crashes, late exceptions and stalls pay
\* for every act that happened or can still happen.
ActedInv ==
    /\ OneKeyEach
    /\ Cardinality(Loose) <= stalls
    /\ \A r \in Requests : r > sent => acted[r] = 0
    /\ \A r \in Requests :
          acted[r] + Cardinality(Tokens(r)) <= 1 + crashes + late + stalls

\* A reply of SCAN outlives the keys it names, and the value is not looked at again
\* under the lock: handlers are called without a value.  Each removal of a key leaves
\* at most one such call for every monitor, and none for the remover unless the key is
\* a timeout that a stop took away; each time that a reply names a key once more pays
\* for another.
GhostBound ==
    \A k \in Keys :
        ghosts[k] <= (Cardinality(Monitors) - IF k \in Timed THEN 0 ELSE 1) * removed[k]
                     + repeats

\* _process_failures gives up a key only after RETRY_FAILURES_MAX + 1 failed
\* attempts at it: crashes between GET and SET may lose a count, and never add one.
\* (Two monitors at one key, after a stall, can write an old count back.)
GiveUpCounted ==
    [][\A m \in Monitors :
          stalls = 0 /\ pc[m] = "failed" /\ pc'[m] = "forgive"
          => missed[key[m]] > MaxFailures]_vars

\* A stored request goes away for a cause: it was acted on; its key has failed too often; it
\* is a timeout that a stop took with its crawl; or it came while its key was handled, and
\* the key is deleted whatever it holds by then.
\* (_process_key_val, _process_failures and StopMonitor.)
TakenForCause ==
    [][\A k \in Keys : store[k] # 0 /\ store'[k] = 0 =>
          \/ acted[store[k]] > 0
          \/ \E m \in Monitors :
                \/ pc[m] = "drop" /\ key[m] = k /\ (stalls = 0 => missed[k] > MaxFailures)
                \/ pc[m] = "withdraw" /\ pc'[m] = "delete" /\ k \in Timed
                \/ pc[m] = "delete" /\ key[m] = k /\ val[m] < store[k]]_vars

\* No key stays for ever, even one whose plugin always fails: each request is acted
\* on, given up or replaced, and of finitely many the last one goes as well.
KeySettles == \A k \in Keys : []<>(store[k] = 0)
=============================================================================
