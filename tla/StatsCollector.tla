---------------------------- MODULE StatsCollector ----------------------------
(***************************************************************************)
(* The counters of utils/scutils/stats_collector.py: several processes     *)
(* count into the same keys of Redis, and in each a worker thread wakes    *)
(* every cycle_time seconds, removes what is too old, and, when the        *)
(* counter rolls, moves on to the key of the next window.                  *)
(*                                                                         *)
(* A key is named by the start of its window, or is Plain when the counter *)
(* does not roll; its contents are the hits counted under it:              *)
(*   "rolling"  RollingTimeWindow, a sorted set of times                   *)
(*   "time"     TimeWindow, a sorted set of times                          *)
(*   "set"      UniqueCounter, HyperLogLogCounter and BitMapCounter        *)
(*   "counter"  Counter, an integer                                        *)
(* All processes go by one clock, and a thread that is awake does its work *)
(* before the clock moves on.                                              *)
(***************************************************************************)
EXTENDS Integers, FiniteSets

CONSTANTS
    Processes,    \* the processes that count
    Window,       \* window, in ticks
    CycleTime,    \* cycle_time, in ticks
    MaxTime,      \* bound: the clock
    MaxHits,      \* bound: calls of increment
    MaxFaults,    \* bound: errors of Redis that the worker meets
    MaxCrashes    \* bound: processes that die

Kinds == {"rolling", "time", "set", "counter"}
Plain == -1
None == -2

\* A worker that sleeps longer than a window never catches up: it rolls once in a cycle.
ASSUME StatsAssumption ==
    /\ IsFiniteSet(Processes)
    /\ {Window, CycleTime} \subseteq Nat \ {0} /\ CycleTime <= Window
    /\ {MaxTime, MaxHits, MaxFaults, MaxCrashes} \subseteq Nat

VARIABLES
    kind, roll,   \* the class of the counter, and whether it moves to a new key
    now,          \* the clock
    start, key,   \* start_time and final_key of each process
    init,         \* the processes whose Counter has set its start value
    pc, wake,     \* what each worker is about to do, and when it wakes
    cutoff,       \* the time before which a worker is about to remove
    stamp,        \* the call of increment in progress: the time it has read
    store,        \* the contents of Redis
    written,      \* history: all hits that were stored
    reset,        \* history: when a Counter last set its start value
    faults, crashes

config == <<kind, roll>>
window == <<start, key>>
worker == <<pc, wake, cutoff>>
redis == <<store, written, reset>>
vars == <<config, now, window, init, worker, stamp, redis, faults, crashes>>

Times == 0..MaxTime
Hits == [key : Times \cup {Plain}, at : Times, n : 1..MaxHits]

StatsTypeOK ==
    /\ kind \in Kinds /\ roll \in BOOLEAN
    /\ now \in Times
    /\ start \in [Processes -> Times] /\ key \in [Processes -> Times \cup {Plain}]
    /\ init \subseteq Processes
    /\ pc \in [Processes -> {"down", "expire", "remove", "roll", "rekey", "sleep"}]
    /\ wake \in [Processes -> 0..MaxTime + CycleTime]
    /\ cutoff \in [Processes -> -Window..MaxTime]
    /\ stamp \in [Processes -> Times \cup {None}]
    /\ store \subseteq written /\ written \subseteq Hits
    /\ reset \in Times \cup {None}
    /\ faults \in 0..MaxFaults /\ crashes \in 0..MaxCrashes

----------------------------------------------------------------------------
(***************************************************************************)
(* Decisions of the code.  The name of a mistaken variant, which only a    *)
(* mutation uses, ends in Late or Early.                                   *)
(***************************************************************************)
\* is_expired.
IsExpiredLate(p) == now - start[p] > Window
IsExpired(p) == now - start[p] >= Window

\* RollingTimeWindow.expire: what is at most as old as this is removed.
ExpiresEarly == now - Window + 1
Expires == now - Window

\* _set_key.
FinalKey(begin) == IF roll THEN begin ELSE Plain

\* The bounds of a hit that the worker of p removes.
TooOld(p, at) ==
    \/ kind = "rolling" /\ at <= cutoff[p]
    \/ kind = "time" /\ (at < start[p] \/ at >= start[p] + Window)

Goto(p, to) == pc' = [pc EXCEPT ![p] = to]

Sleep(p) ==
    /\ Goto(p, "sleep")
    /\ wake' = [wake EXCEPT ![p] = now + CycleTime]

Init ==
    /\ kind \in Kinds /\ roll \in BOOLEAN
    /\ kind = "rolling" => ~roll
    /\ now = 0
    /\ start = [p \in Processes |-> 0]
    /\ key = [p \in Processes |-> Plain]
    /\ init = {}
    /\ pc = [p \in Processes |-> "down"]
    /\ wake = [p \in Processes |-> 0]
    /\ cutoff = [p \in Processes |-> 0]
    /\ stamp = [p \in Processes |-> None]
    /\ store = {} /\ written = {} /\ reset = None
    /\ faults = 0 /\ crashes = 0

\* ThreadedCounter.__init__ with no start_time, and setup.
Launch(p) ==
    /\ pc[p] = "down"
    /\ LET begin == now - (now % Window)
       IN  /\ start' = [start EXCEPT ![p] = begin]
           /\ key' = [key EXCEPT ![p] = FinalKey(begin)]
    /\ init' = init \ {p}
    /\ Goto(p, "expire")
    /\ UNCHANGED <<config, now, wake, cutoff, stamp, redis, faults, crashes>>

Crash(p) ==
    /\ pc[p] # "down" /\ crashes < MaxCrashes
    /\ crashes' = crashes + 1
    /\ Goto(p, "down")
    /\ stamp' = [stamp EXCEPT ![p] = None]
    /\ UNCHANGED <<config, now, window, init, wake, cutoff, redis, faults>>

----------------------------------------------------------------------------
(***************************************************************************)
(* The worker thread, _do_thread_work.                                     *)
(***************************************************************************)
\* expire, of the classes that have one: the bounds are computed,
Expire(p) ==
    /\ pc[p] = "expire"
    /\ IF kind \in {"rolling", "time"}
       THEN cutoff' = [cutoff EXCEPT ![p] = Expires] /\ Goto(p, "remove")
       ELSE UNCHANGED cutoff /\ Goto(p, "roll")
    /\ UNCHANGED <<config, now, window, init, wake, stamp, redis, faults, crashes>>

\* and the hits outside of them removed.
Remove(p) ==
    /\ pc[p] = "remove"
    /\ store' = {h \in store : h.key = key[p] => ~TooOld(p, h.at)}
    /\ Goto(p, "roll")
    /\ UNCHANGED <<config, now, window, init, wake, cutoff, stamp, written, reset, faults, crashes>>

\* An error of Redis ends the cycle: the counter does not roll, either.
RemoveFails(p) ==
    /\ pc[p] = "remove" /\ faults < MaxFaults
    /\ faults' = faults + 1
    /\ Sleep(p)
    /\ UNCHANGED <<config, now, window, init, cutoff, stamp, redis, crashes>>

\* start_time is set before final_key.
Roll(p) ==
    /\ pc[p] = "roll"
    /\ IF roll /\ IsExpired(p)
       THEN /\ start' = [start EXCEPT ![p] = @ + Window]
            /\ Goto(p, "rekey")
            /\ UNCHANGED wake
       ELSE Sleep(p) /\ UNCHANGED start
    /\ UNCHANGED <<config, now, key, init, cutoff, stamp, redis, faults, crashes>>

\* purge_old looks for keys that begin with the key of the current window, a date included,
\* and a colon: there are none, and no window is ever removed.
Rekey(p) ==
    /\ pc[p] = "rekey"
    /\ key' = [key EXCEPT ![p] = FinalKey(start[p])]
    /\ Sleep(p)
    /\ UNCHANGED <<config, now, start, init, cutoff, stamp, redis, faults, crashes>>

Wake(p) ==
    /\ pc[p] = "sleep" /\ wake[p] <= now
    /\ Goto(p, "expire")
    /\ UNCHANGED <<config, now, window, init, wake, cutoff, stamp, redis, faults, crashes>>

----------------------------------------------------------------------------
(***************************************************************************)
(* increment, on the thread of the caller.                                 *)
(***************************************************************************)
\* The time is read and compared with the window.
Increment(p) ==
    /\ pc[p] # "down" /\ stamp[p] = None
    /\ Cardinality(written) < MaxHits
    /\ kind = "time" => now - start[p] < Window
    /\ stamp' = [stamp EXCEPT ![p] = now]
    /\ UNCHANGED <<config, now, window, init, worker, redis, faults, crashes>>

\* The first time, a Counter sets the key, whatever the others have counted.
SetStart(p) ==
    /\ stamp[p] # None /\ kind = "counter" /\ p \notin init
    /\ init' = init \cup {p}
    /\ store' = {h \in store : h.key # key[p]}
    /\ reset' = now
    /\ UNCHANGED <<config, now, window, worker, stamp, written, faults, crashes>>

\* The hit is stored under the key of this moment.
Add(p) ==
    /\ stamp[p] # None
    /\ kind = "counter" => p \in init
    /\ Cardinality(written) < MaxHits
    /\ LET hit == [key |-> key[p], at |-> stamp[p], n |-> Cardinality(written) + 1]
       IN  store' = store \cup {hit} /\ written' = written \cup {hit}
    /\ stamp' = [stamp EXCEPT ![p] = None]
    /\ UNCHANGED <<config, now, window, init, worker, reset, faults, crashes>>

\* Time passes; no thread is held up for longer than a tick.
Tick ==
    /\ now < MaxTime
    /\ \A p \in Processes :
           /\ pc[p] = "down" \/ (pc[p] = "sleep" /\ wake[p] > now)
           /\ stamp[p] \in {now, None}
    /\ now' = now + 1
    /\ UNCHANGED <<config, window, init, worker, stamp, redis, faults, crashes>>

Worker(p) ==
    Expire(p) \/ Remove(p) \/ RemoveFails(p) \/ Roll(p) \/ Rekey(p) \/ Wake(p)

Next ==
    \/ \E p \in Processes :
           \/ Launch(p) \/ Crash(p) \/ Worker(p)
           \/ Increment(p) \/ SetStart(p) \/ Add(p)
    \/ Tick

Spec == Init /\ [][Next]_vars

----------------------------------------------------------------------------
\* How late a worker may be.
Delay == CycleTime * (1 + faults)

\* value of a rolling window lies between the hits of the last Window seconds and those of
\* the time a worker may be late in addition, once it has come through a cycle.
\* (RollingTimeWindow.expire, and the except of _do_thread_work.)
RollingCounts ==
    kind = "rolling" =>
        /\ \A h \in written : now - h.at < Window => h \in store
        /\ \A p \in Processes :
               /\ pc[p] = "sleep" /\ wake[p] > now
               /\ now >= start[p] + Window + CycleTime * faults
               => \A h \in store : now - h.at < Window + Delay

\* What was counted stays: a static window loses only what lies outside of it, a Counter
\* what was there when a process began to count, and the others nothing, in no window.
Kept ==
    \A h \in written \ store :
        \/ kind = "rolling"
        \/ kind = "time" /\ (roll => h.at < h.key \/ h.at >= h.key + Window)
        \/ kind = "counter" /\ h.at <= reset

\* The types, what value may be, and what stays.
StatsInv == StatsTypeOK /\ RollingCounts /\ Kept

\* A hit is counted in the window of its time, or in the one before as long as the worker
\* is late; or in the next one, when the worker rolls in the middle of increment.
\* (_do_thread_work and increment share start_time and final_key without a lock.)
InItsWindow ==
    roll => \A h \in store : h.at >= h.key - 1 /\ h.at < h.key + Window + Delay
=============================================================================
