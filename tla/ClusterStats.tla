----------------------------- MODULE ClusterStats -----------------------------
(***************************************************************************)
(* What the cluster tells about itself.  Every spider, Kafka monitor,      *)
(* Redis monitor and REST server keeps a key of its own alive in Redis     *)
(* (report_self), and counts what it does in rolling windows; the stats    *)
(* plugin of the Redis monitor answers requests from those keys.  It lists *)
(* them with one KEYS, which is all it needs to count the processes, and   *)
(* then reads the counters one after the other.                            *)
(*                                                                         *)
(* A spider counts responses in a key of its machine and its type          *)
(* (redis_stats_middleware.py); a monitor counts requests in one key for   *)
(* all machines.  The counters are those of StatsCollector, of which a     *)
(* cycle of the worker is here one step; the names that the two would have  *)
(* in common are changed here.  Only relative times are kept.              *)
(***************************************************************************)
EXTENDS Integers, FiniteSets

CONSTANTS
    Machines,     \* the hosts of the cluster
    Spiders,      \* the types of spiders
    Services,     \* the monitors: roles with a counter for all machines
    Rest,         \* the REST servers, which have no counter
    Nowhere,      \* no machine
    Interval,     \* ticks between two reports of a process that is not held up
    Timeout,      \* HEARTBEAT_TIMEOUT, and 2 * SCHEDULER_IP_REFRESH of a spider
    ShownFor,     \* the window of the counters, in ticks
    Cycle,        \* STATS_CYCLE, in ticks
    MaxStarts,    \* bound: processes that are ever started
    MaxCounts,    \* bound: hits that are ever counted
    MaxTroubles   \* bound: processes that are held up, and errors between SET and EXPIRE

Counting == Spiders \cup Services
Roles == Counting \cup {Rest}

ASSUME ClusterAssumption ==
    /\ IsFiniteSet(Machines) /\ IsFiniteSet(Roles)
    /\ Spiders \cap Services = {} /\ Rest \notin Counting
    /\ Nowhere \notin Machines \cup Roles
    /\ {Interval, Timeout, ShownFor, Cycle} \subseteq Nat \ {0}
    /\ Interval < Timeout
    /\ {MaxStarts, MaxCounts, MaxTroubles} \subseteq Nat

VARIABLES
    life,         \* what each process is doing; its number stands for its uuid
    role, place,  \* the role of each process, and its machine
    quiet,        \* ticks since it was started or last set its key
    late,         \* processes that are held up and do not report
    ttl,          \* the time to live of each process's key
    gone,         \* history: ticks since a process died
    cut,          \* history: processes whose last report has set no expiry
    due,          \* ticks until the worker of its counter wakes
    stored,       \* the hits in Redis: the key, a number and the age of each
    counted,      \* the number of hits so far
    asked,        \* the request the stats plugin works on
    todo,         \* the counters it has still to read
    answer,       \* the hits in the numbers it has compiled
    before,       \* history: the hits in Redis when it listed the keys
    troubles

processes == <<life, role, place, quiet, late, ttl, gone, cut>>
counters == <<due, stored, counted>>
reader == <<asked, todo, answer, before>>
clusterVars == <<processes, counters, reader, troubles>>

Ids == 1..MaxStarts
Absent == 0
Forever == -1     \* a key without an expiry
Never == -1       \* the worker of a process that has not counted yet
Old == ShownFor + Cycle

CountKeys == [role : Counting, place : Machines \cup {Nowhere}]
ClusterHits == [key : CountKeys, n : 1..MaxCounts, age : 0..Old]
Idents == [key : CountKeys, n : 1..MaxCounts]
Requests == {"nothing", "spiders", "machines", "service"}
NoAnswer == [value |-> [k \in Counting |-> {}], sum |-> [m \in Machines |-> {}]]

Alive(i) == life[i] \in {"new", "up", "setting"}

ClusterTypeOK ==
    /\ life \in [Ids -> {"unborn", "new", "up", "setting", "dead"}]
    /\ role \in [Ids -> Roles \cup {Nowhere}]
    /\ place \in [Ids -> Machines \cup {Nowhere}]
    /\ \A i \in Ids : life[i] = "unborn" <=> place[i] = Nowhere
    /\ quiet \in [Ids -> 0..Interval]
    /\ late \subseteq {i \in Ids : Alive(i)}
    /\ ttl \in [Ids -> {Forever} \cup 0..Timeout]
    /\ gone \in [Ids -> 0..Timeout]
    /\ cut \subseteq Ids
    /\ due \in [Ids -> {Never} \cup 0..Cycle]
    /\ stored \subseteq ClusterHits /\ before \subseteq ClusterHits
    /\ counted \in 0..MaxCounts
    /\ asked \in Requests /\ todo \subseteq CountKeys
    /\ answer \in [value : [Counting -> SUBSET Idents], sum : [Machines -> SUBSET Idents]]
    /\ troubles \in 0..MaxTroubles

----------------------------------------------------------------------------
(***************************************************************************)
(* Decisions of the code.  The name of a mistaken variant, which only a    *)
(* mutation uses, ends in Early or Latest.                                 *)
(***************************************************************************)
\* The expiry of a report outlives the interval between two of them.
ExpiryEarly == Interval
Expiry == Timeout

\* The counter of a process: of a spider, the key carries the host.
KeyOf(i) == [role |-> role[i], place |-> IF role[i] \in Spiders THEN place[i] ELSE Nowhere]

\* get_machine_stats adds up the types of spiders of a machine.
SummedLatest(sum, hits) == hits
Summed(sum, hits) == sum \cup hits

\* get_spider_stats and _get_plugin_stats assign.
Assigned(value, hits) == hits

Aged(hits) == {[h EXCEPT !.age = IF @ < Old THEN @ + 1 ELSE Old] : h \in hits}
HitsOf(key) == {[key |-> key, n |-> h.n] : h \in {g \in stored : g.key = key}}

ClusterInit ==
    /\ life = [i \in Ids |-> "unborn"]
    /\ role = [i \in Ids |-> Nowhere] /\ place = [i \in Ids |-> Nowhere]
    /\ quiet = [i \in Ids |-> 0] /\ gone = [i \in Ids |-> 0]
    /\ ttl = [i \in Ids |-> Absent]
    /\ late = {} /\ cut = {}
    /\ due = [i \in Ids |-> Never]
    /\ stored = {} /\ counted = 0
    /\ asked = "nothing" /\ todo = {} /\ answer = NoAnswer /\ before = {}
    /\ troubles = 0

----------------------------------------------------------------------------
(***************************************************************************)
(* Processes and their reports.                                            *)
(***************************************************************************)
\* A process is started, with a new uuid.  A monitor sets its counters up at once, a
\* spider when it has its first response.
Join(k, m) ==
    \E i \in Ids :
        /\ life[i] = "unborn" /\ \A j \in Ids : j < i => life[j] # "unborn"
        /\ life' = [life EXCEPT ![i] = "new"]
        /\ role' = [role EXCEPT ![i] = k] /\ place' = [place EXCEPT ![i] = m]
        /\ due' = [due EXCEPT ![i] = IF k \in Services THEN 0 ELSE Never]
        /\ UNCHANGED <<quiet, late, ttl, gone, cut, stored, counted, reader, troubles>>

\* SET, which removes an expiry.
Report(i) ==
    /\ life[i] = "new" \/ (life[i] = "up" /\ quiet[i] > 0)
    /\ life' = [life EXCEPT ![i] = "setting"]
    /\ quiet' = [quiet EXCEPT ![i] = 0]
    /\ ttl' = [ttl EXCEPT ![i] = Forever]
    /\ late' = late \ {i}
    /\ cut' = cut \cup {i}
    /\ UNCHANGED <<role, place, gone, counters, reader, troubles>>

\* EXPIRE, a command of its own.
SetExpiry(i) ==
    /\ life[i] = "setting"
    /\ life' = [life EXCEPT ![i] = "up"]
    /\ ttl' = [ttl EXCEPT ![i] = Expiry]
    /\ cut' = cut \ {i}
    /\ UNCHANGED <<role, place, quiet, late, gone, counters, reader, troubles>>

HasTrouble == troubles < MaxTroubles /\ troubles' = troubles + 1

\* An error of Redis in between: a REST server catches it, a spider survives it since the
\* reactor logs what next_request raises and asks again later, and a monitor dies of it.
ReportFails(i) ==
    /\ life[i] = "setting" /\ role[i] \notin Services
    /\ HasTrouble
    /\ life' = [life EXCEPT ![i] = "up"]
    /\ UNCHANGED <<role, place, quiet, late, ttl, gone, cut, counters, reader>>

\* A process does not come to report: a topic that never pauses keeps the Kafka monitor
\* in its loop, the look-up of the public address blocks a spider, an error of Redis at
\* the SET costs it a report, and a REST server without Redis only warns.
HoldUp(i) ==
    /\ life[i] \in {"new", "up"} /\ i \notin late
    /\ HasTrouble
    /\ late' = late \cup {i}
    /\ UNCHANGED <<life, role, place, quiet, ttl, gone, cut, counters, reader>>

Die(i) ==
    /\ Alive(i)
    /\ life' = [life EXCEPT ![i] = "dead"]
    /\ late' = late \ {i}
    /\ due' = [due EXCEPT ![i] = Never]
    /\ UNCHANGED <<role, place, quiet, ttl, gone, cut, stored, counted, reader, troubles>>

----------------------------------------------------------------------------
(***************************************************************************)
(* The counters.                                                           *)
(***************************************************************************)
\* process_spider_input, or _increment_total_stat.
Count(i) ==
    /\ Alive(i) /\ role[i] # Rest
    /\ counted < MaxCounts
    /\ counted' = counted + 1
    /\ stored' = stored \cup {[key |-> KeyOf(i), n |-> counted + 1, age |-> 0]}
    /\ due' = [due EXCEPT ![i] = IF @ = Never THEN 0 ELSE @]
    /\ UNCHANGED <<processes, reader, troubles>>

\* A cycle of the worker of a process: RollingTimeWindow.expire.
Purge(i) ==
    /\ due[i] = 0
    /\ stored' = {h \in stored : h.key = KeyOf(i) => h.age < ShownFor}
    /\ due' = [due EXCEPT ![i] = Cycle]
    /\ UNCHANGED <<processes, counted, reader, troubles>>

\* Time passes: the workers, and the processes that are not held up, are punctual.
ClusterTick ==
    /\ \A i \in Ids :
           /\ due[i] # 0 /\ life[i] # "setting"
           /\ Alive(i) /\ i \notin late => quiet[i] < Interval
    /\ quiet' = [i \in Ids |-> IF Alive(i) /\ quiet[i] < Interval THEN quiet[i] + 1 ELSE quiet[i]]
    /\ ttl' = [i \in Ids |-> IF ttl[i] > 0 THEN ttl[i] - 1 ELSE ttl[i]]
    /\ gone' = [i \in Ids |-> IF life[i] = "dead" /\ gone[i] < Timeout THEN gone[i] + 1 ELSE gone[i]]
    /\ due' = [i \in Ids |-> IF due[i] > 0 THEN due[i] - 1 ELSE due[i]]
    /\ stored' = Aged(stored) /\ before' = Aged(before)
    /\ UNCHANGED <<life, role, place, late, cut, counted, asked, todo, answer, troubles>>

----------------------------------------------------------------------------
(***************************************************************************)
(* stats_monitor.py.                                                       *)
(***************************************************************************)
\* The kinds whose counters a request is about: those of all spiders, or of one service.
About(r, k) == IF r = "service" THEN {k} \cap Services ELSE Spiders

\* KEYS.  The keys of the processes are named, or counted, and not read.
Ask(r, k) ==
    /\ asked = "nothing" /\ r # "nothing"
    /\ asked' = r
    /\ todo' = {h.key : h \in {g \in stored : g.key.role \in About(r, k)}}
    /\ before' = {g \in stored : g.key.role \in About(r, k)}
    /\ UNCHANGED <<answer, processes, counters, troubles>>

\* get_spider_stats and _get_plugin_stats: ZCARD.
ReadValue(key) ==
    /\ key \in todo /\ asked # "machines"
    /\ todo' = todo \ {key}
    /\ answer' = [answer EXCEPT !.value[key.role] = Assigned(@, HitsOf(key))]
    /\ UNCHANGED <<asked, before, processes, counters, troubles>>

\* get_machine_stats: ZCARD.
ReadMachine(key) ==
    /\ key \in todo /\ asked = "machines"
    /\ todo' = todo \ {key}
    /\ answer' = [answer EXCEPT !.sum[key.place] = Summed(@, HitsOf(key))]
    /\ UNCHANGED <<asked, before, processes, counters, troubles>>

Complete == asked # "nothing" /\ todo = {}

\* The answer goes to Kafka, or the sending fails; the next request is looked at.
Send ==
    /\ Complete
    /\ asked' = "nothing" /\ answer' = NoAnswer /\ before' = {}
    /\ UNCHANGED <<todo, processes, counters, troubles>>

ClusterNext ==
    \/ \E k \in Roles, m \in Machines : Join(k, m)
    \/ \E i \in Ids :
           \/ Report(i) \/ SetExpiry(i) \/ ReportFails(i) \/ HoldUp(i) \/ Die(i)
           \/ Count(i) \/ Purge(i)
    \/ ClusterTick
    \/ \E r \in Requests, k \in Services : Ask(r, k)
    \/ \E key \in todo : ReadValue(key) \/ ReadMachine(key)
    \/ Send

ClusterSpec == ClusterInit /\ [][ClusterNext]_clusterVars

----------------------------------------------------------------------------
\* A process that is not held up is listed from its first report on.
LiveListed ==
    \A i \in Ids : life[i] \in {"up", "setting"} /\ i \notin late => ttl[i] # Absent

\* A dead process is forgotten within the expiry, unless its last report was cut between
\* SET and EXPIRE: that key stays for ever, since no process has its uuid again.
DeadForgotten ==
    \A i \in Ids \ cut : life[i] = "dead" => ttl[i] # Forever /\ ttl[i] + gone[i] <= Timeout

\* What a counter shows is at most a cycle older than its window, where a process that has
\* been through a cycle counts; where none does, old hits stay, and are shown.
CountersFresh ==
    \A i \in Ids : due[i] > 0 => \A h \in stored : h.key = KeyOf(i) => h.age < Old

\* The types, who is listed, and how old a count may be.
ClusterInv == ClusterTypeOK /\ LiveListed /\ DeadForgotten /\ CountersFresh

\* What an answer tells, though the cluster moves on while it is compiled: of a service,
\* and for each machine, all hits that were in the window the whole time, and none of
\* elsewhere; and of a type of spider the hits of one machine, which are all only if no
\* other machine has counted for it.
\* (stats_monitor.py adds up the types on a machine, and not the machines of a type.)
InWindow(key) ==
    {[key |-> key, n |-> h.n] : h \in {g \in before : g.key = key /\ g.age < ShownFor}}
KeysOf(k) == {h.key : h \in {g \in before : g.key.role = k}}

AnswerRight ==
    Complete =>
        /\ asked # "machines" => \A k \in Counting :
              /\ \A g, h \in answer.value[k] : g.key = h.key /\ h.key.role = k
              /\ \A key \in KeysOf(k) :
                    KeysOf(k) = {key} => InWindow(key) \subseteq answer.value[k]
        /\ asked = "machines" => \A m \in Machines :
              /\ \A h \in answer.sum[m] : h.key.place = m
              /\ \A s \in Spiders : InWindow([role |-> s, place |-> m]) \subseteq answer.sum[m]
=============================================================================
