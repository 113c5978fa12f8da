--------------------------- MODULE ZookeeperConfig ---------------------------
(***************************************************************************)
(* How a request of the Zookeeper API becomes the configuration of a       *)
(* spider: kafka-monitor/plugins/zookeeper_handler.py stores it in Redis,  *)
(* redis-monitor/plugins/zookeeper_monitor.py reads the file, changes it   *)
(* and writes it back, and utils/scutils/zookeeper_watcher.py in a spider  *)
(* is notified, reads it and hands it to config_handler; error_handler is  *)
(* told when the file cannot be read, and the spider then falls back to    *)
(* its defaults.                                                           *)
(*                                                                         *)
(* The file is the set of the changes in it; each request makes its own.   *)
(* One watcher without a pointer, as the scheduler has it.  It reads on    *)
(* two threads: the callbacks of a client come one after the other on the  *)
(* first, and the second is started to build a new client.  The handlers   *)
(* are the scheduler's change_config and error_config, which may raise;    *)
(* Kazoo logs what a callback raises and goes on.                          *)
(***************************************************************************)
EXTENDS Integers, FiniteSets

CONSTANTS
    Monitors,     \* the Redis monitors
    Requests,     \* requests to update or remove a domain, or its blacklisting
    Nothing,      \* no contents, no request
    MaxFaults,    \* bound: errors of Zookeeper, lost connections, wiped files
    MaxCrashes    \* bound: restarts of monitors

Readers == {"watch", "start"}
Other(r) == CHOOSE s \in Readers : s # r
Contents == SUBSET Requests
Blank == {}

ASSUME ConfigAssumption ==
    /\ IsFiniteSet(Monitors) /\ IsFiniteSet(Requests)
    /\ Nothing \notin Requests /\ \A data \in Contents : Nothing # data
    /\ MaxFaults \in Nat /\ MaxCrashes \in Nat

VARIABLES
    file,         \* the contents of the file in Zookeeper
    pending,      \* the requests whose key zk:* is in Redis
    step,         \* what each monitor is about to do
    req, copy,    \* the request it works on, and the_dict as it was read
    error,        \* monitors with an error in their answer
    acked,        \* the requests that were answered without an error
    wiped,        \* history: the changes an operator has undone
    raced,        \* history: a monitor has overwritten a change that it had not read
    session,      \* the watcher's client
    armed, due,   \* its watch is set in Zookeeper, or has fired and was not handled
    got,          \* what each thread has read and not yet compared
    last, passed, \* history: the thread that read last, threads with outdated contents
    overtaken,    \* history: what was handed over last was outdated, or came in the
                  \* middle of a reconnection
    old,          \* old_data
    valid,        \* valid_file
    inUse,        \* what config_handler was last given; nothing after error_handler
    deaf,         \* history: the thread that had to set the watch again was ended by
                  \* an exception, and the connection works without it
    untaken,      \* history: a handler raised, and nothing was handed over since
    faults, crashes

zookeeper == <<file, armed, due>>
monitor == <<pending, step, req, copy, error, acked, wiped, raced>>
reading == <<got, last, passed, overtaken>>
watcher == <<session, reading, old, valid, inUse, deaf, untaken>>
vars == <<zookeeper, monitor, watcher, faults, crashes>>

ConfigTypeOK ==
    /\ file \in Contents /\ old \in Contents /\ inUse \in Contents
    /\ pending \subseteq Requests /\ acked \subseteq Requests /\ wiped \subseteq Requests
    /\ step \in [Monitors -> {"idle", "write", "answer"}]
    /\ req \in [Monitors -> Requests \cup {Nothing}]
    /\ copy \in [Monitors -> Contents]
    /\ \A m \in Monitors : step[m] = "idle" <=> req[m] = Nothing
    /\ error \in SUBSET Monitors
    /\ session \in {"up", "suspended", "lost", "starting", "ended"}
    /\ got \in [Readers -> Contents \cup {Nothing}]
    /\ last \in Readers /\ passed \in SUBSET Readers
    /\ raced \in BOOLEAN /\ armed \in BOOLEAN /\ due \in BOOLEAN
    /\ overtaken \in BOOLEAN /\ valid \in BOOLEAN
    /\ deaf \in BOOLEAN /\ untaken \in BOOLEAN
    /\ faults \in 0..MaxFaults /\ crashes \in 0..MaxCrashes

----------------------------------------------------------------------------
(***************************************************************************)
(* Decisions of the code.  The name of a mistaken variant, which only a    *)
(* mutation uses, ends in Only, Kept or Early.                             *)
(***************************************************************************)
\* ZookeeperMonitor.handle: the file with the change of the request.
ChangedOnly(m) == {req[m]}
Changed(m) == copy[m] \cup {req[m]}

\* init_connections: old_data of a new connection.
ForgottenKept == old
Forgotten == Blank

\* update_file: GET sets a watch again.
RearmedOnly == armed
Rearmed == TRUE

\* compare_data.
Differs(data) == old # data

Fault ==
    /\ faults < MaxFaults
    /\ faults' = faults + 1

\* Zookeeper: the file is written and its watch fires.
Write(data) ==
    /\ file' = data
    /\ due' = (due \/ armed)
    /\ armed' = FALSE

Idle(m) ==
    /\ step' = [step EXCEPT ![m] = "idle"]
    /\ req' = [req EXCEPT ![m] = Nothing]
    /\ copy' = [copy EXCEPT ![m] = Blank]
    /\ error' = error \ {m}

Init ==
    /\ file = Blank
    /\ pending = {} /\ acked = {} /\ wiped = {} /\ raced = FALSE
    /\ step = [m \in Monitors |-> "idle"]
    /\ req = [m \in Monitors |-> Nothing]
    /\ copy = [m \in Monitors |-> Blank]
    /\ error = {}
    /\ session = "up" /\ armed = TRUE /\ due = FALSE
    /\ got = [r \in Readers |-> Nothing]
    /\ last = "start" /\ passed = {} /\ overtaken = FALSE
    /\ old = Blank /\ valid = TRUE /\ inUse = Blank
    /\ deaf = FALSE /\ untaken = FALSE
    /\ faults = 0 /\ crashes = 0

----------------------------------------------------------------------------
(***************************************************************************)
(* The Redis monitors.                                                     *)
(***************************************************************************)
\* ZookeeperHandler.handle.
Submit(c) ==
    /\ c \notin pending \cup acked
    /\ pending' = pending \cup {c}
    /\ UNCHANGED <<zookeeper, step, req, copy, error, acked, wiped, raced, watcher, faults, crashes>>

\* A monitor has locked the key and reads the file; when that fails it goes on with an
\* empty dictionary.
Read(m, c) ==
    /\ step[m] = "idle"
    /\ c \in pending /\ \A n \in Monitors : req[n] # c
    /\ \/ /\ copy' = [copy EXCEPT ![m] = file]
          /\ UNCHANGED <<error, faults>>
       \/ /\ Fault
          /\ copy' = [copy EXCEPT ![m] = Blank]
          /\ error' = error \cup {m}
    /\ req' = [req EXCEPT ![m] = c]
    /\ step' = [step EXCEPT ![m] = "write"]
    /\ UNCHANGED <<zookeeper, pending, acked, wiped, raced, watcher, crashes>>

\* SET, of whatever version the file has by now.  When it fails the file may have been
\* written all the same.
Store(m) ==
    /\ step[m] = "write"
    /\ step' = [step EXCEPT ![m] = "answer"]
    /\ \/ /\ Write(Changed(m))
          /\ UNCHANGED <<error, faults>>
       \/ /\ Fault
          /\ error' = error \cup {m}
          /\ Write(Changed(m)) \/ UNCHANGED zookeeper
    /\ raced' = (raced \/ (file' # file /\ ~(file \subseteq copy[m])))
    /\ UNCHANGED <<pending, req, copy, acked, wiped, watcher, crashes>>

\* The answer goes to Kafka, and the Redis monitor deletes the key.
Answer(m) ==
    /\ step[m] = "answer"
    /\ acked' = IF m \in error THEN acked ELSE acked \cup {req[m]}
    /\ pending' = pending \ {req[m]}
    /\ Idle(m)
    /\ UNCHANGED <<zookeeper, wiped, raced, watcher, faults, crashes>>

\* Another monitor, or this one again, finds the key when the lock has expired.
Crash(m) ==
    /\ crashes < MaxCrashes
    /\ step[m] # "idle"
    /\ crashes' = crashes + 1
    /\ Idle(m)
    /\ UNCHANGED <<zookeeper, pending, acked, wiped, raced, watcher, faults>>

\* Somebody empties the file (file_pusher.py, or Zookeeper's own client).
Wipe ==
    /\ Fault
    /\ file # Blank
    /\ Write(Blank)
    /\ wiped' = wiped \cup file
    /\ UNCHANGED <<pending, step, req, copy, error, acked, raced, watcher, crashes>>

----------------------------------------------------------------------------
(***************************************************************************)
(* The watcher.                                                            *)
(***************************************************************************)
\* set_valid(False) and call_error.  error_config raises for a configured domain that has
\* no queue, and then leaves the configuration as it is.
Fail(raises) ==
    /\ valid' = FALSE
    /\ raises => inUse # Blank
    /\ inUse' = IF raises THEN inUse ELSE Blank
    /\ untaken' = raises

\* update_file up to its GET, in watch_file on the client's thread, or at the end of
\* init_connections on the other one.  A failure starts the connection anew, unless the
\* error handler raises: neither thread comes to it then.
Fetch(r) ==
    /\ got[r] = Nothing
    /\ \/ r = "watch" /\ session = "up" /\ due
       \/ r = "start" /\ session = "starting"
    /\ \/ /\ got' = [got EXCEPT ![r] = file]
          /\ last' = r /\ passed' = passed \ {r}
          /\ armed' = Rearmed
          /\ session' = "up"
          /\ UNCHANGED <<old, valid, inUse, deaf, untaken, faults>>
       \/ /\ Fault
          /\ \/ /\ Fail(TRUE)
                /\ session' = "up" /\ deaf' = TRUE
             \/ /\ Fail(FALSE)
                /\ session' = IF r = "watch" THEN "lost" ELSE session
                /\ UNCHANGED deaf
          /\ UNCHANGED <<got, last, passed, armed, old>>
    /\ due' = FALSE
    /\ UNCHANGED <<file, monitor, overtaken, crashes>>

\* The rest of update_file: contents that are new are handed over.  When config_handler
\* raises it has taken them or not, and set_valid(True) is not reached.
Apply(r) ==
    /\ got[r] # Nothing
    /\ got' = [got EXCEPT ![r] = Nothing]
    /\ old' = got[r]
    /\ \/ /\ inUse' = IF Differs(got[r]) THEN got[r] ELSE inUse
          /\ valid' = TRUE
          /\ untaken' = (untaken /\ ~Differs(got[r]))
       \/ /\ Differs(got[r])
          /\ inUse' \in {inUse, got[r]}
          /\ untaken' = TRUE
          /\ UNCHANGED valid
    /\ overtaken' = (r \in passed \/ session # "up" \/ (overtaken /\ ~Differs(got[r])))
    /\ passed' = IF last = r /\ got[Other(r)] # Nothing THEN passed \cup {Other(r)} ELSE passed \ {r}
    /\ UNCHANGED <<zookeeper, monitor, session, last, deaf, faults, crashes>>

\* state_listener: SUSPENDED.
Suspend ==
    /\ session = "up"
    /\ Fault
    /\ \E raises \in BOOLEAN : Fail(raises)
    /\ session' = "suspended"
    /\ UNCHANGED <<zookeeper, monitor, reading, old, deaf, crashes>>

\* state_listener: LOST, or CONNECTED, upon which the client is stopped and LOST as well.
Lose ==
    /\ session = "suspended"
    /\ session' = "lost"
    /\ UNCHANGED <<zookeeper, monitor, reading, old, valid, inUse, deaf, untaken, faults, crashes>>

\* threaded_start and init_connections: the old client's watch is gone.
Restart ==
    /\ session = "lost"
    /\ session' = "starting"
    /\ valid' = FALSE
    /\ old' = Forgotten
    /\ armed' = FALSE /\ due' = FALSE
    /\ deaf' = FALSE
    /\ UNCHANGED <<file, monitor, reading, inUse, untaken, faults, crashes>>

\* init_connections ends with an exception: the new client does not start, and on
\* Python 3 the handler of that exception raises in its turn, as it asks for e.message,
\* before anybody listens to the client; or setup cannot ensure the path, and leaves a
\* client that works, with its listener and without a watch.
EndThread ==
    /\ session = "starting"
    /\ Fault
    /\ \/ session' = "ended" /\ UNCHANGED deaf
       \/ session' = "up" /\ deaf' = TRUE
    /\ UNCHANGED <<zookeeper, monitor, reading, old, valid, inUse, untaken, crashes>>

MonitorStep(m) == Store(m) \/ Answer(m) \/ \E c \in Requests : Read(m, c)
WatcherStep == Lose \/ Restart \/ \E r \in Readers : Fetch(r) \/ Apply(r)

Next ==
    \/ \E c \in Requests : Submit(c)
    \/ \E m \in Monitors : MonitorStep(m) \/ Crash(m)
    \/ Wipe \/ WatcherStep \/ Suspend \/ EndThread

Spec == Init /\ [][Next]_vars

\* Monitors work on, Kazoo delivers its events, and the watcher's loop keeps trying.
FairSpec ==
    /\ Spec
    /\ \A m \in Monitors : WF_vars(MonitorStep(m))
    /\ WF_vars(Lose \/ Restart)
    /\ \A r \in Readers : WF_vars(Fetch(r)) /\ WF_vars(Apply(r))

----------------------------------------------------------------------------
\* docs/topics/rest/api.rst: the answer of the Zookeeper API says that the change was
\* made.  So a request that was answered without an error is in the file, as long as
\* no monitor writes over a change it has not read: the file is not locked between GET
\* and SET and SET names no version, so two monitors at work on two requests, or one
\* whose GET failed, undo changes that were answered.  A crash between SET and the
\* answer does no harm: the change is made again.
AckedKept == ~raced => acked \subseteq file \cup wiped

\* A watcher that is connected, with nothing on its way to it, says it is valid, has its
\* watch set, and the spider uses what is in the file.  It has no watch when an exception
\* ended the thread that had to set it: of error_handler, or of setup.  It may not be valid,
\* or the spider keep what it had, since a handler raised and until contents are handed
\* over again.  And two things leave the spider with something else although nothing
\* raised: a thread that was overtaken by the other one between its GET and its comparison
\* brings back older contents; and contents handed over when the connection was already
\* lost are not taken back if the file is empty after the reconnection, because empty
\* contents do not differ from the old_data of a new connection.
Settled == session = "up" /\ ~due /\ \A r \in Readers : got[r] = Nothing
ValidIsCurrent ==
    Settled /\ ~deaf =>
        /\ armed
        /\ untaken \/ valid
        /\ untaken \/ overtaken \/ inUse = file

\* Connections are lost and the file may not be read: in the end the spider uses what
\* is in the file, unless it was overtaken, its handlers raised, or the thread that
\* connects was ended by an exception.
ConfigArrives == <>[](inUse = file \/ overtaken \/ untaken \/ deaf \/ session = "ended")

ConfigInv == ConfigTypeOK /\ AckedKept
=============================================================================
