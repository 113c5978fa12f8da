------------------------ MODULE ZookeeperConfig_proofs ------------------------
(***************************************************************************)
(* Proofs about ZookeeperConfig, for any number of monitors, requests,     *)
(* faults and crashes.                                                     *)
(***************************************************************************)
EXTENDS ZookeeperConfig, TLAPS

\* A monitor that is about to answer without an error has its change in the file, as
\* long as nobody writes over what he has not read.
StoredKept ==
    \A m \in Monitors : ~raced /\ step[m] = "answer" /\ m \notin error => req[m] \in file \cup wiped

\* The inductive invariant of the monitors.
FileInv == ConfigInv /\ StoredKept

\* A connection that works has its watch, or the watch has fired, unless an exception ended
\* the thread that had to set it.
Watched == session = "up" => armed \/ due \/ deaf

\* A thread is behind when the other one, which read later, was done first.
BehindIsPassed ==
    /\ last \notin passed
    /\ got[last] = Nothing /\ got[Other(last)] # Nothing => Other(last) \in passed

\* What the spider uses is what the watcher compares with, unless contents came in the
\* wrong order or in the middle of a reconnection, or a handler raised.
UsesOld ==
    ~overtaken =>
        /\ session = "starting" => old = Blank
        /\ untaken \/ inUse = IF session = "up" THEN old ELSE Blank

\* The thread that read last has the file in hand until the watch fires, and has then
\* left it in old_data.
LastReadsFile ==
    session = "up" /\ ~deaf =>
        /\ valid \/ untaken \/ got[last] # Nothing
        /\ ~due /\ got[last] # Nothing => got[last] = file
        /\ ~due /\ got[last] = Nothing /\ ~overtaken => old = file

\* The inductive invariant of the watcher.
WatcherInv == Watched /\ BehindIsPassed /\ UsesOld /\ LastReadsFile

----------------------------------------------------------------------------
LEMMA TwoReaders ==
    ASSUME NEW r \in Readers
    PROVE  Other(r) \in Readers /\ Other(r) # r /\ \A s \in Readers : s = r \/ s = Other(r)
<1>1. \E s \in Readers : s # r
  BY DEF Readers
<1>2. QED
  BY <1>1 DEF Readers, Other

\* Types are kept.
LEMMA TypeStep ==
    ASSUME ConfigTypeOK, [Next]_vars
    PROVE  ConfigTypeOK'
<1> USE ConfigAssumption DEF ConfigAssumption
<1>0. ConfigTypeOK
  OBVIOUS
<1>1. ASSUME NEW c \in Requests, Submit(c) PROVE ConfigTypeOK'
  BY <1>0, <1>1 DEF ConfigTypeOK, Submit, zookeeper, watcher, reading
<1>2. ASSUME NEW m \in Monitors, NEW c \in Requests, Read(m, c) PROVE ConfigTypeOK'
  BY <1>0, <1>2 DEF ConfigTypeOK, Read, Fault, zookeeper, watcher, reading, Contents, Blank
<1>3. ASSUME NEW m \in Monitors, Store(m) PROVE ConfigTypeOK'
  <2>1. Changed(m) \in Contents
    BY <1>0, <1>3 DEF ConfigTypeOK, Store, Changed, Contents
  <2>2. faults' \in 0..MaxFaults
    BY <1>0, <1>3 DEF ConfigTypeOK, Store, Fault
  <2>3. file' \in Contents /\ armed' \in BOOLEAN
    BY <1>0, <1>3, <2>1 DEF ConfigTypeOK, Store, Write, zookeeper
  <2>4. due' \in BOOLEAN
    BY <1>0, <1>3 DEF ConfigTypeOK, Store, Write, zookeeper
  <2>5. raced' \in BOOLEAN
    BY <1>0, <1>3 DEF ConfigTypeOK, Store
  <2>6. QED
    BY <1>0, <1>3, <2>2, <2>3, <2>4, <2>5 DEF ConfigTypeOK, Store, watcher, reading
<1>4. ASSUME NEW m \in Monitors, Answer(m) PROVE ConfigTypeOK'
  <2>1. req[m] \in Requests
    BY <1>0, <1>4 DEF ConfigTypeOK, Answer
  <2>2. QED
    BY <1>0, <1>4, <2>1 DEF ConfigTypeOK, Answer, Idle, zookeeper, watcher, reading, Contents, Blank
<1>5. ASSUME NEW m \in Monitors, Crash(m) PROVE ConfigTypeOK'
  BY <1>0, <1>5 DEF ConfigTypeOK, Crash, Idle, zookeeper, watcher, reading, Contents, Blank
<1>6. ASSUME Wipe PROVE ConfigTypeOK'
  <2>1. faults' \in 0..MaxFaults
    BY <1>0, <1>6 DEF ConfigTypeOK, Wipe, Fault
  <2>2. armed' \in BOOLEAN /\ due' \in BOOLEAN
    BY <1>0, <1>6 DEF ConfigTypeOK, Wipe, Write
  <2>3. file' \in Contents /\ wiped' \subseteq Requests
    BY <1>0, <1>6 DEF ConfigTypeOK, Wipe, Write, Contents, Blank
  <2>4. QED
    BY <1>0, <1>6, <2>1, <2>2, <2>3 DEF ConfigTypeOK, Wipe, watcher, reading
<1>7. ASSUME NEW r \in Readers, Fetch(r) PROVE ConfigTypeOK'
  <2>1. faults' \in 0..MaxFaults
    <3>1. faults' = faults \/ Fault
      BY <1>7 DEF Fetch
    <3>2. QED
      BY <1>0, <3>1 DEF ConfigTypeOK, Fault
  <2>2. armed' \in BOOLEAN /\ due' \in BOOLEAN
    BY <1>0, <1>7 DEF ConfigTypeOK, Fetch, Rearmed
  <2>3. valid' \in BOOLEAN /\ deaf' \in BOOLEAN /\ untaken' \in BOOLEAN
    BY <1>0, <1>7 DEF ConfigTypeOK, Fetch, Fail
  <2>4. inUse' \in Contents
    BY <1>0, <1>7 DEF ConfigTypeOK, Fetch, Fail, Contents, Blank
  <2>5. got' \in [Readers -> Contents \cup {Nothing}] /\ last' \in Readers /\ passed' \in SUBSET Readers
    BY <1>0, <1>7 DEF ConfigTypeOK, Fetch
  <2>6. QED
    BY <1>0, <1>7, <2>1, <2>2, <2>3, <2>4, <2>5 DEF ConfigTypeOK, Fetch, monitor
<1>8. ASSUME NEW r \in Readers, Apply(r) PROVE ConfigTypeOK'
  <2>1. overtaken' \in BOOLEAN /\ untaken' \in BOOLEAN /\ valid' \in BOOLEAN
    BY <1>0, <1>8 DEF ConfigTypeOK, Apply
  <2>2. inUse' \in Contents /\ old' \in Contents
    BY <1>0, <1>8 DEF ConfigTypeOK, Apply
  <2>3. passed' \in SUBSET Readers /\ got' \in [Readers -> Contents \cup {Nothing}]
    BY <1>0, <1>8, TwoReaders DEF ConfigTypeOK, Apply
  <2>4. QED
    BY <1>0, <1>8, <2>1, <2>2, <2>3 DEF ConfigTypeOK, Apply, zookeeper, monitor
<1>9. ASSUME Lose \/ Restart PROVE ConfigTypeOK'
  BY <1>0, <1>9 DEF ConfigTypeOK, Lose, Restart, Forgotten, zookeeper, monitor, reading,
     Contents, Blank
<1>10. ASSUME Suspend \/ EndThread PROVE ConfigTypeOK'
  <2>1. faults' \in 0..MaxFaults
    BY <1>0, <1>10 DEF ConfigTypeOK, Suspend, EndThread, Fault
  <2>2. inUse' \in Contents
    BY <1>0, <1>10 DEF ConfigTypeOK, Suspend, EndThread, Fail, Contents, Blank
  <2>3. valid' \in BOOLEAN /\ deaf' \in BOOLEAN /\ untaken' \in BOOLEAN
    BY <1>0, <1>10 DEF ConfigTypeOK, Suspend, EndThread, Fail
  <2>4. session' \in {"up", "suspended", "ended"}
    BY <1>10 DEF Suspend, EndThread
  <2>5. QED
    BY <1>0, <1>10, <2>1, <2>2, <2>3, <2>4
    DEF ConfigTypeOK, Suspend, EndThread, zookeeper, monitor, reading
<1>11. CASE UNCHANGED vars
  BY <1>0, <1>11 DEF ConfigTypeOK, vars, zookeeper, monitor, watcher, reading
<1>12. QED
  BY <1>1, <1>2, <1>3, <1>4, <1>5, <1>6, <1>7, <1>8, <1>9, <1>10, <1>11
  DEF Next, MonitorStep, WatcherStep

\* StoredKept and AckedKept: a SET that loses a change has raced, and who empties the file
\* is known.
LEMMA StoredStep ==
    ASSUME FileInv, [Next]_vars
    PROVE  AckedKept' /\ StoredKept'
<1> USE DEF FileInv, ConfigInv, ConfigTypeOK, AckedKept, StoredKept
<1>0. FileInv
  OBVIOUS
<1>1. ASSUME NEW m \in Monitors, Store(m) PROVE AckedKept' /\ StoredKept'
  <2>1. raced => raced'
    BY <1>1 DEF Store
  <2>2. ~raced' => file \subseteq file'
    BY <1>1, <1>0 DEF Store, Write, zookeeper, Changed
  <2>3. m \notin error' => req[m] \in file'
    BY <1>1, <1>0 DEF Store, Write, Changed
  <2>4. UNCHANGED <<req, acked, wiped>> /\ error \subseteq error'
    BY <1>1 DEF Store
  <2>5. \A n \in Monitors : n # m => step'[n] = step[n]
    BY <1>1, <1>0 DEF Store
  <2>6. QED
    BY <1>0, <2>1, <2>2, <2>3, <2>4, <2>5
<1>2. ASSUME NEW m \in Monitors, Answer(m) \/ Crash(m) PROVE AckedKept' /\ StoredKept'
  <2>1. step'[m] = "idle" /\ \A n \in Monitors \ {m} : /\ step'[n] = step[n] /\ req'[n] = req[n]
                                                       /\ n \in error' <=> n \in error
    BY <1>0, <1>2 DEF Answer, Crash, Idle
  <2>2. UNCHANGED <<file, wiped, raced>>
    BY <1>2 DEF Answer, Crash, zookeeper
  <2>3. StoredKept'
    BY <1>0, <2>1, <2>2
  <2>4. AckedKept'
    BY <1>0, <1>2, <2>2 DEF Answer, Crash
  <2>5. QED
    BY <2>3, <2>4
<1>3. ASSUME NEW m \in Monitors, NEW c \in Requests, Read(m, c) PROVE AckedKept' /\ StoredKept'
  <2>1. step'[m] = "write" /\ \A n \in Monitors \ {m} : /\ step'[n] = step[n] /\ req'[n] = req[n]
                                                        /\ n \in error' <=> n \in error
    BY <1>0, <1>3 DEF Read
  <2>2. UNCHANGED <<file, acked, wiped, raced>>
    BY <1>3 DEF Read, zookeeper
  <2>3. QED
    BY <1>0, <2>1, <2>2
<1>4. CASE Wipe
  BY <1>0, <1>4 DEF Wipe
<1>5. CASE (\E c \in Requests : Submit(c)) \/ WatcherStep \/ Suspend \/ EndThread \/ UNCHANGED vars
  <2>1. UNCHANGED <<file, acked, wiped, raced, step, req, error>>
    BY <1>5 DEF Submit, WatcherStep, Fetch, Apply, Lose, Restart, Suspend, EndThread, vars, zookeeper,
       monitor
  <2>2. QED
    BY <1>0, <2>1
<1>6. QED
  BY <1>1, <1>2, <1>3, <1>4, <1>5 DEF Next, MonitorStep

\* The inductive invariant of the monitors holds.
THEOREM FileInvariant == Spec => []FileInv
<1>1. Init => FileInv
  <2> SUFFICES ASSUME Init PROVE FileInv
    OBVIOUS
  <2>1. {} \in Contents
    BY DEF Contents
  <2>2. /\ MaxFaults \in Nat /\ MaxCrashes \in Nat
        /\ 0 \in 0..MaxFaults /\ 0 \in 0..MaxCrashes
    BY ConfigAssumption DEF ConfigAssumption
  <2>3. ConfigTypeOK
    BY <2>1, <2>2 DEF Init, ConfigTypeOK, Blank, Readers
  <2>4. AckedKept /\ StoredKept
    BY DEF Init, AckedKept, StoredKept
  <2>5. QED
    BY <2>3, <2>4 DEF FileInv, ConfigInv
<1>2. FileInv /\ [Next]_vars => FileInv'
  BY TypeStep, StoredStep DEF FileInv, ConfigInv
<1>3. QED
  BY <1>1, <1>2, PTL DEF Spec

\* A request that was answered without an error is in the file, or an operator has undone
\* it, or a monitor has written over what it had not read.
THEOREM AnsweredIsKept == Spec => []ConfigInv
<1>1. FileInv => ConfigInv
  BY DEF FileInv
<1>2. QED
  BY FileInvariant, <1>1, PTL

----------------------------------------------------------------------------
\* A thread reads the file: it is the last one, and the connection works.
LEMMA FetchStep ==
    ASSUME ConfigTypeOK, WatcherInv, NEW r \in Readers, Fetch(r)
    PROVE  WatcherInv'
<1> USE DEF WatcherInv, Watched, BehindIsPassed, UsesOld, LastReadsFile
<1>1. CASE got' = [got EXCEPT ![r] = file]
  <2>1. /\ got'[r] = file /\ \A s \in Readers : s # r => got'[s] = got[s]
        /\ file # Nothing
    BY <1>1, ConfigAssumption DEF ConfigTypeOK, ConfigAssumption
  <2>2. got # got'
    BY <2>1 DEF Fetch
  <2>3. /\ last' = r /\ passed' = passed \ {r}
        /\ armed' /\ session' = "up" /\ due' = FALSE
        /\ UNCHANGED <<old, valid, inUse, file, overtaken, untaken>>
    BY <2>2 DEF Fetch, Rearmed
  <2>4. session \in {"up", "starting"}
    BY DEF Fetch
  <2>5. Watched' /\ LastReadsFile'
    BY <2>1, <2>3
  <2>6. BehindIsPassed'
    BY <2>1, <2>3
  <2>7. UsesOld'
    BY <2>3, <2>4
  <2>8. QED
    BY <2>5, <2>6, <2>7
<1>2. CASE got' # [got EXCEPT ![r] = file]
  <2>1. /\ UNCHANGED <<got, last, passed, armed, old, overtaken>>
        /\ \/ untaken' /\ deaf' /\ session' = "up"
           \/ /\ inUse' = Blank /\ session' \in {"lost", session}
              /\ session' = session => session = "starting"
    BY <1>2 DEF Fetch, Fail
  <2>2. session \in {"up", "starting"}
    BY <1>2 DEF Fetch
  <2>3. CASE untaken' /\ deaf'
    BY <2>1, <2>3
  <2>4. CASE inUse' = Blank /\ session' # "up" /\ (session' = "starting" => session = "starting")
    BY <2>1, <2>4
  <2>5. QED
    BY <2>1, <2>2, <2>3, <2>4
<1>3. QED
  BY <1>1, <1>2

\* A thread compares what it has read: the last one leaves the file in old_data, and the
\* other one is behind, or was there before it.
LEMMA ApplyStep ==
    ASSUME ConfigTypeOK, WatcherInv, NEW r \in Readers, Apply(r)
    PROVE  WatcherInv'
<1> USE DEF WatcherInv, Watched, BehindIsPassed, UsesOld, LastReadsFile
<1>0. ConfigTypeOK /\ WatcherInv /\ Apply(r) /\ last \in Readers
  BY DEF ConfigTypeOK
<1>1. /\ got'[r] = Nothing /\ \A s \in Readers : s # r => got'[s] = got[s]
      /\ got[r] # Nothing
  BY DEF ConfigTypeOK, Apply
<1>2. /\ UNCHANGED <<file, armed, due, session, last, deaf>>
      /\ old' = got[r]
      /\ overtaken' = (r \in passed \/ session # "up" \/ (overtaken /\ ~Differs(got[r])))
      /\ passed' = IF last = r /\ got[Other(r)] # Nothing THEN passed \cup {Other(r)}
                   ELSE passed \ {r}
  BY DEF Apply, zookeeper
<1>3. \/ /\ inUse' = IF Differs(got[r]) THEN got[r] ELSE inUse
         /\ valid' = TRUE
         /\ untaken' = (untaken /\ ~Differs(got[r]))
      \/ untaken' = TRUE
  BY DEF Apply
<1>4. Watched'
  BY <1>0, <1>2
<1>5. BehindIsPassed'
  <2>1. last \notin passed'
    BY <1>0, <1>2, TwoReaders
  <2>2. CASE last = r
    BY <1>0, <1>1, <1>2, <2>1, <2>2, TwoReaders
  <2>3. CASE last # r
    <3>1. r = Other(last)
      BY <1>0, <2>3, TwoReaders
    <3>2. QED
      BY <1>1, <1>2, <2>1, <3>1
  <2>4. QED
    BY <2>2, <2>3
<1>6. UsesOld'
  <2>1. ~overtaken' => session = "up" /\ (Differs(got[r]) \/ ~overtaken)
    BY <1>2
  <2>2. ~overtaken' /\ Differs(got[r]) => untaken' \/ inUse' = old'
    BY <1>2, <1>3
  <2>3. ~overtaken' /\ ~Differs(got[r]) => untaken' \/ inUse' = old'
    <3>1. ~Differs(got[r]) => old' = old
      BY <1>2 DEF Differs
    <3>2. ~overtaken' /\ ~Differs(got[r]) => untaken \/ inUse = old
      BY <1>0, <2>1
    <3>3. QED
      BY <1>3, <3>1, <3>2
  <2>4. QED
    BY <1>2, <2>1, <2>2, <2>3
<1>7. LastReadsFile'
  <2>1. CASE last = r
    BY <1>0, <1>1, <1>2, <1>3, <2>1
  <2>2. CASE last # r
    <3>1. r = Other(last) /\ got'[last] = got[last]
      BY <1>0, <1>1, <2>2, TwoReaders
    <3>2. got[last] = Nothing => overtaken'
      BY <1>0, <1>1, <1>2, <3>1
    <3>3. valid \/ untaken => valid' \/ untaken'
      BY <1>3
    <3>4. QED
      BY <1>0, <1>2, <3>1, <3>2, <3>3
  <2>3. QED
    BY <2>1, <2>2
<1>8. QED
  BY <1>4, <1>5, <1>6, <1>7

LEMMA WatcherStepKeeps ==
    ASSUME ConfigTypeOK, WatcherInv, [Next]_vars
    PROVE  WatcherInv'
<1> USE DEF WatcherInv, Watched, BehindIsPassed, UsesOld, LastReadsFile
<1>0. WatcherInv
  OBVIOUS
<1>1. ASSUME NEW data, Write(data), UNCHANGED watcher PROVE WatcherInv'
  <2>1. armed \/ due => due'
    BY <1>1 DEF Write
  <2>2. UNCHANGED <<session, got, last, passed, overtaken, old, valid, inUse>>
    BY <1>1 DEF watcher, reading
  <2>3. UNCHANGED <<deaf, untaken>>
    BY <1>1 DEF watcher
  <2>4. QED
    BY <1>0, <2>1, <2>2, <2>3
<1>2. ASSUME UNCHANGED <<zookeeper, watcher>> PROVE WatcherInv'
  <2>1. UNCHANGED <<file, armed, due, session, got, last, passed, overtaken, old, valid, inUse,
                  deaf, untaken>>
    BY <1>2 DEF zookeeper, watcher, reading
  <2>2. QED
    BY <1>0, <2>1
<1>3. ASSUME NEW m \in Monitors, Store(m) PROVE WatcherInv'
  <2>1. UNCHANGED watcher /\ (Write(Changed(m)) \/ UNCHANGED zookeeper)
    BY <1>3 DEF Store
  <2>2. QED
    BY <1>1, <1>2, <2>1
<1>4. CASE Wipe
  BY <1>1, <1>4 DEF Wipe
<1>5. ASSUME NEW r \in Readers, Fetch(r) \/ Apply(r) PROVE WatcherInv'
  BY <1>5, FetchStep, ApplyStep
<1>6. CASE Lose \/ Restart \/ Suspend \/ EndThread
  <2>1. UNCHANGED <<got, last, passed, overtaken>>
    BY <1>6 DEF Lose, Restart, Suspend, EndThread, reading
  <2>2. session' # "up" \/ (session = "starting" /\ session' = "up" /\ deaf')
    BY <1>6 DEF Lose, Restart, Suspend, EndThread
  <2>3. session' = "starting" => old' = Blank
    BY <1>6 DEF Lose, Restart, Suspend, EndThread, Forgotten
  <2>4. ~overtaken => untaken' \/ inUse' = Blank
    BY <1>0, <1>6 DEF Lose, Restart, Suspend, EndThread, Fail
  <2>5. session' = "up" => old' = old
    BY <1>6 DEF Lose, Restart, Suspend, EndThread
  <2>6. QED
    BY <1>0, <2>1, <2>2, <2>3, <2>4, <2>5
<1>7. ASSUME NEW m \in Monitors, Answer(m) \/ Crash(m) \/ \E c \in Requests : Read(m, c)
      PROVE  WatcherInv'
  BY <1>2, <1>7 DEF Answer, Crash, Read
<1>8. CASE (\E c \in Requests : Submit(c)) \/ UNCHANGED vars
  BY <1>2, <1>8 DEF Submit, vars
<1>9. QED
  BY <1>3, <1>4, <1>5, <1>6, <1>7, <1>8 DEF Next, MonitorStep, WatcherStep

\* The inductive invariant of the watcher holds.
THEOREM WatcherInvariant == Spec => [](ConfigTypeOK /\ WatcherInv)
<1>1. Init => WatcherInv
  BY DEF Init, WatcherInv, Watched, BehindIsPassed, UsesOld, LastReadsFile, Readers, Other
<1>2. ConfigTypeOK /\ WatcherInv /\ [Next]_vars => (ConfigTypeOK /\ WatcherInv)'
  BY TypeStep, WatcherStepKeeps
<1>3. FileInv => ConfigTypeOK
  BY DEF FileInv, ConfigInv
<1>4. QED
  BY <1>1, <1>2, <1>3, FileInvariant, PTL DEF Spec

\* A connected watcher with nothing on its way to it has its watch, unless an exception ended
\* the thread that had to set it; and then, unless a handler raised, it says it is valid, and
\* has the spider use the file unless its threads overtook each other or a reconnection came
\* between.
THEOREM ValidMeansCurrent == Spec => []ValidIsCurrent
<1>1. ConfigTypeOK /\ WatcherInv => ValidIsCurrent
  <2> SUFFICES ASSUME ConfigTypeOK, WatcherInv, Settled, ~deaf
               PROVE  armed /\ (untaken \/ valid) /\ (untaken \/ overtaken \/ inUse = file)
    BY DEF ValidIsCurrent
  <2>1. got[last] = Nothing /\ session = "up" /\ ~due
    BY DEF ConfigTypeOK, Settled
  <2>2. armed
    BY <2>1 DEF WatcherInv, Watched
  <2>3. untaken \/ valid
    BY <2>1 DEF WatcherInv, LastReadsFile
  <2>4. untaken \/ overtaken \/ inUse = file
    BY <2>1 DEF WatcherInv, UsesOld, LastReadsFile
  <2>5. QED
    BY <2>2, <2>3, <2>4
<1>2. QED
  BY <1>1, WatcherInvariant, PTL
============================================================================
