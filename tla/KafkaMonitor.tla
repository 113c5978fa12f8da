----------------------------- MODULE KafkaMonitor -----------------------------
(***************************************************************************)
(* How the Kafka monitors consume the requests of a cluster                *)
(* (kafka-monitor/kafka_monitor.py): the group owns one partition of the   *)
(* incoming topic, the client library commits the position of its owner by *)
(* a timer, each message goes to the plugin whose schema fits it or is     *)
(* counted as a failure, and a process that dies is started again by its   *)
(* supervisor.                                                             *)
(*                                                                         *)
(* Of a message the model keeps what becomes of it:                        *)
(*   "good"         a handler accepts it                                   *)
(*   "refused"      its handler raises a ValueError                        *)
(*   "fatal"        its handling raises anything else, every time          *)
(*   "unfit"        it is not JSON, or fits no schema                      *)
(*   "undecodable"  it is not UTF-8: the iteration over the consumer fails *)
(***************************************************************************)
EXTENDS Integers, FiniteSets, Sequences

CONSTANTS
    Monitors,     \* the Kafka monitors of the group
    Nobody,       \* the owner of a partition that has none
    MaxMessages,  \* bound: messages in the topic
    MaxExpired,   \* bound: messages that retention removes
    MaxChanges    \* bound: crashes, interrupts, lost sessions and rebalances

Kinds == {"good", "refused", "fatal", "unfit", "undecodable"}

ASSUME KafkaAssumption ==
    /\ IsFiniteSet(Monitors) /\ Nobody \notin Monitors
    /\ {MaxMessages, MaxExpired, MaxChanges} \subseteq Nat

VARIABLES
    topic,        \* all messages ever produced; the offset of the first is 1
    start,        \* the first offset that retention has left
    committed,    \* the offset the group goes on from; 0 when it has none yet
    owner,        \* the monitor the broker has assigned the partition to
    assigned,     \* the monitors that believe to have it
    pos,          \* the position of each consumer: the offset it delivers next
    pc,           \* what each monitor is about to do
    total,        \* the offsets in the counters of stats:kafka-monitor:total,
    routed,       \* in those of a plugin,
    failed,       \* and in those of stats:kafka-monitor:fail
    handled,      \* history: the offsets whose handler has returned
    dropped,      \* history: those whose handling an interrupt has cut short
    expired,      \* history: those that retention removed before they were settled
    changes

broker == <<topic, start, committed, owner>>
consumers == <<assigned, pos>>
stats == <<total, routed, failed>>
history == <<stats, handled, dropped, expired>>
vars == <<broker, consumers, pc, history, changes>>

Offsets == 1..Len(topic)
settled == handled \cup failed

KafkaTypeOK ==
    /\ topic \in Seq(Kinds) /\ Len(topic) <= MaxMessages
    /\ start \in 1..Len(topic) + 1
    /\ committed \in 0..Len(topic) + 1
    /\ owner \in Monitors \cup {Nobody}
    /\ assigned \subseteq Monitors
    /\ pos \in [Monitors -> 1..Len(topic) + 1]
    /\ pc \in [Monitors -> {"down", "poll", "count", "route", "handle", "fail"}]
    /\ \A m \in assigned : pc[m] # "down"
    /\ {total, routed, failed, handled, dropped, expired} \subseteq SUBSET Offsets
    /\ changes \in 0..MaxChanges

----------------------------------------------------------------------------
(***************************************************************************)
(* Decisions of the code.  The name of a mistaken variant, which only a    *)
(* mutation uses, ends in Latest, Oldest, Always or Only.                  *)
(***************************************************************************)
\* KAFKA_CONSUMER_AUTO_OFFSET_RESET: where a consumer without a valid position begins.
FallbackLatest == Len(topic) + 1
Fallback == start

\* A consumer begins where its group has got to.
BeginOldest == start
Begin == IF committed < start THEN Fallback ELSE committed

\* The client library commits inside the iteration, when the loop asks for a message.
MayCommitAlways(m) == pc[m] # "down"
MayCommit(m) == pc[m] = "poll"

\* The messages after which _process_messages goes on: except ValueError, and the branch
\* of a message without a plugin.
SurvivedOnly == {"unfit"}
Survived == {"unfit", "refused"}

Busy(m) == pc[m] \in {"count", "route", "handle", "fail"}
InHand(m) == pos[m] - 1

Goto(m, to) == pc' = [pc EXCEPT ![m] = to]

\* An error that nothing catches ends the process: main catches only a KeyboardInterrupt, so
\* that the consumer is not closed and its position is not committed.
Die(m) ==
    /\ assigned' = assigned \ {m}
    /\ Goto(m, "down")

Change ==
    /\ changes < MaxChanges
    /\ changes' = changes + 1

Init ==
    /\ topic = <<>> /\ start = 1 /\ committed = 0 /\ owner = Nobody
    /\ assigned = {}
    /\ pos = [m \in Monitors |-> 1]
    /\ pc = [m \in Monitors |-> "down"]
    /\ total = {} /\ routed = {} /\ failed = {}
    /\ handled = {} /\ dropped = {} /\ expired = {}
    /\ changes = 0

----------------------------------------------------------------------------
(***************************************************************************)
(* One iteration of _process_messages.                                     *)
(***************************************************************************)
\* The consumer moves its position and delivers.  Messages that were fetched are delivered
\* though retention has removed them, and though the broker has given the partition away.
Take(m) ==
    /\ pc[m] = "poll" /\ m \in assigned
    /\ pos[m] \in Offsets /\ topic[pos[m]] # "undecodable"
    /\ pos' = [pos EXCEPT ![m] = @ + 1]
    /\ Goto(m, "count")
    /\ UNCHANGED <<broker, assigned, history, changes>>

\* _increment_total_stat; the message is parsed, and a schema is looked for.  Parsing may
\* raise an error that is no ValueError (a RecursionError of json.loads).
Count(m) ==
    /\ pc[m] = "count"
    /\ total' = total \cup {InHand(m)}
    /\ \/ /\ Goto(m, IF topic[InHand(m)] = "unfit" THEN "fail" ELSE "route")
          /\ UNCHANGED assigned
       \/ topic[InHand(m)] = "fatal" /\ Die(m)
    /\ UNCHANGED <<broker, pos, routed, failed, handled, dropped, expired, changes>>

\* _increment_plugin_stat.
Route(m) ==
    /\ pc[m] = "route"
    /\ routed' = routed \cup {InHand(m)}
    /\ Goto(m, "handle")
    /\ UNCHANGED <<broker, consumers, total, failed, handled, dropped, expired, changes>>

\* The handler returns, or raises an error (an OverflowError of ujson.dumps, which a large
\* integer in 'expires' provokes, is none that the loop survives).
Handle(m) ==
    /\ pc[m] = "handle"
    /\ LET kind == topic[InHand(m)]
       IN  \/ /\ kind = "good"
              /\ handled' = handled \cup {InHand(m)}
              /\ Goto(m, "poll")
              /\ UNCHANGED assigned
           \/ /\ kind # "good"
              /\ IF kind \in Survived
                 THEN Goto(m, "fail") /\ UNCHANGED assigned
                 ELSE Die(m)
              /\ UNCHANGED handled
    /\ UNCHANGED <<broker, pos, stats, dropped, expired, changes>>

\* _increment_fail_stat.
Fail(m) ==
    /\ pc[m] = "fail"
    /\ failed' = failed \cup {InHand(m)}
    /\ Goto(m, "poll")
    /\ UNCHANGED <<broker, consumers, total, routed, handled, dropped, expired, changes>>

\* The library decodes what it has fetched, all at once; the error is not caught.
Undecodable(m) ==
    /\ pc[m] = "poll" /\ m \in assigned
    /\ \E o \in Offsets : o >= pos[m] /\ topic[o] = "undecodable"
    /\ Die(m)
    /\ UNCHANGED <<broker, pos, history, changes>>

\* The library resets a position that retention has overtaken.
Reset(m) ==
    /\ pc[m] = "poll" /\ m \in assigned
    /\ pos[m] < start
    /\ pos' = [pos EXCEPT ![m] = Fallback]
    /\ UNCHANGED <<broker, assigned, pc, history, changes>>

\* The commit timer of the library; the broker refuses a consumer that it has excluded.
Commit(m) ==
    /\ MayCommit(m) /\ m \in assigned /\ owner = m
    /\ committed # pos[m]
    /\ committed' = pos[m]
    /\ UNCHANGED <<topic, start, owner, consumers, pc, history, changes>>

----------------------------------------------------------------------------
(***************************************************************************)
(* Processes, the group and the topic.                                     *)
(***************************************************************************)
\* The supervisor starts the process; run creates the consumer.
Start(m) ==
    /\ pc[m] = "down"
    /\ Goto(m, "poll")
    /\ UNCHANGED <<broker, consumers, history, changes>>

\* The process is killed, or Redis fails it: neither is a ValueError.
Crash(m) ==
    /\ pc[m] # "down" /\ Change
    /\ Die(m)
    /\ UNCHANGED <<broker, pos, history>>

\* Ctrl-C: main closes the consumer, which commits its position and leaves the group.
Interrupt(m) ==
    /\ pc[m] # "down" /\ Change
    /\ IF m \in assigned /\ owner = m
       THEN /\ committed' = pos[m] /\ owner' = Nobody
            /\ dropped' = dropped \cup (IF Busy(m) THEN {InHand(m)} ELSE {})
       ELSE UNCHANGED <<committed, owner, dropped>>
    /\ assigned' = assigned \ {m}
    /\ Goto(m, "down")
    /\ UNCHANGED <<topic, start, pos, stats, handled, expired>>

\* The broker assigns the partition; the consumer begins where the group has got to.
Assign(m) ==
    /\ owner = Nobody /\ pc[m] = "poll" /\ m \notin assigned
    /\ owner' = m
    /\ assigned' = assigned \cup {m}
    /\ pos' = [pos EXCEPT ![m] = Begin]
    /\ UNCHANGED <<topic, start, committed, pc, history, changes>>

\* The session of the owner ends: it is down, or the broker has not heard of it for long.
Evict ==
    /\ owner # Nobody
    /\ IF owner \in assigned THEN Change ELSE UNCHANGED changes
    /\ owner' = Nobody
    /\ UNCHANGED <<topic, start, committed, consumers, pc, history>>

\* A member has joined: the owner commits and gives the partition back.
Rebalance(m) ==
    /\ m \in assigned /\ owner = m /\ pc[m] = "poll" /\ Change
    /\ committed' = pos[m] /\ owner' = Nobody
    /\ assigned' = assigned \ {m}
    /\ UNCHANGED <<topic, start, pos, pc, history>>

\* A consumer finds that the broker has excluded it.
Notice(m) ==
    /\ m \in assigned /\ owner # m /\ pc[m] = "poll"
    /\ assigned' = assigned \ {m}
    /\ UNCHANGED <<broker, pos, pc, history, changes>>

\* A producer that retries may store a message twice.
Retries == 1..2

\* feed, the REST service, or any other producer.
Feed(kind) ==
    /\ \E copies \in Retries :
          /\ Len(topic) + copies <= MaxMessages
          /\ topic' = topic \o [i \in 1..copies |-> kind]
    /\ UNCHANGED <<start, committed, owner, consumers, pc, history, changes>>

\* Kafka removes the oldest message.
Expire ==
    /\ start \in Offsets /\ start <= MaxExpired
    /\ start' = start + 1
    /\ expired' = IF start \in settled THEN expired ELSE expired \cup {start}
    /\ UNCHANGED <<topic, committed, owner, consumers, pc, stats, handled, dropped, changes>>

Work(m) ==
    \/ Take(m) \/ Count(m) \/ Route(m) \/ Handle(m) \/ Fail(m)
    \/ Undecodable(m) \/ Reset(m) \/ Notice(m)

Next ==
    \/ \E m \in Monitors :
           \/ Work(m) \/ Commit(m)
           \/ Start(m) \/ Crash(m) \/ Interrupt(m)
           \/ Assign(m) \/ Rebalance(m)
    \/ \E kind \in Kinds : Feed(kind)
    \/ Evict \/ Expire

Spec == Init /\ [][Next]_vars

\* A process runs and is started again when it has stopped (restart: always); the broker
\* ends the session of a consumer that is gone and gives the partition to another.
FairSpec ==
    /\ Spec
    /\ \A m \in Monitors : WF_vars(Work(m)) /\ WF_vars(Start(m))
    /\ WF_vars(owner \notin assigned /\ Evict)
    /\ WF_vars(\E m \in Monitors : Assign(m))

----------------------------------------------------------------------------
\* Nothing is skipped: what the group has passed was handled or counted as a failure,
\* except for what an operator's Ctrl-C has cut short and what retention has removed.
\* (_process_messages against the commit timer, close and the offset reset.)
NothingSkipped ==
    \A o \in Offsets : o < committed => o \in settled \cup dropped \cup expired

\* The counters miss no message that was dealt with, and tell its fate, with one exception:
\* a message whose handler refuses it is counted for its plugin and as a failure.
\* (A message that is delivered again is counted again.)
StatsAgree ==
    /\ settled \cup routed \subseteq total /\ handled \subseteq routed
    /\ \A o \in routed \cap failed : topic[o] = "refused"

\* The types, nothing is skipped, and the counters agree.
KafkaInv == KafkaTypeOK /\ NothingSkipped /\ StatsAgree

\* The message in the hands of the owner is not committed, so that a crash in the middle
\* of its handling does not lose it, and the owner never handles again what the group has
\* passed; only a consumer that the broker has excluded may.
InHandIsUncommitted ==
    \A m \in Monitors : Busy(m) /\ owner = m => InHand(m) >= committed

\* What keeps a message from being dealt with for as long as retention keeps it: one that
\* cannot be decoded stops every monitor that fetches it, wherever it stands; one whose
\* handling is fatal stops every monitor that gets to it, again after each restart, and
\* nobody gets past it.
Blocked(o) ==
    \E p \in start..Len(topic) :
        topic[p] = "undecodable" \/ (topic[p] = "fatal" /\ p <= o)

\* Every message is dealt with in the end, whatever dies: it is handled or counted as a
\* failure, cut short, or removed; or it is blocked.
EachServed ==
    \A o \in 1..MaxMessages :
        o \in Offsets ~> o \in settled \cup dropped \cup expired \/ Blocked(o)

\* To its producers the group is a reader that deals with each message at least once: the
\* offset it commits never goes back and passes no message that is neither handled, nor
\* counted as a failure, nor lost to an interrupt or to retention.
Reader == INSTANCE AtLeastOnce WITH
    log <- topic, cursor <- committed, done <- settled, lost <- dropped \cup expired

ReaderSpec == Reader!Spec
=============================================================================
