--------------------------- MODULE SchedulerQueues ---------------------------
(***************************************************************************)
(* crawler/crawling/distributed_scheduler.py: how one spider process keeps *)
(* a throttled queue in memory for every queue key in Redis, and how a     *)
(* configuration from Zookeeper reaches the limits of those queues.        *)
(*                                                                         *)
(* Scrapy's reactor calls next_request and enqueue_request; the callbacks  *)
(* of the ZookeeperWatcher (change_config, error_config) run on threads of *)
(* Kazoo.  They share queue_keys, queue_dict, domain_config, config_flag   *)
(* and black_domains without a lock.  An action is what happens between    *)
(* two accesses whose order another thread can notice; a for loop over a   *)
(* shared list sees what others do to that list.                           *)
(***************************************************************************)
EXTENDS Integers, FiniteSets

CONSTANTS
    Domains,      \* the domains, each with its queue key in Redis
    Reactor,      \* the reactor thread
    Watchers,     \* the threads of Kazoo that run callbacks
    Default,      \* QUEUE_WINDOW and QUEUE_HITS
    Custom,       \* other windows and hits that a configuration may name
    Broken,       \* a configured setting whose scale rounds its hits to 0
    Unset,        \* a domain that is not in domain_config
    Gone,         \* a key that is not in queue_dict
    Configs,      \* configurations: their domains and their blacklist, or none
    MaxEvents,    \* bound: the callbacks of Zookeeper
    MaxAges       \* bound: how often a queue is unused for queue_timeout

Threads == {Reactor} \cup Watchers
Settings == Custom \cup {Default, Broken}

ASSUME SchedulerAssumption ==
    /\ IsFiniteSet(Domains) /\ IsFiniteSet(Watchers)
    /\ Reactor \notin Watchers
    /\ Unset \notin Settings /\ Default # Broken
    /\ \A c \in Configs :
          /\ c.domains \in [Domains -> Custom \cup {Broken, Unset}]
          /\ c.blacklist \in (SUBSET Domains) \cup {Unset}
    /\ Gone \notin [limit : Settings, pace : Settings]
    /\ MaxEvents \in Nat /\ MaxAges \in Nat

VARIABLES
    present,      \* the domains whose queue key exists in Redis
    keys,         \* self.queue_keys
    listedBy,     \* the thread that made that list
    queues,       \* self.queue_dict: a queue has a window and limit, and a moderation
    aged,         \* the domains whose queue was last used queue_timeout ago
    conf,         \* self.domain_config
    flag,         \* self.config_flag
    black,        \* self.black_domains
    pc, todo,     \* the step each thread is about to take, what its loop has left
    cur, read,    \* the domain it is at, and the setting it has read for it
    fresh,        \* newConf in its create_queues
    torn,         \* history: the loop that builds queue_keys was cut short or misled
    astray,       \* history: the queues whose limit a configuration has not reached
    events, ages  \* history: callbacks and timeouts

config == <<conf, flag, black>>
memory == <<keys, listedBy, queues, aged>>
locals == <<pc, todo, cur, read, fresh>>
vars == <<present, memory, config, locals, torn, astray, events, ages>>

Building == {"build", "look", "store"}
Reverting == {"wiped", "lost"}
Steps == Building \cup Reverting \cup
         {"idle", "list", "expire", "find", "load", "update", "touch"}

SchedulerTypeOK ==
    /\ present \in SUBSET Domains /\ keys \in SUBSET Domains
    /\ listedBy \in Threads
    /\ queues \in [Domains -> [limit : Settings, pace : Settings \ {Broken}] \cup {Gone}]
    /\ aged \in SUBSET {d \in Domains : queues[d] # Gone}
    /\ conf \in [Domains -> Settings \cup {Unset}]
    /\ flag \in BOOLEAN /\ black \in SUBSET Domains
    /\ pc \in [Threads -> Steps]
    /\ todo \in [Threads -> SUBSET Domains]
    /\ cur \in [Threads -> Domains \cup {Gone}]
    /\ read \in [Threads -> Settings \cup {Unset}]
    /\ fresh \in [Threads -> BOOLEAN]
    /\ torn \in BOOLEAN /\ astray \in SUBSET Domains
    /\ events \in 0..MaxEvents /\ ages \in 0..MaxAges

----------------------------------------------------------------------------
(***************************************************************************)
(* Decisions of the code.  The name of a mistaken variant, which only a    *)
(* mutation uses, ends in Never, Only, Missing or Kept.                    *)
(***************************************************************************)
\* create_queues: the test before a queue is built.
RebuiltOnly(t, d) == fresh[t]
RebuiltMissing(t, d) == queues[d] = Gone
Rebuilt(t, d) == queues[d] = Gone \/ fresh[t]

\* expire_queues: queue_keys without the key whose queue was deleted.
UnlistedKept(d) == keys
Unlisted(d) == keys \ {d}

\* update_domain_queues: the queue under a new configuration.  Its moderation was
\* computed when it was built.
RetunedNever(d) == queues[d]
Retuned(d) == [queues[d] EXCEPT !.limit = conf[d]]

\* check_config.
Taken == flag

\* The setting that domain_config and the defaults give a domain.
Wanted(d) == IF conf[d] = Unset THEN Default ELSE conf[d]
Configured == {d \in Domains : conf[d] # Unset}
Amiss == {d \in Domains : queues[d] # Gone /\ queues[d].limit # Wanted(d)}

Goto(t, step) == pc' = [pc EXCEPT ![t] = step]

\* A thread is done, or an exception ends what it does.  Its locals die.
Leave(t, step) ==
    /\ Goto(t, step)
    /\ todo' = [todo EXCEPT ![t] = {}]
    /\ cur' = [cur EXCEPT ![t] = Gone]
    /\ read' = [read EXCEPT ![t] = Unset]
    /\ fresh' = [fresh EXCEPT ![t] = FALSE]

\* Loops of watchers over the very list that the reactor changes in place.
Misled == {t \in Watchers : t = listedBy /\ pc[t] \in Building}

\* DistributedScheduler.open, when the watcher has handed over what it found in the file.
Init ==
    /\ \/ conf = [d \in Domains |-> Unset] /\ black = {}
       \/ \E c \in Configs :
             /\ conf = c.domains /\ \A d \in Domains : conf[d] # Broken
             /\ black = IF c.blacklist = Unset THEN {} ELSE c.blacklist
    /\ flag = FALSE
    /\ present \in SUBSET Domains
    /\ keys = present /\ listedBy \in Watchers
    /\ queues = [d \in Domains |->
                   IF d \in present THEN [limit |-> Wanted(d), pace |-> Wanted(d)] ELSE Gone]
    /\ aged = {}
    /\ pc = [t \in Threads |-> "idle"]
    /\ todo = [t \in Threads |-> {}]
    /\ cur = [t \in Threads |-> Gone]
    /\ read = [t \in Threads |-> Unset]
    /\ fresh = [t \in Threads |-> FALSE]
    /\ torn = FALSE /\ astray = {}
    /\ events = 0 /\ ages = 0

----------------------------------------------------------------------------
(***************************************************************************)
(* create_queues, on either kind of thread.                                *)
(***************************************************************************)
\* check_config, KEYS, and the assignment of queue_keys.
List(t) ==
    /\ \/ t = Reactor /\ pc[t] = "idle"
       \/ pc[t] = "list"
    /\ fresh' = [fresh EXCEPT ![t] = Taken]
    /\ flag' = FALSE
    /\ keys' = present
    /\ listedBy' = t
    /\ torn' = FALSE
    /\ todo' = [todo EXCEPT ![t] = present]
    /\ Goto(t, "build")
    /\ UNCHANGED <<present, queues, aged, conf, black, cur, read, astray, events, ages>>

\* One key of the list.
Build(t) ==
    /\ pc[t] = "build"
    /\ \E d \in todo[t] :
          /\ todo' = [todo EXCEPT ![t] = @ \ {d}]
          /\ \/ /\ ~Rebuilt(t, d)
                /\ UNCHANGED <<pc, cur, read>>
             \/ /\ Rebuilt(t, d)
                /\ cur' = [cur EXCEPT ![t] = d]
                /\ \/ /\ conf[d] = Unset
                      /\ read' = [read EXCEPT ![t] = Default]
                      /\ Goto(t, "store")
                   \/ /\ conf[d] # Unset
                      /\ Goto(t, "look")
                      /\ UNCHANGED read
    /\ UNCHANGED <<present, memory, config, fresh, torn, astray, events, ages>>

\* An exception in create_queues leaves the rest of the list as it is.
CutShort(t) ==
    /\ Leave(t, "idle")
    /\ torn' = (torn \/ listedBy = t)

\* The domain may have left domain_config since it was found there: a KeyError.
LookUp(t) ==
    /\ pc[t] = "look"
    /\ \/ /\ conf[cur[t]] # Unset
          /\ read' = [read EXCEPT ![t] = conf[cur[t]]]
          /\ Goto(t, "store")
          /\ UNCHANGED <<todo, cur, fresh, torn>>
       \/ /\ conf[cur[t]] = Unset
          /\ CutShort(t)
    /\ UNCHANGED <<present, memory, config, astray, events, ages>>

\* RedisThrottledQueue(...) divides by the limit when it moderates, unless it is 1.
Store(t) ==
    /\ pc[t] = "store"
    /\ LET d == cur[t] IN
       \/ /\ read[t] # Broken
          /\ queues' = [queues EXCEPT ![d] = [limit |-> read[t], pace |-> read[t]]]
          /\ aged' = aged \ {d}
          /\ astray' = IF \/ read[t] # Wanted(d)
                          \/ read[t] # Default /\ \E w \in Watchers : pc[w] \in Reverting
                       THEN astray \cup {d} ELSE astray \ {d}
          /\ Goto(t, "build")
          /\ cur' = [cur EXCEPT ![t] = Gone]
          /\ read' = [read EXCEPT ![t] = Unset]
          /\ UNCHANGED <<todo, fresh, torn>>
       \/ /\ read[t] = Broken
          /\ CutShort(t)
          /\ UNCHANGED <<queues, aged, astray>>
    /\ UNCHANGED <<present, keys, listedBy, config, events, ages>>

\* The loop is over; next_request goes on with the queues that are old by now.
Built(t) ==
    /\ pc[t] = "build" /\ todo[t] = {}
    /\ \/ /\ t \in Watchers
          /\ Leave(t, "idle")
       \/ /\ t = Reactor
          /\ Goto(t, IF aged = {} THEN "find" ELSE "expire")
          /\ todo' = [todo EXCEPT ![t] = aged]
          /\ fresh' = [fresh EXCEPT ![t] = FALSE]
          /\ UNCHANGED <<cur, read>>
    /\ UNCHANGED <<present, memory, config, torn, astray, events, ages>>

----------------------------------------------------------------------------
(***************************************************************************)
(* The reactor: expire_queues, find_item, enqueue_request.                 *)
(***************************************************************************)
\* list.remove under a loop makes the loop skip the element after the one it is at,
\* if it has passed the one that was removed.
Expire ==
    /\ pc[Reactor] = "expire"
    /\ \E d \in todo[Reactor] :
       /\ \/ /\ d \in aged
             /\ queues' = [queues EXCEPT ![d] = Gone]
             /\ aged' = aged \ {d}
             /\ keys' = Unlisted(d)
             /\ \/ /\ d \notin keys \/ Misled = {}
                   /\ todo' = [todo EXCEPT ![Reactor] = @ \ {d}]
                   /\ UNCHANGED torn
                \/ /\ d \in keys
                   /\ \E w \in Misled :
                        /\ torn' = (torn \/ d \notin todo[w])
                        /\ \/ /\ d \in todo[w] \/ todo[w] = {}
                              /\ todo' = [todo EXCEPT ![Reactor] = @ \ {d}, ![w] = @ \ {d}]
                           \/ /\ d \notin todo[w]
                              /\ \E e \in todo[w] :
                                   todo' = [todo EXCEPT ![Reactor] = @ \ {d}, ![w] = @ \ {e}]
          \/ /\ d \notin aged
             /\ todo' = [todo EXCEPT ![Reactor] = @ \ {d}]
             /\ UNCHANGED <<keys, queues, aged, torn>>
    /\ Goto(Reactor, IF todo'[Reactor] = {} THEN "find" ELSE "expire")
    /\ UNCHANGED <<present, listedBy, config, cur, read, fresh, astray, events, ages>>

\* random.shuffle(self.queue_keys): a loop that is under way goes on at its place in
\* the new order.
Shuffle ==
    \/ /\ \A w \in Misled : todo[w] = {}
       /\ UNCHANGED <<todo, torn>>
    \/ \E w \in Misled : \E rest \in SUBSET keys :
          /\ todo[w] # {} /\ Cardinality(rest) = Cardinality(todo[w])
          /\ todo' = [todo EXCEPT ![w] = rest]
          /\ torn' = (torn \/ rest # todo[w])

Searched == keys \ black

\* find_item: the queue of a key has a request and its throttle allows it.
Pop(d) ==
    /\ pc[Reactor] \in {"idle", "find"}
    /\ d \in Searched \cap present
    /\ queues[d] # Gone /\ queues[d].limit # Broken
    /\ Shuffle
    /\ present' \in {present, present \ {d}}
    /\ aged' = aged \ {d}
    /\ Goto(Reactor, "idle")
    /\ UNCHANGED <<keys, listedBy, queues, config, cur, read, fresh, astray, events, ages>>

\* Nothing is found, or a listed key has no queue and next_request ends in a KeyError.
FindNothing ==
    /\ pc[Reactor] \in {"idle", "find"}
    /\ Shuffle
    /\ Goto(Reactor, "idle")
    /\ UNCHANGED <<present, memory, config, cur, read, fresh, astray, events, ages>>

\* enqueue_request, through the queue in memory or by ZADD, for blacklisted domains as
\* well (SCHEDULER_BACKLOG_BLACKLIST).  A key that is listed and has no queue is a
\* KeyError.
Enqueue(d) ==
    /\ pc[Reactor] = "idle"
    /\ d \in keys => queues[d] # Gone
    /\ present' = present \cup {d}
    /\ UNCHANGED <<memory, config, locals, torn, astray, events, ages>>

----------------------------------------------------------------------------
(***************************************************************************)
(* The callbacks of the ZookeeperWatcher.                                  *)
(***************************************************************************)
Called(w) ==
    /\ pc[w] = "idle"
    /\ events < MaxEvents
    /\ events' = events + 1

\* change_config with a new configuration: domain_config becomes an empty dict ...
ChangeConfig(w) ==
    /\ Called(w)
    /\ conf' = [d \in Domains |-> Unset]
    /\ astray' = astray \cup Configured
    /\ Goto(w, "load")
    /\ UNCHANGED <<present, memory, flag, black, todo, cur, read, fresh, torn, ages>>

\* ... that is filled.  A configuration without a blacklist leaves the old one.
LoadConfig(w) ==
    /\ pc[w] = "load"
    /\ \E loaded \in Configs :
          /\ conf' = [d \in Domains |->
                        IF loaded.domains[d] = Unset THEN conf[d] ELSE loaded.domains[d]]
          /\ todo' = [todo EXCEPT ![w] = {d \in Domains : conf'[d] # Unset}]
          /\ black' = IF loaded.blacklist = Unset THEN black ELSE loaded.blacklist
    /\ flag' = TRUE
    /\ Goto(w, "update")
    /\ UNCHANGED <<present, memory, cur, read, fresh, torn, astray, events, ages>>

\* update_domain_queues: is there a queue?
Update(w) ==
    /\ pc[w] = "update"
    /\ \/ /\ todo[w] = {}
          /\ Goto(w, "list")
          /\ UNCHANGED <<todo, cur>>
       \/ \E d \in todo[w] :
          /\ todo' = [todo EXCEPT ![w] = @ \ {d}]
          /\ \/ /\ queues[d] = Gone
                /\ UNCHANGED <<pc, cur>>
             \/ /\ queues[d] # Gone
                /\ cur' = [cur EXCEPT ![w] = d]
                /\ Goto(w, "touch")
    /\ UNCHANGED <<present, memory, config, read, fresh, torn, astray, events, ages>>

\* Its window and limit change, unless it has expired, or the domain has left
\* domain_config: then the KeyError ends the callback.  (One step for the look-ups of the
\* queue for its window and for its limit.)
Touch(w) ==
    /\ pc[w] = "touch"
    /\ LET d == cur[w] IN
       \/ /\ queues[d] # Gone /\ conf[d] # Unset
          /\ queues' = [queues EXCEPT ![d] = Retuned(d)]
          /\ astray' = astray \ {d}
          /\ Goto(w, "update")
          /\ cur' = [cur EXCEPT ![w] = Gone]
          /\ UNCHANGED <<todo, read, fresh>>
       \/ /\ queues[d] = Gone \/ conf[d] = Unset
          /\ Leave(w, "idle")
          /\ astray' = astray \cup Amiss
          /\ UNCHANGED queues
    /\ UNCHANGED <<present, keys, listedBy, aged, config, torn, events, ages>>

\* error_config, after a wiped file (then create_queues follows) or a lost connection.
ErrorConfig(w) ==
    /\ Called(w)
    /\ \E step \in Reverting : Goto(w, step)
    /\ todo' = [todo EXCEPT ![w] = Configured]
    /\ UNCHANGED <<present, memory, config, cur, read, fresh, torn, astray, ages>>

\* Every configured domain goes back to the default limit.  One that has no queue is a
\* KeyError, and domain_config stays.
Revert(w) ==
    /\ pc[w] \in Reverting
    /\ \E d \in todo[w] :
       \/ /\ queues[d] # Gone
          /\ queues' = [queues EXCEPT ![d].limit = Default]
          /\ todo' = [todo EXCEPT ![w] = @ \ {d}]
          /\ astray' = astray \ {d}
          /\ UNCHANGED <<pc, cur, read, fresh>>
       \/ /\ queues[d] = Gone
          /\ Leave(w, "idle")
          /\ astray' = astray \cup Amiss
          /\ UNCHANGED queues
    /\ UNCHANGED <<present, keys, listedBy, aged, config, torn, events, ages>>

Reverted(w) ==
    /\ pc[w] \in Reverting /\ todo[w] = {}
    /\ conf' = [d \in Domains |-> Unset]
    /\ Goto(w, IF pc[w] = "wiped" THEN "list" ELSE "idle")
    /\ UNCHANGED <<present, memory, flag, black, todo, cur, read, fresh, torn, astray, events, ages>>

----------------------------------------------------------------------------
\* Other spiders and the Kafka monitor fill and drain the queues in Redis.
Elsewhere(d) ==
    /\ present' \in {present \cup {d}, present \ {d}}
    /\ UNCHANGED <<memory, config, locals, torn, astray, events, ages>>

\* A queue was not used for queue_timeout.
Age(d) ==
    /\ ages < MaxAges
    /\ queues[d] # Gone /\ d \notin aged
    /\ aged' = aged \cup {d}
    /\ ages' = ages + 1
    /\ UNCHANGED <<present, keys, listedBy, queues, config, locals, torn, astray, events>>

BuildStep(t) == List(t) \/ Build(t) \/ LookUp(t) \/ Store(t) \/ Built(t)
ReactorStep == BuildStep(Reactor) \/ Expire \/ FindNothing \/ \E d \in Domains : Pop(d)
CallbackStep(w) == BuildStep(w) \/ LoadConfig(w) \/ Update(w) \/ Touch(w) \/ Revert(w) \/ Reverted(w)

Next ==
    \/ ReactorStep
    \/ \E w \in Watchers : CallbackStep(w) \/ ChangeConfig(w) \/ ErrorConfig(w)
    \/ \E d \in Domains : Enqueue(d) \/ Elsewhere(d) \/ Age(d)

Spec == Init /\ [][Next]_vars

\* Scrapy keeps asking for requests, and the queues are updated every update_interval.
\* random.shuffle lets every queue be the first of the list again and again, and its
\* throttle lets it pop in the end.  Callbacks run on.
FairSpec ==
    /\ Spec
    /\ WF_vars(ReactorStep) /\ SF_vars(List(Reactor))
    /\ \A d \in Domains : SF_vars(Pop(d))
    /\ \A w \in Watchers : WF_vars(CallbackStep(w))

----------------------------------------------------------------------------
\* find_item, enqueue_request and close index queue_dict by what queue_keys lists.
\* Once the loop that builds the current list has come to its end, every listed key
\* has a queue, although another thread may have replaced the list, or deleted queues,
\* meanwhile; unless that loop ended in an exception, or the reactor reordered the
\* list under it.
NoneMissing ==
    pc[listedBy] \notin Building /\ ~torn => \A d \in keys : queues[d] # Gone

SchedulerInv == SchedulerTypeOK /\ NoneMissing

\* When no callback runs, and a new configuration waits for nobody, each queue in
\* memory has the limit that domain_config and the defaults give its domain.  It may
\* have another one only on these ways: it was built with a setting read before the
\* configuration changed; its domain was left out of a new configuration; or the
\* KeyError of a missing queue ended the callback.  This is said of callbacks that come
\* one after the other: when a connection is lost while a configuration is applied, each
\* of them changes domain_config under the other's loop.
Resting == ~flag /\ \A t \in Threads : pc[t] \in {"idle", "expire", "find"}
InTurn == Cardinality(Watchers) = 1
LimitRight == Resting /\ InTurn => Amiss \subseteq astray

\* When such a callback has applied a new configuration, the queues that were in Redis
\* also have its moderation, which an update in place does not change.
Landed(w) ==
    fresh[w] /\ InTurn /\ listedBy = w /\ ~torn =>
        \A d \in keys : d \in astray \/ queues[d] = [limit |-> Wanted(d), pace |-> Wanted(d)]

ConfigLands == [][\A w \in Watchers : Built(w) => Landed(w)]_vars

\* A domain that has requests again and again gets them popped again and again, unless
\* others drain it, it is blacklisted, or a domain is configured with a scale that leaves
\* it no hits: the exception in create_queues then keeps every later key of the list
\* from its queue.
Hopeless == \E d \in Domains : conf[d] = Broken \/ (queues[d] # Gone /\ queues[d].limit = Broken)

DomainServed ==
    \A d \in Domains :
        <>[](d \in present \ black /\ ~Hopeless) => []<><<Pop(d)>>_vars
=============================================================================
