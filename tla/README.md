# Scrapy Cluster: a TLA+ verification project

Scrapy Cluster turns Scrapy spiders into a distributed crawler.  Nothing in it
talks to anything else directly: clients, Kafka monitors, spider processes,
Redis monitors and REST servers meet in Kafka topics, in one Redis, and in one
Zookeeper file.  Each process is sequential or nearly so; what is hard is that
many of them run the same read-then-write sequences against the same keys.
This directory models those sequences, checks them with TLC on small instances,
and proves the most important results with TLAPS for all instances.

Contents:

1. Inventory: components, state, operations, interactions
2. Modules, and how they correspond to the code
3. Runs: what each checks and what it shows, bounds, fairness
4. Proofs
5. Where the code and its documents disagree
6. What is only model-checked, and what is not modelled
7. Plan

## 1. Inventory

| component | code | state | operations | made correct by |
|---|---|---|---|---|
| Throttled queue | `utils/scutils/redis_throttled_queue.py` | Redis: the window (sorted set of stamps), `moderate_key`, the wrapped queue. Local: `elastic_kick_in` | `push`, `pop` (`allowed`, `is_moderated`, `check_elastic`, `test_hits`), `clear` | no window ever admits more than `limit`; moderated pops are spaced; losers waste a bounded number of hits; nobody starves |
| Redis queues | `utils/scutils/redis_queue.py` | one Redis list or sorted set | `push`, `pop`, `clear`, `__len__` | an item is popped once, in its order |
| Distributed scheduler | `crawler/crawling/distributed_scheduler.py` | Local: `queue_keys`, `queue_dict`, `domain_config`, `black_domains`, the spider's address. Redis: the queues, `<spider>:blacklist` | `enqueue_request`, `next_request`, `create_queues`, `expire_queues`, the Zookeeper callbacks, `close` | a stopped crawl stays stopped; every request is pushed, refused or dropped on purpose; queues match the configuration |
| Filters | `crawler/crawling/redis_dupefilter.py`, the two page filters | Redis: a set of fingerprints per crawl, a counter per domain, both with a timeout | `request_seen`, `request_page_limit_reached`, `clear` | a page is fetched once per crawl; the page limit holds |
| Spiders, middlewares, pipelines | `crawler/crawling/` | request meta: depth, `retry_times` | `parse`, `_retry`, meta passthrough, item output | every crawl ends |
| Redis monitor | `redis-monitor/redis_monitor.py` | Redis: action keys, one lock and one failure count for each | `_main_loop`, `_process_plugin`, `_process_key_val`, `_process_failures` | a request is acted on once; a failing one is retried and then given up |
| Redis monitor plugins | `redis-monitor/plugins/` | the blacklist, the queues, timeout keys, the Zookeeper file | stop, expire, info, stats, zookeeper | as the scheduler; no update of the file is lost |
| Kafka monitor | `kafka-monitor/kafka_monitor.py` and plugins | the consumer's offset; Redis keys it writes | consume, validate, hand to one plugin | every message reaches its plugin; redelivery is harmless |
| REST service | `rest/rest_service.py` | the table of waiting uuids, connection flags, four threads | `feed`, `poll`, the consumer loop, health | every answer is returned once, or can be polled |
| Zookeeper watcher | `utils/scutils/zookeeper_watcher.py` | session state, watches, callbacks | state changes, file and pointer watches | the last configuration is the one in use |
| Stats collector | `utils/scutils/stats_collector.py` | Redis counters per time window; one thread per counter | `increment`, roll, purge | a count belongs to one window; old windows go |
| Cluster statistics | `report_self` of every process, `crawler/crawling/redis_stats_middleware.py`, `redis-monitor/plugins/stats_monitor.py`, the dumps of the monitors | Redis: a heartbeat key for each process, counters per machine and spider or per service | report, count, compile an answer | who lives is listed, who died is forgotten; an answer tells the hits it claims to tell |
| Helpers, tools, deployment | `log_factory.py`, `method_timer.py`, `settings_wrapper.py`, `argparse_helper.py`, `migrate.py`, `kafkadump.py`, Docker, Ansible, docs | no shared state | | not modelled |

How they interact:

- **A feed.** A client (or the REST service) writes a Kafka message.  The Kafka
  monitor validates it; `ScraperHandler` adds the seed to the queue of the
  spider and domain, and sets a `timeout:` key if the crawl expires.
- **The crawl.** Each spider process polls its queues through throttled queues.
  A page's links and a failed page's retry go through `enqueue_request`:
  duplicate filter, page limit, blacklist and expiry, push.
- **An action.** `ActionHandler` stores `stop:`, `info:`, ... keys; Redis
  monitors scan for them, lock each, let a plugin handle it, and delete it.  A
  stop blacklists the crawl and purges the queues that spiders use meanwhile.
- **Configuration.** The Zookeeper monitor rewrites a file; every spider's
  watcher calls back into its scheduler, on a thread of its own.
- **Statistics.** Every process keeps a key of its own alive and counts into
  rolling windows; on request a Redis monitor lists these keys and reads them,
  and its answer goes back through Kafka.

Hard behaviours: optimistic transactions (`WATCH`/`EXEC`) with a partial failure
between two of them; decisions on values read some commands ago (clock, ZCARD,
blacklist, page counter); a scan's list that outlives its keys; locks whose
owner dies or stalls; keys that time out under a slow user; processes that die
between two commands; retries of what was already done; a shared table with
several threads (REST, scheduler).  `PROJECT.json` lists each hazard at its line
with the properties that cover it.

## 2. Modules

| module | models | extends or instantiates |
|---|---|---|
| `RedisThrottledQueue` | the throttled queue, one action per Redis command | instantiates `RateLimiter` |
| `RateLimiter` | what it promises: stamps admitted, permits used | |
| `MCRedisThrottledQueue` | instances for TLC; a clock that never stops, for liveness | `RedisThrottledQueue` |
| `RedisThrottledQueue_proofs` | theorems about it | `RedisThrottledQueue` |
| `RedisMonitor` | Redis monitors: lock, handle, retry, give up | |
| `MCRedisMonitor` | instances for TLC | `RedisMonitor` |
| `RedisMonitor_proofs` | theorems about it | `RedisMonitor` |
| `CrawlFrontier` | the path of a request through the cluster, with stop and expire | |
| `MCCrawlFrontier` | instances for TLC | `CrawlFrontier` |
| `CrawlFrontier_proofs` | theorems about it | `CrawlFrontier` |
| `SchedulerQueues` | the queues one spider process keeps in memory, and how a configuration reaches them | |
| `MCSchedulerQueues` | an instance for TLC: two configurations | `SchedulerQueues` |
| `SchedulerQueues_proofs` | theorems about it | `SchedulerQueues` |
| `ZookeeperConfig` | from a request of the Zookeeper API to the file, and from the file to a spider | |
| `MCZookeeperConfig` | an instance for TLC | `ZookeeperConfig` |
| `ZookeeperConfig_proofs` | theorems about it | `ZookeeperConfig` |
| `KafkaMonitor` | the Kafka monitors of a group, and the broker as they see it | instantiates `AtLeastOnce` |
| `AtLeastOnce` | what the group promises: a place in the log, and what was dealt with or lost | |
| `MCKafkaMonitor` | an instance for TLC | `KafkaMonitor` |
| `KafkaMonitor_proofs` | theorems about it | `KafkaMonitor` |
| `StatsCollector` | the counters, their workers and their windows | |
| `MCStatsCollector` | an instance for TLC | `StatsCollector` |
| `ClusterStats` | heartbeats and counters of the whole cluster, and the stats plugin that reads them | |
| `MCClusterStats` | an instance for TLC | `ClusterStats` |
| `Stats_proofs` | theorems about the two | `StatsCollector`, `ClusterStats` |
| `RestService` | `feed`, `poll` and the consumers of several REST servers | |
| `MCRestService` | instances for TLC | `RestService` |
| `RestService_proofs` | theorems about it | `RestService` |

Conventions.  The grain is one action per Redis command, with the local code that
runs between its reply and the next command: Redis executes a command (or a
MULTI/EXEC) at one instant, and that is the only place where processes meet.  A
process that stalls is one that takes no step.  `pc` says which command comes
next.  Decisions of the code are operators of their own (`Room`, `Refused`,
`MayRetry`); beside some stands a mistaken variant (`ExpiredEarly`,
`RefusedAnyway`) that is used only to see that a property notices the mistake.
History variables are named as such and take no part in guards, except where a
named bound counts faults.  Constants called `Max...` that are marked *bound* in
their comment bound the model; the others are settings of the code.

### RedisThrottledQueue

`hits` is the sorted set, `modTime` is `moderate_key`, `qlen` the wrapped queue.
`StartPop`, `TrimWindow`, `WatchModerate`, `CheckModeration`, `CheckElastic`,
`WatchWindow`, `CountHits`, `ExecHit`, `ExecModerate`, `PopItem` are `pop` and
`allowed` in order; `clk` and `stamp` are their clock readings, read where the
code reads them.  `cleanW` and `cleanM` are the processes whose `WATCH` is
intact; a command that modifies a key empties the set, one that removes
nothing does not.  A `WatchError` on the second `EXEC` leaves the hit in the
window, as the code does.  Assumptions: one clock without skew, settings alike in
all processes, stamps that differ (an `EXEC` takes at least one clock unit).
The key's own expiry comes two windows after its last hit and leaves watches intact: the
rule of Redis before 6.0.9, and `docker-compose.yml` does not pin a version.

`RateLimiter` says nothing of clocks and watches: a stamp is admitted if fewer
than `Limit` of the window before it were, it is one client's permit, and only a
permit lets a client call the queue, once.

### RedisMonitor

`store` maps an action key to the request stored there.  `StartScan` is one reply of
SCAN, which `scan_iter` asks for when it has gone through the last: some of the keys that
match at that moment, and a later reply may name a key again.  One reply may also name a
key twice, which `Acquire` counts in `repeats`.  `Acquire` tries the lock of a key and
passes over a taken one; `GetValue` is `GET` and `check_precondition`; `Handle` is the
effect of `instance.handle`; `Withdraw` is the one foreign key a plugin deletes (a
stop removes its crawl's timeout); `DeleteKey`, `CleanFailKey`, `Release` are the
rest of `_process_key_val`; `Raise` (in the plugin, or of a command after it),
`ReadFailures`, `CountFailure`,
`ForgiveFailures`, `DropKey` are the exception path.  A `Crash` leaves a lock
behind until it expires; `LoseLock` is a live monitor that fails to renew its
lock.  The plugins' scans of one round are one scan.

### CrawlFrontier

`queue` is the union of the queues of all domains and `NextRequest` takes any item:
throttling and priorities decide when and in which order, which is left open.
`Parse` and `FailDownload` are the spider's callbacks; `StartEnqueue`, `MarkSeen`,
`CheckCounter`, `CreateCounter`, `ReadCounter`, `CountPage`, `CheckBlacklist`,
`PushRequest` are `enqueue_request` in order, with the three commands of the page
counter apart.  `Feed` and `SetTimeout` are `ScraperHandler`; `Stop`, `Expire`,
`Blacklist`, `ScanQueues`, `PurgeItem`, `Answer` the two plugins, run at most once
at a time for a key, which is what `RedisMonitor` shows of the lock without stalls.
`LapseSeen` and `LapsePages` are the timeouts of the filters' keys.  `FailEnqueue` is an
exception that leaves `enqueue_request`, at any of its commands, or the `KeyError` of a push
to a queue that is listed and not there (`SchedulerQueues` shows how that comes about): the
request is gone, and the links that its callback had still to yield may go with it.
`lost` keeps the pages that went this way or with a crash.  A request
carries what decides its fate: depth, retries, `dont_filter`; a link keeps the
retry count of its page because the passthrough middleware copies every field
of its meta.  One page counter stands for either page filter.

### SchedulerQueues

One spider process with its threads: Scrapy's reactor and Kazoo's callbacks, which
share `queue_keys`, `queue_dict`, `domain_config`, `config_flag` and `black_domains`
without a lock.  `List`, `Build`, `LookUp`, `Store`, `Built` are `create_queues` on
either kind of thread: the list is replaced at once, the dictionary one key at a time,
and the setting of a domain is read before its queue is made.  `Expire` is
`expire_queues`, `Shuffle` (in `Pop`) and `FindNothing` are `find_item`, `Enqueue` is
what `enqueue_request` does to `queue_dict`.  `ChangeConfig`, `LoadConfig`, `Update`,
`Touch` and `ErrorConfig`, `Revert`, `Reverted` are the callbacks.  `Touch` is one step,
while the code looks the queue up for its window and again for its limit.  A queue in memory is
the setting of its limit (window and hits) and of its moderation, which is computed
when it is built and not when its limit changes.  `Broken` is a setting whose scale
rounds the hits to 0.  Which requests are in Redis is `Elsewhere`.

### ZookeeperConfig

The file is the set of changes in it.  `Submit` is the handler of the Kafka monitor;
`Read`, `Store`, `Answer` are `zookeeper_monitor.py` around its GET and SET, both of
which may fail: a failed GET is taken for an empty file.  On the spider's side the
watcher has two threads that read (`Fetch`) and hand over (`Apply`): the one that runs
the callbacks of the client, and the one that builds a new client after a session is
lost (`Suspend`, `Lose`, `Restart`).  The watch fires once and is set again with each
GET.  `old` is what contents are compared with before `config_handler` gets them.  Either
handler of the scheduler may raise: `untaken` says that one has and that nothing was handed
over since, `deaf` that the exception ended the thread that had to set the watch again.
`EndThread` is the end of `init_connections` by an exception: with Python 3 its handler
raises too (`e.message`), and the watcher has no thread left (session "ended"), or `setup`
fails and a connection without a watch stays.

### KafkaMonitor

`topic` is the one partition the group shares; `committed` and `owner` are what the
broker knows, `assigned` and `pos` what each consumer believes.  `Take`, `Count`,
`Route`, `Handle`, `Fail` are one message in `_process_messages`; a message is its fate:
accepted, refused by its handler with a `ValueError`, fatal (its handling raises anything
else, every time), fitting no schema, or not UTF-8.  After a fatal one the process is gone
(`Die`), its consumer not closed and nothing committed, so that whoever is assigned the
partition next takes it again.
`Commit` is the timer of the client library, which only runs inside the iteration and
so never with a message in hand.  `Crash` is also every error of Redis; `Interrupt` is
Ctrl-C, which `main` answers with `close`; `Evict`, `Rebalance`, `Notice` and `Assign`
are the group's; `Expire` is retention.  `Begin` is where a consumer goes on: the group's
offset, or the reset policy when that is not there any more.

`AtLeastOnce` knows no consumers: the log grows, messages are dealt with (`Deal`) or lost
(`Lose`), and the position from which the group goes on passes only these (`Pass`) and
never goes back.

### StatsCollector

`store` is what the keys of all windows hold and `written` what was ever counted.
`Increment`, `SetStart`, `Add` are `increment` with the clock read first and the key
read last; `Expire`, `Remove`, `Roll`, `Rekey`, `Wake` are a cycle of `_do_thread_work`,
with `RemoveFails` for its `except`.  The kind of the counter and whether it rolls are
chosen at the start.  `purge_old` changes nothing: it looks for keys that begin with the
name of the current window (section 5).

### ClusterStats

`Report` and `SetExpiry` are the two commands of `report_self`; a REST server and a spider
survive an error between them (`ReportFails`), a monitor dies of it, and `Die` may come
there too.  `HoldUp` makes a process late: the Kafka monitor does not leave its loop
while messages come, the scheduler looks up its public address first, a REST server
without Redis only warns.  `Count` and `Purge` are the counters, of which `StatsCollector`
shows the inside.  `Ask` is the plugin's KEYS, `ReadValue` and `ReadMachine` its ZCARD of
each key, `Send` its answer.  Times are relative: ages and times to live.  Names that
`StatsCollector` has too are changed (`ClusterTick`, `ShownFor`), since one module holds the
proofs about both.

### RestService

Here the processes are threads.  A request thread of `feed` and the consumer share
`uuids`, `wait_for_response` and the connection flags, so the grain is one action
per access to these; what happens under `uuids_lock` is one action.  `Start`, `Send`
(`_feed_to_kafka` and its errback), `RaiseFlag`, `Register`, `CheckFlag`,
`TakeAnswer`, `Expire`, `Convert` are `feed` in order; `Consume` is one message of
`_process_messages` with the write to Redis, `Disconnect` is
`_check_kafka_disconnect`, and `Reconnect` one thread in `_setup_kafka`, of which
there may be several.  `LoseRedis` is a heartbeat that finds the connection lost, and
`Restart` the end of a server and its new start: the table, the flag and the calls
underway are gone, polls are cut between GET and DEL or after it.  `Listen` is the new consumer's first fetch: the reset policy
is `latest`, so what came before it is skipped.  `PollKey` and `ReturnPoll` are the
two commands of `poll`.  The cluster is one action, `Answer`.  A call stands for its
request: clients are assumed to use a new uuid for each call, and to poll one at a
time for each.  `Expire` may happen at any moment of the wait.

## 3. Runs

| run | properties | instance | what it shows |
|---|---|---|---|
| `throttle_moderated` | `TypeOK`, `WindowBound`, `WasteBound`, `ModerationSpacing`, `LimiterSpec` | 2 clients, window 3, limit 2, moderated and elastic, one clear, one crash, time to 6 | stamps admitted never exceed the limit in any window; wasted hits are bounded by the winners; moderated pops keep their distance unless elasticity was earned; the protocol refines `RateLimiter` |
| `throttle_served` | `QueueServed` | 2 polling clients, moderated, unbounded time | failed transactions and wasted hits never starve a waiting item for ever |
| `monitor_locked` | `MonitorTypeOK`, `InCharge`, `ActedOnce`, `GhostBound`, `GiveUpCounted`, `TakenForCause` | 2 monitors, a stop and a timeout key, 2 requests, 3 exceptions, crashes, stalls or repeated keys | who works holds the lock; a request is acted on again only for a crash, a late exception or a stall; how often handlers are called with no value, though SCAN repeats itself; when a key is given up; a stored request goes away only for one of four causes |
| `monitor_settles` | `KeySettles` | 2 monitors, exceptions without bound, one crash, stall or repeated key | no key stays for ever |
| `frontier_pages` | `FrontierTypeOK`, `StopHolds`, `PageBound`, `VisitBound`, `SeenAccounted` | 2 spiders, 3 pages, depth 1, page limit 3, one retry, a stop, one lapse, crash or exception | after a stop at most one request per spider is left of the crawl; how far the page limit and the duplicate filter can be missed; a page marked as seen is on its way, settled, or was lost in a crash or an exception |
| `frontier_ends` | `CrawlEnds` | 2 spiders, 1 page that links to itself, depth 2, one retry, lapses and exceptions without bound, stop, expiry, one crash | every crawl ends |
| `scheduler_queues` | `SchedulerInv`, `LimitRight`, `ConfigLands`, `DomainServed` | 2 domains, the reactor and one thread of Kazoo, two configurations, one more callback, one expired queue | every listed key has its queue once the list is built; limits follow the configuration but for the ways the property names; a new configuration also brings its moderation to the queues it builds; no domain starves unless a scale is 0 |
| `zookeeper_config` | `ConfigInv`, `ValidIsCurrent`, `ConfigArrives` | 2 monitors, 2 requests, 2 faults, a crash | an answered change is in the file unless a monitor wrote over what it had not read; a settled spider is valid, watches and uses the file, unless a handler raised or its threads overtook each other; a spider gets to the file in the end, with the exceptions the property names |
| `kafka_monitor` | `KafkaInv`, `InHandIsUncommitted`, `EachServed`, `ReaderSpec` | 2 monitors, 2 messages of any kind, 2 crashes, interrupts or rebalances, one message expired | nothing is passed over but what an interrupt cut short or retention removed; the counters agree with what was done; every message is dealt with unless one that cannot be decoded, or a fatal one before it, blocks the partition; the group refines `AtLeastOnce` |
| `stats_collector` | `StatsInv`, `InItsWindow` | 2 processes, window 2, cycle 1, time to 6, 2 hits, a fault, a crash | what `value` may be; what each class loses; under which window a hit is counted |
| `cluster_stats` | `ClusterInv`, `AnswerRight` | 2 processes of any kind on 2 machines, heartbeat 1 of 2 ticks, 2 hits, one held up or one fault | who is listed, and for how long after its death; how old a count may be; which hits an answer tells though the cluster goes on while it is compiled |
| `rest_polls` | `RestTypeOK`, `PollFinds`, `PollServed`, `HandedOut`, `EntriesSettled`, `MisledBound` | 2 servers, one call with a uuid and two without, one fault, which may be a restart | a late answer can be polled, and is; how often it can be handed out; the shared flag misleads some calls and never all |

**Why the bounds are enough.**  Two clients are the smallest number that race, and
every race in the throttle is between a process and whoever touched the key since
it looked; the proofs remove the bound altogether for the window, the pops and the
refinement.  The clock runs for two windows, so a stamp is admitted, ages out, and
is replaced.  Limit 2 is the smallest value with moderation (1 disables it) and with
a window that is partly full.  Two requests and two keys let one request overwrite
another and a stop delete a timeout key; `MaxFailures` 1 has one retry and then the
end.  Of exceptions, crashes, stalls and repeated keys any three may come
(`MaxTroubles`), so that each meets each other one; the proofs cover every number.  In the frontier, three pages
let a seed have two links, one of which a purge meets in the queue and one in a
spider's hands; three pushes are within the page limit's reach, and two spiders see
an absent counter together.  A lapse, a crash and a call
that raises do not come together in this run (`MaxTroubles` is 1): the proofs have all of them
in any number.  For the scheduler, the process starts with either no
configuration or one of the two, so that the one callback that follows changes it,
leaves a domain out, breaks one, or reverts it; two callbacks at once are excluded by
the properties themselves (`InTurn`).  Two monitors and two requests are the smallest
conflict over the file, and two faults let a read or a handler fail after a lost connection;
the proofs of the two invariants cover every number.  For Kafka, two
messages are one in hand and one behind it, two changes take the partition from a
monitor and kill the next one, and what is fatal kills without a bound.  The collector's clock passes three windows, with the
worker a cycle late.  In the cluster, one process may hold the counter that another,
dead one, left, and two hits fall on two machines.  For REST, two servers have one that knows a call and one that does not;
calls with one uuid each do not meet in the table, so one of them is enough, and two
without a uuid are enough to share the flag with it in either order; a fault takes
part in every bound as a factor, and the proofs cover every number.

Symmetry is used only in runs without liveness, over clients, monitors, spiders and
pages, none of which a definition names.  `CHECK_DEADLOCK FALSE` stands where a
bounded model ends: the clock has reached its bound, or every request is done and
no more are sent.  The runs without history set `KeepHistory` to FALSE, which
keeps counters from making the state space infinite and lets faults recur without
bound.

**Fairness.**

- `LiveSpec` (throttle): weak fairness of each client's calls, since Scrapy's engine
  calls `next_request` at every idle tick and a Redis command is answered; and of
  the clock.  Weak fairness gives a transaction no help: the argument is that
  whoever spoils a client's `WATCH` has itself entered a hit or set
  `moderate_key`.  A client inside a call sees at most `StallBound` ticks; without
  some such bound two clients can stall each other's moderation for ever.
- `FairSpec` (monitor): weak fairness of each monitor's loop, of the clock and of the
  expiry of a dead owner's lock.  A full SCAN names every key that is there from its start
  to its end, so a key that stays is named again and again: strong fairness of the replies
  that name it.  Nothing is fair about requests, exceptions or
  crashes.
- `FairSpec` (frontier): weak fairness of each spider: the reactor goes on, a download
  ends by Scrapy's download timeout, and an item that waits is let through by the
  throttle, which is `QueueServed`.  No fairness for stop, expiry or lapses:
  `CrawlEnds` does not need a stop.
- `FairSpec` (scheduler): weak fairness of the reactor, which Scrapy's engine drives, and
  of callbacks once they run.  `next_request` rebuilds the queues every
  `update_interval` whatever else it does (strong fairness of `List`), and
  `random.shuffle` puts every domain first again and again (strong fairness of `Pop`;
  that its throttle lets it pop is `QueueServed`).  Nothing is fair about callbacks coming.
- `FairSpec` (configuration): monitors work on; Kazoo delivers the events of a client and
  the watcher's loop, which runs until it has a connection, goes on.
- `FairSpec` (Kafka): a monitor's loop runs, and the process is started again when it has
  stopped (`restart: always` in `docker-compose.yml`); the broker ends the session of a
  consumer that is gone and assigns the partition to a member that asks.  Nothing is
  fair about commits, producers or faults.
- `FairSpec` (REST): weak fairness of each request thread, whose wait is bounded by
  `WAIT_FOR_RESPONSE_TIME`; of each server's consumer and connecting threads, which
  retry without end; and of a client that was given a `poll_id` and keeps polling.
  Nothing is fair about the cluster's answers or about faults.

## 4. Proofs

All theorems hold for every value of the constants that satisfies the module's
named assumption (finite set of processes, positive window and limit, ...).

| theorem | establishes |
|---|---|
| `RedisThrottledQueue_proofs!TypeCorrect` | `Spec => []TypeOK` |
| `RedisThrottledQueue_proofs!WindowIsBounded` | `Spec => []WindowBound` |
| `RedisThrottledQueue_proofs!ThrottleIsLimiter` | `Spec => LimiterSpec` (refinement of `RateLimiter`) |
| `RedisThrottledQueue_proofs!PopsAreBounded` | `Spec => []PopBound` (no run checks it) |
| `RedisThrottledQueue_proofs!ModerationIsKept` | `Spec => ModerationSpacing` |
| `RedisThrottledQueue_proofs!WasteIsBounded` | `Spec => []WasteBound` |
| `RedisMonitor_proofs!MonitorTypeCorrect` | `Spec => []MonitorTypeOK` |
| `RedisMonitor_proofs!WorkersAreInCharge` | `Spec => []InCharge` |
| `RedisMonitor_proofs!ActsAreBounded` | `Spec => []ActedOnce`, with history kept |
| `RedisMonitor_proofs!GiveUpsAreEarned` | `Spec => GiveUpCounted`, with history kept |
| `RedisMonitor_proofs!GhostsAreBounded` | `Spec => []GhostBound`, with history kept |
| `RedisMonitor_proofs!RequestsLeaveForCause` | `Spec => TakenForCause`, with history kept |
| `CrawlFrontier_proofs!FrontierTypeCorrect` | `Spec => []FrontierTypeOK` |
| `CrawlFrontier_proofs!StopLeavesNothing` | `Spec => []StopHolds`, with history kept |
| `CrawlFrontier_proofs!PagesAreBounded` | `Spec => []PageBound`, with history kept |
| `CrawlFrontier_proofs!SeenIsAccounted` | `Spec => []SeenAccounted`, with history kept |
| `CrawlFrontier_proofs!VisitsAreBounded` | `Spec => []VisitBound`, with history kept |
| `SchedulerQueues_proofs!ListedHaveQueues` | `Spec => []SchedulerInv` |
| `SchedulerQueues_proofs!LimitsAreRight` | `Spec => []LimitRight` |
| `SchedulerQueues_proofs!ConfigsLand` | `Spec => ConfigLands` |
| `ZookeeperConfig_proofs!AnsweredIsKept` | `Spec => []ConfigInv` |
| `ZookeeperConfig_proofs!ValidMeansCurrent` | `Spec => []ValidIsCurrent` |
| `KafkaMonitor_proofs!NothingIsSkipped` | `Spec => []KafkaInv` |
| `KafkaMonitor_proofs!InHandStaysUncommitted` | `Spec => []InHandIsUncommitted` |
| `KafkaMonitor_proofs!ReadsAtLeastOnce` | `Spec => ReaderSpec` (refinement of `AtLeastOnce`) |
| `Stats_proofs!CountersKeep` | `Spec => []StatsInv` |
| `Stats_proofs!HitsInTheirWindow` | `Spec => []InItsWindow` |
| `Stats_proofs!ClusterHolds` | `ClusterSpec => []ClusterInv` |
| `Stats_proofs!AnswersAreRight` | `ClusterSpec => []AnswerRight` |
| `RestService_proofs!RestTypeCorrect` | `Spec => []RestTypeOK` |
| `RestService_proofs!EntriesAreSettled` | `Spec => []EntriesSettled` |
| `RestService_proofs!OthersKeep` | `Spec => []KeptElsewhere` (no run checks it) |
| `RestService_proofs!PollsFind` | `Spec => []PollFinds`, with two servers or more |
| `RestService_proofs!SomeoneIsSafe` | `Spec => []SomeoneSafe` (no run checks it) |
| `RestService_proofs!NotAllMisled` | `Spec => []MisledBound` |
| `RestService_proofs!CopiesArePaid` | `Spec => []CopiesPaid` (no run checks it) |
| `RestService_proofs!HandedOutBounded` | `Spec => []HandedOut` |

**The window.**  `WindowBound` speaks of every stamp ever admitted, while the code
counts the members of a set that any process trims by a clock reading of any age.
`ThrottleInv` closes the gap: no hit leaves the set before its window has passed
(`RecentHitsKept`: a reading is never in the future, so trimming by an old one
removes too little and never too much), and a client whose `WATCH` is intact
and that is about to enter its stamp still sees a window with room
(`CountStillTrue`: any hit that came since would have spoilt the watch).  The
induction step that matters is `ExecHit`.  `ThrottleIsLimiter` uses the same
invariant: an `EXEC` that succeeds is `Admit`, everything before it a stutter.

**The pops.**  A client may sleep between its hit and `queue.pop`, so a window can see
pops whose stamps are older.  `PopInv` says that a stamp serves one pop
(`StampsServeOnce`) and that one client's pops come in turn, each stamped after
the one before (`PopsInTurn`).  Of the pops in a window, then, at most one per
client has a stamp from before the window; the others have different stamps
inside it, and those are at most `Limit`.

**Moderation and waste.**  `ModerationKnown` is the optimistic lock of `is_moderated`: a
client whose `WATCH` of `moderate_key` is intact has read the value that is there, so if
that is too recent it has earned to go on.  `WasteInv` strengthens `WasteBound` by what
is already lost and not yet to be seen: a client that has lost its `WATCH` before its
`EXEC` is `Doomed` to waste its hit, and a clear that has yet to touch the key can doom
all others once more.  A winner turns its claim on the others' hits into doomed clients,
a doomed one turns into a wasted hit, and both sums keep below the budget.

**The acts.**  `ActedOnce` is far from inductive: after a stall two monitors work on
one key.  `ActedInv` counts *tokens* for each request: the monitors about to
act on it, the monitors that lost their lock before they read the key
(`Loose`), and one for the next owner of the lock if the request is stored and
nobody who holds its lock is going to delete it.  Acts so far plus tokens stay
within 1 + crashes + late exceptions + stalls.  The lemmas go through the steps:
most only drop tokens (`QuietStep`); reading the value exchanges the next owner's
token for the reader's; acting spends one; an exception before the act gives it
back; only a crash, an exception after the act or a stall makes one.  A request that
arrives starts with one token for each loose monitor and one for the next owner,
which is why the loose monitors are bounded by the stalls.

**Ghosts and failures.**  A handler is called without a value by a monitor that still has
the key in its reply when another deletes it.  `GhostInv` adds to the calls made those that
may still come (`Callers`), a share for each removal of the key; a key that a monitor works
on is crossed off its own reply, which is why the remover has none, unless the reply names
the key once more: each repetition makes one caller and is counted in `repeats`.  `FailuresInv` says that
the stored count is at most the failed attempts, and below them while one of them is not
counted yet; two monitors at one key would break it, hence without stalls.

**The causes.**  `TakenForCause` looks at a DEL, where the monitor no longer knows what it
deletes.  `CauseInv` carries the reason to it: what a monitor read at its key is not
younger than what the key holds (`ReadBefore`), so at the DEL after `handle` the two are
the same request or a newer one is lost; whoever has come that far with a value has acted on
it (`ActedFirst`, which a request whose precondition fails must not pass by); and whoever is
giving a key up has enough failures behind it, which no other monitor can strike out
while the lock excludes (`GivenUp`).

The theorems *with history kept* assume `KeepHistory`: the counters they speak of are only
kept then (section 3), and the actions do the same in either case.

**The frontier.**  The four bounds have an invariant each, on top of the types (where
`PageRoom` keeps the counter within its type: who is about to add to it has seen room).
*Stop* (`StopInv`): from the moment a handler has scanned, what its purge will not find is a
request whose spider was past the blacklist check, one for each spider, or a later feed.
*Pages* (`PageInv`) weighs what a crawl may still push: what was pushed, the spiders
admitted, the room the counter leaves, and a whole limit for each spider that has seen no
counter and is about to set one; a lapse pays for all spiders at once.  *Seen* (`SeenInv`):
a page marked is settled, in somebody's hands, or noted as `lost` by the crash or the
exception that dropped it; this one has no preconditions, since each way out notes itself
(`AbortTypes`, `HeldLost`).  *Visits* (`VisitInv`) counts as tokens the
tries that each request at hand has left; a download spends one, a retry takes those of the
request it replaces, and only a feed, a first sighting or a lapse of the filter makes
`MaxRetries + 1` of them.  These proofs need a request to be told from `Nothing`, which is
an assumption on that constant.

**The scheduler.**  Each invariant says who still has to come to what is not right yet:
to a listed key without a queue, the loop that builds the list (`ListInv`); to a queue with
an old limit, the callback that has the key in `todo` (`LimitInv`); to a queue with an old
moderation, `create_queues` of the callback that brought the configuration (`LandInv`).
`Default # Broken` is assumed: the default window and limit of the settings are positive.

**The configuration.**  `FileInv` adds to `ConfigInv` the change that is stored and not yet
answered.  `WatcherInv` follows the two threads that read: the one that read last holds
what the file is until the watch fires (`LastReadsFile`), the other has been passed, and what
the spider uses is what the watcher compares with until they overtake each other or a handler
raises.  A connection that is up has its watch, has an event to handle, or is `deaf`.

**Kafka.**  `GroupInv` says that the group's commit is never ahead of the owner, and the
owner never ahead of what was dealt with (`OwnerAhead`, `PassedDealt`): every
consumer that believes to have the partition, one that lost it included, has seen all before
its position dealt with, but for the message in its hands, so its commit skips nothing.
The refinement of `AtLeastOnce` needs the same: a commit, a rebalance or the close of an
interrupted consumer is `Pass` (`MayPass`) or leaves the offset; handling and failing are
`Deal`, retention is `Lose`, and everything the group does among itself is a stutter.

**The counters.**  `ClockInv` fixes what a thread that is awake may have in its hands: a
time at most a tick old, bounds computed at this tick, and a key that follows the window by
one step.  `LateInv` bounds how late a worker is by its cycle and the errors it met, and
gives the upper bound of `InItsWindow`.  A worker of a rolling window has either met
nothing but errors since it was launched, or left nothing older than the bound
(`SweptInv`), also when others add meanwhile.  That a worker catches up at all rests on
`CycleTime <= Window`.

**The cluster.**  `ClusterIInv` adds to `ClusterInv` what is left of each time: a key lives
for what its process has not yet used of the expiry, which exceeds the time to its next
report (`Listed`, from `Interval < Timeout`); a hit is purged before its worker's next cycle
ends (`Fresh`); a dead process's key runs out unless it was cut (`Forgotten`).  For
`AnswerRight` it says what the plugin has read so far: the keys still to read are of its
list, a hit of then that is still in the window is still stored (`Asked`), and what has been
read holds every such hit (`ValuesRead`, `SumsRead`), though others count and purge meanwhile.

**The REST servers.**  Three properties follow from three invariants of another form.
`PollFinds` holds because of the servers that do *not* know the call
(`KeptElsewhere`): each of them keeps the answer, whatever becomes of it in the
call's own server; without a second server the theorem is false (section 5).  `HandedOut` counts only what the client got; `CopiesPaid`
counts every copy that can still reach it: each sending makes one a server, and each
step moves a copy or drops it (`EntriesSettled` says that what a waiting call finds
is an answer).  A restart only drops copies, and the calls it cuts short are not
misled.  `MisledBound` speaks of the end; `SomeoneSafe` says whose turn comes
out right: the call that wrote the flag last, and when another writes it, that one.

## 5. Where the code and its documents disagree

Met on the way, with the place in the model that shows it.  No run is given to any of
them: the properties of section 3 state what does hold, exceptions included.

*The frontier*

- **The page limit.**  `EXISTS`, `SET 0` and `INCR` are separate commands; spiders that all
  saw no counter reset it after others have counted.  `PageBound` states what does hold:
  up to `PageLimit - 1` for each spider.
- Retries are pushed past the duplicate filter, but counted as pages.

*The throttle*

- `clear()` of a queue without moderation deletes the window and then
  `self.moderate_key`, which is `None`; redis-py 3 and later, which `utils/setup.py` asks
  for, refuse `None` as a key, so the wrapped queue is not cleared, where
  `docs/topics/utils/redisthrottledqueue.rst:40` promises that all data is removed
  (`ClearModerate`).
- `elastic_kick_in` counts pops of an empty queue.

*The Redis monitor*

- **Retries before giving up.**  The failure count belongs to the key; a request that
  replaces a failed one under the same key inherits it and may be deleted at its first
  exception (`GiveUpCounted`).
- With `RETRY_FAILURES` off a failing key is tried again on every scan for ever
  (`settings.rst:19` reads as if it were not retried; the branch is in `ReadFailures` but
  no run sets it).
- Handlers may be called with `None` (bounded by `GhostBound`), also by the monitor that
  deleted the key itself, if a reply of SCAN names it twice.

*The scheduler and its configuration*

- A scale that leaves a domain no hits divides by zero in the throttle's constructor; the
  queues of all later keys of the list are not built (`Hopeless` in `DomainServed`).
- `zookeeper_watcher.py:38` says that the watcher manages all connections, drops and
  reconnections.  An exception of `error_handler` leaves `watch_file` before it sets the watch
  again, or ends the thread that connects (`error_config` raises a `KeyError` for a
  configured domain without a queue); on Python 3 the `except` of `init_connections` raises
  itself, at `e.message`, and nobody connects any more.  The spider keeps what it has, until
  a session is lost or for good (`deaf`, session "ended").
- An exception of `config_handler` leaves the watcher invalid, and the same contents are not
  handed over again (`untaken`).
- A push to a queue that is listed and not in memory raises a `KeyError`; the page is in the
  duplicate filter by then and nobody comes back to it (`FailEnqueue`, `lost`).
- A configuration in place changes window and limit of a queue and not its moderation,
  which then spaces pops by the old setting until the queue is built again (`Touch`).
- A new configuration without a blacklist, and a lost one, leave `black_domains` as it was.
- Between the GET and the SET of `zookeeper_monitor.py` another monitor's change may be
  made, and is undone although it was answered; after a failed GET the monitor takes
  the file for empty and writes all of it anew (`raced` in `ConfigInv`).
- The watcher's two threads may hand over contents in the wrong order; and contents handed
  over while the connection is lost are not taken back if the file is empty afterwards,
  because empty contents do not differ from the `old_data` of a new connection
  (`overtaken`).

*The Kafka monitor*

- A `ValueError` that a handler raises is reported as unparseable JSON, and the message is
  counted for its plugin and as a failure (`StatsAgree`).
- Ctrl-C closes the consumer, which commits its position: the message in hand is lost
  (`dropped`).
- A message that is not UTF-8 raises inside of the iteration, where nothing catches it; the
  monitor that is started again fetches it again (`Blocked`).
- Of the errors of a handler or of `json.loads` only a `ValueError` is caught.  Any other, an
  `OverflowError` of `ujson.dumps` for a large integer in `expires`, which the schema does not
  bound, or a `RecursionError`, ends the process; it is started again, has committed nothing
  and gets the same message, until retention removes it (`Die`, `Blocked`).
- The clause for `OffsetOutOfRangeError` is reached only without a reset policy, and the
  setting is `earliest` (`Reset`).
- Without Redis `_setup_stats` returns before it has set `self.redis_conn`, with a warning
  that no stats will be collected; `_report_self` then fails and ends the process.

*Statistics*

- `purge_old` looks for keys that begin with the name of the current window, its date
  included, and finds no other window: `keep_max` keeps them all, where
  `docs/topics/utils/statscollector.rst:63` speaks of a number of prior windows to keep.
- Each process sets a `Counter` to its start value at its first increment, over what others
  have counted (`reset` in `Kept`).  A `TimeWindow` that does not roll removes what lies
  outside of its own start and so the hits of others.
- `get_spider_stats` assigns the counter of each key to the type of spider and so keeps one
  machine's, where `docs/topics/kafka-monitor/api.rst:405` speaks of the results from your
  cluster; `_dump_crawl_stats` does the same (`Assigned`).
- A rolling window shrinks only while a process that counts into it runs.  The counts of a
  machine whose spiders are gone stay and are reported, where `api.rst:324` describes them
  as the requests of the last seconds (`CountersFresh`).
- A heartbeat cut between SET and EXPIRE is listed for ever (`cut`).
- `docs/topics/advanced/rediskeys.rst:64` names `stats:crawler:self:<machine>:...`; the
  code writes `stats:crawler:<machine>:<spider>:<uuid>`.

*REST*

- **The poll that finds nothing.**  `feed` looks at the table, finds its time is up, takes
  the lock and writes `poll` without looking again.  An answer that came in between is
  overwritten; on a single server nobody else has kept it.
  `docs/topics/rest/api.rst:276` knows only a request that has not completed and a failure
  of another component.
- A server counts as connected before its new consumer has asked for its place in the
  topic; the answers until then are skipped (`Listen`; `PollFinds` is stated without faults).

## 6. Only model-checked, and not modelled

Only TLC checks: the liveness properties (`QueueServed`, `KeySettles`, `CrawlEnds`,
`PollServed`, `DomainServed`, `ConfigArrives`, `EachServed`), since TLAPS as used here does
not reason about fairness and `ENABLED`.  Every other property of a run is a theorem.  The unmoderated throttle has no run; the proofs cover it, as every
value of the constants.

Abstracted in the modelled parts:

- everywhere: message texts, logging, encodings, settings that differ between processes,
  clock skew.  A failing Redis command appears as a crash, except in `RestService`,
  `StatsCollector`, the heartbeats, the frontier and the Redis monitor's plugins, where the
  process goes on.
- frontier: priorities and the choice of a domain; the purge's scan is one snapshot for a
  round (items that a real scan misses or meets late are what the three rounds are for);
  black-listed domains and the `SCHEDULER_BACKLOG_BLACKLIST` queue; a redirect of a retry,
  which is not filtered, to another page; an exception of `next_request` after its pop (a
  cookie that does not parse), which loses one request where a crash loses all in hand.
- throttle: an expiry that spoils a watch (Redis 6.0.9 and later).
- scheduler: the list of keys is assigned in the step that has read them; a queue that is
  stored between the two look-ups of `update_domain_queues` (`Touch`); `close`;
  `update_ipaddress`, which changes the throttle's key only for queues built afterwards.
  Callbacks that overlap are in the model, and the properties are stated for those that
  do not.
- watcher: the pointer mode, which nothing in the cluster uses.
- Kafka monitor: one partition; what a schema says; the time-out of the `feed` command.
- collector: a thread that is held up for longer than a tick; `keep_max` beyond what
  section 5 says; `delete_key`.
- cluster statistics: the lifetime counters, queue statistics and dumps of queues; an
  answer to `all` or `crawler` is several of the requests one after the other.
- REST: schemas, health; the second consumer thread that a reconnection leaves (it takes
  messages from the same consumer, one at a time under the same lock); `poll` of a value
  that is not JSON; `producer.send` that raises, which is outside of the `try` of
  `_feed_to_kafka`: the call gets a 500 and no reconnection is started; a time-out of
  Redis, which is not the `ConnectionError` that is caught and ends the consumer's thread,
  while the server still counts as connected.  No property speaks of what follows either.

Not modelled, and why, is in `PROJECT.json` under "components".  In short: helpers, tools
and deployment have no shared state, and a Redis queue is one command at a time.

## 7. Plan

Done, in this order: `RateLimiter`, `RedisThrottledQueue` and its proofs; `RedisMonitor`
and its proofs; `CrawlFrontier`; `RestService` and its proofs; `SchedulerQueues`;
`ZookeeperConfig`; `KafkaMonitor`; `StatsCollector`; `ClusterStats`; then the remaining
proofs about the throttle and the Redis monitor, and those about the Kafka monitor, the
frontier, the configuration, the scheduler and the counters; `AtLeastOnce` and its
refinement; the causes for which requests go away; the proofs about `ClusterStats`.

To come:

1. More abstract specifications of single components, in the manner of `RateLimiter` and
   `AtLeastOnce`: one owner at a time for an action key, a store of answers for REST.
2. The pure parts (`fit_scale`, priorities, the encodings of the queues) against reference
   definitions.
