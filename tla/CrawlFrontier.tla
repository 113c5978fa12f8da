--------------------------- MODULE CrawlFrontier ---------------------------
(***************************************************************************)
(* How the requests of a crawl move through the cluster: the Kafka monitor *)
(* feeds them, spider processes take them from the shared queues and put   *)
(* the links and retries of a page through enqueue_request                 *)
(* (crawler/crawling/distributed_scheduler.py), and the redis monitor's    *)
(* stop and expire plugins end a crawl under them.                         *)
(*                                                                         *)
(* One action per Redis command.  A spider's reactor thread does one       *)
(* enqueue_request at a time; downloads overlap with it.  The queues of    *)
(* all domains are one set, and throttling and the choice between domains  *)
(* and priorities appear as the choice of the item that is taken, or none. *)
(***************************************************************************)
EXTENDS Integers, FiniteSets

CONSTANTS
    Spiders,       \* the crawler processes of one spider type
    Crawls,        \* the crawls (appid and crawlid)
    Stoppable,     \* the crawls a client may stop
    Expiring,      \* the crawls fed with an expires time
    Urls,          \* the pages there are
    MaxDepth,      \* a feed's maxdepth
    PageLimit,     \* GLOBAL_PAGE_PER_DOMAIN_LIMIT, for the one domain there is
    MaxRetries,    \* RETRY_TIMES
    Capacity,      \* bound: requests one spider downloads at a time
    MaxFeeds,      \* bound: the feeds a client sends for a crawl
    MaxTroubles,   \* bound: the restarts of spiders and handlers, the calls of
                   \* enqueue_request that raise, and the lapses of a filter's key
    Nothing,       \* no request
    KeepHistory    \* FALSE: no history is kept; keys lapse and calls raise without bound

Request == [crawl: Crawls, url: Urls, depth: 0..MaxDepth, tries: 0..MaxRetries,
            again: BOOLEAN]       \* again: dont_filter, set on a retry

ASSUME FrontierAssumption ==
    /\ IsFiniteSet(Spiders) /\ IsFiniteSet(Crawls) /\ IsFiniteSet(Urls)
    /\ Expiring \subseteq Crawls /\ Stoppable \subseteq Crawls
    /\ MaxDepth \in Nat /\ PageLimit \in Nat \ {0} /\ MaxRetries \in Nat
    /\ Capacity \in Nat \ {0}
    /\ MaxFeeds \in Nat /\ MaxTroubles \in Nat
    /\ KeepHistory \in BOOLEAN /\ Nothing \notin Request

Handlers == Crawls \X {"stop", "expire"}
Purges == 3        \* _purge_crawl
Absent == -1

VARIABLES
    queue,        \* the sorted sets <spider>:<domain>:queue
    seen,         \* <spider>:dupefilter:<crawlid>
    pages,        \* the page counter of each crawl; Absent when there is no key
    blacklist,    \* <spider>:blacklist
    timeouts,     \* the crawls with a timeout key
    due,          \* the crawls whose expires time has passed
    pc,           \* the command each spider is about to send
    req,          \* the request each spider puts through enqueue_request
    outbox,       \* the requests its callbacks have yielded and wait for it
    loading,      \* the requests it downloads
    phase,        \* the command each handler is about to send
    rounds,       \* the rounds a handler has still to purge
    doomed,       \* the items a handler found and has still to remove
    timeless,     \* the crawls fed whose timeout key is not yet set
    feeds,        \* the number of feeds of each crawl
    visits,       \* history: downloads started, by crawl and page
    pushes,       \* history: requests enqueue_request pushed, by crawl
    settled,      \* history: crawl and page of requests answered, refused or purged
    lost,         \* history: crawl and page of requests taken by a crash or an exception
    seeds,        \* history: the feeds of each page
    refeeds,      \* history: feeds of a crawl since a handler blacklisted it
    crashes,      \* history: restarts, and calls of enqueue_request that raised
    seenLapses,   \* history: duplicate filters that timed out
    pageLapses    \* history: page counters that timed out

redis == <<queue, seen, pages, blacklist, timeouts>>
spiders == <<pc, req, outbox, loading>>
handlers == <<phase, rounds, doomed>>
clients == <<due, timeless, feeds>>
history == <<visits, pushes, settled, lost, refeeds, seeds, crashes, seenLapses, pageLapses>>
vars == <<redis, spiders, handlers, clients, history>>

FrontierTypeOK ==
    /\ queue \in SUBSET Request
    /\ seen \in [Crawls -> SUBSET Urls]
    /\ pages \in [Crawls -> {Absent} \cup 0..PageLimit + Cardinality(Spiders)]
    /\ blacklist \in SUBSET Crawls /\ timeouts \in SUBSET Expiring
    /\ pc \in [Spiders -> {"idle", "seen", "exists", "create", "read", "incr",
                            "check", "push"}]
    /\ req \in [Spiders -> Request \cup {Nothing}]
    /\ outbox \in [Spiders -> SUBSET Request]
    /\ loading \in [Spiders -> SUBSET Request]
    /\ phase \in [Handlers -> {"idle", "blacklist", "scan", "remove", "answer", "done"}]
    /\ rounds \in [Handlers -> 0..Purges]
    /\ doomed \in [Handlers -> SUBSET Request]
    /\ due \in SUBSET Expiring /\ timeless \in SUBSET Expiring
    /\ feeds \in [Crawls -> 0..MaxFeeds]
    /\ visits \in [Crawls \X Urls -> Nat] /\ pushes \in [Crawls -> Nat]
    /\ settled \in SUBSET (Crawls \X Urls) /\ lost \in SUBSET (Crawls \X Urls)
    /\ refeeds \in [Crawls -> 0..MaxFeeds] /\ seeds \in [Crawls \X Urls -> 0..MaxFeeds]
    /\ crashes \in 0..MaxTroubles
    /\ seenLapses \in 0..MaxTroubles /\ pageLapses \in 0..MaxTroubles

----------------------------------------------------------------------------
(***************************************************************************)
(* Decisions of the code.  The name of a mistaken variant, which only a    *)
(* mutation uses, ends in Deep, Uncounted, Late or Anyway.                 *)
(***************************************************************************)
Seed(c, u) == [crawl |-> c, url |-> u, depth |-> 0, tries |-> 0, again |-> FALSE]

\* LinkSpider.parse, then MetaPassthroughMiddleware: every meta field the spider did
\* not set is copied, the page's own retry_times among them.
LinkNoDeeper(r, u) == [r EXCEPT !.url = u, !.again = FALSE]
Link(r, u) == [r EXCEPT !.url = u, !.depth = @ + 1, !.again = FALSE]
FollowsAnyway(r) == TRUE
Follows(r) == r.depth < MaxDepth

\* RedisRetryMiddleware._retry.
RetryUncounted(r) == [r EXCEPT !.again = TRUE]
Retry(r) == [r EXCEPT !.tries = @ + 1, !.again = TRUE]
Retries(r) == r.tries < MaxRetries

\* enqueue_request passes the duplicate filter by when dont_filter is set.
FirstCheckAnyway(r) == "seen"
FirstCheck(r) == IF r.again THEN "exists" ELSE "seen"

\* request_page_limit_reached, before the counter is set to 0.
MissingAlways(n) == TRUE
Missing(n) == n = Absent

\* request_page_limit_reached, before and after INCR.
LimitReachedLate(n) == n > PageLimit
LimitReached(n) == n >= PageLimit

\* is_blacklisted and the expires time of the request.
RefusedAnyway(c) == FALSE
Refused(c) == c \in blacklist \/ c \in due

Trouble == crashes + seenLapses + pageLapses
Name(r) == <<r.crawl, r.url>>
Noted(h, x) == IF KeepHistory THEN [h EXCEPT ![x] = @ + 1] ELSE h
Settle(S) == settled' = IF KeepHistory THEN settled \cup S ELSE settled
Lose(S) == lost' = IF KeepHistory THEN lost \cup S ELSE lost

Init ==
    /\ queue = {} /\ blacklist = {} /\ timeouts = {}
    /\ seen = [c \in Crawls |-> {}]
    /\ pages = [c \in Crawls |-> Absent]
    /\ pc = [s \in Spiders |-> "idle"]
    /\ req = [s \in Spiders |-> Nothing]
    /\ outbox = [s \in Spiders |-> {}]
    /\ loading = [s \in Spiders |-> {}]
    /\ phase = [h \in Handlers |-> "idle"]
    /\ rounds = [h \in Handlers |-> 0]
    /\ doomed = [h \in Handlers |-> {}]
    /\ due = {} /\ timeless = {}
    /\ feeds = [c \in Crawls |-> 0]
    /\ visits = [n \in Crawls \X Urls |-> 0]
    /\ pushes = [c \in Crawls |-> 0]
    /\ settled = {} /\ lost = {}
    /\ refeeds = [c \in Crawls |-> 0] /\ seeds = [p \in Crawls \X Urls |-> 0]
    /\ crashes = 0 /\ seenLapses = 0 /\ pageLapses = 0

----------------------------------------------------------------------------
(***************************************************************************)
(* The Kafka monitor's ScraperHandler, one message at a time: ZADD, then   *)
(* SET of the timeout key if the feed expires.                             *)
(***************************************************************************)
Feed(c, u) ==
    /\ timeless = {}
    /\ feeds[c] < MaxFeeds
    /\ feeds' = [feeds EXCEPT ![c] = @ + 1]
    /\ queue' = queue \cup {Seed(c, u)}
    /\ timeless' = {c} \cap Expiring
    /\ seeds' = Noted(seeds, <<c, u>>)
    /\ refeeds' = IF c \in blacklist THEN Noted(refeeds, c) ELSE refeeds
    /\ UNCHANGED <<seen, pages, blacklist, timeouts, spiders, handlers, due,
                   visits, pushes, settled, lost, crashes, seenLapses, pageLapses>>

SetTimeout(c) ==
    /\ c \in timeless
    /\ timeless' = {}
    /\ timeouts' = timeouts \cup {c}
    /\ UNCHANGED <<queue, seen, pages, blacklist, spiders, handlers, due, feeds, history>>

\* The Kafka monitor dies between the two: the feed counts as consumed.
LoseTimeout(c) ==
    /\ c \in timeless
    /\ Trouble < MaxTroubles
    /\ crashes' = crashes + 1
    /\ timeless' = {}
    /\ UNCHANGED <<redis, spiders, handlers, due, feeds,
                   visits, pushes, settled, lost, refeeds, seeds, seenLapses, pageLapses>>

ComeDue(c) ==
    /\ c \in Expiring \ due
    /\ due' = due \cup {c}
    /\ UNCHANGED <<redis, spiders, handlers, timeless, feeds, history>>

\* A filter's key is dropped when nothing refreshed it for its timeout; the
\* global page filter does not refresh it once the limit is reached.
LapseSeen(c) ==
    /\ KeepHistory => Trouble < MaxTroubles
    /\ seen[c] # {}
    /\ seen' = [seen EXCEPT ![c] = {}]
    /\ seenLapses' = IF KeepHistory THEN seenLapses + 1 ELSE seenLapses
    /\ UNCHANGED <<queue, pages, blacklist, timeouts, spiders, handlers, clients,
                   visits, pushes, settled, lost, refeeds, seeds, crashes, pageLapses>>

LapsePages(c) ==
    /\ KeepHistory => Trouble < MaxTroubles
    /\ pages[c] # Absent
    /\ pages' = [pages EXCEPT ![c] = Absent]
    /\ pageLapses' = IF KeepHistory THEN pageLapses + 1 ELSE pageLapses
    /\ UNCHANGED <<queue, seen, blacklist, timeouts, spiders, handlers, clients,
                   visits, pushes, settled, lost, refeeds, seeds, crashes, seenLapses>>

----------------------------------------------------------------------------
\* next_request takes an item whatever has become of its crawl since.
NextRequest(s) ==
    /\ pc[s] = "idle"
    /\ Cardinality(loading[s]) < Capacity
    /\ \E r \in queue :
          /\ queue' = queue \ {r}
          /\ loading' = [loading EXCEPT ![s] = @ \cup {r}]
          /\ visits' = Noted(visits, Name(r))
    /\ UNCHANGED <<seen, pages, blacklist, timeouts, pc, req, outbox, handlers, clients,
                   pushes, settled, lost, refeeds, seeds, crashes, seenLapses, pageLapses>>

\* A page has come: parse yields its links.
Parse(s) ==
    /\ pc[s] = "idle"
    /\ \E r \in loading[s] : \E links \in SUBSET Urls :
          /\ ~Follows(r) => links = {}
          /\ loading' = [loading EXCEPT ![s] = @ \ {r}]
          /\ outbox' = [outbox EXCEPT ![s] = @ \cup {Link(r, u) : u \in links}]
          /\ Settle({Name(r)})
    /\ UNCHANGED <<redis, pc, req, handlers, clients,
                   visits, pushes, lost, refeeds, seeds, crashes, seenLapses, pageLapses>>

\* A download failed: it is tried again, or dropped for good.
FailDownload(s) ==
    /\ pc[s] = "idle"
    /\ \E r \in loading[s] :
          /\ loading' = [loading EXCEPT ![s] = @ \ {r}]
          /\ \/ /\ Retries(r)
                /\ outbox' = [outbox EXCEPT ![s] = @ \cup {Retry(r)}]
                /\ UNCHANGED settled
             \/ /\ ~Retries(r)
                /\ Settle({Name(r)})
                /\ UNCHANGED outbox
    /\ UNCHANGED <<redis, pc, req, handlers, clients,
                   visits, pushes, lost, refeeds, seeds, crashes, seenLapses, pageLapses>>

Goto(s, step) == pc' = [pc EXCEPT ![s] = step]

Finish(s) ==
    /\ Goto(s, "idle")
    /\ req' = [req EXCEPT ![s] = Nothing]

\* An exception leaves enqueue_request.  Scrapy logs it and goes on without the
\* request; the callback that was yielding links is not asked for the others.
Abort(s) ==
    /\ Finish(s)
    /\ \E links \in SUBSET {r \in outbox[s] : ~r.again} :
          /\ outbox' = [outbox EXCEPT ![s] = @ \ links]
          /\ Lose({Name(r) : r \in (links \cup {req[s]}) \ {Nothing}})

\* enqueue_request, on the reactor thread like all that is above.
StartEnqueue(s) ==
    /\ pc[s] = "idle"
    /\ \E r \in outbox[s] :
          /\ req' = [req EXCEPT ![s] = r]
          /\ outbox' = [outbox EXCEPT ![s] = @ \ {r}]
          /\ Goto(s, FirstCheck(r))
    /\ UNCHANGED <<redis, loading, handlers, clients, history>>

\* request_seen: SADD (and EXPIRE).
MarkSeen(s) ==
    /\ pc[s] = "seen"
    /\ LET c == req[s].crawl  u == req[s].url IN
          \/ /\ u \in seen[c]
             /\ Finish(s)
             /\ UNCHANGED seen
          \/ /\ u \notin seen[c]
             /\ seen' = [seen EXCEPT ![c] = @ \cup {u}]
             /\ Goto(s, "exists")
             /\ UNCHANGED req
    /\ UNCHANGED <<queue, pages, blacklist, timeouts, outbox, loading, handlers, clients, history>>

\* request_page_limit_reached: EXISTS, SET 0 if absent, GET, INCR (and EXPIRE).
CheckCounter(s) ==
    /\ pc[s] = "exists"
    /\ Goto(s, IF Missing(pages[req[s].crawl]) THEN "create" ELSE "read")
    /\ UNCHANGED <<redis, req, outbox, loading, handlers, clients, history>>

CreateCounter(s) ==
    /\ pc[s] = "create"
    /\ pages' = [pages EXCEPT ![req[s].crawl] = 0]
    /\ Goto(s, "read")
    /\ UNCHANGED <<queue, seen, blacklist, timeouts, req, outbox, loading, handlers,
                   clients, history>>

\* int(None) raises when the key has lapsed since EXISTS.
ReadCounter(s) ==
    /\ pc[s] = "read"
    /\ LET n == pages[req[s].crawl] IN
          \/ /\ n = Absent
             /\ Abort(s)
             /\ UNCHANGED settled
          \/ /\ n # Absent /\ LimitReached(n)
             /\ Finish(s)
             /\ Settle({Name(req[s])})
             /\ UNCHANGED <<outbox, lost>>
          \/ /\ n # Absent /\ ~LimitReached(n)
             /\ Goto(s, "incr")
             /\ UNCHANGED <<req, outbox, settled, lost>>
    /\ UNCHANGED <<redis, loading, handlers, clients,
                   visits, pushes, refeeds, seeds, crashes, seenLapses, pageLapses>>

CountPage(s) ==
    /\ pc[s] = "incr"
    /\ LET c == req[s].crawl
           n == IF pages[c] = Absent THEN 1 ELSE pages[c] + 1 IN
          /\ pages' = [pages EXCEPT ![c] = n]
          /\ \/ /\ LimitReached(n)
                /\ Finish(s)
                /\ Settle({Name(req[s])})
             \/ /\ ~LimitReached(n)
                /\ Goto(s, "check")
                /\ UNCHANGED <<req, settled>>
    /\ UNCHANGED <<queue, seen, blacklist, timeouts, outbox, loading, handlers, clients,
                   visits, pushes, lost, refeeds, seeds, crashes, seenLapses, pageLapses>>

\* is_blacklisted: SISMEMBER; then the clock is compared with expires.
CheckBlacklist(s) ==
    /\ pc[s] = "check"
    /\ \/ /\ Refused(req[s].crawl)
          /\ Finish(s)
          /\ Settle({Name(req[s])})
       \/ /\ ~Refused(req[s].crawl)
          /\ Goto(s, "push")
          /\ UNCHANGED <<req, settled>>
    /\ UNCHANGED <<redis, outbox, loading, handlers, clients,
                   visits, pushes, lost, refeeds, seeds, crashes, seenLapses, pageLapses>>

\* ZADD, through the throttled queue or past it.
PushRequest(s) ==
    /\ pc[s] = "push"
    /\ queue' = queue \cup {req[s]}
    /\ pushes' = Noted(pushes, req[s].crawl)
    /\ Finish(s)
    /\ UNCHANGED <<seen, pages, blacklist, timeouts, outbox, loading, handlers, clients,
                   visits, settled, lost, refeeds, seeds, crashes, seenLapses, pageLapses>>

\* enqueue_request raises: a Redis error at any command, or at the push a queue that
\* queue_keys lists and queue_dict does not hold (KeyError; SchedulerQueues shows how).
\* With the request pushed and only the answer missing, pc is "idle" again.  (A counter
\* that lapsed before it was read raises in ReadCounter, and is not counted here.)
FailEnqueue(s) ==
    /\ KeepHistory => Trouble < MaxTroubles
    /\ Abort(s)
    /\ crashes' = IF KeepHistory THEN crashes + 1 ELSE crashes
    /\ UNCHANGED <<redis, loading, handlers, clients,
                   visits, pushes, settled, refeeds, seeds, seenLapses, pageLapses>>

\* The process dies with all it has taken from the queue and not put back.
Crash(s) ==
    /\ Trouble < MaxTroubles
    /\ crashes' = crashes + 1
    /\ Finish(s)
    /\ outbox' = [outbox EXCEPT ![s] = {}]
    /\ loading' = [loading EXCEPT ![s] = {}]
    /\ Lose({Name(r) : r \in (loading[s] \cup outbox[s] \cup {req[s]}) \ {Nothing}})
    /\ UNCHANGED <<redis, handlers, clients,
                   visits, pushes, settled, refeeds, seeds, seenLapses, pageLapses>>

----------------------------------------------------------------------------
(***************************************************************************)
(* The stop and expire plugins, run by the redis monitor under the key's   *)
(* lock: at most one handler for each key at a time (see RedisMonitor).    *)
(***************************************************************************)
Stop(c) ==
    /\ c \in Stoppable
    /\ phase[<<c, "stop">>] \in {"idle", "done"}
    /\ phase' = [phase EXCEPT ![<<c, "stop">>] = "blacklist"]
    /\ UNCHANGED <<redis, spiders, rounds, doomed, clients, history>>

\* ExpireMonitor.check_precondition.
Expire(c) ==
    /\ c \in timeouts \cap due
    /\ phase[<<c, "expire">>] \in {"idle", "done"}
    /\ phase' = [phase EXCEPT ![<<c, "expire">>] = "blacklist"]
    /\ UNCHANGED <<redis, spiders, rounds, doomed, clients, history>>

\* SADD <spider>:blacklist; no code ever takes a crawl out again.
Blacklist(h) ==
    /\ phase[h] = "blacklist"
    /\ blacklist' = blacklist \cup {h[1]}
    /\ rounds' = [rounds EXCEPT ![h] = Purges]
    /\ phase' = [phase EXCEPT ![h] = "scan"]
    /\ UNCHANGED <<queue, seen, pages, timeouts, spiders, doomed, clients, history>>

\* _mini_purge: SCAN of the queues and ZSCAN of each.
ScanQueues(h) ==
    /\ phase[h] = "scan"
    /\ LET found == {r \in queue : r.crawl = h[1]} IN
          /\ doomed' = [doomed EXCEPT ![h] = found]
          /\ rounds' = [rounds EXCEPT ![h] = @ - 1]
          /\ phase' = [phase EXCEPT ![h] = IF found # {} THEN "remove"
                                           ELSE IF rounds[h] > 1 THEN @ ELSE "answer"]
    /\ UNCHANGED <<redis, spiders, clients, history>>

\* ZREM of one item, which a spider may have taken meanwhile.
PurgeItem(h) ==
    /\ phase[h] = "remove"
    /\ \E r \in doomed[h] :
          /\ queue' = queue \ {r}
          /\ doomed' = [doomed EXCEPT ![h] = @ \ {r}]
          /\ Settle({Name(r)})
          /\ phase' = [phase EXCEPT ![h] = IF doomed[h] # {r} THEN @
                                           ELSE IF rounds[h] > 0 THEN "scan" ELSE "answer"]
    /\ UNCHANGED <<seen, pages, blacklist, timeouts, spiders, rounds, clients,
                   visits, pushes, lost, refeeds, seeds, crashes, seenLapses, pageLapses>>

\* The answer to Kafka.  A stop deletes the timeout key only if it could be sent;
\* after an expire the redis monitor deletes the key it handled.
Answer(h) ==
    /\ phase[h] = "answer"
    /\ phase' = [phase EXCEPT ![h] = "done"]
    /\ \/ timeouts' = timeouts \ {h[1]}
       \/ h[2] = "stop" /\ UNCHANGED timeouts
    /\ UNCHANGED <<queue, seen, pages, blacklist, spiders, rounds, doomed, clients, history>>

\* The handler dies or raises, and its key is handled again from the beginning.
HandlerCrash(h) ==
    /\ phase[h] \in {"scan", "remove", "answer"}
    /\ Trouble < MaxTroubles
    /\ crashes' = crashes + 1
    /\ phase' = [phase EXCEPT ![h] = "blacklist"]
    /\ doomed' = [doomed EXCEPT ![h] = {}]
    /\ UNCHANGED <<redis, spiders, rounds, clients, visits, pushes, settled, lost, refeeds, seeds,
                   seenLapses, pageLapses>>

SpiderStep(s) ==
    \/ NextRequest(s) \/ Parse(s) \/ FailDownload(s) \/ StartEnqueue(s)
    \/ MarkSeen(s) \/ CheckCounter(s) \/ CreateCounter(s) \/ ReadCounter(s)
    \/ CountPage(s) \/ CheckBlacklist(s) \/ PushRequest(s)

HandlerStep(h) == Blacklist(h) \/ ScanQueues(h) \/ PurgeItem(h) \/ Answer(h)

Next ==
    \/ \E c \in Crawls :
          \/ \E u \in Urls : Feed(c, u)
          \/ SetTimeout(c) \/ LoseTimeout(c) \/ ComeDue(c)
          \/ LapseSeen(c) \/ LapsePages(c) \/ Stop(c) \/ Expire(c)
    \/ \E s \in Spiders : SpiderStep(s) \/ FailEnqueue(s) \/ Crash(s)
    \/ \E h \in Handlers : HandlerStep(h) \/ HandlerCrash(h)

Spec == Init /\ [][Next]_vars

\* A spider's reactor goes on: the throttle lets a waiting item through in the end
\* (QueueServed of the throttled queue), and every download ends (DOWNLOAD_TIMEOUT).
FairSpec == Spec /\ \A s \in Spiders : WF_vars(SpiderStep(s))

----------------------------------------------------------------------------
Queued(c) == {r \in queue : r.crawl = c}

\* The requests of a crawl that some spider works on.
InHand(c) ==
    {r \in UNION {outbox[s] \cup loading[s] \cup {req[s]} : s \in Spiders} :
        r # Nothing /\ r.crawl = c}

\* Spiders past the blacklist check with a request of the crawl.
Passed(c) == {s \in Spiders : pc[s] = "push" /\ req[s].crawl = c}

\* stop_monitor.py, "to try to make sure everything is cleaned": once a handler has
\* blacklisted and purged, what is left of the crawl is at most the one request
\* each spider had already checked against the blacklist, and later feeds.
StopHolds ==
    \A h \in Handlers :
        phase[h] \in {"answer", "done"} =>
            Cardinality(Queued(h[1])) + Cardinality(Passed(h[1]))
                <= Cardinality(Spiders) + refeeds[h[1]]

\* The counter's EXISTS and SET let each spider set it back once while it is
\* absent: this, and not the limit, bounds what enqueue_request lets through.
PageBound ==
    \A c \in Crawls :
        pushes[c] <= (PageLimit - 1) * Cardinality(Spiders) * (1 + pageLapses)

\* The duplicate filter and the retry count together bound the downloads of a page:
\* each feed of it and each first sighting is tried at most MaxRetries times again.
VisitBound ==
    \A c \in Crawls, u \in Urls :
        visits[<<c, u>>] <= (seeds[<<c, u>>] + 1 + seenLapses) * (MaxRetries + 1)

\* A page is marked as seen long before it is pushed, and nobody looks at it again:
\* it is still on its way, was fetched or tried to the end, was refused or purged on
\* purpose, or was in the hands of a spider that died or of a call that raised.
SeenAccounted ==
    \A c \in Crawls : \A u \in seen[c] :
        \/ <<c, u>> \in settled \cup lost
        \/ \E r \in Queued(c) \cup InHand(c) : r.url = u

\* Every crawl ends, through maxdepth and the retry count, even when the duplicate
\* filter and the page counter lapse again and again.
CrawlEnds == \A c \in Crawls : <>[](Queued(c) \cup InHand(c) = {})
=============================================================================
