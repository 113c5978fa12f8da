-------------------------- MODULE CrawlFrontier_proofs --------------------------
(***************************************************************************)
(* Proofs about CrawlFrontier, for any number of spiders, crawls, pages,   *)
(* feeds, crashes, exceptions and lapses, any depth, page limit and retry  *)
(* count.  The theorems that count something need the history              *)
(* (KeepHistory).                                                          *)
(***************************************************************************)
EXTENDS CrawlFrontier, FiniteSetTheorems, TLAPS

(***************************************************************************)
(* Types.  That a page counter never passes the limit by more than the     *)
(* number of spiders is a matter of counting those that are about to count *)
(* a page: they all have read a number below the limit.                    *)
(***************************************************************************)
Counting(c) == {s \in Spiders : pc[s] = "incr" /\ req[s].crawl = c}

FrontierTypes ==
    /\ queue \in SUBSET Request
    /\ seen \in [Crawls -> SUBSET Urls]
    /\ pages \in [Crawls -> {Absent} \cup Nat]
    /\ blacklist \in SUBSET Crawls /\ timeouts \in SUBSET Expiring
    /\ pc \in [Spiders -> {"idle", "seen", "exists", "create", "read", "incr",
                            "check", "push"}]
    /\ req \in [Spiders -> Request \cup {Nothing}]
    /\ \A s \in Spiders : pc[s] # "idle" => req[s] \in Request
    /\ outbox \in [Spiders -> SUBSET Request]
    /\ loading \in [Spiders -> SUBSET Request]
    /\ phase \in [Handlers -> {"idle", "blacklist", "scan", "remove", "answer", "done"}]
    /\ \A h \in Handlers : phase[h] = "scan" => rounds[h] > 0
    /\ rounds \in [Handlers -> 0..Purges]
    /\ doomed \in [Handlers -> SUBSET Request]
    /\ due \in SUBSET Expiring /\ timeless \in SUBSET Expiring
    /\ feeds \in [Crawls -> 0..MaxFeeds]
    /\ visits \in [Crawls \X Urls -> Nat] /\ pushes \in [Crawls -> Nat]
    /\ settled \in SUBSET (Crawls \X Urls) /\ lost \in SUBSET (Crawls \X Urls)
    /\ refeeds \in [Crawls -> Nat] /\ seeds \in [Crawls \X Urls -> Nat]
    /\ crashes \in Nat /\ seenLapses \in Nat /\ pageLapses \in Nat

HistoryBounds ==
    /\ \A c \in Crawls : refeeds[c] <= feeds[c]
    /\ \A c \in Crawls, u \in Urls : seeds[<<c, u>>] <= feeds[c]
    /\ Trouble <= MaxTroubles

PageRoom ==
    \A c \in Crawls :
        pages[c] + Cardinality(Counting(c)) <= PageLimit - 1 + Cardinality(Spiders)

TypeInv == FrontierTypes /\ HistoryBounds /\ PageRoom

(***************************************************************************)
(* StopHolds.  While a handler purges, what is still to come of the crawl  *)
(* is what it has not found: a request that was checked before the crawl   *)
(* was blacklisted, one for each spider, or a feed since.                  *)
(***************************************************************************)
Spared(h) == Queued(h[1]) \ doomed[h]

StopRoom(h) ==
    Cardinality(Spared(h)) + Cardinality(Passed(h[1])) <= Cardinality(Spiders) + refeeds[h[1]]

StopInv ==
    /\ IsFiniteSet(queue)
    /\ \A h \in Handlers :
          /\ phase[h] \in {"scan", "remove", "answer", "done"} => h[1] \in blacklist
          /\ phase[h] # "remove" => doomed[h] = {}
          /\ phase[h] \in {"remove", "answer", "done"} => StopRoom(h)

(***************************************************************************)
(* PageBound.  A counter that is there lets so many requests through as it *)
(* is below the limit; it is set back by the spiders that have seen it     *)
(* absent, and when it has lapsed each of them may come to see that.       *)
(***************************************************************************)
Admitted(c) == {s \in Spiders : pc[s] \in {"check", "push"} /\ req[s].crawl = c}
Resetting(c) == {s \in Spiders : pages[c] = Absent \/ (pc[s] = "create" /\ req[s].crawl = c)}
Left(n) == IF n = Absent \/ n >= PageLimit THEN 0 ELSE PageLimit - 1 - n

PageSum(c) ==
    pushes[c] + Cardinality(Admitted(c)) + Left(pages[c]) + (PageLimit - 1) * Cardinality(Resetting(c))
PageCap == (PageLimit - 1) * Cardinality(Spiders) * (1 + pageLapses)

PageInv == \A c \in Crawls : PageSum(c) <= PageCap

(***************************************************************************)
(* Where the requests are that have passed the duplicate filter or go by   *)
(* it: in the queue or with a spider.  A link that was not checked yet     *)
(* does not count, for it may be a duplicate and be dropped.               *)
(***************************************************************************)
Places == {"queue", "loading", "outbox", "req"} \X (Spiders \cup {Nothing}) \X Request
Held ==
    {w \in Places :
        \/ w[1] = "queue" /\ w[2] = Nothing /\ w[3] \in queue
        \/ w[1] = "loading" /\ w[2] \in Spiders /\ w[3] \in loading[w[2]]
        \/ w[1] = "outbox" /\ w[2] \in Spiders /\ w[3] \in outbox[w[2]] /\ w[3].again
        \/ w[1] = "req" /\ w[2] \in Spiders /\ pc[w[2]] \notin {"idle", "seen"} /\ w[3] = req[w[2]]}

\* SeenAccounted: a page marked as seen is settled, lost or held.
Accounted(n) == n \in settled \cup lost \/ \E w \in Held : Name(w[3]) = n

SeenInv == \A c \in Crawls : \A u \in seen[c] : Accounted(<<c, u>>)

(***************************************************************************)
(* VisitBound.  Every request that is held stands for the downloads it can *)
(* still come to: one for each try it has left, of which the present one   *)
(* is over while it is loading.                                            *)
(***************************************************************************)
First(w) == IF w[1] = "loading" THEN w[3].tries + 1 ELSE w[3].tries
Tries(n) == {t \in Held \X (0..MaxRetries) : Name(t[1][3]) = n /\ t[2] >= First(t[1])}
Allowed(c, u) == seeds[<<c, u>>] + seenLapses + (IF u \in seen[c] THEN 1 ELSE 0)

VisitSum(c, u) == visits[<<c, u>>] + Cardinality(Tries(<<c, u>>))

VisitInv ==
    \A c \in Crawls, u \in Urls :
        /\ IsFiniteSet(Tries(<<c, u>>))
        /\ VisitSum(c, u) <= (MaxRetries + 1) * Allowed(c, u)

----------------------------------------------------------------------------
\* What parse and _retry make of a request is a request.
LEMMA NewRequests ==
    ASSUME NEW r \in Request
    PROVE  /\ \A u \in Urls : Follows(r) => Link(r, u) \in Request /\ ~Link(r, u).again
           /\ Retries(r) => /\ Retry(r) \in Request /\ Retry(r).again
                           /\ Retry(r).tries = r.tries + 1 /\ Name(Retry(r)) = Name(r)
           /\ Name(r) \in Crawls \X Urls
<1> USE FrontierAssumption DEF FrontierAssumption
<1>1. r.depth \in 0..MaxDepth /\ r.tries \in 0..MaxRetries
  BY DEF Request
<1>2. ASSUME NEW u \in Urls, Follows(r) PROVE Link(r, u) \in Request /\ ~Link(r, u).again
  <2>1. r.depth + 1 \in 0..MaxDepth
    BY <1>1, <1>2 DEF Follows
  <2>2. QED
    BY <2>1 DEF Link, Request
<1>3. ASSUME Retries(r)
      PROVE  /\ Retry(r) \in Request /\ Retry(r).again
             /\ Retry(r).tries = r.tries + 1 /\ Name(Retry(r)) = Name(r)
  <2>1. r.tries + 1 \in 0..MaxRetries
    BY <1>1, <1>3 DEF Retries
  <2>2. QED
    BY <2>1 DEF Retry, Request, Name
<1>4. Name(r) \in Crawls \X Urls
  BY DEF Request, Name
<1>5. QED
  BY <1>2, <1>3, <1>4

LEMMA SeedIsRequest ==
    ASSUME NEW c \in Crawls, NEW u \in Urls
    PROVE  Seed(c, u) \in Request /\ Seed(c, u).crawl = c
           /\ Seed(c, u).tries = 0 /\ Name(Seed(c, u)) = <<c, u>>
BY FrontierAssumption DEF FrontierAssumption, Request, Seed, Name

\* A history counter goes up by one, or is not kept.
LEMMA NotedType ==
    ASSUME NEW D, NEW h \in [D -> Nat], NEW x \in D
    PROVE  Noted(h, x) \in [D -> Nat]
BY DEF Noted

LEMMA SettleType ==
    ASSUME settled \in SUBSET (Crawls \X Urls), NEW S \in SUBSET (Crawls \X Urls), Settle(S)
    PROVE  settled' \in SUBSET (Crawls \X Urls)
BY DEF Settle

LEMMA LoseType ==
    ASSUME FrontierTypes, NEW S \in SUBSET (Request \cup {Nothing}),
           Lose({Name(r) : r \in S \ {Nothing}})
    PROVE  lost' \in SUBSET (Crawls \X Urls)
<1>1. {Name(r) : r \in S \ {Nothing}} \in SUBSET (Crawls \X Urls)
  BY NewRequests
<1>2. QED
  BY <1>1 DEF Lose, FrontierTypes

\* What an exception in enqueue_request leaves behind.
LEMMA AbortTypes ==
    ASSUME FrontierTypes, NEW s \in Spiders, Abort(s)
    PROVE  /\ pc' \in [Spiders -> {"idle", "seen", "exists", "create", "read", "incr",
                                    "check", "push"}]
           /\ req' \in [Spiders -> Request \cup {Nothing}]
           /\ \A t \in Spiders : pc'[t] # "idle" => req'[t] \in Request
           /\ outbox' \in [Spiders -> SUBSET Request]
           /\ lost' \in SUBSET (Crawls \X Urls)
<1>1. PICK links \in SUBSET {r \in outbox[s] : ~r.again} :
         /\ outbox' = [outbox EXCEPT ![s] = @ \ links]
         /\ Lose({Name(r) : r \in (links \cup {req[s]}) \ {Nothing}})
  BY DEF Abort
<1>2. links \cup {req[s]} \in SUBSET (Request \cup {Nothing})
  BY DEF FrontierTypes
<1>3. lost' \in SUBSET (Crawls \X Urls)
  BY <1>1, <1>2, LoseType
<1>4. outbox' \in [Spiders -> SUBSET Request]
  BY <1>1 DEF FrontierTypes
<1>5. pc' = [pc EXCEPT ![s] = "idle"] /\ req' = [req EXCEPT ![s] = Nothing]
  BY DEF Abort, Finish, Goto
<1>6. QED
  BY <1>3, <1>4, <1>5 DEF FrontierTypes

\* The steps of the clients and of time.
LEMMA ClientTypes ==
    ASSUME FrontierTypes, NEW c \in Crawls,
           \/ \E u \in Urls : Feed(c, u)
           \/ SetTimeout(c) \/ LoseTimeout(c) \/ ComeDue(c) \/ LapseSeen(c) \/ LapsePages(c)
    PROVE  FrontierTypes'
<1> USE FrontierAssumption DEF FrontierAssumption, FrontierTypes, redis, spiders, handlers,
        clients, history
<1>1. ASSUME NEW u \in Urls, Feed(c, u) PROVE FrontierTypes'
  <2>1. Seed(c, u) \in Request
    BY SeedIsRequest
  <2>2. seeds' \in [Crawls \X Urls -> Nat]
    <3>1. seeds' = Noted(seeds, <<c, u>>) /\ <<c, u>> \in Crawls \X Urls
      BY <1>1 DEF Feed
    <3>2. QED
      BY <3>1, NotedType
  <2>3. refeeds' \in [Crawls -> Nat]
    BY <1>1, NotedType DEF Feed
  <2>4. feeds' \in [Crawls -> 0..MaxFeeds]
    BY <1>1 DEF Feed
  <2>5. QED
    BY <1>1, <2>1, <2>2, <2>3, <2>4 DEF Feed
<1>2. CASE SetTimeout(c)
  BY <1>2 DEF SetTimeout
<1>3. CASE LoseTimeout(c)
  BY <1>3 DEF LoseTimeout
<1>4. CASE ComeDue(c)
  BY <1>4 DEF ComeDue
<1>5. CASE LapseSeen(c)
  BY <1>5 DEF LapseSeen
<1>6. CASE LapsePages(c)
  BY <1>6 DEF LapsePages
<1>7. QED
  BY <1>1, <1>2, <1>3, <1>4, <1>5, <1>6

\* The steps of a spider.
LEMMA SpiderTypes ==
    ASSUME FrontierTypes, NEW s \in Spiders, SpiderStep(s) \/ FailEnqueue(s) \/ Crash(s)
    PROVE  FrontierTypes'
<1> USE FrontierAssumption DEF FrontierAssumption, FrontierTypes, redis, spiders, handlers,
        clients, history
<1>1. CASE NextRequest(s)
  <2>1. PICK r \in queue : /\ queue' = queue \ {r}
                            /\ loading' = [loading EXCEPT ![s] = @ \cup {r}]
                            /\ visits' = Noted(visits, Name(r))
    BY <1>1 DEF NextRequest
  <2>2. visits' \in [Crawls \X Urls -> Nat]
    BY <2>1, NewRequests, NotedType
  <2>3. QED
    BY <1>1, <2>1, <2>2 DEF NextRequest
<1>2. CASE Parse(s)
  <2>1. PICK r \in loading[s], links \in SUBSET Urls :
           /\ ~Follows(r) => links = {}
           /\ loading' = [loading EXCEPT ![s] = @ \ {r}]
           /\ outbox' = [outbox EXCEPT ![s] = @ \cup {Link(r, u) : u \in links}]
           /\ Settle({Name(r)})
    BY <1>2 DEF Parse
  <2>2. {Link(r, u) : u \in links} \subseteq Request /\ {Name(r)} \in SUBSET (Crawls \X Urls)
    BY <2>1, NewRequests
  <2>3. settled' \in SUBSET (Crawls \X Urls)
    BY <2>1, <2>2, SettleType
  <2>4. QED
    BY <1>2, <2>1, <2>2, <2>3 DEF Parse
<1>3. CASE FailDownload(s)
  <2>1. PICK r \in loading[s] :
           /\ loading' = [loading EXCEPT ![s] = @ \ {r}]
           /\ \/ Retries(r) /\ outbox' = [outbox EXCEPT ![s] = @ \cup {Retry(r)}] /\ UNCHANGED settled
              \/ Settle({Name(r)}) /\ UNCHANGED outbox
    BY <1>3 DEF FailDownload
  <2>2. settled' \in SUBSET (Crawls \X Urls)
    BY <2>1, NewRequests, SettleType
  <2>3. outbox' \in [Spiders -> SUBSET Request]
    BY <2>1, NewRequests
  <2>4. QED
    BY <1>3, <2>1, <2>2, <2>3 DEF FailDownload
<1>4. CASE StartEnqueue(s)
  BY <1>4 DEF StartEnqueue, Goto, FirstCheck
<1>5. CASE MarkSeen(s)
  <2>1. req[s] \in Request
    BY <1>5 DEF MarkSeen
  <2>2. req[s].crawl \in Crawls /\ req[s].url \in Urls
    BY <2>1 DEF Request
  <2>3. seen' \in [Crawls -> SUBSET Urls]
    BY <1>5, <2>2 DEF MarkSeen
  <2>4. QED
    BY <1>5, <2>1, <2>3 DEF MarkSeen, Goto, Finish
<1>6. CASE CheckCounter(s)
  BY <1>6 DEF CheckCounter, Goto
<1>7. CASE CreateCounter(s)
  <2>1. pages' \in [Crawls -> {Absent} \cup Nat]
    BY <1>7 DEF CreateCounter
  <2>2. QED
    BY <1>7, <2>1 DEF CreateCounter, Goto
<1>8. CASE ReadCounter(s)
  <2>1. req[s] \in Request
    BY <1>8 DEF ReadCounter
  <2>2. settled' \in SUBSET (Crawls \X Urls)
    BY <1>8, <2>1, NewRequests, SettleType DEF ReadCounter
  <2>3. CASE Abort(s) /\ UNCHANGED settled
    <3>1. UNCHANGED <<redis, loading, handlers, clients, settled,
                     visits, pushes, refeeds, seeds, crashes, seenLapses, pageLapses>>
      BY <1>8, <2>3 DEF ReadCounter
    <3>2. QED
      BY <2>3, <3>1, AbortTypes
  <2>4. CASE UNCHANGED <<outbox, lost>>
    BY <1>8, <2>1, <2>2, <2>4 DEF ReadCounter, Goto, Finish, Abort
  <2>5. QED
    BY <1>8, <2>3, <2>4 DEF ReadCounter
<1>9. CASE CountPage(s)
  <2>1. req[s] \in Request /\ req[s].crawl \in Crawls
    BY <1>9 DEF CountPage, Request
  <2>2. settled' \in SUBSET (Crawls \X Urls)
    BY <1>9, <2>1, NewRequests, SettleType DEF CountPage
  <2>3. pages' \in [Crawls -> {Absent} \cup Nat]
    BY <1>9, <2>1 DEF CountPage
  <2>4. QED
    BY <1>9, <2>1, <2>2, <2>3 DEF CountPage, Goto, Finish
<1>10. CASE CheckBlacklist(s)
  <2>1. req[s] \in Request
    BY <1>10 DEF CheckBlacklist
  <2>2. settled' \in SUBSET (Crawls \X Urls)
    BY <1>10, <2>1, NewRequests, SettleType DEF CheckBlacklist
  <2>3. QED
    BY <1>10, <2>1, <2>2 DEF CheckBlacklist, Goto, Finish
<1>11. CASE PushRequest(s)
  <2>1. req[s] \in Request /\ req[s].crawl \in Crawls
    BY <1>11 DEF PushRequest, Request
  <2>2. pushes' \in [Crawls -> Nat]
    BY <1>11, <2>1, NotedType DEF PushRequest
  <2>3. QED
    BY <1>11, <2>1, <2>2 DEF PushRequest, Goto, Finish
<1>12. CASE FailEnqueue(s)
  <2>1. /\ Abort(s)
        /\ UNCHANGED <<redis, loading, handlers, clients, settled,
                       visits, pushes, refeeds, seeds, seenLapses, pageLapses>>
        /\ crashes' \in Nat
    BY <1>12 DEF FailEnqueue
  <2>2. QED
    BY <2>1, AbortTypes
<1>13. CASE Crash(s)
  <2>1. loading[s] \cup outbox[s] \cup {req[s]} \in SUBSET (Request \cup {Nothing})
    OBVIOUS
  <2>2. Lose({Name(r) : r \in (loading[s] \cup outbox[s] \cup {req[s]}) \ {Nothing}})
    BY <1>13 DEF Crash
  <2>3. lost' \in SUBSET (Crawls \X Urls)
    BY <2>1, <2>2, LoseType
  <2>4. QED
    BY <1>13, <2>3 DEF Crash, Goto, Finish
<1>14. QED
  BY <1>1, <1>2, <1>3, <1>4, <1>5, <1>6, <1>7, <1>8, <1>9, <1>10, <1>11, <1>12, <1>13
     DEF SpiderStep

\* The steps of a stop or expire handler.
LEMMA HandlerTypes ==
    ASSUME FrontierTypes,
           \/ \E c \in Crawls : Stop(c) \/ Expire(c)
           \/ \E h \in Handlers : HandlerStep(h) \/ HandlerCrash(h)
    PROVE  FrontierTypes'
<1> USE FrontierAssumption DEF FrontierAssumption, FrontierTypes, redis, spiders, handlers,
        clients, history
<1>1. ASSUME NEW c \in Crawls, Stop(c) \/ Expire(c) PROVE FrontierTypes'
  <2>1. <<c, "stop">> \in Handlers /\ <<c, "expire">> \in Handlers
    BY DEF Handlers
  <2>2. QED
    BY <1>1, <2>1 DEF Stop, Expire
<1>2. ASSUME NEW h \in Handlers, Blacklist(h) PROVE FrontierTypes'
  <2>1. h[1] \in Crawls
    BY DEF Handlers
  <2>2. QED
    BY <1>2, <2>1 DEF Blacklist, Purges
<1>3. ASSUME NEW h \in Handlers, ScanQueues(h) PROVE FrontierTypes'
  <2> DEFINE found == {r \in queue : r.crawl = h[1]}
  <2>1. /\ phase[h] = "scan" /\ doomed' = [doomed EXCEPT ![h] = found]
        /\ rounds' = [rounds EXCEPT ![h] = @ - 1]
        /\ phase' = [phase EXCEPT ![h] = IF found # {} THEN "remove"
                                         ELSE IF rounds[h] > 1 THEN @ ELSE "answer"]
        /\ UNCHANGED <<redis, spiders, clients, history>>
    BY <1>3 DEF ScanQueues
  <2>2. found \in SUBSET Request
    OBVIOUS
  <2>3. rounds' \in [Handlers -> 0..Purges]
    BY <2>1 DEF Purges
  <2> HIDE DEF found
  <2>4. \A g \in Handlers : phase'[g] = "scan" => rounds'[g] > 0
    BY <2>1 DEF Purges
  <2>5. phase' \in [Handlers -> {"idle", "blacklist", "scan", "remove", "answer", "done"}]
    BY <2>1
  <2>6. doomed' \in [Handlers -> SUBSET Request]
    BY <2>1, <2>2
  <2>7. QED
    BY <2>1, <2>3, <2>4, <2>5, <2>6
<1>4. ASSUME NEW h \in Handlers, PurgeItem(h) PROVE FrontierTypes'
  <2>1. PICK r \in doomed[h] :
           /\ queue' = queue \ {r}
           /\ doomed' = [doomed EXCEPT ![h] = @ \ {r}]
           /\ Settle({Name(r)})
           /\ phase' = [phase EXCEPT ![h] = IF doomed[h] # {r} THEN @
                                            ELSE IF rounds[h] > 0 THEN "scan" ELSE "answer"]
    BY <1>4 DEF PurgeItem
  <2>2. settled' \in SUBSET (Crawls \X Urls)
    BY <2>1, NewRequests, SettleType
  <2>3. phase' \in [Handlers -> {"idle", "blacklist", "scan", "remove", "answer", "done"}]
        /\ \A g \in Handlers : phase'[g] = "scan" => phase[g] = "scan" \/ rounds[g] > 0
    BY <1>4, <2>1 DEF PurgeItem
  <2>4. QED
    BY <1>4, <2>1, <2>2, <2>3 DEF PurgeItem
<1>5. ASSUME NEW h \in Handlers, Answer(h) PROVE FrontierTypes'
  BY <1>5 DEF Answer
<1>6. ASSUME NEW h \in Handlers, HandlerCrash(h) PROVE FrontierTypes'
  BY <1>6 DEF HandlerCrash
<1>7. QED
  BY <1>1, <1>2, <1>3, <1>4, <1>5, <1>6 DEF HandlerStep

LEMMA TypesStep ==
    ASSUME FrontierTypes, [Next]_vars
    PROVE  FrontierTypes'
<1>1. CASE UNCHANGED vars
  BY <1>1 DEF vars, redis, spiders, handlers, clients, history, FrontierTypes
<1>2. QED
  BY <1>1, ClientTypes, SpiderTypes, HandlerTypes DEF Next

----------------------------------------------------------------------------
\* What a finite set may become: members dropped, one of them dropped, one added.
LEMMA Fewer ==
    ASSUME NEW S, NEW T, IsFiniteSet(S), T \subseteq S
    PROVE  /\ Cardinality(T) \in Nat /\ Cardinality(S) \in Nat
           /\ Cardinality(T) <= Cardinality(S)
BY FS_Subset, FS_CardinalityType

LEMMA OneLess ==
    ASSUME NEW S, NEW T, NEW x \in S, IsFiniteSet(S), T \subseteq S \ {x}
    PROVE  /\ Cardinality(T) \in Nat /\ Cardinality(S) \in Nat
           /\ Cardinality(T) + 1 <= Cardinality(S)
<1>1. IsFiniteSet(S \ {x}) /\ Cardinality(S \ {x}) = Cardinality(S) - 1
  BY FS_RemoveElement
<1>2. Cardinality(T) \in Nat /\ Cardinality(T) <= Cardinality(S \ {x})
      /\ Cardinality(S \ {x}) \in Nat
  BY <1>1, Fewer
<1>3. Cardinality(S) \in Nat
  BY FS_CardinalityType
<1>4. QED
  BY <1>1, <1>2, <1>3

LEMMA OneMore ==
    ASSUME NEW S, NEW T, NEW x, IsFiniteSet(S), T \subseteq S \cup {x}
    PROVE  /\ Cardinality(T) \in Nat /\ Cardinality(S) \in Nat
           /\ Cardinality(T) <= Cardinality(S) + 1
<1>1. /\ IsFiniteSet(S \cup {x}) /\ Cardinality(S) \in Nat
      /\ Cardinality(S \cup {x}) \in {Cardinality(S), Cardinality(S) + 1}
  BY FS_AddElement, FS_CardinalityType
<1>2. Cardinality(T) \in Nat /\ Cardinality(T) <= Cardinality(S \cup {x})
  BY <1>1, Fewer
<1>3. QED
  BY <1>1, <1>2

\* A set of spiders is finite.
LEMMA SpidersFinite ==
    ASSUME NEW T, T \subseteq Spiders
    PROVE  /\ IsFiniteSet(T) /\ IsFiniteSet(Spiders)
           /\ Cardinality(T) \in Nat /\ Cardinality(Spiders) \in Nat
           /\ Cardinality(T) <= Cardinality(Spiders)
BY FrontierAssumption, FS_Subset, FS_CardinalityType DEF FrontierAssumption

\* An exception and a crash leave a spider with no request in enqueue_request.
LEMMA Interrupted ==
    ASSUME FrontierTypes, NEW s \in Spiders, FailEnqueue(s) \/ Crash(s)
    PROVE  /\ pc' = [pc EXCEPT ![s] = "idle"] /\ req' = [req EXCEPT ![s] = Nothing]
           /\ \E S \in SUBSET outbox[s] : outbox' = [outbox EXCEPT ![s] = S]
           /\ \E S \in SUBSET loading[s] : loading' = [loading EXCEPT ![s] = S]
           /\ UNCHANGED <<redis, handlers, clients, visits, pushes, settled, refeeds, seeds,
                          seenLapses, pageLapses>>
<1>1. CASE FailEnqueue(s)
  <2>1. PICK links \in SUBSET {r \in outbox[s] : ~r.again} :
           outbox' = [outbox EXCEPT ![s] = @ \ links]
    BY <1>1 DEF FailEnqueue, Abort
  <2>2. outbox' = [outbox EXCEPT ![s] = outbox[s] \ links] /\ outbox[s] \ links \in SUBSET outbox[s]
    BY <2>1
  <2>3. loading' = [loading EXCEPT ![s] = loading[s]] /\ loading[s] \in SUBSET loading[s]
    BY <1>1 DEF FailEnqueue, FrontierTypes
  <2>4. QED
    BY <1>1, <2>2, <2>3 DEF FailEnqueue, Abort, Finish, Goto
<1>2. CASE Crash(s)
  BY <1>2 DEF Crash, Finish, Goto
<1>3. QED
  BY <1>1, <1>2

\* What a spider does concerns no other.
LEMMA OthersAlone ==
    ASSUME FrontierTypes, NEW s \in Spiders, SpiderStep(s) \/ FailEnqueue(s) \/ Crash(s), NEW t \in Spiders \ {s}
    PROVE  /\ pc'[t] = pc[t] /\ req'[t] = req[t]
           /\ outbox'[t] = outbox[t] /\ loading'[t] = loading[t]
<1> USE DEF Goto, Finish, spiders, FrontierTypes
<1>1. CASE NextRequest(s) \/ Parse(s) \/ FailDownload(s)
  BY <1>1 DEF NextRequest, Parse, FailDownload
<1>2. CASE StartEnqueue(s) \/ MarkSeen(s) \/ CheckCounter(s) \/ CreateCounter(s)
  BY <1>2 DEF StartEnqueue, MarkSeen, CheckCounter, CreateCounter
<1>3. CASE ReadCounter(s)
  BY <1>3 DEF ReadCounter, Abort
<1>4. CASE CountPage(s)
  BY <1>4 DEF CountPage
<1>5. CASE CheckBlacklist(s) \/ PushRequest(s)
  BY <1>5 DEF CheckBlacklist, PushRequest
<1>6. CASE FailEnqueue(s) \/ Crash(s)
  BY <1>6, Interrupted
<1>7. QED
  BY <1>1, <1>2, <1>3, <1>4, <1>5, <1>6 DEF SpiderStep

\* What clients, time and handlers do concerns no spider, and at most ends a counter.
ElseStep ==
    \/ \E c \in Crawls :
          \/ \E u \in Urls : Feed(c, u)
          \/ SetTimeout(c) \/ LoseTimeout(c) \/ ComeDue(c)
          \/ LapseSeen(c) \/ LapsePages(c) \/ Stop(c) \/ Expire(c)
    \/ \E h \in Handlers : HandlerStep(h) \/ HandlerCrash(h)
    \/ UNCHANGED vars

LEMMA SpidersAlone ==
    ASSUME FrontierTypes, ElseStep
    PROVE  /\ UNCHANGED <<pc, req, outbox, loading, pushes, visits>>
           /\ UNCHANGED <<pages, pageLapses>> \/ \E c \in Crawls : LapsePages(c)
           /\ \A c \in Crawls : pages'[c] \in {pages[c], Absent}
<1> USE DEF FrontierTypes, redis, spiders, history
<1> DEFINE Quiet == UNCHANGED <<pc, req, outbox, loading, pushes, visits, pages, pageLapses>>
<1>1. ASSUME NEW c \in Crawls, (\E u \in Urls : Feed(c, u)) \/ SetTimeout(c) \/ LoseTimeout(c)
      PROVE  Quiet
  BY <1>1 DEF Feed, SetTimeout, LoseTimeout
<1>2. ASSUME NEW c \in Crawls, ComeDue(c) \/ Stop(c) \/ Expire(c) \/ LapseSeen(c)
      PROVE  Quiet
  BY <1>2 DEF ComeDue, Stop, Expire, LapseSeen
<1>3. ASSUME NEW c \in Crawls, LapsePages(c)
      PROVE  /\ UNCHANGED <<pc, req, outbox, loading, pushes, visits>>
             /\ \A d \in Crawls : pages'[d] \in {pages[d], Absent}
  BY <1>3 DEF LapsePages
<1>4. ASSUME NEW h \in Handlers, Blacklist(h) \/ ScanQueues(h) \/ HandlerCrash(h)
      PROVE  Quiet
  BY <1>4 DEF Blacklist, ScanQueues, HandlerCrash
<1>5. ASSUME NEW h \in Handlers, PurgeItem(h) \/ Answer(h)
      PROVE  Quiet
  BY <1>5 DEF PurgeItem, Answer
<1>6. CASE UNCHANGED vars
  BY <1>6 DEF vars
<1>7. QED
  BY <1>1, <1>2, <1>3, <1>4, <1>5, <1>6 DEF ElseStep, HandlerStep

LEMMA TwoKinds ==
    ASSUME [Next]_vars
    PROVE  (\E s \in Spiders : SpiderStep(s) \/ FailEnqueue(s) \/ Crash(s)) \/ ElseStep
BY DEF Next, ElseStep

----------------------------------------------------------------------------
\* Feeds and lapses since a blacklisting, or of a page, are no more than all of them.
LEMMA BoundsStep ==
    ASSUME FrontierTypes, HistoryBounds, [Next]_vars
    PROVE  HistoryBounds'
<1> USE FrontierAssumption DEF FrontierAssumption, FrontierTypes, clients, history, Trouble
<1> DEFINE Calm == UNCHANGED <<feeds, refeeds, seeds, crashes, seenLapses, pageLapses>>
<1>1. ASSUME NEW c \in Crawls, NEW u \in Urls, Feed(c, u) PROVE HistoryBounds'
  <2>1. feeds' = [feeds EXCEPT ![c] = @ + 1] /\ UNCHANGED <<crashes, seenLapses, pageLapses>>
    BY <1>1 DEF Feed
  <2>2. \A d \in Crawls : refeeds'[d] <= feeds'[d]
    BY <1>1, <2>1 DEF Feed, Noted, HistoryBounds
  <2>3. \A d \in Crawls, v \in Urls :
           /\ seeds'[<<d, v>>] \in {seeds[<<d, v>>], seeds[<<d, v>>] + 1}
           /\ d # c => seeds'[<<d, v>>] = seeds[<<d, v>>]
    BY <1>1 DEF Feed, Noted
  <2>4. \A d \in Crawls, v \in Urls : seeds[<<d, v>>] \in Nat /\ feeds[d] \in Nat
    OBVIOUS
  <2>5. ASSUME NEW d \in Crawls, NEW v \in Urls PROVE seeds'[<<d, v>>] <= feeds'[d]
    <3>1. feeds'[d] = IF d = c THEN feeds[d] + 1 ELSE feeds[d]
      BY <2>1
    <3>2. seeds[<<d, v>>] <= feeds[d] /\ seeds[<<d, v>>] \in Nat /\ feeds[d] \in Nat
      BY <2>4 DEF HistoryBounds
    <3>3. CASE d = c
      BY <2>3, <3>1, <3>2, <3>3
    <3>4. CASE d # c
      BY <2>3, <3>1, <3>2, <3>4
    <3>5. QED
      BY <3>3, <3>4
  <2>6. QED
    BY <2>1, <2>2, <2>5 DEF HistoryBounds
<1>2. ASSUME NEW c \in Crawls, LapseSeen(c) \/ LapsePages(c) PROVE HistoryBounds'
  BY <1>2 DEF LapseSeen, LapsePages, HistoryBounds
<1>3. ASSUME NEW c \in Crawls, SetTimeout(c) \/ ComeDue(c) \/ Stop(c) \/ Expire(c)
      PROVE  Calm
  BY <1>3 DEF SetTimeout, ComeDue, Stop, Expire
<1>4. ASSUME NEW s \in Spiders, NextRequest(s) \/ Parse(s) \/ FailDownload(s) \/ StartEnqueue(s)
      PROVE  Calm
  BY <1>4 DEF NextRequest, Parse, FailDownload, StartEnqueue
<1>5. ASSUME NEW s \in Spiders, MarkSeen(s) \/ CheckCounter(s) \/ CreateCounter(s)
      PROVE  Calm
  BY <1>5 DEF MarkSeen, CheckCounter, CreateCounter
<1>6. ASSUME NEW s \in Spiders, ReadCounter(s) \/ CountPage(s) \/ CheckBlacklist(s) \/ PushRequest(s)
      PROVE  Calm
  BY <1>6 DEF ReadCounter, CountPage, CheckBlacklist, PushRequest
<1>7. ASSUME NEW h \in Handlers, HandlerStep(h)
      PROVE  Calm
  BY <1>7 DEF HandlerStep, Blacklist, ScanQueues, PurgeItem, Answer
<1>8. ASSUME UNCHANGED vars PROVE Calm
  BY <1>8 DEF vars
<1>9. Calm => HistoryBounds'
  BY DEF HistoryBounds
<1>10. ASSUME NEW s \in Spiders, FailEnqueue(s) \/ Crash(s) PROVE HistoryBounds'
  BY <1>10 DEF FailEnqueue, Crash, HistoryBounds
<1>11. ASSUME NEW c \in Crawls, LoseTimeout(c) PROVE HistoryBounds'
  BY <1>11 DEF LoseTimeout, HistoryBounds
<1>12. ASSUME NEW h \in Handlers, HandlerCrash(h) PROVE HistoryBounds'
  BY <1>12 DEF HandlerCrash, HistoryBounds
<1>13. QED
  BY <1>1, <1>2, <1>3, <1>4, <1>5, <1>6, <1>7, <1>8, <1>9, <1>10, <1>11, <1>12
     DEF Next, SpiderStep

\* The spiders about to count a page read a number below the limit.
LEMMA RoomStep ==
    ASSUME FrontierTypes, PageRoom, [Next]_vars
    PROVE  PageRoom'
<1> USE FrontierAssumption DEF FrontierAssumption, Absent
<1>1. FrontierTypes'
  BY TypesStep
<1>2. \A c \in Crawls : /\ Counting(c) \subseteq Spiders /\ Counting(c)' \subseteq Spiders
                        /\ pages[c] \in {Absent} \cup Nat /\ pages'[c] \in {Absent} \cup Nat
  BY <1>1 DEF Counting, FrontierTypes
<1> DEFINE Room(c) == pages'[c] + Cardinality(Counting(c)') <= PageLimit - 1 + Cardinality(Spiders)
<1>3. ASSUME NEW c \in Crawls, pages'[c] \in {pages[c], Absent}, Counting(c)' \subseteq Counting(c)
      PROVE  Room(c)
  <2>1. /\ Cardinality(Counting(c)') \in Nat /\ Cardinality(Counting(c)) \in Nat
        /\ Cardinality(Counting(c)') <= Cardinality(Counting(c)) /\ Cardinality(Spiders) \in Nat
    BY <1>2, <1>3, Fewer, SpidersFinite
  <2>2. pages[c] + Cardinality(Counting(c)) <= PageLimit - 1 + Cardinality(Spiders)
    BY DEF PageRoom
  <2>3. QED
    BY <1>2, <1>3, <2>1, <2>2
<1>4. ASSUME NEW c \in Crawls, pages'[c] <= PageLimit - 1 PROVE Room(c)
  <2>1. /\ Cardinality(Counting(c)') \in Nat /\ Cardinality(Spiders) \in Nat
        /\ Cardinality(Counting(c)') <= Cardinality(Spiders)
    BY <1>2, SpidersFinite
  <2>2. QED
    BY <1>2, <1>4, <2>1
<1>5. CASE ElseStep
  <2>1. \A c \in Crawls : Counting(c)' = Counting(c) /\ pages'[c] \in {pages[c], Absent}
    BY <1>5, SpidersAlone DEF Counting
  <2>2. QED
    BY <1>3, <2>1 DEF PageRoom
<1>6. ASSUME NEW s \in Spiders, SpiderStep(s) \/ FailEnqueue(s) \/ Crash(s) PROVE PageRoom'
  <2>1. \A t \in Spiders \ {s} : pc'[t] = pc[t] /\ req'[t] = req[t]
    BY <1>6, OthersAlone
  <2>2. ASSUME pages' = pages, pc'[s] # "incr" PROVE PageRoom'
    <3>1. \A c \in Crawls : Counting(c)' \subseteq Counting(c)
      BY <2>1, <2>2 DEF Counting
    <3>2. QED
      BY <1>3, <2>2, <3>1 DEF PageRoom
  <2>3. CASE NextRequest(s) \/ Parse(s) \/ FailDownload(s) \/ StartEnqueue(s)
    <3>1. pages' = pages /\ pc'[s] # "incr"
      BY <2>3 DEF NextRequest, Parse, FailDownload, StartEnqueue, FirstCheck, Goto, redis,
                  FrontierTypes
    <3>2. QED
      BY <2>2, <3>1
  <2>4. CASE MarkSeen(s) \/ CheckCounter(s) \/ FailEnqueue(s) \/ Crash(s)
    <3>1. pages' = pages /\ pc'[s] # "incr"
      BY <2>4, Interrupted DEF MarkSeen, CheckCounter, Goto, Finish, redis, FrontierTypes
    <3>2. QED
      BY <2>2, <3>1
  <2>5. CASE CheckBlacklist(s) \/ PushRequest(s)
    <3>1. pages' = pages /\ pc'[s] # "incr"
      BY <2>5 DEF CheckBlacklist, PushRequest, Goto, Finish, redis, FrontierTypes
    <3>2. QED
      BY <2>2, <3>1
  <2>6. CASE CreateCounter(s)
    <3>1. pc'[s] = "read" /\ pages' = [pages EXCEPT ![req[s].crawl] = 0]
      BY <2>6 DEF CreateCounter, Goto, FrontierTypes
    <3>2. \A c \in Crawls : Counting(c)' \subseteq Counting(c)
      BY <2>1, <3>1 DEF Counting
    <3>3. \A c \in Crawls : pages'[c] \in {pages[c], 0}
      BY <3>1 DEF FrontierTypes
    <3>4. QED
      BY <1>3, <1>4, <3>2, <3>3 DEF PageRoom
  <2>7. CASE ReadCounter(s)
    <3>1. pages' = pages /\ (pc'[s] = "incr" => pages[req[s].crawl] <= PageLimit - 1 /\ req' = req)
      BY <2>7 DEF ReadCounter, LimitReached, Goto, Finish, Abort, redis, FrontierTypes, Request
    <3>2. \A c \in Crawls : ~(pc'[s] = "incr" /\ c = req[s].crawl) => Counting(c)' \subseteq Counting(c)
      BY <2>1, <3>1 DEF Counting
    <3>3. QED
      BY <1>3, <1>4, <3>1, <3>2 DEF PageRoom
  <2>8. CASE CountPage(s)
    <3>1. PICK d \in Crawls :
             /\ pc[s] = "incr" /\ pc'[s] # "incr" /\ d = req[s].crawl
             /\ pages' = [pages EXCEPT ![d] = IF pages[d] = Absent THEN 1 ELSE pages[d] + 1]
      <4>1. req[s].crawl \in Crawls
        BY <2>8 DEF CountPage, FrontierTypes, Request
      <4>2. QED
        BY <2>8, <4>1 DEF CountPage, Goto, Finish, FrontierTypes
    <3>2. \A c \in Crawls : Counting(c)' \subseteq Counting(c) \ {s}
      BY <2>1, <3>1 DEF Counting
    <3>3. \A c \in Crawls \ {d} : pages'[c] = pages[c]
      BY <3>1 DEF FrontierTypes
    <3>4. pages'[d] = IF pages[d] = Absent THEN 1 ELSE pages[d] + 1
      BY <3>1 DEF FrontierTypes
    <3>5. Room(d)
      <4>1. s \in Counting(d)
        BY <3>1 DEF Counting
      <4>2. /\ Cardinality(Counting(d)') \in Nat /\ Cardinality(Counting(d)) \in Nat
            /\ Cardinality(Counting(d)') + 1 <= Cardinality(Counting(d))
        BY <1>2, <3>1, <3>2, <4>1, OneLess, SpidersFinite
      <4>3. Cardinality(Spiders) \in Nat /\ Cardinality(Counting(d)) <= Cardinality(Spiders)
        BY <1>2, <3>1, SpidersFinite
      <4>4. pages[d] + Cardinality(Counting(d)) <= PageLimit - 1 + Cardinality(Spiders)
        BY <3>1 DEF PageRoom
      <4>5. pages[d] \in {Absent} \cup Nat /\ PageLimit \in Nat \ {0}
        BY <1>2, <3>1
      <4>6. QED
        BY <3>4, <4>2, <4>3, <4>4, <4>5
    <3>6. \A c \in Crawls \ {d} : Room(c)
      BY <1>3, <3>2, <3>3
    <3>7. QED
      BY <3>5, <3>6 DEF PageRoom
  <2>9. QED
    BY <1>6, <2>3, <2>4, <2>5, <2>6, <2>7, <2>8 DEF SpiderStep
<1>7. QED
  BY <1>5, <1>6, TwoKinds

\* Type correctness: in particular the counter of a domain passes the page limit by less
\* than the number of spiders.  (request_page_limit_reached: EXISTS, SET, GET, INCR.)
THEOREM FrontierTypeCorrect == Spec => []FrontierTypeOK
<1>1. Init => TypeInv
  <2>1. ASSUME Init PROVE FrontierTypes /\ HistoryBounds
    BY <2>1, FrontierAssumption DEF FrontierAssumption, Init, FrontierTypes, HistoryBounds,
       Trouble, Purges, Absent
  <2>2. ASSUME Init PROVE PageRoom
    <3>1. \A c \in Crawls : Counting(c) = {} /\ pages[c] = -1
      BY <2>2 DEF Init, Counting, Absent
    <3>2. Cardinality(Spiders) \in Nat /\ Cardinality({}) = 0 /\ PageLimit \in Nat \ {0}
      BY SpidersFinite, FS_EmptySet, FrontierAssumption DEF FrontierAssumption
    <3>3. QED
      BY <3>1, <3>2 DEF PageRoom
  <2>3. QED
    BY <2>1, <2>2 DEF TypeInv
<1>2. TypeInv /\ [Next]_vars => TypeInv'
  BY TypesStep, BoundsStep, RoomStep DEF TypeInv
<1>3. TypeInv => FrontierTypeOK
  <2> SUFFICES ASSUME TypeInv PROVE FrontierTypeOK
    OBVIOUS
  <2> USE FrontierAssumption DEF FrontierAssumption, TypeInv
  <2>1. ASSUME NEW c \in Crawls PROVE pages[c] \in {Absent} \cup 0..PageLimit + Cardinality(Spiders)
    <3>1. /\ Cardinality(Counting(c)) \in Nat /\ Cardinality(Spiders) \in Nat
          /\ PageLimit \in Nat \ {0} /\ pages[c] \in {Absent} \cup Nat
      BY SpidersFinite DEF Counting, FrontierTypes
    <3>2. pages[c] + Cardinality(Counting(c)) <= PageLimit - 1 + Cardinality(Spiders)
      BY DEF PageRoom
    <3>3. QED
      BY <3>1, <3>2 DEF Absent
  <2>2. ASSUME NEW c \in Crawls PROVE refeeds[c] \in 0..MaxFeeds
    BY DEF FrontierTypes, HistoryBounds
  <2>3. ASSUME NEW c \in Crawls, NEW u \in Urls PROVE seeds[<<c, u>>] \in 0..MaxFeeds
    <3>1. seeds[<<c, u>>] \in Nat /\ feeds[c] \in 0..MaxFeeds
      BY DEF FrontierTypes
    <3>2. QED
      BY <3>1 DEF HistoryBounds
  <2>4. crashes \in 0..MaxTroubles /\ seenLapses \in 0..MaxTroubles /\ pageLapses \in 0..MaxTroubles
    BY DEF FrontierTypes, HistoryBounds, Trouble
  <2>5. pages \in [Crawls -> {Absent} \cup 0..PageLimit + Cardinality(Spiders)]
    BY <2>1 DEF FrontierTypes
  <2>6. refeeds \in [Crawls -> 0..MaxFeeds] /\ seeds \in [Crawls \X Urls -> 0..MaxFeeds]
    BY <2>2, <2>3 DEF FrontierTypes
  <2>7. QED
    BY <2>4, <2>5, <2>6 DEF FrontierTypes, FrontierTypeOK
<1>4. QED
  BY <1>1, <1>2, <1>3, PTL DEF Spec

----------------------------------------------------------------------------
\* A purge goes on as it was when nothing is added to what is left of the crawl.
LEMMA StopKept ==
    ASSUME FrontierTypes, StopInv, NEW h \in Handlers, StopRoom(h),
           Spared(h)' \subseteq Spared(h), Passed(h[1])' \subseteq Passed(h[1]),
           refeeds'[h[1]] = refeeds[h[1]]
    PROVE  StopRoom(h)'
<1>1. IsFiniteSet(Spared(h)) /\ IsFiniteSet(Passed(h[1]))
  BY FS_Subset, SpidersFinite DEF StopInv, Spared, Queued, Passed
<1>2. /\ Cardinality(Spared(h)) \in Nat /\ Cardinality(Spared(h)') \in Nat
      /\ Cardinality(Spared(h)') <= Cardinality(Spared(h))
  BY <1>1, Fewer
<1>3. /\ Cardinality(Passed(h[1])) \in Nat /\ Cardinality(Passed(h[1])') \in Nat
      /\ Cardinality(Passed(h[1])') <= Cardinality(Passed(h[1]))
  BY <1>1, Fewer
<1>4. refeeds[h[1]] \in Nat /\ Cardinality(Spiders) \in Nat
  BY SpidersFinite DEF FrontierTypes, Handlers
<1>5. QED
  BY <1>2, <1>3, <1>4 DEF StopRoom

\* The steps that add nothing to the queue and leave the handlers alone.
LEMMA StopQuiet ==
    ASSUME FrontierTypes, StopInv, UNCHANGED <<phase, doomed, refeeds, blacklist>>,
           queue' \subseteq queue,
           \A c \in blacklist : Passed(c)' \subseteq Passed(c)
    PROVE  StopInv'
<1>1. IsFiniteSet(queue')
  BY FS_Subset DEF StopInv
<1>2. ASSUME NEW h \in Handlers, phase[h] \in {"remove", "answer", "done"} PROVE StopRoom(h)'
  <2>1. StopRoom(h) /\ h[1] \in blacklist
    BY <1>2 DEF StopInv
  <2>2. Spared(h)' \subseteq Spared(h)
    BY DEF Spared, Queued
  <2>3. QED
    BY <2>1, <2>2, StopKept
<1>3. QED
  BY <1>1, <1>2 DEF StopInv

\* A feed of a blacklisted crawl is counted among the later ones.
LEMMA StopFeed ==
    ASSUME FrontierTypes, StopInv, KeepHistory, NEW c \in Crawls, NEW u \in Urls, Feed(c, u)
    PROVE  StopInv'
<1>1. /\ queue' = queue \cup {Seed(c, u)} /\ UNCHANGED <<phase, doomed, blacklist, pc, req>>
      /\ refeeds' = IF c \in blacklist THEN [refeeds EXCEPT ![c] = @ + 1] ELSE refeeds
  BY DEF Feed, spiders, handlers, Noted
<1>2. IsFiniteSet(queue')
  BY <1>1, FS_AddElement DEF StopInv
<1>3. ASSUME NEW h \in Handlers, phase[h] \in {"remove", "answer", "done"} PROVE StopRoom(h)'
  <2>1. StopRoom(h) /\ h[1] \in blacklist /\ Passed(h[1])' = Passed(h[1])
    BY <1>1, <1>3 DEF StopInv, Passed
  <2>2. CASE h[1] # c
    <3>1. Spared(h)' \subseteq Spared(h)
      BY <1>1, <2>2, SeedIsRequest DEF Spared, Queued
    <3>2. refeeds'[h[1]] = refeeds[h[1]]
      BY <1>1, <2>2 DEF FrontierTypes, Handlers
    <3>3. QED
      BY <2>1, <3>1, <3>2, StopKept
  <2>3. CASE h[1] = c
    <3>1. Spared(h)' \subseteq Spared(h) \cup {Seed(c, u)}
      BY <1>1 DEF Spared, Queued
    <3>2. IsFiniteSet(Spared(h))
      BY FS_Subset DEF StopInv, Spared, Queued
    <3>3. /\ Cardinality(Spared(h)) \in Nat /\ Cardinality(Spared(h)') \in Nat
          /\ Cardinality(Spared(h)') <= Cardinality(Spared(h)) + 1
      BY <3>1, <3>2, OneMore
    <3>4. refeeds[c] \in Nat /\ refeeds'[c] = refeeds[c] + 1
      BY <1>1, <2>1, <2>3 DEF FrontierTypes
    <3>5. Cardinality(Passed(h[1])) \in Nat /\ Cardinality(Spiders) \in Nat
      BY SpidersFinite DEF Passed
    <3>6. QED
      BY <2>1, <2>3, <3>3, <3>4, <3>5 DEF StopRoom
  <2>4. QED
    BY <2>2, <2>3
<1>4. QED
  BY <1>1, <1>2, <1>3 DEF StopInv

\* A request that was checked before the blacklisting goes from the spider to the queue.
LEMMA StopPush ==
    ASSUME FrontierTypes, StopInv, NEW s \in Spiders, PushRequest(s)
    PROVE  StopInv'
<1>1. /\ pc[s] = "push" /\ queue' = queue \cup {req[s]}
      /\ UNCHANGED <<phase, doomed, blacklist, refeeds>> /\ pc'[s] = "idle"
  BY DEF PushRequest, Finish, Goto, handlers, FrontierTypes
<1>2. \A t \in Spiders \ {s} : pc'[t] = pc[t] /\ req'[t] = req[t]
  BY OthersAlone DEF SpiderStep
<1>3. IsFiniteSet(queue')
  BY <1>1, FS_AddElement DEF StopInv
<1>4. ASSUME NEW h \in Handlers, phase[h] \in {"remove", "answer", "done"} PROVE StopRoom(h)'
  <2>1. StopRoom(h)
    BY <1>4 DEF StopInv
  <2>2. Passed(h[1])' \subseteq Passed(h[1]) \ {s}
    BY <1>1, <1>2 DEF Passed
  <2>3. CASE req[s].crawl # h[1]
    <3>1. Spared(h)' \subseteq Spared(h)
      BY <1>1, <2>3 DEF Spared, Queued
    <3>2. QED
      BY <1>1, <2>1, <2>2, <3>1, StopKept
  <2>4. CASE req[s].crawl = h[1]
    <3>1. Spared(h)' \subseteq Spared(h) \cup {req[s]}
      BY <1>1 DEF Spared, Queued
    <3>2. IsFiniteSet(Spared(h))
      BY FS_Subset DEF StopInv, Spared, Queued
    <3>3. /\ Cardinality(Spared(h)) \in Nat /\ Cardinality(Spared(h)') \in Nat
          /\ Cardinality(Spared(h)') <= Cardinality(Spared(h)) + 1
      BY <3>1, <3>2, OneMore
    <3>4. s \in Passed(h[1]) /\ IsFiniteSet(Passed(h[1]))
      BY <1>1, <2>4, SpidersFinite DEF Passed
    <3>5. /\ Cardinality(Passed(h[1])) \in Nat /\ Cardinality(Passed(h[1])') \in Nat
          /\ Cardinality(Passed(h[1])') + 1 <= Cardinality(Passed(h[1]))
      BY <2>2, <3>4, OneLess
    <3>6. refeeds[h[1]] \in Nat /\ Cardinality(Spiders) \in Nat
      BY SpidersFinite DEF FrontierTypes, Handlers
    <3>7. QED
      BY <1>1, <2>1, <3>3, <3>5, <3>6 DEF StopRoom
  <2>5. QED
    BY <2>3, <2>4
<1>5. QED
  BY <1>1, <1>3, <1>4 DEF StopInv

\* A handler that has scanned the queues knows all there is; the item it removes
\* leaves the queue and its list together.
LEMMA StopHandler ==
    ASSUME FrontierTypes, StopInv, NEW g \in Handlers, HandlerStep(g) \/ HandlerCrash(g)
    PROVE  StopInv'
<1>1. UNCHANGED <<pc, req, refeeds>> /\ queue' \subseteq queue /\ blacklist \subseteq blacklist'
  <2>1. CASE Blacklist(g) \/ ScanQueues(g) \/ HandlerCrash(g)
    BY <2>1 DEF Blacklist, ScanQueues, HandlerCrash, spiders, history, redis
  <2>2. CASE PurgeItem(g) \/ Answer(g)
    BY <2>2 DEF PurgeItem, Answer, spiders, history, redis
  <2>3. QED
    BY <2>1, <2>2 DEF HandlerStep
<1>2. \A h \in Handlers \ {g} : phase'[h] = phase[h] /\ doomed'[h] = doomed[h]
  <2>1. CASE Blacklist(g) \/ ScanQueues(g) \/ HandlerCrash(g)
    BY <2>1 DEF Blacklist, ScanQueues, HandlerCrash, FrontierTypes
  <2>2. CASE PurgeItem(g) \/ Answer(g)
    BY <2>2 DEF PurgeItem, Answer, FrontierTypes
  <2>3. QED
    BY <2>1, <2>2 DEF HandlerStep
<1>3. IsFiniteSet(queue')
  BY <1>1, FS_Subset DEF StopInv
<1>4. \A h \in Handlers : Passed(h[1])' = Passed(h[1])
  BY <1>1 DEF Passed
<1> DEFINE Good(h) ==
        /\ phase'[h] \in {"scan", "remove", "answer", "done"} => h[1] \in blacklist'
        /\ phase'[h] # "remove" => doomed'[h] = {}
        /\ phase'[h] \in {"remove", "answer", "done"} => StopRoom(h)'
<1>5. ASSUME NEW h \in Handlers \ {g} PROVE Good(h)
  <2>1. Spared(h)' \subseteq Spared(h)
    BY <1>1, <1>2 DEF Spared, Queued
  <2>2. StopRoom(h) => StopRoom(h)'
    BY <1>1, <1>4, <2>1, StopKept
  <2>3. QED
    BY <1>1, <1>2, <2>2 DEF StopInv
<1>6. Good(g)
  <2>1. CASE Blacklist(g)
    <3>1. phase'[g] = "scan" /\ doomed'[g] = {} /\ g[1] \in blacklist'
      BY <2>1 DEF Blacklist, FrontierTypes, StopInv
    <3>2. QED
      BY <3>1
  <2>2. CASE ScanQueues(g)
    <3> DEFINE found == {r \in queue : r.crawl = g[1]}
    <3>1. /\ phase[g] = "scan" /\ doomed'[g] = found /\ queue' = queue /\ blacklist' = blacklist
          /\ phase'[g] \in IF found # {} THEN {"remove"} ELSE {"scan", "answer"}
      BY <2>2 DEF ScanQueues, FrontierTypes, redis
    <3>2. Spared(g)' = {}
      BY <3>1 DEF Spared, Queued
    <3>3. /\ Cardinality({}) = 0 /\ refeeds'[g[1]] \in Nat /\ Cardinality(Spiders) \in Nat
          /\ Cardinality(Passed(g[1])') \in Nat
          /\ Cardinality(Passed(g[1])') <= Cardinality(Spiders)
      BY <1>1, FS_EmptySet, SpidersFinite DEF FrontierTypes, Handlers, Passed
    <3>4. StopRoom(g)'
      BY <3>2, <3>3 DEF StopRoom
    <3>5. g[1] \in blacklist'
      BY <3>1 DEF StopInv
    <3>6. phase'[g] # "remove" => doomed'[g] = {}
      BY <3>1
    <3>7. QED
      BY <3>4, <3>5, <3>6
  <2>3. CASE PurgeItem(g)
    <3>1. PICK r \in doomed[g] :
             /\ queue' = queue \ {r} /\ doomed'[g] = doomed[g] \ {r} /\ phase[g] = "remove"
             /\ phase'[g] \in {"remove", "scan", "answer"}
             /\ phase'[g] # "remove" => doomed[g] = {r}
      BY <2>3 DEF PurgeItem, FrontierTypes
    <3>2. Spared(g)' \subseteq Spared(g)
      BY <3>1 DEF Spared, Queued
    <3>3. StopRoom(g)'
      BY <1>1, <1>4, <3>1, <3>2, StopKept DEF StopInv
    <3>4. g[1] \in blacklist'
      BY <1>1, <3>1 DEF StopInv
    <3>5. QED
      BY <3>1, <3>3, <3>4
  <2>4. CASE Answer(g)
    <3>1. phase[g] = "answer" /\ phase'[g] = "done" /\ queue' = queue /\ doomed'[g] = doomed[g]
      BY <2>4 DEF Answer, FrontierTypes
    <3>2. Spared(g)' \subseteq Spared(g)
      BY <3>1 DEF Spared, Queued
    <3>3. StopRoom(g)'
      BY <1>1, <1>4, <3>1, <3>2, StopKept DEF StopInv
    <3>4. QED
      BY <1>1, <3>1, <3>3 DEF StopInv
  <2>5. CASE HandlerCrash(g)
    <3>1. phase'[g] = "blacklist" /\ doomed'[g] = {}
      BY <2>5 DEF HandlerCrash, FrontierTypes
    <3>2. QED
      BY <3>1
  <2>6. QED
    BY <2>1, <2>2, <2>3, <2>4, <2>5 DEF HandlerStep
<1>7. \A h \in Handlers : Good(h)
  BY <1>5, <1>6
<1>8. QED
  BY <1>3, <1>7 DEF StopInv

\* A spider does not come past the check with a request of a crawl that is blacklisted.
LEMMA StopSpider ==
    ASSUME FrontierTypes, StopInv, NEW s \in Spiders,
           SpiderStep(s) \/ FailEnqueue(s) \/ Crash(s)
    PROVE  StopInv'
<1>1. \A t \in Spiders \ {s} : pc'[t] = pc[t] /\ req'[t] = req[t]
  BY OthersAlone
<1>2. ASSUME UNCHANGED <<phase, doomed, refeeds, blacklist>>, queue' \subseteq queue,
             pc'[s] = "push" => req'[s].crawl \notin blacklist
                                \/ (pc[s] = "push" /\ req'[s] = req[s])
      PROVE  StopInv'
  <2>1. \A c \in blacklist : Passed(c)' \subseteq Passed(c)
    BY <1>1, <1>2 DEF Passed
  <2>2. QED
    BY <1>2, <2>1, StopQuiet
<1> USE DEF FrontierTypes, handlers, redis, history, Goto, Finish
<1>3. CASE NextRequest(s) \/ Parse(s) \/ FailDownload(s)
  <2>1. UNCHANGED <<phase, doomed, refeeds, blacklist, pc>> /\ queue' \subseteq queue /\ pc[s] = "idle"
    BY <1>3 DEF NextRequest, Parse, FailDownload
  <2>2. QED
    BY <1>2, <2>1
<1>4. CASE StartEnqueue(s) \/ MarkSeen(s) \/ CheckCounter(s) \/ CreateCounter(s)
  <2>1. UNCHANGED <<phase, doomed, refeeds, blacklist, queue>>
    BY <1>4 DEF StartEnqueue, MarkSeen, CheckCounter, CreateCounter
  <2>2. pc'[s] # "push"
    BY <1>4 DEF StartEnqueue, MarkSeen, CheckCounter, CreateCounter, FirstCheck
  <2>3. QED
    BY <1>2, <2>1, <2>2
<1>5. CASE ReadCounter(s) \/ CountPage(s) \/ FailEnqueue(s) \/ Crash(s)
  <2>1. UNCHANGED <<phase, doomed, refeeds, blacklist, queue>>
    BY <1>5, Interrupted DEF ReadCounter, CountPage
  <2>2. pc'[s] # "push"
    BY <1>5, Interrupted DEF ReadCounter, CountPage, Abort
  <2>3. QED
    BY <1>2, <2>1, <2>2
<1>6. CASE CheckBlacklist(s)
  <2>1. UNCHANGED <<phase, doomed, refeeds, blacklist, queue>>
    BY <1>6 DEF CheckBlacklist
  <2>2. pc'[s] = "push" => ~Refused(req[s].crawl) /\ req'[s] = req[s]
    BY <1>6 DEF CheckBlacklist
  <2>3. QED
    BY <1>2, <2>1, <2>2 DEF Refused
<1>7. CASE PushRequest(s)
  BY <1>7, StopPush
<1>8. QED
  BY <1>3, <1>4, <1>5, <1>6, <1>7 DEF SpiderStep

LEMMA StopStep ==
    ASSUME FrontierTypes, StopInv, KeepHistory, [Next]_vars
    PROVE  StopInv'
<1>1. ASSUME UNCHANGED <<phase, doomed, refeeds, blacklist, queue, pc, req>> PROVE StopInv'
  BY <1>1, StopQuiet DEF Passed
<1>2. ASSUME NEW c \in Crawls, SetTimeout(c) \/ LoseTimeout(c) \/ ComeDue(c)
             \/ LapseSeen(c) \/ LapsePages(c)
      PROVE  StopInv'
  <2>1. UNCHANGED <<phase, doomed, refeeds, blacklist, queue, pc, req>>
    BY <1>2 DEF SetTimeout, LoseTimeout, ComeDue, LapseSeen, LapsePages, redis, spiders,
       handlers, history
  <2>2. QED
    BY <1>1, <2>1
<1>3. ASSUME NEW c \in Crawls, Stop(c) \/ Expire(c) PROVE StopInv'
  <2>1. PICK g \in Handlers : phase[g] \in {"idle", "done"} /\ phase' = [phase EXCEPT ![g] = "blacklist"]
    BY <1>3 DEF Stop, Expire, Handlers
  <2>2. UNCHANGED <<doomed, refeeds, blacklist, queue, pc, req>>
    BY <1>3 DEF Stop, Expire, redis, spiders, history
  <2>3. \A h \in Handlers : phase'[h] = IF h = g THEN "blacklist" ELSE phase[h]
    BY <2>1 DEF FrontierTypes
  <2>4. \A h \in Handlers : StopRoom(h)' <=> StopRoom(h)
    BY <2>2 DEF StopRoom, Spared, Queued, Passed
  <2>5. IsFiniteSet(queue')
    BY <2>2 DEF StopInv
  <2>6. QED
    BY <2>1, <2>2, <2>3, <2>4, <2>5 DEF StopInv
<1>4. CASE UNCHANGED vars
  BY <1>1, <1>4 DEF vars, redis, spiders, handlers, history
<1>5. QED
  BY <1>2, <1>3, <1>4, StopFeed, StopHandler, StopSpider DEF Next

\* After a stop or an expiry there is left of a crawl at most what each spider had already
\* checked against the blacklist, and what was fed since.  (stop_monitor.py, expire_monitor.py
\* and enqueue_request's is_blacklisted.)
THEOREM StopLeavesNothing ==
    ASSUME KeepHistory
    PROVE  Spec => []StopHolds
<1>1. Init => FrontierTypes /\ StopInv
  <2>1. Init => FrontierTypes
    BY FrontierAssumption DEF FrontierAssumption, Init, FrontierTypes, Purges, Absent
  <2>2. Init => StopInv
    BY FS_EmptySet DEF Init, StopInv
  <2>3. QED
    BY <2>1, <2>2
<1>2. FrontierTypes /\ StopInv /\ [Next]_vars => (FrontierTypes /\ StopInv)'
  BY TypesStep, StopStep
<1>3. FrontierTypes /\ StopInv => StopHolds
  <2> SUFFICES ASSUME FrontierTypes, StopInv, NEW h \in Handlers, phase[h] \in {"answer", "done"}
               PROVE  Cardinality(Queued(h[1])) + Cardinality(Passed(h[1]))
                          <= Cardinality(Spiders) + refeeds[h[1]]
    BY DEF StopHolds
  <2>1. StopRoom(h) /\ Spared(h) = Queued(h[1])
    BY DEF StopInv, Spared
  <2>2. QED
    BY <2>1 DEF StopRoom
<1>4. QED
  BY <1>1, <1>2, <1>3, PTL DEF Spec

----------------------------------------------------------------------------
LEMMA Scaled ==
    ASSUME NEW k \in Nat, NEW m \in Nat, NEW n \in Nat
    PROVE  /\ k * m \in Nat /\ k * n \in Nat
           /\ m <= n => k * m <= k * n
           /\ m + 1 <= n => k * m + k <= k * n
<1>1. k * m \in Nat /\ k * n \in Nat
  OBVIOUS
<1>2. ASSUME m <= n PROVE k * m <= k * n
  <2>1. PICK d \in Nat : n = m + d
    BY <1>2
  <2>2. k * n = k * m + k * d /\ k * d \in Nat
    BY <2>1
  <2>3. QED
    BY <1>1, <2>2
<1>3. ASSUME m + 1 <= n PROVE k * m + k <= k * n
  <2>1. PICK d \in Nat : n = m + 1 + d
    BY <1>3
  <2>2. k * n = k * m + k + k * d /\ k * d \in Nat
    BY <2>1
  <2>3. QED
    BY <1>1, <2>2
<1>4. QED
  BY <1>1, <1>2, <1>3

LEMMA LeftType ==
    ASSUME NEW n \in {Absent} \cup Nat
    PROVE  Left(n) \in Nat /\ Left(n) <= PageLimit - 1
<1>1. PageLimit \in Nat \ {0}
  BY FrontierAssumption DEF FrontierAssumption
<1>2. CASE n = Absent \/ n >= PageLimit
  BY <1>1, <1>2 DEF Left
<1>3. CASE n \in Nat /\ ~(n >= PageLimit)
  <2>1. Left(n) = PageLimit - 1 - n
    BY <1>3 DEF Left, Absent
  <2>2. QED
    BY <1>1, <1>3, <2>1
<1>4. QED
  BY <1>2, <1>3

\* The terms of a crawl's sum are numbers, before and after a step.
LEMMA PageTerms ==
    ASSUME FrontierTypes, NEW c \in Crawls
    PROVE  /\ pushes[c] \in Nat /\ Left(pages[c]) \in Nat /\ Left(pages[c]) <= PageLimit - 1
           /\ Admitted(c) \subseteq Spiders /\ Resetting(c) \subseteq Spiders
           /\ IsFiniteSet(Admitted(c)) /\ IsFiniteSet(Resetting(c))
           /\ Cardinality(Admitted(c)) \in Nat /\ Cardinality(Resetting(c)) \in Nat
           /\ Cardinality(Resetting(c)) <= Cardinality(Spiders)
           /\ PageLimit - 1 \in Nat /\ Cardinality(Spiders) \in Nat /\ pageLapses \in Nat
           /\ (PageLimit - 1) * Cardinality(Resetting(c)) \in Nat
           /\ (PageLimit - 1) * Cardinality(Spiders) \in Nat
           /\ PageCap \in Nat
<1>1. PageLimit - 1 \in Nat
  BY FrontierAssumption DEF FrontierAssumption
<1>2. pushes[c] \in Nat /\ pages[c] \in {Absent} \cup Nat /\ pageLapses \in Nat
  BY DEF FrontierTypes
<1>3. Admitted(c) \subseteq Spiders /\ Resetting(c) \subseteq Spiders
  BY DEF Admitted, Resetting
<1>4. Left(pages[c]) \in Nat /\ Left(pages[c]) <= PageLimit - 1
  BY <1>2, LeftType
<1>5. /\ IsFiniteSet(Admitted(c)) /\ IsFiniteSet(Resetting(c))
      /\ Cardinality(Admitted(c)) \in Nat /\ Cardinality(Resetting(c)) \in Nat
      /\ Cardinality(Resetting(c)) <= Cardinality(Spiders) /\ Cardinality(Spiders) \in Nat
  BY <1>3, SpidersFinite
<1>6. /\ (PageLimit - 1) * Cardinality(Resetting(c)) \in Nat
      /\ (PageLimit - 1) * Cardinality(Spiders) \in Nat
  BY <1>1, <1>5, Scaled
<1>7. PageCap \in Nat
  BY <1>2, <1>6, Scaled DEF PageCap
<1>8. QED
  BY <1>1, <1>2, <1>3, <1>4, <1>5, <1>6, <1>7

\* The sum does not grow when none of its terms does.
LEMMA PageKept ==
    ASSUME FrontierTypes, FrontierTypes', NEW c \in Crawls,
           pushes'[c] = pushes[c], Left(pages'[c]) <= Left(pages[c]),
           Admitted(c)' \subseteq Admitted(c), Resetting(c)' \subseteq Resetting(c)
    PROVE  PageSum(c)' <= PageSum(c)
<1>1. /\ Cardinality(Admitted(c)') <= Cardinality(Admitted(c))
      /\ Cardinality(Resetting(c)') <= Cardinality(Resetting(c))
  BY PageTerms, Fewer
<1>2. /\ Cardinality(Admitted(c)') \in Nat /\ Cardinality(Resetting(c)') \in Nat
      /\ Left(pages'[c]) \in Nat
  <2>1. /\ Cardinality(Admitted(c)') \in Nat /\ Cardinality(Resetting(c)') \in Nat
    BY PageTerms, Fewer
  <2>2. pages'[c] \in {Absent} \cup Nat
    BY DEF FrontierTypes
  <2>3. QED
    BY <2>1, <2>2, LeftType
<1>3. (PageLimit - 1) * Cardinality(Resetting(c)') <= (PageLimit - 1) * Cardinality(Resetting(c))
  BY <1>1, <1>2, PageTerms, Scaled
<1>4. (PageLimit - 1) * Cardinality(Resetting(c)') \in Nat
  BY <1>2, PageTerms, Scaled
<1>5. QED
  BY <1>1, <1>2, <1>3, <1>4, PageTerms DEF PageSum

\* An EXISTS that finds no counter is the only way to come to set one back.
LEMMA PageSpider ==
    ASSUME FrontierTypes, FrontierTypes', NEW s \in Spiders,
           \/ NextRequest(s) \/ Parse(s) \/ FailDownload(s) \/ StartEnqueue(s) \/ MarkSeen(s)
           \/ CheckCounter(s) \/ ReadCounter(s) \/ CheckBlacklist(s)
           \/ FailEnqueue(s) \/ Crash(s)
    PROVE  UNCHANGED pageLapses /\ \A c \in Crawls : PageSum(c)' <= PageSum(c)
<1>1. \A t \in Spiders \ {s} : pc'[t] = pc[t] /\ req'[t] = req[t]
  BY OthersAlone DEF SpiderStep
<1>2. ASSUME UNCHANGED <<pages, pushes, pageLapses>>,
             pc'[s] \in {"check", "push"} => pc[s] \in {"check", "push"} /\ req'[s] = req[s],
             pc'[s] = "create" =>
                pages[req'[s].crawl] = Absent \/ (pc[s] = "create" /\ req'[s] = req[s])
      PROVE  UNCHANGED pageLapses /\ \A c \in Crawls : PageSum(c)' <= PageSum(c)
  <2>1. ASSUME NEW c \in Crawls PROVE PageSum(c)' <= PageSum(c)
    <3>1. Admitted(c)' \subseteq Admitted(c)
      BY <1>1, <1>2 DEF Admitted
    <3>2. Resetting(c)' \subseteq Resetting(c)
      BY <1>1, <1>2 DEF Resetting
    <3>3. pushes'[c] = pushes[c] /\ Left(pages'[c]) <= Left(pages[c])
      BY <1>2, PageTerms
    <3>4. QED
      BY <3>1, <3>2, <3>3, PageKept
  <2>2. QED
    BY <1>2, <2>1
<1> USE DEF FrontierTypes, redis, history, Goto, Finish
<1>3. CASE NextRequest(s) \/ Parse(s) \/ FailDownload(s)
  <2>1. UNCHANGED <<pages, pushes, pageLapses, pc>> /\ pc[s] = "idle"
    BY <1>3 DEF NextRequest, Parse, FailDownload
  <2>2. QED
    BY <1>2, <2>1
<1>4. CASE StartEnqueue(s) \/ MarkSeen(s) \/ ReadCounter(s) \/ FailEnqueue(s) \/ Crash(s)
  <2>1. UNCHANGED <<pages, pushes, pageLapses>>
    BY <1>4, Interrupted DEF StartEnqueue, MarkSeen, ReadCounter
  <2>2. pc'[s] \notin {"check", "push", "create"}
    BY <1>4, Interrupted DEF StartEnqueue, MarkSeen, ReadCounter, Abort, FirstCheck
  <2>3. QED
    BY <1>2, <2>1, <2>2
<1>5. CASE CheckCounter(s)
  <2>1. UNCHANGED <<pages, pushes, pageLapses, req>> /\ pc'[s] \in {"create", "read"}
        /\ (pc'[s] = "create" => pages[req[s].crawl] = Absent)
    BY <1>5 DEF CheckCounter, Missing
  <2>2. QED
    BY <1>2, <2>1
<1>6. CASE CheckBlacklist(s)
  <2>1. UNCHANGED <<pages, pushes, pageLapses>> /\ pc[s] = "check"
        /\ (pc'[s] = "idle" \/ (pc'[s] = "push" /\ req'[s] = req[s]))
    BY <1>6 DEF CheckBlacklist
  <2>2. QED
    BY <1>2, <2>1
<1>7. QED
  BY <1>3, <1>4, <1>5, <1>6

\* Setting the counter back takes the spider out of those that may, and lets through
\* what the limit allows.
LEMMA PageCreate ==
    ASSUME FrontierTypes, FrontierTypes', NEW s \in Spiders, CreateCounter(s)
    PROVE  UNCHANGED pageLapses /\ \A c \in Crawls : PageSum(c)' <= PageSum(c)
<1>1. \A t \in Spiders \ {s} : pc'[t] = pc[t] /\ req'[t] = req[t]
  BY OthersAlone DEF SpiderStep
<1>2. PICK d \in Crawls : /\ d = req[s].crawl /\ pc[s] = "create" /\ pc'[s] = "read"
                          /\ pages' = [pages EXCEPT ![d] = 0]
  <2>1. req[s].crawl \in Crawls
    BY DEF CreateCounter, FrontierTypes, Request
  <2>2. QED
    BY <2>1 DEF CreateCounter, Goto, FrontierTypes
<1>3. UNCHANGED <<pushes, pageLapses, req>>
  BY DEF CreateCounter, history
<1>4. \A c \in Crawls : Admitted(c)' \subseteq Admitted(c)
  BY <1>1, <1>2 DEF Admitted
<1>5. ASSUME NEW c \in Crawls \ {d} PROVE PageSum(c)' <= PageSum(c)
  <2>1. pages'[c] = pages[c]
    BY <1>2 DEF FrontierTypes
  <2>2. Resetting(c)' \subseteq Resetting(c)
    BY <1>1, <1>2, <2>1 DEF Resetting
  <2>3. pushes'[c] = pushes[c] /\ Left(pages'[c]) <= Left(pages[c])
    BY <1>3, <2>1, PageTerms
  <2>4. QED
    BY <1>4, <2>2, <2>3, PageKept
<1>6. PageSum(d)' <= PageSum(d)
  <2>1. pages'[d] = 0
    BY <1>2 DEF FrontierTypes
  <2>2. s \in Resetting(d) /\ Resetting(d)' \subseteq Resetting(d) \ {s}
    BY <1>1, <1>2, <2>1 DEF Resetting, Absent
  <2>3. /\ Cardinality(Resetting(d)') \in Nat
        /\ Cardinality(Resetting(d)') + 1 <= Cardinality(Resetting(d))
    BY <2>2, PageTerms, OneLess
  <2>4. /\ (PageLimit - 1) * Cardinality(Resetting(d)') \in Nat
        /\ (PageLimit - 1) * Cardinality(Resetting(d)') + (PageLimit - 1)
              <= (PageLimit - 1) * Cardinality(Resetting(d))
    BY <2>3, PageTerms, Scaled
  <2>5. Left(pages'[d]) \in Nat /\ Left(pages'[d]) <= PageLimit - 1
    BY <2>1, LeftType
  <2>6. /\ Cardinality(Admitted(d)') \in Nat
        /\ Cardinality(Admitted(d)') <= Cardinality(Admitted(d))
    BY <1>4, PageTerms, Fewer
  <2>7. QED
    BY <1>3, <2>4, <2>5, <2>6, PageTerms DEF PageSum
<1>7. QED
  BY <1>3, <1>5, <1>6

\* A page that is counted is one that the counter lets through no more.
LEMMA PageCount ==
    ASSUME FrontierTypes, FrontierTypes', NEW s \in Spiders, CountPage(s)
    PROVE  UNCHANGED pageLapses /\ \A c \in Crawls : PageSum(c)' <= PageSum(c)
<1>1. \A t \in Spiders \ {s} : pc'[t] = pc[t] /\ req'[t] = req[t]
  BY OthersAlone DEF SpiderStep
<1>2. PICK d \in Crawls, n \in Nat :
         /\ d = req[s].crawl /\ pc[s] = "incr" /\ n = IF pages[d] = Absent THEN 1 ELSE pages[d] + 1
         /\ pages' = [pages EXCEPT ![d] = n]
         /\ IF LimitReached(n) THEN pc'[s] = "idle" ELSE pc'[s] = "check" /\ req'[s] = req[s]
  <2>1. req[s].crawl \in Crawls
    BY DEF CountPage, FrontierTypes, Request
  <2>2. (IF pages[req[s].crawl] = Absent THEN 1 ELSE pages[req[s].crawl] + 1) \in Nat
    BY <2>1 DEF FrontierTypes
  <2>3. QED
    BY <2>1, <2>2 DEF CountPage, Goto, Finish, FrontierTypes
<1>3. UNCHANGED <<pushes, pageLapses>>
  BY DEF CountPage
<1>4. \A c \in Crawls \ {d} : Admitted(c)' \subseteq Admitted(c)
  BY <1>1, <1>2 DEF Admitted
<1>5. ASSUME NEW c \in Crawls \ {d} PROVE PageSum(c)' <= PageSum(c)
  <2>1. pages'[c] = pages[c]
    BY <1>2 DEF FrontierTypes
  <2>2. Resetting(c)' \subseteq Resetting(c)
    BY <1>1, <1>2, <2>1 DEF Resetting
  <2>3. pushes'[c] = pushes[c] /\ Left(pages'[c]) <= Left(pages[c])
    BY <1>3, <2>1, PageTerms
  <2>4. QED
    BY <1>4, <2>2, <2>3, PageKept
<1>6. PageSum(d)' <= PageSum(d)
  <2>1. pages'[d] = n
    BY <1>2 DEF FrontierTypes
  <2>2. Resetting(d)' \subseteq Resetting(d) \ {s} \/ (pages[d] # Absent /\ Resetting(d)' \subseteq Resetting(d))
    BY <1>1, <1>2, <2>1 DEF Resetting, Absent
  <2>3. CASE LimitReached(n)
    <3>1. Left(pages'[d]) = 0 /\ Left(pages[d]) \in Nat
      BY <2>1, <2>3, PageTerms DEF Left, LimitReached
    <3>2. Admitted(d)' \subseteq Admitted(d)
      BY <1>1, <1>2, <2>3 DEF Admitted
    <3>3. Resetting(d)' \subseteq Resetting(d)
      BY <2>2
    <3>4. QED
      BY <1>3, <3>1, <3>2, <3>3, PageKept
  <2>4. CASE ~LimitReached(n)
    <3>1. Admitted(d)' \subseteq Admitted(d) \cup {s}
      BY <1>1, <1>2, <2>4 DEF Admitted
    <3>2. /\ Cardinality(Admitted(d)') \in Nat
          /\ Cardinality(Admitted(d)') <= Cardinality(Admitted(d)) + 1
      BY <3>1, PageTerms, OneMore
    <3>3. Left(pages'[d]) = PageLimit - 1 - n /\ n < PageLimit /\ PageLimit \in Nat
      BY <1>2, <2>1, <2>4, FrontierAssumption DEF Left, LimitReached, Absent, FrontierAssumption
    <3>4. CASE pages[d] = Absent
      <4>1. n = 1 /\ s \in Resetting(d) /\ Resetting(d)' \subseteq Resetting(d) \ {s}
        BY <1>1, <1>2, <2>1, <3>4 DEF Resetting, Absent
      <4>2. /\ Cardinality(Resetting(d)') \in Nat
            /\ Cardinality(Resetting(d)') + 1 <= Cardinality(Resetting(d))
        BY <4>1, PageTerms, OneLess
      <4>3. /\ (PageLimit - 1) * Cardinality(Resetting(d)') \in Nat
            /\ (PageLimit - 1) * Cardinality(Resetting(d)') + (PageLimit - 1)
                  <= (PageLimit - 1) * Cardinality(Resetting(d))
        BY <4>2, PageTerms, Scaled
      <4>4. QED
        BY <1>3, <3>2, <3>3, <4>1, <4>3, PageTerms DEF PageSum
    <3>5. CASE pages[d] # Absent
      <4>1. n = pages[d] + 1 /\ pages[d] \in Nat
        BY <1>2, <3>5 DEF FrontierTypes
      <4>2. Left(pages[d]) = PageLimit - 1 - pages[d]
        BY <3>3, <3>5, <4>1 DEF Left
      <4>3. Resetting(d)' \subseteq Resetting(d)
        BY <2>2
      <4>4. /\ Cardinality(Resetting(d)') \in Nat
            /\ Cardinality(Resetting(d)') <= Cardinality(Resetting(d))
        BY <4>3, PageTerms, Fewer
      <4>5. /\ (PageLimit - 1) * Cardinality(Resetting(d)') \in Nat
            /\ (PageLimit - 1) * Cardinality(Resetting(d)')
                  <= (PageLimit - 1) * Cardinality(Resetting(d))
        BY <4>4, PageTerms, Scaled
      <4>6. QED
        BY <1>3, <3>2, <3>3, <4>1, <4>2, <4>5, PageTerms DEF PageSum
    <3>6. QED
      BY <3>4, <3>5
  <2>5. QED
    BY <2>3, <2>4
<1>7. QED
  BY <1>3, <1>5, <1>6

LEMMA PagePush ==
    ASSUME FrontierTypes, FrontierTypes', NEW s \in Spiders, PushRequest(s)
    PROVE  UNCHANGED pageLapses /\ \A c \in Crawls : PageSum(c)' <= PageSum(c)
<1>1. \A t \in Spiders \ {s} : pc'[t] = pc[t] /\ req'[t] = req[t]
  BY OthersAlone DEF SpiderStep
<1>2. PICK d \in Crawls : /\ d = req[s].crawl /\ pc[s] = "push" /\ pc'[s] = "idle"
                          /\ pushes' = Noted(pushes, d)
  <2>1. req[s].crawl \in Crawls
    BY DEF PushRequest, FrontierTypes, Request
  <2>2. QED
    BY <2>1 DEF PushRequest, Goto, Finish, FrontierTypes
<1>3. UNCHANGED <<pages, pageLapses>>
  BY DEF PushRequest
<1>4. \A c \in Crawls : Admitted(c)' \subseteq Admitted(c) /\ Resetting(c)' \subseteq Resetting(c)
  BY <1>1, <1>2, <1>3 DEF Admitted, Resetting
<1>5. ASSUME NEW c \in Crawls \ {d} PROVE PageSum(c)' <= PageSum(c)
  <2>1. pushes'[c] = pushes[c] /\ Left(pages'[c]) <= Left(pages[c])
    BY <1>2, <1>3, PageTerms DEF Noted, FrontierTypes
  <2>2. QED
    BY <1>4, <2>1, PageKept
<1>6. PageSum(d)' <= PageSum(d)
  <2>1. s \in Admitted(d) /\ Admitted(d)' \subseteq Admitted(d) \ {s}
    BY <1>1, <1>2 DEF Admitted
  <2>2. /\ Cardinality(Admitted(d)') \in Nat
        /\ Cardinality(Admitted(d)') + 1 <= Cardinality(Admitted(d))
    BY <2>1, PageTerms, OneLess
  <2>3. pushes'[d] \in {pushes[d], pushes[d] + 1}
    BY <1>2 DEF Noted, FrontierTypes
  <2>4. /\ Cardinality(Resetting(d)') \in Nat
        /\ Cardinality(Resetting(d)') <= Cardinality(Resetting(d))
    BY <1>4, PageTerms, Fewer
  <2>5. /\ (PageLimit - 1) * Cardinality(Resetting(d)') \in Nat
        /\ (PageLimit - 1) * Cardinality(Resetting(d)') <= (PageLimit - 1) * Cardinality(Resetting(d))
    BY <2>4, PageTerms, Scaled
  <2>6. QED
    BY <1>3, <2>2, <2>3, <2>5, PageTerms DEF PageSum
<1>7. QED
  BY <1>3, <1>5, <1>6

\* When a counter has lapsed every spider may find it absent, once more.
LEMMA PageLapse ==
    ASSUME FrontierTypes, FrontierTypes', PageInv, KeepHistory, NEW d \in Crawls, LapsePages(d),
           UNCHANGED <<pc, req, pushes>>
    PROVE  PageInv'
<1> DEFINE room == (PageLimit - 1) * Cardinality(Spiders)
<1>1. pageLapses' = pageLapses + 1 /\ pages' = [pages EXCEPT ![d] = Absent]
  BY DEF LapsePages
<1>2. PageCap' = PageCap + room
  <2>1. PageCap' = room * (1 + (pageLapses + 1)) /\ PageCap = room * (1 + pageLapses)
    BY <1>1 DEF PageCap
  <2>2. room \in Nat /\ pageLapses \in Nat
    BY PageTerms
  <2> HIDE DEF room
  <2>3. QED
    BY <2>1, <2>2
<1>3. ASSUME NEW c \in Crawls \ {d} PROVE PageSum(c)' <= PageSum(c)
  <2>1. pages'[c] = pages[c]
    BY <1>1 DEF FrontierTypes
  <2>2. Admitted(c)' \subseteq Admitted(c) /\ Resetting(c)' \subseteq Resetting(c)
    BY <2>1 DEF Admitted, Resetting
  <2>3. Left(pages'[c]) <= Left(pages[c])
    BY <2>1, PageTerms
  <2>4. QED
    BY <2>2, <2>3, PageKept
<1>4. PageSum(d)' <= PageSum(d) + room
  <2>1. pages'[d] = Absent
    BY <1>1 DEF FrontierTypes
  <2>2. Admitted(d)' = Admitted(d) /\ Resetting(d)' = Spiders
    BY <2>1 DEF Admitted, Resetting
  <2>3. Left(pages'[d]) = 0
    BY <2>1 DEF Left
  <2>4. QED
    BY <2>2, <2>3, PageTerms DEF PageSum
<1>5. ASSUME NEW c \in Crawls PROVE PageSum(c)' <= PageCap'
  <2>1. PageSum(c) <= PageCap /\ PageCap \in Nat /\ room \in Nat /\ PageSum(c) \in Nat
    BY PageTerms DEF PageInv, PageSum
  <2>2. PageSum(c)' \in Int
    <3>1. /\ Cardinality(Admitted(c)') \in Nat /\ Cardinality(Resetting(c)') \in Nat
      BY SpidersFinite DEF Admitted, Resetting
    <3>2. pushes'[c] \in Nat /\ pages'[c] \in {Absent} \cup Nat
      BY DEF FrontierTypes
    <3>3. (PageLimit - 1) * Cardinality(Resetting(c)') \in Nat
      BY <3>1, PageTerms, Scaled
    <3>4. QED
      BY <3>1, <3>2, <3>3, LeftType DEF PageSum
  <2>3. PageSum(c)' <= PageSum(c) + room
    <3>1. CASE c = d
      BY <1>4, <3>1
    <3>2. CASE c # d
      BY <1>3, <2>1, <2>2, <3>2
    <3>3. QED
      BY <3>1, <3>2
  <2> HIDE DEF room
  <2>4. QED
    BY <1>2, <2>1, <2>2, <2>3
<1>6. QED
  BY <1>5 DEF PageInv

LEMMA PageStep ==
    ASSUME FrontierTypes, FrontierTypes', PageInv, KeepHistory, [Next]_vars
    PROVE  PageInv'
<1>1. ASSUME UNCHANGED pageLapses, \A c \in Crawls : PageSum(c)' <= PageSum(c)
      PROVE  PageInv'
  <2>1. PageCap' = PageCap
    BY <1>1 DEF PageCap
  <2>2. ASSUME NEW c \in Crawls PROVE PageSum(c)' <= PageCap
    <3>1. PageSum(c) <= PageCap /\ PageSum(c)' <= PageSum(c)
      BY <1>1 DEF PageInv
    <3>2. PageCap \in Nat /\ PageSum(c) \in Nat
      BY PageTerms DEF PageSum
    <3>3. PageSum(c)' \in Int
      <4>1. /\ Cardinality(Admitted(c)') \in Nat /\ Cardinality(Resetting(c)') \in Nat
        BY SpidersFinite DEF Admitted, Resetting
      <4>2. pushes'[c] \in Nat /\ pages'[c] \in {Absent} \cup Nat
        BY DEF FrontierTypes
      <4>3. (PageLimit - 1) * Cardinality(Resetting(c)') \in Nat
        BY <4>1, PageTerms, Scaled
      <4>4. QED
        BY <4>1, <4>2, <4>3, LeftType DEF PageSum
    <3>4. QED
      BY <3>1, <3>2, <3>3
  <2>3. QED
    BY <2>1, <2>2 DEF PageInv
<1>2. ASSUME NEW s \in Spiders, SpiderStep(s) \/ FailEnqueue(s) \/ Crash(s) PROVE PageInv'
  BY <1>1, <1>2, PageSpider, PageCreate, PageCount, PagePush DEF SpiderStep
<1>3. CASE ElseStep
  <2>1. UNCHANGED <<pc, req, pushes>>
    BY <1>3, SpidersAlone
  <2>2. CASE UNCHANGED <<pages, pageLapses>>
    <3>1. \A c \in Crawls : PageSum(c)' <= PageSum(c)
      <4>1. TAKE c \in Crawls
      <4>2. Admitted(c)' \subseteq Admitted(c) /\ Resetting(c)' \subseteq Resetting(c)
        BY <2>1, <2>2 DEF Admitted, Resetting
      <4>3. pushes'[c] = pushes[c] /\ Left(pages'[c]) <= Left(pages[c])
        BY <2>1, <2>2, PageTerms
      <4>4. QED
        BY <4>2, <4>3, PageKept
    <3>2. QED
      BY <1>1, <2>2, <3>1
  <2>3. CASE \E c \in Crawls : LapsePages(c)
    BY <2>1, <2>3, PageLapse
  <2>4. QED
    BY <1>3, <2>2, <2>3, SpidersAlone
<1>4. QED
  BY <1>2, <1>3, TwoKinds

\* The page limit, with its counter read, set back and counted in separate commands, still
\* bounds what enqueue_request lets through.  (request_page_limit_reached.)
THEOREM PagesAreBounded ==
    ASSUME KeepHistory
    PROVE  Spec => []PageBound
<1>1. Init => FrontierTypes /\ PageInv
  <2>1. Init => FrontierTypes
    BY FrontierAssumption DEF FrontierAssumption, Init, FrontierTypes, Purges, Absent
  <2>2. ASSUME Init, NEW c \in Crawls PROVE PageSum(c) <= PageCap
    <3>1. Admitted(c) = {} /\ Resetting(c) = Spiders /\ Left(pages[c]) = 0 /\ pushes[c] = 0
          /\ pageLapses = 0
      BY <2>2 DEF Init, Admitted, Resetting, Left
    <3>2. (PageLimit - 1) * Cardinality(Spiders) \in Nat
      BY <2>1, <2>2, PageTerms
    <3>3. QED
      BY <3>1, <3>2, FS_EmptySet DEF PageSum, PageCap
  <2>3. QED
    BY <2>1, <2>2 DEF PageInv
<1>2. FrontierTypes /\ PageInv /\ [Next]_vars => (FrontierTypes /\ PageInv)'
  BY TypesStep, PageStep
<1>3. FrontierTypes /\ PageInv => PageBound
  <2> SUFFICES ASSUME FrontierTypes, PageInv, NEW c \in Crawls PROVE pushes[c] <= PageCap
    BY DEF PageBound, PageCap
  <2>1. PageSum(c) <= PageCap
    BY DEF PageInv
  <2>2. QED
    BY <2>1, PageTerms DEF PageSum
<1>4. QED
  BY <1>1, <1>2, <1>3, PTL DEF Spec

----------------------------------------------------------------------------
(***************************************************************************)
(* How a step changes what is held: something comes in, or goes from one   *)
(* place to another, or is over.                                           *)
(***************************************************************************)
InQueue(r) == <<"queue", Nothing, r>>
Moved(w, v) == w \in Held /\ v \in Places /\ Held' = (Held \ {w}) \cup {v}
Dropped(w) == w \in Held /\ Held' = Held \ {w}
Added(v) == v \in Places /\ Held' = Held \cup {v}

LEMMA HeldSame ==
    ASSUME UNCHANGED <<queue, loading, outbox>>,
           \A s \in Spiders : \/ pc'[s] \in {"idle", "seen"} /\ pc[s] \in {"idle", "seen"}
                              \/ /\ pc'[s] \notin {"idle", "seen"} /\ pc[s] \notin {"idle", "seen"}
                                 /\ req'[s] = req[s]
    PROVE  Held' = Held
BY DEF Held, Places

LEMMA HeldFeed ==
    ASSUME FrontierTypes, NEW c \in Crawls, NEW u \in Urls, Feed(c, u)
    PROVE  Added(InQueue(Seed(c, u)))
<1>1. queue' = queue \cup {Seed(c, u)} /\ UNCHANGED <<pc, req, outbox, loading>>
  BY DEF Feed, spiders
<1>2. Seed(c, u) \in Request
  BY SeedIsRequest
<1> DEFINE r == Seed(c, u)
<1> HIDE DEF r
<1>3. Added(InQueue(r))
  BY <1>1, <1>2 DEF Added, InQueue, Held, Places, r
<1>4. QED
  BY <1>3 DEF r

LEMMA HeldPurge ==
    ASSUME FrontierTypes, NEW h \in Handlers, PurgeItem(h)
    PROVE  \E r \in Request : /\ Dropped(InQueue(r)) \/ Held' = Held
                              /\ Settle({Name(r)})
<1>1. PICK r \in doomed[h] : queue' = queue \ {r} /\ Settle({Name(r)})
  BY DEF PurgeItem
<1>2. UNCHANGED <<pc, req, outbox, loading>> /\ r \in Request
  BY DEF PurgeItem, spiders, FrontierTypes
<1>3. CASE r \in queue
  <2>1. InQueue(r) \in Held /\ InQueue(r) \notin Held'
    BY <1>1, <1>2, <1>3 DEF InQueue, Held, Places
  <2>2. \A w \in Places : w # InQueue(r) => (w \in Held' <=> w \in Held)
    BY <1>1, <1>2 DEF InQueue, Held, Places
  <2>3. Held \subseteq Places /\ Held' \subseteq Places
    BY DEF Held, Places
  <2>4. Held' = Held \ {InQueue(r)}
    BY <2>1, <2>2, <2>3
  <2>5. QED
    BY <1>1, <1>2, <2>1, <2>4 DEF Dropped
<1>4. CASE r \notin queue
  <2>1. queue' = queue
    BY <1>1, <1>4
  <2>2. QED
    BY <1>1, <1>2, <2>1, HeldSame
<1>5. QED
  BY <1>1, <1>2, <1>3, <1>4

LEMMA HeldNext ==
    ASSUME FrontierTypes, NEW s \in Spiders, NextRequest(s)
    PROVE  \E r \in Request : /\ Moved(InQueue(r), <<"loading", s, r>>)
                              /\ visits' = Noted(visits, Name(r))
<1>1. PICK r \in queue : /\ queue' = queue \ {r}
                         /\ loading' = [loading EXCEPT ![s] = @ \cup {r}]
                         /\ visits' = Noted(visits, Name(r))
  BY DEF NextRequest
<1>2. r \in Request /\ UNCHANGED <<pc, req, outbox>>
  BY DEF FrontierTypes, NextRequest
<1>3. \A t \in Spiders : loading'[t] = IF t = s THEN loading[t] \cup {r} ELSE loading[t]
  BY <1>1 DEF FrontierTypes
<1>4. Moved(InQueue(r), <<"loading", s, r>>)
  BY <1>1, <1>2, <1>3 DEF Moved, InQueue, Held, Places
<1>5. QED
  BY <1>1, <1>2, <1>4

\* A page that came is over; its links are still to be checked.
LEMMA HeldParse ==
    ASSUME FrontierTypes, NEW s \in Spiders, Parse(s)
    PROVE  \E r \in Request : Dropped(<<"loading", s, r>>) /\ Settle({Name(r)})
<1>1. PICK r \in loading[s], links \in SUBSET Urls :
         /\ ~Follows(r) => links = {}
         /\ loading' = [loading EXCEPT ![s] = @ \ {r}]
         /\ outbox' = [outbox EXCEPT ![s] = @ \cup {Link(r, u) : u \in links}]
         /\ Settle({Name(r)})
  BY DEF Parse
<1>2. r \in Request /\ UNCHANGED <<pc, req, queue>>
  BY DEF FrontierTypes, Parse, redis
<1>3. \A t \in Spiders : loading'[t] = IF t = s THEN loading[t] \ {r} ELSE loading[t]
  BY <1>1 DEF FrontierTypes
<1>4. \A t \in Spiders, x \in Request : x.again => (x \in outbox'[t] <=> x \in outbox[t])
  <2>1. \A u \in links : ~Link(r, u).again
    BY <1>1, <1>2, NewRequests
  <2>2. \A t \in Spiders : outbox'[t] = IF t = s THEN outbox[t] \cup {Link(r, u) : u \in links}
                                                  ELSE outbox[t]
    BY <1>1 DEF FrontierTypes
  <2>3. TAKE t \in Spiders, x \in Request
  <2>4. HAVE x.again
  <2>5. x \notin {Link(r, u) : u \in links}
    BY <2>1, <2>4
  <2>6. QED
    BY <2>2, <2>5
<1> DEFINE w == <<"loading", s, r>>
<1>5. w \in Held /\ w \notin Held'
  BY <1>2, <1>3, <1>1 DEF Held, Places
<1>6. ASSUME NEW x \in Places, x # w PROVE x \in Held' <=> x \in Held
  <2>1. x = <<x[1], x[2], x[3]>> /\ x[3] \in Request
    BY DEF Places
  <2>2. CASE x[1] = "loading"
    BY <1>3, <1>6, <2>1, <2>2 DEF Held
  <2>3. CASE x[1] = "outbox"
    BY <1>4, <2>1, <2>3 DEF Held
  <2>4. CASE x[1] \notin {"loading", "outbox"}
    BY <1>2, <2>4 DEF Held
  <2>5. QED
    BY <2>2, <2>3, <2>4
<1>7. Held \subseteq Places /\ Held' \subseteq Places
  BY DEF Held, Places
<1>8. Dropped(w)
  BY <1>5, <1>6, <1>7 DEF Dropped
<1>9. QED
  BY <1>1, <1>2, <1>8

\* A download that failed is tried again, or is over.
LEMMA HeldFail ==
    ASSUME FrontierTypes, NEW s \in Spiders, FailDownload(s)
    PROVE  \E r \in Request :
              \/ /\ Retries(r) /\ UNCHANGED settled
                 /\ Moved(<<"loading", s, r>>, <<"outbox", s, Retry(r)>>)
              \/ Dropped(<<"loading", s, r>>) /\ Settle({Name(r)})
<1>1. PICK r \in loading[s] :
         /\ loading' = [loading EXCEPT ![s] = @ \ {r}]
         /\ \/ Retries(r) /\ outbox' = [outbox EXCEPT ![s] = @ \cup {Retry(r)}] /\ UNCHANGED settled
            \/ Settle({Name(r)}) /\ UNCHANGED outbox
  BY DEF FailDownload
<1>2. r \in Request /\ UNCHANGED <<pc, req, queue>>
  BY DEF FrontierTypes, FailDownload, redis
<1>3. \A t \in Spiders : loading'[t] = IF t = s THEN loading[t] \ {r} ELSE loading[t]
  BY <1>1 DEF FrontierTypes
<1> DEFINE w == <<"loading", s, r>>
<1>4. w \in Held /\ w \notin Held'
  BY <1>1, <1>2, <1>3 DEF Held, Places
<1>5. Held \subseteq Places /\ Held' \subseteq Places
  BY DEF Held, Places
<1>6. CASE Retries(r) /\ outbox' = [outbox EXCEPT ![s] = @ \cup {Retry(r)}] /\ UNCHANGED settled
  <2>1. PICK q \in Request : q = Retry(r) /\ q.again
    BY <1>2, <1>6, NewRequests
  <2>2. \A t \in Spiders : outbox'[t] = IF t = s THEN outbox[t] \cup {q} ELSE outbox[t]
    BY <1>6, <2>1 DEF FrontierTypes
  <2> DEFINE v == <<"outbox", s, q>>
  <2>3. v \in Places /\ v \in Held'
    BY <2>1, <2>2 DEF Held, Places
  <2>4. ASSUME NEW x \in Places, x # w, x # v PROVE x \in Held' <=> x \in Held
    <3>1. x = <<x[1], x[2], x[3]>> /\ x[3] \in Request
      BY DEF Places
    <3>2. CASE x[1] = "loading"
      BY <1>3, <2>4, <3>1, <3>2 DEF Held
    <3>3. CASE x[1] = "outbox"
      BY <2>2, <2>4, <3>1, <3>3 DEF Held
    <3>4. CASE x[1] \notin {"loading", "outbox"}
      BY <1>2, <3>4 DEF Held
    <3>5. QED
      BY <3>2, <3>3, <3>4
  <2>5. Moved(w, v)
    BY <1>4, <1>5, <2>3, <2>4 DEF Moved
  <2>6. QED
    BY <1>2, <1>6, <2>1, <2>5
<1>7. CASE Settle({Name(r)}) /\ UNCHANGED outbox
  <2>1. ASSUME NEW x \in Places, x # w PROVE x \in Held' <=> x \in Held
    <3>1. x = <<x[1], x[2], x[3]>> /\ x[3] \in Request
      BY DEF Places
    <3>2. CASE x[1] = "loading"
      BY <1>3, <2>1, <3>1, <3>2 DEF Held
    <3>3. CASE x[1] # "loading"
      BY <1>2, <1>7, <3>3 DEF Held
    <3>4. QED
      BY <3>2, <3>3
  <2>2. Dropped(w)
    BY <1>4, <1>5, <2>1 DEF Dropped
  <2>3. QED
    BY <1>2, <1>7, <2>2
<1>8. QED
  BY <1>1, <1>6, <1>7

\* A retry goes by the duplicate filter; a link is put to it first.
LEMMA HeldStart ==
    ASSUME FrontierTypes, NEW s \in Spiders, StartEnqueue(s)
    PROVE  \/ Held' = Held
           \/ \E r \in Request : Moved(<<"outbox", s, r>>, <<"req", s, r>>)
<1>1. PICK r \in outbox[s] : /\ req' = [req EXCEPT ![s] = r]
                             /\ outbox' = [outbox EXCEPT ![s] = @ \ {r}]
                             /\ pc' = [pc EXCEPT ![s] = FirstCheck(r)]
  BY DEF StartEnqueue, Goto
<1>2. r \in Request /\ pc[s] = "idle" /\ UNCHANGED <<queue, loading>>
  BY DEF FrontierTypes, StartEnqueue, redis
<1>3. /\ \A t \in Spiders : outbox'[t] = IF t = s THEN outbox[t] \ {r} ELSE outbox[t]
      /\ \A t \in Spiders : req'[t] = IF t = s THEN r ELSE req[t]
      /\ \A t \in Spiders : pc'[t] = IF t = s THEN FirstCheck(r) ELSE pc[t]
  BY <1>1 DEF FrontierTypes
<1>4. Held \subseteq Places /\ Held' \subseteq Places
  BY DEF Held, Places
<1>5. CASE ~r.again
  <2>1. FirstCheck(r) = "seen"
    BY <1>5 DEF FirstCheck
  <2>2. \A x \in Places : x \in Held' <=> x \in Held
    BY <1>2, <1>3, <1>5, <2>1 DEF Held, Places
  <2>3. QED
    BY <1>4, <2>2
<1>6. CASE r.again
  <2> DEFINE w == <<"outbox", s, r>>
             v == <<"req", s, r>>
  <2>1. FirstCheck(r) = "exists"
    BY <1>6 DEF FirstCheck
  <2>2. w \in Held /\ w \notin Held' /\ v \in Places /\ v \in Held'
    BY <1>1, <1>2, <1>3, <1>6, <2>1 DEF Held, Places
  <2>3. ASSUME NEW x \in Places, x # w, x # v PROVE x \in Held' <=> x \in Held
    <3>1. x = <<x[1], x[2], x[3]>> /\ x[3] \in Request
      BY DEF Places
    <3>2. CASE x[1] = "outbox"
      BY <1>3, <2>3, <3>1, <3>2 DEF Held
    <3>3. CASE x[1] = "req"
      BY <1>2, <1>3, <2>1, <2>3, <3>1, <3>3 DEF Held
    <3>4. CASE x[1] \notin {"outbox", "req"}
      BY <1>2, <3>4 DEF Held
    <3>5. QED
      BY <3>2, <3>3, <3>4
  <2>4. Moved(w, v)
    BY <1>4, <2>2, <2>3 DEF Moved
  <2>5. QED
    BY <1>2, <2>4
<1>7. QED
  BY <1>5, <1>6

\* A link that passes the duplicate filter is held from then on.
LEMMA HeldMark ==
    ASSUME FrontierTypes, NEW s \in Spiders, MarkSeen(s)
    PROVE  \/ Held' = Held /\ UNCHANGED seen
           \/ \E r \in Request : /\ r.url \notin seen[r.crawl]
                                 /\ seen' = [seen EXCEPT ![r.crawl] = @ \cup {r.url}]
                                 /\ Added(<<"req", s, r>>)
<1>1. PICK r \in Request : r = req[s]
  BY DEF MarkSeen, FrontierTypes
<1>2. pc[s] = "seen" /\ UNCHANGED <<queue, outbox, loading>>
  BY DEF MarkSeen
<1>3. CASE Finish(s) /\ UNCHANGED seen
  <2>1. \A t \in Spiders : pc'[t] = IF t = s THEN "idle" ELSE pc[t]
    BY <1>3 DEF Finish, Goto, FrontierTypes
  <2>2. \A t \in Spiders \ {s} : req'[t] = req[t]
    BY <1>3 DEF Finish, FrontierTypes
  <2>3. Held' = Held
    BY <1>2, <2>1, <2>2, HeldSame
  <2>4. QED
    BY <1>3, <2>3
<1>4. CASE /\ r.url \notin seen[r.crawl]
           /\ seen' = [seen EXCEPT ![r.crawl] = @ \cup {r.url}]
           /\ Goto(s, "exists") /\ UNCHANGED req
  <2>1. \A t \in Spiders : pc'[t] = IF t = s THEN "exists" ELSE pc[t]
    BY <1>4 DEF Goto, FrontierTypes
  <2> DEFINE v == <<"req", s, r>>
  <2>2. v \in Places /\ v \in Held'
    BY <1>1, <1>4, <2>1 DEF Held, Places
  <2>3. ASSUME NEW x \in Places, x # v PROVE x \in Held' <=> x \in Held
    <3>1. x = <<x[1], x[2], x[3]>> /\ x[3] \in Request
      BY DEF Places
    <3>2. CASE x[1] = "req"
      BY <1>1, <1>2, <1>4, <2>1, <2>3, <3>1, <3>2 DEF Held
    <3>3. CASE x[1] # "req"
      BY <1>2, <3>3 DEF Held
    <3>4. QED
      BY <3>2, <3>3
  <2>4. Held \subseteq Places /\ Held' \subseteq Places
    BY DEF Held, Places
  <2>5. Added(v)
    BY <2>2, <2>3, <2>4 DEF Added
  <2>6. QED
    BY <1>4, <2>5
<1>5. QED
  BY <1>1, <1>3, <1>4 DEF MarkSeen

\* A spider that lets go of the request it puts through no longer holds it.
LEMMA HeldFinish ==
    ASSUME FrontierTypes, NEW s \in Spiders, pc[s] \notin {"idle", "seen"}, Finish(s),
           UNCHANGED <<queue, outbox, loading>>
    PROVE  req[s] \in Request /\ Dropped(<<"req", s, req[s]>>)
<1>1. PICK r \in Request : r = req[s]
  BY DEF FrontierTypes
<1>2. \A t \in Spiders : pc'[t] = IF t = s THEN "idle" ELSE pc[t]
  BY DEF Finish, Goto, FrontierTypes
<1>3. \A t \in Spiders \ {s} : req'[t] = req[t]
  BY DEF Finish, FrontierTypes
<1> DEFINE w == <<"req", s, r>>
<1>4. w \in Held /\ w \notin Held'
  BY <1>1, <1>2 DEF Held, Places
<1>5. ASSUME NEW x \in Places, x # w PROVE x \in Held' <=> x \in Held
  <2>1. x = <<x[1], x[2], x[3]>> /\ x[3] \in Request
    BY DEF Places
  <2>2. CASE x[1] = "req"
    BY <1>1, <1>2, <1>3, <1>5, <2>1, <2>2 DEF Held
  <2>3. CASE x[1] # "req"
    BY <2>3 DEF Held
  <2>4. QED
    BY <2>2, <2>3
<1>6. Held \subseteq Places /\ Held' \subseteq Places
  BY DEF Held, Places
<1>7. Dropped(w)
  BY <1>4, <1>5, <1>6 DEF Dropped
<1>8. QED
  BY <1>1, <1>7

\* The page limit and the blacklist: the request goes on, or is refused on purpose, or
\* int(None) raises where there had been a counter.
LEMMA HeldChecked ==
    ASSUME FrontierTypes, NEW s \in Spiders,
           CheckCounter(s) \/ CreateCounter(s) \/ ReadCounter(s) \/ CountPage(s) \/ CheckBlacklist(s)
    PROVE  \/ Held' = Held /\ UNCHANGED settled
           \/ \E r \in Request : /\ Dropped(<<"req", s, r>>)
                                 /\ Settle({Name(r)})
           \/ Abort(s)
<1>1. UNCHANGED <<queue, loading>> /\ pc[s] \notin {"idle", "seen"}
  BY DEF CheckCounter, CreateCounter, ReadCounter, CountPage, CheckBlacklist, redis
<1>2. ASSUME NEW step \in {"create", "read", "incr", "check", "push"}, Goto(s, step),
             UNCHANGED <<req, outbox>>
      PROVE  Held' = Held
  <2>1. \A t \in Spiders : pc'[t] = IF t = s THEN step ELSE pc[t]
    BY <1>2 DEF Goto, FrontierTypes
  <2>2. QED
    BY <1>1, <1>2, <2>1, HeldSame
<1>3. ASSUME Finish(s), UNCHANGED outbox
      PROVE  req[s] \in Request /\ Dropped(<<"req", s, req[s]>>)
  BY <1>1, <1>3, HeldFinish
<1>4. CASE CheckCounter(s) \/ CreateCounter(s)
  BY <1>2, <1>4 DEF CheckCounter, CreateCounter, history
<1>5. CASE ReadCounter(s)
  BY <1>2, <1>3, <1>5 DEF ReadCounter
<1>6. CASE CountPage(s)
  BY <1>2, <1>3, <1>6 DEF CountPage
<1>7. CASE CheckBlacklist(s)
  BY <1>2, <1>3, <1>7 DEF CheckBlacklist
<1>8. QED
  BY <1>4, <1>5, <1>6, <1>7

LEMMA HeldPush ==
    ASSUME FrontierTypes, NEW s \in Spiders, PushRequest(s)
    PROVE  \E r \in Request : Moved(<<"req", s, r>>, InQueue(r))
<1>1. PICK r \in Request : r = req[s]
  BY DEF PushRequest, FrontierTypes
<1>2. pc[s] = "push" /\ queue' = queue \cup {r} /\ UNCHANGED <<outbox, loading>>
  BY <1>1 DEF PushRequest
<1>3. /\ \A t \in Spiders : pc'[t] = IF t = s THEN "idle" ELSE pc[t]
      /\ \A t \in Spiders \ {s} : req'[t] = req[t]
  BY DEF PushRequest, Finish, Goto, FrontierTypes
<1> DEFINE w == <<"req", s, r>>
           v == InQueue(r)
<1>4. w \in Held /\ w \notin Held' /\ v \in Places /\ v \in Held'
  BY <1>1, <1>2, <1>3 DEF Held, Places, InQueue
<1>5. ASSUME NEW x \in Places, x # w, x # v PROVE x \in Held' <=> x \in Held
  <2>1. x = <<x[1], x[2], x[3]>> /\ x[3] \in Request
    BY DEF Places
  <2>2. CASE x[1] = "req"
    BY <1>1, <1>2, <1>3, <1>5, <2>1, <2>2 DEF Held
  <2>3. CASE x[1] = "queue"
    BY <1>2, <1>5, <2>1, <2>3 DEF Held, InQueue
  <2>4. CASE x[1] \notin {"queue", "req"}
    BY <1>2, <2>4 DEF Held
  <2>5. QED
    BY <2>2, <2>3, <2>4
<1>6. Held \subseteq Places /\ Held' \subseteq Places
  BY DEF Held, Places
<1>7. Moved(w, v)
  BY <1>4, <1>5, <1>6 DEF Moved
<1>8. QED
  BY <1>7

\* What is held no longer after an exception or a crash is noted as lost; the links that
\* go with it were not held, for the filter had not seen them.
LEMMA HeldLost ==
    ASSUME FrontierTypes, NEW s \in Spiders,
           Crash(s) \/ (Abort(s) /\ UNCHANGED <<queue, loading>>)
    PROVE  /\ Held' \subseteq Held
           /\ KeepHistory => \A w \in Held \ Held' : Name(w[3]) \in lost'
<1> USE FrontierAssumption DEF FrontierAssumption
<1>1. CASE Crash(s)
  <2>1. /\ \A t \in Spiders : pc'[t] = IF t = s THEN "idle" ELSE pc[t]
        /\ \A t \in Spiders : outbox'[t] = IF t = s THEN {} ELSE outbox[t]
        /\ \A t \in Spiders : loading'[t] = IF t = s THEN {} ELSE loading[t]
        /\ \A t \in Spiders \ {s} : req'[t] = req[t]
        /\ queue' = queue
    BY <1>1 DEF Crash, Finish, Goto, FrontierTypes, redis
  <2>2. Held' \subseteq Held
    BY <2>1 DEF Held, Places
  <2>3. ASSUME NEW w \in Held \ Held' PROVE w[3] \in (loading[s] \cup outbox[s] \cup {req[s]}) \ {Nothing}
    <3>1. w[3] \in Request /\ w[3] # Nothing
      BY DEF Held, Places
    <3>2. w[3] \in loading[s] \cup outbox[s] \cup {req[s]}
      BY <2>1 DEF Held, Places
    <3>3. QED
      BY <3>1, <3>2
  <2>4. Lose({Name(r) : r \in (loading[s] \cup outbox[s] \cup {req[s]}) \ {Nothing}})
    BY <1>1 DEF Crash
  <2>5. QED
    BY <2>2, <2>3, <2>4 DEF Lose
<1>2. CASE Abort(s) /\ UNCHANGED <<queue, loading>>
  <2>1. PICK links \in SUBSET {r \in outbox[s] : ~r.again} :
           /\ outbox' = [outbox EXCEPT ![s] = @ \ links]
           /\ Lose({Name(r) : r \in (links \cup {req[s]}) \ {Nothing}})
    BY <1>2 DEF Abort
  <2>2. /\ \A t \in Spiders : pc'[t] = IF t = s THEN "idle" ELSE pc[t]
        /\ \A t \in Spiders : outbox'[t] = IF t = s THEN outbox[t] \ links ELSE outbox[t]
        /\ \A t \in Spiders \ {s} : req'[t] = req[t]
        /\ UNCHANGED <<queue, loading>>
    BY <1>2, <2>1 DEF Abort, Finish, Goto, FrontierTypes
  <2>3. Held' \subseteq Held
    BY <2>2 DEF Held, Places
  <2>4. ASSUME NEW w \in Held \ Held' PROVE w[3] \in (links \cup {req[s]}) \ {Nothing}
    <3>1. w[3] \in Request /\ w[3] # Nothing
      BY DEF Held, Places
    <3>2. w[3] = req[s]
      BY <2>1, <2>2 DEF Held, Places
    <3>3. QED
      BY <3>1, <3>2
  <2>5. QED
    BY <2>1, <2>3, <2>4 DEF Lose
<1>3. QED
  BY <1>1, <1>2

LEMMA HeldElse ==
    ASSUME FrontierTypes, ElseStep
    PROVE  \/ Held' = Held
           \/ \E c \in Crawls, u \in Urls : Feed(c, u)
           \/ \E h \in Handlers : PurgeItem(h)
<1>1. UNCHANGED <<pc, req, outbox, loading>>
  BY SpidersAlone
<1>2. UNCHANGED queue => Held' = Held
  BY <1>1, HeldSame
<1>3. ASSUME NEW c \in Crawls, SetTimeout(c) \/ LoseTimeout(c) \/ ComeDue(c) \/ LapseSeen(c)
      PROVE  UNCHANGED queue
  BY <1>3 DEF SetTimeout, LoseTimeout, ComeDue, LapseSeen, redis
<1>4. ASSUME NEW c \in Crawls, LapsePages(c) \/ Stop(c) \/ Expire(c) PROVE UNCHANGED queue
  BY <1>4 DEF LapsePages, Stop, Expire, redis
<1>5. ASSUME NEW h \in Handlers, Blacklist(h) \/ ScanQueues(h) \/ Answer(h) \/ HandlerCrash(h)
      PROVE  UNCHANGED queue
  BY <1>5 DEF Blacklist, ScanQueues, Answer, HandlerCrash, redis
<1>6. CASE UNCHANGED vars
  BY <1>2, <1>6 DEF vars, redis
<1>7. QED
  BY <1>2, <1>3, <1>4, <1>5, <1>6 DEF ElseStep, HandlerStep

----------------------------------------------------------------------------
\* History only grows.
LEMMA HistoryGrows ==
    ASSUME FrontierTypes, [Next]_vars
    PROVE  settled \subseteq settled' /\ lost \subseteq lost'
<1> DEFINE Grows == settled \subseteq settled' /\ lost \subseteq lost'
<1> USE DEF history, Settle, Lose
<1>1. ASSUME NEW c \in Crawls, (\E u \in Urls : Feed(c, u)) \/ SetTimeout(c) \/ LoseTimeout(c)
      PROVE  Grows
  BY <1>1 DEF Feed, SetTimeout, LoseTimeout
<1>2. ASSUME NEW c \in Crawls, ComeDue(c) \/ LapseSeen(c) \/ LapsePages(c) \/ Stop(c) \/ Expire(c)
      PROVE  Grows
  BY <1>2 DEF ComeDue, LapseSeen, LapsePages, Stop, Expire
<1>3. ASSUME NEW s \in Spiders, NextRequest(s) \/ Parse(s) \/ FailDownload(s) \/ StartEnqueue(s)
      PROVE  Grows
  <2>1. CASE NextRequest(s) \/ Parse(s)
    BY <2>1 DEF NextRequest, Parse
  <2>2. CASE FailDownload(s)
    BY <2>2 DEF FailDownload
  <2>3. CASE StartEnqueue(s)
    BY <2>3 DEF StartEnqueue
  <2>4. QED
    BY <1>3, <2>1, <2>2, <2>3
<1>4. ASSUME NEW s \in Spiders, MarkSeen(s) \/ CheckCounter(s) \/ CreateCounter(s) \/ ReadCounter(s)
      PROVE  Grows
  BY <1>4 DEF MarkSeen, CheckCounter, CreateCounter, ReadCounter, Abort
<1>5. ASSUME NEW s \in Spiders, CountPage(s) \/ CheckBlacklist(s) \/ PushRequest(s)
                                \/ FailEnqueue(s) \/ Crash(s)
      PROVE  Grows
  BY <1>5 DEF CountPage, CheckBlacklist, PushRequest, FailEnqueue, Abort, Crash
<1>6. ASSUME NEW h \in Handlers, HandlerStep(h) \/ HandlerCrash(h)
      PROVE  Grows
  BY <1>6 DEF HandlerStep, Blacklist, ScanQueues, PurgeItem, Answer, HandlerCrash
<1>7. ASSUME UNCHANGED vars PROVE Grows
  BY <1>7 DEF vars
<1>8. QED
  BY <1>1, <1>2, <1>3, <1>4, <1>5, <1>6, <1>7 DEF Next, SpiderStep

\* What is accounted for stays so.
LEMMA AccountedStep ==
    ASSUME FrontierTypes, KeepHistory, [Next]_vars, NEW n, Accounted(n)
    PROVE  Accounted(n)'
<1>1. settled \subseteq settled' /\ lost \subseteq lost'
  BY HistoryGrows
<1>2. ASSUME NEW w, NEW v, Moved(w, v), Name(v[3]) = Name(w[3]) PROVE Accounted(n)'
  BY <1>1, <1>2 DEF Moved, Accounted
<1>3. ASSUME NEW w, Dropped(w), Settle({Name(w[3])}) PROVE Accounted(n)'
  BY <1>1, <1>3 DEF Dropped, Settle, Accounted
<1>4. ASSUME NEW v, Added(v) PROVE Accounted(n)'
  BY <1>1, <1>4 DEF Added, Accounted
<1>5. ASSUME Held' = Held PROVE Accounted(n)'
  BY <1>1, <1>5 DEF Accounted
<1>6. ASSUME NEW s \in Spiders, Crash(s) \/ (Abort(s) /\ UNCHANGED <<queue, loading>>)
      PROVE  Accounted(n)'
  <2>1. Held' \subseteq Held /\ \A w \in Held \ Held' : Name(w[3]) \in lost'
    BY <1>6, HeldLost
  <2>2. QED
    BY <1>1, <2>1 DEF Accounted
<1>7. CASE ElseStep
  <2>1. ASSUME NEW h \in Handlers, PurgeItem(h) PROVE Accounted(n)'
    <3>1. PICK r \in Request : /\ Dropped(InQueue(r)) \/ Held' = Held
                               /\ Settle({Name(r)})
      BY <2>1, HeldPurge
    <3>2. InQueue(r)[3] = r
      BY DEF InQueue
    <3>3. QED
      BY <1>3, <1>5, <3>1, <3>2
  <2>2. QED
    BY <1>4, <1>5, <1>7, <2>1, HeldElse, HeldFeed
<1>8. ASSUME NEW s \in Spiders, SpiderStep(s) \/ FailEnqueue(s) \/ Crash(s) PROVE Accounted(n)'
  <2>1. CASE NextRequest(s)
    <3>1. PICK r \in Request : Moved(InQueue(r), <<"loading", s, r>>)
      BY <2>1, HeldNext
    <3>2. InQueue(r)[3] = <<"loading", s, r>>[3]
      BY DEF InQueue
    <3>3. QED
      BY <1>2, <3>1, <3>2
  <2>2. CASE Parse(s)
    <3>1. PICK r \in Request : Dropped(<<"loading", s, r>>) /\ Settle({Name(r)})
      BY <2>2, HeldParse
    <3>2. <<"loading", s, r>>[3] = r
      OBVIOUS
    <3>3. QED
      BY <1>3, <3>1, <3>2
  <2>3. CASE FailDownload(s)
    <3>1. PICK r \in Request :
              \/ /\ Retries(r) /\ UNCHANGED settled
                 /\ Moved(<<"loading", s, r>>, <<"outbox", s, Retry(r)>>)
              \/ Dropped(<<"loading", s, r>>) /\ Settle({Name(r)})
      BY <2>3, HeldFail
    <3>2. <<"loading", s, r>>[3] = r /\ <<"outbox", s, Retry(r)>>[3] = Retry(r)
      OBVIOUS
    <3>3. Retries(r) => Name(Retry(r)) = Name(r)
      BY NewRequests
    <3>4. QED
      BY <1>2, <1>3, <3>1, <3>2, <3>3
  <2>4. CASE StartEnqueue(s)
    <3>1. Held' = Held \/ \E r \in Request : Moved(<<"outbox", s, r>>, <<"req", s, r>>)
      BY <2>4, HeldStart
    <3>2. \A r \in Request : <<"outbox", s, r>>[3] = <<"req", s, r>>[3]
      OBVIOUS
    <3>3. QED
      BY <1>2, <1>5, <3>1, <3>2
  <2>5. CASE MarkSeen(s)
    BY <1>4, <1>5, <2>5, HeldMark
  <2>6. CASE CheckCounter(s) \/ CreateCounter(s) \/ ReadCounter(s) \/ CountPage(s)
             \/ CheckBlacklist(s)
    <3>1. UNCHANGED <<queue, loading>>
      BY <2>6 DEF CheckCounter, CreateCounter, ReadCounter, CountPage, CheckBlacklist, redis
    <3>2. \/ Held' = Held \/ Abort(s)
          \/ \E r \in Request : Dropped(<<"req", s, r>>) /\ Settle({Name(r)})
      BY <2>6, HeldChecked
    <3>3. \A r \in Request : <<"req", s, r>>[3] = r
      OBVIOUS
    <3>4. QED
      BY <1>3, <1>5, <1>6, <3>1, <3>2, <3>3
  <2>7. CASE PushRequest(s)
    <3>1. PICK r \in Request : Moved(<<"req", s, r>>, InQueue(r))
      BY <2>7, HeldPush
    <3>2. InQueue(r)[3] = <<"req", s, r>>[3]
      BY DEF InQueue
    <3>3. QED
      BY <1>2, <3>1, <3>2
  <2>8. CASE FailEnqueue(s) \/ Crash(s)
    BY <1>6, <2>8 DEF FailEnqueue, redis
  <2>9. QED
    BY <1>8, <2>1, <2>2, <2>3, <2>4, <2>5, <2>6, <2>7, <2>8 DEF SpiderStep
<1>9. QED
  BY <1>7, <1>8, TwoKinds

\* A link is marked as seen when it comes to be held; marks go only with the whole filter.
LEMMA MarksStep ==
    ASSUME FrontierTypes, [Next]_vars, NEW c \in Crawls, NEW u \in seen'[c]
    PROVE  u \in seen[c] \/ \E w \in Held' : Name(w[3]) = <<c, u>>
<1> USE DEF redis
<1>1. CASE UNCHANGED seen
  BY <1>1
<1>2. ASSUME NEW s \in Spiders, SpiderStep(s) \/ FailEnqueue(s) \/ Crash(s)
      PROVE  u \in seen[c] \/ \E w \in Held' : Name(w[3]) = <<c, u>>
  <2>1. CASE MarkSeen(s)
    <3>1. CASE \E r \in Request : /\ seen' = [seen EXCEPT ![r.crawl] = @ \cup {r.url}]
                                  /\ Added(<<"req", s, r>>)
      <4>1. PICK r \in Request : /\ seen' = [seen EXCEPT ![r.crawl] = @ \cup {r.url}]
                                 /\ Added(<<"req", s, r>>)
        BY <3>1
      <4>2. u \in seen[c] \/ Name(r) = <<c, u>>
        BY <4>1 DEF FrontierTypes, Name
      <4>3. <<"req", s, r>> \in Held' /\ <<"req", s, r>>[3] = r
        BY <4>1 DEF Added
      <4>4. QED
        BY <4>2, <4>3
    <3>2. QED
      BY <1>1, <2>1, <3>1, HeldMark
  <2>2. CASE NextRequest(s) \/ Parse(s) \/ FailDownload(s) \/ StartEnqueue(s)
    BY <1>1, <2>2 DEF NextRequest, Parse, FailDownload, StartEnqueue
  <2>3. CASE CheckCounter(s) \/ CreateCounter(s) \/ ReadCounter(s) \/ CountPage(s)
    BY <1>1, <2>3 DEF CheckCounter, CreateCounter, ReadCounter, CountPage
  <2>4. CASE CheckBlacklist(s) \/ PushRequest(s) \/ FailEnqueue(s) \/ Crash(s)
    BY <1>1, <2>4 DEF CheckBlacklist, PushRequest, FailEnqueue, Crash
  <2>5. QED
    BY <1>2, <2>1, <2>2, <2>3, <2>4 DEF SpiderStep
<1>3. ASSUME NEW d \in Crawls, LapseSeen(d) PROVE u \in seen[c]
  BY <1>3 DEF LapseSeen, FrontierTypes
<1>4. ASSUME NEW d \in Crawls, (\E v \in Urls : Feed(d, v)) \/ SetTimeout(d) \/ LoseTimeout(d)
             \/ ComeDue(d)
      PROVE  UNCHANGED seen
  BY <1>4 DEF Feed, SetTimeout, LoseTimeout, ComeDue
<1>5. ASSUME NEW d \in Crawls, LapsePages(d) \/ Stop(d) \/ Expire(d) PROVE UNCHANGED seen
  BY <1>5 DEF LapsePages, Stop, Expire
<1>6. ASSUME NEW h \in Handlers, HandlerStep(h) \/ HandlerCrash(h) PROVE UNCHANGED seen
  BY <1>6 DEF HandlerStep, Blacklist, ScanQueues, PurgeItem, Answer, HandlerCrash
<1>7. CASE UNCHANGED vars
  BY <1>7 DEF vars
<1>8. QED
  BY <1>1, <1>2, <1>3, <1>4, <1>5, <1>6, <1>7 DEF Next

\* A page that is marked as seen is not forgotten: it is settled or still on its way, or a
\* spider that had it in hand died or raised.  (enqueue_request, request_seen.)
THEOREM SeenIsAccounted ==
    ASSUME KeepHistory
    PROVE  Spec => []SeenAccounted
<1>1. Init => FrontierTypes /\ SeenInv
  <2>1. Init => FrontierTypes
    BY FrontierAssumption DEF FrontierAssumption, Init, FrontierTypes, Purges, Absent
  <2>2. Init => SeenInv
    BY DEF Init, SeenInv
  <2>3. QED
    BY <2>1, <2>2
<1>2. FrontierTypes /\ SeenInv /\ [Next]_vars => (FrontierTypes /\ SeenInv)'
  <2> SUFFICES ASSUME FrontierTypes, SeenInv, [Next]_vars PROVE (FrontierTypes /\ SeenInv)'
    OBVIOUS
  <2>1. FrontierTypes'
    BY TypesStep
  <2>2. ASSUME NEW c \in Crawls, NEW u \in seen'[c] PROVE Accounted(<<c, u>>)'
    <3>1. CASE u \in seen[c]
      <4>1. Accounted(<<c, u>>)
        BY <3>1 DEF SeenInv
      <4>2. QED
        BY <4>1, AccountedStep
    <3>2. CASE \E w \in Held' : Name(w[3]) = <<c, u>>
      BY <3>2 DEF Accounted
    <3>3. QED
      BY <2>2, <3>1, <3>2, MarksStep
  <2>3. QED
    BY <2>1, <2>2 DEF SeenInv
<1>3. FrontierTypes /\ SeenInv => SeenAccounted
  <2> SUFFICES ASSUME FrontierTypes, SeenInv, NEW c \in Crawls, NEW u \in seen[c],
                      <<c, u>> \notin settled \cup lost
               PROVE  \E r \in Queued(c) \cup InHand(c) : r.url = u
    BY DEF SeenAccounted
  <2>1. PICK w \in Held : Name(w[3]) = <<c, u>>
    BY DEF SeenInv, Accounted
  <2>2. w[3] \in Request /\ w[3].crawl = c /\ w[3].url = u /\ w[3] # Nothing
    BY <2>1, FrontierAssumption DEF Held, Places, Name, FrontierAssumption
  <2>3. w[3] \in queue \/ \E s \in Spiders : w[3] \in outbox[s] \cup loading[s] \cup {req[s]}
    BY DEF Held
  <2>4. w[3] \in Queued(c) \cup InHand(c)
    BY <2>2, <2>3 DEF Queued, InHand
  <2>5. QED
    BY <2>2, <2>4
<1>4. QED
  BY <1>1, <1>2, <1>3, PTL DEF Spec

----------------------------------------------------------------------------
\* What a finite set may become when some of its members are replaced.
LEMMA Replaced ==
    ASSUME NEW S, NEW B, NEW D, NEW T, IsFiniteSet(S), B \subseteq S, IsFiniteSet(D),
           T \subseteq (S \ B) \cup D
    PROVE  /\ IsFiniteSet(T)
           /\ Cardinality(T) \in Nat /\ Cardinality(S) \in Nat
           /\ Cardinality(B) \in Nat /\ Cardinality(D) \in Nat
           /\ Cardinality(T) + Cardinality(B) <= Cardinality(S) + Cardinality(D)
<1>1. IsFiniteSet(B) /\ IsFiniteSet(S \ B) /\ S \cap B = B
  BY FS_Subset
<1>2. Cardinality(S \ B) = Cardinality(S) - Cardinality(B)
  BY <1>1, FS_Difference
<1>3. /\ IsFiniteSet((S \ B) \cup D)
      /\ Cardinality((S \ B) \cup D)
            = Cardinality(S \ B) + Cardinality(D) - Cardinality((S \ B) \cap D)
  BY <1>1, FS_Union
<1>4. IsFiniteSet((S \ B) \cap D)
  BY <1>1, FS_Subset
<1>5. IsFiniteSet(T) /\ Cardinality(T) <= Cardinality((S \ B) \cup D)
  BY <1>3, FS_Subset
<1>6. /\ Cardinality(T) \in Nat /\ Cardinality(S) \in Nat /\ Cardinality(B) \in Nat
      /\ Cardinality(D) \in Nat /\ Cardinality(S \ B) \in Nat
      /\ Cardinality((S \ B) \cap D) \in Nat
  BY <1>1, <1>4, <1>5, FS_CardinalityType
<1>7. QED
  BY <1>2, <1>3, <1>5, <1>6

\* The tries a request has left from its a-th on.
Block(w, a) == {w} \X (a..MaxRetries)

LEMMA BlockSize ==
    ASSUME NEW w, NEW a \in 0..(MaxRetries + 1)
    PROVE  IsFiniteSet(Block(w, a)) /\ Cardinality(Block(w, a)) = MaxRetries + 1 - a
<1>1. MaxRetries \in Nat /\ a \in Int /\ MaxRetries \in Int
  BY FrontierAssumption DEF FrontierAssumption
<1>2. /\ IsFiniteSet(a..MaxRetries)
      /\ Cardinality(a..MaxRetries) = IF a > MaxRetries THEN 0 ELSE MaxRetries - a + 1
  BY <1>1, FS_Interval
<1>3. IsFiniteSet({w}) /\ Cardinality({w}) = 1
  BY FS_Singleton
<1>4. /\ IsFiniteSet({w} \X (a..MaxRetries))
      /\ Cardinality({w} \X (a..MaxRetries)) = Cardinality({w}) * Cardinality(a..MaxRetries)
  BY <1>2, <1>3, FS_Product
<1>5. Cardinality(a..MaxRetries) = MaxRetries + 1 - a
  BY <1>1, <1>2
<1>6. QED
  BY <1>1, <1>3, <1>4, <1>5 DEF Block

LEMMA FirstType ==
    ASSUME NEW w \in Places
    PROVE  First(w) \in 0..(MaxRetries + 1) /\ (w[1] # "loading" => First(w) \in 0..MaxRetries)
BY FrontierAssumption DEF FrontierAssumption, First, Places, Request

\* A page's tries when nothing new is held of it.
LEMMA TriesFewer ==
    ASSUME NEW n, IsFiniteSet(Tries(n)), \A w \in Held' : Name(w[3]) = n => w \in Held
    PROVE  /\ IsFiniteSet(Tries(n)')
           /\ Cardinality(Tries(n)') \in Nat /\ Cardinality(Tries(n)) \in Nat
           /\ Cardinality(Tries(n)') <= Cardinality(Tries(n))
<1>1. Tries(n)' \subseteq Tries(n)
  BY DEF Tries
<1>2. QED
  BY <1>1, Fewer, FS_Subset

\* The tries go with the request.
LEMMA TriesMoved ==
    ASSUME NEW n, IsFiniteSet(Tries(n)), NEW w, NEW v, Moved(w, v),
           Name(w[3]) = n, Name(v[3]) = n
    PROVE  /\ IsFiniteSet(Tries(n)')
           /\ Cardinality(Tries(n)') \in Nat /\ Cardinality(Tries(n)) \in Nat
           /\ Cardinality(Tries(n)') + First(v) <= Cardinality(Tries(n)) + First(w)
<1>1. w \in Held /\ w \in Places /\ v \in Places /\ Held' = (Held \ {w}) \cup {v}
  BY DEF Moved, Held
<1>2. First(w) \in 0..(MaxRetries + 1) /\ First(v) \in 0..(MaxRetries + 1)
  BY <1>1, FirstType
<1>3. /\ IsFiniteSet(Block(w, First(w))) /\ Cardinality(Block(w, First(w))) = MaxRetries + 1 - First(w)
      /\ IsFiniteSet(Block(v, First(v))) /\ Cardinality(Block(v, First(v))) = MaxRetries + 1 - First(v)
  BY <1>2, BlockSize
<1>4. Block(w, First(w)) \subseteq Tries(n)
  BY <1>1, <1>2 DEF Block, Tries
<1>5. Tries(n)' \subseteq (Tries(n) \ Block(w, First(w))) \cup Block(v, First(v))
  <2>1. ASSUME NEW t \in Tries(n)'
        PROVE  t \in (Tries(n) \ Block(w, First(w))) \cup Block(v, First(v))
    <3>1. t \in Held' \X (0..MaxRetries) /\ Name(t[1][3]) = n /\ t[2] >= First(t[1])
      BY DEF Tries
    <3>2. CASE t[1] = v
      BY <1>2, <3>1, <3>2, FrontierAssumption DEF Block, FrontierAssumption
    <3>3. CASE t[1] # v
      BY <1>1, <3>1, <3>3 DEF Block, Tries
    <3>4. QED
      BY <3>2, <3>3
  <2>2. QED
    BY <2>1
<1>6. /\ IsFiniteSet(Tries(n)')
      /\ Cardinality(Tries(n)') \in Nat /\ Cardinality(Tries(n)) \in Nat
      /\ Cardinality(Tries(n)') + Cardinality(Block(w, First(w)))
            <= Cardinality(Tries(n)) + Cardinality(Block(v, First(v)))
  BY <1>3, <1>4, <1>5, Replaced
<1>7. MaxRetries \in Nat
  BY FrontierAssumption DEF FrontierAssumption
<1>8. QED
  BY <1>2, <1>3, <1>6, <1>7

\* A request that comes in has at most all tries.
LEMMA TriesAdded ==
    ASSUME NEW n, IsFiniteSet(Tries(n)), NEW v, Added(v)
    PROVE  /\ IsFiniteSet(Tries(n)')
           /\ Cardinality(Tries(n)') \in Nat /\ Cardinality(Tries(n)) \in Nat
           /\ Cardinality(Tries(n)') <= Cardinality(Tries(n)) + (MaxRetries + 1)
<1>1. MaxRetries \in Nat
  BY FrontierAssumption DEF FrontierAssumption
<1>2. IsFiniteSet(Block(v, 0)) /\ Cardinality(Block(v, 0)) = MaxRetries + 1
  BY <1>1, BlockSize
<1>3. Tries(n)' \subseteq (Tries(n) \ {}) \cup Block(v, 0)
  BY DEF Added, Tries, Block
<1>4. /\ IsFiniteSet(Tries(n)')
      /\ Cardinality(Tries(n)') \in Nat /\ Cardinality(Tries(n)) \in Nat
      /\ Cardinality(Tries(n)') + Cardinality({}) <= Cardinality(Tries(n)) + Cardinality(Block(v, 0))
  BY <1>2, <1>3, Replaced
<1>5. QED
  BY <1>1, <1>2, <1>4, FS_EmptySet

\* What is allowed for a page never becomes less; a feed of it and a first sighting
\* each allow one round of tries more.
LEMMA AllowedType ==
    ASSUME FrontierTypes, NEW c \in Crawls, NEW u \in Urls
    PROVE  Allowed(c, u) \in Nat /\ (MaxRetries + 1) * Allowed(c, u) \in Nat
           /\ visits[<<c, u>>] \in Nat /\ MaxRetries \in Nat
<1>1. seeds[<<c, u>>] \in Nat /\ seenLapses \in Nat /\ visits[<<c, u>>] \in Nat /\ MaxRetries \in Nat
  BY FrontierAssumption DEF FrontierAssumption, FrontierTypes
<1>2. Allowed(c, u) \in Nat
  BY <1>1 DEF Allowed
<1>3. QED
  BY <1>1, <1>2, Scaled

LEMMA AllowedGrows ==
    ASSUME FrontierTypes, KeepHistory, [Next]_vars, NEW c \in Crawls, NEW u \in Urls
    PROVE  Allowed(c, u)' \in Nat /\ Allowed(c, u) <= Allowed(c, u)'
<1> DEFINE More == /\ seeds'[<<c, u>>] \in {seeds[<<c, u>>], seeds[<<c, u>>] + 1}
                   /\ \/ seenLapses' = seenLapses /\ (u \in seen[c] => u \in seen'[c])
                      \/ seenLapses' = seenLapses + 1
<1> USE DEF redis, history
<1>1. ASSUME NEW d \in Crawls, NEW v \in Urls, Feed(d, v) PROVE More
  BY <1>1 DEF Feed, Noted, FrontierTypes
<1>2. ASSUME NEW d \in Crawls, SetTimeout(d) \/ LoseTimeout(d) \/ ComeDue(d) PROVE More
  BY <1>2 DEF SetTimeout, LoseTimeout, ComeDue
<1>3. ASSUME NEW d \in Crawls, LapseSeen(d) \/ LapsePages(d) \/ Stop(d) \/ Expire(d) PROVE More
  BY <1>3 DEF LapseSeen, LapsePages, Stop, Expire
<1>4. ASSUME NEW s \in Spiders, NextRequest(s) \/ Parse(s) \/ FailDownload(s) \/ StartEnqueue(s)
      PROVE  More
  BY <1>4 DEF NextRequest, Parse, FailDownload, StartEnqueue
<1>5. ASSUME NEW s \in Spiders, MarkSeen(s) PROVE More
  BY <1>5 DEF MarkSeen, FrontierTypes
<1>6. ASSUME NEW s \in Spiders, CheckCounter(s) \/ CreateCounter(s) \/ ReadCounter(s) \/ CountPage(s)
      PROVE  More
  BY <1>6 DEF CheckCounter, CreateCounter, ReadCounter, CountPage
<1>7. ASSUME NEW s \in Spiders,
             CheckBlacklist(s) \/ PushRequest(s) \/ FailEnqueue(s) \/ Crash(s)
      PROVE  More
  BY <1>7 DEF CheckBlacklist, PushRequest, FailEnqueue, Crash
<1>8. ASSUME NEW h \in Handlers, HandlerStep(h) \/ HandlerCrash(h) PROVE More
  BY <1>8 DEF HandlerStep, Blacklist, ScanQueues, PurgeItem, Answer, HandlerCrash
<1>9. ASSUME UNCHANGED vars PROVE More
  BY <1>9 DEF vars
<1> HIDE DEF More
<1>10. More
  BY <1>1, <1>2, <1>3, <1>4, <1>5, <1>6, <1>7, <1>8, <1>9 DEF Next, SpiderStep
<1>11. seeds[<<c, u>>] \in Nat /\ seenLapses \in Nat
  BY DEF FrontierTypes
<1>12. QED
  BY <1>10, <1>11 DEF More, Allowed

\* Downloads are started by next_request alone.
LEMMA VisitsAlone ==
    ASSUME FrontierTypes, [Next]_vars, \A s \in Spiders : ~NextRequest(s)
    PROVE  UNCHANGED visits
<1>1. ASSUME NEW s \in Spiders, Parse(s) \/ FailDownload(s) \/ StartEnqueue(s) \/ MarkSeen(s)
      PROVE  UNCHANGED visits
  BY <1>1 DEF Parse, FailDownload, StartEnqueue, MarkSeen, history
<1>2. ASSUME NEW s \in Spiders, CheckCounter(s) \/ CreateCounter(s) \/ ReadCounter(s) \/ CountPage(s)
      PROVE  UNCHANGED visits
  BY <1>2 DEF CheckCounter, CreateCounter, ReadCounter, CountPage, history
<1>3. ASSUME NEW s \in Spiders,
             CheckBlacklist(s) \/ PushRequest(s) \/ FailEnqueue(s) \/ Crash(s)
      PROVE  UNCHANGED visits
  BY <1>3 DEF CheckBlacklist, PushRequest, FailEnqueue, Crash
<1>4. QED
  BY <1>1, <1>2, <1>3, SpidersAlone, TwoKinds DEF SpiderStep

LEMMA VisitStep ==
    ASSUME FrontierTypes, FrontierTypes', VisitInv, KeepHistory, [Next]_vars,
           NEW c \in Crawls, NEW u \in Urls
    PROVE  /\ IsFiniteSet(Tries(<<c, u>>)')
           /\ VisitSum(c, u)' <= (MaxRetries + 1) * Allowed(c, u)'
<1> DEFINE n == <<c, u>>
           Good == /\ IsFiniteSet(Tries(n)')
                   /\ VisitSum(c, u)' <= (MaxRetries + 1) * Allowed(c, u)'
<1>1. /\ IsFiniteSet(Tries(n)) /\ visits[n] \in Nat /\ MaxRetries \in Nat
      /\ Allowed(c, u) \in Nat /\ (MaxRetries + 1) * Allowed(c, u) \in Nat
      /\ visits[n] + Cardinality(Tries(n)) <= (MaxRetries + 1) * Allowed(c, u)
  BY AllowedType DEF VisitInv, VisitSum
<1>2. /\ Allowed(c, u)' \in Nat /\ Allowed(c, u) <= Allowed(c, u)'
      /\ (MaxRetries + 1) * Allowed(c, u)' \in Nat
      /\ (MaxRetries + 1) * Allowed(c, u) <= (MaxRetries + 1) * Allowed(c, u)'
      /\ Allowed(c, u) + 1 <= Allowed(c, u)' =>
            (MaxRetries + 1) * Allowed(c, u) + (MaxRetries + 1) <= (MaxRetries + 1) * Allowed(c, u)'
  BY <1>1, AllowedGrows, Scaled
<1>3. ASSUME NEW d \in Nat, d <= MaxRetries + 1, d > 0 => Allowed(c, u) + 1 <= Allowed(c, u)',
             IsFiniteSet(Tries(n)'), Cardinality(Tries(n)') \in Nat, Cardinality(Tries(n)) \in Nat,
             visits'[n] + Cardinality(Tries(n)') <= visits[n] + Cardinality(Tries(n)) + d,
             visits'[n] \in Nat
      PROVE  Good
  BY <1>1, <1>2, <1>3 DEF VisitSum
<1>4. visits'[n] \in Nat
  BY DEF FrontierTypes
<1> HIDE DEF n, Good
<1>5. ASSUME UNCHANGED visits, \A w \in Held' : Name(w[3]) = n => w \in Held PROVE Good
  <2>1. /\ IsFiniteSet(Tries(n)')
        /\ Cardinality(Tries(n)') \in Nat /\ Cardinality(Tries(n)) \in Nat
        /\ Cardinality(Tries(n)') <= Cardinality(Tries(n))
    BY <1>1, <1>5, TriesFewer
  <2>2. QED
    BY <1>1, <1>3, <1>5, <2>1
<1>6. ASSUME UNCHANGED visits, NEW w, NEW v, Moved(w, v), Name(v[3]) = Name(w[3]),
             First(v) = First(w)
      PROVE  Good
  <2>1. CASE Name(w[3]) = n
    <3>1. /\ IsFiniteSet(Tries(n)')
          /\ Cardinality(Tries(n)') \in Nat /\ Cardinality(Tries(n)) \in Nat
          /\ Cardinality(Tries(n)') + First(v) <= Cardinality(Tries(n)) + First(w)
      BY <1>1, <1>6, <2>1, TriesMoved
    <3>2. First(w) \in 0..(MaxRetries + 1)
      BY <1>6, FirstType DEF Moved, Held
    <3>3. QED
      BY <1>1, <1>3, <1>6, <3>1, <3>2
  <2>2. CASE Name(w[3]) # n
    BY <1>5, <1>6, <2>2 DEF Moved
  <2>3. QED
    BY <2>1, <2>2
<1>7. ASSUME UNCHANGED visits, NEW v, Added(v),
             Name(v[3]) = n => Allowed(c, u) + 1 <= Allowed(c, u)'
      PROVE  Good
  <2>1. CASE Name(v[3]) = n
    <3>1. /\ IsFiniteSet(Tries(n)')
          /\ Cardinality(Tries(n)') \in Nat /\ Cardinality(Tries(n)) \in Nat
          /\ Cardinality(Tries(n)') <= Cardinality(Tries(n)) + (MaxRetries + 1)
      BY <1>1, <1>7, TriesAdded
    <3>2. MaxRetries + 1 \in Nat
      BY <1>1
    <3>3. QED
      BY <1>1, <1>3, <1>7, <2>1, <3>1, <3>2
  <2>2. CASE Name(v[3]) # n
    BY <1>5, <1>7, <2>2 DEF Added
  <2>3. QED
    BY <2>1, <2>2
<1>8. ASSUME UNCHANGED visits, NEW w, Dropped(w) PROVE Good
  BY <1>5, <1>8 DEF Dropped
<1>9. CASE ElseStep
  <2>1. UNCHANGED visits
    BY <1>9, SpidersAlone
  <2>2. ASSUME NEW d \in Crawls, NEW v \in Urls, Feed(d, v) PROVE Good
    <3>1. Added(InQueue(Seed(d, v))) /\ InQueue(Seed(d, v))[3] = Seed(d, v)
      BY <2>2, HeldFeed DEF InQueue
    <3>2. Name(Seed(d, v)) = <<d, v>>
      BY SeedIsRequest
    <3>3. ASSUME <<d, v>> = n PROVE Allowed(c, u) + 1 <= Allowed(c, u)'
      <4>1. seeds' = [seeds EXCEPT ![n] = @ + 1] /\ UNCHANGED <<seen, seenLapses>>
        BY <2>2, <3>3 DEF Feed, Noted
      <4>2. seeds'[<<c, u>>] = seeds[<<c, u>>] + 1 /\ seeds[<<c, u>>] \in Nat /\ seenLapses \in Nat
        BY <4>1 DEF FrontierTypes, n
      <4>3. QED
        BY <4>1, <4>2 DEF Allowed
    <3>4. QED
      BY <1>7, <2>1, <3>1, <3>2, <3>3
  <2>3. ASSUME NEW h \in Handlers, PurgeItem(h) PROVE Good
    <3>1. PICK r \in Request : Dropped(InQueue(r)) \/ Held' = Held
      BY <2>3, HeldPurge
    <3>2. QED
      BY <1>5, <1>8, <2>1, <3>1
  <2>4. Held' = Held => Good
    BY <1>5, <2>1
  <2>5. QED
    BY <1>9, <2>2, <2>3, <2>4, HeldElse DEF n, Good
<1>10. ASSUME NEW s \in Spiders, NextRequest(s) PROVE Good
  <2>1. PICK r \in Request : /\ Moved(InQueue(r), <<"loading", s, r>>)
                             /\ visits' = Noted(visits, Name(r))
    BY <1>10, HeldNext
  <2>2. /\ InQueue(r)[3] = r /\ <<"loading", s, r>>[3] = r
        /\ First(InQueue(r)) = r.tries /\ First(<<"loading", s, r>>) = r.tries + 1
        /\ r.tries \in Nat
    BY FrontierAssumption DEF FrontierAssumption, InQueue, First, Request
  <2>3. CASE Name(r) = n
    <3>1. /\ IsFiniteSet(Tries(n)')
          /\ Cardinality(Tries(n)') \in Nat /\ Cardinality(Tries(n)) \in Nat
          /\ Cardinality(Tries(n)') + First(<<"loading", s, r>>)
                <= Cardinality(Tries(n)) + First(InQueue(r))
      BY <1>1, <2>1, <2>2, <2>3, TriesMoved
    <3>2. visits'[n] = visits[n] + 1
      BY <2>1, <2>3 DEF Noted, n, FrontierTypes
    <3>3. QED
      BY <1>1, <1>3, <1>4, <2>2, <3>1, <3>2
  <2>4. CASE Name(r) # n
    <3>1. /\ IsFiniteSet(Tries(n)')
          /\ Cardinality(Tries(n)') \in Nat /\ Cardinality(Tries(n)) \in Nat
          /\ Cardinality(Tries(n)') <= Cardinality(Tries(n))
      BY <1>1, <2>1, <2>2, <2>4, TriesFewer DEF Moved
    <3>2. visits'[n] = visits[n]
      BY <2>1, <2>4 DEF Noted, n, FrontierTypes
    <3>3. visits'[n] + Cardinality(Tries(n)') <= visits[n] + Cardinality(Tries(n)) + 0
      BY <1>1, <3>1, <3>2
    <3>4. 0 \in Nat /\ 0 <= MaxRetries + 1 /\ ~(0 > 0)
      BY <1>1
    <3>5. QED
      BY <1>3, <1>4, <3>1, <3>3, <3>4
  <2>5. QED
    BY <2>3, <2>4
<1>11. ASSUME NEW s \in Spiders, SpiderStep(s) \/ FailEnqueue(s) \/ Crash(s), UNCHANGED visits,
              ~NextRequest(s)
       PROVE  Good
  <2>1. CASE Parse(s)
    <3>1. PICK r \in Request : Dropped(<<"loading", s, r>>)
      BY <2>1, HeldParse
    <3>2. QED
      BY <1>8, <1>11, <3>1
  <2>2. CASE FailDownload(s)
    <3>1. PICK r \in Request :
              \/ Retries(r) /\ Moved(<<"loading", s, r>>, <<"outbox", s, Retry(r)>>)
              \/ Dropped(<<"loading", s, r>>)
      BY <2>2, HeldFail
    <3>2. /\ <<"loading", s, r>>[3] = r /\ <<"outbox", s, Retry(r)>>[3] = Retry(r)
          /\ First(<<"loading", s, r>>) = r.tries + 1
          /\ First(<<"outbox", s, Retry(r)>>) = Retry(r).tries
      BY DEF First
    <3>3. Retries(r) => Name(Retry(r)) = Name(r) /\ Retry(r).tries = r.tries + 1
      BY NewRequests
    <3>4. QED
      BY <1>6, <1>8, <1>11, <3>1, <3>2, <3>3
  <2>3. CASE StartEnqueue(s)
    <3>1. Held' = Held \/ \E r \in Request : Moved(<<"outbox", s, r>>, <<"req", s, r>>)
      BY <2>3, HeldStart
    <3>2. \A r \in Request : /\ <<"outbox", s, r>>[3] = <<"req", s, r>>[3]
                             /\ First(<<"outbox", s, r>>) = First(<<"req", s, r>>)
      BY DEF First
    <3>3. QED
      BY <1>5, <1>6, <1>11, <3>1, <3>2
  <2>4. CASE MarkSeen(s)
    <3>1. CASE Held' = Held
      BY <1>5, <1>11, <3>1
    <3>2. CASE \E r \in Request : /\ r.url \notin seen[r.crawl]
                                  /\ seen' = [seen EXCEPT ![r.crawl] = @ \cup {r.url}]
                                  /\ Added(<<"req", s, r>>)
      <4>1. PICK r \in Request : /\ r.url \notin seen[r.crawl]
                                 /\ seen' = [seen EXCEPT ![r.crawl] = @ \cup {r.url}]
                                 /\ Added(<<"req", s, r>>)
        BY <3>2
      <4>2. <<"req", s, r>>[3] = r
        OBVIOUS
      <4>3. ASSUME Name(r) = n PROVE Allowed(c, u) + 1 <= Allowed(c, u)'
        <5>1. r.crawl = c /\ r.url = u
          BY <4>3 DEF Name, n
        <5>2. u \notin seen[c] /\ u \in seen'[c] /\ UNCHANGED <<seeds, seenLapses>>
          BY <2>4, <4>1, <5>1 DEF FrontierTypes, MarkSeen, history
        <5>3. seeds[<<c, u>>] \in Nat /\ seenLapses \in Nat
          BY DEF FrontierTypes
        <5>4. QED
          BY <5>2, <5>3 DEF Allowed
      <4>4. QED
        BY <1>7, <1>11, <4>1, <4>2, <4>3
    <3>3. QED
      BY <2>4, <3>1, <3>2, HeldMark
  <2>5. CASE CheckCounter(s) \/ CreateCounter(s) \/ ReadCounter(s) \/ CountPage(s)
             \/ CheckBlacklist(s)
    <3>1. UNCHANGED <<queue, loading>>
      BY <2>5 DEF CheckCounter, CreateCounter, ReadCounter, CountPage, CheckBlacklist, redis
    <3>2. Held' = Held \/ Abort(s) \/ \E r \in Request : Dropped(<<"req", s, r>>)
      BY <2>5, HeldChecked
    <3>3. Abort(s) => Held' \subseteq Held
      BY <3>1, HeldLost
    <3>4. QED
      BY <1>5, <1>8, <1>11, <3>2, <3>3
  <2>6. CASE PushRequest(s)
    <3>1. PICK r \in Request : Moved(<<"req", s, r>>, InQueue(r))
      BY <2>6, HeldPush
    <3>2. InQueue(r)[3] = <<"req", s, r>>[3] /\ First(InQueue(r)) = First(<<"req", s, r>>)
      BY DEF InQueue, First
    <3>3. QED
      BY <1>6, <1>11, <3>1, <3>2
  <2>7. CASE FailEnqueue(s) \/ Crash(s)
    <3>1. Held' \subseteq Held
      BY <2>7, HeldLost DEF FailEnqueue, redis
    <3>2. QED
      BY <1>5, <1>11, <3>1
  <2>8. QED
    BY <1>11, <2>1, <2>2, <2>3, <2>4, <2>5, <2>6, <2>7 DEF SpiderStep
<1>12. Good
  <2>1. CASE \E s \in Spiders : NextRequest(s)
    BY <1>10, <2>1
  <2>2. CASE \A s \in Spiders : ~NextRequest(s)
    <3>1. UNCHANGED visits
      BY <2>2, VisitsAlone
    <3>2. ElseStep => Good
      BY <1>9 DEF Good, n
    <3>3. QED
      BY <1>11, <2>2, <3>1, <3>2, TwoKinds
  <2>3. QED
    BY <2>1, <2>2
<1>13. QED
  BY <1>12 DEF Good, n

\* However often the filter lapses, handlers purge and spiders crash or raise, a page is downloaded
\* at most MaxRetries + 1 times for each feed and each first sighting of it.
\* (request_seen, RedisRetryMiddleware and next_request.)
THEOREM VisitsAreBounded ==
    ASSUME KeepHistory
    PROVE  Spec => []VisitBound
<1>1. Init => FrontierTypes /\ VisitInv
  <2>1. Init => FrontierTypes
    BY FrontierAssumption DEF FrontierAssumption, Init, FrontierTypes, Purges, Absent
  <2>2. ASSUME Init, NEW c \in Crawls, NEW u \in Urls
        PROVE  /\ IsFiniteSet(Tries(<<c, u>>))
               /\ VisitSum(c, u) <= (MaxRetries + 1) * Allowed(c, u)
    <3>1. Held = {}
      BY <2>2 DEF Init, Held
    <3>2. Tries(<<c, u>>) = {}
      BY <3>1 DEF Tries
    <3>3. visits[<<c, u>>] = 0
      BY <2>2 DEF Init
    <3>4. (MaxRetries + 1) * Allowed(c, u) \in Nat
      BY <2>1, <2>2, AllowedType
    <3>5. IsFiniteSet(Tries(<<c, u>>)) /\ Cardinality(Tries(<<c, u>>)) = 0
      BY <3>2, FS_EmptySet
    <3>6. QED
      BY <3>3, <3>4, <3>5 DEF VisitSum
  <2>3. QED
    BY <2>1, <2>2 DEF VisitInv
<1>2. FrontierTypes /\ VisitInv /\ [Next]_vars => (FrontierTypes /\ VisitInv)'
  BY TypesStep, VisitStep DEF VisitInv
<1>3. FrontierTypes /\ VisitInv => VisitBound
  <2> SUFFICES ASSUME FrontierTypes, VisitInv, NEW c \in Crawls, NEW u \in Urls
               PROVE  visits[<<c, u>>] <= (seeds[<<c, u>>] + 1 + seenLapses) * (MaxRetries + 1)
    BY DEF VisitBound
  <2> DEFINE most == seeds[<<c, u>>] + 1 + seenLapses
  <2>1. seeds[<<c, u>>] \in Nat /\ seenLapses \in Nat /\ Allowed(c, u) \in Nat
        /\ visits[<<c, u>>] \in Nat /\ MaxRetries \in Nat
    BY AllowedType DEF FrontierTypes
  <2>2. Allowed(c, u) <= most /\ most \in Nat
    BY <2>1 DEF Allowed
  <2> HIDE DEF most
  <2>3. (MaxRetries + 1) * Allowed(c, u) <= (MaxRetries + 1) * most
        /\ (MaxRetries + 1) * most \in Nat /\ (MaxRetries + 1) * Allowed(c, u) \in Nat
    BY <2>1, <2>2, Scaled
  <2>4. (MaxRetries + 1) * most = most * (MaxRetries + 1)
    BY <2>1, <2>2
  <2>5. Cardinality(Tries(<<c, u>>)) \in Nat
    BY FS_CardinalityType DEF VisitInv
  <2>6. visits[<<c, u>>] + Cardinality(Tries(<<c, u>>)) <= (MaxRetries + 1) * Allowed(c, u)
    BY DEF VisitInv, VisitSum
  <2>7. visits[<<c, u>>] <= most * (MaxRetries + 1)
    BY <2>1, <2>3, <2>4, <2>5, <2>6
  <2>8. QED
    BY <2>7 DEF most
<1>4. QED
  BY <1>1, <1>2, <1>3, PTL DEF Spec
=============================================================================
