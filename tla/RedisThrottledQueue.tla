------------------------ MODULE RedisThrottledQueue ------------------------
(***************************************************************************)
(* The throttled queue of utils/scutils/redis_throttled_queue.py: several  *)
(* spider processes pop one Redis queue through a rolling window (a sorted *)
(* set of time stamps) and, when moderated, through the time of the last   *)
(* pop.  Both keys are guarded by Redis' optimistic lock, WATCH ... EXEC.  *)
(*                                                                         *)
(* The grain is one action per Redis command, together with the local code *)
(* that runs between its reply and the next command; a client that stalls  *)
(* there for any time is a client that takes no step while Tick runs.      *)
(* All processes read one clock, and the exchange of an EXEC with the      *)
(* server takes at least one unit of it.                                   *)
(***************************************************************************)
EXTENDS Integers, FiniteSets

CONSTANTS
    Clients,      \* the processes that pop, each with its own queue object
    Window,       \* self.window, in clock units
    Limit,        \* self.limit
    Moderate,     \* the constructor's moderate
    Elastic,      \* the constructor's elastic
    Buffer,       \* the constructor's elastic_buffer
    MaxTime,      \* bound: the clock stops ticking here
    MaxQueue,     \* bound: the number of waiting items
    MaxClears,    \* bound: the calls of clear() (a spider closes, SCHEDULER_PERSIST off)
    MaxCrashes    \* bound: the number of process restarts

ASSUME ThrottleAssumption ==
    /\ IsFiniteSet(Clients)
    /\ Window \in Nat \ {0}
    /\ Limit \in Nat \ {0}
    /\ Buffer \in Nat
    /\ Moderate \in BOOLEAN /\ Elastic \in BOOLEAN
    /\ MaxTime \in Nat /\ MaxQueue \in Nat /\ MaxClears \in Nat /\ MaxCrashes \in Nat

VARIABLES
    now,          \* the clock
    hits,         \* window_key: the sorted set of stamps {now: now}
    modTime,      \* moderate_key; 0 when the key does not exist
    qlen,         \* the number of items in the wrapped queue
    pc,           \* the command each client is about to send
    clk,          \* the last time each client read, `expires' + window or curr_time
    stamp,        \* `now' of test_hits
    kick,         \* elastic_kick_in
    cleanW,       \* clients whose WATCH of window_key is intact
    cleanM,       \* clients whose WATCH of moderate_key is intact
    grants,       \* history: every stamp ever entered in the window
    pops,         \* history: every call of queue.pop
    clears,       \* history: the number of calls of clear()
    crashes       \* history: the number of restarts

keys == <<hits, modTime, qlen>>
locals == <<pc, clk, stamp, kick>>
watches == <<cleanW, cleanM>>
history == <<grants, pops, clears, crashes>>
vars == <<now, keys, locals, watches, history>>

Steps == {"idle", "trim", "watchM", "getM", "elastic", "watchW", "count",
          "execW", "execM", "pop", "clearM", "clearQ"}

PopRecord == [client: Clients, stamp: Nat, at: Nat, got: BOOLEAN]

TypeOK ==
    /\ now \in Nat
    /\ hits \in SUBSET Nat
    /\ modTime \in Nat
    /\ qlen \in 0..MaxQueue
    /\ pc \in [Clients -> Steps]
    /\ clk \in [Clients -> Nat]
    /\ stamp \in [Clients -> Nat]
    /\ kick \in [Clients -> 0..Limit]
    /\ cleanW \in SUBSET Clients
    /\ cleanM \in SUBSET Clients
    /\ grants \in SUBSET Nat
    /\ pops \in SUBSET PopRecord
    /\ clears \in 0..MaxClears
    /\ crashes \in 0..MaxCrashes

----------------------------------------------------------------------------
(***************************************************************************)
(* Local decisions of the code.  A name that ends the way a slip would be  *)
(* described (AtOnce, On, Early, ByNow, Anyway, Unwatched, IfAbsent) is a   *)
(* mistaken variant of the definition below it; nothing but a mutation     *)
(* uses it.                                                                *)
(***************************************************************************)
\* Moderation is useless when only one item is taken per window.
Moderated == Moderate /\ Limit # 1

\* Less than moderation == window / limit since the last moderated pop.  A key
\* that does not exist reads as 0.0, which is never recent.
TooSoon(c) == modTime # 0 /\ (clk[c] - modTime) * Limit < Window

\* check_elastic: its counter first, and only then the size of the window.
EarnedAtOnce(c) == Elastic
Earned(c) == Elastic /\ kick[c] = Limit
FarBehind == Limit - Cardinality(hits) > Buffer

\* pop: elastic_kick_in stops at the limit.
KickedOn(k) == k + 1
Kicked(k) == IF k < Limit THEN k + 1 ELSE k

\* allowed(): what zremrangebyscore removes.
ExpiredEarly(c) == {h \in hits : h <= clk[c] - Window + 1}
ExpiredByNow(c) == {h \in hits : h <= clk[c]}
Expired(c) == {h \in hits : h <= clk[c] - Window}

\* The watches that survive it: removing nothing leaves the key untouched.
UnmovedAnyway(removed) == {}
Unmoved(removed) == IF removed = {} THEN cleanW ELSE {}

\* test_hits: the window has room.
Room == Cardinality(hits) < Limit

\* test_hits and allowed(): no WatchError for this EXEC.
WindowUnwatched(c) == TRUE
WindowUntouched(c) == c \in cleanW
ModerateUnwatched(c) == TRUE
ModerateIfAbsent(c) == modTime = 0
ModerateUntouched(c) == c \in cleanM

Goto(c, step) == pc' = [pc EXCEPT ![c] = step]

\* A call returns: its locals die and leaving the pipelines drops their watches.
Return(c) ==
    /\ Goto(c, "idle")
    /\ clk' = [clk EXCEPT ![c] = 0]
    /\ stamp' = [stamp EXCEPT ![c] = 0]
    /\ cleanW' = cleanW \ {c}
    /\ cleanM' = cleanM \ {c}

Init ==
    /\ now = Window
    /\ hits = {}
    /\ modTime = 0
    /\ qlen = 0
    /\ pc = [c \in Clients |-> "idle"]
    /\ clk = [c \in Clients |-> 0]
    /\ stamp = [c \in Clients |-> 0]
    /\ kick = [c \in Clients |-> 0]
    /\ cleanW = {}
    /\ cleanM = {}
    /\ grants = {}
    /\ pops = {}
    /\ clears = 0
    /\ crashes = 0

----------------------------------------------------------------------------
\* allowed(): the clock is read for `expires'.
StartPop(c) ==
    /\ pc[c] = "idle"
    /\ Goto(c, "trim")
    /\ clk' = [clk EXCEPT ![c] = now]
    /\ UNCHANGED <<now, keys, stamp, kick, watches, history>>

\* ZREMRANGEBYSCORE: it touches the key only when it removes something.
TrimWindow(c) ==
    /\ pc[c] = "trim"
    /\ hits' = hits \ Expired(c)
    /\ cleanW' = Unmoved(Expired(c))
    /\ Goto(c, IF Moderated THEN "watchM" ELSE "watchW")
    /\ UNCHANGED <<now, modTime, qlen, clk, stamp, kick, cleanM, history>>

\* WATCH moderate_key; then curr_time is read.
WatchModerate(c) ==
    /\ pc[c] = "watchM"
    /\ cleanM' = cleanM \cup {c}
    /\ clk' = [clk EXCEPT ![c] = now]
    /\ Goto(c, "getM")
    /\ UNCHANGED <<now, keys, stamp, kick, cleanW, history>>

\* GET moderate_key and is_moderated.
CheckModeration(c) ==
    /\ pc[c] = "getM"
    /\ \/ /\ ~TooSoon(c)
          /\ Goto(c, "watchW")
          /\ UNCHANGED <<clk, stamp, watches>>
       \/ /\ TooSoon(c)
          /\ Earned(c)
          /\ Goto(c, "elastic")
          /\ UNCHANGED <<clk, stamp, watches>>
       \/ /\ TooSoon(c)
          /\ ~Earned(c)
          /\ Return(c)
    /\ UNCHANGED <<now, keys, kick, history>>

\* check_elastic: ZCARD.
CheckElastic(c) ==
    /\ pc[c] = "elastic"
    /\ \/ /\ FarBehind
          /\ Goto(c, "watchW")
          /\ UNCHANGED <<clk, stamp, watches>>
       \/ /\ ~FarBehind
          /\ Return(c)
    /\ UNCHANGED <<now, keys, kick, history>>

\* test_hits: WATCH window_key.
WatchWindow(c) ==
    /\ pc[c] = "watchW"
    /\ cleanW' = cleanW \cup {c}
    /\ Goto(c, "count")
    /\ UNCHANGED <<now, keys, clk, stamp, kick, cleanM, history>>

\* test_hits: ZCARD; under the limit the clock is read for the stamp.
CountHits(c) ==
    /\ pc[c] = "count"
    /\ \/ /\ Room
          /\ stamp' = [stamp EXCEPT ![c] = now]
          /\ Goto(c, "execW")
          /\ UNCHANGED <<clk, watches>>
       \/ /\ ~Room
          /\ Return(c)
    /\ UNCHANGED <<now, keys, kick, history>>

\* test_hits: MULTI, ZADD, EXPIRE, EXEC; WatchError when the window was touched.
ExecHit(c) ==
    /\ pc[c] = "execW"
    /\ \/ /\ WindowUntouched(c)
          /\ now <= MaxTime
          /\ hits' = hits \cup {stamp[c]}
          /\ grants' = grants \cup {stamp[c]}
          /\ cleanW' = {}
          /\ now' = now + 1
          /\ Goto(c, IF Moderated THEN "execM" ELSE "pop")
          /\ UNCHANGED <<clk, stamp, cleanM>>
       \/ /\ ~WindowUntouched(c)
          /\ Return(c)
          /\ UNCHANGED <<now, hits, grants>>
    /\ UNCHANGED <<modTime, qlen, kick, pops, clears, crashes>>

\* MULTI, SET moderate_key, EXEC; on WatchError the hit stays in the window and
\* the call is denied.
ExecModerate(c) ==
    /\ pc[c] = "execM"
    /\ \/ /\ ModerateUntouched(c)
          /\ modTime' = clk[c]
          /\ cleanM' = {}
          /\ Goto(c, "pop")
          /\ UNCHANGED <<clk, stamp, cleanW>>
       \/ /\ ~ModerateUntouched(c)
          /\ Return(c)
          /\ UNCHANGED modTime
    /\ UNCHANGED <<now, hits, qlen, kick, history>>

\* pop: the counter moves before queue.pop, which may find the queue empty.
PopItem(c) ==
    /\ pc[c] = "pop"
    /\ kick' = [kick EXCEPT ![c] = Kicked(@)]
    /\ qlen' = IF qlen > 0 THEN qlen - 1 ELSE 0
    /\ pops' = pops \cup {[client |-> c, stamp |-> stamp[c], at |-> now,
                           got |-> qlen > 0]}
    /\ Return(c)
    /\ UNCHANGED <<now, hits, modTime, grants, clears, crashes>>

\* push goes straight to the wrapped queue.
Push ==
    /\ qlen < MaxQueue
    /\ qlen' = qlen + 1
    /\ UNCHANGED <<now, hits, modTime, locals, watches, history>>

\* clear: DEL window_key, DEL moderate_key, then the queue's own clear.  The
\* histories start again: what was cleared is forgotten on purpose.  Without
\* moderation moderate_key is None, which redis-py 3 (setup.py asks for >= 3.0)
\* refuses as a key: the call ends in a DataError.
ClearWindow(c) ==
    /\ pc[c] = "idle"
    /\ clears < MaxClears
    /\ clears' = clears + 1
    /\ hits' = {}
    /\ cleanW' = IF hits = {} THEN cleanW ELSE {}
    /\ Goto(c, "clearM")
    /\ grants' = {}
    /\ pops' = {}
    /\ UNCHANGED <<now, modTime, qlen, clk, stamp, kick, cleanM, crashes>>

ClearModerate(c) ==
    /\ pc[c] = "clearM"
    /\ \/ /\ Moderated
          /\ modTime' = 0
          /\ cleanM' = IF modTime = 0 THEN cleanM ELSE {}
          /\ Goto(c, "clearQ")
          /\ UNCHANGED <<clk, stamp, cleanW>>
       \/ /\ ~Moderated
          /\ Return(c)
          /\ UNCHANGED modTime
    /\ UNCHANGED <<now, hits, qlen, kick, history>>

ClearQueue(c) ==
    /\ pc[c] = "clearQ"
    /\ qlen' = 0
    /\ Return(c)
    /\ UNCHANGED <<now, hits, modTime, kick, history>>

----------------------------------------------------------------------------
\* Redis drops a key that nothing touched for two windows: no sooner than two
\* windows after the newest stamp in it.  An expiry leaves watches intact, which is
\* the rule of Redis before 6.0.9; the deployment does not pin a version.
WindowKeyExpires ==
    /\ hits # {}
    /\ \A h \in hits : h + 2 * Window <= now
    /\ hits' = {}
    /\ UNCHANGED <<now, modTime, qlen, locals, watches, history>>

ModerateKeyExpires ==
    /\ modTime # 0
    /\ modTime + 2 * Window <= now
    /\ modTime' = 0
    /\ UNCHANGED <<now, hits, qlen, locals, watches, history>>

\* A process dies anywhere and is started again: its object and watches are new.
Crash(c) ==
    /\ crashes < MaxCrashes
    /\ crashes' = crashes + 1
    /\ Return(c)
    /\ kick' = [kick EXCEPT ![c] = 0]
    /\ UNCHANGED <<now, keys, grants, pops, clears>>

Tick ==
    /\ now < MaxTime
    /\ now' = now + 1
    /\ UNCHANGED <<keys, locals, watches, history>>

ClientStep(c) ==
    \/ StartPop(c) \/ TrimWindow(c)
    \/ WatchModerate(c) \/ CheckModeration(c) \/ CheckElastic(c)
    \/ WatchWindow(c) \/ CountHits(c) \/ ExecHit(c) \/ ExecModerate(c)
    \/ PopItem(c)

ClearStep(c) == ClearWindow(c) \/ ClearModerate(c) \/ ClearQueue(c)

Next ==
    \/ \E c \in Clients : ClientStep(c) \/ ClearStep(c) \/ Crash(c)
    \/ Push \/ WindowKeyExpires \/ ModerateKeyExpires \/ Tick

Spec == Init /\ [][Next]_vars

----------------------------------------------------------------------------
InWindow(t) == t - Window + 1 .. t

Holding(c) == pc[c] \in {"execM", "pop"}

\* The throttle's promise (test_hits): however the clients interleave, no
\* rolling window ever contains more than Limit of the stamps that were let in.
WindowBound ==
    \A t \in 0..now : Cardinality(grants \cap InWindow(t)) <= Limit

\* What that gives for the calls of queue.pop themselves, which come some time
\* after their stamp: a window sees at most one late pop per client more.
PopBound ==
    \A q \in pops :
        Cardinality({p \in pops : p.at \in InWindow(q.at)})
            <= Limit + Cardinality(Clients)

\* Stamps that neither reached queue.pop nor still can.
Wasted ==
    {g \in grants : /\ \A p \in pops : p.stamp # g
                    /\ \A c \in Clients : Holding(c) => stamp[c] # g}

\* allowed() enters its hit before it wins moderate_key, and a loser's hit stays:
\* one winner can waste the hit of every other client, and no more than that.  A
\* clear() touches the key once more, and forgets the winner before it.
WasteBound ==
    LET winners == Cardinality(pops) + Cardinality({c \in Clients : pc[c] = "pop"}) IN
    Cardinality(Wasted)
        <= (Cardinality(Clients) - 1) * (winners + crashes + 2 * clears) + crashes

\* The hit a client waits to enter was counted against every hit of its window:
\* the WATCH makes the ZCARD and the ZADD of test_hits one step.
CountStillTrue ==
    \A c \in cleanW : pc[c] = "execW" =>
        /\ \A g \in grants : g < stamp[c]
        /\ Cardinality({g \in grants : g > stamp[c] - Window}) < Limit

\* Whoever trims, and however old the clock reading it trims by, no hit leaves
\* the window (zremrangebyscore in allowed(), the key's expiry) before its time.
RecentHitsKept == \A g \in grants : g > now - Window => g \in hits

\* No time in use lies in the future, and the sets of times are finite.
TimesPast ==
    /\ \A g \in grants : g < now
    /\ \A c \in Clients : clk[c] <= now /\ stamp[c] <= now
    /\ IsFiniteSet(hits) /\ IsFiniteSet(grants)

\* A stamp about to be used was read from the clock.
StampsRead ==
    /\ now >= 1
    /\ \A c \in Clients : pc[c] \in {"execW", "execM", "pop"} => stamp[c] >= 1

\* The inductive invariant behind WindowBound.
ThrottleInv == TimesPast /\ RecentHitsKept /\ CountStillTrue /\ WindowBound

\* No stamp serves twice: it belongs to one call of queue.pop or to one client on
\* its way to it, and a client whose EXEC is still good waits with a newer one.
StampsServeOnce ==
    /\ \A p \in pops : p.stamp < now
    /\ \A c \in Clients : Holding(c) => stamp[c] < now
    /\ \A p, q \in pops : p.stamp = q.stamp => p = q
    /\ \A c \in Clients : Holding(c) => \A p \in pops : p.stamp # stamp[c]
    /\ \A c, d \in Clients :
          Holding(c) /\ Holding(d) /\ stamp[c] = stamp[d] => c = d
    /\ \A c \in cleanW : pc[c] = "execW" =>
          /\ \A p \in pops : p.stamp < stamp[c]
          /\ \A d \in Clients : Holding(d) => stamp[d] < stamp[c]

\* A client's calls come one after the other: it reads the clock for a stamp only
\* after its last pop, and a stamp that follows a pop was not cleared away.
PopsInTurn ==
    /\ IsFiniteSet(pops)
    /\ \A p \in pops : p.stamp <= p.at /\ p.at <= now
    /\ \A p, q \in pops : p.client = q.client /\ p # q =>
          \/ p.at <= q.stamp /\ q.stamp \in grants
          \/ q.at <= p.stamp /\ p.stamp \in grants
    /\ \A p \in pops :
          /\ pc[p.client] \in {"execW", "execM", "pop"} => p.at <= stamp[p.client]
          /\ Holding(p.client) => stamp[p.client] \in grants

\* The inductive invariant behind PopBound.
PopInv == StampsServeOnce /\ PopsInTurn

\* is_moderated and check_elastic: two values that follow each other in
\* moderate_key are at least window / limit apart, whoever writes them, unless the
\* writer is elastic and has itself called queue.pop Limit times (a clear() that
\* resets the window and the moderation leaves that count alone).
ModerationSpacing ==
    [][\A c \in Clients :
          /\ pc[c] = "execM" /\ pc'[c] = "pop"
          /\ modTime # 0 /\ (modTime' - modTime) * Limit < Window
          => Elastic /\ kick[c] = Limit]_vars

\* The whole optimistic protocol is a rate limiter: each client holds at most one
\* permit, the stamp of a hit it entered, and calls queue.pop only with one.
Permit == [c \in Clients |-> IF Holding(c) THEN stamp[c] ELSE 0]

Limiter == INSTANCE RateLimiter WITH
    admitted <- grants, permit <- Permit, waiting <- qlen

LimiterSpec == Limiter!Spec
============================================================================
