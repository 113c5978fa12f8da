---------------------------- MODULE RestService ----------------------------
(***************************************************************************)
(* rest/rest_service.py: clients call feed on one of several REST servers, *)
(* whose request threads share a table of uuids, a flag and the Kafka      *)
(* connection with the thread that consumes the cluster's answers.  An     *)
(* answer that comes too late is kept in Redis for a poll.                 *)
(*                                                                         *)
(* Every server consumes every answer (group_id=None), from the end of the *)
(* topic on.  A call stands for the request it feeds: its uuid is its own. *)
(* The grain is one action per access to what threads share; the steps     *)
(* between taking and releasing uuids_lock are one action.                 *)
(***************************************************************************)
EXTENDS Integers, FiniteSets

CONSTANTS
    Services,     \* the REST servers
    Asks,         \* calls of feed with a uuid: action and statistics requests
    Crawls,       \* calls of feed without one
    Nowhere,      \* no server
    MaxFaults     \* bound: lost connections, failed sends, restarts, repeated answers

Calls == Asks \cup Crawls

ASSUME RestAssumption ==
    /\ IsFiniteSet(Services) /\ IsFiniteSet(Calls)
    /\ Asks \cap Crawls = {}
    /\ Nowhere \notin Services
    /\ MaxFaults \in Nat

VARIABLES
    connected,    \* servers with kafka_connected
    setups,       \* the number of threads each server has in _setup_kafka
    listening,    \* servers whose consumer has found its place in the topic
    redisUp,      \* servers with redis_connected
    waitFlag,     \* self.wait_for_response of each server
    uuids,        \* self.uuids of each server
    polls,        \* the calls whose answer is at rest:poll:<uuid>
    inbox,        \* answers each server's consumer has still to read
    sent,         \* requests that reached the cluster
    answered,     \* requests the cluster has answered
    pc,           \* the step each call is about to take
    at,           \* the server it was made on
    result,       \* what _feed_to_kafka returned
    told,         \* what feed has returned to the client
    polling,      \* calls whose poll has read its key and not yet deleted it
    got,          \* history: how often each answer was handed to the client
    faults        \* history: faults

kafka == <<connected, setups, listening, inbox, sent, answered>>
shared == <<waitFlag, uuids, polls, redisUp>>
thread == <<pc, at, result, told>>
vars == <<kafka, shared, thread, polling, got, faults>>

Steps == {"ready", "send", "flag", "register", "check", "wait", "expired", "done"}
Entries == {"absent", "None", "answer", "poll"}
Replies == {"nothing", "answer", "poll_id", "accepted", "unheard", "error", "cut"}

RestTypeOK ==
    /\ connected \in SUBSET Services
    /\ setups \in [Services -> Nat]
    /\ \A s \in Services : s \in connected \/ setups[s] > 0
    /\ listening \in SUBSET Services
    /\ redisUp \in SUBSET Services
    /\ waitFlag \in [Services -> BOOLEAN]
    /\ uuids \in [Services -> [Asks -> Entries]]
    /\ polls \in SUBSET Asks
    /\ inbox \in [Services -> SUBSET Asks]
    /\ sent \in SUBSET Calls
    /\ answered \in SUBSET (Asks \cap sent)
    /\ pc \in [Calls -> Steps]
    /\ at \in [Calls -> Services \cup {Nowhere}]
    /\ \A c \in Calls : pc[c] = "ready" <=> at[c] = Nowhere
    /\ \A c \in Calls : pc[c] \in {"flag", "register", "wait", "expired"} => c \in Asks
    /\ result \in [Calls -> BOOLEAN]
    /\ \A c \in Calls : pc[c] \in {"ready", "send"} => ~result[c]
    /\ told \in [Calls -> Replies]
    /\ \A c \in Calls : pc[c] = "done" <=> told[c] # "nothing"
    /\ polling \in SUBSET Asks
    /\ got \in [Asks -> Nat]
    /\ faults \in 0..MaxFaults

----------------------------------------------------------------------------
(***************************************************************************)
(* Decisions of the code.  The name of a mistaken variant, which only a    *)
(* mutation uses, ends in Always, Never, Anyway or Only.                   *)
(***************************************************************************)
\* _process_messages: the answer belongs to a call that waits on this server.
AwaitedAnyway(s, c) == uuids[s][c] # "absent"
Awaited(s, c) == uuids[s][c] \notin {"absent", "poll"}

\* Any other answer goes to Redis: one that became a poll, and one no call on this
\* server asked for.
KeptPollsOnly(s, c) == uuids[s][c] = "poll"
Kept(s, c) == ~Awaited(s, c)

\* feed, line 619: a call with a uuid expects a response.
ExpectsNever(c) == FALSE
Expects(c) == c \in Asks

\* poll: DEL of the key that was read.
KeepsAlways(c) == polls
Polled(c) == polls \ {c}

\* _spawn_kafka_connection_thread.
SpawnNever(s, n) ==
    /\ connected' = connected \ {s}
    /\ setups' = setups
Spawn(s, n) ==
    /\ connected' = connected \ {s}
    /\ setups' = [setups EXCEPT ![s] = @ + n]

Fault ==
    /\ faults < MaxFaults
    /\ faults' = faults + 1

Goto(c, step) == pc' = [pc EXCEPT ![c] = step]

Return(c, reply) ==
    /\ Goto(c, "done")
    /\ told' = [told EXCEPT ![c] = reply]

\* The servers have been set up.
Init ==
    /\ connected = Services /\ setups = [s \in Services |-> 0] /\ listening = Services /\ redisUp = Services
    /\ waitFlag = [s \in Services |-> FALSE]
    /\ uuids = [s \in Services |-> [c \in Asks |-> "absent"]]
    /\ polls = {} /\ polling = {}
    /\ inbox = [s \in Services |-> {}]
    /\ sent = {} /\ answered = {}
    /\ pc = [c \in Calls |-> "ready"]
    /\ at = [c \in Calls |-> Nowhere]
    /\ result = [c \in Calls |-> FALSE]
    /\ told = [c \in Calls |-> "nothing"]
    /\ got = [c \in Asks |-> 0]
    /\ faults = 0

----------------------------------------------------------------------------
(***************************************************************************)
(* feed, on a thread of its own for each call.                             *)
(***************************************************************************)
Start(c) ==
    /\ pc[c] = "ready"
    /\ \E s \in Services :
          /\ at' = [at EXCEPT ![c] = s]
          /\ \/ /\ s \in connected
                /\ waitFlag' = [waitFlag EXCEPT ![s] = FALSE]
                /\ Goto(c, "send")
                /\ UNCHANGED told
             \/ /\ s \notin connected
                /\ Return(c, "error")
                /\ UNCHANGED waitFlag
    /\ UNCHANGED <<kafka, uuids, polls, redisUp, result, polling, got, faults>>

\* _feed_to_kafka.  After a KafkaError, or a time-out, the request may have been sent
\* all the same; the connection is built again, by one thread or, as the future's
\* errback also starts one, by two.  While a thread does that there may be no producer.
Send(c) ==
    /\ pc[c] = "send"
    /\ \/ /\ sent' = sent \cup {c}
          /\ result' = [result EXCEPT ![c] = TRUE]
          /\ Goto(c, IF Expects(c) THEN "flag" ELSE "check")
          /\ UNCHANGED <<connected, setups, told, faults>>
       \/ /\ Fault
          /\ \E n \in 1..2 : Spawn(at[c], n)
          /\ sent' \in {sent, sent \cup {c}}
          /\ Goto(c, IF Expects(c) THEN "flag" ELSE "check")
          /\ UNCHANGED <<result, told>>
       \/ /\ setups[at[c]] > 0
          /\ Return(c, "error")
          /\ UNCHANGED <<connected, setups, sent, result, faults>>
    /\ UNCHANGED <<listening, inbox, answered, shared, at, polling, got>>

RaiseFlag(c) ==
    /\ pc[c] = "flag"
    /\ waitFlag' = [waitFlag EXCEPT ![at[c]] = TRUE]
    /\ Goto(c, "register")
    /\ UNCHANGED <<kafka, uuids, polls, redisUp, at, result, told, polling, got, faults>>

\* The entry is made whether the request was sent or not.
Register(c) ==
    /\ pc[c] = "register"
    /\ uuids' = [uuids EXCEPT ![at[c]][c] = "None"]
    /\ Goto(c, "check")
    /\ UNCHANGED <<kafka, waitFlag, polls, redisUp, at, result, told, polling, got, faults>>

\* `if result', then `if self.wait_for_response': a call without a uuid that finds
\* the flag raised looks up a key its request does not have, and fails.
CheckFlag(c) ==
    /\ pc[c] = "check"
    /\ \/ /\ result[c] /\ waitFlag[at[c]] /\ c \in Asks
          /\ Goto(c, "wait")
          /\ UNCHANGED told
       \/ /\ result[c] /\ ~waitFlag[at[c]]
          /\ Return(c, IF c \in Asks THEN "unheard" ELSE "accepted")
       \/ /\ ~result[c] \/ (waitFlag[at[c]] /\ c \in Crawls)
          /\ Return(c, "error")
    /\ UNCHANGED <<kafka, shared, at, result, polling, got, faults>>

\* The loop finds an answer and removes the entry.  An answer sent again meanwhile
\* goes the way of the one it overwrites.
TakeAnswer(c) ==
    /\ pc[c] = "wait"
    /\ uuids[at[c]][c] # "None"
    /\ uuids' = [uuids EXCEPT ![at[c]][c] = "absent"]
    /\ got' = [got EXCEPT ![c] = @ + 1]
    /\ Return(c, "answer")
    /\ UNCHANGED <<kafka, waitFlag, polls, redisUp, at, result, polling, faults>>

\* The loop's time is up when it looks at the clock: an answer may have come since
\* it last looked at the table.
Expire(c) ==
    /\ pc[c] = "wait"
    /\ Goto(c, "expired")
    /\ UNCHANGED <<kafka, shared, at, result, told, polling, got, faults>>

\* The loop's else branch: the key still exists.
Convert(c) ==
    /\ pc[c] = "expired"
    /\ uuids' = [uuids EXCEPT ![at[c]][c] = "poll"]
    /\ Return(c, "poll_id")
    /\ UNCHANGED <<kafka, waitFlag, polls, redisUp, at, result, polling, got, faults>>

----------------------------------------------------------------------------
\* The cluster answers a request once, or again after a fault of its own.
Answer(c) ==
    /\ c \in Asks \cap sent
    /\ \/ c \notin answered /\ UNCHANGED faults
       \/ c \in answered /\ Fault
    /\ answered' = answered \cup {c}
    /\ inbox' = [s \in Services |-> IF s \in listening THEN inbox[s] \cup {c} ELSE inbox[s]]
    /\ UNCHANGED <<connected, setups, listening, sent, shared, thread, polling, got>>

\* _process_messages.
Consume(s, c) ==
    /\ c \in inbox[s]
    /\ inbox' = [inbox EXCEPT ![s] = @ \ {c}]
    /\ \/ /\ Awaited(s, c)
          /\ uuids' = [uuids EXCEPT ![s][c] = "answer"]
          /\ UNCHANGED <<polls, redisUp, faults>>
       \/ /\ Kept(s, c) /\ s \in redisUp
          /\ polls' = polls \cup {c}
          /\ UNCHANGED <<uuids, redisUp, faults>>
       \/ /\ Kept(s, c) /\ s \in redisUp
          /\ Fault
          /\ redisUp' = redisUp \ {s}
          /\ UNCHANGED <<uuids, polls>>
       \/ /\ ~Awaited(s, c) /\ ~(Kept(s, c) /\ s \in redisUp)
          /\ UNCHANGED <<uuids, polls, redisUp, faults>>
    /\ UNCHANGED <<connected, setups, listening, sent, answered, waitFlag, thread, polling, got>>

\* _check_kafka_disconnect.
Disconnect(s) ==
    /\ Fault
    /\ Spawn(s, 1)
    /\ UNCHANGED <<listening, inbox, sent, answered, shared, thread, polling, got>>

\* _setup_kafka: the old consumer goes, with the answers it has not read, and the new
\* one has not yet asked for its offset when the server counts as connected.
Reconnect(s) ==
    /\ setups[s] > 0
    /\ setups' = [setups EXCEPT ![s] = @ - 1]
    /\ listening' = listening \ {s}
    /\ inbox' = [inbox EXCEPT ![s] = {}]
    /\ connected' = connected \cup {s}
    /\ UNCHANGED <<sent, answered, shared, thread, polling, got, faults>>

Listen(s) ==
    /\ s \in connected \ listening
    /\ listening' = listening \cup {s}
    /\ UNCHANGED <<connected, setups, inbox, sent, answered, shared, thread, polling, got, faults>>

\* _report_self, or a poll, finds the connection lost.
LoseRedis(s) ==
    /\ Fault
    /\ s \in redisUp
    /\ redisUp' = redisUp \ {s}
    /\ UNCHANGED <<kafka, waitFlag, uuids, polls, thread, polling, got>>

\* _setup_redis.
ReconnectRedis(s) ==
    /\ s \notin redisUp
    /\ redisUp' = redisUp \cup {s}
    /\ UNCHANGED <<kafka, waitFlag, uuids, polls, thread, polling, got, faults>>

----------------------------------------------------------------------------
\* poll, on any server with Redis: GET, and DEL of a key that was found.  A client
\* polls again when it has been answered.
PollKey(c) ==
    /\ told[c] = "poll_id" /\ c \notin polling
    /\ redisUp # {}
    /\ c \in polls
    /\ polling' = polling \cup {c}
    /\ UNCHANGED <<kafka, shared, thread, got, faults>>

\* The connection may be lost on DEL, before or after Redis has done it.
ReturnPoll(c) ==
    /\ c \in polling
    /\ polling' = polling \ {c}
    /\ \/ /\ polls' = Polled(c)
          /\ got' = [got EXCEPT ![c] = @ + 1]
          /\ UNCHANGED <<redisUp, faults>>
       \/ /\ Fault
          /\ polls' \in {polls, Polled(c)}
          /\ \E s \in redisUp : redisUp' = redisUp \ {s}
          /\ UNCHANGED got
    /\ UNCHANGED <<kafka, waitFlag, uuids, thread>>

\* The process ends and is started again: __init__ and setup.  Its calls are cut short,
\* with their requests perhaps sent, and so are polls, with their keys perhaps deleted.
Underway(s) == {c \in Calls : at[c] = s /\ pc[c] # "done"}

Restart(s) ==
    /\ Fault
    /\ pc' = [c \in Calls |-> IF c \in Underway(s) THEN "done" ELSE pc[c]]
    /\ told' = [c \in Calls |-> IF c \in Underway(s) THEN "cut" ELSE told[c]]
    /\ \E out \in SUBSET {c \in Underway(s) : pc[c] = "send"} : sent' = sent \cup out
    /\ \E stopped \in SUBSET polling :
          /\ polling' = polling \ stopped
          /\ \E lost \in SUBSET stopped : polls' = polls \ lost
    /\ connected' = connected \ {s}
    /\ setups' = [setups EXCEPT ![s] = 1]
    /\ listening' = listening \ {s}
    /\ inbox' = [inbox EXCEPT ![s] = {}]
    /\ redisUp' = redisUp \ {s}
    /\ waitFlag' = [waitFlag EXCEPT ![s] = FALSE]
    /\ uuids' = [uuids EXCEPT ![s] = [c \in Asks |-> "absent"]]
    /\ UNCHANGED <<answered, at, result, got>>

CallStep(c) ==
    \/ Start(c) \/ Send(c) \/ RaiseFlag(c) \/ Register(c) \/ CheckFlag(c)
    \/ TakeAnswer(c) \/ Expire(c) \/ Convert(c)

PollStep(c) == PollKey(c) \/ ReturnPoll(c)

ServiceStep(s) ==
    \/ \E c \in Asks : Consume(s, c)
    \/ Reconnect(s) \/ Listen(s) \/ ReconnectRedis(s)

Next ==
    \/ \E c \in Calls : CallStep(c)
    \/ \E c \in Asks : Answer(c) \/ PollStep(c)
    \/ \E s \in Services : ServiceStep(s) \/ Disconnect(s) \/ LoseRedis(s) \/ Restart(s)

Spec == Init /\ [][Next]_vars

\* Request threads run on, consumers read on and connect again (retry), and a
\* client that was given a poll_id keeps polling.
FairSpec ==
    /\ Spec
    /\ \A c \in Calls : WF_vars(CallStep(c))
    /\ \A c \in Asks : WF_vars(PollStep(c))
    /\ \A s \in Services : WF_vars(ServiceStep(s))

----------------------------------------------------------------------------
\* docs/topics/rest/api.rst: a poll fails to find its poll_id when the request has
\* not completed yet or another component failed.  So once every server has read
\* the answer to a request that became a poll, it is in Redis or was handed out.
\* A single server does not do that: an answer that arrives between the last look
\* at the table and the lock is overwritten with 'poll'.  A second server does, since
\* it stores every answer it does not know.
PollFinds ==
    faults = 0 =>
        \A c \in answered :
            told[c] = "poll_id" /\ (\A s \in Services : c \notin inbox[s])
            => c \in polls \/ got[c] > 0

\* What makes it so, with two servers or more: while nothing fails, a server knows
\* only its own calls, and every other server keeps the answer.
KeptElsewhere ==
    /\ \A c \in Asks, s \in Services : s # at[c] => uuids[s][c] = "absent"
    /\ faults = 0 =>
          /\ \A s \in Services : setups[s] = 0 /\ s \in listening /\ s \in redisUp
          /\ \A c \in answered, s \in Services :
                s # at[c] => c \in inbox[s] \/ c \in polls \/ got[c] > 0

\* And a client that keeps polling gets it.
PollServed ==
    \A c \in Asks :
        told[c] = "poll_id" /\ c \in answered /\ faults = 0 ~> got[c] > 0 \/ faults > 0

\* The price: each server may store one copy of an answer, so a client that polls
\* on can get it as often as there are servers, each time it was sent, and not more.
\* With one server an answer is handed out at most once.
HandedOut ==
    \A c \in Asks : got[c] <= Cardinality(Services) * (1 + faults)

\* The copies of an answer that exist: with the client, in Redis, in the table of the
\* call's own server, and still to be read.
Holds(c) == {s \in Services : c \in inbox[s]}
InRedis(c) == IF c \in polls THEN 1 ELSE 0
InTable(c) == IF pc[c] \in {"check", "wait"} /\ uuids[at[c]][c] = "answer" THEN 1 ELSE 0
Copies(c) == got[c] + InRedis(c) + InTable(c) + Cardinality(Holds(c))
Paid(c) == Cardinality(Services) * ((IF c \in answered THEN 1 ELSE 0) + faults)

\* Every sending of an answer pays for one copy a server.
CopiesPaid ==
    \A c \in Asks :
        /\ c \in polling => c \in polls
        /\ Copies(c) <= Paid(c)

\* A call that waits has its entry, which an answer may have replaced; one that has
\* returned an answer or a poll_id left none behind that would keep a later answer
\* from Redis.
EntriesSettled ==
    \A c \in Asks :
        /\ pc[c] \in {"check", "wait", "expired"} => uuids[at[c]][c] \in {"None", "answer"}
        /\ told[c] \in {"answer", "poll_id"} => uuids[at[c]][c] \in {"absent", "poll"}

\* wait_for_response belongs to the server and not to the call: calls that overlap
\* mislead each other.  But the last one to write it reads its own value, so of the
\* calls on a server one at least is not misled.
CallsOn(s) == {c \in Calls : at[c] = s}
Misled(s) ==
    {c \in CallsOn(s) :
        \/ told[c] = "unheard"
        \/ c \in Crawls /\ told[c] = "error" /\ result[c]}

MisledBound == \A s \in Services : Misled(s) # {} => Misled(s) # CallsOn(s)

\* A call that will read its own value, or has: the last to write the flag, or one
\* that has still to write it, or one that is past reading it.
Safe(c) ==
    \/ pc[c] \in {"wait", "expired"}
    \/ pc[c] = "done" /\ c \notin Misled(at[c])
    \/ pc[c] = "send" /\ (c \in Asks \/ ~waitFlag[at[c]])
    \/ pc[c] = "flag"
    \/ pc[c] = "register" /\ waitFlag[at[c]]
    \/ pc[c] = "check" /\ (waitFlag[at[c]] <=> c \in Asks)

SomeoneSafe == \A s \in Services : CallsOn(s) # {} => \E c \in CallsOn(s) : Safe(c)
=============================================================================
