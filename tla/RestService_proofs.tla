------------------------- MODULE RestService_proofs -------------------------
(***************************************************************************)
(* Theorems about RestService, for any number of servers, calls and faults.*)
(***************************************************************************)
EXTENDS RestService, FiniteSetTheorems, TLAPS

\* What a write to a server's table changes.
LEMMA EntryWritten ==
    ASSUME RestTypeOK, NEW s \in Services, NEW c, NEW e \in Entries,
           uuids' = [uuids EXCEPT ![s][c] = e]
    PROVE  \A t \in Services, d \in Asks :
              uuids'[t][d] = IF t = s /\ d = c THEN e ELSE uuids[t][d]
BY DEF RestTypeOK

\* Type correctness: in particular a server that is not connected has a thread that
\* connects it, and only a call with a uuid ever waits.
THEOREM RestTypeCorrect == Spec => []RestTypeOK
<1> USE RestAssumption DEF RestAssumption, Calls, Goto, Return
<1>1. Init => RestTypeOK
  BY DEF Init, RestTypeOK, Steps, Entries, Replies
<1>2. RestTypeOK /\ [Next]_vars => RestTypeOK'
  <2> SUFFICES ASSUME RestTypeOK, [Next]_vars PROVE RestTypeOK'
    OBVIOUS
  <2> USE DEF RestTypeOK, kafka, shared, thread
  <2>1. ASSUME NEW c \in Calls, Start(c) PROVE RestTypeOK'
    <3>1. at' \in [Calls -> Services \cup {Nowhere}] /\ at'[c] \in Services
          /\ \A d \in Calls : d # c => at'[d] = at[d]
      BY <2>1 DEF Start
    <3>2. /\ pc' \in [Calls -> Steps] /\ pc'[c] \in {"send", "done"}
          /\ \A d \in Calls : d # c => pc'[d] = pc[d]
      BY <2>1 DEF Start, Steps
    <3>3. told' \in [Calls -> Replies] /\ waitFlag' \in [Services -> BOOLEAN]
      BY <2>1 DEF Start, Replies
    <3>4. /\ pc[c] = "ready"
          /\ pc'[c] = "done" <=> told'[c] # "nothing"
          /\ \A d \in Calls : d # c => told'[d] = told[d]
      BY <2>1 DEF Start
    <3>5. UNCHANGED <<kafka, uuids, polls, redisUp, result, polling, got, faults>>
      BY <2>1 DEF Start
    <3>6. \A d \in Calls : pc'[d] = "ready" <=> at'[d] = Nowhere
      BY <3>1, <3>2
    <3>7. \A d \in Calls : pc'[d] \in {"flag", "register", "wait", "expired"} => d \in Asks
      BY <3>2
    <3>8. \A d \in Calls : pc'[d] \in {"ready", "send"} => ~result'[d]
      BY <3>2, <3>4, <3>5
    <3>9. \A d \in Calls : pc'[d] = "done" <=> told'[d] # "nothing"
      BY <3>2, <3>4
    <3>10. QED
      BY <3>1, <3>2, <3>3, <3>5, <3>6, <3>7, <3>8, <3>9
  <2>2. ASSUME NEW c \in Calls, Send(c) PROVE RestTypeOK'
    <3>1. at[c] \in Services
      BY <2>2 DEF Send
    <3>2. pc' \in [Calls -> Steps] /\ told' \in [Calls -> Replies] /\ result' \in [Calls -> BOOLEAN]
      BY <2>2 DEF Send, Steps, Replies
    <3>3. /\ pc'[c] \in {"flag", "check", "done"} /\ pc[c] = "send"
          /\ (pc'[c] = "flag") => c \in Asks
          /\ pc'[c] = "done" <=> told'[c] # "nothing"
          /\ \A d \in Calls : d # c => /\ pc'[d] = pc[d] /\ told'[d] = told[d]
                                      /\ result'[d] = result[d]
      BY <2>2 DEF Send, Expects
    <3>4. sent' \in SUBSET Calls /\ sent \subseteq sent'
      BY <2>2 DEF Send
    <3>5. faults' \in 0..MaxFaults
      BY <2>2 DEF Send, Fault
    <3>6. /\ connected' \in SUBSET Services /\ setups' \in [Services -> Nat]
          /\ \A s \in Services : s \in connected' \/ setups'[s] > 0
      <4>1. CASE UNCHANGED <<connected, setups>>
        BY <4>1
      <4>2. ASSUME NEW n \in 1..2, Spawn(at[c], n)
            PROVE  /\ connected' \in SUBSET Services /\ setups' \in [Services -> Nat]
                   /\ \A s \in Services : s \in connected' \/ setups'[s] > 0
        BY <3>1, <4>2 DEF Spawn
      <4>3. QED
        BY <2>2, <4>1, <4>2 DEF Send
    <3>7. UNCHANGED <<listening, inbox, answered, shared, at, polling, got>>
      BY <2>2 DEF Send
    <3>8. /\ \A d \in Calls : pc'[d] = "ready" <=> at'[d] = Nowhere
          /\ \A d \in Calls : pc'[d] \in {"flag", "register", "wait", "expired"} => d \in Asks
          /\ \A d \in Calls : pc'[d] \in {"ready", "send"} => ~result'[d]
          /\ \A d \in Calls : pc'[d] = "done" <=> told'[d] # "nothing"
      BY <3>3, <3>7
    <3>9. QED
      BY <3>2, <3>4, <3>5, <3>6, <3>7, <3>8
  <2>3. ASSUME NEW c \in Calls, RaiseFlag(c) PROVE RestTypeOK'
    BY <2>3 DEF RaiseFlag, Steps
  <2>4. ASSUME NEW c \in Calls, Register(c) PROVE RestTypeOK'
    BY <2>4 DEF Register, Steps, Entries
  <2>5. ASSUME NEW c \in Calls, CheckFlag(c) PROVE RestTypeOK'
    <3>1. PICK step \in {"wait", "done"} : pc' = [pc EXCEPT ![c] = step]
      BY <2>5 DEF CheckFlag
    <3>2. PICK reply \in Replies : told' = [told EXCEPT ![c] = reply]
      <4>1. told \in [Calls -> Replies] /\ told[c] \in Replies
        OBVIOUS
      <4>2. told' = told => told' = [told EXCEPT ![c] = told[c]]
        BY <4>1
      <4>3. QED
        BY <2>5, <4>1, <4>2 DEF CheckFlag, Replies
    <3>3. /\ pc' \in [Calls -> Steps] /\ told' \in [Calls -> Replies]
          /\ \A d \in Calls : d # c => pc'[d] = pc[d] /\ told'[d] = told[d]
      BY <3>1, <3>2 DEF Steps
    <3>4. \/ pc'[c] = "wait" /\ told'[c] = told[c] /\ c \in Asks
          \/ pc'[c] = "done" /\ told'[c] # "nothing"
      BY <2>5 DEF CheckFlag
    <3>5. pc[c] = "check"
      BY <2>5 DEF CheckFlag
    <3>6. UNCHANGED <<kafka, shared, at, result, polling, got, faults>>
      BY <2>5 DEF CheckFlag
    <3>7. QED
      BY <3>3, <3>4, <3>5, <3>6
  <2>6. ASSUME NEW c \in Calls, TakeAnswer(c) PROVE RestTypeOK'
    BY <2>6 DEF TakeAnswer, Steps, Entries, Replies
  <2>7. ASSUME NEW c \in Calls, Expire(c) PROVE RestTypeOK'
    BY <2>7 DEF Expire, Steps
  <2>8. ASSUME NEW c \in Calls, Convert(c) PROVE RestTypeOK'
    BY <2>8 DEF Convert, Steps, Entries, Replies
  <2>9. ASSUME NEW c \in Asks, Answer(c) PROVE RestTypeOK'
    BY <2>9 DEF Answer, Fault
  <2>10. ASSUME NEW c \in Asks, PollKey(c) PROVE RestTypeOK'
    BY <2>10 DEF PollKey
  <2>11. ASSUME NEW c \in Asks, ReturnPoll(c) PROVE RestTypeOK'
    <3>1. polls' \in SUBSET Asks /\ redisUp' \in SUBSET Services
      BY <2>11 DEF ReturnPoll, Polled
    <3>2. got' \in [Asks -> Nat] /\ faults' \in 0..MaxFaults
      BY <2>11 DEF ReturnPoll, Fault
    <3>3. QED
      BY <2>11, <3>1, <3>2 DEF ReturnPoll
  <2>12. ASSUME NEW s \in Services, NEW c \in Asks, Consume(s, c) PROVE RestTypeOK'
    <3>1. uuids' \in [Services -> [Asks -> Entries]]
      BY <2>12 DEF Consume, Entries
    <3>2. polls' \in SUBSET Asks /\ redisUp' \in SUBSET Services /\ faults' \in 0..MaxFaults
      BY <2>12 DEF Consume, Fault
    <3>3. inbox' \in [Services -> SUBSET Asks]
      BY <2>12 DEF Consume
    <3>4. QED
      BY <2>12, <3>1, <3>2, <3>3 DEF Consume
  <2>13. ASSUME NEW s \in Services, Reconnect(s) PROVE RestTypeOK'
    BY <2>13 DEF Reconnect
  <2>14. ASSUME NEW s \in Services, Listen(s) \/ ReconnectRedis(s) PROVE RestTypeOK'
    BY <2>14 DEF Listen, ReconnectRedis
  <2>15. ASSUME NEW s \in Services, Disconnect(s) \/ LoseRedis(s) PROVE RestTypeOK'
    <3>1. CASE Disconnect(s)
      BY <3>1 DEF Disconnect, Fault, Spawn
    <3>2. CASE LoseRedis(s)
      BY <3>2 DEF LoseRedis, Fault
    <3>3. QED
      BY <2>15, <3>1, <3>2
  <2>16. ASSUME NEW s \in Services, Restart(s) PROVE RestTypeOK'
    <3>1. /\ connected' \in SUBSET Services /\ setups' \in [Services -> Nat]
          /\ \A t \in Services : t \in connected' \/ setups'[t] > 0
          /\ listening' \in SUBSET Services /\ redisUp' \in SUBSET Services
      BY <2>16 DEF Restart
    <3>2. /\ waitFlag' \in [Services -> BOOLEAN] /\ inbox' \in [Services -> SUBSET Asks]
          /\ uuids' \in [Services -> [Asks -> Entries]]
      BY <2>16 DEF Restart, Entries
    <3>3. /\ sent' \in SUBSET Calls /\ answered' \in SUBSET (Asks \cap sent')
          /\ polls' \in SUBSET Asks /\ polling' \in SUBSET Asks
      BY <2>16 DEF Restart, Underway
    <3>4. pc' \in [Calls -> Steps] /\ told' \in [Calls -> Replies]
      BY <2>16 DEF Restart, Steps, Replies
    <3>5. \A c \in Calls :
             \/ pc'[c] = pc[c] /\ told'[c] = told[c]
             \/ pc'[c] = "done" /\ told'[c] = "cut" /\ at[c] = s
      BY <2>16 DEF Restart, Underway
    <3>6. at' = at /\ result' = result /\ got' = got /\ faults' \in 0..MaxFaults
      BY <2>16 DEF Restart, Fault
    <3>7. /\ \A c \in Calls : pc'[c] = "ready" <=> at'[c] = Nowhere
          /\ \A c \in Calls : pc'[c] \in {"flag", "register", "wait", "expired"} => c \in Asks
          /\ \A c \in Calls : pc'[c] \in {"ready", "send"} => ~result'[c]
          /\ \A c \in Calls : pc'[c] = "done" <=> told'[c] # "nothing"
      BY <3>5, <3>6
    <3>8. QED
      BY <3>1, <3>2, <3>3, <3>4, <3>6, <3>7
  <2>17. CASE UNCHANGED vars
    BY <2>17 DEF vars
  <2>18. QED
    BY <2>1, <2>2, <2>3, <2>4, <2>5, <2>6, <2>7, <2>8, <2>9, <2>10, <2>11, <2>12, <2>13,
       <2>14, <2>15, <2>16, <2>17 DEF Next, CallStep, PollStep, ServiceStep
<1>3. QED
  BY <1>1, <1>2, PTL DEF Spec

----------------------------------------------------------------------------
\* While nothing fails, the servers that do not know a call keep its answer.
THEOREM OthersKeep == Spec => []KeptElsewhere
<1> USE RestAssumption DEF RestAssumption, Calls, Goto, Return
<1>1. Init => KeptElsewhere
  BY DEF Init, KeptElsewhere
<1>2. RestTypeOK /\ KeptElsewhere /\ [Next]_vars => KeptElsewhere'
  <2> SUFFICES ASSUME RestTypeOK, KeptElsewhere, [Next]_vars PROVE KeptElsewhere'
    OBVIOUS
  <2> USE DEF KeptElsewhere, RestTypeOK, kafka, shared, thread
  <2>1. ASSUME NEW c \in Calls, Start(c) PROVE KeptElsewhere'
    BY <2>1 DEF Start
  <2>2. ASSUME NEW c \in Calls, Send(c) PROVE KeptElsewhere'
    BY <2>2 DEF Send, Fault
  <2>3. ASSUME NEW c \in Calls, RaiseFlag(c) \/ CheckFlag(c) \/ Expire(c) PROVE KeptElsewhere'
    BY <2>3 DEF RaiseFlag, CheckFlag, Expire
  <2>4. ASSUME NEW c \in Calls, Register(c) \/ Convert(c) \/ TakeAnswer(c)
        PROVE  KeptElsewhere'
    <3>1. at[c] \in Services /\ at' = at
      BY <2>4 DEF Register, Convert, TakeAnswer
    <3>2. PICK e \in Entries : uuids' = [uuids EXCEPT ![at[c]][c] = e]
      BY <2>4 DEF Register, Convert, TakeAnswer, Entries
    <3>3. \A d \in Asks, s \in Services : s # at'[d] => uuids'[s][d] = "absent"
      BY <3>1, <3>2, EntryWritten
    <3>4. \A d \in Asks : got[d] > 0 => got'[d] > 0
      BY <2>4 DEF Register, Convert, TakeAnswer
    <3>5. QED
      BY <2>4, <3>3, <3>4 DEF Register, Convert, TakeAnswer
  <2>5. ASSUME NEW c \in Asks, Answer(c) PROVE KeptElsewhere'
    BY <2>5 DEF Answer, Fault
  <2>6. ASSUME NEW c \in Asks, PollKey(c) PROVE KeptElsewhere'
    BY <2>6 DEF PollKey
  <2>7. ASSUME NEW c \in Asks, ReturnPoll(c) PROVE KeptElsewhere'
    <3>1. CASE faults' = faults
      <4>1. polls' = polls \ {c} /\ got' = [got EXCEPT ![c] = @ + 1] /\ redisUp' = redisUp
        BY <2>7, <3>1 DEF ReturnPoll, Polled, Fault
      <4>2. got'[c] > 0 /\ \A d \in Asks : d # c => got'[d] = got[d]
        BY <4>1
      <4>3. QED
        BY <2>7, <3>1, <4>1, <4>2 DEF ReturnPoll
    <3>2. CASE faults' # faults
      BY <2>7, <3>2 DEF ReturnPoll, Fault
    <3>3. QED
      BY <3>1, <3>2
  <2>8. ASSUME NEW s \in Services, NEW c \in Asks, Consume(s, c) PROVE KeptElsewhere'
    <3>1. CASE Awaited(s, c)
      <4>1. s = at[c]
        BY <3>1 DEF Awaited
      <4>2. /\ uuids' = [uuids EXCEPT ![s][c] = "answer"]
            /\ UNCHANGED <<polls, redisUp, faults>>
        BY <2>8, <3>1 DEF Consume, Kept
      <4>3. at' = at /\ \A d \in Asks, t \in Services : t # at[d] => uuids'[t][d] = "absent"
        BY <2>8, <4>1, <4>2, EntryWritten DEF Consume, Entries
      <4>4. inbox' = [inbox EXCEPT ![s] = @ \ {c}]
        BY <2>8 DEF Consume
      <4>5. QED
        BY <2>8, <4>1, <4>2, <4>3, <4>4 DEF Consume
    <3>2. CASE ~Awaited(s, c)
      BY <2>8, <3>2 DEF Consume, Kept, Fault
    <3>3. QED
      BY <3>1, <3>2
  <2>9. ASSUME NEW s \in Services, Reconnect(s) PROVE KeptElsewhere'
    BY <2>9 DEF Reconnect
  <2>10. ASSUME NEW s \in Services, Listen(s) \/ ReconnectRedis(s) PROVE KeptElsewhere'
    BY <2>10 DEF Listen, ReconnectRedis
  <2>11. ASSUME NEW s \in Services, Disconnect(s) \/ LoseRedis(s) \/ Restart(s)
         PROVE  KeptElsewhere'
    BY <2>11 DEF Disconnect, LoseRedis, Restart, Fault
  <2>12. CASE UNCHANGED vars
    BY <2>12 DEF vars
  <2>13. QED
    BY <2>1, <2>2, <2>3, <2>4, <2>5, <2>6, <2>7, <2>8, <2>9, <2>10, <2>11, <2>12
       DEF Next, CallStep, PollStep, ServiceStep
<1>3. QED
  BY <1>1, <1>2, RestTypeCorrect, PTL DEF Spec

\* So with two servers or more, an answer that the table lost is in Redis.
THEOREM PollsFind ==
    ASSUME NEW s1 \in Services, NEW s2 \in Services, s1 # s2
    PROVE  Spec => []PollFinds
<1>1. RestTypeOK /\ KeptElsewhere => PollFinds
  <2> SUFFICES ASSUME RestTypeOK, KeptElsewhere, faults = 0, NEW c \in answered,
                      \A s \in Services : c \notin inbox[s]
               PROVE  c \in polls \/ got[c] > 0
    BY DEF PollFinds
  <2>1. PICK s \in Services : s # at[c]
    OBVIOUS
  <2>2. QED
    BY <2>1 DEF KeptElsewhere
<1>2. QED
  BY <1>1, RestTypeCorrect, OthersKeep, PTL

----------------------------------------------------------------------------
\* feed leaves the table as the consumer expects it, whatever the interleaving.
THEOREM EntriesAreSettled == Spec => []EntriesSettled
<1> USE RestAssumption DEF RestAssumption, Calls, Goto, Return
<1>1. Init => EntriesSettled
  BY DEF Init, EntriesSettled
<1>2. RestTypeOK /\ EntriesSettled /\ [Next]_vars => EntriesSettled'
  <2> SUFFICES ASSUME RestTypeOK, EntriesSettled, [Next]_vars PROVE EntriesSettled'
    OBVIOUS
  <2> USE DEF EntriesSettled, RestTypeOK, kafka, shared, thread
  <2>1. ASSUME NEW c \in Calls, Start(c) PROVE EntriesSettled'
    BY <2>1 DEF Start
  <2>2. ASSUME NEW c \in Calls, Send(c) PROVE EntriesSettled'
    BY <2>2 DEF Send, Expects
  <2>3. ASSUME NEW c \in Calls, RaiseFlag(c) \/ CheckFlag(c) \/ Expire(c) PROVE EntriesSettled'
    BY <2>3 DEF RaiseFlag, CheckFlag, Expire
  <2>4. ASSUME NEW c \in Calls, Register(c) PROVE EntriesSettled'
    BY <2>4 DEF Register
  <2>5. ASSUME NEW c \in Calls, TakeAnswer(c) \/ Convert(c) PROVE EntriesSettled'
    <3>1. at[c] \in Services /\ at' = at /\ pc'[c] = "done" /\ c \in Asks
      BY <2>5 DEF TakeAnswer, Convert
    <3>2. PICK e \in {"absent", "poll"} : uuids' = [uuids EXCEPT ![at[c]][c] = e]
      BY <2>5 DEF TakeAnswer, Convert
    <3>3. \A d \in Asks : at[d] \in Services =>
             uuids'[at[d]][d] = IF d = c THEN e ELSE uuids[at[d]][d]
      BY <3>1, <3>2, EntryWritten DEF Entries
    <3>4. \A d \in Calls : d # c => pc'[d] = pc[d] /\ told'[d] = told[d]
      BY <2>5 DEF TakeAnswer, Convert
    <3>5. QED
      BY <3>1, <3>2, <3>3, <3>4
  <2>6. ASSUME NEW c \in Asks, Answer(c) \/ PollStep(c) PROVE EntriesSettled'
    BY <2>6 DEF Answer, PollStep, PollKey, ReturnPoll
  <2>7. ASSUME NEW s \in Services, NEW c \in Asks, Consume(s, c) PROVE EntriesSettled'
    <3>1. CASE Awaited(s, c)
      <4>1. uuids' = [uuids EXCEPT ![s][c] = "answer"]
        BY <2>7, <3>1 DEF Consume, Kept
      <4>2. \A t \in Services, d \in Asks :
               uuids'[t][d] = IF t = s /\ d = c THEN "answer" ELSE uuids[t][d]
        BY <4>1, EntryWritten DEF Entries
      <4>3. UNCHANGED thread
        BY <2>7 DEF Consume
      <4>4. uuids[s][c] \notin {"absent", "poll"}
        BY <3>1 DEF Awaited
      <4>5. QED
        BY <4>2, <4>3, <4>4
    <3>2. CASE ~Awaited(s, c)
      BY <2>7, <3>2 DEF Consume
    <3>3. QED
      BY <3>1, <3>2
  <2>8. ASSUME NEW s \in Services,
               Reconnect(s) \/ Listen(s) \/ ReconnectRedis(s) \/ Disconnect(s) \/ LoseRedis(s)
        PROVE  EntriesSettled'
    BY <2>8 DEF Reconnect, Listen, ReconnectRedis, Disconnect, LoseRedis
  <2>9. ASSUME NEW s \in Services, Restart(s) PROVE EntriesSettled'
    <3>1. \A c \in Asks :
             \/ pc'[c] = pc[c] /\ told'[c] = told[c] /\ (at[c] = s => pc[c] = "done")
             \/ pc'[c] = "done" /\ told'[c] = "cut"
      BY <2>9 DEF Restart, Underway
    <3>2. /\ at' = at
          /\ \A c \in Asks, t \in Services :
                uuids'[t][c] = IF t = s THEN "absent" ELSE uuids[t][c]
      BY <2>9 DEF Restart
    <3>3. \A c \in Asks : pc[c] # "ready" => at[c] \in Services
      OBVIOUS
    <3>4. \A c \in Asks : told[c] \in {"answer", "poll_id"} => pc[c] = "done"
      OBVIOUS
    <3>5. QED
      BY <3>1, <3>2, <3>3, <3>4
  <2>10. CASE UNCHANGED vars
    BY <2>10 DEF vars
  <2>11. QED
    BY <2>1, <2>2, <2>3, <2>4, <2>5, <2>6, <2>7, <2>8, <2>9, <2>10
       DEF Next, CallStep, ServiceStep
<1>3. QED
  BY <1>1, <1>2, RestTypeCorrect, PTL DEF Spec

----------------------------------------------------------------------------
\* Of the calls made on a server one is always safe: the last to write the flag, or
\* one that has still to write it, or one that is past reading it.
THEOREM SomeoneIsSafe == Spec => []SomeoneSafe
<1> USE RestAssumption DEF RestAssumption, Calls, Goto, Return
<1>1. Init => SomeoneSafe
  BY DEF Init, SomeoneSafe, CallsOn
<1>2. RestTypeOK /\ SomeoneSafe /\ [Next]_vars => SomeoneSafe'
  <2> SUFFICES ASSUME RestTypeOK, SomeoneSafe, [Next]_vars,
                      NEW s \in Services, NEW other \in Calls, at'[other] = s
               PROVE  \E c \in Calls : at'[c] = s /\ Safe(c)'
    BY DEF SomeoneSafe, CallsOn
  <2> USE DEF kafka, shared, thread
  <2> DEFINE Idle(c) == /\ pc'[c] = pc[c] /\ at'[c] = at[c]
                        /\ result'[c] = result[c] /\ told'[c] = told[c]
  <2>1. ASSUME at[other] = s
        PROVE  \E c \in Calls : at[c] = s /\ Safe(c)
    BY <2>1 DEF SomeoneSafe, CallsOn
  \* A safe call stays safe while another takes a step and the flag does not change.
  <2>2. ASSUME NEW c \in Calls, at[c] = s, Safe(c), Idle(c), waitFlag'[s] = waitFlag[s]
        PROVE  at'[c] = s /\ Safe(c)'
    BY <2>2 DEF Safe, Misled, CallsOn
  <2>3. ASSUME NEW c \in Calls, Start(c)
        PROVE  \E d \in Calls : at'[d] = s /\ Safe(d)'
    <3>1. /\ pc[c] = "ready" /\ at[c] = Nowhere /\ ~result'[c]
          /\ \A d \in Calls : d # c => Idle(d)
      BY <2>3 DEF Start, RestTypeOK
    <3>2. CASE at'[c] = s
      <4>1. \/ pc'[c] = "send" /\ waitFlag'[s] = FALSE
            \/ pc'[c] = "done" /\ told'[c] = "error"
        BY <2>3, <3>2 DEF Start, RestTypeOK
      <4>2. Safe(c)'
        BY <3>1, <3>2, <4>1 DEF Safe, Misled, CallsOn
      <4>3. QED
        BY <3>2, <4>2
    <3>3. CASE at'[c] # s
      <4>1. waitFlag'[s] = waitFlag[s]
        BY <2>3, <3>3 DEF Start, RestTypeOK
      <4>2. at[other] = s
        BY <3>1, <3>3
      <4>3. PICK d \in Calls : at[d] = s /\ Safe(d)
        BY <2>1, <4>2
      <4>4. QED
        BY <2>2, <3>1, <4>1, <4>3
    <3>4. QED
      BY <3>2, <3>3
  <2>4. ASSUME NEW c \in Calls, RaiseFlag(c)
        PROVE  \E d \in Calls : at'[d] = s /\ Safe(d)'
    <3>1. CASE at[c] = s
      <4>1. at'[c] = s /\ pc'[c] = "register" /\ waitFlag'[s] = TRUE
        BY <2>4, <3>1 DEF RaiseFlag, RestTypeOK
      <4>2. QED
        BY <4>1 DEF Safe
    <3>2. CASE at[c] # s
      <4>1. waitFlag'[s] = waitFlag[s] /\ at' = at /\ \A d \in Calls : d # c => Idle(d)
        BY <2>4, <3>2 DEF RaiseFlag, RestTypeOK
      <4>2. PICK d \in Calls : at[d] = s /\ Safe(d)
        BY <2>1, <4>1
      <4>3. QED
        BY <2>2, <3>2, <4>1, <4>2
    <3>3. QED
      BY <3>1, <3>2
  <2>5. ASSUME NEW c \in Calls,
               \/ Send(c) \/ Register(c) \/ CheckFlag(c)
               \/ TakeAnswer(c) \/ Expire(c) \/ Convert(c)
        PROVE  \E d \in Calls : at'[d] = s /\ Safe(d)'
    <3>1. waitFlag' = waitFlag /\ at' = at /\ \A d \in Calls : d # c => Idle(d)
      BY <2>5 DEF Send, Register, CheckFlag, TakeAnswer, Expire, Convert, RestTypeOK
    <3>2. PICK d \in Calls : at[d] = s /\ Safe(d)
      BY <2>1, <3>1
    <3>3. CASE d # c
      BY <2>2, <3>1, <3>2, <3>3
    <3>4. CASE d = c
      <4>1. at'[c] = s
        BY <3>1, <3>2, <3>4
      <4>2. CASE Send(c)
        <5>1. pc[c] = "send" /\ ~result[c]
          BY <4>2 DEF Send, RestTypeOK
        <5>2. c \in Asks \/ ~waitFlag[s]
          BY <3>2, <3>4, <5>1 DEF Safe
        <5>3. \/ pc'[c] = "flag"
              \/ pc'[c] = "check" /\ c \notin Asks
              \/ pc'[c] = "done" /\ told'[c] = "error" /\ ~result'[c]
          BY <4>2, <5>1 DEF Send, RestTypeOK, Expects
        <5>4. Safe(c)'
          BY <3>1, <4>1, <5>2, <5>3 DEF Safe, Misled, CallsOn
        <5>5. QED
          BY <4>1, <5>4
      <4>3. CASE Register(c)
        <5>1. pc[c] = "register" /\ pc'[c] = "check" /\ c \in Asks
          BY <4>3 DEF Register, RestTypeOK
        <5>2. QED
          BY <3>1, <3>2, <3>4, <4>1, <5>1 DEF Safe
      <4>4. CASE CheckFlag(c)
        <5>1. pc[c] = "check" /\ result'[c] = result[c]
          BY <4>4 DEF CheckFlag
        <5>2. waitFlag[s] <=> c \in Asks
          BY <3>2, <3>4, <5>1 DEF Safe
        <5>3. \/ pc'[c] = "wait"
              \/ pc'[c] = "done" /\ told'[c] = "accepted"
              \/ pc'[c] = "done" /\ told'[c] = "error" /\ (~result'[c] \/ c \in Asks)
          BY <3>2, <3>4, <4>4, <5>1, <5>2 DEF CheckFlag, RestTypeOK
        <5>4. Safe(c)'
          BY <4>1, <5>3 DEF Safe, Misled, CallsOn
        <5>5. QED
          BY <4>1, <5>4
      <4>5. CASE TakeAnswer(c) \/ Expire(c) \/ Convert(c)
        <5>1. \/ pc'[c] = "expired"
              \/ pc'[c] = "done" /\ told'[c] \in {"answer", "poll_id"}
          BY <4>5 DEF TakeAnswer, Expire, Convert, RestTypeOK
        <5>2. QED
          BY <4>1, <5>1 DEF Safe, Misled, CallsOn
      <4>6. QED
        BY <2>5, <4>2, <4>3, <4>4, <4>5
    <3>5. QED
      BY <3>3, <3>4
  <2>6. ASSUME UNCHANGED <<waitFlag, thread>>
        PROVE  \E d \in Calls : at'[d] = s /\ Safe(d)'
    BY <2>1, <2>2, <2>6
  <2>7. ASSUME NEW c \in Asks, Answer(c) \/ PollStep(c) PROVE UNCHANGED <<waitFlag, thread>>
    BY <2>7 DEF Answer, PollStep, PollKey, ReturnPoll
  <2>8. ASSUME NEW t \in Services, ServiceStep(t) \/ Disconnect(t) \/ LoseRedis(t)
        PROVE  UNCHANGED <<waitFlag, thread>>
    BY <2>8 DEF ServiceStep, Consume, Reconnect, Listen, ReconnectRedis, Disconnect, LoseRedis
  \* A restart cuts calls short, which misleads none of them.
  <2>9. ASSUME NEW t \in Services, Restart(t)
        PROVE  \E d \in Calls : at'[d] = s /\ Safe(d)'
    <3>1. /\ at' = at /\ result' = result
          /\ \A d \in Calls : d \in Underway(t) => pc'[d] = "done" /\ told'[d] = "cut"
          /\ \A d \in Calls : d \notin Underway(t) => pc'[d] = pc[d] /\ told'[d] = told[d]
      BY <2>9 DEF Restart
    <3>2. PICK d \in Calls : at[d] = s /\ Safe(d)
      BY <2>1, <3>1
    <3>3. CASE d \in Underway(t)
      BY <3>1, <3>2, <3>3 DEF Safe, Misled
    <3>4. CASE d \notin Underway(t) /\ t = s
      <4>1. pc[d] = "done" /\ Idle(d)
        BY <3>1, <3>2, <3>4 DEF Underway
      <4>2. QED
        BY <3>2, <4>1 DEF Safe, Misled, CallsOn
    <3>5. CASE d \notin Underway(t) /\ t # s
      <4>1. waitFlag'[s] = waitFlag[s] /\ Idle(d)
        BY <2>9, <3>1, <3>5 DEF Restart, RestTypeOK
      <4>2. QED
        BY <2>2, <3>2, <4>1
    <3>6. QED
      BY <3>3, <3>4, <3>5
  <2>10. CASE UNCHANGED vars
    BY <2>6, <2>10 DEF vars
  <2>11. QED
    BY <2>3, <2>4, <2>5, <2>6, <2>7, <2>8, <2>9, <2>10 DEF Next, CallStep
<1>3. QED
  BY <1>1, <1>2, RestTypeCorrect, PTL DEF Spec

\* So the shared flag never misleads every call that was made on a server.
THEOREM NotAllMisled == Spec => []MisledBound
<1>1. RestTypeOK /\ SomeoneSafe => MisledBound
  <2> SUFFICES ASSUME RestTypeOK, SomeoneSafe, NEW s \in Services,
                      Misled(s) # {}, Misled(s) = CallsOn(s)
               PROVE  FALSE
    BY DEF MisledBound
  <2>1. PICK c \in CallsOn(s) : Safe(c)
    BY DEF SomeoneSafe
  <2>2. c \in Calls /\ at[c] = s /\ c \in Misled(s) /\ told[c] # "nothing"
    BY <2>1 DEF CallsOn, Misled
  <2>3. pc[c] = "done"
    BY <2>2 DEF RestTypeOK
  <2>4. QED
    BY <2>1, <2>2, <2>3 DEF Safe
<1>2. QED
  BY <1>1, RestTypeCorrect, SomeoneIsSafe, PTL

----------------------------------------------------------------------------
LEMMA SomeServices ==
    ASSUME NEW T \in SUBSET Services
    PROVE  /\ IsFiniteSet(T) /\ Cardinality(T) \in Nat
           /\ Cardinality(Services) \in Nat /\ Cardinality(T) <= Cardinality(Services)
<1>1. IsFiniteSet(Services)
  BY RestAssumption DEF RestAssumption
<1>2. QED
  BY <1>1, FS_Subset, FS_CardinalityType

LEMMA Multiples ==
    ASSUME NEW n \in Nat, NEW x \in Nat, NEW y \in Nat, x <= y
    PROVE  /\ n * x \in Nat /\ n * y \in Nat /\ n * x <= n * y
           /\ x < y => n * x + n <= n * y
<1>1. n * x \in Nat /\ n * y \in Nat /\ n * x <= n * y
  OBVIOUS
<1>2. ASSUME x < y PROVE n * x + n <= n * y
  <2>1. n * (x + 1) = n * x + n
    OBVIOUS
  <2>2. x + 1 <= y
    BY <1>2
  <2>3. n * (x + 1) <= n * y
    BY <2>2
  <2>4. QED
    BY <2>1, <2>3
<1>3. QED
  BY <1>1, <1>2

\* A further fault, or the first sending of an answer, pays for a copy on each server.
LEMMA PaidGrows ==
    ASSUME RestTypeOK, RestTypeOK', NEW c \in Asks,
           c \in answered => c \in answered', faults <= faults'
    PROVE  /\ Paid(c) \in Nat /\ Paid(c)' \in Nat
           /\ Paid(c) <= Paid(c)'
           /\ (c \notin answered /\ c \in answered') \/ faults < faults'
              => Paid(c) + Cardinality(Services) <= Paid(c)'
<1> DEFINE N == Cardinality(Services)
           a == IF c \in answered THEN 1 ELSE 0
           b == IF c \in answered' THEN 1 ELSE 0
           later == faults'
<1>1. faults \in Nat /\ later \in Nat /\ faults <= later
  BY RestAssumption DEF RestAssumption, RestTypeOK
<1>2. a \in Nat /\ b \in Nat /\ a <= b /\ (c \notin answered /\ c \in answered' => a < b)
  OBVIOUS
<1>3. N \in Nat
  BY SomeServices
<1>4. Paid(c) = N * (a + faults) /\ Paid(c)' = N * (b + later)
  BY DEF Paid
<1>5. (c \notin answered /\ c \in answered') \/ faults < faults' => a < b \/ faults < later
  BY <1>2
<1> HIDE DEF N, a, b, later
<1>6. /\ a + faults \in Nat /\ b + later \in Nat /\ a + faults <= b + later
      /\ a < b \/ faults < later => a + faults < b + later
  BY <1>1, <1>2
<1>7. /\ N * (a + faults) \in Nat /\ N * (b + later) \in Nat
      /\ N * (a + faults) <= N * (b + later)
      /\ a + faults < b + later => N * (a + faults) + N <= N * (b + later)
  BY <1>3, <1>6, Multiples
<1>8. QED
  BY <1>4, <1>5, <1>6, <1>7 DEF N

\* No step but a sending makes a copy of an answer without using one up.
THEOREM CopiesArePaid == Spec => []CopiesPaid
<1> USE DEF Goto, Return, Calls
<1>1. Init => CopiesPaid
  <2> SUFFICES ASSUME Init, NEW c \in Asks PROVE c \notin polling /\ Copies(c) <= Paid(c)
    BY DEF CopiesPaid
  <2>1. Holds(c) = {}
    BY DEF Init, Holds
  <2>2. Cardinality(Holds(c)) = 0
    BY <2>1, FS_EmptySet
  <2>3. got[c] = 0 /\ InRedis(c) = 0 /\ InTable(c) = 0 /\ c \notin polling
    BY DEF Init, InRedis, InTable
  <2>4. Cardinality(Services) \in Nat
    BY SomeServices
  <2>5. Paid(c) = 0
    BY <2>4 DEF Init, Paid
  <2>6. QED
    BY <2>2, <2>3, <2>5 DEF Copies
<1>2. /\ RestTypeOK /\ RestTypeOK' /\ EntriesSettled /\ CopiesPaid /\ [Next]_vars
      => CopiesPaid'
  <2> SUFFICES ASSUME RestTypeOK, RestTypeOK', EntriesSettled, CopiesPaid, [Next]_vars,
                      NEW c \in Asks
               PROVE  (c \in polling' => c \in polls') /\ Copies(c)' <= Paid(c)'
    BY DEF CopiesPaid
  <2> USE DEF kafka, shared, thread
  <2> DEFINE H == Cardinality(Holds(c))
             Goal == (c \in polling' => c \in polls') /\ Copies(c)' <= Paid(c)'
             Grown == (c \in answered => c \in answered') /\ faults <= faults'
             Polls == UNCHANGED <<got, polls, polling>>
  <2>1. /\ got[c] \in Nat /\ InRedis(c) \in {0, 1} /\ InTable(c) \in {0, 1}
        /\ got'[c] \in Nat /\ InRedis(c)' \in {0, 1} /\ InTable(c)' \in {0, 1}
    BY DEF RestTypeOK, InRedis, InTable
  <2>2. /\ H \in Nat /\ H' \in Nat /\ Cardinality(Services) \in Nat
        /\ H' <= Cardinality(Services)
        /\ IsFiniteSet(Holds(c)) /\ Holds(c)' \in SUBSET Services
    <3>1. Holds(c) \in SUBSET Services /\ Holds(c)' \in SUBSET Services
      BY DEF Holds
    <3>2. QED
      BY <3>1, SomeServices
  <2>3. (c \in polling => c \in polls) /\ got[c] + InRedis(c) + InTable(c) + H <= Paid(c)
    BY DEF CopiesPaid, Copies
  <2>4. Copies(c)' = got'[c] + InRedis(c)' + InTable(c)' + H'
    BY DEF Copies
  <2>5. faults \in Nat /\ faults' \in Nat
    BY RestAssumption DEF RestTypeOK, RestAssumption
  \* A step that makes no copy for nothing keeps the account.
  <2>6. ASSUME Grown, c \in polling' => c \in polls',
               got'[c] + InRedis(c)' + InTable(c)' + H' <= got[c] + InRedis(c) + InTable(c) + H
        PROVE  Goal
    <3>1. Paid(c) \in Nat /\ Paid(c)' \in Nat /\ Paid(c) <= Paid(c)'
      BY <2>6, PaidGrows
    <3> HIDE DEF H
    <3>2. QED
      BY <2>1, <2>2, <2>3, <2>4, <2>6, <3>1
  <2>7. ASSUME inbox' = inbox PROVE H' = H
    BY <2>7 DEF Holds
  <2>8. ASSUME polls' = polls PROVE InRedis(c)' = InRedis(c)
    BY <2>8 DEF InRedis
  <2>9. ASSUME UNCHANGED <<pc, at, uuids>> PROVE InTable(c)' = InTable(c)
    BY <2>9 DEF InTable
  <2> HIDE DEF H
  <2>10. ASSUME Polls, Grown, InTable(c)' <= InTable(c), inbox' = inbox
         PROVE  Goal
    BY <2>1, <2>2, <2>3, <2>6, <2>7, <2>8, <2>10
  <2>11. ASSUME NEW d \in Calls, Start(d) \/ RaiseFlag(d) \/ CheckFlag(d) \/ Expire(d)
         PROVE  Goal
    <3>1. Polls /\ Grown /\ inbox' = inbox /\ uuids' = uuids
      BY <2>5, <2>11 DEF Start, RaiseFlag, CheckFlag, Expire
    <3>2. CASE d = c
      <4>1. \/ pc'[c] \notin {"check", "wait"}
            \/ pc[c] = "check" /\ at' = at
        BY <2>11, <3>2 DEF Start, RaiseFlag, CheckFlag, Expire, RestTypeOK
      <4>2. QED
        BY <2>1, <2>10, <3>1, <4>1 DEF InTable
    <3>3. CASE d # c
      <4>1. pc'[c] = pc[c] /\ at'[c] = at[c]
        BY <2>11, <3>3 DEF Start, RaiseFlag, CheckFlag, Expire, RestTypeOK
      <4>2. InTable(c)' = InTable(c)
        BY <3>1, <4>1 DEF InTable
      <4>3. QED
        BY <2>1, <2>10, <3>1, <4>2
    <3>4. QED
      BY <3>2, <3>3
  <2>12. ASSUME NEW d \in Calls, Send(d) PROVE Goal
    <3>1. Polls /\ Grown /\ inbox' = inbox /\ uuids' = uuids /\ at' = at
      BY <2>5, <2>12 DEF Send, Fault
    <3>2. pc'[c] = pc[c] \/ pc'[c] \in {"flag", "done"}
      BY <2>12 DEF Send, RestTypeOK, Expects
    <3>3. QED
      BY <2>1, <2>10, <3>1, <3>2 DEF InTable
  <2>13. ASSUME NEW d \in Calls, Register(d) \/ Convert(d) PROVE Goal
    <3>1. Polls /\ Grown /\ inbox' = inbox /\ at' = at
      BY <2>5, <2>13 DEF Register, Convert
    <3>2. PICK e \in {"None", "poll"} :
             d \in Asks /\ at[d] \in Services /\ uuids' = [uuids EXCEPT ![at[d]][d] = e]
      BY <2>13 DEF Register, Convert, RestTypeOK
    <3>3. \A t \in Services : uuids'[t][c] = IF t = at[d] /\ c = d THEN e ELSE uuids[t][c]
      <4>1. PICK u \in Services : u = at[d]
        BY <3>2
      <4>2. e \in Entries /\ uuids' = [uuids EXCEPT ![u][d] = e]
        BY <3>2, <4>1 DEF Entries
      <4>3. \A t \in Services, f \in Asks :
               uuids'[t][f] = IF t = u /\ f = d THEN e ELSE uuids[t][f]
        BY <4>2, EntryWritten DEF RestTypeOK
      <4>4. QED
        BY <4>1, <4>3
    <3>4. CASE d = c
      <4>1. uuids'[at[c]][c] = e
        BY <3>2, <3>3, <3>4
      <4>2. InTable(c)' = 0
        BY <3>1, <3>2, <4>1 DEF InTable
      <4>3. QED
        BY <2>1, <2>10, <3>1, <4>2
    <3>5. CASE d # c
      <4>1. pc'[c] = pc[c] /\ (pc[c] \in {"check", "wait"} => at[c] \in Services)
        BY <2>13, <3>5 DEF Register, Convert, RestTypeOK
      <4>2. InTable(c)' = InTable(c)
        BY <3>1, <3>3, <3>5, <4>1 DEF InTable
      <4>3. QED
        BY <2>1, <2>10, <3>1, <4>2
    <3>6. QED
      BY <3>4, <3>5
  <2>14. ASSUME NEW d \in Calls, TakeAnswer(d) PROVE Goal
    <3>1. UNCHANGED <<polls, polling, inbox, at>> /\ Grown /\ d \in Asks
      BY <2>5, <2>14 DEF TakeAnswer, RestTypeOK
    <3>2. CASE d = c
      <4>1. pc[c] = "wait" /\ pc'[c] = "done" /\ uuids[at[c]][c] = "answer"
        BY <2>14, <3>2 DEF TakeAnswer, RestTypeOK, EntriesSettled
      <4>2. InTable(c) = 1 /\ InTable(c)' = 0
        BY <4>1 DEF InTable
      <4>3. got'[c] = got[c] + 1
        BY <2>14, <3>2 DEF TakeAnswer, RestTypeOK
      <4>4. QED
        BY <2>1, <2>2, <2>3, <2>6, <2>7, <2>8, <3>1, <4>2, <4>3
    <3>3. CASE d # c
      <4>1. got'[c] = got[c] /\ pc'[c] = pc[c]
        BY <2>14, <3>3 DEF TakeAnswer, RestTypeOK
      <4>2. \A t \in Services : uuids'[t][c] = uuids[t][c]
        BY <2>14, <3>1, <3>3, EntryWritten DEF TakeAnswer, RestTypeOK, Entries
      <4>3. pc[c] \in {"check", "wait"} => at[c] \in Services
        BY DEF RestTypeOK
      <4>4. InTable(c)' = InTable(c)
        BY <3>1, <4>1, <4>2, <4>3 DEF InTable
      <4>5. QED
        BY <2>1, <2>2, <2>3, <2>6, <2>7, <2>8, <3>1, <4>1, <4>4
    <3>4. QED
      BY <3>2, <3>3
  <2>15. ASSUME NEW d \in Asks, Answer(d) PROVE Goal
    <3>1. Polls /\ Grown /\ InTable(c)' = InTable(c)
      BY <2>5, <2>9, <2>15 DEF Answer, Fault
    <3>2. CASE d = c
      <4>1. (c \notin answered /\ c \in answered') \/ faults < faults'
        BY <2>5, <2>15, <3>2 DEF Answer, Fault
      <4>2. /\ Paid(c) \in Nat /\ Paid(c)' \in Nat
            /\ Paid(c) + Cardinality(Services) <= Paid(c)'
        BY <3>1, <4>1, PaidGrows
      <4>3. QED
        BY <2>1, <2>2, <2>3, <2>4, <2>8, <3>1, <4>2
    <3>3. CASE d # c
      <4>1. Holds(c)' = Holds(c)
        BY <2>15, <3>3 DEF Answer, Holds, RestTypeOK
      <4>2. H' = H
        BY <4>1 DEF H
      <4>3. QED
        BY <2>1, <2>2, <2>3, <2>6, <2>8, <3>1, <4>2
    <3>4. QED
      BY <3>2, <3>3
  <2>16. ASSUME NEW d \in Asks, PollKey(d) PROVE Goal
    <3>1. /\ UNCHANGED <<got, polls, inbox>> /\ Grown /\ InTable(c)' = InTable(c)
          /\ c \in polling' => c \in polls'
      BY <2>3, <2>5, <2>9, <2>16 DEF PollKey
    <3>2. QED
      BY <2>1, <2>2, <2>3, <2>6, <2>7, <2>8, <3>1
  <2>17. ASSUME NEW d \in Asks, ReturnPoll(d) PROVE Goal
    <3>1. inbox' = inbox /\ Grown /\ InTable(c)' = InTable(c)
      BY <2>5, <2>9, <2>17 DEF ReturnPoll, Fault
    <3>2. c \in polling' => c \in polls'
      BY <2>3, <2>17 DEF ReturnPoll, Polled
    <3>3. CASE d # c
      <4>1. got'[c] = got[c] /\ (c \in polls' <=> c \in polls)
        BY <2>17, <3>3 DEF ReturnPoll, Polled, RestTypeOK
      <4>2. InRedis(c)' = InRedis(c)
        BY <4>1 DEF InRedis
      <4>3. QED
        BY <2>1, <2>2, <2>3, <2>6, <2>7, <3>1, <3>2, <4>1, <4>2
    <3>4. CASE d = c
      <4>1. c \in polls
        BY <2>3, <2>17, <3>4 DEF ReturnPoll
      <4>2. \/ got'[c] = got[c] + 1 /\ c \notin polls'
            \/ got'[c] = got[c]
        BY <2>17, <3>4 DEF ReturnPoll, Polled, RestTypeOK
      <4>3. got'[c] + InRedis(c)' <= got[c] + InRedis(c)
        BY <2>1, <4>1, <4>2 DEF InRedis
      <4>4. QED
        BY <2>1, <2>2, <2>3, <2>6, <2>7, <3>1, <3>2, <4>3
    <3>5. QED
      BY <3>3, <3>4
  <2>18. ASSUME NEW t \in Services, NEW d \in Asks, Consume(t, d) PROVE Goal
    <3>1. Grown /\ UNCHANGED <<thread, polling, got>>
      BY <2>5, <2>18 DEF Consume, Fault
    <3>2. polls \subseteq polls'
      BY <2>18 DEF Consume
    <3>3. CASE d # c
      <4>1. Holds(c)' = Holds(c)
        BY <2>18, <3>3 DEF Consume, Holds, RestTypeOK
      <4>2. H' = H
        BY <4>1 DEF H
      <4>3. InRedis(c)' = InRedis(c)
        BY <2>18, <3>3 DEF Consume, InRedis
      <4>4. \A u \in Services : uuids'[u][c] = uuids[u][c]
        BY <2>18, <3>3, EntryWritten DEF Consume, Entries
      <4>5. pc[c] \in {"check", "wait"} => at[c] \in Services
        BY DEF RestTypeOK
      <4>6. InTable(c)' = InTable(c)
        BY <3>1, <4>4, <4>5 DEF InTable
      <4>7. QED
        BY <2>1, <2>2, <2>3, <2>6, <3>1, <3>2, <4>2, <4>3, <4>6
    <3>4. CASE d = c
      <4>1. Holds(c)' = Holds(c) \ {t} /\ t \in Holds(c)
        BY <2>18, <3>4 DEF Consume, Holds, RestTypeOK
      <4>2. H' = H - 1
        BY <2>2, <4>1, FS_RemoveElement DEF H
      <4>3. \/ uuids' = uuids
            \/ polls' = polls
        BY <2>18 DEF Consume
      <4>4. InRedis(c)' + InTable(c)' <= InRedis(c) + InTable(c) + 1
        BY <2>1, <2>8, <2>9, <3>1, <4>3
      <4>5. QED
        BY <2>1, <2>2, <2>3, <2>6, <3>1, <3>2, <4>2, <4>4
    <3>5. QED
      BY <3>3, <3>4
  <2>19. ASSUME NEW t \in Services, Reconnect(t) PROVE Goal
    <3>1. Polls /\ Grown /\ InTable(c)' = InTable(c)
      BY <2>5, <2>9, <2>19 DEF Reconnect
    <3>2. Holds(c)' \subseteq Holds(c)
      BY <2>19 DEF Reconnect, Holds, RestTypeOK
    <3>3. H' <= H
      BY <2>2, <3>2, FS_Subset DEF H
    <3>4. QED
      BY <2>1, <2>2, <2>3, <2>6, <2>8, <3>1, <3>3
  <2>20. ASSUME NEW t \in Services,
                Listen(t) \/ ReconnectRedis(t) \/ Disconnect(t) \/ LoseRedis(t)
         PROVE  Goal
    <3>1. Polls /\ Grown /\ inbox' = inbox /\ InTable(c)' = InTable(c)
      BY <2>5, <2>9, <2>20 DEF Listen, ReconnectRedis, Disconnect, LoseRedis, Fault
    <3>2. QED
      BY <2>1, <2>10, <3>1
  <2>21. ASSUME NEW t \in Services, Restart(t) PROVE Goal
    <3>1. Grown /\ got' = got /\ at' = at
      BY <2>5, <2>21 DEF Restart, Fault
    <3>2. (c \in polling' => c \in polls') /\ polls' \subseteq polls
      BY <2>3, <2>21 DEF Restart
    <3>3. InRedis(c)' <= InRedis(c)
      BY <3>2 DEF InRedis
    <3>4. InTable(c)' <= InTable(c)
      <4>1. CASE at[c] = t
        <5>1. pc'[c] = "done"
          BY <2>21, <4>1 DEF Restart, Underway
        <5>2. QED
          BY <2>1, <5>1 DEF InTable
      <4>2. CASE at[c] # t
        <5>1. pc'[c] = pc[c] /\ (pc[c] \in {"check", "wait"} => at[c] \in Services)
          BY <2>21, <4>2 DEF Restart, Underway, RestTypeOK
        <5>2. at[c] \in Services => uuids'[at[c]][c] = uuids[at[c]][c]
          BY <2>21, <4>2 DEF Restart, RestTypeOK
        <5>3. InTable(c)' = InTable(c)
          BY <3>1, <5>1, <5>2 DEF InTable
        <5>4. QED
          BY <2>1, <5>3
      <4>3. QED
        BY <4>1, <4>2
    <3>5. Holds(c)' \subseteq Holds(c)
      BY <2>21 DEF Restart, Holds, RestTypeOK
    <3>6. H' <= H
      BY <2>2, <3>5, FS_Subset DEF H
    <3>7. QED
      BY <2>1, <2>2, <2>3, <2>6, <3>1, <3>2, <3>3, <3>4, <3>6
  <2>22. CASE UNCHANGED vars
    <3>1. Polls /\ Grown /\ inbox' = inbox /\ InTable(c)' = InTable(c)
      BY <2>5, <2>9, <2>22 DEF vars
    <3>2. QED
      BY <2>1, <2>10, <3>1
  <2>23. QED
    BY <2>11, <2>12, <2>13, <2>14, <2>15, <2>16, <2>17, <2>18, <2>19, <2>20, <2>21, <2>22
       DEF Next, CallStep, PollStep, ServiceStep
<1>3. QED
  BY <1>1, <1>2, RestTypeCorrect, EntriesAreSettled, PTL DEF Spec

\* So the client gets an answer at most once a server, each time it is sent.
THEOREM HandedOutBounded == Spec => []HandedOut
<1>1. RestTypeOK /\ CopiesPaid => HandedOut
  <2> SUFFICES ASSUME RestTypeOK, CopiesPaid, NEW c \in Asks
               PROVE  got[c] <= Cardinality(Services) * (1 + faults)
    BY DEF HandedOut
  <2>1. got[c] \in Nat /\ InRedis(c) \in {0, 1} /\ InTable(c) \in {0, 1} /\ faults \in Nat
    BY RestAssumption DEF RestAssumption, RestTypeOK, InRedis, InTable
  <2>2. Holds(c) \in SUBSET Services
    BY DEF Holds
  <2>3. Cardinality(Holds(c)) \in Nat /\ Cardinality(Services) \in Nat
    BY <2>2, SomeServices
  <2>4. Paid(c) \in Nat /\ got[c] <= Paid(c)
    <3>1. Copies(c) <= Paid(c)
      BY DEF CopiesPaid
    <3>2. Paid(c) \in Nat
      BY <2>1, <2>3 DEF Paid
    <3>3. QED
      BY <2>1, <2>3, <3>1, <3>2 DEF Copies
  <2>5. Paid(c) <= Cardinality(Services) * (1 + faults)
    BY <2>1, <2>3 DEF Paid
  <2>6. QED
    BY <2>1, <2>3, <2>4, <2>5
<1>2. QED
  BY <1>1, RestTypeCorrect, CopiesArePaid, PTL
=============================================================================
