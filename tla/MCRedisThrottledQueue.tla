----------------------- MODULE MCRedisThrottledQueue -----------------------
(***************************************************************************)
(* Small instances of RedisThrottledQueue for TLC.  The clients are        *)
(* interchangeable: no action or property names one of them.               *)
(***************************************************************************)
EXTENDS RedisThrottledQueue, TLC

ClientSymmetry == Permutations(Clients)

----------------------------------------------------------------------------
(***************************************************************************)
(* Liveness needs a clock that never stops.  Only differences of times     *)
(* matter to the queue, so a reading of MaxTime or more is moved back by   *)
(* one together with every other time.  A time that falls to 0 is older    *)
(* than two windows: a hit any trim removes, a moderate_key that expired.  *)
(* The histories do not take part in any step and are dropped.             *)
(*                                                                         *)
(* A client inside a call sees at most StallBound ticks pass between its   *)
(* reading of the clock and the end of the call; MaxTime leaves room for a *)
(* window before the oldest reading still in use.                          *)
(***************************************************************************)
StallBound == 1

ASSUME RebaseAssumption ==
    /\ MaxTime >= 2 * Window
    /\ MaxTime >= Window + StallBound + 1

Earlier(t) == IF t > 0 THEN t - 1 ELSE 0

Rebase ==
    /\ now >= MaxTime
    /\ now' = now - 1
    /\ hits' = {Earlier(h) : h \in hits}
    /\ modTime' = Earlier(modTime)
    /\ clk' = [c \in Clients |-> Earlier(clk[c])]
    /\ stamp' = [c \in Clients |-> Earlier(stamp[c])]
    /\ grants' = {}
    /\ pops' = {}
    /\ UNCHANGED <<qlen, pc, kick, watches, clears, crashes>>

PatientTick ==
    /\ \A c \in Clients : pc[c] = "idle" \/ now - clk[c] < StallBound
    /\ now < MaxTime
    /\ now' = now + 1
    /\ grants' = {}
    /\ pops' = {}
    /\ UNCHANGED <<keys, locals, watches, clears, crashes>>

LiveNext ==
    \/ \E c \in Clients : ClientStep(c)
    \/ Push \/ WindowKeyExpires \/ ModerateKeyExpires \/ PatientTick \/ Rebase

\* A spider polls for ever (next_request is called on every idle tick of the
\* engine), each of its commands is answered, and time goes on.
LiveSpec ==
    /\ Init
    /\ [][LiveNext]_vars
    /\ \A c \in Clients : WF_vars(ClientStep(c))
    /\ WF_vars(PatientTick \/ Rebase)

\* Throttling delays pops and never ends them: clients that invalidate each
\* other's transactions, or lose moderate_key after entering a hit, cannot keep
\* a waiting item from all of them for ever.
QueueServed == qlen = MaxQueue ~> qlen < MaxQueue
============================================================================
