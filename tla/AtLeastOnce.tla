----------------------------- MODULE AtLeastOnce -----------------------------
(***************************************************************************)
(* What a group of consumers promises the producers of a log, with nothing *)
(* said of who consumes, crashes or takes over: the log only grows, what   *)
(* was dealt with stays dealt with, and the position from which the group  *)
(* goes on after whatever happens to it never goes back, and passes a      *)
(* message only when that was dealt with or is known to be lost.           *)
(***************************************************************************)
EXTENDS Integers, Sequences

VARIABLES
    log,      \* the messages
    cursor,   \* where the group goes on; 0 before it has begun
    done,     \* the messages that were dealt with, once or more often
    lost      \* those that were given up, or removed unread

vars == <<log, cursor, done, lost>>

Init ==
    /\ log = <<>> /\ cursor = 0
    /\ done = {} /\ lost = {}

Produce ==
    /\ Len(log') > Len(log)
    /\ \A o \in DOMAIN log : log'[o] = log[o]
    /\ UNCHANGED <<cursor, done, lost>>

Deal(o) ==
    /\ done' = done \cup {o}
    /\ UNCHANGED <<log, cursor, lost>>

Lose(o) ==
    /\ lost' = lost \cup {o}
    /\ UNCHANGED <<log, cursor, done>>

\* The last message before the new position may be given up with the step.
Pass ==
    /\ cursor' > cursor /\ cursor' <= Len(log) + 1
    /\ lost' \in {lost, lost \cup {cursor' - 1}}
    /\ \A o \in DOMAIN log : o < cursor' => o \in done \cup lost'
    /\ UNCHANGED <<log, done>>

Next ==
    \/ Produce \/ Pass
    \/ \E o \in DOMAIN log : Deal(o) \/ Lose(o)

Spec == Init /\ [][Next]_vars
==============================================================================
