---------------------------- MODULE RateLimiter ----------------------------
(***************************************************************************)
(* What a throttled queue promises its clients, with nothing said of how:  *)
(* a stamp is admitted only while fewer than Limit stamps of the window    *)
(* that ends at it were, an admitted stamp is at most one client's permit, *)
(* and only the holder of a permit may call the queue, once.               *)
(***************************************************************************)
EXTENDS Integers, FiniteSets

CONSTANTS Clients, Window, Limit

VARIABLES
    now,        \* the clock
    admitted,   \* every stamp let through since the last reset
    permit,     \* the stamp each client may still use; 0 when it has none
    waiting     \* the number of items in the queue

vars == <<now, admitted, permit, waiting>>

Init ==
    /\ now = Window
    /\ admitted = {}
    /\ permit = [c \in Clients |-> 0]
    /\ waiting = 0

Admit(c) ==
    \E s \in 1..now :
        /\ permit[c] = 0
        /\ \A g \in admitted : g < s
        /\ Cardinality({g \in admitted : g > s - Window}) < Limit
        /\ admitted' = admitted \cup {s}
        /\ permit' = [permit EXCEPT ![c] = s]
        /\ now' >= now
        /\ UNCHANGED waiting

Use(c) ==
    /\ permit[c] # 0
    /\ permit' = [permit EXCEPT ![c] = 0]
    /\ waiting' = IF waiting > 0 THEN waiting - 1 ELSE 0
    /\ UNCHANGED <<now, admitted>>

Lose(c) ==
    /\ permit' = [permit EXCEPT ![c] = 0]
    /\ UNCHANGED <<now, admitted, waiting>>

Put ==
    /\ waiting' = waiting + 1
    /\ UNCHANGED <<now, admitted, permit>>

Reset ==
    /\ \/ admitted' = {} /\ UNCHANGED waiting
       \/ waiting' = 0 /\ UNCHANGED admitted
    /\ UNCHANGED <<now, permit>>

Advance ==
    /\ now' > now
    /\ UNCHANGED <<admitted, permit, waiting>>

Next ==
    \/ \E c \in Clients : Admit(c) \/ Use(c) \/ Lose(c)
    \/ Put \/ Reset \/ Advance

Spec == Init /\ [][Next]_vars
============================================================================
