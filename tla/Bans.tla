-------------------------------- MODULE Bans --------------------------------
(***************************************************************************)
(* What a list of bans promises.  An order bans somebody until some time,  *)
(* or lifts a ban; it takes effect before the next call is answered; then  *)
(* the ban is in force until its end or the next order, and whoever asks   *)
(* is told so.  There is no process and no file here: their crashes may    *)
(* lose an order that is still under way, and nothing else.  Once the list *)
(* has been damaged it promises nothing.                                   *)
(***************************************************************************)
EXTENDS Naturals

CONSTANTS
    Targets,   \* who can be banned
    Exempt,    \* who never is
    Forever,   \* the end of a permanent ban
    Free       \* not banned

VARIABLES
    now,       \* the time
    until,     \* until[t]: the end of the ban of t, or Free
    last,      \* the last call: an order, or a question with its answer
    damaged

vars == <<now, until, last, damaged>>

NoCall == [op |-> "none", target |-> Free, end |-> Free]
OrderFor(t, end) == [op |-> "order", target |-> t, end |-> end]
Answer(t, banned) ==
    [op |-> IF banned THEN "banned" ELSE "not banned", target |-> t, end |-> Free]

(* A ban is over when its end has passed. *)
Current(end, time) == IF end \in Nat /\ end < time THEN Free ELSE end

Done == last.op = "order" => until[last.target] = Current(last.end, now)

Init ==
    /\ now = 0
    /\ until = [t \in Targets |-> Free]
    /\ last = NoCall
    /\ damaged = FALSE

Tick ==
    /\ now' = now + 1
    /\ until' = [t \in Targets |-> Current(until[t], now')]
    /\ UNCHANGED <<last, damaged>>

Order(t, end) ==
    /\ Done
    /\ end \in Nat \cup {Forever, Free}
    /\ t \in Exempt => end = Free
    /\ last' = OrderFor(t, end)
    /\ UNCHANGED <<now, until, damaged>>

Take ==
    /\ last.op = "order"
    /\ until' = [until EXCEPT ![last.target] = Current(last.end, now)]
    /\ UNCHANGED <<now, last, damaged>>

Ask(t) ==
    /\ Done
    /\ last' = Answer(t, until[t] # Free)
    /\ UNCHANGED <<now, until, damaged>>

(* Another list is called, or the caller dies. *)
Forget ==
    /\ last' = NoCall
    /\ UNCHANGED <<now, until, damaged>>

Damage == damaged'

Next ==
    \/ Tick \/ Take \/ Forget \/ Damage
    \/ \E t \in Targets : Ask(t) \/ Order(t, last'.end)

Spec == Init /\ [][Next]_vars
=============================================================================
