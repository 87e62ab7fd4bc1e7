---------------------------- MODULE MCFederation ----------------------------
(* Instances of Federation for TLC: two nodes that have met.               *)
EXTENDS Federation, TLC

CONSTANTS n1, n2, u1, u2, r1

Homes == u1 :> n1 @@ u2 :> n2
AtFirst == u1 :> n1
NoSeeds == [n \in Nodes |-> {}]

(* u2 is in room r1 of its node, and u1 is about to find it. *)
Hosted == Meshed([n \in Nodes |-> [r \in RoomIds |-> IF n = n2 /\ r = r1 THEN {u2} ELSE {}]])

(* Bound: what is under way between nodes, calls of players aside. *)
Underway == Cardinality(events) + Cardinality(pulls) + Cardinality(msgs) <= 2

(* One guest and its host: no rounds.  What is under way bounds what is   *)
(* started, never the arrival of a handshake.                              *)
GuestNext ==
    \/ /\ \/ \E cmd \in Cmds : cmd.type # "other" /\ Command(u1, cmd)
          \/ Connect(u1) \/ Disconnect(u1)
          \/ Kick(n2, u1) \/ \E r \in RoomIds : CloseRoom(n2, r)
          \/ \E n \in Nodes, r \in RoomIds : GreetingDone(n, r)
          \/ CallStep \/ EventStep \/ PullStep
          \/ \E n \in Nodes : Starts(n) \/ TimersStart(n) \/ Crashes(n)
          \/ \E n, m \in Nodes : CheckOk(n, m) \/ CheckMissed(n, m)
       /\ Underway'
    \/ \E g \in msgs : GreetedBy(g) \/ Greeted(g) \/ HelloLost(g)

GuestSpec == Hosted /\ [][GuestNext]_vars

(* What is under way arrives or is lost; a request is answered or its      *)
(* requester gives up; a dead node is started again, and missed by the     *)
(* health checks until it is.                                              *)
FairGuestSpec ==
    /\ GuestSpec
    /\ WF_vars(EventStep) /\ WF_vars(PullStep)
    /\ WF_vars(\E g \in msgs : GreetedBy(g) \/ Greeted(g) \/ HelloLost(g))
    /\ WF_vars(\E n \in Nodes : Starts(n) \/ TimersStart(n))
    /\ WF_vars(CallStep)
    /\ \A n, m \in Nodes : WF_vars(~Up(m) /\ CheckMissed(n, m))

(* The rooms of one user on n1, and what n2 knows of them: no calls, no    *)
(* rounds of n1, which has nothing to learn.                               *)
ListNext ==
    /\ \/ \E cmd \in Cmds : Command(u1, cmd)
       \/ \E r \in RoomIds : CloseRoom(n1, r) \/ GreetingDone(n1, r)
       \/ Connect(u1) \/ Disconnect(u1)
       \/ EventStep \/ PullStep \/ Rounding(n2) \/ NodeStep
    /\ Underway'

ListSpec == Meshed([n \in Nodes |-> [r \in RoomIds |-> {}]]) /\ [][ListNext]_vars

(* Every node synchronises now and then; a round ends when the last node   *)
(* has answered or failed to.                                              *)
FairListSpec ==
    /\ ListSpec
    /\ WF_vars(EventStep) /\ WF_vars(PullStep)
    /\ WF_vars(\E g \in msgs : GreetedBy(g) \/ Greeted(g) \/ HelloLost(g))
    /\ \A n \in Nodes :
        /\ WF_vars(\E r \in RoomIds : GreetingDone(n, r))
        /\ WF_vars(Starts(n) \/ TimersStart(n))
        /\ \A m \in Nodes : WF_vars(~Up(m) /\ CheckMissed(n, m))
    /\ \A i \in Rounds :
        /\ WF_vars(RoundStarts(n2, i)) /\ WF_vars(RoundEnds(n2, i))
        /\ WF_vars(\E m \in Nodes : RoundAnswered(n2, i, m) \/ RoundMissed(n2, i, m))
=============================================================================
