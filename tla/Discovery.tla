----------------------------- MODULE Discovery -----------------------------
(***************************************************************************)
(* How the servers of a federation find and watch each other: handshakes,  *)
(* gossip and health checks of federation/FederationManager.ts, with the   *)
(* HTTP routes of HttpServer.ts that serve them.                           *)
(*                                                                         *)
(* A request and its answer are messages, which are lost, overtake each    *)
(* other, or find the receiver down.  The requester's code after its await *)
(* is the action that receives the answer.  Node ids are unique and stand  *)
(* for the URLs too; time is left out: a check may come at any moment.     *)
(***************************************************************************)
EXTENDS Naturals

CONSTANTS
    Nodes,      \* the servers
    Seeds,      \* Seeds[n]: the nodes n is configured to ask at its start
    MaxStarts,  \* bound: how often a node starts
    MaxFaults   \* bound: crashes, lost messages and wrong verdicts together

ASSUME SeedsAssumption == Seeds \in [Nodes -> SUBSET Nodes]
ASSUME BoundsAssumption == MaxStarts \in Nat /\ MaxFaults \in Nat

VARIABLES
    phase,      \* phase[n]: "down", "booting" (asking its seeds) or "running"
    instance,   \* instance[n]: number of the current or last process of n
    nodes,      \* nodes[n][m]: the entry of m in FederationManager.nodes of n
    disk,       \* disk[n]: the ids in the nodes file of n
    msgs,       \* handshakes and their answers
    faults      \* faults so far

netVars == <<phase, instance, nodes, disk, msgs, faults>>

(* An instance of 0: none recorded. *)
Absent == [status |-> "absent", instance |-> 0]
Peer == [status: {"online", "offline", "unknown"}, instance: Nat]

Hello == [type: {"hello"}, from: Nodes, to: Nodes, instance: Nat, reverse: BOOLEAN]
Reply == [type: {"reply"}, from: Nodes, to: Nodes, instance: Nat, reverse: BOOLEAN,
          peers: SUBSET Nodes]

NetTypeOK ==
    /\ phase \in [Nodes -> {"down", "booting", "running"}]
    /\ instance \in [Nodes -> Nat]
    /\ nodes \in [Nodes -> [Nodes -> Peer \cup {Absent}]]
    /\ disk \in [Nodes -> SUBSET Nodes]
    /\ msgs \subseteq Hello \cup Reply
    /\ faults \in Nat

Up(n) == phase[n] # "down"

KnownIn(table) == {m \in Nodes : table[m] # Absent}
OnlineIn(table) == {m \in Nodes : table[m].status = "online"}
Known(n) == KnownIn(nodes[n])
Online(n) == OnlineIn(nodes[n])

(* saveNodes.  The entry without an id, see HandshakeAnswered, is written  *)
(* but not loaded again: it is left out here.                              *)
Saved(n, table) == KnownIn(table) \ {n}

Greeting(n, m, reverse) ==
    [type |-> "hello", from |-> n, to |-> m, instance |-> instance[n], reverse |-> reverse]

Fault == faults < MaxFaults /\ faults' = faults + 1

NetInit ==
    /\ phase = [n \in Nodes |-> "down"]
    /\ instance = [n \in Nodes |-> 0]
    /\ nodes = [n \in Nodes |-> [m \in Nodes |-> Absent]]
    /\ disk = [n \in Nodes |-> {}]
    /\ msgs = {}
    /\ faults = 0

-----------------------------------------------------------------------------
(* A process starts: the file is loaded, the seeds are asked.  (The code   *)
(* asks one after the other; the answers come in any order here.)          *)
StartNode(n) ==
    /\ ~Up(n)
    /\ instance[n] < MaxStarts
    /\ phase' = [phase EXCEPT ![n] = "booting"]
    /\ instance' = [instance EXCEPT ![n] = @ + 1]
    /\ nodes' = [nodes EXCEPT ![n] =
           [m \in Nodes |-> IF m \in disk[n] THEN [status |-> "unknown", instance |-> 0]
                            ELSE Absent]]
    /\ msgs' = msgs \cup {[Greeting(n, m, FALSE) EXCEPT !.instance = @ + 1] : m \in Seeds[n]}
    /\ UNCHANGED <<disk, faults>>

(* n waits for the answer of one of its seeds. *)
AskingSeeds(n) ==
    \E g \in msgs : /\ ~g.reverse
                    /\ \/ g.type = "hello" /\ g.from = n /\ g.to \in Seeds[n]
                       \/ g.type = "reply" /\ g.to = n /\ g.from \in Seeds[n]

(* The seeds have answered or not: other nodes of the file that are not    *)
(* online yet are asked, and the timers start.                             *)
StartTimers(n) ==
    /\ phase[n] = "booting"
    /\ ~AskingSeeds(n)
    /\ phase' = [phase EXCEPT ![n] = "running"]
    /\ msgs' = msgs \cup {Greeting(n, m, FALSE) : m \in (Known(n) \ Online(n)) \ Seeds[n]}
    /\ UNCHANGED <<instance, nodes, disk, faults>>

(* The process dies; nobody is left to receive the answers it waits for.   *)
StopNode(n) ==
    /\ Up(n)
    /\ phase' = [phase EXCEPT ![n] = "down"]
    /\ nodes' = [nodes EXCEPT ![n] = [m \in Nodes |-> Absent]]
    /\ msgs' = {g \in msgs : g.type = "hello" \/ g.to # n}
    /\ UNCHANGED <<instance, disk>>

Crash(n) == Fault /\ StopNode(n)

-----------------------------------------------------------------------------
(* The entry recorded for m shows another process than i: m has restarted. *)
Restarted(n, m, i) ==
    /\ nodes[n][m] # Absent
    /\ nodes[n][m].instance \notin {0, i}

Slip_NoInstance(i) == [status |-> "online"]

OnlineEntry(i) == [status |-> "online", instance |-> i]

(* A peer is met for the first time if its id is not in the table.  In     *)
(* the answer of m the id m stands for the entry without an id.            *)
Strangers(n, m, table, peers) == {p \in peers : p # n /\ (table[p] = Absent \/ p = m)}

Slip_NotSaved(g) ==
    LET n == g.to
        m == g.from
        table == [nodes[n] EXCEPT ![m] = OnlineEntry(g.instance)]
        answer == [type |-> "reply", from |-> n, to |-> m, instance |-> instance[n],
                   reverse |-> g.reverse, peers |-> KnownIn(table)]
    IN  /\ g \in msgs /\ g.type = "hello" /\ Up(n) /\ n # m
        /\ nodes' = [nodes EXCEPT ![n] = table]
        /\ msgs' = (msgs \ {g})
                   \cup (IF Up(m) /\ instance[m] = g.instance THEN {answer} ELSE {})
                   \cup (IF nodes[n][m] = Absent /\ ~g.reverse
                         THEN {Greeting(n, m, TRUE)} ELSE {})
        /\ UNCHANGED <<phase, instance, disk, faults>>

(* handleIncomingHandshake at n.  A new peer that greets by itself is      *)
(* greeted back.  A node that greets itself is refused: with an answer     *)
(* that carries no id.                                                     *)
HandleIncomingHandshake(g) ==
    LET n == g.to
        m == g.from
        table == IF n = m THEN nodes[n]
                 ELSE [nodes[n] EXCEPT ![m] = OnlineEntry(g.instance)]
        answer == [type |-> "reply", from |-> n, to |-> m,
                   instance |-> IF n = m THEN 0 ELSE instance[n],
                   reverse |-> g.reverse,
                   peers |-> IF n = m THEN {} ELSE KnownIn(table)]
    IN  /\ g \in msgs /\ g.type = "hello" /\ Up(n)
        /\ nodes' = [nodes EXCEPT ![n] = table]
        /\ disk' = IF n = m THEN disk ELSE [disk EXCEPT ![n] = Saved(n, table)]
        /\ msgs' = (msgs \ {g})
                   \cup (IF Up(m) /\ instance[m] = g.instance THEN {answer} ELSE {})
                   \cup (IF n # m /\ nodes[n][m] = Absent /\ ~g.reverse
                         THEN {Greeting(n, m, TRUE)} ELSE {})
        /\ UNCHANGED <<phase, instance, faults>>

(* handshakeWithNode and reverseHandshake at n, after their await.  The    *)
(* latter does not save.  The refusal of HandleIncomingHandshake has no    *)
(* error status: it is taken for a node with no id, entered under the key  *)
(* undefined (nodes[n][n] here).                                           *)
HandshakeAnswered(g) ==
    LET n == g.to
        m == g.from
        i == IF g.instance = 0 THEN nodes[n][m].instance ELSE g.instance
        table == [nodes[n] EXCEPT ![m] = OnlineEntry(i)]
    IN  /\ g \in msgs /\ g.type = "reply"
        /\ nodes' = [nodes EXCEPT ![n] = table]
        /\ disk' = IF g.reverse THEN disk ELSE [disk EXCEPT ![n] = Saved(n, table)]
        /\ msgs' = (msgs \ {g})
                   \cup {Greeting(n, p, FALSE) : p \in Strangers(n, m, table, g.peers)}
        /\ UNCHANGED <<phase, instance, faults>>

-----------------------------------------------------------------------------
(* A health check of n reaches m and is answered.  (One step: the answer   *)
(* names peers, and news of them does not age.)  The instance in the       *)
(* answer is not looked at.                                                *)
Slip_NoGossip(n, m) ==
    /\ phase[n] = "running" /\ m \in Known(n) /\ Up(m)
    /\ nodes' = [nodes EXCEPT ![n][m].status = "online"]
    /\ disk' = [disk EXCEPT ![n] = Saved(n, nodes[n])]
    /\ UNCHANGED <<phase, instance, msgs, faults>>

CheckSucceeds(n, m) ==
    /\ phase[n] = "running" /\ m \in Known(n) /\ Up(m)
    /\ nodes' = [nodes EXCEPT ![n][m].status = "online"]
    /\ disk' = [disk EXCEPT ![n] = Saved(n, nodes[n])]
    /\ msgs' = msgs \cup {Greeting(n, p, FALSE) : p \in Strangers(n, m, nodes[n], Online(m))}
    /\ UNCHANGED <<phase, instance, faults>>

(* Or it does not: m is down, or the answer is late or lost.  (An answer   *)
(* with an error status has the same effect here; see Federation.)         *)
CheckFails(n, m) ==
    /\ phase[n] = "running" /\ m \in Known(n)
    /\ IF Up(m) THEN Fault ELSE faults' = faults
    /\ nodes' = [nodes EXCEPT ![n][m].status = "offline"]
    /\ disk' = [disk EXCEPT ![n] = Saved(n, nodes[n])]
    /\ UNCHANGED <<phase, instance, msgs>>

(* A node offline for seven days is forgotten, or one an administrator     *)
(* removes.                                                                *)
RemoveNode(n, m) ==
    /\ phase[n] = "running" /\ m \in Known(n)
    /\ nodes' = [nodes EXCEPT ![n][m] = Absent]
    /\ disk' = [disk EXCEPT ![n] = @ \ {m}]
    /\ UNCHANGED <<phase, instance, msgs, faults>>

(* A handshake finds its receiver down, or is lost, or its answer is.      *)
MessageLost(g) ==
    /\ g \in msgs
    /\ IF g.type = "hello" /\ ~Up(g.to) THEN faults' = faults ELSE Fault
    /\ msgs' = msgs \ {g}
    /\ UNCHANGED <<phase, instance, nodes, disk>>

-----------------------------------------------------------------------------
Receive(g) == HandleIncomingHandshake(g) \/ HandshakeAnswered(g)

NetNext ==
    \/ \E n \in Nodes : StartNode(n) \/ StartTimers(n)
    \/ \E g \in msgs : Receive(g) \/ MessageLost(g)
    \/ \E n, m \in Nodes : CheckSucceeds(n, m) \/ CheckFails(n, m)

(* The same, where nodes crash as well. *)
CrashSpec == NetInit /\ [][NetNext \/ \E n \in Nodes : Crash(n)]_netVars

(* A node that is down is started; requests end one way or another; a      *)
(* running node checks the others every few hundred milliseconds.          *)
NetFairness ==
    /\ WF_netVars(\E n \in Nodes : StartNode(n) \/ StartTimers(n))
    /\ \A n \in Nodes :
        /\ WF_netVars(\E g \in msgs : g.to = n /\ (Receive(g) \/ MessageLost(g)))
        /\ \A m \in Nodes \ {n} : WF_netVars(CheckSucceeds(n, m))

-----------------------------------------------------------------------------
Running == \A n \in Nodes : phase[n] = "running"

Linked(n, m) == n = m \/ m \in Known(n) \/ n \in Known(m)

(* Nobody is cut off: for every node there is a chain of acquaintances     *)
(* (three nodes: at most two links).                                       *)
Connected == \A n, m \in Nodes : \E k \in Nodes : Linked(n, k) /\ Linked(k, m)

(* One-sided acquaintance, incomplete views and wrong verdicts on health   *)
(* go away: once all nodes run and none is cut off, every node ends up     *)
(* seeing every other online, although a message was lost, a check was     *)
(* answered too late, or nodes crashed and went on from their files.       *)
MeshCompletes ==
    <>[](Running /\ Connected)
        => <>[](\A n \in Nodes : Nodes \ {n} \subseteq Online(n))

(* The file never knows less than the process: after a crash no node that  *)
(* was known is forgotten.                                                 *)
FileRemembers == \A n \in Nodes : Up(n) => Saved(n, nodes[n]) \subseteq disk[n]
=============================================================================
