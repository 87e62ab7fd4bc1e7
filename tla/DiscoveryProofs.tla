--------------------------- MODULE DiscoveryProofs --------------------------
(* The files of known nodes, for any number of nodes and crashes. *)
EXTENDS Discovery, TLAPS

(* While the process runs, its file is its table; no file names its own    *)
(* node.                                                                   *)
FileIsTable ==
    \A n \in Nodes : n \notin disk[n] /\ (Up(n) => disk[n] = Saved(n, nodes[n]))

(* Whoever sends a reverse handshake has saved the other before, so its    *)
(* answer need not be saved.                                               *)
ReverseIsSaved ==
    \A g \in msgs : g.reverse =>
        /\ g.type = "hello" => g.to \in disk[g.from] \cup {g.from}
        /\ g.type = "reply" => g.from \in disk[g.to] \cup {g.to}

(* An answer is waited for. *)
ReplyIsAwaited == \A g \in msgs : g.type = "reply" => Up(g.to)

NetInv == NetTypeOK /\ FileIsTable /\ ReverseIsSaved /\ ReplyIsAwaited

-----------------------------------------------------------------------------
LEMMA Absence == Absent \notin Peer
  BY DEF Absent, Peer

LEMMA GreetingType ==
    ASSUME NetTypeOK, NEW n \in Nodes, NEW m \in Nodes, NEW r \in BOOLEAN
    PROVE  /\ Greeting(n, m, r) \in Hello
           /\ [Greeting(n, m, r) EXCEPT !.instance = @ + 1] \in Hello
           /\ Greeting(n, m, r).reverse = r /\ Greeting(n, m, r).type = "hello"
           /\ Greeting(n, m, r).to = m /\ Greeting(n, m, r).from = n
           /\ [Greeting(n, m, r) EXCEPT !.instance = @ + 1].reverse = r
           /\ [Greeting(n, m, r) EXCEPT !.instance = @ + 1].type = "hello"
  BY DEF NetTypeOK, Greeting, Hello

LEMMA MessageType ==
    ASSUME NetTypeOK, NEW g \in msgs
    PROVE  /\ g.type \in {"hello", "reply"} /\ g.from \in Nodes /\ g.to \in Nodes
           /\ g.instance \in Nat /\ g.reverse \in BOOLEAN
           /\ g.type = "hello" => g \in Hello
           /\ g.type = "reply" => g \in Reply /\ g.peers \subseteq Nodes
  BY DEF NetTypeOK, Hello, Reply

(* A greeting nobody asked for. *)
Plain(g) == g \in Hello /\ g.type = "hello" /\ g.reverse = FALSE

LEMMA PlainGreetings ==
    ASSUME NetTypeOK, NEW n \in Nodes, NEW S \in SUBSET Nodes
    PROVE  /\ \A g \in {Greeting(n, m, FALSE) : m \in S} : Plain(g)
           /\ \A g \in {[Greeting(n, m, FALSE) EXCEPT !.instance = @ + 1] : m \in S} : Plain(g)
  <1>1. \A m \in S : Plain(Greeting(n, m, FALSE))
    BY DEF Greeting, Hello, Plain, NetTypeOK
  <1>2. \A m \in S : Plain([Greeting(n, m, FALSE) EXCEPT !.instance = @ + 1])
    <2> SUFFICES ASSUME NEW m \in S
                 PROVE  Plain([Greeting(n, m, FALSE) EXCEPT !.instance = @ + 1])
      OBVIOUS
    <2> HIDE DEF Greeting
    <2> QED
      BY GreetingType DEF Plain
  <1> QED
    BY <1>1, <1>2

LEMMA NetInitInv == NetInit => NetInv
  BY DEF NetInit, NetInv, NetTypeOK, FileIsTable, ReverseIsSaved, ReplyIsAwaited, Up

(* A step that leaves tables and files alone and adds at most greetings of *)
(* the plain kind.                                                         *)
LEMMA MessagesInv ==
    ASSUME NetInv, NetTypeOK', UNCHANGED <<nodes, disk>>,
           \A n \in Nodes : Up(n)' => Up(n),
           \A g \in msgs' : g.type = "reply" => Up(g.to)',
           \A g \in msgs' : g \in msgs \/ ~g.reverse
    PROVE  NetInv'
  BY DEF NetInv, FileIsTable, ReverseIsSaved, ReplyIsAwaited, Saved, KnownIn

(* What a message must satisfy once the files are as in d. *)
SavedBefore(g, d) ==
    g.reverse => /\ g.type = "hello" => g.to \in d[g.from] \cup {g.from}
                 /\ g.type = "reply" => g.from \in d[g.to] \cup {g.to}

(* The table of n gets another value that knows no less, and is saved.     *)
LEMMA TableInv ==
    ASSUME NetInv, NetTypeOK', UNCHANGED phase, NEW n \in Nodes,
           NEW table \in [Nodes -> Peer \cup {Absent}],
           nodes' = [nodes EXCEPT ![n] = table],
           disk' = [disk EXCEPT ![n] = Saved(n, table)],
           Up(n), Known(n) \subseteq KnownIn(table),
           \A g \in msgs' : g.type = "reply" => Up(g.to),
           \A g \in msgs' : g \in msgs \/ SavedBefore(g, disk')
    PROVE  NetInv'
  <1> USE DEF NetInv
  <1>1. \A m \in Nodes : disk[m] \subseteq disk'[m]
    <2>1. disk[n] = Saved(n, nodes[n])
      BY DEF FileIsTable
    <2>2. disk[n] \subseteq Saved(n, table)
      BY <2>1 DEF Saved, Known
    <2> QED
      BY <2>2 DEF NetTypeOK
  <1>2. FileIsTable'
    <2> SUFFICES ASSUME NEW m \in Nodes
                 PROVE  m \notin disk'[m] /\ (Up(m) => disk'[m] = Saved(m, nodes'[m]))
      BY DEF FileIsTable, Up, Saved, KnownIn
    <2>1. CASE m = n
      BY <2>1 DEF NetTypeOK, Saved
    <2>2. CASE m # n
      BY <2>2 DEF NetTypeOK, FileIsTable
    <2> QED
      BY <2>1, <2>2
  <1>3. ReverseIsSaved'
    <2> SUFFICES ASSUME NEW g \in msgs' PROVE SavedBefore(g, disk')
      BY DEF ReverseIsSaved, SavedBefore
    <2>1. CASE g \in msgs
      BY <1>1, <2>1, MessageType DEF ReverseIsSaved, SavedBefore
    <2> QED
      BY <2>1
  <1>4. ReplyIsAwaited'
    BY DEF ReplyIsAwaited, Up
  <1> QED
    BY <1>2, <1>3, <1>4

LEMMA StartNodeInv == ASSUME NetInv, NEW n \in Nodes, StartNode(n) PROVE NetInv'
  <1> USE DEF NetInv, StartNode
  <1> DEFINE table == [m \in Nodes |-> IF m \in disk[n] THEN [status |-> "unknown", instance |-> 0]
                                       ELSE Absent]
             greetings == {[Greeting(n, m, FALSE) EXCEPT !.instance = @ + 1] : m \in Seeds[n]}
  <1>1. table \in [Nodes -> Peer \cup {Absent}] /\ KnownIn(table) = disk[n]
    BY DEF Peer, Absent, KnownIn, NetTypeOK
  <1>2. \A g \in greetings : Plain(g)
    BY PlainGreetings, SeedsAssumption
  <1>3. msgs' = msgs \cup greetings /\ nodes' = [nodes EXCEPT ![n] = table]
    OBVIOUS
  <1> HIDE DEF table, greetings
  <1>4. NetTypeOK'
    <2>1. nodes' \in [Nodes -> [Nodes -> Peer \cup {Absent}]]
      BY <1>1, <1>3 DEF NetTypeOK
    <2>2. msgs' \subseteq Hello \cup Reply
      BY <1>2, <1>3 DEF NetTypeOK, Plain
    <2>3. phase' \in [Nodes -> {"down", "booting", "running"}] /\ instance' \in [Nodes -> Nat]
      BY DEF NetTypeOK
    <2> QED
      BY <2>1, <2>2, <2>3 DEF NetTypeOK
  <1>5. FileIsTable'
    <2> SUFFICES ASSUME NEW m \in Nodes
                 PROVE  m \notin disk[m] /\ (Up(m)' => disk[m] = Saved(m, nodes'[m]))
      BY DEF FileIsTable, Saved, KnownIn
    <2>1. CASE m = n
      BY <1>1, <1>3, <2>1 DEF NetTypeOK, Saved, FileIsTable
    <2>2. CASE m # n
      BY <1>3, <2>2 DEF NetTypeOK, FileIsTable, Up
    <2> QED
      BY <2>1, <2>2
  <1>6. ReverseIsSaved'
    BY <1>2, <1>3 DEF ReverseIsSaved, Plain
  <1>7. ReplyIsAwaited'
    <2>1. \A m \in Nodes : Up(m) => Up(m)'
      BY DEF Up, NetTypeOK
    <2> QED
      BY <1>2, <1>3, <2>1, MessageType DEF ReplyIsAwaited, Plain
  <1> QED
    BY <1>4, <1>5, <1>6, <1>7

LEMMA StartTimersInv == ASSUME NetInv, NEW n \in Nodes, StartTimers(n) PROVE NetInv'
  <1> USE DEF NetInv, StartTimers
  <1> DEFINE greetings == {Greeting(n, m, FALSE) : m \in (Known(n) \ Online(n)) \ Seeds[n]}
  <1>1. \A g \in greetings : Plain(g)
    <2>1. (Known(n) \ Online(n)) \ Seeds[n] \in SUBSET Nodes
      BY DEF Known, KnownIn
    <2> QED
      BY <2>1, PlainGreetings
  <1>2. msgs' = msgs \cup greetings
    OBVIOUS
  <1> HIDE DEF greetings
  <1>3. NetTypeOK'
    BY <1>1, <1>2 DEF NetTypeOK, Plain
  <1>4. \A m \in Nodes : Up(m)' <=> Up(m)
    BY DEF Up, NetTypeOK
  <1> QED
    BY <1>1, <1>2, <1>3, <1>4, MessagesInv, MessageType DEF ReplyIsAwaited, Plain

(* A process that dies leaves its file, and no answer to it on the way.    *)
LEMMA CrashInv == ASSUME NetInv, NEW n \in Nodes, Crash(n) PROVE NetInv'
  <1> USE DEF NetInv, Crash, StopNode, Fault
  <1>1. NetTypeOK'
    BY DEF NetTypeOK
  <1>2. FileIsTable'
    BY DEF FileIsTable, NetTypeOK, Up, Saved, KnownIn
  <1>3. ReverseIsSaved'
    BY DEF ReverseIsSaved
  <1>4. ReplyIsAwaited'
    BY MessageType DEF ReplyIsAwaited, Up, NetTypeOK
  <1> QED
    BY <1>1, <1>2, <1>3, <1>4

LEMMA MessageLostInv == ASSUME NetInv, NEW g \in msgs, MessageLost(g) PROVE NetInv'
  <1> USE DEF NetInv, MessageLost, Fault
  <1>1. NetTypeOK'
    BY DEF NetTypeOK
  <1> QED
    BY <1>1, MessagesInv DEF Up, ReplyIsAwaited

LEMMA CheckSucceedsInv ==
    ASSUME NetInv, NEW n \in Nodes, NEW m \in Nodes, CheckSucceeds(n, m) PROVE NetInv'
  <1> USE DEF NetInv, CheckSucceeds
  <1> DEFINE table == [nodes[n] EXCEPT ![m].status = "online"]
             greetings == {Greeting(n, p, FALSE) : p \in Strangers(n, m, nodes[n], Online(m))}
  <1>1. nodes[n][m] \in Peer
    BY DEF Known, KnownIn, NetTypeOK
  <1>2. table \in [Nodes -> Peer \cup {Absent}] /\ table[m] # Absent
    BY <1>1, Absence DEF NetTypeOK, Peer
  <1>3. KnownIn(table) = Known(n)
    BY <1>2 DEF Known, KnownIn, NetTypeOK
  <1>4. \A g \in greetings : Plain(g)
    <2>1. Strangers(n, m, nodes[n], Online(m)) \in SUBSET Nodes
      BY DEF Strangers, Online, OnlineIn
    <2> QED
      BY <2>1, PlainGreetings
  <1>5. /\ nodes' = [nodes EXCEPT ![n] = table] /\ msgs' = msgs \cup greetings
        /\ disk' = [disk EXCEPT ![n] = Saved(n, table)]
    BY <1>3 DEF NetTypeOK, Saved, Known
  <1> HIDE DEF table, greetings
  <1>6. NetTypeOK'
    <2>1. Saved(n, table) \subseteq Nodes
      BY DEF Saved, KnownIn
    <2>2. QED
      <3>1. nodes' \in [Nodes -> [Nodes -> Peer \cup {Absent}]]
        BY <1>2, <1>5 DEF NetTypeOK
      <3>2. msgs' \subseteq Hello \cup Reply
        BY <1>4, <1>5 DEF NetTypeOK, Plain
      <3>3. disk' \in [Nodes -> SUBSET Nodes]
        BY <1>5, <2>1 DEF NetTypeOK
      <3> QED
        BY <3>1, <3>2, <3>3 DEF NetTypeOK
  <1>7. \A g \in msgs' : g \in msgs \/ SavedBefore(g, disk')
    BY <1>4, <1>5 DEF SavedBefore, Plain
  <1>8. Up(n) /\ \A g \in msgs' : g.type = "reply" => Up(g.to)
    BY <1>4, <1>5 DEF Up, ReplyIsAwaited, Plain
  <1> QED
    BY <1>2, <1>3, <1>5, <1>6, <1>7, <1>8, TableInv

LEMMA CheckFailsInv ==
    ASSUME NetInv, NEW n \in Nodes, NEW m \in Nodes, CheckFails(n, m) PROVE NetInv'
  <1> USE DEF NetInv, CheckFails
  <1> DEFINE table == [nodes[n] EXCEPT ![m].status = "offline"]
  <1>1. nodes[n][m] \in Peer
    BY DEF Known, KnownIn, NetTypeOK
  <1>2. table \in [Nodes -> Peer \cup {Absent}] /\ table[m] # Absent
    BY <1>1, Absence DEF NetTypeOK, Peer
  <1>3. KnownIn(table) = Known(n)
    BY <1>2 DEF Known, KnownIn, NetTypeOK
  <1>4. /\ nodes' = [nodes EXCEPT ![n] = table] /\ msgs' = msgs
        /\ disk' = [disk EXCEPT ![n] = Saved(n, table)]
    BY <1>3 DEF NetTypeOK, Saved, Known
  <1> HIDE DEF table
  <1>5. NetTypeOK'
    <2>1. Saved(n, table) \subseteq Nodes /\ faults' \in Nat
      BY DEF Saved, KnownIn, Fault, NetTypeOK
    <2>2. QED
      <3>1. nodes' \in [Nodes -> [Nodes -> Peer \cup {Absent}]]
        BY <1>2, <1>4 DEF NetTypeOK
      <3>2. disk' \in [Nodes -> SUBSET Nodes]
        BY <1>4, <2>1 DEF NetTypeOK
      <3> QED
        BY <1>4, <2>1, <3>1, <3>2 DEF NetTypeOK
  <1>6. Up(n) /\ \A g \in msgs' : g.type = "reply" => Up(g.to)
    BY <1>4 DEF Up, ReplyIsAwaited
  <1> QED
    BY <1>2, <1>3, <1>4, <1>5, <1>6, TableInv

LEMMA HandshakeInv == ASSUME NetInv, NEW g \in msgs, HandleIncomingHandshake(g) PROVE NetInv'
  <1> USE DEF NetInv
  <1> DEFINE n == g.to
             m == g.from
             table == [nodes[n] EXCEPT ![m] = OnlineEntry(g.instance)]
             answer == [type |-> "reply", from |-> n, to |-> m,
                        instance |-> IF n = m THEN 0 ELSE instance[n], reverse |-> g.reverse,
                        peers |-> IF n = m THEN {} ELSE KnownIn(table)]
             answers == IF Up(m) /\ instance[m] = g.instance THEN {answer} ELSE {}
             greetings == IF n # m /\ nodes[n][m] = Absent /\ ~g.reverse
                          THEN {Greeting(n, m, TRUE)} ELSE {}
  <1>1. /\ n \in Nodes /\ m \in Nodes /\ g.instance \in Nat /\ g.reverse \in BOOLEAN
        /\ g.type = "hello" /\ Up(n) /\ UNCHANGED <<phase, instance, faults>>
    BY MessageType DEF HandleIncomingHandshake
  <1>2. table \in [Nodes -> Peer \cup {Absent}] /\ KnownIn(table) = Known(n) \cup {m}
    BY <1>1, Absence DEF NetTypeOK, Peer, OnlineEntry, Known, KnownIn
  <1>3. /\ nodes' = IF n = m THEN nodes ELSE [nodes EXCEPT ![n] = table]
        /\ disk' = IF n = m THEN disk ELSE [disk EXCEPT ![n] = Saved(n, table)]
        /\ msgs' \subseteq msgs \cup answers \cup greetings
    <2>1. nodes' = IF n = m THEN nodes ELSE [nodes EXCEPT ![n] = table]
      BY <1>1 DEF HandleIncomingHandshake, NetTypeOK
    <2>2. disk' = IF n = m THEN disk ELSE [disk EXCEPT ![n] = Saved(n, table)]
      BY <1>1 DEF HandleIncomingHandshake
    <2>3. msgs' \subseteq msgs \cup answers \cup greetings
      BY DEF HandleIncomingHandshake
    <2> QED
      BY <2>1, <2>2, <2>3
  <1>4. /\ answer \in Reply /\ answer.type = "reply" /\ answer.to = m /\ answer.from = n
        /\ answer.reverse = g.reverse
    BY <1>1 DEF Reply, KnownIn, NetTypeOK
  <1>5. /\ Greeting(n, m, TRUE) \in Hello /\ Greeting(n, m, TRUE).type = "hello"
        /\ Greeting(n, m, TRUE).to = m /\ Greeting(n, m, TRUE).from = n
    BY <1>1 DEF Greeting, Hello, NetTypeOK
  <1>6. n # m => m \in disk'[n]
    BY <1>1, <1>2, <1>3 DEF NetTypeOK, Saved
  <1>7. g.reverse => n \in disk[m] \cup {m}
    BY <1>1 DEF ReverseIsSaved
  <1>8. \A x \in msgs' : x \in msgs \/ (x = answer /\ Up(m)) \/ (x = Greeting(n, m, TRUE) /\ n # m)
    BY <1>3
  <1> HIDE DEF table, answer, answers, greetings, n, m
  <1>9. NetTypeOK'
    <2>1. nodes' \in [Nodes -> [Nodes -> Peer \cup {Absent}]]
      BY <1>1, <1>2, <1>3 DEF NetTypeOK
    <2>2. disk' \in [Nodes -> SUBSET Nodes]
      BY <1>1, <1>3 DEF NetTypeOK, Saved, KnownIn
    <2>3. msgs' \subseteq Hello \cup Reply
      BY <1>4, <1>5, <1>8 DEF NetTypeOK
    <2> QED
      BY <1>1, <2>1, <2>2, <2>3 DEF NetTypeOK
  <1>10. disk[m] \subseteq disk'[m]
    <2>1. disk[n] = Saved(n, nodes[n])
      BY <1>1 DEF FileIsTable
    <2> QED
      BY <1>1, <1>2, <1>3, <2>1 DEF NetTypeOK, Saved, Known
  <1>11. \A x \in msgs' : x \in msgs \/ SavedBefore(x, disk')
    BY <1>4, <1>5, <1>6, <1>7, <1>8, <1>10 DEF SavedBefore
  <1>12. \A x \in msgs' : x.type = "reply" => Up(x.to)
    BY <1>4, <1>5, <1>8 DEF ReplyIsAwaited
  <1>13. CASE n = m
    <2>1. FileIsTable'
      BY <1>1, <1>3, <1>13 DEF FileIsTable, Up, Saved, KnownIn
    <2>2. ReverseIsSaved'
      BY <1>3, <1>11, <1>13 DEF ReverseIsSaved, SavedBefore
    <2>3. ReplyIsAwaited'
      BY <1>1, <1>12 DEF ReplyIsAwaited, Up
    <2> QED
      BY <1>9, <2>1, <2>2, <2>3
  <1>14. CASE n # m
    BY <1>1, <1>2, <1>3, <1>9, <1>11, <1>12, <1>14, TableInv
  <1> QED
    BY <1>13, <1>14

LEMMA AnswerInv == ASSUME NetInv, NEW g \in msgs, HandshakeAnswered(g) PROVE NetInv'
  <1> USE DEF NetInv
  <1> DEFINE n == g.to
             m == g.from
             i == IF g.instance = 0 THEN nodes[n][m].instance ELSE g.instance
             table == [nodes[n] EXCEPT ![m] = OnlineEntry(i)]
             greetings == {Greeting(n, p, FALSE) : p \in Strangers(n, m, table, g.peers)}
  <1>1. /\ n \in Nodes /\ m \in Nodes /\ g.instance \in Nat /\ g.peers \subseteq Nodes
        /\ g.type = "reply" /\ Up(n) /\ UNCHANGED <<phase, instance, faults>>
    BY MessageType DEF HandshakeAnswered, ReplyIsAwaited
  <1>2. i \in Nat
    BY <1>1 DEF NetTypeOK, Peer, Absent
  <1> HIDE DEF i
  <1>3. table \in [Nodes -> Peer \cup {Absent}] /\ KnownIn(table) = Known(n) \cup {m}
    BY <1>1, <1>2, Absence DEF NetTypeOK, Peer, OnlineEntry, Known, KnownIn
  <1>4. \A x \in greetings : Plain(x)
    <2>1. Strangers(n, m, table, g.peers) \in SUBSET Nodes
      BY <1>1 DEF Strangers
    <2> HIDE DEF table
    <2> QED
      BY <1>1, <2>1, PlainGreetings
  <1>5. nodes' = [nodes EXCEPT ![n] = table] /\ msgs' \subseteq msgs \cup greetings
    BY <1>1 DEF HandshakeAnswered, i
  <1>6. disk' = [disk EXCEPT ![n] = Saved(n, table)]
    <2>1. CASE g.reverse
      <3>1. disk' = disk /\ m \in disk[n] \cup {n}
        BY <1>1, <2>1 DEF HandshakeAnswered, ReverseIsSaved
      <3>2. Saved(n, table) = disk[n]
        BY <1>1, <1>3, <3>1 DEF FileIsTable, Saved, Known
      <3> QED
        BY <3>1, <3>2 DEF NetTypeOK
    <2>2. CASE ~g.reverse
      BY <2>2 DEF HandshakeAnswered, i
    <2> QED
      BY <2>1, <2>2
  <1> HIDE DEF table, greetings, n, m
  <1>7. NetTypeOK'
    <2>1. nodes' \in [Nodes -> [Nodes -> Peer \cup {Absent}]]
      BY <1>1, <1>3, <1>5 DEF NetTypeOK
    <2>2. disk' \in [Nodes -> SUBSET Nodes]
      BY <1>1, <1>6 DEF NetTypeOK, Saved, KnownIn
    <2>3. msgs' \subseteq Hello \cup Reply
      BY <1>4, <1>5 DEF NetTypeOK, Plain
    <2> QED
      BY <1>1, <2>1, <2>2, <2>3 DEF NetTypeOK
  <1>8. \A x \in msgs' : x \in msgs \/ SavedBefore(x, disk')
    BY <1>4, <1>5 DEF SavedBefore, Plain
  <1>9. \A x \in msgs' : x.type = "reply" => Up(x.to)
    BY <1>4, <1>5 DEF ReplyIsAwaited, Plain
  <1> QED
    BY <1>1, <1>3, <1>5, <1>6, <1>7, <1>8, <1>9, TableInv

LEMMA NetStutterInv == NetInv /\ UNCHANGED netVars => NetInv'
  BY DEF netVars, NetInv, NetTypeOK, FileIsTable, ReverseIsSaved, ReplyIsAwaited, Up, Saved, KnownIn

LEMMA NetNextInv == NetInv /\ [NetNext \/ \E n \in Nodes : Crash(n)]_netVars => NetInv'
  BY StartNodeInv, StartTimersInv, CrashInv, MessageLostInv, CheckSucceedsInv, CheckFailsInv,
     HandshakeInv, AnswerInv, NetStutterInv DEF NetNext, Receive

LEMMA NetInvHolds == CrashSpec => []NetInv
  BY NetInitInv, NetNextInv, PTL DEF CrashSpec

(* Every state of the nodes and the network is one they were declared to   *)
(* have.                                                                   *)
THEOREM NetTypes == CrashSpec => []NetTypeOK
  BY NetInvHolds, PTL DEF NetInv

(* FileRemembers, for any number of nodes, seeds and restarts: no node     *)
(* that was known is forgotten in a crash.                                 *)
THEOREM FilesRemember == CrashSpec => []FileRemembers
  <1>1. NetInv => FileRemembers
    BY DEF NetInv, FileIsTable, FileRemembers
  <1> QED
    BY <1>1, NetInvHolds, PTL
=============================================================================
