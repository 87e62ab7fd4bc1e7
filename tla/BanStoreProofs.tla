--------------------------- MODULE BanStoreProofs ---------------------------
(* The persisted lists implement what Bans promises. *)
EXTENDS BanStore, TLAPS

Live(end) == IF Expired(end) THEN Free ELSE end

(* A file no fault has touched parses. *)
Readable == \A k \in Kinds : GroupOf(k) \notin lost => file[k] # Torn

(* Nobody calls a server that is not up, and no save outlives it. *)
Quiet ==
    /\ phase # "up" => last = NoCall /\ ~Unsaved("login")
    /\ phase = "down" => Idle

(* Nothing that was ordered last is undone but by the next call. *)
OrderHolds == last.op = "order" => entries[last.target] = last.end

(* What is not saved yet is the last order, or the removal of bans that    *)
(* are over.                                                               *)
OneChange ==
    \A k \in Kinds :
        Loaded(k) /\ Unsaved(k) /\ GroupOf(k) \notin lost =>
            \A t \in Of(k) :
                \/ Live(file[k][t]) = Live(entries[t])
                \/ last.op = "order" /\ last.target = t

Inv ==
    /\ TypeOK /\ StoredIsInForce
    /\ Readable /\ Quiet /\ OrderHolds /\ OneChange

-----------------------------------------------------------------------------
(* Every target is of one kind. *)
LEMMA OneKind ==
    ASSUME NEW t \in Targets
    PROVE  KindOf(t) \in Kinds /\ t \in Of(KindOf(t)) /\ \A k \in Kinds : t \in Of(k) <=> k = KindOf(t)
  BY DEF KindOf, Kinds, Of

(* What the save in progress still has to write. *)
LEMMA PendingKinds ==
    /\ pending = <<>> => \A k \in Kinds : ~Unsaved(k)
    /\ pending = <<"id", "ip">> => \A k \in Kinds : Unsaved(k) <=> k # "login"
    /\ pending = <<"ip">> => \A k \in Kinds : Unsaved(k) <=> k = "ip"
    /\ pending = <<"login">> => \A k \in Kinds : Unsaved(k) <=> k = "login"
  <1>1. CASE pending = <<>>
    BY <1>1 DEF Unsaved
  <1>2. CASE pending = <<"id", "ip">>
    <2>1. DOMAIN pending = {1, 2} /\ pending[1] = "id" /\ pending[2] = "ip"
      BY <1>2
    <2>2. \A k : Unsaved(k) <=> k = "id" \/ k = "ip"
      BY <2>1 DEF Unsaved
    <2> QED
      BY <1>2, <2>2 DEF Kinds
  <1>3. CASE pending = <<"ip">>
    BY <1>3 DEF Unsaved, Kinds
  <1>4. CASE pending = <<"login">>
    BY <1>4 DEF Unsaved, Kinds
  <1> QED
    BY <1>1, <1>2, <1>3, <1>4

LEMMA PendingKindsNext ==
    /\ pending' = <<>> => \A k \in Kinds : ~Unsaved(k)'
    /\ pending' = <<"id", "ip">> => \A k \in Kinds : Unsaved(k)' <=> k # "login"
    /\ pending' = <<"ip">> => \A k \in Kinds : Unsaved(k)' <=> k = "ip"
    /\ pending' = <<"login">> => \A k \in Kinds : Unsaved(k)' <=> k = "login"
  <1>1. CASE pending' = <<>>
    BY <1>1 DEF Unsaved
  <1>2. CASE pending' = <<"id", "ip">>
    <2>1. DOMAIN pending' = {1, 2} /\ pending'[1] = "id" /\ pending'[2] = "ip"
      BY <1>2
    <2>2. \A k : Unsaved(k)' <=> k = "id" \/ k = "ip"
      BY <2>1 DEF Unsaved
    <2> QED
      BY <1>2, <2>2 DEF Kinds
  <1>3. CASE pending' = <<"ip">>
    BY <1>3 DEF Unsaved, Kinds
  <1>4. CASE pending' = <<"login">>
    BY <1>4 DEF Unsaved, Kinds
  <1> QED
    BY <1>1, <1>2, <1>3, <1>4

LEMMA InitInv == Init => Inv
  <1> SUFFICES ASSUME Init PROVE Inv
    OBVIOUS
  <1>1. \A k \in Kinds : ~Unsaved(k)
    BY PendingKinds DEF Init
  <1>2. TypeOK
    BY DEF TypeOK, Init, Ends, Kinds
  <1>3. Readable
    BY MarksAssumption DEF Readable, Init, Ends
  <1> QED
    BY <1>1, <1>2, <1>3 DEF Inv, Init, StoredIsInForce, Loaded, Quiet, Idle, OrderHolds, OneChange,
       NoCall, Kinds

(* As time passes, what is over stays over. *)
LEMMA TickInv == Inv /\ Tick => Inv'
  <1> SUFFICES ASSUME Inv, Tick PROVE Inv'
    OBVIOUS
  <1> USE DEF Inv, Tick
  <1>1. TypeOK'
    BY DEF TypeOK
  <1>2. OneChange'
    <2>1. \A a, b \in Ends : Live(a) = Live(b) => Live(a)' = Live(b)'
      BY MarksAssumption DEF Live, Expired, Ends, TypeOK
    <2> SUFFICES ASSUME NEW k \in Kinds, Loaded(k), Unsaved(k), GroupOf(k) \notin lost,
                        NEW t \in Of(k)
                 PROVE  \/ Live(file[k][t])' = Live(entries[t])'
                        \/ last.op = "order" /\ last.target = t
      BY DEF OneChange, Loaded, Unsaved
    <2>2. file[k][t] \in Ends /\ entries[t] \in Ends
      BY DEF TypeOK, Readable, Of
    <2>3. \/ Live(file[k][t]) = Live(entries[t])
          \/ last.op = "order" /\ last.target = t
      BY DEF OneChange
    <2> QED
      BY <2>1, <2>2, <2>3 DEF Live, Expired
  <1> QED
    BY <1>1, <1>2 DEF StoredIsInForce, Readable, Quiet, OrderHolds, Idle, Loaded, Unsaved, List

(* A call that changes the entry of t, and is saved. *)
LEMMA SaveInv ==
    ASSUME Inv, phase = "up", Idle, NEW t \in Targets, NEW end \in Ends, Save(t, end),
           UNCHANGED <<now, phase, file, lost, faults>>,
           \/ last' = OrderFor(t, end)
           \/ /\ \E b \in BOOLEAN : last' = Answer(t, b)
              /\ Live(entries[t]) = Live(end)
    PROVE  Inv'
  <1> USE DEF Inv, Save
  <1>1. pending' = <<"id", "ip">> \/ pending' = <<"login">>
    BY DEF Saves
  <1>2. \A k \in Kinds : Unsaved(k)' <=> GroupOf(k) = GroupOf(KindOf(t))
    BY <1>1, PendingKindsNext, OneKind DEF Saves, GroupOf, Kinds
  <1>3. \A k \in Kinds : ~Unsaved(k)
    BY PendingKinds DEF Idle
  <1>4. entries' \in [Targets -> Ends]
    BY DEF TypeOK
  <1>5. \A k \in Kinds : GroupOf(k) # GroupOf(KindOf(t)) => List(k)' = List(k)
    BY OneKind DEF List, TypeOK, Of
  <1>6. TypeOK'
    BY <1>1, <1>4 DEF TypeOK, OrderFor
  <1>7. StoredIsInForce'
    BY <1>2, <1>3, <1>5 DEF StoredIsInForce, Loaded
  <1>8. OneChange'
    <2> SUFFICES ASSUME NEW k \in Kinds, GroupOf(k) \notin lost, NEW u \in Of(k), Unsaved(k)'
                 PROVE  \/ Live(file[k][u])' = Live(entries[u])'
                        \/ last'.op = "order" /\ last'.target = u
      BY DEF OneChange, Loaded
    <2>1. file[k][u] = entries[u] /\ u \in Targets
      BY <1>3 DEF StoredIsInForce, Loaded, List, Of
    <2>2. CASE u = t
      BY <2>1, <2>2 DEF OrderFor, Live, Expired, TypeOK
    <2>3. CASE u # t
      BY <2>1, <2>3 DEF Live, Expired, TypeOK
    <2> QED
      BY <2>2, <2>3
  <1>9. OrderHolds'
    <2>1. CASE last' = OrderFor(t, end)
      BY <2>1 DEF OrderHolds, OrderFor, TypeOK
    <2>2. CASE \E b \in BOOLEAN : last' = Answer(t, b)
      <3>1. PICK b \in BOOLEAN : last' = Answer(t, b)
        BY <2>2
      <3>2. last'.op \in {"banned", "not banned"}
        BY <3>1 DEF Answer
      <3> QED
        BY <3>2 DEF OrderHolds
    <2> QED
      BY <2>1, <2>2
  <1> QED
    BY <1>6, <1>7, <1>8, <1>9 DEF Readable, Quiet

LEMMA CallInv ==
    ASSUME Inv, NEW t \in Targets,
           Unban(t) \/ LookUp(t) \/ \E d \in Durations : Ban(t, d)
    PROVE  Inv'
  <1>1. CASE Unban(t)
    BY <1>1, SaveInv DEF Unban, Ends
  <1>2. CASE LookUp(t)
    <2>1. CASE Expired(entries[t])
      <3>1. Live(entries[t]) = Live(Free) /\ Free \in Ends
        BY <2>1, MarksAssumption DEF Live, Expired, Ends
      <3>2. \E b \in BOOLEAN : last' = Answer(t, b)
        BY <1>2 DEF LookUp
      <3> QED
        BY <1>2, <2>1, <3>1, <3>2, SaveInv DEF LookUp
    <2>2. CASE ~Expired(entries[t])
      <3> DEFINE b == entries[t] # Free /\ ~Expired(entries[t])
      <3>1. b \in BOOLEAN /\ last' = Answer(t, b)
        BY <1>2 DEF LookUp
      <3>2. last'.op # "order"
        BY <3>1 DEF Answer
      <3> HIDE DEF b
      <3>3. TypeOK'
        BY <1>2, <2>2, <3>1 DEF LookUp, Inv, TypeOK
      <3>4. \A k \in Kinds : ~Unsaved(k) /\ ~Unsaved(k)'
        BY <1>2, <2>2, PendingKinds, PendingKindsNext DEF LookUp, Idle
      <3> QED
        BY <1>2, <2>2, <3>2, <3>3, <3>4
        DEF LookUp, Inv, StoredIsInForce, Loaded, List, Readable, Quiet, OrderHolds, OneChange
    <2> QED
      BY <2>1, <2>2
  <1>3. ASSUME NEW d \in Durations, Ban(t, d) PROVE Inv'
    <2>1. EndOf(t, d) \in Ends
      BY DurationsAssumption DEF EndOf, Ends, Inv, TypeOK
    <2> QED
      BY <1>3, <2>1, SaveInv DEF Ban
  <1> QED
    BY <1>1, <1>2, <1>3

(* A write brings the file of its list up to date. *)
LEMMA WriteInv == Inv /\ Write => Inv'
  <1> SUFFICES ASSUME Inv, Write PROVE Inv'
    OBVIOUS
  <1> USE DEF Inv, Write
  <1> DEFINE h == Head(pending)
  <1>1. /\ h \in Kinds
        /\ pending' \in {<<>>, <<"ip">>}
        /\ \A k \in Kinds : Unsaved(k)' <=> Unsaved(k) /\ k # h
    <2>1. CASE pending = <<"id", "ip">>
      BY <2>1, PendingKinds, PendingKindsNext DEF Kinds
    <2>2. CASE pending = <<"ip">>
      <3>1. h = "ip" /\ pending' = <<>>
        BY <2>2
      <3> QED
        BY <2>2, <3>1, PendingKinds, PendingKindsNext DEF Kinds
    <2>3. CASE pending = <<"login">>
      <3>1. h = "login" /\ pending' = <<>>
        BY <2>3
      <3> QED
        BY <2>3, <3>1, PendingKinds, PendingKindsNext DEF Kinds
    <2> QED
      BY <2>1, <2>2, <2>3 DEF TypeOK, Idle
  <1> HIDE DEF h
  <1>2. file' = [file EXCEPT ![h] = List(h)]
    BY DEF h
  <1>3. List(h) \in [Of(h) -> Ends] /\ List(h) # Torn
    <2>1. List(h) \in [Of(h) -> Ends]
      BY DEF List, TypeOK, Of
    <2> QED
      BY <1>1, <2>1, MarksAssumption DEF Ends
  <1>4. \A k \in Kinds : file'[k] = IF k = h THEN List(h) ELSE file[k]
    BY <1>1, <1>2 DEF TypeOK
  <1>5. TypeOK'
    BY <1>1, <1>2, <1>3, <1>4 DEF TypeOK
  <1>6. StoredIsInForce'
    BY <1>1, <1>4 DEF StoredIsInForce, Loaded, List
  <1>7. Readable'
    BY <1>3, <1>4 DEF Readable
  <1>8. Quiet'
    BY <1>1 DEF Quiet, Idle, Kinds
  <1>9. OneChange'
    BY <1>1, <1>4 DEF OneChange, Loaded, Live, Expired
  <1> QED
    BY <1>5, <1>6, <1>7, <1>8, <1>9 DEF OrderHolds

(* A fault spoils the files of one group, and says so. *)
LEMMA SpoilInv ==
    ASSUME Inv, NEW k \in Kinds, Spoil(k), pending' = <<>>,
           file' \in {file, [file EXCEPT ![k] = Torn]},
           UNCHANGED now,
           \/ UNCHANGED <<phase, entries, last>> /\ phase # "down"
           \/ /\ phase' = "down" /\ last' = NoCall
              /\ entries' = [t \in Targets |-> Free],
           \A j \in Kinds : GroupOf(j) # GroupOf(k) => ~Unsaved(j)
    PROVE  Inv'
  <1> USE DEF Inv, Spoil
  <1>1. \A j \in Kinds : ~Unsaved(j)'
    BY PendingKindsNext
  <1>2. \A j \in Kinds : j # k => file'[j] = file[j]
    BY DEF TypeOK
  <1>3. GroupOf(k) \in {"bans", "logins"} /\ GroupOf(k) \in lost'
    BY DEF GroupOf
  <1>4. TypeOK'
    <2>1. lost' \subseteq {"bans", "logins"} /\ faults' \in Nat
      BY <1>3 DEF TypeOK
    <2>2. /\ file' = [j \in Kinds |-> file'[j]]
          /\ \A j \in Kinds : file'[j] \in [Of(j) -> Ends] \cup {Torn}
      BY DEF TypeOK
    <2> QED
      BY <2>1, <2>2 DEF TypeOK, Ends
  <1>5. StoredIsInForce'
    BY <1>1, <1>2, <1>3 DEF StoredIsInForce, Loaded, List
  <1>6. Readable'
    BY <1>2, <1>3 DEF Readable
  <1>7. OrderHolds'
    BY DEF OrderHolds, NoCall
  <1>8. Quiet'
    BY <1>1 DEF Quiet, Idle, Kinds
  <1> QED
    BY <1>1, <1>4, <1>5, <1>6, <1>7, <1>8 DEF OneChange

LEMMA FaultInv == Inv /\ (WriteFails \/ CrashInWrite) => Inv'
  <1> SUFFICES ASSUME Inv, WriteFails \/ CrashInWrite PROVE Inv'
    OBVIOUS
  <1> DEFINE h == Head(pending)
  <1>1. /\ h \in Kinds /\ Spoil(h) /\ pending' = <<>> /\ UNCHANGED now
        /\ file' \in {file, [file EXCEPT ![h] = Torn]}
    BY DEF WriteFails, CrashInWrite, Dies, Inv, TypeOK, Idle, Kinds
  <1>2. \A j \in Kinds : GroupOf(j) # GroupOf(h) => ~Unsaved(j)
    <2>1. CASE pending = <<"id", "ip">> \/ pending = <<"ip">>
      BY <2>1, PendingKinds DEF GroupOf, Kinds
    <2>2. CASE pending = <<"login">>
      BY <2>2, PendingKinds DEF GroupOf, Kinds
    <2> QED
      BY <2>1, <2>2 DEF WriteFails, CrashInWrite, Inv, TypeOK, Idle
  <1>3. \/ UNCHANGED <<phase, entries, last>> /\ phase # "down"
        \/ /\ phase' = "down" /\ last' = NoCall
           /\ entries' = [t \in Targets |-> Free]
    BY DEF WriteFails, CrashInWrite, Dies, Inv, Quiet
  <1> HIDE DEF h
  <1> QED
    BY <1>1, <1>2, <1>3, SpoilInv

LEMMA CrashInv == Inv /\ Crash => Inv'
  <1> SUFFICES ASSUME Inv, Crash PROVE Inv'
    OBVIOUS
  <1> USE DEF Inv, Crash, Dies
  <1>1. \A k \in Kinds : ~Unsaved(k)'
    BY PendingKindsNext
  <1>2. TypeOK'
    BY DEF TypeOK, Ends
  <1> QED
    BY <1>1, <1>2 DEF StoredIsInForce, Loaded, Readable, Quiet, Idle, OrderHolds, NoCall, OneChange, Kinds

(* What is read is what was stored, less what is over: and that is on its  *)
(* way out of the file.                                                    *)
LEMMA LoadBansInv == Inv /\ LoadBans => Inv'
  <1> SUFFICES ASSUME Inv, LoadBans PROVE Inv'
    OBVIOUS
  <1> USE DEF Inv
  <1> DEFINE read == {k \in {"id", "ip"} : file["id"] # Torn /\ file[k] # Torn}
             over == {t \in Ids \cup Ips : read = {"id", "ip"} /\ Expired(file[KindOf(t)][t])}
  <1>1. /\ phase = "down" /\ phase' = "bans" /\ UNCHANGED <<now, file, last, lost, faults>>
        /\ entries' = [t \in Targets |->
               IF KindOf(t) \notin read \/ t \in over THEN Free ELSE file[KindOf(t)][t]]
        /\ pending' = IF over = {} THEN <<>> ELSE <<"id", "ip">>
    BY DEF LoadBans, Saves
  <1>2. last = NoCall /\ \A k \in Kinds : ~Unsaved(k)
    BY <1>1, PendingKinds DEF Quiet, Idle
  <1>3. \A t \in Targets : KindOf(t) \in read => file[KindOf(t)][t] \in Ends
    BY OneKind DEF TypeOK
  <1>4. "bans" \notin lost => read = {"id", "ip"}
    BY DEF Readable, Kinds, GroupOf
  <1> HIDE DEF read
  <1>5. \A t \in Targets : entries'[t] = IF KindOf(t) \notin read \/ t \in over THEN Free ELSE file[KindOf(t)][t]
    BY <1>1
  <1>6. TypeOK'
    <2>1. entries' \in [Targets -> Ends]
      BY <1>1, <1>3 DEF Ends
    <2>2. pending' \in {<<>>, <<"id", "ip">>}
      BY <1>1
    <2> QED
      BY <1>1, <2>1, <2>2 DEF TypeOK
  <1>7. ASSUME NEW k \in Kinds, Loaded(k)', GroupOf(k) \notin lost', NEW t \in Of(k)
        PROVE  /\ t \in Targets /\ file[k][t] \in Ends
               /\ entries'[t] = IF t \in over THEN Free ELSE file[k][t]
               /\ t \in over => Expired(file[k][t])
    <2>1. k \in {"id", "ip"} /\ "bans" \notin lost
      BY <1>1, <1>7 DEF Loaded, Kinds, GroupOf
    <2>2. t \in Targets /\ KindOf(t) = k
      BY <1>7 DEF Of
    <2> QED
      BY <1>3, <1>4, <1>5, <2>1, <2>2
  <1>8. CASE over = {}
    <2>1. \A k \in Kinds : ~Unsaved(k)'
      BY <1>1, <1>8, PendingKindsNext
    <2>2. StoredIsInForce'
      <3> SUFFICES ASSUME NEW k \in Kinds, Loaded(k)', GroupOf(k) \notin lost'
                   PROVE  file[k] = List(k)'
        BY <1>1 DEF StoredIsInForce
      <3>1. file[k] \in [Of(k) -> Ends]
        BY <1>1 DEF TypeOK, Readable
      <3> QED
        BY <1>7, <1>8, <3>1 DEF List
    <2> QED
      BY <1>1, <1>2, <1>6, <2>1, <2>2 DEF Readable, Quiet, OrderHolds, OneChange, NoCall, Kinds
  <1>9. CASE over # {}
    <2>1. \A k \in Kinds : Unsaved(k)' <=> k # "login"
      BY <1>1, <1>9, PendingKindsNext
    <2>2. StoredIsInForce'
      BY <1>1, <2>1 DEF StoredIsInForce, Loaded
    <2>3. OneChange'
      <3> SUFFICES ASSUME NEW k \in Kinds, Loaded(k)', GroupOf(k) \notin lost', NEW t \in Of(k)
                   PROVE  Live(file[k][t])' = Live(entries[t])'
        BY DEF OneChange
      <3> QED
        BY <1>1, <1>7, MarksAssumption DEF Live, Expired
    <2> QED
      BY <1>1, <1>2, <1>6, <2>1, <2>2, <2>3 DEF Readable, Quiet, OrderHolds, NoCall, Kinds
  <1> QED
    BY <1>8, <1>9

LEMMA LoadBlacklistInv == Inv /\ LoadBlacklist => Inv'
  <1> SUFFICES ASSUME Inv, LoadBlacklist PROVE Inv'
    OBVIOUS
  <1> USE DEF Inv
  <1> DEFINE read == file["login"] # Torn
             over == {t \in Clients : read /\ Expired(file["login"][t])}
  <1>1. /\ phase = "bans" /\ phase' = "up" /\ UNCHANGED <<now, file, last, lost, faults>>
        /\ entries' = [t \in Targets |->
               IF KindOf(t) # "login" THEN entries[t]
               ELSE IF read /\ t \notin over THEN file["login"][t] ELSE Free]
        /\ pending' = IF over = {} THEN <<>> ELSE <<"login">>
    BY DEF LoadBlacklist, Saves
  <1>2. last = NoCall /\ \A k \in Kinds : ~Unsaved(k)
    BY <1>1, PendingKinds DEF Quiet, LoadBlacklist, Idle
  <1>3. read => \A t \in Targets : KindOf(t) = "login" => file["login"][t] \in Ends
    BY OneKind DEF TypeOK, Kinds
  <1>4. "logins" \notin lost => read
    BY DEF Readable, Kinds, GroupOf
  <1> HIDE DEF read
  <1>5. TypeOK'
    <2>1. entries' \in [Targets -> Ends]
      BY <1>1, <1>3 DEF Ends, TypeOK
    <2>2. pending' \in {<<>>, <<"login">>}
      BY <1>1
    <2> QED
      BY <1>1, <2>1, <2>2 DEF TypeOK
  <1>6. \A k \in Kinds : GroupOf(k) \notin lost => file[k] \in [Of(k) -> Ends]
    BY DEF TypeOK, Readable
  <1>7. ASSUME NEW k \in {"id", "ip"}, GroupOf(k) \notin lost
        PROVE  file[k] = List(k)' /\ ~Unsaved(k)'
    <2>1. file[k] = List(k)
      BY <1>1, <1>2, <1>7 DEF StoredIsInForce, Loaded, Kinds
    <2>2. List(k)' = List(k)
      BY <1>1 DEF List, Of
    <2>3. ~Unsaved(k)'
      BY <1>1, PendingKindsNext DEF Kinds
    <2> QED
      BY <2>1, <2>2, <2>3
  <1>8. ASSUME "logins" \notin lost, NEW t \in Of("login")
        PROVE  /\ entries'[t] = IF t \in over THEN Free ELSE file["login"][t]
               /\ t \in over => Expired(file["login"][t])
    BY <1>1, <1>4, <1>8 DEF Of
  <1>9. CASE over = {}
    <2>1. \A k \in Kinds : ~Unsaved(k)'
      BY <1>1, <1>9, PendingKindsNext
    <2>2. "logins" \notin lost => file["login"] = List("login")'
      BY <1>6, <1>8, <1>9 DEF List, Kinds, GroupOf
    <2>3. StoredIsInForce'
      BY <1>1, <1>7, <2>2 DEF StoredIsInForce, Kinds, GroupOf
    <2> QED
      BY <1>1, <1>2, <1>5, <2>1, <2>3 DEF Readable, Quiet, OrderHolds, OneChange, NoCall, Kinds
  <1>10. CASE over # {}
    <2>1. \A k \in Kinds : Unsaved(k)' <=> k = "login"
      BY <1>1, <1>10, PendingKindsNext
    <2>2. StoredIsInForce'
      BY <1>1, <1>7, <2>1 DEF StoredIsInForce, Kinds
    <2>3. OneChange'
      <3> SUFFICES ASSUME "logins" \notin lost, NEW t \in Of("login")
                   PROVE  Live(file["login"][t])' = Live(entries[t])'
        BY <1>1, <2>1 DEF OneChange, GroupOf, Kinds
      <3> QED
        BY <1>1, <1>8, MarksAssumption DEF Live, Expired
    <2> QED
      BY <1>1, <1>2, <1>5, <2>2, <2>3 DEF Readable, Quiet, OrderHolds, NoCall, Kinds
  <1> QED
    BY <1>9, <1>10

LEMMA StutterInv == Inv /\ UNCHANGED vars => Inv'
  BY DEF vars, Inv, TypeOK, StoredIsInForce, Readable, Quiet, OrderHolds, OneChange, Idle, Loaded,
     Unsaved, List, Live, Expired

LEMMA NextInv == Inv /\ [Next]_vars => Inv'
  BY TickInv, CallInv, WriteInv, FaultInv, CrashInv, LoadBansInv, LoadBlacklistInv, StutterInv DEF Next

LEMMA InvHolds == Spec => []Inv
  BY InitInv, NextInv, PTL DEF Spec

(* Every state of the store is one it was declared to have.                *)
THEOREM StoreTypes == Spec => []TypeOK
  BY InvHolds, PTL DEF Inv

(* StoredIsInForce, for any number of users, addresses and clients, any    *)
(* durations and any crashes: what a restart finds is what is in force.    *)
THEOREM StoredAlways == Spec => []StoredIsInForce
  BY InvHolds, PTL DEF Inv

-----------------------------------------------------------------------------
(* The steps of Bans, in the terms of the store: for the targets ts, the   *)
(* exempt ex and the group of files g.                                     *)
UntilOf(ts) == [t \in ts |-> InForce(t)]
Cur(end, time) == IF end \in Nat /\ end < time THEN Free ELSE end
DoneFor(ts) == LastOf(ts).op = "order" => UntilOf(ts)[LastOf(ts).target] = Cur(LastOf(ts).end, now)
SameHealth(g) == (g \in lost)' = (g \in lost)

ATick(ts, g) ==
    /\ now' = now + 1
    /\ UntilOf(ts)' = [t \in ts |-> Cur(UntilOf(ts)[t], now')]
    /\ LastOf(ts)' = LastOf(ts) /\ SameHealth(g)

AOrder(ts, ex, g, t, end) ==
    /\ DoneFor(ts)
    /\ end \in Nat \cup {Forever, Free}
    /\ t \in ex => end = Free
    /\ LastOf(ts)' = OrderFor(t, end)
    /\ now' = now /\ UntilOf(ts)' = UntilOf(ts) /\ SameHealth(g)

ATake(ts, g) ==
    /\ LastOf(ts).op = "order"
    /\ UntilOf(ts)' = [UntilOf(ts) EXCEPT ![LastOf(ts).target] = Cur(LastOf(ts).end, now)]
    /\ now' = now /\ LastOf(ts)' = LastOf(ts) /\ SameHealth(g)

AAsk(ts, g, t) ==
    /\ DoneFor(ts)
    /\ LastOf(ts)' = Answer(t, UntilOf(ts)[t] # Free)
    /\ now' = now /\ UntilOf(ts)' = UntilOf(ts) /\ SameHealth(g)

AForget(ts, g) ==
    /\ LastOf(ts)' = NoCall
    /\ now' = now /\ UntilOf(ts)' = UntilOf(ts) /\ SameHealth(g)

AStutter(ts, g) ==
    now' = now /\ UntilOf(ts)' = UntilOf(ts) /\ LastOf(ts)' = LastOf(ts) /\ SameHealth(g)

Moves(ts, ex, g) ==
    \/ ATick(ts, g) \/ ATake(ts, g) \/ AForget(ts, g) \/ (g \in lost)'
    \/ \E t \in ts : AAsk(ts, g, t) \/ AOrder(ts, ex, g, t, LastOf(ts)'.end)

(* A list with its files. *)
IsList(ts, ex, g) ==
    \/ ts = Ids \cup Ips /\ ex = Exempt /\ g = "bans"
    \/ ts = Clients /\ ex = {} /\ g = "logins"

LEMMA Grouped ==
    ASSUME NEW ts, NEW ex, NEW g, IsList(ts, ex, g)
    PROVE  /\ ts \subseteq Targets
           /\ \A t \in Targets : t \in ts <=> GroupOf(KindOf(t)) = g
           /\ \A t \in ts : t \in ex => t \in Exempt /\ KindOf(t) # "login"
  BY ListsApart DEF IsList, Targets, GroupOf, KindOf

(* While no fault has touched its file, a ban is in force as it is stored. *)
LEMMA InForceIsStored ==
    ASSUME Inv, NEW t \in Targets, GroupOf(KindOf(t)) \notin lost
    PROVE  InForce(t) = Live(file[KindOf(t)][t]) /\ file[KindOf(t)][t] \in Ends
  <1> DEFINE k == KindOf(t)
  <1>1. k \in Kinds /\ t \in Of(k)
    BY OneKind
  <1>2. file[k] \in [Of(k) -> Ends] /\ file[k] # Torn
    BY <1>1 DEF Inv, TypeOK, Readable
  <1>3. Loaded(k) /\ ~Unsaved(k) => file[k][t] = entries[t]
    BY <1>1 DEF Inv, StoredIsInForce, List
  <1> QED
    BY <1>1, <1>2, <1>3 DEF InForce, Live, Expired

LEMMA InForceIsStoredNext ==
    ASSUME Inv', NEW t \in Targets, GroupOf(KindOf(t)) \notin lost'
    PROVE  InForce(t)' = Live(file[KindOf(t)][t])' /\ file'[KindOf(t)][t] \in Ends
  <1> DEFINE k == KindOf(t)
  <1>1. k \in Kinds /\ t \in Of(k)
    BY OneKind
  <1>2. file'[k] \in [Of(k) -> Ends] /\ file'[k] # Torn
    BY <1>1 DEF Inv, TypeOK, Readable
  <1>3. Loaded(k)' /\ ~Unsaved(k)' => file'[k][t] = entries'[t]
    BY <1>1 DEF Inv, StoredIsInForce, List
  <1> QED
    BY <1>1, <1>2, <1>3 DEF InForce, Live, Expired

(* A step that leaves the files and the clock alone ends no ban and        *)
(* imposes none.                                                           *)
LEMMA FilesUntouched ==
    ASSUME NEW ts, NEW ex, NEW g, IsList(ts, ex, g), Inv, Inv',
           g \notin lost', SameHealth(g), now' = now,
           \A k \in Kinds : GroupOf(k) = g => file'[k] = file[k]
    PROVE  UntilOf(ts)' = UntilOf(ts)
  <1>1. ASSUME NEW t \in ts PROVE InForce(t)' = InForce(t)
    <2>1. t \in Targets /\ GroupOf(KindOf(t)) = g /\ g \notin lost
      BY Grouped DEF SameHealth
    <2> QED
      BY <2>1, OneKind, InForceIsStored, InForceIsStoredNext DEF Live, Expired
  <1> QED
    BY <1>1 DEF UntilOf

(* Between two calls, an order has taken effect. *)
LEMMA IdleIsDone ==
    ASSUME NEW ts, NEW ex, NEW g, IsList(ts, ex, g), Inv, g \notin lost, phase = "up", Idle
    PROVE  DoneFor(ts) /\ \A t \in ts : InForce(t) = Live(entries[t])
  <1>1. ASSUME NEW t \in ts PROVE InForce(t) = Live(entries[t])
    <2>1. t \in Targets /\ GroupOf(KindOf(t)) = g
      BY Grouped
    <2>2. ~Unsaved(KindOf(t)) /\ KindOf(t) \in Kinds /\ t \in Of(KindOf(t))
      BY <2>1, OneKind, PendingKinds DEF Idle
    <2>3. file[KindOf(t)][t] = entries[t]
      BY <2>1, <2>2 DEF Inv, StoredIsInForce, Loaded, List
    <2> QED
      BY <2>1, <2>3, InForceIsStored
  <1>2. DoneFor(ts)
    <2> SUFFICES ASSUME LastOf(ts).op = "order"
                 PROVE  UntilOf(ts)[LastOf(ts).target] = Cur(LastOf(ts).end, now)
      BY DEF DoneFor
    <2>1. last.target \in ts /\ LastOf(ts) = last
      BY DEF LastOf, NoCall
    <2>2. entries[last.target] = last.end
      BY <2>1 DEF Inv, OrderHolds
    <2> QED
      BY <1>1, <2>1, <2>2 DEF UntilOf, Cur, Live, Expired
  <1> QED
    BY <1>1, <1>2

(* A call of a target of the list is an order or a question to it; one of  *)
(* another list makes it forget its own.                                   *)
LEMMA CallMoves ==
    ASSUME NEW ts, NEW ex, NEW g, IsList(ts, ex, g), Inv, Inv', g \notin lost, NEW t \in Targets,
           Unban(t) \/ LookUp(t) \/ \E d \in Durations : Ban(t, d)
    PROVE  Moves(ts, ex, g)
  <1>1. /\ UntilOf(ts)' = UntilOf(ts) /\ now' = now /\ SameHealth(g)
        /\ phase = "up" /\ Idle
    <2>1. now' = now /\ SameHealth(g) /\ g \notin lost' /\ file' = file /\ phase = "up" /\ Idle
      BY DEF Unban, LookUp, Ban, SameHealth
    <2> QED
      BY <2>1, FilesUntouched
  <1>2. DoneFor(ts) /\ \A u \in ts : InForce(u) = Live(entries[u])
    BY <1>1, IdleIsDone
  <1>3. last'.target = t
    <2>1. CASE LookUp(t)
      <3>1. PICK b \in BOOLEAN : last' = Answer(t, b)
        BY <2>1 DEF LookUp
      <3>2. \E op : last' = [op |-> op, target |-> t, end |-> Free]
        BY <3>1 DEF Answer
      <3> QED
        BY <3>2
    <2> QED
      BY <2>1 DEF Unban, Ban, OrderFor
  <1>4. CASE t \notin ts
    BY <1>1, <1>3, <1>4 DEF LastOf, NoCall, Moves, AForget
  <1>5. CASE t \in ts
    <2>1. LastOf(ts)' = last'
      BY <1>3, <1>5 DEF LastOf
    <2>2. CASE Unban(t)
      <3>1. LastOf(ts)' = OrderFor(t, Free) /\ LastOf(ts)'.end = Free
        BY <2>1, <2>2 DEF Unban, OrderFor
      <3>2. AOrder(ts, ex, g, t, LastOf(ts)'.end)
        BY <1>1, <1>2, <3>1 DEF AOrder
      <3> QED
        BY <1>5, <3>2 DEF Moves
    <2>3. CASE LookUp(t)
      <3>1. (InForce(t) # Free) = (entries[t] # Free /\ ~Expired(entries[t]))
        BY <1>2, <1>5, MarksAssumption DEF Live
      <3>2. LastOf(ts)' = Answer(t, UntilOf(ts)[t] # Free)
        BY <1>5, <2>1, <2>3, <3>1 DEF LookUp, UntilOf
      <3>3. AAsk(ts, g, t)
        BY <1>1, <1>2, <3>2 DEF AAsk
      <3> QED
        BY <1>5, <3>3 DEF Moves
    <2>4. ASSUME NEW d \in Durations, Ban(t, d) PROVE Moves(ts, ex, g)
      <3>1. EndOf(t, d) \in Nat \cup {Forever, Free}
        BY DurationsAssumption DEF EndOf, Inv, TypeOK
      <3>2. t \notin ex
        BY <1>5, <2>4, Grouped DEF Ban
      <3>3. LastOf(ts)' = OrderFor(t, EndOf(t, d)) /\ LastOf(ts)'.end = EndOf(t, d)
        BY <2>1, <2>4 DEF Ban, OrderFor
      <3>4. AOrder(ts, ex, g, t, LastOf(ts)'.end)
        BY <1>1, <1>2, <3>1, <3>2, <3>3 DEF AOrder
      <3> QED
        BY <1>5, <3>4 DEF Moves
    <2> QED
      BY <2>2, <2>3, <2>4
  <1> QED
    BY <1>4, <1>5

(* A write makes the order take effect, if it was waiting for this file.   *)
LEMMA WriteMoves ==
    ASSUME NEW ts, NEW ex, NEW g, IsList(ts, ex, g), Inv, Inv', g \notin lost, Write
    PROVE  ATake(ts, g) \/ AStutter(ts, g)
  <1> DEFINE h == Head(pending)
  <1>1. h \in Kinds /\ Unsaved(h)
    <2>1. pending = <<"id", "ip">> \/ pending = <<"ip">> \/ pending = <<"login">>
      BY DEF Write, Idle, Inv, TypeOK
    <2> QED
      BY <2>1, PendingKinds DEF Kinds
  <1>2. /\ now' = now /\ LastOf(ts)' = LastOf(ts) /\ SameHealth(g) /\ g \notin lost'
        /\ UNCHANGED <<phase, entries>>
        /\ file' = [file EXCEPT ![h] = List(h)]
    BY DEF Write, LastOf, SameHealth
  <1> HIDE DEF h
  <1>3. \A k \in Kinds : file'[k] = IF k = h THEN List(h) ELSE file[k]
    BY <1>1, <1>2 DEF Inv, TypeOK
  <1>4. CASE GroupOf(h) # g
    BY <1>1, <1>2, <1>3, <1>4, FilesUntouched DEF AStutter
  <1>5. CASE GroupOf(h) = g
    <2>1. Loaded(h)
      BY <1>1, <1>2 DEF Inv, Quiet, Idle, Write, Loaded, TypeOK
    <2>2. ASSUME NEW t \in ts, last.op # "order" \/ last.target # t \/ KindOf(t) # h
          PROVE  InForce(t)' = InForce(t)
      <3>1. t \in Targets /\ GroupOf(KindOf(t)) = g /\ KindOf(t) \in Kinds /\ t \in Of(KindOf(t))
        BY Grouped, OneKind
      <3>2. InForce(t) = Live(file[KindOf(t)][t]) /\ InForce(t)' = Live(file[KindOf(t)][t])'
        BY <1>2, <3>1, InForceIsStored, InForceIsStoredNext
      <3>3. CASE KindOf(t) # h
        BY <1>2, <1>3, <3>1, <3>2, <3>3 DEF Live, Expired
      <3>4. CASE KindOf(t) = h
        <4>1. Live(file[h][t]) = Live(entries[t])
          BY <1>1, <1>5, <2>1, <2>2, <3>1, <3>4 DEF Inv, OneChange
        <4>2. file'[h][t] = entries[t]
          BY <1>1, <1>3, <3>1, <3>4 DEF List
        <4> QED
          BY <1>2, <3>2, <3>4, <4>1, <4>2 DEF Live, Expired
      <3> QED
        BY <3>3, <3>4
    <2>3. ASSUME NEW t \in ts, last.op = "order", last.target = t, KindOf(t) = h
          PROVE  InForce(t)' = Cur(last.end, now)
      <3>1. t \in Targets /\ GroupOf(KindOf(t)) = g /\ t \in Of(h)
        BY <2>3, Grouped, OneKind
      <3>2. file'[h][t] = entries[t] /\ entries[t] = last.end
        BY <1>1, <1>3, <2>3, <3>1 DEF List, Inv, OrderHolds
      <3>3. InForce(t)' = Live(file[KindOf(t)][t])'
        BY <1>2, <3>1, InForceIsStoredNext
      <3> QED
        BY <1>2, <2>3, <3>2, <3>3 DEF Live, Expired, Cur
    <2>4. CASE last.op = "order" /\ last.target \in ts /\ KindOf(last.target) = h
      <3>1. LastOf(ts) = last
        BY <2>4 DEF LastOf
      <3>2. UntilOf(ts)' = [UntilOf(ts) EXCEPT ![last.target] = Cur(last.end, now)]
        BY <2>2, <2>3, <2>4 DEF UntilOf
      <3> QED
        BY <1>2, <2>4, <3>1, <3>2 DEF ATake
    <2>5. CASE ~(last.op = "order" /\ last.target \in ts /\ KindOf(last.target) = h)
      <3>1. \A t \in ts : InForce(t)' = InForce(t)
        BY <2>2, <2>5
      <3> QED
        BY <1>2, <3>1 DEF UntilOf, AStutter
    <2> QED
      BY <2>4, <2>5
  <1> QED
    BY <1>4, <1>5

LEMMA TickMoves ==
    ASSUME NEW ts, NEW ex, NEW g, IsList(ts, ex, g), Inv, Inv', g \notin lost, Tick
    PROVE  ATick(ts, g)
  <1>1. /\ now' = now + 1 /\ now \in Nat /\ LastOf(ts)' = LastOf(ts)
        /\ SameHealth(g) /\ g \notin lost' /\ file' = file
    BY DEF Tick, LastOf, SameHealth, Inv, TypeOK
  <1>2. ASSUME NEW t \in ts PROVE InForce(t)' = Cur(InForce(t), now')
    <2>1. t \in Targets /\ GroupOf(KindOf(t)) = g
      BY Grouped
    <2>2. /\ InForce(t) = Live(file[KindOf(t)][t]) /\ file[KindOf(t)][t] \in Ends
          /\ InForce(t)' = Live(file[KindOf(t)][t])'
      BY <1>1, <2>1, InForceIsStored, InForceIsStoredNext
    <2> QED
      BY <1>1, <2>2, MarksAssumption DEF Live, Expired, Cur, Ends
  <1> QED
    BY <1>1, <1>2 DEF ATick, UntilOf

LEMMA NextMoves ==
    ASSUME NEW ts, NEW ex, NEW g, IsList(ts, ex, g), Inv, Inv', [Next]_vars
    PROVE  Moves(ts, ex, g) \/ AStutter(ts, g)
  <1>1. CASE g \in lost'
    BY <1>1 DEF Moves
  <1> SUFFICES ASSUME g \notin lost'
               PROVE  Moves(ts, ex, g) \/ AStutter(ts, g)
    BY <1>1
  <1>2. g \notin lost /\ SameHealth(g)
    <2>1. lost \subseteq lost'
      BY DEF Next, vars, Tick, Write, WriteFails, Crash, CrashInWrite, Dies, Spoil, LoadBans, LoadBlacklist,
         Unban, LookUp, Ban
    <2> QED
      BY <2>1 DEF SameHealth
  <1>3. CASE Tick
    BY <1>2, <1>3, TickMoves DEF Moves
  <1>4. CASE Write
    BY <1>2, <1>4, WriteMoves DEF Moves
  <1>5. ASSUME NEW t \in Targets, Unban(t) \/ LookUp(t) \/ \E d \in Durations : Ban(t, d)
        PROVE  Moves(ts, ex, g)
    BY <1>2, <1>5, CallMoves
  <1>6. CASE WriteFails \/ CrashInWrite
    <2> DEFINE h == Head(pending)
    <2>1. GroupOf(h) # g /\ now' = now /\ file' \in {file, [file EXCEPT ![h] = Torn]}
      BY <1>6 DEF WriteFails, CrashInWrite, Spoil, Dies
    <2>2. \A k \in Kinds : GroupOf(k) = g => file'[k] = file[k]
      BY <2>1 DEF Inv, TypeOK
    <2>3. UntilOf(ts)' = UntilOf(ts)
      BY <1>2, <2>1, <2>2, FilesUntouched
    <2>4. last' = last \/ last' = NoCall
      BY <1>6 DEF WriteFails, CrashInWrite, Dies
    <2> QED
      BY <1>2, <2>1, <2>3, <2>4 DEF Moves, AForget, AStutter, LastOf
  <1>7. CASE Crash \/ LoadBans \/ LoadBlacklist \/ UNCHANGED vars
    <2>1. now' = now /\ file' = file
      BY <1>7 DEF Crash, Dies, LoadBans, LoadBlacklist, vars
    <2>2. UntilOf(ts)' = UntilOf(ts)
      BY <1>2, <2>1, FilesUntouched
    <2>3. last' = last \/ last' = NoCall
      BY <1>7 DEF Crash, Dies, LoadBans, LoadBlacklist, vars
    <2> QED
      BY <1>2, <2>1, <2>2, <2>3 DEF Moves, AForget, AStutter, LastOf
  <1> QED
    BY <1>3, <1>4, <1>5, <1>6, <1>7 DEF Next

LEMMA InitUntil ==
    ASSUME NEW ts, NEW ex, NEW g, IsList(ts, ex, g), Init
    PROVE  now = 0 /\ UntilOf(ts) = [t \in ts |-> Free] /\ LastOf(ts) = NoCall /\ (g \in lost) = FALSE
  <1>1. ASSUME NEW t \in ts PROVE InForce(t) = Free
    <2>1. KindOf(t) \in Kinds /\ t \in Of(KindOf(t))
      BY Grouped, OneKind
    <2>2. file[KindOf(t)][t] = Free /\ file[KindOf(t)] # Torn
      BY <2>1, InitInv DEF Init, Inv, Readable
    <2>3. ~Loaded(KindOf(t))
      BY DEF Init, Loaded
    <2> QED
      BY <2>2, <2>3 DEF InForce
  <1> QED
    BY <1>1 DEF Init, UntilOf, LastOf, NoCall

(* BansExact: with any crashes and faults, the bans of users and of        *)
(* addresses are those of a list without process or file.                  *)
THEOREM BansImplemented == Spec => BansExact
  <1> DEFINE ts == Ids \cup Ips
  <1>1. IsList(ts, Exempt, "bans")
    BY DEF IsList
  <1>2. Init => BanList!Init
    BY <1>1, InitUntil DEF BanList!Init, UntilOf, BanList!NoCall, NoCall
  <1>3. Inv /\ Inv' /\ [Next]_vars => [BanList!Next]_(BanList!vars)
    <2> SUFFICES ASSUME Inv, Inv', [Next]_vars PROVE [BanList!Next]_(BanList!vars)
      OBVIOUS
    <2>1. Moves(ts, Exempt, "bans") \/ AStutter(ts, "bans")
      BY <1>1, NextMoves
    <2>2. ATick(ts, "bans") => BanList!Tick
      BY DEF ATick, BanList!Tick, UntilOf, SameHealth, Cur, BanList!Current
    <2>3. ATake(ts, "bans") => BanList!Take
      BY DEF ATake, BanList!Take, UntilOf, SameHealth, Cur, BanList!Current
    <2>4. AForget(ts, "bans") => BanList!Forget
      BY DEF AForget, BanList!Forget, UntilOf, SameHealth, BanList!NoCall, NoCall
    <2>5. ("bans" \in lost)' => BanList!Damage
      BY DEF BanList!Damage
    <2>6. ASSUME NEW t \in ts, AAsk(ts, "bans", t) PROVE BanList!Ask(t)
      BY <2>6 DEF AAsk, BanList!Ask, DoneFor, BanList!Done, UntilOf, SameHealth, Cur, BanList!Current,
         BanList!Answer, Answer
    <2>7. ASSUME NEW t \in ts, AOrder(ts, Exempt, "bans", t, LastOf(ts)'.end)
          PROVE  BanList!Order(t, LastOf(ts)'.end)
      BY <2>7 DEF AOrder, BanList!Order, DoneFor, BanList!Done, UntilOf, SameHealth, Cur, BanList!Current,
         BanList!OrderFor, OrderFor
    <2>8. AStutter(ts, "bans") => UNCHANGED BanList!vars
      BY DEF AStutter, BanList!vars, UntilOf, SameHealth
    <2> QED
      BY <2>1, <2>2, <2>3, <2>4, <2>5, <2>6, <2>7, <2>8 DEF Moves, BanList!Next
  <1> QED
    BY <1>2, <1>3, InvHolds, PTL DEF Spec, BansExact, BanList!Spec

(* BlacklistExact: so is the blacklist of the web login.                   *)
THEOREM BlacklistImplemented == Spec => BlacklistExact
  <1> DEFINE ts == Clients
  <1>1. IsList(ts, {}, "logins")
    BY DEF IsList
  <1>2. Init => Blacklist!Init
    BY <1>1, InitUntil DEF Blacklist!Init, UntilOf, Blacklist!NoCall, NoCall
  <1>3. Inv /\ Inv' /\ [Next]_vars => [Blacklist!Next]_(Blacklist!vars)
    <2> SUFFICES ASSUME Inv, Inv', [Next]_vars PROVE [Blacklist!Next]_(Blacklist!vars)
      OBVIOUS
    <2>1. Moves(ts, {}, "logins") \/ AStutter(ts, "logins")
      BY <1>1, NextMoves
    <2>2. ATick(ts, "logins") => Blacklist!Tick
      BY DEF ATick, Blacklist!Tick, UntilOf, SameHealth, Cur, Blacklist!Current
    <2>3. ATake(ts, "logins") => Blacklist!Take
      BY DEF ATake, Blacklist!Take, UntilOf, SameHealth, Cur, Blacklist!Current
    <2>4. AForget(ts, "logins") => Blacklist!Forget
      BY DEF AForget, Blacklist!Forget, UntilOf, SameHealth, Blacklist!NoCall, NoCall
    <2>5. ("logins" \in lost)' => Blacklist!Damage
      BY DEF Blacklist!Damage
    <2>6. ASSUME NEW t \in ts, AAsk(ts, "logins", t) PROVE Blacklist!Ask(t)
      BY <2>6 DEF AAsk, Blacklist!Ask, DoneFor, Blacklist!Done, UntilOf, SameHealth, Cur, Blacklist!Current,
         Blacklist!Answer, Answer
    <2>7. ASSUME NEW t \in ts, AOrder(ts, {}, "logins", t, LastOf(ts)'.end)
          PROVE  Blacklist!Order(t, LastOf(ts)'.end)
      BY <2>7 DEF AOrder, Blacklist!Order, DoneFor, Blacklist!Done, UntilOf, SameHealth, Cur, Blacklist!Current,
         Blacklist!OrderFor, OrderFor
    <2>8. AStutter(ts, "logins") => UNCHANGED Blacklist!vars
      BY DEF AStutter, Blacklist!vars, UntilOf, SameHealth
    <2> QED
      BY <2>1, <2>2, <2>3, <2>4, <2>5, <2>6, <2>7, <2>8 DEF Moves, Blacklist!Next
  <1> QED
    BY <1>2, <1>3, InvHolds, PTL DEF Spec, BlacklistExact, Blacklist!Spec
=============================================================================
