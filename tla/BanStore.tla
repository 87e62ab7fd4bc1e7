------------------------------ MODULE BanStore ------------------------------
(***************************************************************************)
(* The persisted lists: bans of users and of addresses                     *)
(* (domain/auth/BanManager.ts), and the blacklist of the web login         *)
(* (network/HttpServer.ts).                                                *)
(*                                                                         *)
(* Each list is a map in memory and a file that is rewritten in place      *)
(* after every change.  A save is a loop of synchronous writes: nothing    *)
(* runs in between, but the process may die there or a write may fail.     *)
(* An entry is its end; who banned whom and why is left out.               *)
(***************************************************************************)
EXTENDS Naturals, Sequences

CONSTANTS
    Ids, Ips,    \* whom BanManager can ban
    Clients,     \* whom the login can be refused
    Exempt,      \* the whitelists of the configuration
    Durations,   \* seconds; 0 stands for whatever JavaScript takes for false
    Forever,     \* no end (expiresAt is null)
    Free,        \* no entry
    Torn,        \* the content of a file that does not parse
    MaxTime,     \* bound: the clock
    MaxFaults    \* bound: failing and torn writes

Kinds == {"id", "ip", "login"}
Targets == Ids \cup Ips \cup Clients
KindOf(t) == IF t \in Ids THEN "id" ELSE IF t \in Ips THEN "ip" ELSE "login"
Of(k) == {t \in Targets : KindOf(t) = k}

ASSUME ListsApart == Ids \cap Ips = {} /\ (Ids \cup Ips) \cap Clients = {}
ASSUME DurationsAssumption == Durations \subseteq Nat /\ MaxTime \in Nat /\ MaxFaults \in Nat
ASSUME MarksAssumption ==
    /\ Forever \notin Nat /\ Free \notin Nat \cup Targets /\ Forever # Free
    /\ \A k \in Kinds : Torn \notin [Of(k) -> Nat \cup {Forever, Free}]

VARIABLES
    now,        \* Date.now()
    phase,      \* "down", "bans" (BanManager is made), "up" (HttpServer is, too)
    entries,    \* idBans, ipBans and blacklistedIps
    file,       \* file[k]: the contents of the file of list k
    pending,    \* the writes left of the save in progress
    last,       \* the last call: a ban or its lifting, or a look-up and its answer
    lost,       \* whose files a fault has spoiled: of "bans", of "logins"
    faults      \* faults so far

vars == <<now, phase, entries, file, pending, last, lost, faults>>

Ends == Nat \cup {Forever, Free}
GroupOf(k) == IF k = "login" THEN "logins" ELSE "bans"
NoCall == [op |-> "none", target |-> Free, end |-> Free]
OrderFor(t, end) == [op |-> "order", target |-> t, end |-> end]
Answer(t, banned) ==
    [op |-> IF banned THEN "banned" ELSE "not banned", target |-> t, end |-> Free]

TypeOK ==
    /\ now \in Nat
    /\ phase \in {"down", "bans", "up"}
    /\ entries \in [Targets -> Ends]
    /\ file = [k \in Kinds |-> file[k]]
    /\ \A k \in Kinds : file[k] \in [Of(k) -> Ends] \cup {Torn}
    /\ pending \in {<<>>, <<"id", "ip">>, <<"ip">>, <<"login">>}
    /\ \/ last = NoCall
       \/ \E t \in Targets :
              \/ last.end \in Ends /\ last = OrderFor(t, last.end)
              \/ \E b \in BOOLEAN : last = Answer(t, b)
    /\ lost \subseteq {"bans", "logins"}
    /\ faults \in Nat

Expired(end) == end \in Nat /\ end < now
List(k) == [t \in Of(k) |-> entries[t]]
Idle == pending = <<>>

Init ==
    /\ now = 0
    /\ phase = "down"
    /\ entries = [t \in Targets |-> Free]
    /\ file = [k \in Kinds |-> [t \in Of(k) |-> Free]]
    /\ pending = <<>>
    /\ last = NoCall
    /\ lost = {}
    /\ faults = 0

Tick ==
    /\ now < MaxTime
    /\ now' = now + 1
    /\ UNCHANGED <<phase, entries, file, pending, last, lost, faults>>

-----------------------------------------------------------------------------
(* saveBans writes both files of bans, saveBlacklist its own. *)
Saves(k) == IF k = "login" THEN <<"login">> ELSE <<"id", "ip">>

Save(t, end) ==
    /\ entries' = [entries EXCEPT ![t] = end]
    /\ pending' = Saves(KindOf(t))

Slip_EndBehind(t, d) == now - d

(* banId, banIp: no duration, no end.  A login is always refused for some  *)
(* time: the configured one if none is given.                              *)
EndOf(t, d) == IF d = 0 /\ KindOf(t) # "login" THEN Forever ELSE now + d

Slip_BanUnsaved(t, d) ==
    /\ phase = "up" /\ Idle
    /\ t \notin Exempt
    /\ entries' = [entries EXCEPT ![t] = EndOf(t, d)]
    /\ last' = OrderFor(t, EndOf(t, d))
    /\ UNCHANGED <<now, phase, file, pending, lost, faults>>

Ban(t, d) ==
    /\ phase = "up" /\ Idle
    /\ KindOf(t) = "login" \/ t \notin Exempt
    /\ Save(t, EndOf(t, d))
    /\ last' = OrderFor(t, EndOf(t, d))
    /\ UNCHANGED <<now, phase, file, lost, faults>>

Unban(t) ==
    /\ phase = "up" /\ Idle
    /\ entries[t] # Free
    /\ Save(t, Free)
    /\ last' = OrderFor(t, Free)
    /\ UNCHANGED <<now, phase, file, lost, faults>>

(* isIdBanned, isIpBanned, isBlacklisted: an entry that is over is deleted *)
(* when it is met.                                                         *)
LookUp(t) ==
    /\ phase = "up" /\ Idle
    /\ IF Expired(entries[t]) THEN Save(t, Free) ELSE UNCHANGED <<entries, pending>>
    /\ last' = Answer(t, entries[t] # Free /\ ~Expired(entries[t]))
    /\ UNCHANGED <<now, phase, file, lost, faults>>

-----------------------------------------------------------------------------
Write ==
    /\ ~Idle
    /\ file' = [file EXCEPT ![Head(pending)] = List(Head(pending))]
    /\ pending' = Tail(pending)
    /\ UNCHANGED <<now, phase, entries, last, lost, faults>>

Spoil(k) ==
    /\ faults < MaxFaults /\ faults' = faults + 1
    /\ lost' = lost \cup {GroupOf(k)}

(* A write throws, before or after the file was cut: the save ends here,   *)
(* and the server goes on with what it has in memory.                      *)
WriteFails ==
    /\ ~Idle
    /\ Spoil(Head(pending))
    /\ file' \in {file, [file EXCEPT ![Head(pending)] = Torn]}
    /\ pending' = <<>>
    /\ UNCHANGED <<now, phase, entries, last>>

Dies ==
    /\ phase' = "down"
    /\ entries' = [t \in Targets |-> Free]
    /\ pending' = <<>>
    /\ last' = NoCall
    /\ UNCHANGED now

(* The process dies between two writes, or at rest. *)
Crash ==
    /\ phase # "down"
    /\ Dies
    /\ UNCHANGED <<file, lost, faults>>

(* It dies within a write: the file is cut. *)
CrashInWrite ==
    /\ ~Idle
    /\ Spoil(Head(pending))
    /\ file' = [file EXCEPT ![Head(pending)] = Torn]
    /\ Dies

-----------------------------------------------------------------------------
Cleaned(t, k) == IF Expired(file[k][t]) THEN Free ELSE file[k][t]

Slip_ReadsOneFile ==
    /\ phase = "down"
    /\ phase' = "bans"
    /\ entries' = [t \in Targets |-> IF KindOf(t) = "id" /\ file["id"] # Torn
                                     THEN Cleaned(t, "id") ELSE Free]
    /\ UNCHANGED <<now, file, pending, last, lost, faults>>

(* loadBans: one file after the other, up to the first that does not       *)
(* parse.  Entries that are over are dropped only if both are read.        *)
LoadBans ==
    LET read == {k \in {"id", "ip"} : file["id"] # Torn /\ file[k] # Torn}
        clean == read = {"id", "ip"}
        over == {t \in Ids \cup Ips : clean /\ Expired(file[KindOf(t)][t])}
    IN  /\ phase = "down"
        /\ phase' = "bans"
        /\ entries' = [t \in Targets |->
               IF KindOf(t) \notin read \/ t \in over THEN Free ELSE file[KindOf(t)][t]]
        /\ pending' = IF over = {} THEN <<>> ELSE Saves("id")
        /\ UNCHANGED <<now, file, last, lost, faults>>

Slip_KeepsWhatIsOver ==
    LET read == file["login"] # Torn
        over == {t \in Clients : read /\ file["login"][t] \in Nat /\ file["login"][t] > now}
    IN  /\ phase = "bans" /\ Idle
        /\ phase' = "up"
        /\ entries' = [t \in Targets |->
               IF KindOf(t) # "login" THEN entries[t]
               ELSE IF read /\ t \notin over THEN file["login"][t] ELSE Free]
        /\ pending' = IF over = {} THEN <<>> ELSE Saves("login")
        /\ UNCHANGED <<now, file, last, lost, faults>>

(* loadBlacklist *)
LoadBlacklist ==
    LET read == file["login"] # Torn
        over == {t \in Clients : read /\ Expired(file["login"][t])}
    IN  /\ phase = "bans" /\ Idle
        /\ phase' = "up"
        /\ entries' = [t \in Targets |->
               IF KindOf(t) # "login" THEN entries[t]
               ELSE IF read /\ t \notin over THEN file["login"][t] ELSE Free]
        /\ pending' = IF over = {} THEN <<>> ELSE Saves("login")
        /\ UNCHANGED <<now, file, last, lost, faults>>

Next ==
    \/ Tick \/ Write \/ WriteFails
    \/ Crash \/ CrashInWrite
    \/ LoadBans \/ LoadBlacklist
    \/ \E t \in Targets : Unban(t) \/ LookUp(t) \/ \E d \in Durations : Ban(t, d)

Spec == Init /\ [][Next]_vars

-----------------------------------------------------------------------------
Unsaved(k) == \E i \in DOMAIN pending : pending[i] = k
Loaded(k) == phase = "up" \/ (phase = "bans" /\ k # "login")

(* What a restart would find is what the server goes by, unless a write    *)
(* failed or was torn: a change is on the disk before the call that made   *)
(* it returns, and no change of one list is left out of its file by the    *)
(* save of another.                                                        *)
StoredIsInForce ==
    \A k \in Kinds :
        Loaded(k) /\ ~Unsaved(k) /\ GroupOf(k) \notin lost => file[k] = List(k)

(* The end of the ban of t: in memory, or in the file while the process is *)
(* down or the change is not written yet.                                  *)
InForce(t) ==
    LET k == KindOf(t)
        end == IF Loaded(k) /\ ~Unsaved(k) THEN entries[t]
               ELSE IF file[k] = Torn THEN Free ELSE file[k][t]
    IN  IF Expired(end) THEN Free ELSE end

LastOf(ts) == IF last.target \in ts THEN last ELSE NoCall

BanList == INSTANCE Bans WITH
    Targets <- Ids \cup Ips, until <- [t \in Ids \cup Ips |-> InForce(t)],
    last <- LastOf(Ids \cup Ips), damaged <- ("bans" \in lost)

Blacklist == INSTANCE Bans WITH
    Targets <- Clients, Exempt <- {}, until <- [t \in Clients |-> InForce(t)],
    last <- LastOf(Clients), damaged <- ("logins" \in lost)

(* Whatever is deleted late, saved in two writes or read back after a      *)
(* crash, BanManager's bans behave as a list that knows neither process    *)
(* nor file, until a write of theirs fails or is torn.                     *)
BansExact == BanList!Spec

(* So does the blacklist of the login, which a fault in the files of the   *)
(* bans does not touch.                                                    *)
BlacklistExact == Blacklist!Spec
=============================================================================
