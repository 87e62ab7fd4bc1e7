---------------------------- MODULE GameHistory -----------------------------
(***************************************************************************)
(* What a game of RoomServer has come to, told from what happened in it    *)
(* and not from the flags of the players.                                  *)
(*                                                                         *)
(* The flag `finished' of a player is also set by a record that was asked  *)
(* for in an earlier game of the room: handlePlayed captures the room and  *)
(* the player before it waits for the API, and marks the player without    *)
(* looking at the game again.  The history variables tell the two apart:   *)
(* they follow each step of RoomServer and restrict none.                  *)
(***************************************************************************)
EXTENDS RoomServer

VARIABLES
    late,     \* slots whose record is of a game that is over
    done,     \* <<o, u>>: u has finished the game that is on in o
    mistaken  \* <<o, u>>: a record of an earlier game has come for u in it

historyVars == <<vars, late, done, mistaken>>

-----------------------------------------------------------------------------
InGame(o) == heap[o].state = Playing

(* The ways to finish a game: one gives up; an administrator who forces    *)
(* the start counts those who are not ready as having done so; the record  *)
(* of the game comes.                                                      *)
GivesUpGame(o, u) == o \in RoomsOf(u) /\ Abort(u)

CountedOut(o, u) ==
    /\ Listed(o) /\ ~InGame(o) /\ InGame(o)'
    /\ u \notin heap[o].ready \cup {heap[o].ownerId}
    /\ ForceStart(heap[o].id)

RecordOf(s, o, u) ==
    /\ calls[s].kind = "record"
    /\ calls[s].room = o
    /\ calls[s].user = u
    /\ calls[s].same
    /\ RecordFetched(s)

Reports(o, u) == \E s \in Slots \ late : RecordOf(s, o, u)

(* u has finished, or finishes by this very step. *)
Finishes(o, u) ==
    <<o, u>> \in done \/ GivesUpGame(o, u) \/ CountedOut(o, u) \/ Reports(o, u)

Mistaken(o, u) == <<o, u>> \in mistaken \/ \E s \in late : RecordOf(s, o, u)

History ==
    /\ late' = {s \in Slots : /\ calls'[s].kind = "record" /\ calls'[s].same
                              /\ s \in late \/ heap'[calls'[s].room].state # Playing}
    /\ done' = {p \in (Objects \X Users)' : InGame(p[1])' /\ Finishes(p[1], p[2])}
    /\ mistaken' = {p \in (Objects \X Users)' : InGame(p[1])' /\ Mistaken(p[1], p[2])}

HistoryInit == Init /\ late = {} /\ done = {} /\ mistaken = {}

HistorySpec == HistoryInit /\ [][Next /\ History]_historyVars

(* Rooms run by their players alone, who do not play forever. *)
FairPlayerSpec ==
    /\ HistoryInit
    /\ [][PlayerStep /\ History]_historyVars
    /\ \A u \in Users : WF_vars(GivesUp(u))

-----------------------------------------------------------------------------
(* A game ends when everybody who stays and takes part in it has finished  *)
(* this game: has given up, has been counted as having done so by an       *)
(* administrator's start, or has had the record of this game come          *)
(* (checkGameEnd after handlePlayed, handleAbort, leaving, disconnecting). *)
(* Two things the code lets happen are excepted.  A chart whose data come  *)
(* late ends the game whoever plays (see ChartKeepsGame).  And a player    *)
(* whose own record of an earlier game comes late is taken to have         *)
(* finished, so that the game may end under it: nobody else's may.         *)
GamesEndWhenDone ==
    [][\A o \in Objects : StaysListed(o) /\ StopsPlaying(o) =>
           \/ \E s \in Slots : ChartFetched(s)
           \/ \A u \in Active(heap[o]) \cap Members(heap'[o]) :
                  Finishes(o, u) \/ Mistaken(o, u)]_historyVars
=============================================================================
