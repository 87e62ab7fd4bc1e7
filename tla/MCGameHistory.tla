--------------------------- MODULE MCGameHistory ----------------------------
(* An instance of GameHistory for TLC, over the sets of MCRoomServer. *)
EXTENDS GameHistory, MCRoomServer
=============================================================================
