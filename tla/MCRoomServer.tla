---------------------------- MODULE MCRoomServer ----------------------------
(* Instances of RoomServer for TLC: the sets of model values are given in  *)
(* the configurations, the derived ones here.                              *)
EXTENDS RoomServer, TLC

(* Users and room ids are interchangeable: no definition of RoomServer     *)
(* tells one from another except by position in a room's order.            *)
Symmetry == Permutations(Users) \cup Permutations(RoomIds)

NoLists == {}

(* One list, of a user that is not interchangeable with the others. *)
CONSTANT Listee
OneList == {{Listee}, {}}
=============================================================================
