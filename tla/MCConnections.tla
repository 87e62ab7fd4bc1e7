--------------------------- MODULE MCConnections ---------------------------
(* Instances of Connections for TLC. *)
EXTENDS Connections, TLC

CONSTANTS c1, c2, c3, u1, u2, ip1, ip2

(* One user on two connections, another one on a third. *)
ReconnectAccount == c1 :> {u1} @@ c2 :> {u1} @@ c3 :> {u2}

(* Each of two connections has a user of its own. *)
OwnAccounts == c1 :> {u1} @@ c2 :> {u2}

(* A single connection. *)
SingleAccount == c1 :> {u1}

NoLocal == {}
OneLocal == {ip2}

(* Logins without the handling of addresses. *)
LoginNext ==
    \/ \E c \in Conns, ip \in Ips : Accept(c, ip)
    \/ \E c \in Conns : HangUp(c) \/ SocketClosed(c)
    \/ Logins \/ InRooms

LoginSpec == Init /\ [][LoginNext]_vars

FairLoginSpec == LoginSpec /\ \A c \in Conns : WF_vars(SocketClosed(c))
=============================================================================
