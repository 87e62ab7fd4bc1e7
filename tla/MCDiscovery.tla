---------------------------- MODULE MCDiscovery ----------------------------
(* Instances of Discovery for TLC. *)
EXTENDS Discovery, TLC, FiniteSets

CONSTANTS n1, n2, n3

(* One node is everybody's seed. *)
StarSeeds == n1 :> {} @@ n2 :> {n1} @@ n3 :> {n1}

(* bound: a node crashes while all run and this many messages at most are  *)
(* under way.  The seed crashes, or one of the others, which are alike.    *)
MaxUnderWay == 2

CrashOf(n) == Running /\ Cardinality(msgs) <= MaxUnderWay /\ Crash(n)

MeshSpec ==
    /\ NetInit /\ [][NetNext \/ CrashOf(n1) \/ CrashOf(n2)]_netVars
    /\ NetFairness
=============================================================================
