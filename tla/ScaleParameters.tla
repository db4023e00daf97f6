-------------------------- MODULE ScaleParameters ---------------------------
(* The parameters of ScaleDown, and what its theorems take of them.        *)
EXTENDS Integers, FiniteSets

CONSTANTS
    MaxServers,       \* the largest spec.topology.servers
    MaxGens,          \* data volumes an ordinal can have over time
    Sizes,            \* values the user gives spec.topology.servers
    MinPrimaries,     \* minimum_initial_system_primaries_count
    StaleCopies,      \* whether a pass may start from an old cached cluster
    StaleSts,         \* whether it may read an old cached StatefulSet
    AddressLoss,      \* whether the operator may forget servers' addresses
    EditsWhileJoining,\* whether the user edits while a server is starting
    Refusals,         \* whether Neo4j may refuse, or not be reached
    MaxEdits, MaxLost, MaxHand, MaxCordons  \* bounds

ASSUME ScaleAssumption ==
    /\ {MaxServers, MaxGens} \subseteq Nat \ {0}
    /\ Sizes \subseteq 1 .. MaxServers /\ MaxServers \in Sizes
    /\ MinPrimaries \in Nat
    /\ {StaleCopies, StaleSts, AddressLoss} \subseteq BOOLEAN
    /\ {EditsWhileJoining, Refusals} \subseteq BOOLEAN
    /\ {MaxEdits, MaxLost, MaxHand, MaxCordons} \subseteq Nat
=============================================================================
