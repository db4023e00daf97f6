------------------------ MODULE ExpansionParameters -------------------------
(* The parameters of StorageExpansion, and what its theorems take of them. *)
EXTENDS Integers, FiniteSets

CONSTANTS
    N,            \* spec.topology.servers
    Sizes,        \* values the user gives spec.storage.size
    LaggingRecord,\* whether currentPartition may be one behind the partition
    EditsMidway,  \* whether the user edits the size during an expansion
    UnreadRevisions,\* whether reading a ControllerRevision may fail
    LostMidway,   \* whether pods are missing or lost during an expansion
    MaxEdits, MaxRestarts, MaxLost   \* bounds on what the environment does

ASSUME ExpansionAssumption ==
    /\ N \in Nat \ {0}
    /\ Sizes \subseteq Nat /\ Sizes # {}
    /\ {LaggingRecord, EditsMidway, UnreadRevisions, LostMidway} \subseteq BOOLEAN
    /\ {MaxEdits, MaxRestarts, MaxLost} \subseteq Nat
=============================================================================
