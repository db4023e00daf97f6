---------------------------- MODULE NameRegistry ----------------------------
(***************************************************************************)
(* What the controllers of databases, aliases and composites promise       *)
(* together: a registry of slots, each a kind and a name.  Clients hold    *)
(* slots (a CR that reports Ready answers for what its spec names), and    *)
(* the registry frees a slot only while no client holds it.  What happens  *)
(* outside of it - edits and deletions of clients, statements by hand, the *)
(* life of the deployment - shows in `world` and may take any slot, and    *)
(* gives no client one.                                                    *)
(***************************************************************************)
CONSTANTS Slots, Clients

VARIABLES there, holds, world
registry == <<there, holds, world>>

Init == there \in SUBSET Slots /\ holds = [c \in Clients |-> {}]

\* A slot is filled.
Give == \E s \in Slots \ there :
    there' = there \cup {s} /\ UNCHANGED <<holds, world>>

\* A client reports that it has its slot, or no longer does.
Hold == \E c \in Clients, s \in Slots :
    holds' = [holds EXCEPT ![c] = {s}] /\ UNCHANGED <<there, world>>
LetGo == \E c \in Clients :
    holds' = [holds EXCEPT ![c] = {}] /\ UNCHANGED <<there, world>>

\* A slot is freed: nobody holds it.
Free == \E s \in there :
    /\ \A c \in Clients : s \notin holds[c]
    /\ there' = there \ {s} /\ UNCHANGED <<holds, world>>

Outside ==
    /\ world' # world /\ there' \in SUBSET Slots
    /\ \A c \in Clients : holds'[c] \subseteq holds[c]
    /\ DOMAIN holds' = Clients

Next == Give \/ Hold \/ LetGo \/ Free \/ Outside

Spec == Init /\ [][Next]_registry
=============================================================================
