---------------------------- MODULE MCScaleDown ----------------------------
(* Safety of scaling down and up.  part says which instance a behaviour is *)
(* of:                                                                     *)
(*   fresh - ScaleDown itself with the constants of the cfg: one pod lost, *)
(*           and addresses the operator forgets, or one server cordoned by *)
(*           hand;                                                         *)
(*   stale - passes that read old copies of the cluster and StatefulSet:   *)
(*           two servers, three edits.                                     *)
EXTENDS ScaleDown

VARIABLES part, sobj, scache, sreplicas, sseen, spods, svol, ssrv, shosts,
          shand, sknown, ssince, sclock, sop, sused
other == <<sobj, scache, sreplicas, sseen, spods, svol, ssrv, shosts,
           shand, sknown, ssince, sclock, sop, sused>>

Stale == INSTANCE ScaleDown WITH
           MaxServers <- 2, MaxGens <- 3, Sizes <- 1 .. 2, MaxEdits <- 3,
           StaleCopies <- TRUE, StaleSts <- TRUE, AddressLoss <- FALSE,
           MaxLost <- 0, MaxHand <- 0,
           obj <- sobj, cache <- scache, replicas <- sreplicas, seen <- sseen,
           pods <- spods, vol <- svol, srv <- ssrv, hosts <- shosts,
           hand <- shand, known <- sknown, since <- ssince, clock <- sclock,
           op <- sop, used <- sused

HandOrAddresses == used'.hand = 0 \/ (known' # {} /\ used'.lost = 0)
MCInit == Init /\ Stale!Init /\ part \in {"fresh", "stale"}
MCNext ==
    /\ UNCHANGED part
    /\ \/ part = "fresh" /\ Next /\ HandOrAddresses /\ UNCHANGED other
       \/ part = "stale" /\ Stale!Next /\ UNCHANGED vars

MCSpec == MCInit /\ [][MCNext]_<<part, vars, other>>

\* Even on old copies, no pod is started on the volume of a server that Neo4j
\* dropped, and no server the pass's spec keeps is deallocated: also by three
\* servers on fresh copies, but where a server is down whose address is forgotten.
StaleSafe == [][/\ Stale!RevivalStep /\ Stale!KeptStep
                /\ used.lost = 0 => KeptStep]_<<vars, other>>
=============================================================================
