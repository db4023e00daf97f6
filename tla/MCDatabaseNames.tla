-------------------------- MODULE MCDatabaseNames --------------------------
(* Instances of DatabaseNames: rivals of one kind, and CRs of two kinds    *)
(* whose statements stand in each other's way.                             *)
EXTENDS DatabaseNames

Scene(crs, names, standing, fates, changes, outages, crashes) ==
    [crs |-> crs, names |-> names, standing |-> standing, fates |-> fates,
     changes |-> changes, outages |-> outages, crashes |-> crashes]

Scenes ==
    {Scene({"d1", "d2"}, {"n1"}, {}, {}, 3, 0, 0),
     Scene({"d1", "d2"}, {"n1", "n2"}, {}, {}, 2, 0, 0),
     Scene({"d1"}, {"n1"}, {}, {"outage", "delete", "create"}, 2, 1, 0),
     Scene({"d3"}, {"n1", "n2"}, {}, {}, 2, 0, 1),
     Scene({"a1", "a2"}, {"n1", "l1"}, {"n1"}, {}, 2, 0, 0),
     Scene({"d1", "a1"}, {"n1", "l1"}, {}, {}, 2, 0, 0),
     Scene({"d1", "q1"}, {"n1", "c1"}, {}, {}, 2, 0, 0),
     Scene({"q1"}, {"n1", "n2", "c1"}, {"n1"}, {"outage"}, 2, 1, 0),
     Scene({"q1"}, {"n1", "n2", "c1"}, {"n1", "n2"}, {}, 2, 0, 0),
     Scene({"q1", "a1"}, {"n1", "l1", "c1"}, {"n1"}, {}, 2, 0, 0)}
=============================================================================
