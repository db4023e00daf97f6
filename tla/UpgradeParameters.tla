------------------------- MODULE UpgradeParameters -------------------------
(* The parameters of RollingUpgrade, and what its theorems take of them.   *)
EXTENDS Integers, FiniteSets

CONSTANTS
    N,            \* spec.replicas of the server StatefulSet
    Tags,         \* image tags that name a patch, ordered as versions
    FirstTag,     \* the version the cluster runs before the first upgrade
    Unpullable,   \* tags whose image may fail to pull
    Crashing,     \* tags a server crash-loops on
    AutoPause,    \* spec.upgradeStrategy.autoPauseOnFailure
    HealthChecks, \* spec.upgradeStrategy.preUpgradeHealthCheck and .post...
    GatedUpdate,  \* feature gate MaxUnavailableStatefulSet
    LowerEdits,   \* whether the user may lower spec.image.tag
    EditsInFlight,\* whether the user edits it while the machine is active
    MaxEdits, MaxLost, MaxTimeouts   \* bounds on what the environment does

ASSUME ConstantsAssumption ==
    /\ N \in Nat \ {0}
    /\ Tags \subseteq Nat \ {0}
    /\ FirstTag \in Tags
    /\ Unpullable \subseteq Tags /\ Crashing \subseteq Tags
    /\ {AutoPause, HealthChecks, GatedUpdate} \subseteq BOOLEAN
    /\ {LowerEdits, EditsInFlight} \subseteq BOOLEAN
    /\ {MaxEdits, MaxLost, MaxTimeouts} \subseteq Nat
=============================================================================
