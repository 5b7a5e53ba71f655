---------------------------- MODULE OrderedUpgrade ----------------------------
(***************************************************************************)
(* What the ordered upgrade promises one node, whatever the labels, caches *)
(* and queues that bring it about: a version of a kernel module is granted *)
(* only when no other is, it is opened to the device plugin and DRA Pods   *)
(* only while it is granted, and it is withdrawn only when it is closed    *)
(* and the last of its Pods has gone.  A Module can be waived, for good:   *)
(* then nothing more is promised of it.                                    *)
(***************************************************************************)
CONSTANTS
    Modules,
    Versions,
    NoVersion

VARIABLES
    granted,   \* the version of each Module whose kernel module may be loaded
    open,      \* the version whose Pods may be started
    users,     \* the versions of the Pods on the node
    waived     \* Modules the promise no longer covers

vars == <<granted, open, users, waived>>

Init ==
    /\ granted = [m \in Modules |-> NoVersion]
    /\ open = [m \in Modules |-> NoVersion]
    /\ users = [m \in Modules |-> {}]
    /\ waived = {}

\* The parts of Module m that a step leaves alone
SameGranted(m) == granted'[m] = granted[m]
SameOpen(m)    == open'[m] = open[m]
SameUsers(m)   == users'[m] = users[m]

Grant(m) ==
    /\ granted[m] = NoVersion
    /\ granted'[m] \in Versions
    /\ SameOpen(m) /\ SameUsers(m)

Open(m) ==
    /\ granted[m] # NoVersion
    /\ open'[m] = granted[m]
    /\ SameGranted(m) /\ SameUsers(m)

Close(m) ==
    /\ open'[m] = NoVersion
    /\ SameGranted(m) /\ SameUsers(m)

Withdraw(m) ==
    /\ open[m] = NoVersion
    /\ users[m] = {}
    /\ granted'[m] = NoVersion
    /\ SameOpen(m) /\ SameUsers(m)

UserStarts(m) ==
    /\ open[m] # NoVersion
    /\ users'[m] = users[m] \cup {open[m]}
    /\ SameGranted(m) /\ SameOpen(m)

UserStops(m) ==
    /\ users'[m] \subseteq users[m]
    /\ SameGranted(m) /\ SameOpen(m)

\* One patch of the Node may move several Modules, each by one step of its own.
Next ==
    /\ waived \subseteq waived'
    /\ \A m \in Modules \ waived' :
           \/ Grant(m) \/ Open(m) \/ Close(m) \/ Withdraw(m)
           \/ UserStarts(m) \/ UserStops(m)

Spec == Init /\ [][Next]_vars
==============================================================================
