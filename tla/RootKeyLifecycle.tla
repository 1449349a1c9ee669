--------------------------- MODULE RootKeyLifecycle ---------------------------
(***************************************************************************)
(* What SPIKE Nexus promises about its root key (spec 3, RootKey; spec     *)
(* 4.7): the key is created once, when the backend is first initialized;  *)
(* after that, a running Nexus either is locked, holding no key, or holds  *)
(* exactly the key the backend is encrypted under, and a crash loses it.   *)
(* How the key comes back (keepers, operator restore) is not said here.   *)
(***************************************************************************)
CONSTANTS
    Keys,        \* root keys that may be generated
    NoKey        \* the all-zero key

VARIABLES
    phase,       \* "Down", "Locked" or "Unlocked"
    key,         \* the key Nexus holds
    stored       \* the key the backend is encrypted under

Phases == {"Down", "Locked", "Unlocked"}

Init ==
    /\ phase = "Down"
    /\ key = NoKey
    /\ stored = NoKey

Start ==
    /\ phase = "Down"
    /\ phase' = "Locked"
    /\ UNCHANGED <<key, stored>>

\* First-ever start: a key is generated and the backend initialized under it.
Generate ==
    /\ phase = "Locked"
    /\ stored = NoKey
    /\ \E k \in Keys : key' = k /\ stored' = k
    /\ phase' = "Unlocked"

\* The backend's key is recovered, by whatever means.
Unlock ==
    /\ phase = "Locked"
    /\ stored # NoKey
    /\ key' = stored
    /\ phase' = "Unlocked"
    /\ UNCHANGED stored

Crash ==
    /\ phase # "Down"
    /\ phase' = "Down"
    /\ key' = NoKey
    /\ UNCHANGED stored

Next == Start \/ Generate \/ Unlock \/ Crash

Spec == Init /\ [][Next]_<<phase, key, stored>>
=============================================================================
