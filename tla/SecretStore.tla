----------------------------- MODULE SecretStore -----------------------------
(***************************************************************************)
(* The versioned secret store of SPIKE Nexus (spec 4.3) and the two        *)
(* commands of the spike CLI that drive it from src/: `secret get`         *)
(* (cmd/secret/get.go) and `secret undelete` (cmd/secret/undelete.go).     *)
(*                                                                         *)
(* The store itself (pkg/store) is not under src/ and is modelled from the *)
(* spec: each path holds a history of versions, oldest first, each with   *)
(* its data and a soft-delete mark; put appends the next version and      *)
(* evicts the oldest beyond MaxSecretVersions; version 0 in a call means   *)
(* the current version, the highest one not soft-deleted.  The CLI's       *)
(* argument handling is translated from the source: undelete's --versions  *)
(* flag defaults to "0", is split at commas and every element must parse   *)
(* as a non-negative integer, or nothing is sent; get sends its --version  *)
(* flag as it is.                                                          *)
(*                                                                         *)
(* The store is guarded by one reader-writer lock (spec 5), so every call  *)
(* is one atomic step.  `issued` is a history variable: the highest        *)
(* version ever assigned on a path.  `last` records the last call and its  *)
(* answer, as the CLI prints it.                                           *)
(***************************************************************************)
EXTENDS Integers, Sequences, SequencesExt, FiniteSetsExt

CONSTANTS
    Paths,              \* secret paths
    Values,             \* secret payloads
    MaxSecretVersions,  \* per-path history cap
    MaxVersion,         \* bound on the versions put may assign
    NotANumber,         \* a --versions element strconv.Atoi rejects
    DeleteLists,        \* version lists a delete request may carry
    UndeleteFlags,      \* --versions flags of `secret undelete`, split at commas
    GetVersions         \* --version flags of `secret get`

\* The answer for a missing or soft-deleted version (a nil secret in the CLI).
NotFound == "NotFound"

ASSUME SecretStoreAssumption ==
    /\ Paths # {}
    /\ MaxSecretVersions \in Nat \ {0}
    /\ MaxVersion \in Nat
    /\ NotANumber \notin Int
    /\ DeleteLists \subseteq Seq(Nat)
    /\ UndeleteFlags \subseteq Seq(Int \cup {NotANumber})
    /\ GetVersions \subseteq Int

Entry == [version : 1..MaxVersion, data : Values, deleted : BOOLEAN]

Calls == {"none", "put", "get", "delete", "undelete", "rejected"}

VARIABLES
    secrets,   \* path -> sequence of entries, oldest first
    issued,    \* path -> highest version ever assigned (history)
    last       \* the last call: [op, path, args, resolved, result]

vars == <<secrets, issued, last>>

NoCall == [op |-> "none", path |-> CHOOSE p \in Paths : TRUE, args |-> <<>>,
           resolved |-> {}, result |-> NotFound]

TypeOK ==
    /\ secrets \in [Paths -> Seq(Entry)]
    /\ issued \in [Paths -> 0..MaxVersion]
    /\ last.op \in Calls /\ last.path \in Paths /\ last.resolved \subseteq Nat

Init ==
    /\ secrets = [p \in Paths |-> <<>>]
    /\ issued = [p \in Paths |-> 0]
    /\ last = NoCall

-----------------------------------------------------------------------------
(* The store (spec 4.3).                                                   *)

\* The versions stored for a path, and those not soft-deleted.
Versions(p) == {e.version : e \in ToSet(secrets[p])}
Live(p) == {e.version : e \in {x \in ToSet(secrets[p]) : ~x.deleted}}

\* Version 0 means the current version: the highest live one (0 if none).
Current(p) == IF Live(p) = {} THEN 0 ELSE Max(Live(p))
Resolve(p, v) == IF v = 0 THEN Current(p) ELSE v

NextVersion(p) == IF secrets[p] = <<>> THEN 1 ELSE Last(secrets[p]).version + 1

\* Mutant: a history at the cap already evicts, one version too early.
AppendedEvictsAtCap(p, e) ==
    LET h == Append(secrets[p], e)
    IN IF Len(h) >= MaxSecretVersions THEN Tail(h) ELSE h

\* The history after appending e, the oldest version evicted beyond the cap.
Appended(p, e) ==
    LET h == Append(secrets[p], e)
    IN IF Len(h) > MaxSecretVersions THEN Tail(h) ELSE h

Put(p, d) ==
    /\ NextVersion(p) <= MaxVersion
    /\ secrets' = [secrets EXCEPT ![p] =
                     Appended(p, [version |-> NextVersion(p), data |-> d, deleted |-> FALSE])]
    /\ issued' = [issued EXCEPT ![p] = NextVersion(p)]
    /\ last' = [op |-> "put", path |-> p, args |-> <<NextVersion(p)>>,
                resolved |-> {NextVersion(p)}, result |-> "ok"]

\* The data of version v, or NotFound if it is absent or soft-deleted.
Read(p, v) ==
    LET hits == {e \in ToSet(secrets[p]) : e.version = Resolve(p, v) /\ ~e.deleted}
    IN IF hits = {} THEN NotFound ELSE (CHOOSE e \in hits : TRUE).data

\* An entry with its soft-delete mark set to flag.
Marked(e, flag) == [version |-> e.version, data |-> e.data, deleted |-> flag]

\* Set the soft-delete mark of the listed versions, 0 resolved first.
Mark(p, vs, flag) ==
    LET targets == {Resolve(p, v) : v \in ToSet(vs)}
    IN /\ secrets' = [secrets EXCEPT ![p] =
                        [i \in DOMAIN secrets[p] |->
                           IF secrets[p][i].version \in targets
                             THEN Marked(secrets[p][i], flag)
                             ELSE secrets[p][i]]]
       /\ last' = [op |-> IF flag THEN "delete" ELSE "undelete", path |-> p,
                   args |-> vs, resolved |-> targets \cap Versions(p), result |-> "ok"]
       /\ UNCHANGED issued

Delete(p, vs) == Mark(p, vs, TRUE)

-----------------------------------------------------------------------------
(* The CLI commands.                                                       *)

\* `secret undelete <path> -v <flag>`: an empty flag means "0"; every
\* element must be an integer and not negative, else an error is printed
\* and no request is sent.
UndeleteCmd(p, flag) ==
    LET versions == IF flag = <<>> THEN <<0>> ELSE flag
    IN IF \A i \in DOMAIN versions : versions[i] \in Nat
         THEN Mark(p, versions, FALSE)
         ELSE /\ last' = [op |-> "rejected", path |-> p, args |-> <<>>,
                          resolved |-> {}, result |-> "error"]
              /\ UNCHANGED <<secrets, issued>>

\* `secret get <path> -v <version>`: the version is sent unchecked; a nil
\* secret prints "Secret not found.".
GetCmd(p, v) ==
    /\ last' = [op |-> "get", path |-> p, args |-> <<v>>,
                resolved |-> {}, result |-> Read(p, v)]
    /\ UNCHANGED <<secrets, issued>>

Next ==
    \E p \in Paths :
        \/ \E d \in Values : Put(p, d)
        \/ \E vs \in DeleteLists : Delete(p, vs)
        \/ \E f \in UndeleteFlags : UndeleteCmd(p, f)
        \/ \E v \in GetVersions : GetCmd(p, v)

Spec == Init /\ [][Next]_vars

-----------------------------------------------------------------------------
(* Properties.                                                             *)

\* Spec 5 (ordering): every put assigns a version higher than any version
\* ever assigned on that path before, across soft deletes and evictions.
VersionsMonotonic ==
    [][\A p \in Paths :
         last'.op = "put" /\ last'.path = p => \A v \in last'.resolved : v > issued[p]]_vars

\* Spec 4.3: a path keeps exactly the newest MaxSecretVersions versions ever
\* assigned to it (all of them while fewer were assigned), soft-deleted
\* ones counted, oldest first, with no gap and no duplicate.
HistoryWindow ==
    \A p \in Paths :
        /\ Len(secrets[p]) = IF issued[p] < MaxSecretVersions THEN issued[p]
                                                           ELSE MaxSecretVersions
        /\ \A i \in 1..Len(secrets[p]) :
              secrets[p][i].version = issued[p] - Len(secrets[p]) + i

\* Spec 7, property 3: `secret undelete` with the version list of the delete
\* just made makes every version that delete hid readable again, while it
\* is still in the history window.
UndeleteRestores ==
    [][last.op = "delete" /\ last'.op = "undelete" /\ last'.path = last.path
          /\ last'.args = last.args
       => \A v \in last.resolved :
             v \in Versions(last.path)' => Read(last.path, v)' # NotFound]_vars
=============================================================================
