---------------------------- MODULE PolicyStore ----------------------------
(***************************************************************************)
(* The policy store of SPIKE Nexus (state/base/policy.go) and its          *)
(* best-effort mirror in the persistence backend (state/persist/policy.go).*)
(*                                                                         *)
(* The authoritative copy is the sync.Map `policies` in memory; every      *)
(* CreatePolicy and DeletePolicy writes through to the backend, and a      *)
(* GetPolicy that misses memory reads the backend and warms the map.  Each *)
(* operation runs on the request's own goroutine, so the steps of several  *)
(* operations interleave: the operations are split at the points where     *)
(* they touch shared state.  A policy is abstracted to its name; its id is *)
(* a UUID, drawn fresh from Ids.                                           *)
(***************************************************************************)
EXTENDS Naturals, FiniteSets

CONSTANTS
    Names,      \* policy names callers use
    Ids,        \* UUIDs uuid.New may return
    Procs,      \* request goroutines
    None        \* absent map entry / nil policy

ASSUME NoneAssumption == None \notin Names /\ None \notin Ids

VARIABLES
    policies,   \* the in-memory sync.Map: id -> name
    backend,    \* the persisted policies: id -> name
    used,       \* UUIDs already handed out
    pc,         \* step each goroutine is at
    pName,      \* name of the policy a goroutine is creating
    pId,        \* id a goroutine is creating, deleting or getting
    pRead,      \* policy ReadPolicy returned to a goroutine
    deleted     \* ids whose DeletePolicy returned success (history)

vars == <<policies, backend, used, pc, pName, pId, pRead, deleted>>

PcStates == {"idle", "createStore", "createPersist", "deleteRemove",
             "deletePersist", "getRead", "getStore"}

TypeOK ==
    /\ policies \in [Ids -> Names \cup {None}]
    /\ backend \in [Ids -> Names \cup {None}]
    /\ used \subseteq Ids
    /\ pc \in [Procs -> PcStates]
    /\ pName \in [Procs -> Names \cup {None}]
    /\ pId \in [Procs -> Ids \cup {None}]
    /\ pRead \in [Procs -> Names \cup {None}]
    /\ deleted \subseteq Ids
    /\ \A p \in Procs :
          /\ pc[p] \in {"createStore", "createPersist"}
                => pName[p] \in Names /\ pId[p] \in used
          /\ pc[p] # "idle" => pId[p] \in Ids
          /\ pc[p] = "getStore" => pRead[p] \in Names

Init ==
    /\ policies = [i \in Ids |-> None]
    /\ backend = [i \in Ids |-> None]
    /\ used = {}
    /\ pc = [p \in Procs |-> "idle"]
    /\ pName = [p \in Procs |-> None]
    /\ pId = [p \in Procs |-> None]
    /\ pRead = [p \in Procs |-> None]
    /\ deleted = {}

\* A goroutine finishes its request and is ready for the next one.
Finish(p) ==
    /\ pc' = [pc EXCEPT ![p] = "idle"]
    /\ pName' = [pName EXCEPT ![p] = None]
    /\ pId' = [pId EXCEPT ![p] = None]
    /\ pRead' = [pRead EXCEPT ![p] = None]

-----------------------------------------------------------------------------
(***************************************************************************)
(* CreatePolicy.  The duplicate-name scan (policies.Range) and the store   *)
(* (policies.Store) are separate accesses to the map, with regex          *)
(* compilation and UUID generation between them; a duplicate name or a     *)
(* pattern that does not compile returns an error and changes nothing.    *)
(* The backend write (persist.StorePolicy) logs a failure and goes on.     *)
(***************************************************************************)
NameTaken(n) == \E i \in Ids : policies[i] = n

\* Mutant: the caller-supplied id is kept instead of a fresh UUID.
CreateScanKeepsId(p, n) ==
    /\ pc[p] = "idle"
    /\ ~NameTaken(n)
    /\ \E i \in Ids :
          /\ pId' = [pId EXCEPT ![p] = i]
          /\ used' = used \cup {i}
    /\ pName' = [pName EXCEPT ![p] = n]
    /\ pc' = [pc EXCEPT ![p] = "createStore"]
    /\ UNCHANGED <<policies, backend, pRead, deleted>>

CreateScan(p, n) ==
    /\ pc[p] = "idle"
    /\ ~NameTaken(n)
    /\ \E i \in Ids \ used :
          /\ pId' = [pId EXCEPT ![p] = i]
          /\ used' = used \cup {i}
    /\ pName' = [pName EXCEPT ![p] = n]
    /\ pc' = [pc EXCEPT ![p] = "createStore"]
    /\ UNCHANGED <<policies, backend, pRead, deleted>>

CreateStore(p) ==
    /\ pc[p] = "createStore"
    /\ policies' = [policies EXCEPT ![pId[p]] = pName[p]]
    /\ pc' = [pc EXCEPT ![p] = "createPersist"]
    /\ UNCHANGED <<backend, used, pName, pId, pRead, deleted>>

CreatePersist(p) ==
    /\ pc[p] = "createPersist"
    /\ \/ backend' = [backend EXCEPT ![pId[p]] = pName[p]]
       \/ UNCHANGED backend                  \* be.StorePolicy failed
    /\ Finish(p)
    /\ UNCHANGED <<policies, used, deleted>>

(***************************************************************************)
(* DeletePolicy.  policies.Load decides between ErrPolicyNotFound and the  *)
(* delete; policies.Delete and persist.DeletePolicy follow, the latter     *)
(* logging a failure and going on.  The call then returns nil.             *)
(***************************************************************************)
DeleteLoad(p, i) ==
    /\ pc[p] = "idle"
    /\ policies[i] # None
    /\ pId' = [pId EXCEPT ![p] = i]
    /\ pc' = [pc EXCEPT ![p] = "deleteRemove"]
    /\ UNCHANGED <<policies, backend, used, pName, pRead, deleted>>

DeleteRemove(p) ==
    /\ pc[p] = "deleteRemove"
    /\ policies' = [policies EXCEPT ![pId[p]] = None]
    /\ pc' = [pc EXCEPT ![p] = "deletePersist"]
    /\ UNCHANGED <<backend, used, pName, pId, pRead, deleted>>

DeletePersist(p) ==
    /\ pc[p] = "deletePersist"
    /\ \/ backend' = [backend EXCEPT ![pId[p]] = None]
       \/ UNCHANGED backend                  \* be.DeletePolicy failed
    /\ deleted' = deleted \cup {pId[p]}
    /\ Finish(p)
    /\ UNCHANGED <<policies, used>>

(***************************************************************************)
(* GetPolicy.  A hit in memory returns at once; a miss calls ReadPolicy,   *)
(* which retries LoadPolicy with backoff until the deadline and returns    *)
(* nil on failure; a policy it returns is stored in memory.                *)
(***************************************************************************)
GetLoad(p, i) ==
    /\ pc[p] = "idle"
    /\ policies[i] = None
    /\ pId' = [pId EXCEPT ![p] = i]
    /\ pc' = [pc EXCEPT ![p] = "getRead"]
    /\ UNCHANGED <<policies, backend, used, pName, pRead, deleted>>

\* Mutant: ReadPolicy's nil result is not checked and is stored.
GetReadNoNilCheck(p) ==
    \/ /\ pc[p] = "getRead"
       /\ pRead' = [pRead EXCEPT ![p] = backend[pId[p]]]
       /\ pc' = [pc EXCEPT ![p] = "getStore"]
       /\ UNCHANGED <<policies, backend, used, pName, pId, deleted>>
    \/ /\ pc[p] = "getRead"
       /\ Finish(p)
       /\ UNCHANGED <<policies, backend, used, deleted>>

GetRead(p) ==
    \/ /\ pc[p] = "getRead"
       /\ backend[pId[p]] # None
       /\ pRead' = [pRead EXCEPT ![p] = backend[pId[p]]]
       /\ pc' = [pc EXCEPT ![p] = "getStore"]
       /\ UNCHANGED <<policies, backend, used, pName, pId, deleted>>
    \/ /\ pc[p] = "getRead"                  \* not found, or retries exhausted
       /\ Finish(p)
       /\ UNCHANGED <<policies, backend, used, deleted>>

GetStore(p) ==
    /\ pc[p] = "getStore"
    /\ policies' = [policies EXCEPT ![pId[p]] = pRead[p]]
    /\ Finish(p)
    /\ UNCHANGED <<backend, used, deleted>>

Next ==
    \E p \in Procs :
        \/ \E n \in Names : CreateScan(p, n)
        \/ CreateStore(p)
        \/ CreatePersist(p)
        \/ \E i \in Ids : DeleteLoad(p, i)
        \/ DeleteRemove(p)
        \/ DeletePersist(p)
        \/ \E i \in Ids : GetLoad(p, i)
        \/ GetRead(p)
        \/ GetStore(p)

Spec == Init /\ [][Next]_vars

-----------------------------------------------------------------------------
(* Properties.                                                             *)

\* Memory and backend never hold two different policies under one id: an id
\* generated by CreatePolicy names one policy in both copies, whatever
\* interleaving of creates, deletes, failed writes and cache fills.
ConsistentCopies ==
    \A i \in Ids :
        (policies[i] # None /\ backend[i] # None) => policies[i] = backend[i]

\* Policy names are unique (spec 3, 5: the duplicate-name scan of create is
\* serialized by a name-uniqueness lock).
UniquePolicyNames ==
    \A i, j \in Ids :
        (i # j /\ policies[i] # None) => policies[i] # policies[j]

\* A policy whose DeletePolicy has returned success never reappears in the
\* authoritative in-memory store, so a revoked grant stays revoked.
NoResurrection == \A i \in deleted : policies[i] = None

=============================================================================
