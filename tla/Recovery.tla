------------------------------ MODULE Recovery ------------------------------
(***************************************************************************)
(* Root-key custody in SPIKE Nexus.                                        *)
(*                                                                         *)
(* Nexus holds the 32-byte root key in process memory; it splits it into   *)
(* Shamir shares and pushes share `i` to the keeper with id `i` on every   *)
(* tick of sendShardsToKeepers (update.go).  Keepers hold one shard in     *)
(* memory.  A restarting Nexus polls the keepers (shard.go) and rebuilds   *)
(* the key from T shards; if it cannot, it waits for an operator to        *)
(* restore it with pilot shards exported earlier by `recover`              *)
(* (route/operator/recover.go, cmd/operator/recover.go) and submitted one  *)
(* per request to RouteRestore (route/operator/restore.go).                *)
(*                                                                         *)
(* The Shamir engine is abstracted: a share is the pair (key, id) and      *)
(* reconstruction returns the key when it is given T distinct ids of one   *)
(* key, and fails otherwise.  Nexus and the keepers may crash (memory is   *)
(* lost); the encrypted backend, and the key it is encrypted under, is     *)
(* persistent.                                                             *)
(***************************************************************************)
EXTENDS Naturals, FiniteSets, Sequences

CONSTANTS
    Keys,          \* root keys Nexus may generate (model values)
    NoKey,         \* the all-zero root key
    KeeperIds,     \* ids of the configured keepers (the KeepersList map keys)
    T,             \* ShamirThreshold
    PilotIds,      \* ids of the two shards `recover` exports
    Requests,      \* restore requests an operator may send
    MaxCrashes     \* bound on Nexus and keeper crashes in one behaviour

ASSUME KeysAssumption == NoKey \notin Keys /\ Keys # {}
ASSUME KeeperAssumption == KeeperIds \subseteq Nat \ {0} /\ KeeperIds # {}
ASSUME ThresholdAssumption == T \in Nat \ {0}
ASSUME PilotAssumption == PilotIds \subseteq KeeperIds
ASSUME CrashAssumption == MaxCrashes \in Nat

VARIABLES
    status,        \* Nexus lifecycle: Down, Bootstrapping, AwaitingRestore, Healthy
    rootKey,       \* Nexus' in-memory root key (state.SetRootKey / RootKeyZero)
    dbKey,         \* key the persistent backend is encrypted under (NoKey: never initialized)
    keeperShard,   \* the shard each keeper holds in memory
    pending,       \* keepers the current sendShardsToKeepers pass has not visited
    polled,        \* keepers the bootstrap has asked for their shard
    collected,     \* shards the bootstrap has received
    shards,        \* the restore route's package-level `shards` slice
    pc,            \* progress of each RouteRestore request
    operatorShards,\* shard files in the operator's recovery folder
    crashes        \* crashes so far

vars == <<status, rootKey, dbKey, keeperShard, pending, polled, collected,
          shards, pc, operatorShards, crashes>>

-----------------------------------------------------------------------------
(* Shares and their reconstruction.                                        *)

Share(k, i) == [key |-> k, id |-> i]

Shards == {Share(k, i) : k \in Keys, i \in KeeperIds}

NoShard == Share(NoKey, 0)

\* computeShares / findShare: the share of key k that keeper i is sent.
ShareFor(k, i) == Share(k, i)

ShardIds(S) == {s.id : s \in S}

\* Lagrange interpolation at 0 succeeds on T distinct ids of one key.
Reconstructible(S) ==
    /\ Cardinality(ShardIds(S)) >= T
    /\ \E k \in Keys : \A s \in S : s.key = k

Reconstruct(S) == CHOOSE k \in Keys : \A s \in S : s.key = k

SeqElems(s) == {s[j] : j \in 1..Len(s)}

Statuses == {"Down", "Bootstrapping", "AwaitingRestore", "Healthy"}

ReqStates == {"idle", "check", "respond", "done", "aborted"}

TypeOK ==
    /\ status \in Statuses
    /\ rootKey \in Keys \cup {NoKey}
    /\ dbKey \in Keys \cup {NoKey}
    /\ keeperShard \in [KeeperIds -> Shards \cup {NoShard}]
    /\ pending \subseteq KeeperIds
    /\ polled \subseteq KeeperIds
    /\ collected \subseteq Shards
    /\ shards \in Seq(Shards)
    /\ pc \in [Requests -> ReqStates]
    /\ operatorShards \subseteq Shards
    /\ crashes \in 0..MaxCrashes

-----------------------------------------------------------------------------
Init ==
    /\ status = "Down"
    /\ rootKey = NoKey
    /\ dbKey = NoKey
    /\ keeperShard = [i \in KeeperIds |-> NoShard]
    /\ pending = {}
    /\ polled = {}
    /\ collected = {}
    /\ shards = <<>>
    /\ pc = [r \in Requests |-> "idle"]
    /\ operatorShards = {}
    /\ crashes = 0

(***************************************************************************)
(* Bootstrap.  The process starts and asks every keeper for its shard      *)
(* (shardResponse / RouteShard: a keeper holding the zero shard answers    *)
(* 404, a failed post yields no data).                                     *)
(***************************************************************************)
NexusStart ==
    /\ status = "Down"
    /\ status' = "Bootstrapping"
    /\ polled' = {}
    /\ collected' = {}
    /\ UNCHANGED <<rootKey, dbKey, keeperShard, pending, shards, pc,
                   operatorShards, crashes>>

\* Mutant: RouteShard's all-zero check is dropped; the empty shard is
\* returned with 200.
ShardAnswerNoZeroCheck(i) == {keeperShard[i]}

\* RouteShard: the keeper answers 404 while it holds the zero shard.
ShardAnswer(i) == IF keeperShard[i] = NoShard THEN {} ELSE {keeperShard[i]}

PollKeeper(i) ==
    /\ status = "Bootstrapping"
    /\ i \notin polled
    /\ polled' = polled \cup {i}
    /\ \/ collected' = collected \cup ShardAnswer(i)
       \/ UNCHANGED collected          \* post or unmarshal failure
    /\ UNCHANGED <<status, rootKey, dbKey, keeperShard, pending, shards, pc,
                   operatorShards, crashes>>

\* Mutant: a fresh key is generated whenever the keepers cannot provide
\* one, without asking whether the backend was ever initialized.
FinishBootstrapRegenerates ==
    /\ status = "Bootstrapping"
    /\ polled = KeeperIds
    /\ \/ /\ Reconstructible(collected)
          /\ rootKey' = Reconstruct(collected)
          /\ status' = "Healthy"
          /\ UNCHANGED dbKey
       \/ /\ ~Reconstructible(collected)
          /\ \E k \in Keys : rootKey' = k /\ UNCHANGED dbKey
          /\ status' = "Healthy"
    /\ UNCHANGED <<keeperShard, pending, polled, collected, shards, pc,
                   operatorShards, crashes>>

\* After every keeper was asked: rebuild the key from the keepers, or
\* generate one on a first-ever start (mustUpdateRecoveryInfo installs it
\* and base.Initialize opens the backend under it), or await a restore.
FinishBootstrap ==
    /\ status = "Bootstrapping"
    /\ polled = KeeperIds
    /\ \/ /\ Reconstructible(collected)
          /\ rootKey' = Reconstruct(collected)
          /\ status' = "Healthy"
          /\ UNCHANGED dbKey
       \/ /\ ~Reconstructible(collected)
          /\ dbKey = NoKey
          /\ \E k \in Keys : rootKey' = k /\ dbKey' = k
          /\ status' = "Healthy"
       \/ /\ ~Reconstructible(collected)
          /\ dbKey # NoKey
          /\ status' = "AwaitingRestore"
          /\ UNCHANGED <<rootKey, dbKey>>
    /\ UNCHANGED <<keeperShard, pending, polled, collected, shards, pc,
                   operatorShards, crashes>>

(***************************************************************************)
(* sendShardsToKeepers: one pass over the keepers map, in map order; for   *)
(* each keeper it skips when the root key is zero, recomputes the shares   *)
(* from the current root key and posts this keeper's share.  Every failure *)
(* (url, mTLS client, id conversion, marshalling, post) logs and moves on. *)
(***************************************************************************)
Tick ==
    /\ status \in {"Healthy", "AwaitingRestore"}
    /\ pending = {}
    /\ pending' = KeeperIds
    /\ UNCHANGED <<status, rootKey, dbKey, keeperShard, polled, collected,
                   shards, pc, operatorShards, crashes>>

\* Mutant: findShare's id comparison is lost and every keeper is sent the
\* first share of the list.
SendShardFirstShare(i) ==
    /\ i \in pending
    /\ rootKey # NoKey
    /\ pending' = pending \ {i}
    /\ keeperShard' = [keeperShard EXCEPT
                         ![i] = ShareFor(rootKey, CHOOSE j \in KeeperIds :
                                                    \A l \in KeeperIds : j <= l)]
    /\ UNCHANGED <<status, rootKey, dbKey, polled, collected, shards, pc,
                   operatorShards, crashes>>

\* Mutant: the request body is cleared before it is posted, so the keeper
\* receives an all-zero shard.
SendShardClearedBeforePost(i) ==
    /\ i \in pending
    /\ rootKey # NoKey
    /\ pending' = pending \ {i}
    /\ keeperShard' = [keeperShard EXCEPT ![i] = NoShard]
    /\ UNCHANGED <<status, rootKey, dbKey, polled, collected, shards, pc,
                   operatorShards, crashes>>

SendShardOk(i) ==
    /\ i \in pending
    /\ rootKey # NoKey
    /\ pending' = pending \ {i}
    /\ keeperShard' = [keeperShard EXCEPT ![i] = ShareFor(rootKey, i)]
    /\ UNCHANGED <<status, rootKey, dbKey, polled, collected, shards, pc,
                   operatorShards, crashes>>

SendShardSkip(i) ==
    /\ i \in pending
    /\ pending' = pending \ {i}
    /\ UNCHANGED <<status, rootKey, dbKey, keeperShard, polled, collected,
                   shards, pc, operatorShards, crashes>>

(***************************************************************************)
(* Operator recover: RouteRecover returns the pilot shards of the current  *)
(* root key, or NotFound when there are fewer than ShamirThreshold; the    *)
(* CLI then deletes old recovery files and writes one file per shard,      *)
(* going on when a write fails.                                            *)
(***************************************************************************)
PilotShards == {ShareFor(rootKey, i) : i \in PilotIds}

Recover ==
    /\ status \in {"AwaitingRestore", "Healthy"}
    /\ rootKey # NoKey
    /\ Cardinality(PilotIds) >= T
    /\ \E written \in SUBSET PilotShards : operatorShards' = written
    /\ UNCHANGED <<status, rootKey, dbKey, keeperShard, pending, polled,
                   collected, shards, pc, crashes>>

(***************************************************************************)
(* RouteRestore.  The shard is appended under shardsMutex; the length is   *)
(* then read twice without the lock: once to decide whether to call       *)
(* RestoreBackingStoreUsingPilotShards (when it is exactly 2), once to     *)
(* build the response.  The slice is never cleared.                        *)
(***************************************************************************)
\* The shards `spike operator restore` can send: the operator pastes the
\* contents `spike:<id>:<base64>` of a recovery file, which the CLI splits,
\* decodes and checks to be 32 bytes; malformed input aborts the CLI before
\* any request is sent.
RestoreInput == operatorShards

RestoreAppend(r) ==
    /\ status \in {"AwaitingRestore", "Healthy"}
    /\ pc[r] = "idle"
    /\ \E s \in RestoreInput : shards' = Append(shards, s)
    /\ pc' = [pc EXCEPT ![r] = "check"]
    /\ UNCHANGED <<status, rootKey, dbKey, keeperShard, pending, polled,
                   collected, operatorShards, crashes>>

\* Mutant: Nexus is declared healthy whenever the slice reaches length 2,
\* as the response already is, whether or not the key was rebuilt.
RestoreCheckTrustsLength(r) ==
    /\ pc[r] = "check"
    /\ pc' = [pc EXCEPT ![r] = "respond"]
    /\ IF Len(shards) = 2
         THEN /\ rootKey' = IF Reconstructible(SeqElems(shards))
                               THEN Reconstruct(SeqElems(shards)) ELSE rootKey
              /\ status' = "Healthy"
              /\ pending' = KeeperIds
         ELSE UNCHANGED <<rootKey, status, pending>>
    /\ UNCHANGED <<dbKey, keeperShard, polled, collected, shards,
                   operatorShards, crashes>>

\* RestoreBackingStoreUsingPilotShards: rebuild the key, install it, open
\* the backend under it and push the new shares to the keepers.
RestoreCheck(r) ==
    /\ pc[r] = "check"
    /\ pc' = [pc EXCEPT ![r] = "respond"]
    /\ IF Len(shards) = 2 /\ Reconstructible(SeqElems(shards))
         THEN /\ rootKey' = Reconstruct(SeqElems(shards))
              /\ status' = "Healthy"
              /\ pending' = KeeperIds
         ELSE UNCHANGED <<rootKey, status, pending>>
    /\ UNCHANGED <<dbKey, keeperShard, polled, collected, shards,
                   operatorShards, crashes>>

RestoreRespond(r) ==
    /\ pc[r] = "respond"
    /\ pc' = [pc EXCEPT ![r] = "done"]
    /\ UNCHANGED <<status, rootKey, dbKey, keeperShard, pending, polled,
                   collected, shards, operatorShards, crashes>>

\* The response RouteRestore builds from the slice length it reads.
RestoredReported == Len(shards) = 2

(***************************************************************************)
(* Crashes: Nexus loses everything in memory (root key, restore slice,     *)
(* in-flight requests, the running pass); a keeper loses its shard.        *)
(***************************************************************************)
NexusCrash ==
    /\ status # "Down"
    /\ crashes < MaxCrashes
    /\ crashes' = crashes + 1
    /\ status' = "Down"
    /\ rootKey' = NoKey
    /\ pending' = {}
    /\ shards' = <<>>
    /\ pc' = [r \in Requests |->
                IF pc[r] \in {"check", "respond"} THEN "aborted" ELSE pc[r]]
    /\ UNCHANGED <<dbKey, keeperShard, polled, collected, operatorShards>>

KeeperCrash(i) ==
    /\ keeperShard[i] # NoShard
    /\ crashes < MaxCrashes
    /\ crashes' = crashes + 1
    /\ keeperShard' = [keeperShard EXCEPT ![i] = NoShard]
    /\ UNCHANGED <<status, rootKey, dbKey, pending, polled, collected, shards,
                   pc, operatorShards>>

Next ==
    \/ NexusStart
    \/ \E i \in KeeperIds : PollKeeper(i)
    \/ FinishBootstrap
    \/ Tick
    \/ \E i \in KeeperIds : SendShardOk(i) \/ SendShardSkip(i)
    \/ Recover
    \/ \E r \in Requests : RestoreAppend(r) \/ RestoreCheck(r) \/ RestoreRespond(r)
    \/ NexusCrash
    \/ \E i \in KeeperIds : KeeperCrash(i)

Spec == Init /\ [][Next]_vars

(***************************************************************************)
(* Fairness.  The bootstrap and the restore handler run to completion on   *)
(* their goroutines; the redistribution ticker fires forever while Nexus   *)
(* is up; each pass visits every keeper; and, as the comment of            *)
(* sendShardsToKeepers assumes ("provided there is no configuration        *)
(* mistake, all SPIKE Keepers will get their shards eventually"), a post   *)
(* to a keeper that is tried again and again eventually succeeds.          *)
(***************************************************************************)
FairSpec ==
    /\ Spec
    /\ WF_vars(FinishBootstrap)
    /\ \A i \in KeeperIds : WF_vars(PollKeeper(i))
    /\ WF_vars(Tick)
    /\ \A i \in KeeperIds : WF_vars(SendShardOk(i) \/ SendShardSkip(i))
    /\ \A i \in KeeperIds : SF_vars(SendShardOk(i))
    /\ \A r \in Requests : WF_vars(RestoreCheck(r)) /\ WF_vars(RestoreRespond(r))

-----------------------------------------------------------------------------
(* Refinement of the root-key lifecycle.                                   *)

\* A Nexus that is bootstrapping or awaiting a restore holds no usable key.
Phase ==
    CASE status = "Down"    -> "Down"
      [] status = "Healthy" -> "Unlocked"
      [] OTHER              -> "Locked"

Lifecycle == INSTANCE RootKeyLifecycle WITH
                 phase <- Phase, key <- rootKey, stored <- dbKey

-----------------------------------------------------------------------------
(* Properties.                                                             *)

\* Nexus implements the root-key lifecycle: the key is generated only on
\* the first start, a healthy Nexus holds exactly the backend's key, and
\* every key installed by the keepers or by an operator restore is that
\* key; the crash, bootstrap and restore paths add no other transition.
ImplementsLifecycle == Lifecycle!Spec

\* Nexus never runs with a root key other than the one the persistent
\* backend is encrypted under, across crashes of Nexus and of keepers, the
\* first-start key generation, keeper reconstruction and operator restore.
RootKeyIntegrity == rootKey \in {NoKey, dbKey}

\* Every shard a keeper holds is the share, for that keeper's own id, of the
\* backend's key: sendShardsToKeepers never hands a keeper a share of
\* another key or of another keeper, even when the key changes mid-pass.
KeeperShardIntegrity ==
    \A i \in KeeperIds : keeperShard[i] \in {NoShard, ShareFor(dbKey, i)}

\* A RouteRestore response that says `restored` is only sent when Nexus
\* actually holds its root key (restore.go reports Len(shards) = 2).
RestoredMeansRecovered ==
    [][\A r \in Requests :
         (pc[r] = "respond" /\ pc'[r] = "done" /\ RestoredReported)
            => rootKey # NoKey]_vars


\* Every keeper holds its share of the running root key.
AllKeepersHold == \A i \in KeeperIds : keeperShard[i] = ShareFor(rootKey, i)

\* While Nexus stays healthy, the periodic pass of sendShardsToKeepers
\* eventually leaves every keeper holding its share, though posts fail and
\* keepers crash and come back empty.
KeepersEventuallyHoldShards ==
    (status = "Healthy") ~> (AllKeepersHold \/ status # "Healthy")

\* The restore slice holds T distinct shards of one key.
SessionQuorum == Reconstructible(SeqElems(shards))

\* Once the operator has submitted enough distinct pilot shards to a Nexus
\* awaiting restore, Nexus eventually becomes healthy (spec 4.7: on
\* reaching t shards the orchestrator reconstructs and installs the key).
RestoreCompletes ==
    (status = "AwaitingRestore" /\ SessionQuorum) ~> (status # "AwaitingRestore")
=============================================================================
