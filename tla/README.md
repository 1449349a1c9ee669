# TLA+ models of SPIKE

These are formal models of the SPIKE secrets manager (`src/app`). They cover:
- the root-key custody protocol of Nexus and its keepers, with an abstract
  root-key lifecycle that it is shown to implement;
- the policy store;
- the policy-gated request path (router, guards, `CheckAccess`);
- the versioned secret store and the secret CLI commands that drive it.

The models are model-checked with TLC. The key safety properties of custody and
of the secret store, and the refinement, are also proved with TLAPS.

## 1. The system and its parts

| Part | Code | State | Operations | Hard behaviours |
|---|---|---|---|---|
| Recovery Orchestrator | `nexus/internal/initialization/recovery/update.go`, `route/operator/recover.go`, `route/operator/restore.go` | in-memory root key; the package-level restore slice `shards` | bootstrap, periodic `sendShardsToKeepers`, `RouteRecover`, `RouteRestore` | crashes; concurrent restore requests; an unlocked length read; a slice that is never cleared |
| Keeper Client | `recovery/shard.go`, the post in `update.go` | none | fetch a shard, post a shard | failure of any keeper; partial availability |
| Keeper | `keeper/internal/route/store/shard.go` | one shard in memory | `RouteShard` (read), contribute (not under src/) | a restart leaves it empty, and it then answers 404 |
| Shamir Engine | `computeShares`, `findShare` in `update.go` (the field code is not under src/) | none | split, reconstruct | wrong ids; shards of different keys |
| Operator CLI | `spike/internal/cmd/operator/recover.go`, `restore.go` | recovery files | `recover` (deletes old files, then writes one per shard), `restore` (one request per pasted shard) | a write fails after the old files are gone |
| Policy Engine | `nexus/internal/state/base/policy.go` | `policies` sync.Map | `CreatePolicy`, `GetPolicy`, `DeletePolicy`, `List*`, `CheckAccess` | check-then-act across goroutines; cache fill racing a delete |
| Persistence Adapter | `nexus/internal/state/persist/policy.go` | the backend | `StorePolicy`, `DeletePolicy`, `ReadPolicy` (retries until a deadline) | failures are logged and swallowed |
| Identity Gate / Router | `route/secret/delete_intercept.go`, `route/acl/policy/list_intercept.go`, `route/base/route.go`, `route/operator/restore.go` | none | request guards, dispatch | a guard that writes a 401 and then goes on; a handler with no guard |
| Secret Store | `kv` in `state/base/data.go`; the store itself (`pkg/store`) is not under src/ | versioned KV | put/get/delete/undelete | the history cap; version 0 meaning "current" |
| Secret CLI | `spike/internal/cmd/secret/get.go`, `undelete.go` | none | `get`, `undelete` | the default version `"0"` |
| Demo | `demo/cmd/main.go` | none | one request | none |

How they interact: every tick, Nexus splits its root key and posts share `i` to
keeper `i`. When Nexus restarts, it polls the keepers and rebuilds the key from
`t` shares. If it cannot, it waits for an operator. The operator uses `recover`
to export the two pilot shards while Nexus is healthy, and uses `restore` to
feed those shards to a fresh Nexus. Policies gate every secret request, through
`CheckAccess` over the in-memory policy map. That map is mirrored into the
backend on every write.

## 2. Modules

### `Recovery.tla`: root-key custody

`MCRecovery.tla` instantiates it for TLC.

**Abstraction.** A share is the record `[key |-> k, id |-> i]`. Reconstruction
(`Reconstructible`, `Reconstruct`) succeeds exactly on shares of one key with at
least `T` distinct ids. This is what Lagrange interpolation at 0 guarantees for
a correct split. A corrupt shard is not modelled. The all-zero key is `NoKey`,
and the all-zero shard is `NoShard`. `dbKey` is the key the persistent backend
is encrypted under. It survives crashes.

**State and code.**

| Variable | Code |
|---|---|
| `rootKey` | `state.SetRootKey` / `RootKeyZero` |
| `keeperShard` | the keeper's shard |
| `pending` | the keepers the current `sendShardsToKeepers` loop has not visited yet |
| `polled`, `collected` | the bootstrap's poll |
| `shards` | the `restore.go` slice |
| `pc` | per-request progress of `RouteRestore` |
| `operatorShards` | the recovery files |

**Actions and code.**

| Action | Code |
|---|---|
| `PollKeeper` | `shardResponse` / `unmarshalShardResponse`, with the keeper's answer `ShardAnswer` (`RouteShard`: 404 on the zero shard) |
| `FinishBootstrap` | the bootstrap decision of spec 4.7, then `mustUpdateRecoveryInfo` |
| `Tick` | starts a pass of the `for keeperId := range keepers` loop |
| `SendShardOk` | one iteration of that loop that reaches a successful `net.Post` |
| `SendShardSkip` | one iteration that hits any `continue`: bad URL, mTLS client, zero root key, id conversion, marshalling, post failure |
| `Recover` | `RouteRecover` (NotFound below the threshold) followed by the CLI. The CLI deletes the old files, then writes each shard and goes on past failures, so any subset of the pilot shards may end up written. |
| `RestoreAppend` | `RouteRestore` up to the locked append |
| `RestoreCheck` | the unlocked `len(shards) == 2` test and `RestoreBackingStoreUsingPilotShards` |
| `RestoreRespond` | the response built from a second unlocked length read |
| `NexusCrash` | Nexus loses its memory |
| `KeeperCrash` | a keeper loses its memory |

Crashes are bounded by `MaxCrashes`.

**Fairness (`FairSpec`).**
- The bootstrap and restore handlers run to completion on their goroutines, so they get weak fairness.
- The ticker fires forever while Nexus is up.
- Each pass visits every keeper.
- A post to a keeper that is tried again and again eventually succeeds (strong fairness on `SendShardOk`). This is exactly the assumption the comment on `sendShardsToKeepers` states: "provided there is no configuration mistake, all SPIKE Keepers will get their shards eventually".
- Crashes get no fairness.

### `PolicyStore.tla`: policy CRUD and its backend mirror

`MCPolicyStore.tla` instantiates it for TLC.

**Abstraction.** A policy is its name, and an id is a UUID drawn fresh from
`Ids`. Each goroutine has a program counter. The operations are split where
they touch shared state:
- `CreatePolicy` splits into `CreateScan` (the `policies.Range` name check, regex compilation and UUID generation), `CreateStore` and `CreatePersist` (`persist.StorePolicy`, which may fail).
- `DeletePolicy` splits into `DeleteLoad`, `DeleteRemove` and `DeletePersist` (which may fail).
- `GetPolicy` splits into `GetLoad` (a memory miss), `GetRead` (`ReadPolicy`, which retries until the deadline and returns nil on failure) and `GetStore`.

The history variable `deleted` records the ids whose delete has returned.

### `RootKeyLifecycle.tla`: what Nexus promises about its root key

This is an abstract spec with three variables:
- `phase`: Down, Locked or Unlocked;
- `key`: the key Nexus holds;
- `stored`: the key the backend is encrypted under.

It has four actions:
- `Start`;
- `Generate`: only while nothing is stored;
- `Unlock`: installs exactly the stored key;
- `Crash`: loses the held key and keeps the stored one.

How the key comes back is left open. `Recovery.tla` instantiates it as
`Lifecycle` with this refinement mapping:
- `phase <- Phase`: Down, Unlocked when `status = "Healthy"`, Locked otherwise;
- `key <- rootKey`;
- `stored <- dbKey`.

`ImplementsLifecycle == Lifecycle!Spec` is checked by TLC and proved by TLAPS.
Under the mapping:
- bootstrap reconstruction and a successful restore are `Unlock`;
- first-start generation is `Generate`;
- a Nexus crash is `Crash`;
- every other step (polls, ticks, posts, recover, restore appends, keeper crashes) is a stutter.

### `AccessControl.tla`: the request path and `CheckAccess`

`MCAccessControl.tla` instantiates it for TLC. The state is:
- the set of stored policies, changed by `CreatePolicy` and `DeletePolicy`;
- `served`, the last request a handler acted on.

The model follows the code step by step:
- `Route` is the handler switch of `route.go`.
- `GuardList` and `GuardDelete` translate the two guards under src/. `GuardDelete` keeps the missing `return` after a failed `ValidateSpiffeId`.
- `HandlerProceeds` says whether `RouteRestore` and `RouteRecover` act for a caller.
- `CheckAccessIn` is `CheckAccess`'s loop over one order of `ListPolicies`. The loop returns true when it reaches a policy whose verdict is "grant"; no iteration of the code returns false, so the answer does not depend on the order, and no property is spent on that. `Orders` gives every order a `sync.Map` Range may produce.
- Regex patterns are literal strings of symbols, and ids and paths are short sequences. So `regexp.MatchString`, which is unanchored, is modelled by what it does: the pattern is a contiguous infix (`SubSeqs`).
- `hasAllPermissions` is not under src/. It is modelled from its use, as set inclusion.

### `SecretStore.tla`: the versioned store and the secret CLI

`MCSecretStore.tla` instantiates it for TLC. The store is modelled from
spec 4.3, because `pkg/store` is not under src/:
- a path holds its history oldest first, each entry with a version, data and a soft-delete mark;
- `Put` appends version `NextVersion` and evicts the oldest beyond `MaxSecretVersions`;
- version 0 in a call resolves to `Current`, the highest live version;
- `Delete` and `UndeleteCmd` set or clear the marks (`Mark`).

The store has one reader-writer lock (`kvMu`), so every call is one atomic step.

Two actions are translated from the CLI source:
- `UndeleteCmd` is `secret undelete`. It defaults to `"0"`, splits the flag at commas, and sends nothing if an element is not a non-negative integer.
- `GetCmd` is `secret get`. It sends the version as given and prints not-found.

Two variables exist only for the properties:
- `issued` is a history variable: the highest version ever assigned;
- `last` records the last call and its answer.

## 3. Runs

| Run | cfg | Checks | Result |
|---|---|---|---|
| recovery_safety | `MCRecovery.cfg` | `TypeOK`, `RootKeyIntegrity`, `KeeperShardIntegrity`, `ImplementsLifecycle` | pass (about 1.7M states) |
| recovery_redistribution_live | `MCRecoveryLive.cfg` | `KeepersEventuallyHoldShards` under `FairSpec` | pass |
| recovery_restored_flag | `MCRecoveryRestored.cfg` | `RestoredMeansRecovered` | **violation** |
| recovery_restore_stuck | `MCRecoveryStuck.cfg` | `RestoreCompletes` under `FairSpec` | **violation** |
| policy_store_safety | `MCPolicyStore.cfg` | `TypeOK`, `ConsistentCopies` | pass |
| policy_unique_names | `MCPolicyStoreNames.cfg` | `UniquePolicyNames` | **violation** |
| policy_resurrection | `MCPolicyStoreResurrect.cfg` | `NoResurrection` | **violation** |
| access_anchored_match | `MCAccessControlMatch.cfg` | `GrantsOnlyFullMatches` | **violation** |
| delete_guard_invalid_id | `MCAccessControlGuard.cfg` | `GuardsRejectInvalidIds` | **violation** |
| secret_versions | `MCSecretStore.cfg` | `HistoryWindow` | pass |
| secret_undelete_default | `MCSecretStoreUndelete.cfg` | `UndeleteRestores` | **violation** |

What the properties say:
- **`RootKeyIntegrity`**: Nexus never runs with a key other than the backend's. This holds across crashes, first-start key generation, reconstruction from keepers, and operator restore.
- **`KeeperShardIntegrity`**: a keeper only ever holds its own share of the backend's key, even when the key changes in the middle of a pass.
- **`KeepersEventuallyHoldShards`**: while Nexus stays healthy, every keeper eventually holds its share.
- **`ConsistentCopies`**: memory and backend never hold different policies under one id.
- **`ImplementsLifecycle`**: every behaviour of the recovery model is a behaviour of `RootKeyLifecycle`. A key is generated only for an empty backend, and Nexus unlocks only with the backend's key.
- **`HistoryWindow`**: a path holds exactly the newest `MaxSecretVersions` versions ever assigned, soft-deleted ones counted, in order and without gaps.

What the violation runs show:
- **`RestoredMeansRecovered`**: `RouteRestore` reports `restored: true` whenever the slice reaches length 2. The same shard sent twice gets that response while Nexus is still locked (`restore.go:63`).
- **`RestoreCompletes`**: the slice is never deduplicated or cleared, and reconstruction is tried only at length exactly 2. After a duplicate, a third shard leaves Nexus awaiting restore forever, even though the slice holds a quorum. Spec 4.7 promises a deduplicated session, restore on reaching `t`, and clearing on failure.
- **`UniquePolicyNames`**: the duplicate-name scan of `CreatePolicy` is not atomic with its store.
- **`NoResurrection`**: a deleted policy comes back through `GetPolicy`'s backend fill. One route is a failed backend delete, which `persist.DeletePolicy` swallows. The other is a get whose backend read happened before the delete.
- **`GrantsOnlyFullMatches`**: spec 4.2 fixes anchored full matches. `CheckAccess` uses unanchored `MatchString` (`policy.go:69`), so a policy for path `a` also grants `ab`.
- **`GuardsRejectInvalidIds`**: `guardDeleteSecretRequest` writes a 401 for an invalid SPIFFE id but does not return (`delete_intercept.go:37`). A wildcard write policy then lets the request through.
- **`UndeleteRestores`** (spec property 3): `spike secret undelete <path>` sends version `"0"`. After the current version was deleted, 0 resolves to a different version or to none, so the deleted version stays deleted.

**Bounds.** Recovery is checked with:
- 2 keys, so a wrong key can be installed;
- 3 keepers with `T = 2` and pilot ids {1, 2}, as in the spec's scenario;
- up to 3 concurrent restore requests;
- 2 crashes, enough for a crash during a pass and a second restart.

The violation runs use one key and two keepers, so the traces stay short.
The refinement is checked on the same instance as the safety invariants. That
instance covers restores into a healthy Nexus and both bootstrap outcomes.

AccessControl uses:
- four ids of length 1 and 2 (one is a pilot, one invalid) and three paths;
- one literal pattern besides `*`;
- at most 2 policies.

That is the least for a literal to match inside a longer id or path.

SecretStore uses one path, 2 values, `MaxSecretVersions = 3` and versions up to
5. So eviction happens twice with soft-deleted entries in the window. The
version lists include 0, explicit versions, a mix, and the rejected inputs.

PolicyStore uses 2 names, 3 ids and 2 goroutines. That is the least that lets
two operations race on one name or one id and leaves a fresh id to spare.
Symmetry is used over keys, ids, names, goroutines and secret values. All of
them are model values that no guard tells apart.

**Mutants.** Every property of a passing run is broken by a plausible bug in the
code it is about:

| Mutant | Breaks |
|---|---|
| `RouteShard` without its zero check | `TypeOK` |
| bootstrap regenerating a key without consulting the backend | `RootKeyIntegrity` |
| `findShare` returning the first share | `KeeperShardIntegrity` |
| the request body cleared before the post | `KeepersEventuallyHoldShards` |
| `GetPolicy` storing a nil read | `TypeOK` |
| `CreatePolicy` reusing an id | `ConsistentCopies` |
| restore applying any length-2 slice that is reconstructible, whatever its key | `ImplementsLifecycle` |
| eviction at the cap instead of beyond it | `HistoryWindow` |

## 4. Proofs

### `RecoveryProofs.tla`

The theorems below hold for every value of the constants: any nonempty set of
positive keeper ids, any threshold `T >= 1`, pilot ids among the keepers, and
any crash bound. These are the named assumptions of `Recovery.tla`.

- **`TypeCorrect`**: `Spec => []TypeOK`. The lemma `TypeStep` has one step per action.
- **`KeyIntegrity`**: `Spec => [](RootKeyIntegrity /\ KeeperShardIntegrity)`.
- **`ShardIntegrity`**: `Spec => []KeeperShardIntegrity`, a corollary.
- **`Refinement`**: `Spec => ImplementsLifecycle`.

Neither integrity property is inductive on its own. When a restore or a
bootstrap installs a reconstructed key, the proof must know that every shard
that could be reconstructed from is a share of `dbKey`. The inductive invariant
`IInv` therefore adds that the following are all subsets of
`DbShares = {ShareFor(dbKey, i)}`:
- the bootstrap's `collected` shards;
- the operator's files;
- every element of the restore slice.

`IInv` was checked with TLC first. The proof rests on three lemmas:
- **`NoKeyShares`**: no share of a real key equals the zero shard.
- **`ReconstructOneKey`**: reconstructing from shares of a single key `K` yields `K`. It uses `FS_EmptySet` to show that a reconstructible set is nonempty.
- **`NothingBeforeInit`**: while `dbKey = NoKey`, no shard of any kind exists. This is why generating a fresh key on first start cannot conflict with old shards.

The refinement proof adds the invariant `RInv`, which was checked with TLC first:
- Nexus holds a key exactly when it is healthy;
- it awaits a restore only once the backend holds a key;
- a restore request sits between its append and its check only while Nexus serves restores.

With `IInv` and `RInv`, each step of `Next` maps to a lifecycle step or a stutter, one proof step per action:
- a reconstructed key is the backend's key, by `RebuiltKey` (from `ReconstructOneKey`);
- a restore into an already healthy Nexus changes nothing under the mapping, since there `rootKey = dbKey`.

The last step combines the two inductive invariants with `PTL`.

### `SecretStoreProofs.tla`

These theorems hold for every nonempty set of paths, every cap
`MaxSecretVersions >= 1` and every version bound:
- **`WindowInvariant`**: `Spec => []HistoryWindow`.
- **`Monotonic`**: `Spec => VersionsMonotonic`. Every put assigns a version above all versions ever assigned on its path, across soft deletes and evictions (spec 5). This is proved, not model-checked. Any plausible bug in version assignment breaks `HistoryWindow` first, and that invariant is what the run checks.

`HistoryWindow` together with the type invariant is inductive as stated.
- It fixes the version of each stored entry.
- So the newest entry always carries `issued`, and the next version is `issued + 1` (lemma `NextIsIssuedPlusOne`). This is what makes put monotonic.
- `PutIInv` does the index arithmetic of append-then-evict.
- `MarkIInv` shows that soft-delete marks keep versions and length.

### `PolicyStoreProofs.tla`

These theorems hold for every set of names, ids and goroutines:
- **`TypeCorrect`**: `Spec => []TypeOK`.
- **`CopiesConsistent`**: `Spec => []ConsistentCopies`. Memory and the backend never hold two different policies under one id, whatever the interleaving of create, delete and get's cache fill, and whichever backend writes fail.

`ConsistentCopies` is not inductive by itself. A goroutine between `CreateScan` and `CreatePersist`, or between `GetRead` and `GetStore`, carries a policy it will write under its id (`Held`). The inductive invariant `PInv` adds three conjuncts:
- `FreshEmpty`: an id `uuid.New` has not handed out is empty in both copies. This is where the freshness of `CreateScan`'s id is used. The mutant `CreateScanKeepsId` breaks exactly this.
- `HeldAgrees`: a carried policy's id is handed out, and each copy under that id is empty or equal to it.
- `HoldersAgree`: two goroutines carrying a policy for one id carry the same one.

TLC checked `PInv` as an invariant of the run's instance before it was proved. There is one lemma per action. `GetReadStep` is the interesting one: the policy read from the backend agrees with memory by `ConsistentCopies`, and with every other holder by `HeldAgrees`.

**What only TLC checks.** Liveness (`KeepersEventuallyHoldShards`) is checked by TLC only, since liveness and ENABLED are beyond TLAPS. Every other property that a passing run checks is also stated by a theorem. The violation runs' properties are false of the code, and TLC's counterexamples are what show it.

## 5. Not modelled, and why

- The Shamir field arithmetic (`computeShares`, `sanityCheck`) is not under src/. It is abstracted as above.
- The SQLite backend and the secret persistence are not under src/. The secret store's write-behind is not modelled.
- `ListPoliciesByPath` and `ListPoliciesBySpiffeId` are read-only filters with no caller under src/.
- The guards of the other routes (`guardRecoverRequest` and the secret get/put guards) are not under src/. `RouteRecover`'s guard is reduced to the PilotRecover role.
- `RouteRestore` calls no guard at all, so any caller can feed a shard. The spec's glossary says the PilotRestore role gates it. The model lets every caller through (`HandlerProceeds`). The missing guard is plain in the code, so no run is spent on it. It is listed as a hazard through the stuck-restore property it feeds.
- `CheckAccess` is one atomic step over the stored set. It reads a snapshot, so a policy deleted during the loop can still grant once. This is listed as a hazard with no property, because the snapshot read is what the code intends.
- `url.go` only joins URL strings, and the demo is one request with no state.
- Logging, audit, zeroing of buffers, and JSON and base64 encoding are left out. No property is about them. The CLI's parsing is abstracted as the round trip of the file format in `RestoreInput`.
- `state.Shard()` is not under src/. The model assumes it returns a copy, so the deferred zeroing in `RouteShard` does not clear the keeper's shard. This is listed as a hazard.
- The secret CLI's init-state check (`CheckInitState`) is left out. Every call is made against an initialized Nexus.

## 6. Plan

1. `Shamir`: split and reconstruct over a small prime field, checked against the abstraction used in `Recovery`.
2. A composed Nexus module that joins the restore route and the access check, so that a restore gated by a role can be checked against the recovery state.
3. The secret store's `listPaths` and `getMetadata` and its write-behind to the backend.
