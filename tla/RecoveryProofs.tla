--------------------------- MODULE RecoveryProofs ---------------------------
(***************************************************************************)
(* Proofs about Recovery, for every value of the constants that satisfies  *)
(* the module's assumptions.                                               *)
(***************************************************************************)
EXTENDS Recovery, FiniteSetTheorems, TLAPS

USE KeysAssumption, KeeperAssumption, ThresholdAssumption, PilotAssumption,
    CrashAssumption

\* Every step keeps each variable in its domain.
LEMMA TypeStep == TypeOK /\ [Next]_vars => TypeOK'
<1> SUFFICES ASSUME TypeOK, [Next]_vars PROVE TypeOK'
  OBVIOUS
<1>1. CASE NexusStart
  BY <1>1 DEF NexusStart, TypeOK, Statuses
<1>2. ASSUME NEW i \in KeeperIds, PollKeeper(i) PROVE TypeOK'
  BY <1>2 DEF PollKeeper, ShardAnswer, TypeOK, NoShard, Share
<1>3. CASE FinishBootstrap
  <2>1. Reconstructible(collected) => Reconstruct(collected) \in Keys
    BY DEF Reconstructible, Reconstruct
  <2>2. QED
    BY <1>3, <2>1 DEF FinishBootstrap, TypeOK, Statuses
<1>4. CASE Tick
  BY <1>4 DEF Tick, TypeOK
<1>5. ASSUME NEW i \in KeeperIds, SendShardOk(i) PROVE TypeOK'
  <2>1. ShareFor(rootKey, i) \in Shards
    <3>1. rootKey \in Keys
      BY <1>5 DEF SendShardOk, TypeOK
    <3>2. QED
      BY <3>1 DEF ShareFor, Shards
  <2>2. keeperShard' \in [KeeperIds -> Shards \cup {NoShard}]
    BY <1>5, <2>1 DEF SendShardOk, TypeOK
  <2>3. QED
    BY <1>5, <2>2 DEF SendShardOk, TypeOK
<1>6. ASSUME NEW i \in KeeperIds, SendShardSkip(i) PROVE TypeOK'
  BY <1>6 DEF SendShardSkip, TypeOK
<1>7. CASE Recover
  BY <1>7 DEF Recover, TypeOK, PilotShards, ShareFor, Share, Shards
<1>8. ASSUME NEW r \in Requests, RestoreAppend(r) PROVE TypeOK'
  BY <1>8 DEF RestoreAppend, RestoreInput, TypeOK, ReqStates
<1>9. ASSUME NEW r \in Requests, RestoreCheck(r) PROVE TypeOK'
  <2>1. Reconstructible(SeqElems(shards))
          => Reconstruct(SeqElems(shards)) \in Keys
    BY DEF Reconstructible, Reconstruct
  <2>2. QED
    BY <1>9, <2>1 DEF RestoreCheck, TypeOK, ReqStates, Statuses
<1>10. ASSUME NEW r \in Requests, RestoreRespond(r) PROVE TypeOK'
  BY <1>10 DEF RestoreRespond, TypeOK, ReqStates
<1>11. CASE NexusCrash
  BY <1>11 DEF NexusCrash, TypeOK, ReqStates, Statuses
<1>12. ASSUME NEW i \in KeeperIds, KeeperCrash(i) PROVE TypeOK'
  BY <1>12 DEF KeeperCrash, TypeOK, NoShard, Share
<1>13. CASE UNCHANGED vars
  BY <1>13 DEF vars, TypeOK
<1>14. QED
  BY <1>1, <1>2, <1>3, <1>4, <1>5, <1>6, <1>7, <1>8, <1>9, <1>10, <1>11,
     <1>12, <1>13 DEF Next

\* Type correctness of the specification.
THEOREM TypeCorrect == Spec => []TypeOK
<1>1. Init => TypeOK
  BY DEF Init, TypeOK, Statuses, ReqStates, NoShard, Share
<1>2. QED
  BY <1>1, TypeStep, PTL DEF Spec

-----------------------------------------------------------------------------
(***************************************************************************)
(* Key integrity.  RootKeyIntegrity is not inductive by itself: a restart  *)
(* rebuilds the key from what the keepers, the bootstrap's collection, the *)
(* operator's files and the restore slice hold, so the inductive invariant *)
(* says that every shard anywhere in the system is a share of the          *)
(* backend's key.  Before the backend is first initialized (dbKey = NoKey) *)
(* this forces every one of those places to be empty.                      *)
(***************************************************************************)
DbShares == {ShareFor(dbKey, i) : i \in KeeperIds}

IInv ==
    /\ TypeOK
    /\ RootKeyIntegrity
    /\ KeeperShardIntegrity
    /\ collected \subseteq DbShares
    /\ operatorShards \subseteq DbShares
    /\ \A j \in 1..Len(shards) : shards[j] \in DbShares

\* No share of the zero key is a shard Nexus can produce.
LEMMA NoKeyShares == \A i \in Nat : Share(NoKey, i) \notin Shards
<1> SUFFICES ASSUME NEW i \in Nat, NEW k \in Keys, NEW j \in KeeperIds,
                    Share(NoKey, i) = Share(k, j)
             PROVE  FALSE
  BY DEF Shards
<1>1. NoKey = k
  BY DEF Share
<1>2. QED
  BY <1>1

\* Reconstruction from shares of a single key K yields K.
LEMMA ReconstructOneKey ==
    ASSUME NEW K, NEW S \in SUBSET {ShareFor(K, i) : i \in KeeperIds},
           Reconstructible(S)
    PROVE  Reconstruct(S) = K /\ K \in Keys
<1>1. S # {}
  <2>1. ShardIds({}) = {}
    BY DEF ShardIds
  <2>2. Cardinality({}) = 0
    BY FS_EmptySet
  <2>3. QED
    BY <2>1, <2>2 DEF Reconstructible
<1>2. PICK s \in S : s.key = K
  BY <1>1 DEF ShareFor, Share
<1>3. PICK k \in Keys : \A x \in S : x.key = k
  BY DEF Reconstructible
<1>4. k = K
  BY <1>2, <1>3
<1>5. QED
  BY <1>2, <1>3, <1>4 DEF Reconstruct

\* Before the backend is first initialized no shard exists anywhere.
LEMMA NothingBeforeInit ==
    ASSUME IInv, dbKey = NoKey
    PROVE  /\ \A i \in KeeperIds : keeperShard[i] = NoShard
           /\ collected = {}
           /\ operatorShards = {}
           /\ Len(shards) = 0
<1>1. DbShares \cap Shards = {}
  BY NoKeyShares, KeeperAssumption DEF DbShares, ShareFor
<1>2. \A i \in KeeperIds : keeperShard[i] = NoShard
  BY <1>1, KeeperAssumption DEF IInv, TypeOK, KeeperShardIntegrity, DbShares
<1>3. collected = {} /\ operatorShards = {}
  BY <1>1 DEF IInv, TypeOK
<1>4. Len(shards) = 0
  <2>1. shards \in Seq(Shards)
    BY DEF IInv, TypeOK
  <2>2. \A j \in 1..Len(shards) : shards[j] \in DbShares \cap Shards
    BY <2>1 DEF IInv
  <2>3. QED
    BY <1>1, <2>1, <2>2
<1>5. QED
  BY <1>2, <1>3, <1>4

\* The initial state satisfies the inductive invariant.
LEMMA IInvInit == Init => IInv
BY DEF Init, IInv, TypeOK, Statuses, ReqStates, NoShard, Share,
       RootKeyIntegrity, KeeperShardIntegrity

\* Every step preserves the inductive invariant.
LEMMA IInvStep == IInv /\ [Next]_vars => IInv'
  <2> SUFFICES ASSUME IInv, [Next]_vars PROVE IInv'
    OBVIOUS
  <2>0. TypeOK'
    BY TypeStep DEF IInv
  <2> USE DEF IInv
  <2>1. CASE NexusStart
    BY <2>0, <2>1 DEF NexusStart, RootKeyIntegrity, KeeperShardIntegrity, DbShares
  <2>2. ASSUME NEW i \in KeeperIds, PollKeeper(i) PROVE IInv'
    BY <2>0, <2>2 DEF PollKeeper, ShardAnswer, RootKeyIntegrity, KeeperShardIntegrity, DbShares
  <2>3. CASE FinishBootstrap
    <3>1. CASE Reconstructible(collected)
      <4>1. Reconstruct(collected) = dbKey
        BY <3>1, ReconstructOneKey DEF DbShares
      <4>2. QED
        BY <2>0, <2>3, <3>1, <4>1 DEF FinishBootstrap, RootKeyIntegrity,
           KeeperShardIntegrity, DbShares
    <3>2. CASE ~Reconstructible(collected) /\ dbKey = NoKey
      <4>1. /\ \A i \in KeeperIds : keeperShard[i] = NoShard
            /\ collected = {} /\ operatorShards = {} /\ Len(shards) = 0
        BY <3>2, NothingBeforeInit
      <4>2. rootKey' = dbKey'
        BY <2>3, <3>2 DEF FinishBootstrap
      <4>3. QED
        BY <2>0, <2>3, <3>2, <4>1, <4>2 DEF FinishBootstrap, RootKeyIntegrity,
           KeeperShardIntegrity
    <3>3. CASE ~Reconstructible(collected) /\ dbKey # NoKey
      BY <2>0, <2>3, <3>3 DEF FinishBootstrap, RootKeyIntegrity,
         KeeperShardIntegrity, DbShares
    <3>4. QED
      BY <3>1, <3>2, <3>3
  <2>4. CASE Tick
    BY <2>0, <2>4 DEF Tick, RootKeyIntegrity, KeeperShardIntegrity, DbShares
  <2>5. ASSUME NEW i \in KeeperIds, SendShardOk(i) PROVE IInv'
    BY <2>0, <2>5 DEF SendShardOk, RootKeyIntegrity, KeeperShardIntegrity, DbShares
  <2>6. ASSUME NEW i \in KeeperIds, SendShardSkip(i) PROVE IInv'
    BY <2>0, <2>6 DEF SendShardSkip, RootKeyIntegrity, KeeperShardIntegrity, DbShares
  <2>7. CASE Recover
    <3>1. PilotShards \subseteq DbShares
      BY <2>7, PilotAssumption DEF Recover, RootKeyIntegrity, PilotShards, DbShares
    <3>2. QED
      BY <2>0, <2>7, <3>1 DEF Recover, RootKeyIntegrity, KeeperShardIntegrity, DbShares
  <2>8. ASSUME NEW r \in Requests, RestoreAppend(r) PROVE IInv'
    <3>1. PICK s \in operatorShards : shards' = Append(shards, s)
      BY <2>8 DEF RestoreAppend, RestoreInput
    <3>2. \A j \in 1..Len(shards') : shards'[j] \in DbShares
      BY <3>1 DEF TypeOK
    <3>3. QED
      BY <2>0, <2>8, <3>2 DEF RestoreAppend, RootKeyIntegrity, KeeperShardIntegrity,
         DbShares
  <2>9. ASSUME NEW r \in Requests, RestoreCheck(r) PROVE IInv'
    <3>1. CASE Len(shards) = 2 /\ Reconstructible(SeqElems(shards))
      <4>1. SeqElems(shards) \subseteq DbShares
        BY DEF SeqElems
      <4>2. Reconstruct(SeqElems(shards)) = dbKey
        BY <3>1, <4>1, ReconstructOneKey DEF DbShares
      <4>3. QED
        BY <2>0, <2>9, <3>1, <4>2 DEF RestoreCheck, RootKeyIntegrity,
           KeeperShardIntegrity, DbShares
    <3>2. CASE ~(Len(shards) = 2 /\ Reconstructible(SeqElems(shards)))
      BY <2>0, <2>9, <3>2 DEF RestoreCheck, RootKeyIntegrity, KeeperShardIntegrity,
         DbShares
    <3>3. QED
      BY <3>1, <3>2
  <2>10. ASSUME NEW r \in Requests, RestoreRespond(r) PROVE IInv'
    BY <2>0, <2>10 DEF RestoreRespond, RootKeyIntegrity, KeeperShardIntegrity, DbShares
  <2>11. CASE NexusCrash
    BY <2>0, <2>11 DEF NexusCrash, RootKeyIntegrity, KeeperShardIntegrity, DbShares
  <2>12. ASSUME NEW i \in KeeperIds, KeeperCrash(i) PROVE IInv'
    BY <2>0, <2>12 DEF KeeperCrash, RootKeyIntegrity, KeeperShardIntegrity, DbShares
  <2>13. CASE UNCHANGED vars
    BY <2>0, <2>13 DEF vars, RootKeyIntegrity, KeeperShardIntegrity, DbShares
  <2>14. QED
    BY <2>1, <2>2, <2>3, <2>4, <2>5, <2>6, <2>7, <2>8, <2>9, <2>10, <2>11,
       <2>12, <2>13 DEF Next

\* Nexus only ever holds the backend's key, and keepers only its shares.
THEOREM KeyIntegrity == Spec => [](RootKeyIntegrity /\ KeeperShardIntegrity)
<1>1. IInv => RootKeyIntegrity /\ KeeperShardIntegrity
  BY DEF IInv
<1>2. QED
  BY <1>1, IInvInit, IInvStep, PTL DEF Spec

\* Whatever keys, keeper ids, threshold and crashes: a keeper never holds a
\* share other than its own share of the backend's key
\* (sendShardsToKeepers, findShare).
THEOREM ShardIntegrity == Spec => []KeeperShardIntegrity
BY KeyIntegrity, PTL
-----------------------------------------------------------------------------
(***************************************************************************)
(* Refinement of RootKeyLifecycle.  Besides IInv, the step mapping needs   *)
(* three facts about the control state: Nexus holds a key exactly when it  *)
(* is healthy; it awaits a restore only once the backend was initialized;  *)
(* and a restore request is between its append and its check only while   *)
(* Nexus serves restores (a crash aborts it).                              *)
(***************************************************************************)
RInv ==
    /\ (status = "Healthy") = (rootKey # NoKey)
    /\ status = "AwaitingRestore" => dbKey # NoKey
    /\ \A r \in Requests : pc[r] = "check" => status \in {"AwaitingRestore", "Healthy"}

LEMMA RInvInit == Init => RInv
BY DEF Init, RInv

\* A key rebuilt from shards Nexus holds is the backend's key.
LEMMA RebuiltKey ==
    ASSUME IInv, NEW S \in SUBSET DbShares, Reconstructible(S)
    PROVE  Reconstruct(S) = dbKey /\ dbKey \in Keys /\ dbKey # NoKey
BY ReconstructOneKey, KeysAssumption DEF DbShares

LEMMA RInvStep == IInv /\ RInv /\ [Next]_vars => RInv'
<1> SUFFICES ASSUME IInv, RInv, [Next]_vars PROVE RInv'
  OBVIOUS
<1>1. CASE NexusStart
  BY <1>1 DEF NexusStart, RInv
<1>2. ASSUME NEW i \in KeeperIds, PollKeeper(i) PROVE RInv'
  BY <1>2 DEF PollKeeper, RInv
<1>3. CASE FinishBootstrap
  <2>1. CASE Reconstructible(collected)
    <3>1. Reconstruct(collected) \in Keys
      BY <2>1, RebuiltKey DEF IInv
    <3>2. QED
      BY <1>3, <2>1, <3>1, KeysAssumption DEF FinishBootstrap, RInv
  <2>2. CASE ~Reconstructible(collected)
    BY <1>3, <2>2, KeysAssumption DEF FinishBootstrap, RInv
  <2>3. QED
    BY <2>1, <2>2
<1>4. CASE Tick
  BY <1>4 DEF Tick, RInv
<1>5. ASSUME NEW i \in KeeperIds, SendShardOk(i) \/ SendShardSkip(i) PROVE RInv'
  BY <1>5 DEF SendShardOk, SendShardSkip, RInv
<1>6. CASE Recover
  BY <1>6 DEF Recover, RInv
<1>7. ASSUME NEW r \in Requests, RestoreAppend(r) PROVE RInv'
  BY <1>7 DEF RestoreAppend, RInv, IInv, TypeOK
<1>8. ASSUME NEW r \in Requests, RestoreCheck(r) PROVE RInv'
  <2>1. CASE Len(shards) = 2 /\ Reconstructible(SeqElems(shards))
    <3>1. SeqElems(shards) \subseteq DbShares
      BY DEF IInv, SeqElems
    <3>2. Reconstruct(SeqElems(shards)) \in Keys
      BY <2>1, <3>1, RebuiltKey
    <3>3. QED
      BY <1>8, <2>1, <3>2, KeysAssumption DEF RestoreCheck, RInv, IInv, TypeOK
  <2>2. CASE ~(Len(shards) = 2 /\ Reconstructible(SeqElems(shards)))
    BY <1>8, <2>2 DEF RestoreCheck, RInv, IInv, TypeOK
  <2>3. QED
    BY <2>1, <2>2
<1>9. ASSUME NEW r \in Requests, RestoreRespond(r) PROVE RInv'
  BY <1>9 DEF RestoreRespond, RInv, IInv, TypeOK
<1>10. CASE NexusCrash
  BY <1>10 DEF NexusCrash, RInv
<1>11. ASSUME NEW i \in KeeperIds, KeeperCrash(i) PROVE RInv'
  BY <1>11 DEF KeeperCrash, RInv
<1>12. CASE UNCHANGED vars
  BY <1>12 DEF vars, RInv
<1>13. QED
  BY <1>1, <1>2, <1>3, <1>4, <1>5, <1>6, <1>7, <1>8, <1>9, <1>10, <1>11,
     <1>12 DEF Next

\* For every instance of the constants, Nexus implements the root-key
\* lifecycle (ImplementsLifecycle): bootstrap, redistribution, recover,
\* restore and crashes only ever generate the key on a first start, unlock
\* with the backend's key, or lose the key in a crash.
THEOREM Refinement == Spec => ImplementsLifecycle
<1> DEFINE absVars == <<Phase, rootKey, dbKey>>
<1>1. Init => Lifecycle!Init
  BY DEF Init, Lifecycle!Init, Phase
<1>2. IInv /\ RInv /\ [Next]_vars => [Lifecycle!Next]_absVars
  <2> SUFFICES ASSUME IInv, RInv, [Next]_vars PROVE [Lifecycle!Next]_absVars
    OBVIOUS
  <2>1. CASE NexusStart
    BY <2>1 DEF NexusStart, Lifecycle!Next, Lifecycle!Start, Phase
  <2>2. CASE FinishBootstrap
    <3>1. CASE Reconstructible(collected)
      <4>1. Reconstruct(collected) = dbKey /\ dbKey # NoKey
        BY <3>1, RebuiltKey DEF IInv
      <4>2. QED
        BY <2>2, <3>1, <4>1 DEF FinishBootstrap, Lifecycle!Next, Lifecycle!Unlock,
           Phase
    <3>2. CASE ~Reconstructible(collected) /\ dbKey = NoKey
      BY <2>2, <3>2 DEF FinishBootstrap, Lifecycle!Next, Lifecycle!Generate, Phase
    <3>3. CASE ~Reconstructible(collected) /\ dbKey # NoKey
      BY <2>2, <3>3 DEF FinishBootstrap, Phase
    <3>4. QED
      BY <3>1, <3>2, <3>3
  <2>3. ASSUME NEW r \in Requests, RestoreCheck(r) PROVE [Lifecycle!Next]_absVars
    <3>1. CASE Len(shards) = 2 /\ Reconstructible(SeqElems(shards))
      <4>1. SeqElems(shards) \subseteq DbShares
        BY DEF IInv, SeqElems
      <4>2. Reconstruct(SeqElems(shards)) = dbKey /\ dbKey # NoKey
        BY <3>1, <4>1, RebuiltKey
      <4>3. status \in {"AwaitingRestore", "Healthy"}
        BY <2>3 DEF RestoreCheck, RInv
      <4>4. CASE status = "AwaitingRestore"
        BY <2>3, <3>1, <4>2, <4>4 DEF RestoreCheck, Lifecycle!Next, Lifecycle!Unlock,
           Phase
      <4>5. CASE status = "Healthy"
        <5>1. rootKey = dbKey
          BY <4>5 DEF RInv, IInv, RootKeyIntegrity
        <5>2. QED
          BY <2>3, <3>1, <4>2, <4>5, <5>1 DEF RestoreCheck, Phase
      <4>6. QED
        BY <4>3, <4>4, <4>5
    <3>2. CASE ~(Len(shards) = 2 /\ Reconstructible(SeqElems(shards)))
      BY <2>3, <3>2 DEF RestoreCheck, Phase
    <3>3. QED
      BY <3>1, <3>2
  <2>4. CASE NexusCrash
    BY <2>4 DEF NexusCrash, Lifecycle!Next, Lifecycle!Crash, Phase
  <2>5. CASE \/ \E i \in KeeperIds : PollKeeper(i) \/ SendShardOk(i)
                                    \/ SendShardSkip(i) \/ KeeperCrash(i)
             \/ Tick \/ Recover
             \/ \E r \in Requests : RestoreAppend(r) \/ RestoreRespond(r)
             \/ UNCHANGED vars
    BY <2>5 DEF PollKeeper, SendShardOk, SendShardSkip, KeeperCrash, Tick, Recover,
       RestoreAppend, RestoreRespond, vars, Phase
  <2>6. QED
    BY <2>1, <2>2, <2>3, <2>4, <2>5 DEF Next
<1>3. QED
  BY <1>1, <1>2, IInvInit, IInvStep, RInvInit, RInvStep, PTL
     DEF Spec, ImplementsLifecycle, Lifecycle!Spec

=============================================================================
