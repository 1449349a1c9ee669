--------------------------- MODULE SecretStoreProofs ---------------------------
(***************************************************************************)
(* Proofs about the secret store, for every value of the constants: the    *)
(* history window (HistoryWindow) is an invariant, and every put assigns a *)
(* version above all earlier ones (VersionsMonotonic).  HistoryWindow with *)
(* the types is inductive as it stands: it fixes the version of every      *)
(* stored entry, so the version put derives from the newest entry is       *)
(* always issued + 1.                                                      *)
(***************************************************************************)
EXTENDS SecretStore, TLAPS

IInv == TypeOK /\ HistoryWindow

\* The version put assigns is one above the highest ever assigned.
LEMMA NextIsIssuedPlusOne ==
    ASSUME IInv, NEW p \in Paths
    PROVE  NextVersion(p) = issued[p] + 1
<1>1. CASE secrets[p] = <<>>
  <2>1. issued[p] = 0
    BY <1>1, SecretStoreAssumption DEF IInv, TypeOK, HistoryWindow
  <2>2. QED
    BY <1>1, <2>1 DEF NextVersion
<1>2. CASE secrets[p] # <<>>
  <2>1. Len(secrets[p]) \in 1..MaxSecretVersions
    BY <1>2, SecretStoreAssumption DEF IInv, TypeOK, HistoryWindow
  <2>2. Last(secrets[p]).version = issued[p]
    BY <2>1 DEF IInv, TypeOK, HistoryWindow, Last
  <2>3. QED
    BY <1>2, <2>2 DEF NextVersion
<1>3. QED
  BY <1>1, <1>2

\* Shifting an index into a history by one entry.
LEMMA ShiftIndex ==
    ASSUME NEW a \in Nat, NEW b \in Nat, NEW c \in 1..b
    PROVE  (a + 1) - (b + 1) + (c + 1) = (a + 1) - b + c
OBVIOUS

LEMMA InitIInv == Init => IInv
BY SecretStoreAssumption DEF Init, IInv, TypeOK, HistoryWindow, NoCall, Calls

\* A put keeps the window: the new entry is issued + 1, and the eviction
\* drops the oldest exactly when the history was at the cap.
LEMMA PutIInv ==
    ASSUME IInv, NEW p \in Paths, NEW d \in Values, Put(p, d)
    PROVE  IInv'
<1> DEFINE n  == issued[p]
           L  == Len(secrets[p])
           e  == [version |-> n + 1, data |-> d, deleted |-> FALSE]
           h  == Append(secrets[p], e)
           nh == IF Len(h) > MaxSecretVersions THEN Tail(h) ELSE h
<1>0. NextVersion(p) = n + 1
  BY NextIsIssuedPlusOne
<1>1. /\ n + 1 <= MaxVersion
      /\ secrets' = [secrets EXCEPT ![p] = nh]
      /\ issued' = [issued EXCEPT ![p] = n + 1]
      /\ last' = [op |-> "put", path |-> p, args |-> <<n + 1>>,
                  resolved |-> {n + 1}, result |-> "ok"]
  BY <1>0 DEF Put, Appended
<1>2. /\ n \in 0..MaxVersion /\ secrets[p] \in Seq(Entry) /\ e \in Entry
      /\ L = IF n < MaxSecretVersions THEN n ELSE MaxSecretVersions
      /\ \A i \in 1..L : secrets[p][i].version = n - L + i
  <2>1. n \in 0..MaxVersion /\ secrets[p] \in Seq(Entry)
    BY DEF IInv, TypeOK
  <2>2. e \in Entry
    BY <1>1, <2>1 DEF Entry
  <2>3. /\ L = IF n < MaxSecretVersions THEN n ELSE MaxSecretVersions
        /\ \A i \in 1..L : secrets[p][i].version = n - L + i
    BY DEF IInv, HistoryWindow
  <2>4. QED
    BY <2>1, <2>2, <2>3
<1>3. /\ h \in Seq(Entry) /\ Len(h) = L + 1
      /\ \A i \in 1..L + 1 : h[i].version = (n + 1) - (L + 1) + i
  BY <1>2
<1>4. /\ nh \in Seq(Entry)
      /\ Len(nh) = IF n + 1 < MaxSecretVersions THEN n + 1 ELSE MaxSecretVersions
      /\ \A i \in 1..Len(nh) : nh[i].version = (n + 1) - Len(nh) + i
  <2>1. CASE Len(h) > MaxSecretVersions
    <3>1. L = MaxSecretVersions /\ n >= MaxSecretVersions
      BY <1>2, <1>3, <2>1, SecretStoreAssumption
    <3>2. Tail(h) \in Seq(Entry) /\ Len(Tail(h)) = L
      BY <1>3
    <3>3. \A i \in 1..L : Tail(h)[i] = h[i + 1]
      BY <1>3
    <3>4. ASSUME NEW i \in 1..L PROVE Tail(h)[i].version = (n + 1) - L + i
      <4>1. h[i + 1].version = (n + 1) - (L + 1) + (i + 1)
        BY <1>3
      <4>2. Tail(h)[i] = h[i + 1]
        BY <3>3
      <4>0. n \in Nat /\ L \in Nat
        BY <1>2
      <4>3. (n + 1) - (L + 1) + (i + 1) = (n + 1) - L + i
        BY <4>0, ShiftIndex, Zenon
      <4>4. QED
        BY <4>1, <4>2, <4>3, Zenon
    <3>5. nh = Tail(h)
      BY <2>1
    <3>6. Len(nh) = IF n + 1 < MaxSecretVersions THEN n + 1 ELSE MaxSecretVersions
      BY <1>2, <3>1, <3>2, <3>5, SecretStoreAssumption
    <3>7. QED
      BY <3>2, <3>4, <3>5, <3>6
  <2>2. CASE ~(Len(h) > MaxSecretVersions)
    <3>1. L = n /\ n + 1 <= MaxSecretVersions
      BY <1>2, <1>3, <2>2, SecretStoreAssumption
    <3>2. nh = h
      BY <2>2
    <3>3. Len(nh) = IF n + 1 < MaxSecretVersions THEN n + 1 ELSE MaxSecretVersions
      BY <1>2, <1>3, <3>1, <3>2, SecretStoreAssumption
    <3>4. \A i \in 1..Len(nh) : nh[i].version = (n + 1) - Len(nh) + i
      BY <1>3, <3>2
    <3>5. QED
      BY <1>3, <3>2, <3>3, <3>4
  <2>3. QED
    BY <2>1, <2>2
<1>5. TypeOK'
  BY <1>1, <1>2, <1>4 DEF IInv, TypeOK, Calls
<1>6. HistoryWindow'
  <2> SUFFICES ASSUME NEW q \in Paths
               PROVE  /\ Len(secrets'[q]) = IF issued'[q] < MaxSecretVersions
                                              THEN issued'[q] ELSE MaxSecretVersions
                      /\ \A i \in 1..Len(secrets'[q]) :
                            secrets'[q][i].version = issued'[q] - Len(secrets'[q]) + i
    BY DEF HistoryWindow
  <2>1. CASE q = p
    BY <1>1, <1>4, <2>1 DEF IInv, TypeOK
  <2>2. CASE q # p
    BY <1>1, <2>2 DEF IInv, TypeOK, HistoryWindow
  <2>3. QED
    BY <2>1, <2>2
<1>7. QED
  BY <1>5, <1>6 DEF IInv

\* Marking versions deleted or live keeps every version and the length.
LEMMA MarkIInv ==
    ASSUME IInv, NEW p \in Paths, NEW vs \in Seq(Nat), NEW flag \in BOOLEAN,
           Mark(p, vs, flag)
    PROVE  IInv'
<1> DEFINE targets == {Resolve(p, v) : v \in ToSet(vs)}
           nh == [i \in DOMAIN secrets[p] |->
                    IF secrets[p][i].version \in targets
                      THEN Marked(secrets[p][i], flag) ELSE secrets[p][i]]
<1>1. /\ secrets' = [secrets EXCEPT ![p] = nh]
      /\ last' = [op |-> IF flag THEN "delete" ELSE "undelete", path |-> p,
                  args |-> vs, resolved |-> targets \cap Versions(p), result |-> "ok"]
      /\ issued' = issued
  BY DEF Mark
<1>2. secrets[p] \in Seq(Entry)
  BY DEF IInv, TypeOK
<1>3. /\ nh \in Seq(Entry) /\ Len(nh) = Len(secrets[p])
      /\ \A i \in 1..Len(nh) : nh[i].version = secrets[p][i].version
  <2>1. DOMAIN secrets[p] = 1..Len(secrets[p])
    BY <1>2
  <2>2. ASSUME NEW i \in 1..Len(secrets[p]) PROVE Marked(secrets[p][i], flag) \in Entry
    <3>1. secrets[p][i] \in Entry
      BY <1>2
    <3>2. QED
      BY <3>1, Zenon DEF Marked, Entry
  <2>3. nh \in [1..Len(secrets[p]) -> Entry]
    BY <1>2, <2>1, <2>2
  <2>4. QED
    BY <2>1, <2>3 DEF Marked
<1>4. Versions(p) \subseteq Nat
  <2>1. ToSet(secrets[p]) \subseteq Entry
    BY <1>2 DEF ToSet
  <2>2. QED
    BY <2>1 DEF Versions, Entry
<1>5. TypeOK'
  BY <1>1, <1>3, <1>4 DEF IInv, TypeOK, Calls
<1>6. HistoryWindow'
  <2> SUFFICES ASSUME NEW q \in Paths
               PROVE  /\ Len(secrets'[q]) = IF issued'[q] < MaxSecretVersions
                                              THEN issued'[q] ELSE MaxSecretVersions
                      /\ \A i \in 1..Len(secrets'[q]) :
                            secrets'[q][i].version = issued'[q] - Len(secrets'[q]) + i
    BY DEF HistoryWindow
  <2>1. CASE q = p
    BY <1>1, <1>3, <2>1 DEF IInv, TypeOK, HistoryWindow
  <2>2. CASE q # p
    BY <1>1, <2>2 DEF IInv, TypeOK, HistoryWindow
  <2>3. QED
    BY <2>1, <2>2
<1>7. QED
  BY <1>5, <1>6 DEF IInv

LEMMA StepIInv == IInv /\ [Next]_vars => IInv'
<1> SUFFICES ASSUME IInv, [Next]_vars PROVE IInv'
  OBVIOUS
<1>1. ASSUME NEW p \in Paths, NEW d \in Values, Put(p, d) PROVE IInv'
  BY <1>1, PutIInv
<1>2. ASSUME NEW p \in Paths, NEW vs \in DeleteLists, Delete(p, vs) PROVE IInv'
  BY <1>2, MarkIInv, SecretStoreAssumption DEF Delete
<1>3. ASSUME NEW p \in Paths, NEW f \in UndeleteFlags, UndeleteCmd(p, f) PROVE IInv'
  <2> DEFINE versions == IF f = <<>> THEN <<0>> ELSE f
  <2>1. CASE \A i \in DOMAIN versions : versions[i] \in Nat
    <3>1. versions \in Seq(Nat)
      BY <2>1, SecretStoreAssumption
    <3>2. QED
      BY <1>3, <2>1, <3>1, MarkIInv DEF UndeleteCmd
  <2>2. CASE ~\A i \in DOMAIN versions : versions[i] \in Nat
    BY <1>3, <2>2 DEF UndeleteCmd, IInv, TypeOK, HistoryWindow, Calls
  <2>3. QED
    BY <2>1, <2>2
<1>4. ASSUME NEW p \in Paths, NEW v \in GetVersions, GetCmd(p, v) PROVE IInv'
  BY <1>4 DEF GetCmd, IInv, TypeOK, HistoryWindow, Calls
<1>5. CASE UNCHANGED vars
  BY <1>5 DEF vars, IInv, TypeOK, HistoryWindow
<1>6. QED
  BY <1>1, <1>2, <1>3, <1>4, <1>5 DEF Next

\* For every cap and every bound, each path holds exactly the newest
\* MaxSecretVersions versions ever assigned, soft-deleted ones counted, in
\* order and without gaps (HistoryWindow).
THEOREM WindowInvariant == Spec => []HistoryWindow
<1>1. IInv => HistoryWindow
  BY DEF IInv
<1>2. QED
  BY <1>1, InitIInv, StepIInv, PTL DEF Spec

\* For every cap and every bound, a put assigns a version above every
\* version assigned on its path before (VersionsMonotonic), whatever was
\* deleted or evicted in between.
THEOREM Monotonic == Spec => VersionsMonotonic
<1>1. IInv /\ [Next]_vars =>
        [\A p \in Paths :
           last'.op = "put" /\ last'.path = p => \A v \in last'.resolved : v > issued[p]]_vars
  <2> SUFFICES ASSUME IInv, [Next]_vars, NEW p \in Paths, last'.op = "put", last'.path = p,
                      NEW v \in last'.resolved, vars' # vars
               PROVE  v > issued[p]
    OBVIOUS
  <2>1. ASSUME NEW q \in Paths, NEW d \in Values, Put(q, d) PROVE v > issued[p]
    <3>1. q = p /\ v = NextVersion(q)
      BY <2>1 DEF Put
    <3>2. QED
      BY <3>1, NextIsIssuedPlusOne DEF IInv, TypeOK
  <2>2. ASSUME NEW q \in Paths, NEW vs \in Seq(Nat), NEW flag \in BOOLEAN,
               Mark(q, vs, flag)
        PROVE  FALSE
    BY <2>2 DEF Mark
  <2>3. ASSUME NEW q \in Paths, NEW f \in UndeleteFlags, UndeleteCmd(q, f) PROVE FALSE
    <3> DEFINE versions == IF f = <<>> THEN <<0>> ELSE f
    <3>1. CASE \A i \in DOMAIN versions : versions[i] \in Nat
      <4>1. versions \in Seq(Nat)
        BY <3>1, SecretStoreAssumption
      <4>2. QED
        BY <2>3, <3>1, <4>1, <2>2 DEF UndeleteCmd
    <3>2. CASE ~\A i \in DOMAIN versions : versions[i] \in Nat
      BY <2>3, <3>2 DEF UndeleteCmd
    <3>3. QED
      BY <3>1, <3>2
  <2>4. ASSUME NEW q \in Paths, NEW g \in GetVersions, GetCmd(q, g) PROVE FALSE
    BY <2>4 DEF GetCmd
  <2>5. QED
    BY <2>1, <2>2, <2>3, <2>4, SecretStoreAssumption DEF Next, Delete, vars
<1>2. QED
  BY <1>1, InitIInv, StepIInv, PTL DEF Spec, VersionsMonotonic
=============================================================================
