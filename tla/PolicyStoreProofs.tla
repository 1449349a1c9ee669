-------------------------- MODULE PolicyStoreProofs --------------------------
(***************************************************************************)
(* Proofs about the policy store, for every set of names, ids and          *)
(* goroutines: TypeOK and ConsistentCopies are invariants.                 *)
(*                                                                         *)
(* ConsistentCopies is not inductive: a goroutine between CreateScan and   *)
(* CreatePersist, or between GetRead and GetStore, carries a policy it     *)
(* will write to memory or to the backend under its id.  The invariant     *)
(* PInv adds that such a carried policy agrees with both copies and with   *)
(* every other goroutine carrying one for the same id, and that an id      *)
(* uuid.New has not handed out yet is empty in both copies.  It is the     *)
(* freshness of CreateScan's id that keeps a new policy from meeting an    *)
(* old one.                                                                *)
(***************************************************************************)
EXTENDS PolicyStore, TLAPS

\* The policy goroutine p is about to write under pId[p], or None.
Held(p) ==
    IF pc[p] \in {"createStore", "createPersist"} THEN pName[p]
    ELSE IF pc[p] = "getStore" THEN pRead[p]
    ELSE None

\* An id uuid.New has not handed out is empty in both copies.
FreshEmpty == \A i \in Ids \ used : policies[i] = None /\ backend[i] = None

\* A carried policy's id is handed out and agrees with both copies.
HeldAgrees ==
    \A p \in Procs : Held(p) # None =>
        /\ pId[p] \in used
        /\ policies[pId[p]] \in {None, Held(p)}
        /\ backend[pId[p]] \in {None, Held(p)}

\* Two goroutines carrying a policy for one id carry the same one.
HoldersAgree ==
    \A p, q \in Procs :
        Held(p) # None /\ Held(q) # None /\ pId[p] = pId[q] => Held(p) = Held(q)

PInv == TypeOK /\ FreshEmpty /\ ConsistentCopies /\ HeldAgrees /\ HoldersAgree

USE NoneAssumption

LEMMA InitPInv == Init => PInv
BY DEF Init, PInv, TypeOK, FreshEmpty, ConsistentCopies, HeldAgrees, HoldersAgree,
       Held, PcStates

LEMMA TypeStep == TypeOK /\ [Next]_vars => TypeOK'
<1> SUFFICES ASSUME TypeOK, [Next]_vars PROVE TypeOK'
  OBVIOUS
<1>1. ASSUME NEW p \in Procs, NEW n \in Names, CreateScan(p, n) PROVE TypeOK'
  BY <1>1 DEF CreateScan, TypeOK, PcStates
<1>2. ASSUME NEW p \in Procs, CreateStore(p) PROVE TypeOK'
  BY <1>2 DEF CreateStore, TypeOK, PcStates
<1>3. ASSUME NEW p \in Procs, CreatePersist(p) PROVE TypeOK'
  BY <1>3 DEF CreatePersist, Finish, TypeOK, PcStates
<1>4. ASSUME NEW p \in Procs, NEW i \in Ids, DeleteLoad(p, i) PROVE TypeOK'
  BY <1>4 DEF DeleteLoad, TypeOK, PcStates
<1>5. ASSUME NEW p \in Procs, DeleteRemove(p) PROVE TypeOK'
  BY <1>5 DEF DeleteRemove, TypeOK, PcStates
<1>6. ASSUME NEW p \in Procs, DeletePersist(p) PROVE TypeOK'
  BY <1>6 DEF DeletePersist, Finish, TypeOK, PcStates
<1>7. ASSUME NEW p \in Procs, NEW i \in Ids, GetLoad(p, i) PROVE TypeOK'
  BY <1>7 DEF GetLoad, TypeOK, PcStates
<1>8. ASSUME NEW p \in Procs, GetRead(p) PROVE TypeOK'
  BY <1>8 DEF GetRead, Finish, TypeOK, PcStates
<1>9. ASSUME NEW p \in Procs, GetStore(p) PROVE TypeOK'
  BY <1>9 DEF GetStore, Finish, TypeOK, PcStates
<1>10. CASE UNCHANGED vars
  BY <1>10 DEF vars, TypeOK
<1>11. QED
  BY <1>1, <1>2, <1>3, <1>4, <1>5, <1>6, <1>7, <1>8, <1>9, <1>10 DEF Next

LEMMA CreateScanStep ==
  ASSUME PInv, NEW p \in Procs, NEW n \in Names, CreateScan(p, n) PROVE PInv'
<1> USE DEF PInv
<1>1. TypeOK' BY TypeStep DEF Next
<1>2. PICK i \in Ids \ used : pId' = [pId EXCEPT ![p] = i] /\ used' = used \cup {i}
  BY DEF CreateScan
<1>3. Held(p)' = n /\ \A q \in Procs \ {p} : Held(q)' = Held(q) /\ pId'[q] = pId[q]
  BY <1>2 DEF CreateScan, Held, TypeOK
<1>4. FreshEmpty' BY <1>2 DEF CreateScan, FreshEmpty, TypeOK
<1>5. ConsistentCopies' BY DEF CreateScan, ConsistentCopies
<1>6. \A q \in Procs : Held(q) # None => pId[q] # i
  BY <1>2 DEF HeldAgrees
<1>7. HeldAgrees' BY <1>2, <1>3, <1>6 DEF CreateScan, HeldAgrees, FreshEmpty, TypeOK
<1>8. HoldersAgree' BY <1>2, <1>3, <1>6 DEF HoldersAgree, TypeOK
<1> QED BY <1>1, <1>4, <1>5, <1>7, <1>8

\* Finish drops p's carried policy and leaves every other goroutine's.
LEMMA FinishHeld ==
  ASSUME TypeOK, NEW p \in Procs, Finish(p)
  PROVE  /\ Held(p)' = None
         /\ \A q \in Procs \ {p} : Held(q)' = Held(q) /\ pId'[q] = pId[q]
BY DEF Finish, Held, TypeOK

LEMMA CreateStoreStep ==
  ASSUME PInv, NEW p \in Procs, CreateStore(p) PROVE PInv'
<1> USE DEF PInv
<1>1. TypeOK' BY TypeStep DEF Next
<1> DEFINE i == pId[p]
<1>2. i \in used /\ Held(p) = pName[p] /\ pName[p] \in Names
  BY DEF CreateStore, Held, TypeOK
<1>3. \A q \in Procs : Held(q)' = Held(q) /\ pId'[q] = pId[q]
  BY DEF CreateStore, Held, TypeOK
<1>4. \A q \in Procs : Held(q) # None /\ pId[q] = i => Held(q) = pName[p]
  BY <1>2 DEF HoldersAgree
<1>5. FreshEmpty' BY <1>2 DEF CreateStore, FreshEmpty, TypeOK
<1>6. ConsistentCopies' BY <1>2 DEF CreateStore, ConsistentCopies, HeldAgrees, TypeOK
<1>7. HeldAgrees' BY <1>3, <1>4 DEF CreateStore, HeldAgrees, TypeOK
<1>8. HoldersAgree' BY <1>3 DEF CreateStore, HoldersAgree
<1> QED BY <1>1, <1>5, <1>6, <1>7, <1>8

LEMMA CreatePersistStep ==
  ASSUME PInv, NEW p \in Procs, CreatePersist(p) PROVE PInv'
<1> USE DEF PInv
<1>1. TypeOK' BY TypeStep DEF Next
<1> DEFINE i == pId[p]
<1>2. i \in used /\ Held(p) = pName[p] /\ pName[p] \in Names
  BY DEF CreatePersist, Held, TypeOK
<1>3. /\ Held(p)' = None
      /\ \A q \in Procs \ {p} : Held(q)' = Held(q) /\ pId'[q] = pId[q]
  BY FinishHeld DEF CreatePersist
<1>4. \A q \in Procs : Held(q) # None /\ pId[q] = i => Held(q) = pName[p]
  BY <1>2 DEF HoldersAgree
<1>5. backend' \in {backend, [backend EXCEPT ![i] = pName[p]]}
  BY DEF CreatePersist
<1>6. FreshEmpty' BY <1>2, <1>5 DEF CreatePersist, FreshEmpty, TypeOK
<1>7. ConsistentCopies' BY <1>2, <1>5 DEF CreatePersist, ConsistentCopies, HeldAgrees, TypeOK
<1>8. HeldAgrees' BY <1>3, <1>4, <1>5 DEF CreatePersist, HeldAgrees, TypeOK
<1>9. HoldersAgree' BY <1>3 DEF HoldersAgree
<1> QED BY <1>1, <1>6, <1>7, <1>8, <1>9

\* The steps that leave Held, pId's holders and both copies as they are.
LEMMA LoadStep ==
  ASSUME PInv, NEW p \in Procs, NEW i \in Ids, DeleteLoad(p, i) \/ GetLoad(p, i)
  PROVE  PInv'
<1> USE DEF PInv
<1>1. TypeOK' BY TypeStep DEF Next
<1>2. /\ Held(p) = None /\ Held(p)' = None
      /\ \A q \in Procs \ {p} : Held(q)' = Held(q) /\ pId'[q] = pId[q]
  BY DEF DeleteLoad, GetLoad, Held, TypeOK
<1>3. UNCHANGED <<policies, backend, used>> BY DEF DeleteLoad, GetLoad
<1>4. FreshEmpty' /\ ConsistentCopies' BY <1>3 DEF FreshEmpty, ConsistentCopies
<1>5. HeldAgrees' BY <1>2, <1>3 DEF HeldAgrees
<1>6. HoldersAgree' BY <1>2 DEF HoldersAgree
<1> QED BY <1>1, <1>4, <1>5, <1>6

LEMMA DeleteRemoveStep ==
  ASSUME PInv, NEW p \in Procs, DeleteRemove(p) PROVE PInv'
<1> USE DEF PInv
<1>1. TypeOK' BY TypeStep DEF Next
<1>2. \A q \in Procs : Held(q)' = Held(q) /\ pId'[q] = pId[q]
  BY DEF DeleteRemove, Held, TypeOK
<1>3. FreshEmpty' /\ ConsistentCopies'
  BY DEF DeleteRemove, FreshEmpty, ConsistentCopies, TypeOK
<1>4. HeldAgrees' BY <1>2 DEF DeleteRemove, HeldAgrees, TypeOK
<1>5. HoldersAgree' BY <1>2 DEF HoldersAgree
<1> QED BY <1>1, <1>3, <1>4, <1>5

LEMMA DeletePersistStep ==
  ASSUME PInv, NEW p \in Procs, DeletePersist(p) PROVE PInv'
<1> USE DEF PInv
<1>1. TypeOK' BY TypeStep DEF Next
<1>2. /\ Held(p)' = None
      /\ \A q \in Procs \ {p} : Held(q)' = Held(q) /\ pId'[q] = pId[q]
  BY FinishHeld DEF DeletePersist
<1>3. Held(p) = None BY DEF DeletePersist, Held
<1>4. backend' \in {backend, [backend EXCEPT ![pId[p]] = None]}
  BY DEF DeletePersist
<1>5. FreshEmpty' /\ ConsistentCopies'
  BY <1>4 DEF DeletePersist, FreshEmpty, ConsistentCopies, TypeOK
<1>6. HeldAgrees' BY <1>2, <1>3, <1>4 DEF DeletePersist, HeldAgrees, TypeOK
<1>7. HoldersAgree' BY <1>2 DEF HoldersAgree
<1> QED BY <1>1, <1>5, <1>6, <1>7

LEMMA GetReadStep ==
  ASSUME PInv, NEW p \in Procs, GetRead(p) PROVE PInv'
<1> USE DEF PInv
<1>1. TypeOK' BY TypeStep DEF Next
<1> DEFINE i == pId[p]
           v == backend[i]
<1>2. Held(p) = None /\ i \in Ids BY DEF GetRead, Held, TypeOK
<1>3. CASE /\ pc[p] = "getRead" /\ v # None
           /\ pRead' = [pRead EXCEPT ![p] = v]
           /\ pc' = [pc EXCEPT ![p] = "getStore"]
           /\ UNCHANGED <<policies, backend, used, pName, pId, deleted>>
  <2>1. Held(p)' = v /\ \A q \in Procs \ {p} : Held(q)' = Held(q)
    BY <1>3 DEF Held, TypeOK
  <2>2. i \in used BY <1>2, <1>3 DEF FreshEmpty
  <2>3. policies[i] \in {None, v} BY <1>2, <1>3 DEF ConsistentCopies, TypeOK
  <2>4. \A q \in Procs : Held(q) # None /\ pId[q] = i => Held(q) = v
    BY <1>3 DEF HeldAgrees
  <2>5. FreshEmpty' /\ ConsistentCopies' BY <1>3 DEF FreshEmpty, ConsistentCopies
  <2>6. HeldAgrees' BY <1>3, <2>1, <2>2, <2>3 DEF HeldAgrees
  <2>7. HoldersAgree' BY <1>3, <2>1, <2>4 DEF HoldersAgree
  <2> QED BY <1>1, <2>5, <2>6, <2>7
<1>4. CASE /\ pc[p] = "getRead" /\ Finish(p)
           /\ UNCHANGED <<policies, backend, used, deleted>>
  <2>1. /\ Held(p)' = None
        /\ \A q \in Procs \ {p} : Held(q)' = Held(q) /\ pId'[q] = pId[q]
    BY <1>4, FinishHeld
  <2>2. FreshEmpty' /\ ConsistentCopies' BY <1>4 DEF FreshEmpty, ConsistentCopies
  <2>3. HeldAgrees' BY <1>4, <2>1 DEF HeldAgrees
  <2>4. HoldersAgree' BY <2>1 DEF HoldersAgree
  <2> QED BY <1>1, <2>2, <2>3, <2>4
<1> QED BY <1>3, <1>4 DEF GetRead

LEMMA GetStoreStep ==
  ASSUME PInv, NEW p \in Procs, GetStore(p) PROVE PInv'
<1> USE DEF PInv
<1>1. TypeOK' BY TypeStep DEF Next
<1> DEFINE i == pId[p]
<1>2. i \in used /\ Held(p) = pRead[p] /\ pRead[p] \in Names
  BY DEF GetStore, Held, HeldAgrees, TypeOK
<1>3. /\ Held(p)' = None
      /\ \A q \in Procs \ {p} : Held(q)' = Held(q) /\ pId'[q] = pId[q]
  BY FinishHeld DEF GetStore
<1>4. \A q \in Procs : Held(q) # None /\ pId[q] = i => Held(q) = pRead[p]
  BY <1>2 DEF HoldersAgree
<1>5. FreshEmpty' BY <1>2 DEF GetStore, FreshEmpty, TypeOK
<1>6. ConsistentCopies' BY <1>2 DEF GetStore, ConsistentCopies, HeldAgrees, TypeOK
<1>7. HeldAgrees' BY <1>3, <1>4 DEF GetStore, HeldAgrees, TypeOK
<1>8. HoldersAgree' BY <1>3 DEF HoldersAgree
<1> QED BY <1>1, <1>5, <1>6, <1>7, <1>8

LEMMA StepPInv == PInv /\ [Next]_vars => PInv'
<1> SUFFICES ASSUME PInv, [Next]_vars PROVE PInv'
  OBVIOUS
<1>1. CASE UNCHANGED vars
  BY <1>1 DEF vars, PInv, TypeOK, FreshEmpty, ConsistentCopies, HeldAgrees,
             HoldersAgree, Held
<1> QED
  BY <1>1, CreateScanStep, CreateStoreStep, CreatePersistStep, LoadStep,
     DeleteRemoveStep, DeletePersistStep, GetReadStep, GetStoreStep DEF Next

\* For every set of names, ids and goroutines, every reachable state is
\* well typed, and each goroutine's in-flight id and policy are set in the
\* steps that use them (TypeOK).
THEOREM TypeCorrect == Spec => []TypeOK
BY InitPInv, TypeStep, PTL DEF Spec, PInv

\* For every set of names, ids and goroutines, memory and the backend never
\* hold two different policies under one id, whatever the interleaving of
\* CreatePolicy, DeletePolicy and GetPolicy's cache fill and whichever
\* backend writes fail (ConsistentCopies).
THEOREM CopiesConsistent == Spec => []ConsistentCopies
<1>1. Init => PInv BY InitPInv
<1>2. PInv /\ [Next]_vars => PInv' BY StepPInv
<1>3. PInv => ConsistentCopies BY DEF PInv
<1> QED BY <1>1, <1>2, <1>3, PTL DEF Spec
=============================================================================
