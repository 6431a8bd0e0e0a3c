-------------------------- MODULE StoreLockProofs --------------------------
(***************************************************************************)
(* Proofs about the campaign lock, for any set of commands.  LockInv is    *)
(* the invariant: the flock of one file excludes, and until a Delete races *)
(* a waiter everybody has opened the file that the name refers to.         *)
(***************************************************************************)
EXTENDS StoreLock, TLAPS

LEMMA LockInitInv == LockInit => LockInv
<1> SUFFICES ASSUME LockInit PROVE LockInv
  OBVIOUS
<1>1. LockTypeOK
  BY DEF LockInit, LockTypeOK, Phases
<1>2. \A p \in Procs : phase[p] = "out"
  BY DEF LockInit
<1>3. OneHolderPerFile /\ OpenedIsCurrent
  BY <1>2 DEF OneHolderPerFile, OpenedIsCurrent, Holds
<1> QED BY <1>1, <1>3 DEF LockInv

(* Whoever opens the file waits for it, on the file the name refers to. *)
LEMMA OpenInv == ASSUME LockInv, NEW p \in Procs, LockOpen(p) PROVE LockInv'
<1> USE NoFileIsNoFile DEF LockInv
<1>1. lockFile' \in Nat /\ files' \in Nat
  BY DEF LockOpen, LockTypeOK
<1>2. LockTypeOK'
  BY <1>1 DEF LockOpen, LockTypeOK, Phases
<1>3. OneHolderPerFile'
  <2>1. \A q \in Procs : Holds(q)' => Holds(q) /\ opened'[q] = opened[q]
    BY DEF LockOpen, LockTypeOK, Holds
  <2> QED BY <2>1 DEF OneHolderPerFile
<1>4. OpenedIsCurrent'
  BY <1>1 DEF LockOpen, LockTypeOK, OpenedIsCurrent
<1> QED BY <1>2, <1>3, <1>4

(* The kernel gives the flock to one that waits when nobody holds it. *)
LEMMA TakeInv == ASSUME LockInv, NEW p \in Procs, LockTake(p) PROVE LockInv'
<1> USE DEF LockInv
<1>1. LockTypeOK'
  BY DEF LockTake, LockTypeOK, Phases
<1>2. OneHolderPerFile'
  BY DEF LockTake, LockTypeOK, OneHolderPerFile, Holds
<1>3. OpenedIsCurrent'
  BY DEF LockTake, LockTypeOK, OpenedIsCurrent
<1> QED BY <1>1, <1>2, <1>3

(* Unlinking leaves nobody on the old file, or it is a race. *)
LEMMA UnlinkInv == ASSUME LockInv, NEW p \in Procs, LockUnlink(p) PROVE LockInv'
<1> USE DEF LockInv
<1>1. LockTypeOK'
  BY DEF LockUnlink, LockTypeOK, Phases
<1>2. OneHolderPerFile'
  BY DEF LockUnlink, LockTypeOK, OneHolderPerFile, Holds
<1>3. OpenedIsCurrent'
  BY DEF LockUnlink, LockTypeOK, OpenedIsCurrent
<1> QED BY <1>1, <1>2, <1>3

LEMMA ReleaseInv == ASSUME LockInv, NEW p \in Procs, LockRelease(p) PROVE LockInv'
<1> USE DEF LockInv
<1>1. LockTypeOK'
  BY DEF LockRelease, LockTypeOK, Phases
<1>2. OneHolderPerFile'
  BY DEF LockRelease, LockTypeOK, OneHolderPerFile, Holds
<1>3. OpenedIsCurrent'
  BY DEF LockRelease, LockTypeOK, OpenedIsCurrent
<1> QED BY <1>1, <1>2, <1>3

LEMMA LockStepInv == LockInv /\ [LockNext]_lockVars => LockInv'
<1> SUFFICES ASSUME LockInv, [LockNext]_lockVars PROVE LockInv'
  OBVIOUS
<1>1. CASE UNCHANGED lockVars
  BY <1>1 DEF lockVars, LockInv, LockTypeOK, OneHolderPerFile, OpenedIsCurrent, Holds
<1>2. CASE LockNext
  BY <1>2, OpenInv, TakeInv, UnlinkInv, ReleaseInv DEF LockNext
<1> QED BY <1>1, <1>2

LEMMA WorkingExclusive == LockInv => ExclusiveUnlessUnlinked
BY DEF LockInv, OneHolderPerFile, OpenedIsCurrent, ExclusiveUnlessUnlinked, Working, Holds

(* A race is never forgotten. *)
LEMMA RacedStays == raced /\ [LockNext]_lockVars => raced'
BY DEF LockNext, lockVars, LockOpen, LockTake, LockUnlink, LockRelease

(* The types of the lock, for every command that uses it. *)
THEOREM LockInvariant == LockSpec => []LockInv
<1> QED BY LockInitInv, LockStepInv, PTL DEF LockSpec

(* Commands that go through Store.Lock exclude each other, as long as no   *)
(* Store.Delete unlinks the file under one that has opened it.             *)
THEOREM LockExcludes == LockSpec => []ExclusiveUnlessUnlinked
<1> QED BY LockInvariant, WorkingExclusive, PTL
=============================================================================
