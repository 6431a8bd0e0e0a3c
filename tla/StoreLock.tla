----------------------------- MODULE StoreLock -----------------------------
(***************************************************************************)
(* The lock a command holds on one campaign (Store.Lock and Store.Delete   *)
(* of internal/store).  The lock is a flock on a file found by name, and   *)
(* Delete, which runs inside the lock, unlinks that name.  A flock belongs *)
(* to the file that was opened and not to its name, so a command that had  *)
(* opened the file and was waiting gets the lock of a file nobody can find *)
(* any more.                                                               *)
(***************************************************************************)
EXTENDS Naturals, FiniteSets

CONSTANTS
    Procs,      \* the commands that may run at once
    NoFile      \* the name refers to no file

VARIABLES
    lockFile,   \* the file the lock's name refers to, or NoFile
    files,      \* how many lock files were ever made: file i is the i-th
    phase,      \* where each command stands with the lock
    opened,     \* the file each command has opened, or NoFile
    raced       \* history: Delete unlinked a file that a command had opened

lockVars == <<lockFile, files, phase, opened, raced>>

ASSUME NoFileIsNoFile == NoFile \notin Nat

Phases == {"out", "waiting", "inside", "deleted"}

(* Holding the flock; a command that has deleted the record still does.    *)
Holds(p) == phase[p] \in {"inside", "deleted"}

LockInit ==
    /\ lockFile = NoFile
    /\ files = 0
    /\ phase = [p \in Procs |-> "out"]
    /\ opened = [p \in Procs |-> NoFile]
    /\ raced = FALSE

(* os.OpenFile with O_CREATE: the file the name refers to, a new one if    *)
(* there is none.                                                          *)
LockOpen(p) ==
    /\ phase[p] = "out"
    /\ phase' = [phase EXCEPT ![p] = "waiting"]
    /\ IF lockFile = NoFile
          THEN /\ files' = files + 1
               /\ lockFile' = files + 1
          ELSE UNCHANGED <<files, lockFile>>
    /\ opened' = [opened EXCEPT ![p] = lockFile']
    /\ UNCHANGED raced

(* syscall.Flock returns: nobody else holds the flock of the same file.    *)
LockTakeShared(p) ==
    /\ phase[p] = "waiting"
    /\ phase' = [phase EXCEPT ![p] = "inside"]
    /\ UNCHANGED <<lockFile, files, opened, raced>>

LockTake(p) ==
    /\ phase[p] = "waiting"
    /\ \A q \in Procs \ {p} : Holds(q) => opened[q] # opened[p]
    /\ phase' = [phase EXCEPT ![p] = "inside"]
    /\ UNCHANGED <<lockFile, files, opened, raced>>

(* The second half of Store.Delete: the name goes with the record.         *)
LockUnlink(p) ==
    /\ phase[p] = "inside"
    /\ phase' = [phase EXCEPT ![p] = "deleted"]
    /\ lockFile' = NoFile
    /\ raced' = (raced \/ \E q \in Procs \ {p} :
                              phase[q] \in {"waiting", "inside"} /\ opened[q] = lockFile)
    /\ UNCHANGED <<files, opened>>

(* The command's deferred unlock, or its death: the descriptor is closed.  *)
LockRelease(p) ==
    /\ phase[p] # "out"
    /\ phase' = [phase EXCEPT ![p] = "out"]
    /\ opened' = [opened EXCEPT ![p] = NoFile]
    /\ UNCHANGED <<lockFile, files, raced>>

LockNext == \E p \in Procs :
                LockOpen(p) \/ LockTake(p) \/ LockUnlink(p) \/ LockRelease(p)

LockSpec == LockInit /\ [][LockNext]_lockVars

-----------------------------------------------------------------------------
LockTypeOK ==
    /\ lockFile \in Nat \cup {NoFile}
    /\ files \in Nat
    /\ phase \in [Procs -> Phases]
    /\ opened \in [Procs -> Nat \cup {NoFile}]
    /\ raced \in BOOLEAN

(* At most one command works inside the lock of the campaign, as long as   *)
(* no Delete has pulled the file from under one that was waiting for it.   *)
(* A command that has deleted the record has only its unlock left to do.   *)
(* Store.Lock keeps the promise of its callers only up to that.            *)
Working(p) == phase[p] = "inside"

ExclusiveUnlessUnlinked ==
    raced \/ \A p, q \in Procs : Working(p) /\ Working(q) => p = q

(* What makes it inductive.  The flock of one file excludes: no two        *)
(* commands hold the same file.  And until a Delete races a waiter, every  *)
(* command that waits or works has opened the file the name refers to.     *)
OneHolderPerFile ==
    \A p, q \in Procs : Holds(p) /\ Holds(q) /\ opened[p] = opened[q] => p = q

OpenedIsCurrent ==
    raced \/ \A p \in Procs : phase[p] \in {"waiting", "inside"} =>
                                lockFile # NoFile /\ opened[p] = lockFile

LockInv == LockTypeOK /\ OneHolderPerFile /\ OpenedIsCurrent
=============================================================================
