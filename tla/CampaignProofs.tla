--------------------------- MODULE CampaignProofs ---------------------------
(***************************************************************************)
(* Proofs about Campaign, for any set of commands at once, any roster and  *)
(* any number of faults.  A step of a campaign's command is a step of the  *)
(* lock or leaves it alone, so what StoreLock promises holds here; and the *)
(* record is only ever saved from a copy nobody has overtaken.             *)
(***************************************************************************)
EXTENDS CampaignTypes, StoreLockProofs

(* Every action, and what it does to the lock. *)
LEMMA LockSteps == Next => [LockNext]_lockVars
<1> SUFFICES ASSUME Next PROVE [LockNext]_lockVars
  OBVIOUS
<1> USE DEF LockNext
<1>1. ASSUME NEW p \in Procs, StartCreate(p) \/ StartDestroy(p) PROVE LockNext
  BY <1>1 DEF StartCreate, StartDestroy
<1>2. ASSUME NEW p \in Procs, StartDoctor(p) \/ StartObserve(p) PROVE UNCHANGED lockVars
  BY <1>2 DEF StartDoctor, StartObserve
<1>3. ASSUME NEW p \in Procs, TakeLock(p) \/ Unlock(p) \/ LockToSave(p) \/ DeleteRecord(p)
      PROVE LockNext
  BY <1>3 DEF TakeLock, Unlock, LockToSave, DeleteRecord
<1>4. ASSUME NEW p \in Procs, Create(p) PROVE UNCHANGED lockVars
  <2>1. Adopt(p) \/ ListMembers(p) \/ Boot(p) \/ ForgetEarlierLife(p)
           \/ ConfigureMember(p) \/ Orchestrate(p) => UNCHANGED lockVars
    BY DEF Adopt, ListMembers, Boot, ForgetEarlierLife, ConfigureMember, Orchestrate
  <2>2. Readback(p) => UNCHANGED lockVars
    BY DEF Readback, KeepReadback, AskReadback, CannotAsk, JudgeReadback, GiveUp,
           RecordReadbacks, ReadbackUnchanged
  <2>3. RecordOnOrchestrator(p) \/ OpenMission(p) \/ StartMission(p) \/ FinishCreate(p)
           => UNCHANGED lockVars
    BY DEF RecordOnOrchestrator, OpenMission, StartMission, FinishCreate, OnOrchestrator
  <2> QED BY <1>4, <2>1, <2>2, <2>3 DEF Create
<1>5. ASSUME NEW p \in Procs, Destroy(p), ~DeleteRecord(p) PROVE UNCHANGED lockVars
  BY <1>5 DEF Destroy, LoadToDestroy, ArchiveMember, ScanMembers, RemoveMember, VerifyGone
<1>6. ASSUME NEW p \in Procs, Reload(p) \/ SaveHarness(p) \/ MergeLogMirror(p)
      PROVE UNCHANGED lockVars
  BY <1>6 DEF Reload, SaveHarness, MergeLogMirror
<1>7. ASSUME NEW p \in Procs, Crash(p) PROVE [LockNext]_lockVars
  BY <1>7 DEF Crash
<1>8. ASSUME NEW p \in Procs, NEW m \in Members, RestartReadback(p, m)
      PROVE UNCHANGED lockVars
  BY <1>8 DEF RestartReadback, ReadbackUnchanged
<1>9. ASSUME NEW m \in Members, MemberAnswers(m) \/ MachineLost(m) PROVE UNCHANGED lockVars
  BY <1>9 DEF MemberAnswers, MachineLost
<1>10. OrchestratorLogs => UNCHANGED lockVars
  BY DEF OrchestratorLogs
<1>11. ASSUME NEW p \in Procs, Step(p) PROVE [LockNext]_lockVars
  BY <1>11, <1>3, <1>4, <1>5, <1>6 DEF Step, Doctor
<1> QED BY <1>1, <1>2, <1>7, <1>8, <1>9, <1>10, <1>11 DEF Next

LEMMA LockStep == [Next]_vars => [LockNext]_lockVars
BY LockSteps DEF vars, lockVars

(* A campaign's commands use the lock as StoreLock says. *)
THEOREM CampaignLocks == Spec => LockSpec
<1>1. Init => LockInit
  BY DEF Init
<1> QED BY <1>1, LockStep, PTL DEF Spec, LockSpec

(* No two commands work on one campaign at once, until a destroy has       *)
(* unlinked the lock's file under one that was waiting for it.             *)
THEOREM CampaignExclusive == Spec => []ExclusiveUnlessUnlinked
BY CampaignLocks, LockExcludes, PTL

-----------------------------------------------------------------------------
(* NoLostWrite.  A command that holds a copy of the record, because it has *)
(* loaded or made one, works inside the lock; so, until a race, it is      *)
(* alone, and nobody has saved since.                                      *)
Inside == Creating \cup Destroying \cup {"reload", "journal"}
Holding == Inside \ {"adopt", "load", "reload"}
Steps == Inside \cup {"idle", "lock", "relock", "merge", "unlock"}
Locking == {"create", "destroy", "doctor"}

WriteTypes ==
  /\ pc \in [Procs -> Steps]
  /\ cmd \in [Procs -> Locking \cup {"none", "observe"}]
  /\ fresh \in [Procs -> BOOLEAN]

WriteInv ==
  /\ WriteTypes
  /\ \A p \in Procs : pc[p] \in {"lock", "relock"} => cmd[p] \in Locking
  /\ \A p \in Procs : pc[p] \in Inside => phase[p] = "inside"
  /\ \A p \in Procs : pc[p] \in Holding => fresh[p] \/ raced
  /\ lost => raced

(* One process goes on, and enters neither the lock nor a copy of the      *)
(* record.                                                                 *)
Goes(p) ==
  /\ pc' \in [Procs -> Steps]
  /\ \A q \in Procs \ {p} : pc'[q] = pc[q]
  /\ pc'[p] \in Inside => pc[p] \in Inside
  /\ pc'[p] \in Holding => pc[p] \in Holding
  /\ pc'[p] \in {"lock", "relock"} => pc[p] \in {"lock", "relock"}

(* A step inside the lock that touches neither the record nor the copy's   *)
(* freshness. *)
LEMMA QuietStep ==
  ASSUME WriteInv, NEW p \in Procs, Goes(p), UNCHANGED lockVars,
         UNCHANGED <<cmd, fresh, lost>>
  PROVE  WriteInv'
BY DEF WriteInv, WriteTypes, Goes, lockVars

(* A save, by whoever holds a copy: nobody else holds one, or there was a  *)
(* race. *)
LEMMA SavingStep ==
  ASSUME WriteInv, LockInv, NEW p \in Procs, pc[p] \in Holding, Goes(p),
         UNCHANGED <<lockVars, cmd>>, NEW r, Save(p, r)
  PROVE  WriteInv'
<1>1. \A q \in Procs : q # p /\ pc[q] \in Holding => raced
  BY WorkingExclusive DEF WriteInv, ExclusiveUnlessUnlinked, Working, Holding
<1>2. WriteTypes'
  BY DEF WriteInv, WriteTypes, Goes, Save
<1>3. lost' => raced'
  BY DEF WriteInv, Save, lockVars
<1>4. \A q \in Procs : pc'[q] \in Holding => fresh'[q] \/ raced'
  BY <1>1 DEF WriteInv, Goes, Save, lockVars
<1>5. \A q \in Procs : pc'[q] \in Inside => phase'[q] = "inside"
  BY DEF WriteInv, Goes, lockVars
<1>6. \A q \in Procs : pc'[q] \in {"lock", "relock"} => cmd'[q] \in Locking
  BY DEF WriteInv, Goes
<1> QED BY <1>2, <1>3, <1>4, <1>5, <1>6 DEF WriteInv

(* A command loads the record, or makes one, and has the latest.           *)
LEMMA LoadingStep ==
  ASSUME WriteInv, NEW p \in Procs, pc[p] \in Inside, UNCHANGED <<lockVars, cmd, lost>>,
         NEW s \in Steps \ {"lock", "relock"}, Goto(p, s),
         fresh' = [fresh EXCEPT ![p] = TRUE]
  PROVE  WriteInv'
BY DEF WriteInv, WriteTypes, Goto, lockVars

(* A command ends, of itself or not. *)
LEMMA EndingStep ==
  ASSUME WriteInv, LockInv, NEW p \in Procs, Gone(p),
         UNCHANGED lockVars \/ LockRelease(p)
  PROVE  WriteInv'
<1>1. raced' = raced /\ \A q \in Procs \ {p} : phase'[q] = phase[q]
  BY DEF LockRelease, lockVars, LockInv, LockTypeOK
<1> QED BY <1>1 DEF WriteInv, WriteTypes, Gone, Inside, Holding, Steps, Creating, Destroying

LEMMA StartingSteps ==
  ASSUME WriteInv, LockInv, NEW p \in Procs,
         StartCreate(p) \/ StartDestroy(p) \/ StartDoctor(p) \/ StartObserve(p)
            \/ LockToSave(p)
  PROVE  WriteInv'
<1> USE DEF Inside, Holding, Steps, Locking, Creating, Destroying, At, Goto
<1>1. CASE StartCreate(p) \/ StartDestroy(p)
  <2>1. /\ UNCHANGED <<fresh, lost>>
        /\ pc' = [pc EXCEPT ![p] = "lock"]
        /\ \E c \in {"create", "destroy"} : cmd' = [cmd EXCEPT ![p] = c]
        /\ pc[p] = "idle"
        /\ LockOpen(p)
    BY <1>1 DEF StartCreate, StartDestroy, Begin, recordVars
  <2>2. raced' = raced /\ \A q \in Procs \ {p} : phase'[q] = phase[q]
    BY <2>1 DEF LockOpen, LockInv, LockTypeOK
  <2> QED BY <2>1, <2>2 DEF WriteInv, WriteTypes
<1>2. CASE StartDoctor(p)
  <2>1. /\ fresh' = [fresh EXCEPT ![p] = TRUE]
        /\ UNCHANGED <<lost, lockVars>>
        /\ pc' = [pc EXCEPT ![p] = "relock"]
        /\ cmd' = [cmd EXCEPT ![p] = "doctor"]
    BY <1>2 DEF StartDoctor, Begin, Loaded
  <2> QED BY <2>1 DEF WriteInv, WriteTypes, lockVars
<1>3. CASE StartObserve(p)
  <2>1. /\ UNCHANGED <<fresh, lost, lockVars>>
        /\ pc' = [pc EXCEPT ![p] = "merge"]
        /\ cmd' = [cmd EXCEPT ![p] = "observe"]
    BY <1>3 DEF StartObserve, Begin, recordVars
  <2> QED BY <2>1 DEF WriteInv, WriteTypes, lockVars
<1>4. CASE LockToSave(p)
  <2>1. /\ UNCHANGED <<fresh, lost, cmd>>
        /\ pc[p] = "relock"
        /\ pc' = [pc EXCEPT ![p] = "lock"]
        /\ LockOpen(p)
    BY <1>4 DEF LockToSave, recordVars
  <2>2. raced' = raced /\ \A q \in Procs \ {p} : phase'[q] = phase[q]
    BY <2>1 DEF LockOpen, LockInv, LockTypeOK
  <2> QED BY <2>1, <2>2 DEF WriteInv, WriteTypes
<1> QED BY <1>1, <1>2, <1>3, <1>4

LEMMA LockingSteps ==
  ASSUME WriteInv, LockInv, NEW p \in Procs,
         TakeLock(p) \/ Unlock(p) \/ MergeLogMirror(p) \/ Crash(p)
  PROVE  WriteInv'
<1>1. CASE TakeLock(p)
  <2>1. /\ UNCHANGED <<fresh, lost, cmd>>
        /\ pc[p] = "lock"
        /\ LockTake(p)
    BY <1>1 DEF TakeLock, recordVars, At
  <2>2. cmd[p] \in Locking
    BY <2>1 DEF WriteInv
  <2>3. \E s \in {"adopt", "load", "reload"} : pc' = [pc EXCEPT ![p] = s]
    BY <1>1, <2>2 DEF TakeLock, Goto, Locking
  <2>4. /\ raced' = raced
        /\ phase'[p] = "inside"
        /\ \A q \in Procs \ {p} : phase'[q] = phase[q]
    BY <2>1 DEF LockTake, LockInv, LockTypeOK
  <2> QED BY <2>1, <2>3, <2>4 DEF WriteInv, WriteTypes, Inside, Holding, Steps,
                                 Creating, Destroying
<1>2. CASE Unlock(p)
  BY <1>2, EndingStep DEF Unlock
<1>3. CASE MergeLogMirror(p)
  BY <1>3, EndingStep DEF MergeLogMirror
<1>4. CASE Crash(p)
  BY <1>4, EndingStep DEF Crash
<1> QED BY <1>1, <1>2, <1>3, <1>4

(* failCreate saves, and the command unlocks. *)
LEMMA FailingStep ==
  ASSUME WriteInv, LockInv, NEW p \in Procs, pc[p] \in Holding, FailCreate(p),
         UNCHANGED <<lockVars, cmd>>
  PROVE  WriteInv'
<1>1. Goes(p)
  BY DEF FailCreate, Goto, WriteInv, WriteTypes, Goes, Steps, Inside, Holding,
         Creating, Destroying
<1> QED BY <1>1, SavingStep DEF FailCreate

LEMMA CreatingSteps ==
  ASSUME WriteInv, LockInv, NEW p \in Procs,
         Adopt(p) \/ ListMembers(p) \/ Boot(p) \/ ForgetEarlierLife(p)
            \/ ConfigureMember(p) \/ Orchestrate(p)
  PROVE  WriteInv'
<1> USE DEF Inside, Holding, Steps, Creating, Destroying, At, Goto
<1>1. CASE Adopt(p)
  <2>1. UNCHANGED <<lockVars, cmd>> /\ pc[p] = "adopt"
    BY <1>1 DEF Adopt
  <2>2. \/ Goto(p, "unlock") /\ UNCHANGED <<fresh, lost>>
        \/ Goto(p, "list") /\ fresh' = [fresh EXCEPT ![p] = TRUE] /\ UNCHANGED lost
    BY <1>1 DEF Adopt, recordVars, Loaded
  <2>3. CASE Goto(p, "unlock") /\ UNCHANGED <<fresh, lost>>
    BY <2>1, <2>3, QuietStep DEF WriteInv, WriteTypes, Goes
  <2> QED BY <2>1, <2>2, <2>3, LoadingStep
<1>2. CASE ListMembers(p)
  <2>1. UNCHANGED <<lockVars, cmd>> /\ pc[p] = "list"
    BY <1>2 DEF ListMembers
  <2>2. /\ \E s \in {"boot", "unlock"} : Goto(p, s)
        /\ UNCHANGED <<fresh, lost>> \/ \E r : Save(p, r)
    BY <1>2 DEF ListMembers, recordVars
  <2>3. Goes(p)
    BY <2>1, <2>2 DEF WriteInv, WriteTypes, Goes
  <2> QED BY <2>1, <2>2, <2>3, QuietStep, SavingStep
<1>3. CASE Boot(p)
  <2>1. UNCHANGED <<lockVars, cmd>> /\ pc[p] = "boot"
    BY <1>3 DEF Boot
  <2>2. \/ UNCHANGED <<fresh, lost>> /\ \E s \in {"configure", "forget"} : Goto(p, s)
        \/ FailCreate(p)
    BY <1>3 DEF Boot, recordVars
  <2>3. ASSUME NEW s \in {"configure", "forget"}, Goto(p, s) PROVE Goes(p)
    BY <2>1, <2>3 DEF WriteInv, WriteTypes, Goes
  <2> QED BY <2>1, <2>2, <2>3, QuietStep, FailingStep
<1>4. CASE ForgetEarlierLife(p)
  <2>1. UNCHANGED <<lockVars, cmd>> /\ pc[p] = "forget"
    BY <1>4 DEF ForgetEarlierLife
  <2>2. (UNCHANGED <<fresh, lost>> /\ Goto(p, "configure")) \/ FailCreate(p)
    BY <1>4 DEF ForgetEarlierLife, recordVars
  <2>3. ASSUME Goto(p, "configure") PROVE Goes(p)
    BY <2>1, <2>3 DEF WriteInv, WriteTypes, Goes
  <2> QED BY <2>1, <2>2, <2>3, QuietStep, FailingStep
<1>5. CASE ConfigureMember(p)
  <2>1. UNCHANGED <<lockVars, cmd>> /\ pc[p] = "configure"
    BY <1>5 DEF ConfigureMember
  <2>2. \/ (\E r : Save(p, r)) /\ \E s \in {"boot", "orchestrate"} : Goto(p, s)
        \/ FailCreate(p)
    BY <1>5 DEF ConfigureMember
  <2>3. ASSUME NEW s \in {"boot", "orchestrate"}, Goto(p, s) PROVE Goes(p)
    BY <2>1, <2>3 DEF WriteInv, WriteTypes, Goes
  <2> QED BY <2>1, <2>2, <2>3, SavingStep, FailingStep
<1>6. CASE Orchestrate(p)
  <2>1. UNCHANGED <<lockVars, cmd>> /\ pc[p] = "orchestrate"
    BY <1>6 DEF Orchestrate
  <2>2. (UNCHANGED <<fresh, lost>> /\ Goto(p, "readback")) \/ FailCreate(p)
    BY <1>6 DEF Orchestrate, recordVars
  <2>3. ASSUME Goto(p, "readback") PROVE Goes(p)
    BY <2>1, <2>3 DEF WriteInv, WriteTypes, Goes
  <2> QED BY <2>1, <2>2, <2>3, QuietStep, FailingStep
<1> QED BY <1>1, <1>2, <1>3, <1>4, <1>5, <1>6

LEMMA ReadbackSteps ==
  ASSUME WriteInv, LockInv, NEW p \in Procs, Readback(p) PROVE WriteInv'
<1>1. ASSUME NEW m \in Members,
             KeepReadback(p, m) \/ AskReadback(p, m) \/ CannotAsk(p, m)
                \/ JudgeReadback(p, m) \/ GiveUp(p, m)
      PROVE  WriteInv'
  <2>1. UNCHANGED <<lockVars, cmd, pc, fresh, lost>>
    BY <1>1 DEF KeepReadback, AskReadback, CannotAsk, JudgeReadback, GiveUp,
                ReadbackUnchanged, recordVars
  <2>2. Goes(p)
    BY <2>1 DEF WriteInv, WriteTypes, Goes
  <2> QED BY <2>1, <2>2, QuietStep
<1>2. CASE RecordReadbacks(p)
  <2>1. /\ UNCHANGED <<lockVars, cmd>> /\ pc[p] = "readback"
        /\ \E r : Save(p, r)
        /\ \E s \in {"manifest", "unlock"} : Goto(p, s)
    BY <1>2 DEF RecordReadbacks, At
  <2>2. Goes(p)
    BY <2>1 DEF WriteInv, WriteTypes, Goes, Goto, Inside, Holding, Steps, Creating, Destroying
  <2>3. pc[p] \in Holding
    BY <2>1 DEF Inside, Holding, Creating
  <2> QED BY <2>1, <2>2, <2>3, SavingStep
<1> QED BY <1>1, <1>2 DEF Readback

LEMMA FinishingSteps ==
  ASSUME WriteInv, LockInv, NEW p \in Procs,
         RecordOnOrchestrator(p) \/ OpenMission(p) \/ StartMission(p) \/ FinishCreate(p)
  PROVE  WriteInv'
<1> USE DEF Inside, Holding, Steps, Creating, Destroying, At, Goto
<1>1. /\ UNCHANGED <<lockVars, cmd>>
      /\ pc[p] \in {"manifest", "mission", "turn", "finish"}
  BY DEF RecordOnOrchestrator, OpenMission, StartMission, FinishCreate, OnOrchestrator
<1>2. \/ UNCHANGED <<fresh, lost>> /\ \E s \in {"mission", "turn", "finish"} : Goto(p, s)
      \/ FailCreate(p)
      \/ (\E r : Save(p, r)) /\ Goto(p, "unlock")
  BY DEF RecordOnOrchestrator, OpenMission, StartMission, FinishCreate, FailsThere, recordVars
<1>3. ASSUME NEW s \in {"mission", "turn", "finish", "unlock"}, Goto(p, s) PROVE Goes(p)
  BY <1>1, <1>3 DEF WriteInv, WriteTypes, Goes
<1> QED BY <1>1, <1>2, <1>3, QuietStep, SavingStep, FailingStep

LEMMA DestroyingSteps ==
  ASSUME WriteInv, LockInv, NEW p \in Procs, Destroy(p) PROVE WriteInv'
<1> USE DEF Inside, Holding, Steps, Creating, Destroying, At, Goto
<1>1. CASE LoadToDestroy(p)
  <2>1. /\ UNCHANGED <<lockVars, cmd, lost>> /\ pc[p] = "load"
        /\ fresh' = [fresh EXCEPT ![p] = TRUE]
        /\ \E s \in {"unlock", "archive", "scan"} : Goto(p, s)
    BY <1>1 DEF LoadToDestroy, Loaded
  <2> QED BY <2>1, LoadingStep
<1>2. CASE ArchiveMember(p) \/ ScanMembers(p) \/ RemoveMember(p) \/ VerifyGone(p)
  <2>1. /\ UNCHANGED <<lockVars, cmd, fresh, lost>>
        /\ pc[p] \in {"archive", "scan", "remove"}
    BY <1>2 DEF ArchiveMember, ScanMembers, RemoveMember, VerifyGone, recordVars
  <2>2. \/ UNCHANGED pc
        \/ \E s \in {"scan", "unlock", "remove", "delete"} : Goto(p, s)
    BY <1>2 DEF ArchiveMember, ScanMembers, RemoveMember, VerifyGone, AfterArchive
  <2>3. Goes(p)
    BY <2>1, <2>2 DEF WriteInv, WriteTypes, Goes
  <2> QED BY <2>1, <2>3, QuietStep
<1>3. CASE DeleteRecord(p)
  <2>1. /\ pc[p] = "delete" /\ pc' = [pc EXCEPT ![p] = "unlock"]
        /\ UNCHANGED cmd
        /\ Save(p, NoRecord)
        /\ LockUnlink(p)
    BY <1>3 DEF DeleteRecord
  <2>2. /\ \A q \in Procs \ {p} : phase'[q] = phase[q]
        /\ raced => raced'
    BY <2>1 DEF LockUnlink, LockInv, LockTypeOK
  <2>3. \A q \in Procs : q # p /\ pc[q] \in Holding => raced
    BY <2>1, WorkingExclusive DEF WriteInv, ExclusiveUnlessUnlinked, Working
  <2>4. WriteTypes'
    BY <2>1 DEF WriteInv, WriteTypes, Save
  <2>5. lost' => raced'
    BY <2>1, <2>2 DEF WriteInv, Save
  <2>6. \A q \in Procs : pc'[q] \in Holding => fresh'[q] \/ raced'
    BY <2>1, <2>2, <2>3 DEF WriteInv, WriteTypes, Save
  <2>7. \A q \in Procs : pc'[q] \in Inside => phase'[q] = "inside"
    BY <2>1, <2>2 DEF WriteInv, WriteTypes
  <2>8. \A q \in Procs : pc'[q] \in {"lock", "relock"} => cmd'[q] \in Locking
    BY <2>1 DEF WriteInv, WriteTypes
  <2> QED BY <2>4, <2>5, <2>6, <2>7, <2>8 DEF WriteInv
<1> QED BY <1>1, <1>2, <1>3 DEF Destroy

LEMMA DoctorSteps ==
  ASSUME WriteInv, LockInv, NEW p \in Procs, Reload(p) \/ SaveHarness(p) PROVE WriteInv'
<1> USE DEF Inside, Holding, Steps, Creating, Destroying, At, Goto
<1>1. CASE Reload(p)
  <2>1. /\ UNCHANGED <<lockVars, cmd, lost>> /\ pc[p] = "reload"
        /\ fresh' = [fresh EXCEPT ![p] = TRUE]
        /\ \E s \in {"unlock", "journal"} : Goto(p, s)
    BY <1>1 DEF Reload, Loaded
  <2> QED BY <2>1, LoadingStep
<1>2. CASE SaveHarness(p)
  <2>1. /\ UNCHANGED <<lockVars, cmd>> /\ pc[p] = "journal" /\ Goto(p, "unlock")
        /\ \E r : Save(p, r)
    BY <1>2 DEF SaveHarness
  <2>2. Goes(p)
    BY <2>1 DEF WriteInv, WriteTypes, Goes
  <2> QED BY <2>1, <2>2, SavingStep
<1> QED BY <1>1, <1>2

(* What happens on the machines is no command's step. *)
LEMMA OutsideSteps ==
  ASSUME WriteInv,
         UNCHANGED <<lockVars, pc, cmd, fresh, lost>>
  PROVE  WriteInv'
BY DEF WriteInv, WriteTypes, lockVars

LEMMA WriteStep == WriteInv /\ LockInv /\ [Next]_vars => WriteInv'
<1> SUFFICES ASSUME WriteInv, LockInv, [Next]_vars PROVE WriteInv'
  OBVIOUS
<1>1. CASE UNCHANGED vars
  BY <1>1, OutsideSteps DEF vars, procVars
<1>2. ASSUME NEW p \in Procs, Step(p) PROVE WriteInv'
  BY <1>2, LockingSteps, StartingSteps, CreatingSteps, ReadbackSteps, FinishingSteps,
     DestroyingSteps, DoctorSteps DEF Step, Create, Doctor
<1>3. ASSUME NEW p \in Procs, NEW m \in Members, RestartReadback(p, m) PROVE WriteInv'
  BY <1>3, OutsideSteps DEF RestartReadback, ReadbackUnchanged, recordVars
<1>4. ASSUME NEW m \in Members, MemberAnswers(m) \/ MachineLost(m) PROVE WriteInv'
  BY <1>4, OutsideSteps DEF MemberAnswers, MachineLost, recordVars, procVars
<1>5. CASE OrchestratorLogs
  BY <1>5, OutsideSteps DEF OrchestratorLogs, recordVars, procVars
<1> QED BY <1>1, <1>2, <1>3, <1>4, <1>5, StartingSteps, LockingSteps DEF Next

LEMMA WriteInit == Init => WriteInv
BY DEF Init, WriteInv, WriteTypes, Steps, Inside, Holding, Locking, Creating, Destroying

(* No command's save drops what another command saved since it loaded the  *)
(* record (R101), until a destroy unlinks the lock under a waiter.         *)
THEOREM NoLostWriteHolds == Spec => []NoLostWrite
<1>1. Init => LockInv
  BY LockInitInv DEF Init
<1>2. LockInv /\ [Next]_vars => LockInv'
  BY LockStep, LockStepInv
<1>3. WriteInv => NoLostWrite
  BY DEF WriteInv, NoLostWrite
<1> QED BY <1>1, <1>2, <1>3, WriteInit, WriteStep, PTL DEF Spec

-----------------------------------------------------------------------------
(* Every variable keeps its type, the lock's and everybody's.              *)
Typed == LockInv /\ WriteInv /\ CampaignTypeOK /\ ArchivingOne

LEMMA TypedInit == Init => Typed
BY LockInitInv, WriteInit, TypeInit DEF Init, Typed

LEMMA TypedStep == Typed /\ [Next]_vars => Typed'
<1> SUFFICES ASSUME Typed, [Next]_vars PROVE Typed'
  OBVIOUS
<1>1. \A p \in Procs : At(p, "lock") => cmd[p] \in {"create", "destroy", "doctor"}
  BY DEF Typed, WriteInv, At, Locking
<1>2. LockInv' /\ WriteInv'
  BY LockStep, LockStepInv, WriteStep DEF Typed
<1> QED BY <1>1, <1>2, TypeStep, ArchivingStep DEF Typed

(* Every variable of the campaign keeps its type; who is at a point inside  *)
(* the lock holds it, and has the record as it stands, unless raced.       *)
THEOREM TypedHolds == Spec => []Typed
BY TypedInit, TypedStep, PTL DEF Spec

(* The type invariant: what the commands write is what they may write.     *)
THEOREM TypeOKHolds == Spec => []TypeOK
<1>1. Typed => TypeOK
  BY DEF Typed, TypeOK, LockInv
<1> QED BY <1>1, TypedHolds, PTL

-----------------------------------------------------------------------------
(* NoOrphans.  Whoever makes machines holds a copy that names the campaign *)
(* the store's record names, and whoever deletes the record has seen that  *)
(* no machine is left; until a race each is alone inside the lock.         *)
Making == (Creating \ {"adopt", "list"}) \cup {"journal"}

OwnInv ==
  /\ \A m \in Members : Present(m) => machine[m].born = record.camp
  /\ record.camp = 0 => record = NoRecord /\ \A m \in Members : ~Present(m)
  /\ \A p \in Procs : pc[p] = "list" =>
        copy[p].camp # 0 /\ record.camp \in {0, copy[p].camp}
  /\ \A p \in Procs : pc[p] \in Making => copy[p].camp # 0 /\ record.camp = copy[p].camp
  /\ \A p \in Procs : pc[p] = "delete" => \A m \in Members : ~Present(m)

(* The process p went on; no machine appeared and none changed campaigns.  *)
OnlyMoves(p) ==
  /\ \A q \in Procs \ {p} : pc'[q] = pc[q] /\ copy'[q] = copy[q]
  /\ \A m \in Members : Present(m)' => Present(m) /\ machine'[m].born = machine[m].born

(* Most steps also leave the campaign's number where it was. *)
Tame(p) ==
  /\ OnlyMoves(p)
  /\ record' = record \/ (record'.camp = record.camp /\ record.camp # 0)
  /\ pc'[p] \notin {"list", "delete"}
  /\ pc'[p] \in Making => pc[p] \in Making /\ copy'[p].camp = copy[p].camp

LEMMA TameStep == ASSUME OwnInv, NEW p \in Procs, Tame(p) PROVE OwnInv'
BY DEF OwnInv, Tame, OnlyMoves

(* Inside the lock a process is alone. *)
LEMMA Alone ==
  ASSUME Typed, ~raced, NEW p \in Procs, NEW q \in Procs,
         pc[p] \in Inside, pc[q] \in Inside
  PROVE  p = q
BY WorkingExclusive DEF Typed, WriteInv, ExclusiveUnlessUnlinked, Working

(* The machines are not touched, or changed in place. *)
LEMMA SameMachines ==
  ASSUME UNCHANGED machine, NEW m \in Members, Present(m)'
  PROVE  Present(m) /\ machine'[m].born = machine[m].born
BY DEF Present

LEMMA ConfiguredBorn ==
  ASSUME Typed, NEW k \in Members, NEW mc \in MachineValues,
         mc.boot = machine[k].boot, mc.born = machine[k].born,
         machine' = [machine EXCEPT ![k] = mc]
  PROVE  \A m \in Members : Present(m)' => Present(m) /\ machine'[m].born = machine[m].born
BY DEF Typed, CampaignTypeOK, GuestTypeOK, Present, Up

LEMMA GoneBorn ==
  ASSUME Typed, NEW k \in Members, machine' = [machine EXCEPT ![k] = NoMachine]
  PROVE  \A m \in Members : Present(m)' => Present(m) /\ machine'[m].born = machine[m].born
BY DEF Typed, CampaignTypeOK, GuestTypeOK, Present, Up, NoMachine

(* What is done to a machine in place leaves it the machine it was.        *)
LEMMA InPlace ==
  ASSUME NEW mc \in MachineValues
  PROVE  /\ \A b \in BriefOrNone : Configured(mc, b).boot = mc.boot
                                   /\ Configured(mc, b).born = mc.born
         /\ Asked(mc).boot = mc.boot /\ Asked(mc).born = mc.born
         /\ Turned(mc).boot = mc.boot /\ Turned(mc).born = mc.born
         /\ \A r \in [Members -> Readbacks] : Manifested(mc, r).boot = mc.boot
                                              /\ Manifested(mc, r).born = mc.born
BY DEF Configured, Asked, Turned, Manifested, MachineValues

(* A command's step that saves what it holds, or nothing, and goes on.     *)
LEMMA MakingStep ==
  ASSUME Typed, OwnInv, NEW p \in Procs, pc[p] \in Making,
         NEW s \in Steps \ {"list", "delete"}, Goto(p, s),
         NEW r \in RecordValues, r.camp = copy[p].camp,
         copy' = [copy EXCEPT ![p] = r] \/ UNCHANGED copy,
         UNCHANGED record \/ \E w \in RecordValues : w.camp = copy[p].camp /\ Save(p, w),
         \A m \in Members : Present(m)' => Present(m) /\ machine'[m].born = machine[m].born
  PROVE  OwnInv'
<1>1. OnlyMoves(p) /\ copy'[p].camp = copy[p].camp /\ pc'[p] = s
  BY DEF OnlyMoves, Goto, Typed, CampaignTypeOK, ProcTypeOK
<1>2. record' = record \/ (record'.camp = record.camp /\ record.camp # 0)
  BY DEF OwnInv, Save
<1> QED BY <1>1, <1>2, TameStep DEF Tame

LEMMA FailingOwn ==
  ASSUME Typed, OwnInv, NEW p \in Procs, pc[p] \in Making, FailCreate(p),
         UNCHANGED <<machine, copy>>
  PROVE  OwnInv'
<1>1. /\ copy[p] \in RecordValues
      /\ [copy[p] EXCEPT !.state = "create-failed"] \in RecordValues
      /\ [copy[p] EXCEPT !.state = "create-failed"].camp = copy[p].camp
  BY DEF Typed, CampaignTypeOK, ProcTypeOK, RecordValues
<1>2. "unlock" \in Steps \ {"list", "delete"}
  BY DEF Steps
<1> QED BY <1>1, <1>2, MakingStep, SameMachines DEF FailCreate

LEMMA AdoptOwn ==
  ASSUME Typed, OwnInv, NEW p \in Procs, Adopt(p) PROVE OwnInv'
<1> USE DEF At, Goto, Making, Creating, Steps, Inside
<1>1. UNCHANGED machine /\ pc[p] = "adopt" /\ UNCHANGED record
  BY DEF Adopt, recordVars, Loaded
<1>2. CASE Goto(p, "unlock") /\ UNCHANGED copy
  BY <1>1, <1>2, TameStep, SameMachines DEF Tame, OnlyMoves, Typed, CampaignTypeOK, ProcTypeOK
<1>3. CASE Goto(p, "list") /\ record.state \in Resumable /\ Loaded(p)
  <2>1. copy'[p] = record /\ \A q \in Procs \ {p} : copy'[q] = copy[q] /\ pc'[q] = pc[q]
    BY <1>3 DEF Loaded, Typed, CampaignTypeOK, ProcTypeOK
  <2>2. record.camp # 0
    BY <1>3 DEF OwnInv, NoRecord, Resumable
  <2>3. pc'[p] = "list"
    BY <1>3 DEF Typed, CampaignTypeOK, ProcTypeOK
  <2> QED BY <1>1, <2>1, <2>2, <2>3 DEF OwnInv, Present
<1>4. CASE /\ ~Recorded
           /\ bounds' = [bounds EXCEPT !.camps = @ + 1]
           /\ copy' = [copy EXCEPT ![p] = Planned(bounds'.camps)]
           /\ Goto(p, "list")
  <2>1. bounds'.camps = bounds.camps + 1 /\ bounds.camps \in Nat
    BY <1>4, BoundsArePositive DEF Typed, CampaignTypeOK, CountTypeOK
  <2>2. copy'[p].camp # 0 /\ \A q \in Procs \ {p} : copy'[q] = copy[q] /\ pc'[q] = pc[q]
    <3>1. Planned(bounds'.camps).camp = bounds'.camps
      BY DEF Planned, NoRecord
    <3> QED BY <1>4, <2>1, <3>1 DEF Typed, CampaignTypeOK, ProcTypeOK
  <2>3. record.camp = 0
    BY <1>4 DEF Recorded, NoRecord
  <2>4. pc'[p] = "list"
    BY <1>4 DEF Typed, CampaignTypeOK, ProcTypeOK
  <2> QED BY <1>1, <2>2, <2>3, <2>4 DEF OwnInv, Present
<1> QED BY <1>2, <1>3, <1>4 DEF Adopt

LEMMA ListOwn ==
  ASSUME Typed, OwnInv, ~raced, NEW p \in Procs, ListMembers(p) PROVE OwnInv'
<1> USE DEF At, Goto
<1>1. UNCHANGED machine /\ pc[p] = "list"
  BY DEF ListMembers
<1>2. \A q \in Procs \ {p} : pc[q] \notin Making \cup {"list", "delete"}
  BY <1>1, Alone DEF Making, Inside, Creating, Destroying
<1>3. CASE /\ copy' = [copy EXCEPT ![p].state = "creating"]
           /\ Save(p, copy'[p])
           /\ Goto(p, "boot")
  <2>1. /\ copy'[p].camp = copy[p].camp /\ record' = copy'[p] /\ pc'[p] = "boot"
        /\ \A q \in Procs \ {p} : copy'[q] = copy[q] /\ pc'[q] = pc[q]
    BY <1>3 DEF Save, Typed, CampaignTypeOK, ProcTypeOK, RecordValues
  <2>2. \A m \in Members : Present(m) => machine[m].born = copy[p].camp
    BY <1>1 DEF OwnInv
  <2> QED BY <1>1, <1>2, <2>1, <2>2 DEF OwnInv, Present
<1>4. CASE Goto(p, "unlock") /\ UNCHANGED <<recordVars, copy>>
  BY <1>1, <1>4, TameStep, SameMachines
     DEF Tame, OnlyMoves, Making, Creating, recordVars, Typed, CampaignTypeOK, ProcTypeOK
<1> QED BY <1>3, <1>4 DEF ListMembers

LEMMA BootOwn ==
  ASSUME Typed, OwnInv, ~raced, NEW p \in Procs, Boot(p) PROVE OwnInv'
<1> USE DEF At, Goto
<1>1. UNCHANGED copy /\ pc[p] = "boot" /\ copy[p] \in RecordValues
  BY DEF Boot, Typed, CampaignTypeOK, ProcTypeOK
<1>2. pc[p] \in Making
  BY <1>1 DEF Making, Creating
<1>3. \A q \in Procs \ {p} : pc[q] \notin Making \cup {"list", "delete"}
  BY <1>1, Alone DEF Making, Inside, Creating, Destroying
<1>4. CASE Goto(p, "configure") /\ UNCHANGED <<recordVars, machine>>
  BY <1>1, <1>2, <1>4, TameStep, SameMachines
     DEF Tame, OnlyMoves, Making, Creating, recordVars, Typed, CampaignTypeOK, ProcTypeOK
<1>5. CASE /\ machine' = [machine EXCEPT ![MemberAt(p)] = Booted(bounds'.boots, copy[p].camp)]
           /\ (Goto(p, "forget") /\ UNCHANGED recordVars) \/ FailCreate(p)
  <2>1. Booted(bounds'.boots, copy[p].camp).born = copy[p].camp
    BY DEF Booted, NoMachine
  <2>2. record.camp # 0 /\ record.camp = copy[p].camp
    BY <1>2 DEF OwnInv
  <2>3. \A m \in Members : Present(m)' => machine'[m].born = record.camp
    <3>1. \A m \in Members : machine'[m] = machine[m] \/ machine'[m].born = record.camp
      BY <1>5, <2>1, <2>2 DEF Typed, CampaignTypeOK, GuestTypeOK
    <3> QED BY <3>1 DEF OwnInv, Present
  <2>4. /\ record'.camp = record.camp
        /\ pc'[p] \in {"forget", "unlock"} /\ \A q \in Procs \ {p} : pc'[q] = pc[q]
    <3>1. pc \in [Procs -> Steps] /\ copy[p].camp = record.camp
      BY <2>2 DEF Typed, WriteInv, WriteTypes
    <3>2. [copy[p] EXCEPT !.state = "create-failed"].camp = copy[p].camp
      BY <1>1 DEF RecordValues
    <3> QED BY <1>5, <3>1, <3>2 DEF recordVars, FailCreate, Save
  <2> QED BY <1>1, <1>3, <2>2, <2>3, <2>4 DEF OwnInv, Making, Creating
<1>6. CASE FailCreate(p) /\ UNCHANGED machine
  BY <1>1, <1>2, <1>6, FailingOwn
<1> QED BY <1>4, <1>5, <1>6 DEF Boot

LEMMA ProvisionOwn ==
  ASSUME Typed, OwnInv, NEW p \in Procs,
         ForgetEarlierLife(p) \/ ConfigureMember(p) \/ Orchestrate(p)
  PROVE  OwnInv'
<1> USE DEF At
<1>0. copy[p] \in RecordValues /\ "configure" \in Steps \ {"list", "delete"}
      /\ "boot" \in Steps \ {"list", "delete"} /\ "orchestrate" \in Steps \ {"list", "delete"}
      /\ "readback" \in Steps \ {"list", "delete"}
  BY DEF Typed, CampaignTypeOK, ProcTypeOK, Steps, Inside, Creating
<1>1. CASE ForgetEarlierLife(p)
  <2>1. UNCHANGED <<machine, copy>> /\ pc[p] \in Making
    BY <1>1 DEF ForgetEarlierLife, Making, Creating
  <2>2. CASE Goto(p, "configure") /\ UNCHANGED recordVars
    BY <1>0, <2>1, <2>2, MakingStep, SameMachines DEF recordVars
  <2> QED BY <1>1, <2>1, <2>2, FailingOwn DEF ForgetEarlierLife
<1>2. CASE ConfigureMember(p)
  <2>1. pc[p] \in Making
    BY <1>2 DEF ConfigureMember, Making, Creating
  <2>2. CASE FailCreate(p) /\ UNCHANGED <<machine, copy>>
    BY <2>1, <2>2, FailingOwn
  <2>3. CASE /\ Present(MemberAt(p))
             /\ machine' = [machine EXCEPT ![MemberAt(p)] = Configured(@, work[p].brief)]
             /\ copy' = [copy EXCEPT ![p].seeded[MemberAt(p)] = work[p].brief]
             /\ Save(p, copy'[p])
             /\ \E s \in {"boot", "orchestrate"} : Goto(p, s)
    <3> DEFINE r == [copy[p] EXCEPT !.seeded[MemberAt(p)] = work[p].brief]
    <3>1. work[p].brief \in BriefOrNone
      BY DEF Typed, CampaignTypeOK, ProcTypeOK, WorkValues
    <3>2. r \in RecordValues /\ r.camp = copy[p].camp
      BY <1>0, <3>1 DEF RecordValues
    <3>3. copy' = [copy EXCEPT ![p] = r] /\ copy'[p] = r
      BY <2>3 DEF Typed, CampaignTypeOK, ProcTypeOK
    <3>4. \A m \in Members : Present(m)' => Present(m) /\ machine'[m].born = machine[m].born
      <4>1. CASE MemberAt(p) \in Members
        <5> DEFINE k == MemberAt(p)
        <5>1. machine[k] \in MachineValues
          BY <4>1 DEF Typed, CampaignTypeOK, GuestTypeOK
        <5>2. Configured(machine[k], work[p].brief) \in MachineValues
          BY <3>1, <5>1, ConfiguredType
        <5>3. /\ Configured(machine[k], work[p].brief).boot = machine[k].boot
              /\ Configured(machine[k], work[p].brief).born = machine[k].born
          BY <3>1, <5>1, InPlace
        <5>4. machine' = [machine EXCEPT ![k] = Configured(machine[k], work[p].brief)]
          BY <2>3
        <5> HIDE DEF k
        <5> QED BY <4>1, <5>2, <5>3, <5>4, ConfiguredBorn DEF k
      <4>2. CASE MemberAt(p) \notin Members
        BY <2>3, <4>2 DEF Typed, CampaignTypeOK, GuestTypeOK, Present
      <4> QED BY <4>1, <4>2
    <3> HIDE DEF r
    <3> QED BY <1>0, <2>1, <2>3, <3>2, <3>3, <3>4, MakingStep
  <2> QED BY <1>2, <2>2, <2>3 DEF ConfigureMember
<1>3. CASE Orchestrate(p)
  <2>1. pc[p] \in Making
    BY <1>3 DEF Orchestrate, Making, Creating
  <2>2. CASE FailCreate(p) /\ UNCHANGED <<machine, copy>>
    BY <2>1, <2>2, FailingOwn
  <2>3. CASE /\ machine' = [machine EXCEPT ![Orchestrator] = Manifested(@, copy[p].readback)]
             /\ copy' = [copy EXCEPT ![p].harness = TRUE]
             /\ Goto(p, "readback")
             /\ UNCHANGED recordVars
    <3> DEFINE r == [copy[p] EXCEPT !.harness = TRUE]
    <3>1. r \in RecordValues /\ r.camp = copy[p].camp /\ copy[p].readback \in [Members -> Readbacks]
      BY <1>0 DEF RecordValues
    <3>2. copy' = [copy EXCEPT ![p] = r] /\ record' = record
      BY <2>3 DEF recordVars
    <3>3. \A m \in Members : Present(m)' => Present(m) /\ machine'[m].born = machine[m].born
      <4> DEFINE mc == machine[Orchestrator]
      <4>1. mc \in MachineValues
        BY OrchestratorIsMember DEF Typed, CampaignTypeOK, GuestTypeOK
      <4>2. /\ Manifested(mc, copy[p].readback) \in MachineValues
            /\ Manifested(mc, copy[p].readback).boot = mc.boot
            /\ Manifested(mc, copy[p].readback).born = mc.born
        BY <3>1, <4>1, ManifestedType, InPlace
      <4> QED BY <2>3, <4>2, ConfiguredBorn, OrchestratorIsMember
    <3> HIDE DEF r
    <3> QED BY <1>0, <2>1, <2>3, <3>1, <3>2, <3>3, MakingStep
  <2> QED BY <1>3, <2>2, <2>3 DEF Orchestrate
<1> QED BY <1>1, <1>2, <1>3

(* A turn on a machine leaves it the machine it was. *)
LEMMA TurnBorn ==
  ASSUME Typed, NEW m \in Members, NEW wait \in MachineValues, NEW run \in MachineValues,
         wait.boot = machine[m].boot, wait.born = machine[m].born,
         run.boot = machine[m].boot, run.born = machine[m].born,
         StartTurn(m, wait, run)
  PROVE  \A k \in Members : Present(k)' => Present(k) /\ machine'[k].born = machine[k].born
BY ConfiguredBorn DEF StartTurn

LEMMA ReadbackOwn ==
  ASSUME Typed, OwnInv, NEW p \in Procs, NEW m \in Members,
         KeepReadback(p, m) \/ AskReadback(p, m) \/ CannotAsk(p, m)
            \/ JudgeReadback(p, m) \/ RestartReadback(p, m) \/ GiveUp(p, m)
  PROVE  OwnInv'
<1>1. UNCHANGED <<pc, copy, record>> /\ pc[p] \in Making /\ pc[p] \notin {"list", "delete"}
  BY DEF KeepReadback, AskReadback, CannotAsk, JudgeReadback, RestartReadback, GiveUp,
         Unanswered, ReadbackUnchanged, recordVars, StageIs, At, Making, Creating
<1>2. machine[m] \in MachineValues
  BY DEF Typed, CampaignTypeOK, GuestTypeOK
<1>3. \A k \in Members : Present(k)' => Present(k) /\ machine'[k].born = machine[k].born
  <2>1. CASE UNCHANGED machine
    BY <2>1, SameMachines
  <2>2. CASE AskReadback(p, m)
    <3>1. Asked(machine[m]) \in MachineValues /\ Turned(Asked(machine[m])) \in MachineValues
      BY <1>2, <2>2, AskedType, TurnedType DEF AskReadback
    <3>2. /\ Asked(machine[m]).boot = machine[m].boot
          /\ Asked(machine[m]).born = machine[m].born
          /\ Turned(Asked(machine[m])).boot = machine[m].boot
          /\ Turned(Asked(machine[m])).born = machine[m].born
      BY <1>2, <3>1, InPlace
    <3>3. CASE StartTurn(m, Asked(machine[m]), Turned(Asked(machine[m])))
      BY <3>1, <3>2, <3>3, TurnBorn
    <3>4. CASE machine' = [machine EXCEPT ![m] = Asked(@)]
      BY <3>1, <3>2, <3>4, ConfiguredBorn
    <3> QED BY <2>2, <3>3, <3>4 DEF AskReadback
  <2>3. CASE RestartReadback(p, m)
    BY <1>2, <2>3, InPlace, TurnedType, ConfiguredBorn DEF RestartReadback
  <2> QED BY <2>1, <2>2, <2>3 DEF KeepReadback, CannotAsk, JudgeReadback, GiveUp
<1> QED BY <1>1, <1>3, TameStep DEF Tame, OnlyMoves

LEMMA RecordOwn ==
  ASSUME Typed, OwnInv, NEW p \in Procs, RecordReadbacks(p) PROVE OwnInv'
<1> DEFINE told == [copy[p] EXCEPT !.readback = [m \in Members |->
                      IF work[p].stage[m] = "bad" THEN @[m] ELSE work[p].report[m]]]
           failed == [told EXCEPT !.state = "create-failed"]
<1>1. copy[p] \in RecordValues /\ work[p] \in WorkValues
  BY DEF Typed, CampaignTypeOK, ProcTypeOK
<1>2. [m \in Members |-> IF work[p].stage[m] = "bad" THEN copy[p].readback[m]
                                                     ELSE work[p].report[m]]
         \in [Members -> Readbacks]
  BY <1>1 DEF RecordValues, WorkValues
<1>3. /\ told \in RecordValues /\ told.camp = copy[p].camp
      /\ failed \in RecordValues /\ failed.camp = copy[p].camp
  BY <1>1, <1>2 DEF RecordValues
<1>4. /\ copy' = [copy EXCEPT ![p] = told]
      /\ Save(p, told) \/ Save(p, failed)
      /\ \E s \in {"manifest", "unlock"} : Goto(p, s)
      /\ UNCHANGED machine
      /\ pc[p] = "readback"
  BY DEF RecordReadbacks, At
<1>5. pc[p] \in Making
  BY <1>4 DEF Making, Creating
<1>6. "manifest" \in Steps \ {"list", "delete"} /\ "unlock" \in Steps \ {"list", "delete"}
  BY DEF Steps, Inside, Creating
<1> HIDE DEF told, failed
<1> QED BY <1>3, <1>4, <1>5, <1>6, MakingStep, SameMachines

LEMMA FinishOwn ==
  ASSUME Typed, OwnInv, NEW p \in Procs,
         RecordOnOrchestrator(p) \/ OpenMission(p) \/ StartMission(p) \/ FinishCreate(p)
  PROVE  OwnInv'
<1> DEFINE mc == machine[Orchestrator]
<1>1. UNCHANGED copy /\ pc[p] \in Making /\ copy[p] \in RecordValues
  BY DEF RecordOnOrchestrator, OpenMission, StartMission, FinishCreate, OnOrchestrator, At,
         Making, Creating, Typed, CampaignTypeOK, ProcTypeOK
<1>2. "mission" \in Steps \ {"list", "delete"} /\ "turn" \in Steps \ {"list", "delete"}
      /\ "finish" \in Steps \ {"list", "delete"} /\ "unlock" \in Steps \ {"list", "delete"}
  BY DEF Steps, Inside, Creating
<1>3. ASSUME NEW refused, FailsThere(p, refused) PROVE OwnInv'
  BY <1>1, <1>3, FailingOwn DEF FailsThere
<1>4. mc \in MachineValues
  BY OrchestratorIsMember DEF Typed, CampaignTypeOK, GuestTypeOK
<1>5. CASE RecordOnOrchestrator(p) /\ ~FailsThere(p, FALSE)
  <2>1. /\ machine' = [machine EXCEPT ![Orchestrator] = Manifested(@, copy[p].readback)]
        /\ Goto(p, "mission")
        /\ UNCHANGED recordVars
    BY <1>5 DEF RecordOnOrchestrator
  <2>2. copy[p].readback \in [Members -> Readbacks]
    BY <1>1 DEF RecordValues
  <2>3. \A m \in Members : Present(m)' => Present(m) /\ machine'[m].born = machine[m].born
    BY <1>4, <2>1, <2>2, ConfiguredBorn, InPlace, ManifestedType, OrchestratorIsMember
  <2> QED BY <1>1, <1>2, <2>1, <2>3, MakingStep DEF recordVars
<1>6. CASE OpenMission(p) /\ ~FailsThere(p, MissionRefused(mc))
  <2>1. /\ machine' = [machine EXCEPT ![Orchestrator] = [mc EXCEPT !.mission = "put"]]
        /\ Goto(p, "turn")
        /\ UNCHANGED recordVars
    BY <1>6 DEF OpenMission
  <2>2. [mc EXCEPT !.mission = "put"] \in MachineValues
    BY <1>4 DEF MachineValues
  <2>3. [mc EXCEPT !.mission = "put"].boot = mc.boot
        /\ [mc EXCEPT !.mission = "put"].born = mc.born
    BY <1>4 DEF MachineValues
  <2>4. \A m \in Members : Present(m)' => Present(m) /\ machine'[m].born = machine[m].born
    BY <2>1, <2>2, <2>3, ConfiguredBorn, OrchestratorIsMember
  <2> QED BY <1>1, <1>2, <2>1, <2>4, MakingStep DEF recordVars
<1>7. CASE StartMission(p) /\ ~FailsThere(p, FALSE)
  <2> DEFINE run == [mc EXCEPT !.mission = "running"]
  <2>1. /\ StartTurn(Orchestrator, mc, run)
        /\ Goto(p, "finish")
        /\ UNCHANGED recordVars
    BY <1>7 DEF StartMission
  <2>2. run \in MachineValues /\ run.boot = mc.boot /\ run.born = mc.born
    BY <1>4 DEF MachineValues
  <2> HIDE DEF run
  <2>3. \A m \in Members : Present(m)' => Present(m) /\ machine'[m].born = machine[m].born
    BY <1>4, <2>1, <2>2, TurnBorn, OrchestratorIsMember
  <2> QED BY <1>1, <1>2, <2>1, <2>3, MakingStep DEF recordVars
<1>8. CASE FinishCreate(p)
  <2>1. UNCHANGED machine /\ Goto(p, "unlock") /\ Save(p, [copy[p] EXCEPT !.state = "created"])
    BY <1>8 DEF FinishCreate
  <2>2. /\ [copy[p] EXCEPT !.state = "created"] \in RecordValues
        /\ [copy[p] EXCEPT !.state = "created"].camp = copy[p].camp
    BY <1>1 DEF RecordValues
  <2> QED BY <1>1, <1>2, <2>1, <2>2, MakingStep, SameMachines
<1> QED BY <1>3, <1>5, <1>6, <1>7, <1>8

(* A step of a process that makes nothing, as far as OwnInv goes. *)
LEMMA IdleOwn ==
  ASSUME Typed, OwnInv, NEW p \in Procs,
         UNCHANGED record,
         UNCHANGED copy \/ \E r : copy' = [copy EXCEPT ![p] = r],
         \/ UNCHANGED pc /\ pc[p] \notin Making \cup {"list", "delete"}
         \/ \E s \in Steps \ (Making \cup {"list", "delete"}) : Goto(p, s),
         \A m \in Members : Present(m)' => Present(m) /\ machine'[m].born = machine[m].born
  PROVE  OwnInv'
<1>1. \A q \in Procs \ {p} : pc'[q] = pc[q] /\ copy'[q] = copy[q]
  BY DEF Goto, Typed, CampaignTypeOK, ProcTypeOK
<1>2. pc'[p] \notin Making \cup {"list", "delete"}
  BY DEF Goto, Typed, CampaignTypeOK, ProcTypeOK
<1> QED BY <1>1, <1>2, TameStep DEF Tame, OnlyMoves

LEMMA IdleSteps == {"idle", "lock", "relock", "reload", "merge", "unlock", "adopt", "load",
                    "archive", "scan", "remove"} \subseteq Steps \ (Making \cup {"list", "delete"})
BY DEF Steps, Inside, Making, Creating, Destroying

LEMMA DestroyOwn ==
  ASSUME Typed, OwnInv, ~raced, NEW p \in Procs, Destroy(p) PROVE OwnInv'
<1> USE IdleSteps
<1>1. CASE LoadToDestroy(p)
  <2>1. /\ UNCHANGED <<record, machine>>
        /\ \E r : copy' = [copy EXCEPT ![p] = r]
        /\ \E s \in {"unlock", "archive", "scan"} : Goto(p, s)
    BY <1>1 DEF LoadToDestroy, Loaded
  <2> QED BY <2>1, IdleOwn, SameMachines
<1>2. CASE ArchiveMember(p)
  <2>1. /\ UNCHANGED <<record, machine, copy>>
        /\ (UNCHANGED pc /\ pc[p] = "archive") \/ \E s \in {"unlock", "scan"} : Goto(p, s)
    BY <1>2 DEF ArchiveMember, At, recordVars, AfterArchive
  <2> QED BY <2>1, IdleOwn, SameMachines
<1>3. CASE ScanMembers(p)
  <2>1. /\ UNCHANGED <<record, machine, copy>>
        /\ \E s \in {"unlock", "remove"} : Goto(p, s)
    BY <1>3 DEF ScanMembers, recordVars
  <2> QED BY <2>1, IdleOwn, SameMachines
<1>4. CASE RemoveMember(p)
  <2>1. /\ UNCHANGED <<record, copy>>
        /\ (UNCHANGED pc /\ pc[p] = "remove") \/ Goto(p, "unlock")
    BY <1>4 DEF RemoveMember, At, recordVars
  <2>2. UNCHANGED machine \/ \E k : Present(k) /\ machine' = [machine EXCEPT ![k] = NoMachine]
    BY <1>4 DEF RemoveMember
  <2>3. \A m \in Members : Present(m)' => Present(m) /\ machine'[m].born = machine[m].born
    <3>1. CASE UNCHANGED machine
      BY <3>1, SameMachines
    <3>2. ASSUME NEW k \in Members, machine' = [machine EXCEPT ![k] = NoMachine]
          PROVE  \A m \in Members : Present(m)' =>
                    Present(m) /\ machine'[m].born = machine[m].born
      BY <3>2, GoneBorn
    <3>3. ASSUME NEW k, k \notin Members, machine' = [machine EXCEPT ![k] = NoMachine]
          PROVE  UNCHANGED machine
      BY <3>3 DEF Typed, CampaignTypeOK, GuestTypeOK
    <3> QED BY <2>2, <3>1, <3>2, <3>3
  <2> QED BY <2>1, <2>3, IdleOwn
<1>5. CASE VerifyGone(p)
  <2>1. UNCHANGED <<record, machine, copy>>
    BY <1>5 DEF VerifyGone, recordVars
  <2>2. CASE Goto(p, "unlock")
    BY <2>1, <2>2, IdleOwn, SameMachines
  <2>3. CASE Goto(p, "delete") /\ NoneLeft
    <3>1. pc'[p] = "delete" /\ \A q \in Procs \ {p} : pc'[q] = pc[q]
      BY <2>3 DEF Goto, Typed, CampaignTypeOK, ProcTypeOK
    <3>2. \A m \in Members : ~Present(m)
      BY <2>3 DEF NoneLeft, Standing
    <3>3. "delete" \notin Making
      BY DEF Making, Creating
    <3> QED BY <2>1, <3>1, <3>2, <3>3 DEF OwnInv, Present
  <2> QED BY <1>5, <2>2, <2>3 DEF VerifyGone
<1>6. CASE DeleteRecord(p)
  <2>1. /\ record' = NoRecord /\ Goto(p, "unlock") /\ UNCHANGED <<machine, copy>>
        /\ pc[p] = "delete"
    BY <1>6 DEF DeleteRecord, Save, At
  <2>2. \A m \in Members : ~Present(m)
    BY <2>1 DEF OwnInv
  <2>3. \A q \in Procs \ {p} : pc[q] \notin Making \cup {"list", "delete"}
    BY <2>1, Alone DEF Making, Inside, Creating, Destroying
  <2>4. pc'[p] = "unlock" /\ \A q \in Procs \ {p} : pc'[q] = pc[q]
    BY <2>1 DEF Goto, Typed, CampaignTypeOK, ProcTypeOK
  <2>5. "unlock" \notin Making
    BY DEF Making, Creating
  <2> QED BY <2>1, <2>2, <2>3, <2>4, <2>5 DEF OwnInv, Present
<1> QED BY <1>1, <1>2, <1>3, <1>4, <1>5, <1>6 DEF Destroy

LEMMA DoctorOwn ==
  ASSUME Typed, OwnInv, NEW p \in Procs, Doctor(p) PROVE OwnInv'
<1> USE IdleSteps
<1>1. CASE LockToSave(p)
  BY <1>1, IdleOwn, SameMachines DEF LockToSave, recordVars
<1>2. CASE Reload(p)
  <2>1. UNCHANGED <<record, machine>> /\ copy' = [copy EXCEPT ![p] = record]
    BY <1>2 DEF Reload, Loaded
  <2>2. CASE Goto(p, "unlock")
    BY <2>1, <2>2, IdleOwn, SameMachines
  <2>3. CASE Goto(p, "journal") /\ Recorded
    <3>1. pc'[p] = "journal" /\ copy'[p] = record
          /\ \A q \in Procs \ {p} : pc'[q] = pc[q] /\ copy'[q] = copy[q]
      BY <2>1, <2>3 DEF Goto, Typed, CampaignTypeOK, ProcTypeOK
    <3>2. record.camp # 0
      BY <2>3 DEF OwnInv, Recorded
    <3> QED BY <2>1, <3>1, <3>2 DEF OwnInv, Present
  <2> QED BY <1>2, <2>2, <2>3 DEF Reload
<1>3. CASE SaveHarness(p)
  <2>1. /\ pc[p] \in Making /\ UNCHANGED <<machine, copy>> /\ Goto(p, "unlock")
        /\ Save(p, [copy[p] EXCEPT !.harness = TRUE])
    BY <1>3 DEF SaveHarness, At, Making
  <2>2. /\ copy[p] \in RecordValues
        /\ [copy[p] EXCEPT !.harness = TRUE] \in RecordValues
        /\ [copy[p] EXCEPT !.harness = TRUE].camp = copy[p].camp
    BY DEF Typed, CampaignTypeOK, ProcTypeOK, RecordValues
  <2> QED BY <2>1, <2>2, MakingStep, SameMachines
<1> QED BY <1>1, <1>2, <1>3 DEF Doctor

LEMMA StartOwn ==
  ASSUME Typed, OwnInv, NEW p \in Procs,
         StartCreate(p) \/ StartDestroy(p) \/ StartDoctor(p) \/ StartObserve(p)
            \/ Unlock(p) \/ MergeLogMirror(p) \/ Crash(p)
  PROVE  OwnInv'
<1> USE IdleSteps
<1>1. UNCHANGED <<record, machine>>
  BY DEF StartCreate, StartDestroy, StartDoctor, StartObserve, Unlock, MergeLogMirror, Crash,
         Gone, Loaded, recordVars
<1>2. UNCHANGED copy \/ \E r : copy' = [copy EXCEPT ![p] = r]
  BY DEF StartCreate, StartDestroy, StartDoctor, StartObserve, Unlock, MergeLogMirror, Crash,
         Gone, Loaded
<1>3. \E s \in {"idle", "lock", "relock", "merge"} : Goto(p, s)
  BY DEF StartCreate, StartDestroy, StartDoctor, StartObserve, Unlock, MergeLogMirror, Crash,
         Gone, Goto
<1> QED BY <1>1, <1>2, <1>3, IdleOwn, SameMachines

LEMMA LockOwn ==
  ASSUME Typed, OwnInv, NEW p \in Procs, TakeLock(p) PROVE OwnInv'
<1>1. cmd[p] \in Locking
  BY DEF TakeLock, At, Typed, WriteInv
<1>2. \E s \in {"adopt", "load", "reload"} : Goto(p, s)
  BY <1>1 DEF TakeLock, Locking
<1> QED BY <1>2, IdleSteps, IdleOwn, SameMachines DEF TakeLock, recordVars

LEMMA OutsideOwn ==
  ASSUME Typed, OwnInv, NEW m \in Members,
         MemberAnswers(m) \/ MachineLost(m) \/ OrchestratorLogs
  PROVE  OwnInv'
<1>1. UNCHANGED <<record, pc, copy>>
  BY DEF MemberAnswers, MachineLost, OrchestratorLogs, recordVars, procVars
<1>2. machine[m] \in MachineValues /\ machine[Orchestrator] \in MachineValues
  BY OrchestratorIsMember DEF Typed, CampaignTypeOK, GuestTypeOK
<1>3. \A k \in Members : Present(k)' => Present(k) /\ machine'[k].born = machine[k].born
  <2>1. CASE MemberAnswers(m)
    <3>1. PICK a \in Answers :
             machine' = [machine EXCEPT ![m] = [machine[m] EXCEPT !.answer = a,
                            !.read = machine[m].turn, !.turn = NoBrief]]
      BY <2>1 DEF MemberAnswers
    <3> DEFINE mc == [machine[m] EXCEPT !.answer = a, !.read = machine[m].turn, !.turn = NoBrief]
    <3>2. mc \in MachineValues /\ mc.boot = machine[m].boot /\ mc.born = machine[m].born
      BY <1>2 DEF MachineValues, BriefOrNone
    <3> HIDE DEF mc
    <3> QED BY <3>1, <3>2, ConfiguredBorn DEF mc
  <2>2. CASE MachineLost(m)
    BY <2>2, GoneBorn DEF MachineLost
  <2>3. CASE OrchestratorLogs
    <3> DEFINE mc == [machine[Orchestrator] EXCEPT !.log = TRUE]
    <3>1. /\ mc \in MachineValues
          /\ mc.boot = machine[Orchestrator].boot
          /\ mc.born = machine[Orchestrator].born
      BY <1>2 DEF MachineValues
    <3>2. machine' = [machine EXCEPT ![Orchestrator] = mc]
      BY <2>3 DEF OrchestratorLogs
    <3> HIDE DEF mc
    <3> QED BY <3>1, <3>2, ConfiguredBorn, OrchestratorIsMember
  <2> QED BY <2>1, <2>2, <2>3
<1> QED BY <1>1, <1>3 DEF OwnInv

LEMMA OwnStep == Typed /\ ~raced /\ OwnInv /\ [Next]_vars => OwnInv'
<1> SUFFICES ASSUME Typed, ~raced, OwnInv, [Next]_vars PROVE OwnInv'
  OBVIOUS
<1>1. ASSUME NEW p \in Procs, Step(p) PROVE OwnInv'
  <2>1. Create(p) => OwnInv'
    BY AdoptOwn, ListOwn, BootOwn, ProvisionOwn, ReadbackOwn, RecordOwn, FinishOwn
       DEF Create, Readback
  <2> QED BY <1>1, <2>1, LockOwn, StartOwn, DestroyOwn, DoctorOwn DEF Step
<1>2. CASE UNCHANGED vars
  BY <1>2 DEF vars, procVars, OwnInv, Present
<1>3. ASSUME NEW p \in Procs,
             StartCreate(p) \/ StartDestroy(p) \/ StartDoctor(p) \/ StartObserve(p) \/ Crash(p)
      PROVE  OwnInv'
  BY <1>3, StartOwn
<1>4. ASSUME NEW p \in Procs, NEW m \in Members, RestartReadback(p, m) PROVE OwnInv'
  BY <1>4, ReadbackOwn
<1>5. ASSUME NEW m \in Members, MemberAnswers(m) \/ MachineLost(m) PROVE OwnInv'
  BY <1>5, OutsideOwn
<1>6. OrchestratorLogs => OwnInv'
  BY OrchestratorIsMember, OutsideOwn
<1> QED BY <1>1, <1>2, <1>3, <1>4, <1>5, <1>6 DEF Next

LEMMA OwnInit == Init => OwnInv
<1> SUFFICES ASSUME Init PROVE OwnInv
  OBVIOUS
<1>1. \A p \in Procs : pc[p] \notin Making \cup {"list", "delete"}
  BY DEF Init, Making, Creating
<1>2. CASE Remembered
  <2>1. \A m \in Members : ~Present(m)
    BY <1>2 DEF Remembered, Present, Up, NoMachine
  <2> QED BY <1>1, <1>2, <2>1 DEF OwnInv, Remembered
<1>3. CASE Running
  <2>1. record.camp = 1 /\ \A m \in Members : machine[m].born = 1
    BY <1>3 DEF Running, NoMachine
  <2> QED BY <1>1, <2>1 DEF OwnInv
<1> QED BY <1>2, <1>3 DEF Init

(* Every machine that stands belongs to the campaign the record names: a   *)
(* create, however often it is cut short and taken up again, leaves no     *)
(* machine the record does not know, and a destroy drops the record only   *)
(* when no machine is left (R102).                                         *)
THEOREM NoOrphansHolds == Spec => []NoOrphans
<1> DEFINE I == Typed /\ (raced \/ OwnInv)
<1>1. Init => I
  BY TypedInit, OwnInit
<1>2. I /\ [Next]_vars => I'
  BY TypedStep, OwnStep, LockStep, RacedStays
<1>3. I => NoOrphans
  BY DEF OwnInv, NoOrphans
<1> QED BY <1>1, <1>2, <1>3, PTL DEF Spec
=============================================================================
