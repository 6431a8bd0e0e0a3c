--------------------------- MODULE CampaignTypes ---------------------------
(***************************************************************************)
(* Campaign's type invariant, for any set of commands, any roster, any     *)
(* briefings and any bounds.                                               *)
(***************************************************************************)
EXTENDS Campaign, TLAPS

LEMMA OrchestratorIsMember == Orchestrator \in Members
BY RosterIsSeq DEF Orchestrator, Members

LEMMA NoMachineType == NoMachine \in MachineValues
<1>1. [a \in Agents |-> 0] \in [Agents -> 0..MaxAsks]
  BY BoundsArePositive
<1> QED BY <1>1, BoundsArePositive
        DEF NoMachine, MachineValues, BriefOrNone

LEMMA NoReadbackType == NoReadback \in Readbacks
BY BoundsArePositive DEF NoReadback, Readbacks, BriefOrNone

LEMMA NoRecordType == NoRecord \in RecordValues
BY NoReadbackType, BoundsArePositive DEF NoRecord, RecordValues, BriefOrNone

LEMMA NoWorkType == NoWork \in WorkValues
BY NoReadbackType DEF NoWork, WorkValues, BriefOrNone, Stages

(* What the host does to a machine leaves a machine. *)
LEMMA BootedType ==
  ASSUME NEW i \in 0..MaxBoots, NEW c \in 0..MaxCreates
  PROVE  Booted(i, c) \in MachineValues
BY NoMachineType DEF Booted, MachineValues

LEMMA ConfiguredType ==
  ASSUME NEW mc \in MachineValues, NEW b \in BriefOrNone
  PROVE  Configured(mc, b) \in MachineValues
BY DEF Configured, MachineValues

LEMMA AskedType ==
  ASSUME NEW mc \in MachineValues, SendTarget(mc) <= MaxAsks
  PROVE  Asked(mc) \in MachineValues
<1>1. SendTarget(mc) \in 0..MaxAsks
  BY BoundsArePositive DEF SendTarget, MachineValues
<1> QED BY <1>1 DEF Asked, MachineValues, BriefOrNone, NoAnswer

LEMMA TurnedType ==
  ASSUME NEW mc \in MachineValues
  PROVE  Turned(mc) \in MachineValues
BY DEF Turned, MachineValues

LEMMA ManifestedType ==
  ASSUME NEW mc \in MachineValues, NEW r \in [Members -> Readbacks]
  PROVE  Manifested(mc, r) \in MachineValues
<1>1. [a \in Agents |-> IF r[a].passed THEN r[a].dispatch ELSE 0] \in [Agents -> 0..MaxAsks]
  BY BoundsArePositive DEF Agents, Readbacks
<1> QED BY <1>1 DEF Manifested, MachineValues

(* What a save, a load and an end leave behind. *)
LEMMA SaveType ==
  ASSUME CampaignTypeOK, NEW p \in Procs, NEW r \in RecordValues, Save(p, r)
  PROVE  /\ record' \in RecordValues
         /\ fresh' \in [Procs -> BOOLEAN]
         /\ lost' \in BOOLEAN
BY DEF Save, CampaignTypeOK, HostTypeOK

LEMMA FailCreateType ==
  ASSUME CampaignTypeOK, NEW p \in Procs, FailCreate(p)
  PROVE  /\ record' \in RecordValues
         /\ fresh' \in [Procs -> BOOLEAN]
         /\ lost' \in BOOLEAN
         /\ Goto(p, "unlock")
<1>1. [copy[p] EXCEPT !.state = "create-failed"] \in RecordValues
  BY DEF CampaignTypeOK, ProcTypeOK, RecordValues
<1> QED BY <1>1, SaveType DEF FailCreate

LEMMA LoadedType ==
  ASSUME CampaignTypeOK, NEW p \in Procs, Loaded(p)
  PROVE  /\ copy' \in [Procs -> RecordValues]
         /\ fresh' \in [Procs -> BOOLEAN]
         /\ UNCHANGED <<record, lost>>
BY DEF Loaded, CampaignTypeOK, HostTypeOK, ProcTypeOK

LEMMA GoneType ==
  ASSUME CampaignTypeOK, NEW p \in Procs, Gone(p)
  PROVE  /\ ProcTypeOK'
         /\ fresh' \in [Procs -> BOOLEAN]
         /\ UNCHANGED <<record, lost>>
BY NoRecordType, NoWorkType DEF Gone, CampaignTypeOK, HostTypeOK, ProcTypeOK

LEMMA FaultType ==
  ASSUME CampaignTypeOK, Fault \/ UNCHANGED bounds
  PROVE  bounds' \in [commands : 0..MaxCommands, looks : 0..MaxLooks, faults : 0..MaxFaults,
                      boots : 0..MaxBoots, camps : 0..MaxCreates]
BY CampaignBounds DEF Fault, CampaignTypeOK, CountTypeOK

(* A process's memory is replaced by what it may hold. *)
LEMMA WorkType ==
  ASSUME CampaignTypeOK, NEW p \in Procs, NEW w \in WorkValues,
         work' = [work EXCEPT ![p] = w]
  PROVE  work' \in [Procs -> WorkValues]
BY DEF CampaignTypeOK, ProcTypeOK

LEMMA CopyType ==
  ASSUME CampaignTypeOK, NEW p \in Procs, NEW r \in RecordValues,
         copy' = [copy EXCEPT ![p] = r]
  PROVE  copy' \in [Procs -> RecordValues]
BY DEF CampaignTypeOK, ProcTypeOK

(* A turn is started on a machine, or on a session it does not know.       *)
LEMMA StartTurnType ==
  ASSUME CampaignTypeOK, NEW m \in Members, NEW wait \in MachineValues,
         NEW run \in MachineValues, StartTurn(m, wait, run)
  PROVE  GuestTypeOK' /\ staleTurn' \in BOOLEAN
<1>1. wait.boot \in 0..MaxBoots
  BY DEF MachineValues
<1> QED BY <1>1 DEF StartTurn, CampaignTypeOK, GuestTypeOK, CountTypeOK

-----------------------------------------------------------------------------
(* Each action, by what it changes. *)
LEMMA StartTypes ==
  ASSUME CampaignTypeOK, NEW p \in Procs,
         StartCreate(p) \/ StartDestroy(p) \/ StartDoctor(p) \/ StartObserve(p)
  PROVE  CampaignTypeOK'
<1> USE DEF CampaignTypeOK
<1>1. ASSUME NEW c \in {"create", "destroy", "doctor", "observe"}, Begin(p, c)
      PROVE  /\ cmd' \in [Procs -> {"none", "create", "destroy", "doctor", "observe"}]
             /\ bounds' \in [commands : 0..MaxCommands, looks : 0..MaxLooks,
                             faults : 0..MaxFaults, boots : 0..MaxBoots,
                             camps : 0..MaxCreates]
  <2>1. bounds.looks > 0 => bounds.looks - 1 \in 0..MaxLooks
    BY CampaignBounds DEF CountTypeOK
  <2>2. bounds.commands - 1 \in 0..MaxCommands
    BY <1>1, CampaignBounds DEF CountTypeOK, Begin
  <2>3. cmd' = [cmd EXCEPT ![p] = c]
    BY <1>1 DEF Begin
  <2>4. \/ bounds' = [bounds EXCEPT !.commands = bounds.commands - 1]
        \/ /\ bounds.looks > 0
           /\ bounds' = [bounds EXCEPT !.commands = bounds.commands - 1,
                                      !.looks = bounds.looks - 1]
    BY <1>1 DEF Begin
  <2> QED BY <2>1, <2>2, <2>3, <2>4 DEF CountTypeOK, ProcTypeOK
<1>2. CASE StartCreate(p) \/ StartDestroy(p)
  BY <1>1, <1>2 DEF StartCreate, StartDestroy, Goto, HostTypeOK, GuestTypeOK, ProcTypeOK,
                    CountTypeOK, recordVars, archiveVars, history
<1>3. CASE StartDoctor(p)
  BY <1>1, <1>3, LoadedType DEF StartDoctor, Goto, HostTypeOK, GuestTypeOK, ProcTypeOK,
                    CountTypeOK, archiveVars, history
<1>4. CASE StartObserve(p)
  <2>1. machine[Orchestrator].born \in 0..MaxCreates
    BY OrchestratorIsMember DEF GuestTypeOK, MachineValues
  <2>2. work' \in [Procs -> WorkValues]
    <3>1. PICK s \in SUBSET (0..MaxCreates) :
             work' = [work EXCEPT ![p] = [work[p] EXCEPT !.seen = s]]
      BY <1>4, <2>1 DEF StartObserve, Remember
    <3>2. [work[p] EXCEPT !.seen = s] \in WorkValues
      BY DEF ProcTypeOK, WorkValues
    <3> QED BY <3>1, <3>2 DEF ProcTypeOK
  <2> QED
    BY <1>1, <1>4, <2>2 DEF StartObserve, Goto, HostTypeOK, GuestTypeOK, ProcTypeOK,
                    CountTypeOK, recordVars, archiveVars, history
<1> QED BY <1>2, <1>3, <1>4

LEMMA LockTypes ==
  ASSUME CampaignTypeOK, NEW p \in Procs, cmd[p] \in {"create", "destroy", "doctor"},
         TakeLock(p)
  PROVE  CampaignTypeOK'
<1>1. \E s \in {"adopt", "load", "reload"} : Goto(p, s)
  BY DEF TakeLock
<1>2. pc' \in [Procs -> {"idle", "lock", "relock", "reload", "journal", "merge", "unlock"}
                            \cup Creating \cup Destroying]
  BY <1>1 DEF Goto, CampaignTypeOK, ProcTypeOK, Creating, Destroying
<1> QED BY <1>2 DEF TakeLock, CampaignTypeOK, HostTypeOK, GuestTypeOK, ProcTypeOK,
                    CountTypeOK, recordVars, archiveVars, history

LEMMA EndTypes ==
  ASSUME CampaignTypeOK, NEW p \in Procs, Unlock(p) \/ MergeLogMirror(p) \/ Crash(p)
  PROVE  CampaignTypeOK'
<1> USE DEF CampaignTypeOK
<1>1. CASE Unlock(p)
  BY <1>1, GoneType DEF Unlock, HostTypeOK, GuestTypeOK, CountTypeOK, archiveVars, history
<1>2. CASE MergeLogMirror(p)
  <2>1. mirror' \subseteq 0..MaxCreates
    BY <1>2 DEF MergeLogMirror, HostTypeOK, ProcTypeOK, WorkValues
  <2> QED BY <1>2, <2>1, GoneType DEF MergeLogMirror, HostTypeOK, GuestTypeOK, CountTypeOK,
                    archiveVars, history
<1>3. CASE Crash(p)
  <2>1. Gone(p) /\ Fault /\ UNCHANGED <<machine, session, archiveVars, mirror, staleTurn>>
    BY <1>3 DEF Crash
  <2>2. lapsed' \in BOOLEAN /\ abandoned' \in BOOLEAN
    BY <1>3 DEF Crash, CountTypeOK
  <2> QED BY <2>1, <2>2, GoneType, FaultType DEF HostTypeOK, GuestTypeOK, CountTypeOK,
                    archiveVars
<1> QED BY <1>1, <1>2, <1>3

(* The actions of a create, up to the readback. *)
LEMMA AdoptTypes ==
  ASSUME CampaignTypeOK, NEW p \in Procs, Adopt(p) \/ ListMembers(p)
  PROVE  CampaignTypeOK'
<1> USE DEF CampaignTypeOK, Goto, Creating, Destroying
<1>1. CASE Adopt(p)
  <2>1. UNCHANGED <<machine, session, archiveVars, cmd, work, history>>
    BY <1>1 DEF Adopt
  <2>2. CASE Goto(p, "unlock") /\ UNCHANGED <<recordVars, mirror, copy, bounds>>
    BY <2>1, <2>2 DEF HostTypeOK, GuestTypeOK, ProcTypeOK, CountTypeOK, archiveVars,
                      recordVars, history
  <2>3. CASE Loaded(p) /\ mirror' = MirrorReset(TRUE) /\ Goto(p, "list") /\ UNCHANGED bounds
    BY <2>1, <2>3, LoadedType DEF HostTypeOK, GuestTypeOK, ProcTypeOK, CountTypeOK,
                      archiveVars, MirrorReset, history
  <2>4. CASE /\ bounds.camps < MaxCreates
             /\ bounds' = [bounds EXCEPT !.camps = @ + 1]
             /\ copy' = [copy EXCEPT ![p] = Planned(bounds'.camps)]
             /\ fresh' = [fresh EXCEPT ![p] = TRUE]
             /\ mirror' = MirrorReset(FALSE)
             /\ Goto(p, "list")
             /\ UNCHANGED <<record, lost>>
    <3>1. bounds.camps + 1 \in 0..MaxCreates
      BY <2>4, BoundsArePositive DEF CountTypeOK
    <3>2. /\ bounds'.camps = bounds.camps + 1
          /\ bounds' \in [commands : 0..MaxCommands, looks : 0..MaxLooks,
                          faults : 0..MaxFaults, boots : 0..MaxBoots, camps : 0..MaxCreates]
      BY <2>4, <3>1 DEF CountTypeOK
    <3>3. Planned(bounds'.camps) \in RecordValues
      BY <3>1, <3>2, NoRecordType DEF Planned, RecordValues
    <3> QED BY <2>1, <2>4, <3>2, <3>3 DEF HostTypeOK, GuestTypeOK, ProcTypeOK, CountTypeOK,
                      archiveVars, MirrorReset, history
  <2> QED BY <1>1, <2>2, <2>3, <2>4 DEF Adopt
<1>2. CASE ListMembers(p)
  <2>1. UNCHANGED <<machine, session, archiveVars, mirror, cmd, history>>
    BY <1>2 DEF ListMembers
  <2>2. CASE /\ copy' = [copy EXCEPT ![p].state = "creating"]
             /\ Save(p, copy'[p])
             /\ \E b \in Briefs : work' = [work EXCEPT ![p].live = Standing, ![p].at = 1,
                                                      ![p].brief = b]
             /\ Goto(p, "boot")
             /\ UNCHANGED bounds
    <3>1. copy' \in [Procs -> RecordValues]
      <4>1. [copy[p] EXCEPT !.state = "creating"] \in RecordValues
        BY DEF ProcTypeOK, RecordValues
      <4> QED BY <2>2, <4>1, CopyType
    <3>2. work' \in [Procs -> WorkValues]
      <4>1. PICK b \in Briefs :
               work' = [work EXCEPT ![p] = [work[p] EXCEPT !.live = Standing, !.at = 1,
                                                           !.brief = b]]
        BY <2>2
      <4>2. 1 \in 0..Len(Roster)
        BY RosterIsSeq
      <4>3. [work[p] EXCEPT !.live = Standing, !.at = 1, !.brief = b] \in WorkValues
        BY <4>2 DEF ProcTypeOK, WorkValues, Standing, BriefOrNone
      <4> QED BY <4>1, <4>3, WorkType
    <3> QED BY <2>1, <2>2, <3>1, <3>2, SaveType DEF HostTypeOK, GuestTypeOK, ProcTypeOK,
                      CountTypeOK, archiveVars, history
  <2>3. CASE Fault /\ Goto(p, "unlock") /\ UNCHANGED <<recordVars, copy, work>>
    BY <2>1, <2>3, FaultType DEF HostTypeOK, GuestTypeOK, ProcTypeOK, CountTypeOK,
                      archiveVars, recordVars, history
  <2> QED BY <1>2, <2>2, <2>3 DEF ListMembers
<1> QED BY <1>1, <1>2

(* A step of create that fails. *)
LEMMA FailedTypes ==
  ASSUME CampaignTypeOK, NEW p \in Procs, FailCreate(p), Fault \/ UNCHANGED bounds,
         UNCHANGED <<machine, session, archiveVars, mirror, cmd, copy, work, staleTurn>>,
         lapsed' \in BOOLEAN, abandoned' \in BOOLEAN
  PROVE  CampaignTypeOK'
BY FailCreateType, FaultType
   DEF CampaignTypeOK, HostTypeOK, GuestTypeOK, ProcTypeOK, CountTypeOK, archiveVars, Goto

LEMMA ProvisionTypes ==
  ASSUME CampaignTypeOK, NEW p \in Procs,
         Boot(p) \/ ForgetEarlierLife(p) \/ ConfigureMember(p) \/ Orchestrate(p)
  PROVE  CampaignTypeOK'
<1> USE DEF CampaignTypeOK, Goto, Creating, Destroying
<1>0. lapsed \in BOOLEAN /\ abandoned \in BOOLEAN
  BY DEF CountTypeOK
<1>1. CASE Boot(p)
  <2>1. UNCHANGED <<session, archiveVars, mirror, cmd, copy, work, abandoned, staleTurn>>
    BY <1>1 DEF Boot
  <2>2. CASE Goto(p, "configure") /\ UNCHANGED <<recordVars, machine, bounds, lapsed>>
    BY <2>1, <2>2 DEF HostTypeOK, GuestTypeOK, ProcTypeOK, CountTypeOK, archiveVars,
                      recordVars
  <2>3. CASE /\ bounds.boots < MaxBoots
             /\ \/ bounds' = [bounds EXCEPT !.boots = @ + 1]
                \/ /\ bounds.faults > 0
                   /\ bounds' = [bounds EXCEPT !.boots = @ + 1, !.faults = @ - 1]
             /\ machine' = [machine EXCEPT ![MemberAt(p)] =
                               Booted(bounds'.boots, copy[p].camp)]
             /\ \/ Goto(p, "forget") /\ UNCHANGED <<recordVars, lapsed>>
                \/ FailCreate(p) /\ lapsed' = TRUE
    <3>1. /\ bounds.boots + 1 \in 0..MaxBoots
          /\ bounds.faults > 0 => bounds.faults - 1 \in 0..MaxFaults
      BY <2>3, BoundsArePositive, CampaignBounds DEF CountTypeOK
    <3>2. /\ bounds'.boots = bounds.boots + 1
          /\ bounds' \in [commands : 0..MaxCommands, looks : 0..MaxLooks,
                          faults : 0..MaxFaults, boots : 0..MaxBoots, camps : 0..MaxCreates]
      BY <2>3, <3>1 DEF CountTypeOK
    <3>3. copy[p].camp \in 0..MaxCreates
      BY DEF ProcTypeOK, RecordValues
    <3>4. Booted(bounds'.boots, copy[p].camp) \in MachineValues
      BY <3>1, <3>2, <3>3, BootedType
    <3>5. machine' \in [Members -> MachineValues]
      BY <2>3, <3>4 DEF GuestTypeOK
    <3>6. HostTypeOK'
      BY <2>1, <2>3, FailCreateType DEF HostTypeOK, archiveVars, recordVars
    <3>7. ProcTypeOK'
      BY <2>1, <2>3 DEF ProcTypeOK, FailCreate
    <3>8. GuestTypeOK' /\ CountTypeOK'
      BY <1>0, <2>1, <2>3, <3>2, <3>5 DEF GuestTypeOK, CountTypeOK
    <3> QED BY <3>6, <3>7, <3>8
  <2>4. CASE /\ FailCreate(p)
             /\ Fault \/ UNCHANGED bounds
             /\ UNCHANGED <<machine, lapsed>>
    BY <1>0, <2>1, <2>4, FailedTypes
  <2> QED BY <1>1, <2>2, <2>3, <2>4 DEF Boot
<1>2. CASE ForgetEarlierLife(p)
  <2>1. UNCHANGED <<machine, archiveVars, mirror, cmd, copy, work, abandoned, staleTurn>>
    BY <1>2 DEF ForgetEarlierLife
  <2>2. CASE /\ session' = EarlierLifeForgotten(MemberAt(p))
             /\ Goto(p, "configure")
             /\ UNCHANGED <<recordVars, bounds, lapsed>>
    <3>1. session' \in [Members -> 0..MaxBoots]
      <4>1. 0 \in 0..MaxBoots
        BY BoundsArePositive
      <4> QED BY <2>2, <4>1 DEF GuestTypeOK, EarlierLifeForgotten
    <3> QED BY <2>1, <2>2, <3>1 DEF HostTypeOK, GuestTypeOK, ProcTypeOK, CountTypeOK,
                      archiveVars, recordVars
  <2>3. CASE Fault /\ FailCreate(p) /\ lapsed' = TRUE /\ UNCHANGED session
    BY <1>0, <2>1, <2>3, FailedTypes
  <2> QED BY <1>2, <2>2, <2>3 DEF ForgetEarlierLife
<1>3. CASE ConfigureMember(p)
  <2>1. UNCHANGED <<session, archiveVars, mirror, cmd, history>>
    BY <1>3 DEF ConfigureMember
  <2>2. CASE /\ machine' = [machine EXCEPT ![MemberAt(p)] = Configured(@, work[p].brief)]
             /\ copy' = [copy EXCEPT ![p].seeded[MemberAt(p)] = work[p].brief]
             /\ Save(p, copy'[p])
             /\ IF MoreMembers(p)
                   THEN /\ work' = [work EXCEPT ![p].at = @ + 1]
                        /\ Goto(p, "boot")
                   ELSE /\ work' = [work EXCEPT ![p].at = 0, ![p].live = {}]
                        /\ Goto(p, "orchestrate")
             /\ UNCHANGED bounds
    <3>1. machine' \in [Members -> MachineValues]
      BY <2>2, ConfiguredType DEF GuestTypeOK, ProcTypeOK, WorkValues
    <3>2. copy' \in [Procs -> RecordValues]
      <4>1. work[p].brief \in BriefOrNone
        BY DEF ProcTypeOK, WorkValues
      <4>2. [copy[p] EXCEPT !.seeded[MemberAt(p)] = work[p].brief] \in RecordValues
        BY <4>1 DEF ProcTypeOK, RecordValues
      <4>3. copy' = [copy EXCEPT ![p] = [copy[p] EXCEPT !.seeded[MemberAt(p)] =
                                                            work[p].brief]]
        BY <2>2
      <4> QED BY <4>2, <4>3, CopyType
    <3>3. work' \in [Procs -> WorkValues]
      <4>1. MoreMembers(p) => work[p].at + 1 \in 0..Len(Roster)
        BY RosterIsSeq DEF MoreMembers, ProcTypeOK, WorkValues
      <4>2. MoreMembers(p) => [work[p] EXCEPT !.at = @ + 1] \in WorkValues
        BY <4>1 DEF ProcTypeOK, WorkValues
      <4>3. [work[p] EXCEPT !.at = 0, !.live = {}] \in WorkValues
        <5>1. 0 \in 0..Len(Roster)
          BY RosterIsSeq
        <5> QED BY <5>1 DEF ProcTypeOK, WorkValues
      <4>4. \/ MoreMembers(p) /\ work' = [work EXCEPT ![p] = [work[p] EXCEPT !.at = @ + 1]]
            \/ work' = [work EXCEPT ![p] = [work[p] EXCEPT !.at = 0, !.live = {}]]
        BY <2>2
      <4> QED BY <4>2, <4>3, <4>4, WorkType
    <3> QED BY <2>1, <2>2, <3>1, <3>2, <3>3, SaveType DEF HostTypeOK, GuestTypeOK,
                      ProcTypeOK, CountTypeOK, archiveVars, history
  <2>3. CASE FailCreate(p) /\ (Fault \/ UNCHANGED bounds) /\ UNCHANGED <<machine, copy, work>>
    BY <1>0, <2>1, <2>3, FailedTypes DEF history
  <2> QED BY <1>3, <2>2, <2>3 DEF ConfigureMember
<1>4. CASE Orchestrate(p)
  <2>1. UNCHANGED <<session, archiveVars, mirror, cmd, work, history>>
    BY <1>4 DEF Orchestrate
  <2>2. CASE /\ machine' = [machine EXCEPT ![Orchestrator] =
                               Manifested(@, copy[p].readback)]
             /\ copy' = [copy EXCEPT ![p].harness = TRUE]
             /\ Goto(p, "readback")
             /\ UNCHANGED <<recordVars, bounds>>
    <3>1. copy[p].readback \in [Members -> Readbacks]
      BY DEF ProcTypeOK, RecordValues
    <3>2. machine' \in [Members -> MachineValues]
      BY <2>2, <3>1, ManifestedType DEF GuestTypeOK
    <3>3. copy' \in [Procs -> RecordValues]
      BY <2>2 DEF ProcTypeOK, RecordValues
    <3> QED BY <2>1, <2>2, <3>2, <3>3 DEF HostTypeOK, GuestTypeOK, ProcTypeOK, CountTypeOK,
                      archiveVars, recordVars, history
  <2>3. CASE FailCreate(p) /\ (Fault \/ UNCHANGED bounds) /\ UNCHANGED <<machine, copy>>
    BY <1>0, <2>1, <2>3, FailedTypes DEF history
  <2> QED BY <1>4, <2>2, <2>3 DEF Orchestrate
<1> QED BY <1>1, <1>2, <1>3, <1>4

(* The readback. *)
LEMMA StageType ==
  ASSUME CampaignTypeOK, NEW p \in Procs, NEW m \in Members, NEW s \in Stages,
         NEW r \in Readbacks,
         \/ work' = [work EXCEPT ![p].stage[m] = s]
         \/ work' = [work EXCEPT ![p].stage[m] = s, ![p].report[m] = r]
  PROVE  work' \in [Procs -> WorkValues]
<1> DEFINE stage == [work[p].stage EXCEPT ![m] = s]
           report == [work[p].report EXCEPT ![m] = r]
<1>1. work[p] \in WorkValues
  BY DEF CampaignTypeOK, ProcTypeOK
<1>2. stage \in [Members -> Stages] /\ report \in [Members -> Readbacks]
  BY <1>1 DEF WorkValues
<1>3. \/ work' = [work EXCEPT ![p] = [work[p] EXCEPT !.stage = stage]]
      \/ work' = [work EXCEPT ![p] = [work[p] EXCEPT !.stage = stage, !.report = report]]
  OBVIOUS
<1> HIDE DEF stage, report
<1>4. [work[p] EXCEPT !.stage = stage] \in WorkValues
  BY <1>1, <1>2 DEF WorkValues
<1>5. [work[p] EXCEPT !.stage = stage, !.report = report] \in WorkValues
  BY <1>1, <1>2 DEF WorkValues
<1> QED BY <1>3, <1>4, <1>5, WorkType

LEMMA ReadbackTypes ==
  ASSUME CampaignTypeOK, NEW p \in Procs, NEW m \in Members,
         KeepReadback(p, m) \/ AskReadback(p, m) \/ CannotAsk(p, m)
            \/ JudgeReadback(p, m) \/ RestartReadback(p, m) \/ GiveUp(p, m)
  PROVE  CampaignTypeOK'
<1> USE DEF CampaignTypeOK
<1>0. /\ HostTypeOK'
      /\ lapsed' \in BOOLEAN
      /\ UNCHANGED <<cmd, pc, copy>>
  BY DEF KeepReadback, AskReadback, CannotAsk, JudgeReadback, RestartReadback, GiveUp,
         ReadbackUnchanged, HostTypeOK, recordVars, archiveVars, CountTypeOK
<1>1. \A r \in {NoReadback} : r \in Readbacks
  BY NoReadbackType
<1>2. CASE KeepReadback(p, m)
  <2>1. copy[p].readback[m] \in Readbacks
    BY DEF ProcTypeOK, RecordValues
  <2>2. work' \in [Procs -> WorkValues]
    BY <1>2, <2>1, StageType DEF KeepReadback, Stages
  <2> QED BY <1>0, <1>2, <2>2 DEF KeepReadback, GuestTypeOK, ProcTypeOK, CountTypeOK
<1>3. CASE AskReadback(p, m)
  <2>1. SendTarget(machine[m]) <= MaxAsks /\ machine[m] \in MachineValues
    BY <1>3 DEF AskReadback, GuestTypeOK
  <2>2. Asked(machine[m]) \in MachineValues /\ Turned(Asked(machine[m])) \in MachineValues
    BY <2>1, AskedType, TurnedType
  <2>3. \E s \in {"wait", "again", "bad"} : work' = [work EXCEPT ![p].stage[m] = s]
    BY <1>3 DEF AskReadback, Stage
  <2>4. work' \in [Procs -> WorkValues]
    BY <1>1, <2>3, StageType DEF Stages
  <2>5. CASE /\ StartTurn(m, Asked(machine[m]), Turned(Asked(machine[m])))
             /\ UNCHANGED <<bounds, abandoned>>
    BY <1>0, <2>2, <2>4, <2>5, StartTurnType DEF ProcTypeOK, CountTypeOK
  <2>6. CASE /\ Fault
             /\ machine' = [machine EXCEPT ![m] = Asked(@)]
             /\ abandoned' = TRUE
             /\ UNCHANGED <<session, staleTurn>>
    <3>1. machine' \in [Members -> MachineValues]
      BY <2>2, <2>6 DEF GuestTypeOK
    <3> QED BY <1>0, <2>4, <2>6, <3>1, FaultType DEF GuestTypeOK, ProcTypeOK, CountTypeOK
  <2> QED BY <1>3, <2>5, <2>6 DEF AskReadback
<1>4. CASE CannotAsk(p, m)
  <2>1. work' \in [Procs -> WorkValues]
    BY <1>1, <1>4, StageType DEF CannotAsk, Stage, Stages
  <2>2. /\ Fault \/ UNCHANGED bounds
        /\ abandoned' \in BOOLEAN
        /\ UNCHANGED <<machine, session, staleTurn>>
    BY <1>4 DEF CannotAsk, StageIs, At, CountTypeOK
  <2> QED BY <1>0, <2>1, <2>2, FaultType DEF GuestTypeOK, ProcTypeOK, CountTypeOK
<1>5. CASE JudgeReadback(p, m)
  <2>1. machine[m] \in MachineValues /\ copy[p].seeded[m] \in BriefOrNone
    BY DEF GuestTypeOK, ProcTypeOK, RecordValues
  <2>2. Restated(machine[m], copy[p].seeded[m]) \in Readbacks
    BY <2>1 DEF MachineValues, Readbacks, Restated
  <2>3. PICK s \in Stages, r \in Readbacks :
           work' = [work EXCEPT ![p].stage[m] = s, ![p].report[m] = r]
    <3>1. Verdict(machine[m].answer, StageIs(p, m, {"again"})) \in Stages
      BY DEF Verdict, Stages
    <3> QED BY <1>1, <1>5, <2>2, <3>1 DEF JudgeReadback
  <2>4. work' \in [Procs -> WorkValues]
    BY <2>3, StageType
  <2>5. abandoned' \in BOOLEAN
    BY <1>5 DEF JudgeReadback, CountTypeOK, StageIs, At
  <2> QED BY <1>0, <1>5, <2>4, <2>5 DEF JudgeReadback, GuestTypeOK, ProcTypeOK, CountTypeOK
<1>6. CASE RestartReadback(p, m)
  <2>1. machine[m].boot \in 0..MaxBoots /\ Turned(machine[m]) \in MachineValues
    BY TurnedType DEF GuestTypeOK, MachineValues
  <2>2. GuestTypeOK'
    BY <1>6, <2>1 DEF RestartReadback, GuestTypeOK
  <2> QED BY <1>0, <1>6, <2>2 DEF RestartReadback, ProcTypeOK, CountTypeOK
<1>7. CASE GiveUp(p, m)
  <2>1. work' \in [Procs -> WorkValues]
    BY <1>1, <1>7, StageType DEF GiveUp, Stage, Stages
  <2>2. (Fault \/ UNCHANGED bounds) /\ UNCHANGED <<machine, session, staleTurn>>
        /\ abandoned' = TRUE
    BY <1>7 DEF GiveUp
  <2> QED BY <1>0, <2>1, <2>2, FaultType DEF GuestTypeOK, ProcTypeOK, CountTypeOK
<1> QED BY <1>2, <1>3, <1>4, <1>5, <1>6, <1>7

LEMMA RecordTypes ==
  ASSUME CampaignTypeOK, NEW p \in Procs, RecordReadbacks(p)
  PROVE  CampaignTypeOK'
<1> DEFINE told == [copy[p] EXCEPT !.readback = [m \in Members |->
                      IF work[p].stage[m] = "bad" THEN @[m] ELSE work[p].report[m]]]
           passed == \A m \in Members : work[p].stage[m] = "ok"
<1>1. [m \in Members |-> IF work[p].stage[m] = "bad" THEN copy[p].readback[m]
                                                     ELSE work[p].report[m]]
         \in [Members -> Readbacks]
  BY DEF CampaignTypeOK, ProcTypeOK, RecordValues, WorkValues
<1>2. told \in RecordValues /\ [told EXCEPT !.state = "create-failed"] \in RecordValues
  BY <1>1 DEF CampaignTypeOK, ProcTypeOK, RecordValues
<1>3. /\ copy' = [copy EXCEPT ![p] = told]
      /\ \E r \in RecordValues : Save(p, r)
      /\ \E s \in {"manifest", "unlock"} : Goto(p, s)
      /\ session' = [m \in Members |-> IF passed /\ m \in Lined THEN 0 ELSE session[m]]
      /\ work' = [work EXCEPT ![p] = NoWork]
      /\ UNCHANGED <<machine, archiveVars, mirror, cmd, bounds, history>>
  BY <1>2 DEF RecordReadbacks
<1>4. copy' \in [Procs -> RecordValues] /\ work' \in [Procs -> WorkValues]
  BY <1>2, <1>3, CopyType, WorkType, NoWorkType
<1>5. HostTypeOK'
  BY <1>3, SaveType DEF CampaignTypeOK, HostTypeOK, archiveVars
<1>6. ProcTypeOK'
  BY <1>3, <1>4 DEF CampaignTypeOK, ProcTypeOK, Goto, Creating, Destroying
<1>7. session' \in [Members -> 0..MaxBoots]
  BY <1>3, BoundsArePositive DEF CampaignTypeOK, GuestTypeOK
<1> QED BY <1>3, <1>5, <1>6, <1>7 DEF CampaignTypeOK, GuestTypeOK, CountTypeOK, history

LEMMA FinishTypes ==
  ASSUME CampaignTypeOK, NEW p \in Procs,
         RecordOnOrchestrator(p) \/ OpenMission(p) \/ StartMission(p) \/ FinishCreate(p)
  PROVE  CampaignTypeOK'
<1> USE OrchestratorIsMember DEF CampaignTypeOK
<1> DEFINE mc == machine[Orchestrator]
<1>0. UNCHANGED <<lockVars, archiveVars, mirror, cmd, copy, work, lapsed>>
  BY DEF RecordOnOrchestrator, OpenMission, StartMission, FinishCreate, OnOrchestrator
<1>1. mc \in MachineValues
  BY DEF GuestTypeOK
<1>2. ASSUME NEW refused, FailsThere(p, refused) PROVE CampaignTypeOK'
  <2>1. abandoned' \in BOOLEAN /\ lapsed' \in BOOLEAN
    BY <1>0, <1>2 DEF FailsThere, CountTypeOK
  <2>2. (Fault \/ UNCHANGED bounds) /\ FailCreate(p)
        /\ UNCHANGED <<machine, session, staleTurn>>
    BY <1>2 DEF FailsThere
  <2> QED BY <1>0, <2>1, <2>2, FailedTypes
<1>3. ASSUME NEW s \in {"mission", "turn", "finish"}, Goto(p, s), UNCHANGED <<recordVars, bounds>>
      PROVE  HostTypeOK' /\ ProcTypeOK'
  BY <1>0, <1>3 DEF HostTypeOK, ProcTypeOK, recordVars, archiveVars, Goto, Creating, Destroying
<1>4. CASE RecordOnOrchestrator(p) /\ ~FailsThere(p, FALSE)
  <2>1. /\ machine' = [machine EXCEPT ![Orchestrator] = Manifested(@, copy[p].readback)]
        /\ Goto(p, "mission")
        /\ UNCHANGED <<recordVars, session, bounds, abandoned, staleTurn>>
    BY <1>4 DEF RecordOnOrchestrator
  <2>2. copy[p].readback \in [Members -> Readbacks]
    BY DEF ProcTypeOK, RecordValues
  <2>3. machine' \in [Members -> MachineValues]
    BY <2>1, <2>2, ManifestedType DEF GuestTypeOK
  <2> QED BY <1>0, <1>3, <2>1, <2>3 DEF GuestTypeOK, CountTypeOK
<1>5. CASE OpenMission(p) /\ ~FailsThere(p, MissionRefused(mc))
  <2>1. /\ machine' = [machine EXCEPT ![Orchestrator] = [mc EXCEPT !.mission = "put"]]
        /\ Goto(p, "turn")
        /\ UNCHANGED <<recordVars, session, bounds, abandoned, staleTurn>>
    BY <1>5 DEF OpenMission
  <2>2. [mc EXCEPT !.mission = "put"] \in MachineValues
    BY <1>1 DEF MachineValues
  <2>3. machine' \in [Members -> MachineValues]
    BY <2>1, <2>2 DEF GuestTypeOK
  <2> QED BY <1>0, <1>3, <2>1, <2>3 DEF GuestTypeOK, CountTypeOK
<1>6. CASE StartMission(p) /\ ~FailsThere(p, FALSE)
  <2>1. /\ StartTurn(Orchestrator, mc, [mc EXCEPT !.mission = "running"])
        /\ Goto(p, "finish")
        /\ UNCHANGED <<recordVars, bounds, abandoned>>
    BY <1>6 DEF StartMission
  <2>2. [mc EXCEPT !.mission = "running"] \in MachineValues
    BY <1>1 DEF MachineValues
  <2> QED BY <1>0, <1>1, <1>3, <2>1, <2>2, StartTurnType DEF CountTypeOK
<1>7. CASE FinishCreate(p)
  <2>1. [copy[p] EXCEPT !.state = "created"] \in RecordValues
    BY DEF ProcTypeOK, RecordValues
  <2>2. HostTypeOK'
    BY <1>0, <1>7, <2>1, SaveType DEF FinishCreate, HostTypeOK, archiveVars
  <2>3. ProcTypeOK'
    BY <1>0, <1>7 DEF FinishCreate, ProcTypeOK, Goto, Creating, Destroying
  <2> QED BY <1>0, <1>7, <2>2, <2>3 DEF FinishCreate, GuestTypeOK, CountTypeOK
<1> QED BY <1>2, <1>4, <1>5, <1>6, <1>7

(* A destroy that archives has a member to archive. *)
ArchivingOne == \A p \in Procs : pc[p] = "archive" => work[p].at # 0

LEMMA DestroyTypes ==
  ASSUME CampaignTypeOK, ArchivingOne, NEW p \in Procs, Destroy(p)
  PROVE  CampaignTypeOK'
<1> USE DEF CampaignTypeOK
<1>0. UNCHANGED <<mirror, cmd, history>> /\ lapsed' \in BOOLEAN /\ abandoned' \in BOOLEAN
      /\ staleTurn' \in BOOLEAN
  BY DEF Destroy, LoadToDestroy, ArchiveMember, ScanMembers, RemoveMember, VerifyGone,
         DeleteRecord, history, CountTypeOK
<1>1. ASSUME UNCHANGED pc \/ \E s \in {"unlock", "archive", "scan", "remove", "delete"} :
                                 Goto(p, s),
             copy' \in [Procs -> RecordValues], work' \in [Procs -> WorkValues]
      PROVE  ProcTypeOK'
  BY <1>0, <1>1 DEF ProcTypeOK, Goto, Creating, Destroying
<1>2. work[p] \in WorkValues
  BY DEF ProcTypeOK
<1>3. ASSUME NEW n \in 0..Len(Roster) PROVE [work[p] EXCEPT !.at = n] \in WorkValues
  BY <1>2 DEF WorkValues
<1>4. 0 \in 0..Len(Roster) /\ 1 \in 0..Len(Roster) /\ 0 \in 0..MaxBoots
  BY RosterIsSeq, BoundsArePositive
<1>5. CASE LoadToDestroy(p)
  <2>1. work' \in [Procs -> WorkValues]
    <3>1. CASE UNCHANGED work
      BY <3>1 DEF ProcTypeOK
    <3>2. CASE \E archive \in BOOLEAN :
                 work' = [work EXCEPT ![p].archive = archive,
                                      ![p].at = IF archive THEN 1 ELSE 0]
      <4>1. PICK archive \in BOOLEAN : \E n \in 0..Len(Roster) :
               work' = [work EXCEPT ![p] = [work[p] EXCEPT !.archive = archive, !.at = n]]
        BY <1>4, <3>2
      <4>2. \A n \in 0..Len(Roster) :
               [work[p] EXCEPT !.archive = archive, !.at = n] \in WorkValues
        BY <1>2 DEF WorkValues
      <4> QED BY <4>1, <4>2, WorkType
    <3> QED BY <1>5, <3>1, <3>2 DEF LoadToDestroy
  <2>2. \E s \in {"unlock", "archive", "scan", "remove", "delete"} : Goto(p, s)
    BY <1>5 DEF LoadToDestroy
  <2> QED BY <1>0, <1>1, <1>5, <2>1, <2>2, LoadedType DEF LoadToDestroy, HostTypeOK,
                     GuestTypeOK, CountTypeOK, archiveVars
<1>6. CASE ArchiveMember(p)
  <2>1. /\ UNCHANGED <<recordVars, machine, session, copy>>
        /\ Fault \/ UNCHANGED bounds
    BY <1>6 DEF ArchiveMember
  <2>2. evidence' \in [Members -> 0..MaxBoots] /\ incomplete' \subseteq Members
    <3> DEFINE m == MemberAt(p)
    <3>1. CASE /\ Present(m)
               /\ evidence' = [evidence EXCEPT ![m] = machine[m].boot]
               /\ incomplete' = incomplete \ {m}
      <4>1. m \in Members => machine[m].boot \in 0..MaxBoots
        BY DEF GuestTypeOK, MachineValues
      <4> QED BY <3>1, <4>1 DEF HostTypeOK
    <3>2. CASE /\ evidence' = [evidence EXCEPT ![m] = 0]
               /\ incomplete' = incomplete \cup {m}
      <4>1. m \in Members
        <5>1. work[p].at \in 1..Len(Roster)
          BY <1>2, <1>6, RosterIsSeq DEF ArchiveMember, At, ArchivingOne, WorkValues
        <5> QED BY <5>1, RosterIsSeq DEF MemberAt, Members
      <4> QED BY <1>4, <3>2, <4>1 DEF HostTypeOK
    <3> QED BY <1>6, <3>1, <3>2 DEF ArchiveMember
  <2>3. work' \in [Procs -> WorkValues]
    <3>1. MoreMembers(p) => work[p].at + 1 \in 0..Len(Roster)
      BY <1>2, RosterIsSeq DEF MoreMembers, WorkValues
    <3>2. \/ MoreMembers(p) /\ work' = [work EXCEPT ![p] = [work[p] EXCEPT !.at = work[p].at + 1]]
          \/ work' = [work EXCEPT ![p] = [work[p] EXCEPT !.at = 0]]
      BY <1>6 DEF ArchiveMember
    <3> QED BY <1>3, <1>4, <3>1, <3>2, WorkType
  <2>4. UNCHANGED pc \/ \E s \in {"unlock", "archive", "scan", "remove", "delete"} : Goto(p, s)
    BY <1>6 DEF ArchiveMember, AfterArchive
  <2>5. ProcTypeOK'
    BY <1>1, <2>1, <2>3, <2>4 DEF ProcTypeOK
  <2> QED BY <1>0, <2>1, <2>2, <2>5, FaultType DEF HostTypeOK, GuestTypeOK, CountTypeOK,
                     recordVars
<1>7. CASE ScanMembers(p) \/ RemoveMember(p) \/ VerifyGone(p)
  <2>1. /\ UNCHANGED <<recordVars, archiveVars, copy>>
        /\ Fault \/ UNCHANGED bounds
    BY <1>7 DEF ScanMembers, RemoveMember, VerifyGone
  <2>2. machine' \in [Members -> MachineValues]
    BY <1>7, NoMachineType DEF ScanMembers, RemoveMember, VerifyGone, GuestTypeOK
  <2>3. session' \in [Members -> 0..MaxBoots]
    BY <1>4, <1>7 DEF ScanMembers, RemoveMember, VerifyGone, GuestTypeOK
  <2>4. \/ UNCHANGED work
        \/ \E live \in SUBSET Members : work' = [work EXCEPT ![p].live = live]
    <3>1. work[p].live \subseteq Members
      BY <1>2 DEF WorkValues
    <3> QED BY <1>7, <3>1 DEF ScanMembers, RemoveMember, VerifyGone, Standing
  <2>5. work' \in [Procs -> WorkValues]
    <3>1. \A live \in SUBSET Members : [work[p] EXCEPT !.live = live] \in WorkValues
      BY <1>2 DEF WorkValues
    <3> QED BY <2>4, <3>1, WorkType DEF ProcTypeOK
  <2>6. UNCHANGED pc \/ \E s \in {"unlock", "archive", "scan", "remove", "delete"} : Goto(p, s)
    BY <1>7 DEF ScanMembers, RemoveMember, VerifyGone
  <2>7. ProcTypeOK'
    BY <1>1, <2>1, <2>5, <2>6 DEF ProcTypeOK
  <2> QED BY <1>0, <2>1, <2>2, <2>3, <2>7, FaultType DEF HostTypeOK, GuestTypeOK, CountTypeOK,
                     recordVars, archiveVars
<1>8. CASE DeleteRecord(p)
  <2>1. HostTypeOK'
    BY <1>0, <1>8, SaveType, NoRecordType DEF DeleteRecord, HostTypeOK, archiveVars
  <2>2. ProcTypeOK'
    BY <1>1, <1>8 DEF DeleteRecord, ProcTypeOK
  <2> QED BY <1>0, <1>8, <2>1, <2>2 DEF DeleteRecord, GuestTypeOK, CountTypeOK
<1> QED BY <1>5, <1>6, <1>7, <1>8 DEF Destroy

LEMMA DoctorTypes ==
  ASSUME CampaignTypeOK, NEW p \in Procs, Doctor(p)
  PROVE  CampaignTypeOK'
<1> USE DEF CampaignTypeOK, Goto, Creating, Destroying
<1>1. CASE LockToSave(p)
  BY <1>1 DEF LockToSave, HostTypeOK, GuestTypeOK, ProcTypeOK, CountTypeOK, recordVars,
              archiveVars, history
<1>2. CASE Reload(p)
  BY <1>2, LoadedType DEF Reload, HostTypeOK, GuestTypeOK, ProcTypeOK, CountTypeOK,
              archiveVars, history
<1>3. CASE SaveHarness(p)
  <2>1. [copy[p] EXCEPT !.harness = TRUE] \in RecordValues
    BY DEF ProcTypeOK, RecordValues
  <2> QED BY <1>3, <2>1, SaveType DEF SaveHarness, HostTypeOK, GuestTypeOK, ProcTypeOK,
              CountTypeOK, archiveVars, history
<1> QED BY <1>1, <1>2, <1>3 DEF Doctor

LEMMA OutsideTypes ==
  ASSUME CampaignTypeOK, NEW m \in Members,
         MemberAnswers(m) \/ MachineLost(m) \/ OrchestratorLogs
  PROVE  CampaignTypeOK'
<1> USE DEF CampaignTypeOK
<1>1. /\ UNCHANGED <<recordVars, session, archiveVars, mirror, procVars, history>>
      /\ Fault \/ UNCHANGED bounds
  BY DEF MemberAnswers, MachineLost, OrchestratorLogs
<1>2. machine' \in [Members -> MachineValues]
  <2>1. machine[m] \in MachineValues /\ machine[Orchestrator] \in MachineValues
    BY OrchestratorIsMember DEF GuestTypeOK
  <2>2. CASE MemberAnswers(m)
    <3>1. PICK a \in Answers :
             machine' = [machine EXCEPT ![m] = [machine[m] EXCEPT !.answer = a,
                            !.read = machine[m].turn, !.turn = NoBrief]]
      BY <2>2 DEF MemberAnswers
    <3>2. [machine[m] EXCEPT !.answer = a, !.read = machine[m].turn, !.turn = NoBrief]
             \in MachineValues
      BY <2>1 DEF MachineValues, BriefOrNone
    <3> QED BY <3>1, <3>2 DEF GuestTypeOK
  <2>3. CASE MachineLost(m)
    BY <2>3, NoMachineType DEF MachineLost, GuestTypeOK
  <2>4. CASE OrchestratorLogs
    <3>1. [machine[Orchestrator] EXCEPT !.log = TRUE] \in MachineValues
      BY <2>1 DEF MachineValues
    <3>2. machine' = [machine EXCEPT ![Orchestrator] = [machine[Orchestrator] EXCEPT !.log = TRUE]]
      BY <2>4 DEF OrchestratorLogs
    <3> QED BY <3>1, <3>2 DEF GuestTypeOK
  <2> QED BY <2>2, <2>3, <2>4
<1> QED BY <1>1, <1>2, FaultType DEF HostTypeOK, GuestTypeOK, ProcTypeOK, CountTypeOK,
            recordVars, archiveVars, procVars, history

(* A process that goes elsewhere disturbs nobody's archive. *)
LEMMA ElsewhereStep ==
  ASSUME CampaignTypeOK, ArchivingOne, NEW p \in Procs, NEW s, s # "archive",
         Goto(p, s) \/ (UNCHANGED pc /\ pc[p] # "archive"),
         UNCHANGED work \/ \E w : work' = [work EXCEPT ![p] = w]
  PROVE  ArchivingOne'
<1>1. \A q \in Procs \ {p} : pc'[q] = pc[q] /\ work'[q] = work[q]
  BY DEF CampaignTypeOK, ProcTypeOK, Goto
<1>2. pc'[p] # "archive"
  BY DEF CampaignTypeOK, ProcTypeOK, Goto
<1> QED BY <1>1, <1>2 DEF ArchivingOne

LEMMA ArchivingCommand ==
  ASSUME CampaignTypeOK, ArchivingOne, NEW p \in Procs, Step(p),
         At(p, "lock") => cmd[p] \in {"create", "destroy", "doctor"}
  PROVE  ArchivingOne'
<1>1. CASE TakeLock(p)
  <2>1. UNCHANGED work /\ \E s \in {"adopt", "load", "reload"} : Goto(p, s)
    BY <1>1 DEF TakeLock
  <2> QED BY <2>1, ElsewhereStep
<1>2. CASE Unlock(p) \/ MergeLogMirror(p)
  BY <1>2, ElsewhereStep DEF Unlock, MergeLogMirror, Gone, Goto
<1>3. CASE Create(p)
  <2>1. \/ /\ pc[p] = "readback" /\ UNCHANGED pc
        \/ \E s \in {"list", "unlock", "boot", "forget", "configure", "orchestrate",
                     "readback", "manifest", "mission", "turn", "finish"} : Goto(p, s)
    <3>1. Adopt(p) \/ ListMembers(p) \/ Boot(p) \/ ForgetEarlierLife(p)
             => \E s \in {"list", "unlock", "boot", "configure", "forget"} : Goto(p, s)
      BY DEF Adopt, ListMembers, Boot, ForgetEarlierLife, FailCreate
    <3>2. ConfigureMember(p) \/ Orchestrate(p)
             => \E s \in {"unlock", "boot", "orchestrate", "readback"} : Goto(p, s)
      BY DEF ConfigureMember, Orchestrate, FailCreate
    <3>3. RecordOnOrchestrator(p) \/ OpenMission(p) \/ StartMission(p) \/ FinishCreate(p)
             => \E s \in {"unlock", "mission", "turn", "finish"} : Goto(p, s)
      BY DEF RecordOnOrchestrator, OpenMission, StartMission, FinishCreate, FailsThere,
             FailCreate
    <3>4. ASSUME NEW m \in Members,
                 KeepReadback(p, m) \/ AskReadback(p, m) \/ CannotAsk(p, m)
                    \/ JudgeReadback(p, m) \/ GiveUp(p, m)
          PROVE  pc[p] = "readback" /\ UNCHANGED pc
      BY <3>4 DEF KeepReadback, AskReadback, CannotAsk, JudgeReadback, GiveUp, Unanswered,
                  ReadbackUnchanged, StageIs, At
    <3>5. RecordReadbacks(p) => \E s \in {"manifest", "unlock"} : Goto(p, s)
      BY DEF RecordReadbacks
    <3> QED BY <1>3, <3>1, <3>2, <3>3, <3>4, <3>5 DEF Create, Readback
  <2>2. UNCHANGED work \/ \E w : work' = [work EXCEPT ![p] = w]
    <3>1. Adopt(p) \/ Boot(p) \/ ForgetEarlierLife(p) \/ Orchestrate(p)
             \/ RecordOnOrchestrator(p) \/ OpenMission(p) \/ StartMission(p) \/ FinishCreate(p)
             => UNCHANGED work
      BY DEF Adopt, Boot, ForgetEarlierLife, Orchestrate, RecordOnOrchestrator, OpenMission,
             StartMission, FinishCreate, OnOrchestrator
    <3>2. ListMembers(p) => UNCHANGED work \/ \E w : work' = [work EXCEPT ![p] = w]
      BY DEF ListMembers
    <3>3. ConfigureMember(p) => UNCHANGED work \/ \E w : work' = [work EXCEPT ![p] = w]
      BY DEF ConfigureMember
    <3>4. ASSUME NEW m \in Members,
                 KeepReadback(p, m) \/ AskReadback(p, m) \/ CannotAsk(p, m)
                    \/ JudgeReadback(p, m) \/ GiveUp(p, m)
          PROVE  \E w : work' = [work EXCEPT ![p] = w]
      BY <3>4 DEF KeepReadback, AskReadback, CannotAsk, JudgeReadback, GiveUp, Stage
    <3>5. RecordReadbacks(p) => \E w : work' = [work EXCEPT ![p] = w]
      BY DEF RecordReadbacks
    <3> QED BY <1>3, <3>1, <3>2, <3>3, <3>4, <3>5 DEF Create, Readback
  <2> QED BY <2>1, <2>2, ElsewhereStep
<1>4. CASE Destroy(p)
  <2>1. CASE LoadToDestroy(p)
    <3>1. CASE ~Recorded
      BY <2>1, <3>1, ElsewhereStep DEF LoadToDestroy
    <3>2. CASE Recorded
      <4>1. PICK archive \in BOOLEAN :
              /\ work' = [work EXCEPT ![p] = [work[p] EXCEPT !.archive = archive,
                                                 !.at = IF archive THEN 1 ELSE 0]]
              /\ Goto(p, IF archive THEN "archive" ELSE "scan")
        BY <2>1, <3>2 DEF LoadToDestroy
      <4>2. CASE ~archive
        BY <4>1, <4>2, ElsewhereStep
      <4>3. CASE archive
        <5>1. work'[p].at = 1
          BY <4>1, <4>3 DEF CampaignTypeOK, ProcTypeOK, WorkValues
        <5>2. \A q \in Procs \ {p} : pc'[q] = pc[q] /\ work'[q] = work[q]
          BY <4>1 DEF CampaignTypeOK, ProcTypeOK, Goto
        <5> QED BY <5>1, <5>2 DEF ArchivingOne
      <4> QED BY <4>2, <4>3
    <3> QED BY <3>1, <3>2
  <2>2. CASE ArchiveMember(p)
    <3>1. CASE MoreMembers(p)
      <4>1. work' = [work EXCEPT ![p] = [work[p] EXCEPT !.at = work[p].at + 1]] /\ UNCHANGED pc
        BY <2>2, <3>1 DEF ArchiveMember
      <4>2. work'[p].at = work[p].at + 1 /\ work[p].at \in Nat
        BY <4>1, RosterIsSeq DEF CampaignTypeOK, ProcTypeOK, WorkValues
      <4>3. \A q \in Procs \ {p} : work'[q] = work[q]
        BY <4>1 DEF CampaignTypeOK, ProcTypeOK
      <4> QED BY <4>1, <4>2, <4>3 DEF ArchivingOne
    <3>2. CASE ~MoreMembers(p)
      <4>1. (\E w : work' = [work EXCEPT ![p] = w]) /\ \E s \in {"scan", "unlock"} : Goto(p, s)
        BY <2>2, <3>2 DEF ArchiveMember, AfterArchive
      <4> QED BY <4>1, ElsewhereStep
    <3> QED BY <3>1, <3>2
  <2>3. CASE ScanMembers(p) \/ RemoveMember(p) \/ VerifyGone(p) \/ DeleteRecord(p)
    <3>1. \/ UNCHANGED pc /\ pc[p] = "remove"
          \/ \E s \in {"remove", "unlock", "delete"} : Goto(p, s)
      BY <2>3 DEF ScanMembers, RemoveMember, VerifyGone, DeleteRecord, At
    <3>2. UNCHANGED work \/ \E w : work' = [work EXCEPT ![p] = w]
      BY <2>3 DEF ScanMembers, RemoveMember, VerifyGone, DeleteRecord
    <3> QED BY <3>1, <3>2, ElsewhereStep
  <2> QED BY <1>4, <2>1, <2>2, <2>3 DEF Destroy
<1>5. CASE Doctor(p)
  <2>1. UNCHANGED work /\ \E s \in {"lock", "journal", "unlock"} : Goto(p, s)
    BY <1>5 DEF Doctor, LockToSave, Reload, SaveHarness
  <2> QED BY <2>1, ElsewhereStep
<1> QED BY <1>1, <1>2, <1>3, <1>4, <1>5 DEF Step

LEMMA ArchivingStep ==
  ASSUME CampaignTypeOK, ArchivingOne, [Next]_vars,
         \A p \in Procs : At(p, "lock") => cmd[p] \in {"create", "destroy", "doctor"}
  PROVE  ArchivingOne'
<1>1. ASSUME NEW p \in Procs, StartCreate(p) \/ StartDestroy(p) PROVE ArchivingOne'
  BY <1>1, ElsewhereStep DEF StartCreate, StartDestroy
<1>2. ASSUME NEW p \in Procs, StartDoctor(p) PROVE ArchivingOne'
  BY <1>2, ElsewhereStep DEF StartDoctor
<1>3. ASSUME NEW p \in Procs, StartObserve(p) PROVE ArchivingOne'
  BY <1>3, ElsewhereStep DEF StartObserve, Remember
<1>4. ASSUME NEW p \in Procs, Crash(p) PROVE ArchivingOne'
  BY <1>4, ElsewhereStep DEF Crash, Gone, Goto
<1>5. ASSUME NEW p \in Procs, NEW m \in Members, RestartReadback(p, m) PROVE ArchivingOne'
  BY <1>5 DEF RestartReadback, ReadbackUnchanged, ArchivingOne
<1>6. ASSUME NEW m \in Members, MemberAnswers(m) \/ MachineLost(m) PROVE ArchivingOne'
  BY <1>6 DEF MemberAnswers, MachineLost, procVars, ArchivingOne
<1>7. CASE OrchestratorLogs
  BY <1>7 DEF OrchestratorLogs, procVars, ArchivingOne
<1>8. CASE UNCHANGED vars
  BY <1>8 DEF vars, procVars, ArchivingOne
<1> QED BY <1>1, <1>2, <1>3, <1>4, <1>5, <1>6, <1>7, <1>8, ArchivingCommand DEF Next

LEMMA TypeStep ==
  ASSUME CampaignTypeOK, ArchivingOne, [Next]_vars,
         \A p \in Procs : At(p, "lock") => cmd[p] \in {"create", "destroy", "doctor"}
  PROVE  CampaignTypeOK'
<1>1. ASSUME NEW p \in Procs, Step(p) PROVE CampaignTypeOK'
  <2>1. TakeLock(p) => cmd[p] \in {"create", "destroy", "doctor"}
    BY DEF TakeLock
  <2>2. Create(p) => CampaignTypeOK'
    BY AdoptTypes, ProvisionTypes, ReadbackTypes, RecordTypes, FinishTypes
       DEF Create, Readback
  <2> QED BY <1>1, <2>1, <2>2, LockTypes, EndTypes, DestroyTypes, DoctorTypes DEF Step
<1>2. CASE UNCHANGED vars
  BY <1>2 DEF vars, procVars, history, CampaignTypeOK, HostTypeOK, GuestTypeOK, ProcTypeOK,
              CountTypeOK
<1>3. ASSUME NEW m \in Members, MemberAnswers(m) \/ MachineLost(m) PROVE CampaignTypeOK'
  BY <1>3, OutsideTypes
<1>4. OrchestratorLogs => CampaignTypeOK'
  BY OrchestratorIsMember, OutsideTypes
<1> QED BY <1>1, <1>2, <1>3, <1>4, StartTypes, EndTypes, ReadbackTypes DEF Next

(* A host before the first command. *)
LEMMA TypeInit == Init => CampaignTypeOK /\ ArchivingOne
<1> SUFFICES ASSUME Init PROVE CampaignTypeOK /\ ArchivingOne
  OBVIOUS
<1>1. Brief1 \in Briefs
  BY BriefsAreNamed DEF Brief1
<1>2. 0 \in 0..MaxBoots /\ 1 \in 0..MaxBoots /\ 0 \in 0..MaxCreates /\ 1 \in 0..MaxCreates
      /\ 0 \in 0..MaxAsks /\ 1 \in 0..MaxAsks
  BY BoundsArePositive
<1>3. CountTypeOK
  <2>1. /\ MaxCommands \in 0..MaxCommands /\ MaxLooks \in 0..MaxLooks
        /\ MaxFaults \in 0..MaxFaults
    BY CampaignBounds
  <2>2. bounds = [commands |-> MaxCommands, looks |-> MaxLooks, faults |-> MaxFaults,
                  boots |-> 1, camps |-> 1]
    BY DEF Init
  <2>3. abandoned = FALSE /\ lapsed = FALSE /\ staleTurn = FALSE
    BY DEF Init
  <2> QED BY <1>2, <2>1, <2>2, <2>3 DEF CountTypeOK
<1>4. ProcTypeOK /\ ArchivingOne
  BY NoRecordType, NoWorkType DEF Init, ProcTypeOK, ArchivingOne
<1>5. /\ record \in RecordValues
      /\ machine \in [Members -> MachineValues]
      /\ session \in [Members -> 0..MaxBoots]
      /\ mirror \subseteq 0..MaxCreates
  <2>1. CASE Remembered
    BY <1>2, <2>1, NoRecordType, NoMachineType DEF Remembered
  <2>2. CASE Running
    <3>1. Confirmed(1) \in Readbacks
      BY <1>1, <1>2 DEF Confirmed, Readbacks, BriefOrNone
    <3>2. record \in RecordValues
      BY <1>1, <1>2, <2>2, <3>1 DEF Running, RecordValues, BriefOrNone
    <3>3. machine \in [Members -> MachineValues]
      <4>1. ASSUME NEW m \in Members PROVE machine[m] \in MachineValues
        <5>1. \A n \in {0, 1} : [g \in Agents |-> n] \in [Agents -> 0..MaxAsks]
          BY <1>2
        <5>2. machine[m] = [NoMachine EXCEPT !.boot = 1, !.born = 1, !.brief = Brief1,
                 !.asked = 1, !.answer = "good", !.read = Brief1,
                 !.mission = IF m = Orchestrator THEN "running" ELSE "none",
                 !.named = [g \in Agents |-> IF m = Orchestrator THEN 1 ELSE 0],
                 !.log = m = Orchestrator]
          BY <2>2 DEF Running
        <5>3. [g \in Agents |-> IF m = Orchestrator THEN 1 ELSE 0] \in [Agents -> 0..MaxAsks]
          BY <1>2
        <5>4. (m = Orchestrator) \in BOOLEAN
          OBVIOUS
        <5> QED BY <1>1, <1>2, <5>2, <5>3, <5>4, NoMachineType
                DEF MachineValues, BriefOrNone, Answers
      <4>2. machine = [m \in Members |-> machine[m]]
        BY <2>2 DEF Running
      <4> QED BY <4>1, <4>2
    <3>4. session \in [Members -> 0..MaxBoots] /\ mirror \subseteq 0..MaxCreates
      BY <1>2, <2>2 DEF Running
    <3> QED BY <3>2, <3>3, <3>4
  <2> QED BY <2>1, <2>2 DEF Init
<1>6. HostTypeOK /\ GuestTypeOK
  BY <1>2, <1>5 DEF Init, HostTypeOK, GuestTypeOK
<1> QED BY <1>3, <1>4, <1>6 DEF CampaignTypeOK
=============================================================================
