---------------------------- MODULE MissionProofs ----------------------------
(***************************************************************************)
(* Proofs about what a campaign is when its mission opens: on which        *)
(* sessions turns were started, whose answers the record holds, what the   *)
(* manifest names, and what a destroy may take away.  Most of it rests on  *)
(* a command being alone inside the lock, as CampaignProofs shows it is    *)
(* until a destroy's unlink has raced a waiter.                            *)
(***************************************************************************)
EXTENDS CampaignProofs

(* While a campaign is recorded, the host's copy of its log loses nothing: *)
(* only a create that found no record starts it anew.                      *)
LEMMA MirrorStep ==
  ASSUME [Next]_vars, Recorded PROVE mirror \subseteq mirror'
<1>1. ASSUME NEW p \in Procs, Step(p) PROVE mirror \subseteq mirror'
  <2>1. Create(p) => mirror \subseteq mirror'
    <3>1. Adopt(p) => mirror \subseteq mirror'
      BY DEF Adopt, MirrorReset
    <3>2. Readback(p) => UNCHANGED mirror
      BY DEF Readback, KeepReadback, AskReadback, CannotAsk, JudgeReadback, GiveUp,
             RecordReadbacks, ReadbackUnchanged
    <3>3. RecordOnOrchestrator(p) \/ OpenMission(p) \/ StartMission(p) \/ FinishCreate(p)
             => UNCHANGED mirror
      BY DEF RecordOnOrchestrator, OpenMission, StartMission, FinishCreate, OnOrchestrator
    <3> QED BY <3>1, <3>2, <3>3
            DEF Create, ListMembers, Boot, ForgetEarlierLife, ConfigureMember, Orchestrate
  <2>2. Destroy(p) \/ Doctor(p) => UNCHANGED mirror
    BY DEF Destroy, LoadToDestroy, ArchiveMember, ScanMembers, RemoveMember, VerifyGone,
           DeleteRecord, Doctor, LockToSave, Reload, SaveHarness
  <2>3. TakeLock(p) \/ Unlock(p) \/ MergeLogMirror(p) => mirror \subseteq mirror'
    BY DEF TakeLock, Unlock, MergeLogMirror
  <2> QED BY <1>1, <2>1, <2>2, <2>3 DEF Step
<1>2. ASSUME NEW p \in Procs,
             \/ StartCreate(p) \/ StartDestroy(p) \/ StartDoctor(p) \/ StartObserve(p)
             \/ Crash(p) \/ \E m \in Members : RestartReadback(p, m)
      PROVE  UNCHANGED mirror
  BY <1>2 DEF StartCreate, StartDestroy, StartDoctor, StartObserve, Crash, RestartReadback,
              ReadbackUnchanged
<1>3. ASSUME NEW m \in Members, MemberAnswers(m) \/ MachineLost(m) PROVE UNCHANGED mirror
  BY <1>3 DEF MemberAnswers, MachineLost
<1>4. OrchestratorLogs => UNCHANGED mirror
  BY DEF OrchestratorLogs
<1>5. UNCHANGED vars => UNCHANGED mirror
  BY DEF vars
<1> QED BY <1>1, <1>2, <1>3, <1>4, <1>5 DEF Next

(* The host's copy of a campaign's log never loses a line while the         *)
(* campaign is recorded, whoever observes or creates (mergeLogMirror).     *)
THEOREM BackupStaysHolds == Spec => BackupStays
<1>1. [Next]_vars => [Recorded /\ record'.camp = record.camp => mirror \subseteq mirror']_vars
  BY MirrorStep
<1> QED BY <1>1, PTL DEF Spec, BackupStays

-----------------------------------------------------------------------------
(* What a process leaves alone when it goes on: the others' places.        *)
Others(p) == \A q \in Procs \ {p} :
                pc'[q] = pc[q] /\ copy'[q] = copy[q] /\ work'[q] = work[q]

(* No process of these is at its readback. *)
AllToAsk(w) == w.stage = NoWork.stage

StagesFresh == \A p \in Procs : pc[p] # "readback" => AllToAsk(work[p])

(* What a step does to the processes: one of them goes on, and enters its  *)
(* readback with nobody asked yet.                                         *)
LEMMA ProcStep ==
  ASSUME Typed, NEW p \in Procs,
         \/ StartCreate(p) \/ StartDestroy(p) \/ StartDoctor(p) \/ StartObserve(p)
         \/ Step(p) \/ Crash(p) \/ \E m \in Members : RestartReadback(p, m)
  PROVE  /\ Others(p)
         /\ StagesFresh => StagesFresh'
<1> USE DEF Goto, Others
<1>0. /\ pc \in [Procs -> Steps] /\ work \in [Procs -> WorkValues]
      /\ copy \in [Procs -> RecordValues]
  BY DEF Typed, WriteInv, WriteTypes, CampaignTypeOK, ProcTypeOK
<1> DEFINE Goes1 == /\ \A q \in Procs \ {p} : pc'[q] = pc[q] /\ copy'[q] = copy[q]
           Keeps == work'[p].stage = work[p].stage /\ \A q \in Procs \ {p} : work'[q] = work[q]
           Done == Others(p) /\ (StagesFresh => StagesFresh')
<1> SUFFICES Done
  OBVIOUS
<1>1. ASSUME Goes1, pc[p] # "readback", Keeps PROVE Done
  BY <1>0, <1>1 DEF StagesFresh, AllToAsk
<1>2. UNCHANGED work => Keeps
  OBVIOUS
<1>3. ASSUME NEW w, w.stage = work[p].stage, work' = [work EXCEPT ![p] = w] PROVE Keeps
  BY <1>0, <1>3
<1>4. ASSUME UNCHANGED copy \/ \E r : copy' = [copy EXCEPT ![p] = r],
             UNCHANGED pc \/ \E s : pc' = [pc EXCEPT ![p] = s]
      PROVE  Goes1
  BY <1>0, <1>4
<1>5. work[p] \in WorkValues
  BY <1>0
<1> HIDE DEF Goes1, Keeps, Done
<1>6. CASE StartCreate(p) \/ StartDestroy(p) \/ StartDoctor(p) \/ StartObserve(p)
  <2>1. pc[p] # "readback" /\ \E s : pc' = [pc EXCEPT ![p] = s]
    BY <1>6 DEF StartCreate, StartDestroy, StartDoctor, StartObserve, Begin, At
  <2>2. UNCHANGED copy \/ \E r : copy' = [copy EXCEPT ![p] = r]
    BY <1>6 DEF StartCreate, StartDestroy, StartDoctor, StartObserve, Loaded
  <2>3. Keeps
    <3>1. CASE StartObserve(p)
      <4>1. PICK v : work' = [work EXCEPT ![p] = [work[p] EXCEPT !.seen = v]]
        BY <3>1 DEF StartObserve, Remember
      <4>2. [work[p] EXCEPT !.seen = v].stage = work[p].stage
        BY <1>5 DEF WorkValues
      <4> QED BY <1>3, <4>1, <4>2
    <3> QED BY <1>2, <1>6, <3>1 DEF StartCreate, StartDestroy, StartDoctor
  <2> QED BY <1>1, <1>4, <2>1, <2>2, <2>3
<1>7. CASE TakeLock(p) \/ Doctor(p)
  <2>1. pc[p] # "readback" /\ UNCHANGED work /\ \E s : pc' = [pc EXCEPT ![p] = s]
    BY <1>7 DEF TakeLock, Doctor, LockToSave, Reload, SaveHarness, At
  <2>2. UNCHANGED copy \/ \E r : copy' = [copy EXCEPT ![p] = r]
    BY <1>7 DEF TakeLock, Doctor, LockToSave, Reload, SaveHarness, Loaded
  <2> QED BY <1>1, <1>2, <1>4, <2>1, <2>2
<1>8. CASE Unlock(p) \/ MergeLogMirror(p) \/ Crash(p)
  <2>1. Gone(p)
    BY <1>8 DEF Unlock, MergeLogMirror, Crash
  <2> QED BY <1>0, <2>1 DEF Gone, Done, StagesFresh, AllToAsk
<1>9. CASE Adopt(p) \/ ListMembers(p) \/ Boot(p) \/ ForgetEarlierLife(p) \/ Orchestrate(p)
  <2>1. pc[p] # "readback" /\ \E s : pc' = [pc EXCEPT ![p] = s]
    BY <1>9 DEF Adopt, ListMembers, Boot, ForgetEarlierLife, Orchestrate, FailCreate, At
  <2>2. UNCHANGED copy \/ \E r : copy' = [copy EXCEPT ![p] = r]
    BY <1>9 DEF Adopt, ListMembers, Boot, ForgetEarlierLife, Orchestrate, Loaded
  <2>3. Keeps
    <3>1. CASE ListMembers(p) /\ ~UNCHANGED work
      <4>1. PICK b : work' = [work EXCEPT ![p] = [work[p] EXCEPT !.live = Standing, !.at = 1,
                                                                 !.brief = b]]
        BY <3>1 DEF ListMembers
      <4>2. [work[p] EXCEPT !.live = Standing, !.at = 1, !.brief = b].stage = work[p].stage
        BY <1>5 DEF WorkValues
      <4> QED BY <1>3, <4>1, <4>2
    <3> QED BY <1>2, <1>9, <3>1 DEF Adopt, Boot, ForgetEarlierLife, Orchestrate
  <2> QED BY <1>1, <1>4, <2>1, <2>2, <2>3
<1>10. CASE ConfigureMember(p)
  <2>1. pc[p] # "readback" /\ \E s : pc' = [pc EXCEPT ![p] = s]
    BY <1>10 DEF ConfigureMember, FailCreate, At
  <2>2. UNCHANGED copy \/ \E r : copy' = [copy EXCEPT ![p] = r]
    BY <1>10 DEF ConfigureMember
  <2>3. \/ UNCHANGED work
        \/ work' = [work EXCEPT ![p] = [work[p] EXCEPT !.at = work[p].at + 1]]
        \/ work' = [work EXCEPT ![p] = [work[p] EXCEPT !.at = 0, !.live = {}]]
    BY <1>10 DEF ConfigureMember
  <2>4. /\ [work[p] EXCEPT !.at = work[p].at + 1].stage = work[p].stage
        /\ [work[p] EXCEPT !.at = 0, !.live = {}].stage = work[p].stage
    BY <1>5 DEF WorkValues
  <2>5. Keeps
    BY <1>2, <1>3, <2>3, <2>4
  <2> QED BY <1>1, <1>4, <2>1, <2>2, <2>5
<1>11. ASSUME NEW m \in Members,
              KeepReadback(p, m) \/ AskReadback(p, m) \/ CannotAsk(p, m)
                 \/ JudgeReadback(p, m) \/ GiveUp(p, m) \/ RestartReadback(p, m)
       PROVE  Done
  <2>1. UNCHANGED <<copy, pc>> /\ pc[p] = "readback"
    BY <1>11 DEF KeepReadback, AskReadback, CannotAsk, JudgeReadback, GiveUp,
                 RestartReadback, ReadbackUnchanged, Unanswered, StageIs, At
  <2>2. UNCHANGED work \/ \E w : work' = [work EXCEPT ![p] = w]
    BY <1>11 DEF KeepReadback, AskReadback, CannotAsk, JudgeReadback, GiveUp,
                 RestartReadback, Stage
  <2> QED BY <1>0, <2>1, <2>2 DEF Done, StagesFresh
<1>12. CASE RecordReadbacks(p)
  <2>1. /\ \E r : copy' = [copy EXCEPT ![p] = r]
        /\ \E s : pc' = [pc EXCEPT ![p] = s]
        /\ work' = [work EXCEPT ![p] = NoWork]
    BY <1>12 DEF RecordReadbacks
  <2> QED BY <1>0, <2>1 DEF Done, StagesFresh, AllToAsk
<1>13. CASE RecordOnOrchestrator(p) \/ OpenMission(p) \/ StartMission(p) \/ FinishCreate(p)
  <2>1. UNCHANGED <<copy, work>> /\ pc[p] # "readback" /\ \E s : pc' = [pc EXCEPT ![p] = s]
    BY <1>13 DEF RecordOnOrchestrator, OpenMission, StartMission, FinishCreate,
                 OnOrchestrator, FailsThere, FailCreate, At
  <2> QED BY <1>1, <1>2, <1>4, <2>1
<1>14. CASE Destroy(p)
  <2>1. /\ pc[p] # "readback"
        /\ UNCHANGED pc \/ \E s : pc' = [pc EXCEPT ![p] = s]
        /\ UNCHANGED copy \/ \E r : copy' = [copy EXCEPT ![p] = r]
    BY <1>14 DEF Destroy, LoadToDestroy, ArchiveMember, ScanMembers, RemoveMember, VerifyGone,
                 DeleteRecord, Loaded, At
  <2>2. Keeps
    <3>1. CASE LoadToDestroy(p) /\ ~UNCHANGED work
      <4>1. PICK u \in BOOLEAN :
               work' = [work EXCEPT ![p].archive = u, ![p].at = IF u THEN 1 ELSE 0]
        BY <3>1, Zenon DEF LoadToDestroy
      <4>2. \A v : [work[p] EXCEPT !.archive = u, !.at = v].stage = work[p].stage
        BY <1>5 DEF WorkValues
      <4> QED BY <1>3, <4>1, <4>2
    <3>2. CASE ArchiveMember(p)
      <4>1. PICK v : work' = [work EXCEPT ![p] = [work[p] EXCEPT !.at = v]]
        BY <3>2 DEF ArchiveMember
      <4>2. [work[p] EXCEPT !.at = v].stage = work[p].stage
        BY <1>5 DEF WorkValues
      <4> QED BY <1>3, <4>1, <4>2
    <3>3. CASE (ScanMembers(p) \/ RemoveMember(p)) /\ ~UNCHANGED work
      <4>1. PICK v : work' = [work EXCEPT ![p].live = v]
        <5>1. ScanMembers(p) => UNCHANGED work \/ work' = [work EXCEPT ![p].live = Standing]
          BY DEF ScanMembers
        <5>2. RemoveMember(p) => \/ UNCHANGED work
                                 \/ \E m : work' = [work EXCEPT ![p].live = @ \ {m}]
          BY Zenon DEF RemoveMember
        <5> QED BY <3>3, <5>1, <5>2
      <4>2. [work[p] EXCEPT !.live = v].stage = work[p].stage
        BY <1>5 DEF WorkValues
      <4> QED BY <1>3, <4>1, <4>2
    <3> QED BY <1>2, <1>14, <3>1, <3>2, <3>3 DEF Destroy, VerifyGone, DeleteRecord
  <2> QED BY <1>1, <1>4, <2>1, <2>2
<1> QED BY <1>6, <1>7, <1>8, <1>9, <1>10, <1>11, <1>12, <1>13, <1>14
        DEF Step, Create, Readback

-----------------------------------------------------------------------------
(* The machines, whether or not commands race.  What is not there holds    *)
(* nothing; only the orchestrator is ever given the mission; and a machine *)
(* whose turn runs, or has answered, is the one the host's session is on.  *)
Answered(mc) == mc.turn # NoBrief \/ mc.answer # NoAnswer
OnSession(m) == session[m] \in {0, machine[m].boot}

GuestOf(m) ==
  /\ ~Present(m) => ~Answered(machine[m]) /\ ~MissionOpen(machine[m])
  /\ m \in Agents => ~MissionOpen(machine[m])
  /\ Present(m) /\ Answered(machine[m]) => OnSession(m)

GuestInv == StagesFresh /\ \A m \in Members : GuestOf(m)

(* What each operation leaves on a machine, field by field.                *)
Like(nc, mc) ==
  /\ nc.boot = mc.boot /\ nc.asked = mc.asked /\ nc.answer = mc.answer /\ nc.read = mc.read
  /\ nc.turn = mc.turn /\ nc.mission = mc.mission /\ nc.crossed = mc.crossed

LEMMA OperationFields ==
  ASSUME NEW mc \in MachineValues
  PROVE  /\ \A b : Like(Configured(mc, b), mc) /\ Configured(mc, b).brief = b
         /\ \A r : /\ Like(Manifested(mc, r), mc) /\ Manifested(mc, r).brief = mc.brief
                   /\ Manifested(mc, r).named =
                         [a \in Agents |-> IF r[a].passed THEN r[a].dispatch ELSE 0]
         /\ \A b : /\ Like([mc EXCEPT !.log = b], mc) /\ [mc EXCEPT !.log = b].brief = mc.brief
                   /\ [mc EXCEPT !.log = b].named = mc.named
BY DEF Configured, Manifested, Like, MachineValues

LEMMA TurnFields ==
  ASSUME NEW mc \in MachineValues, NEW nc, nc = Turned(mc)
  PROVE  /\ nc.boot = mc.boot /\ nc.brief = mc.brief /\ nc.asked = mc.asked
         /\ nc.answer = mc.answer /\ nc.read = mc.read /\ nc.turn = mc.brief
         /\ nc.mission = mc.mission /\ nc.crossed = mc.crossed /\ nc.named = mc.named
BY DEF Turned, MachineValues

LEMMA AskedFields ==
  ASSUME NEW mc \in MachineValues, NEW nc, nc = Asked(mc)
  PROVE  /\ nc.boot = mc.boot /\ nc.brief = mc.brief /\ nc.turn = mc.turn
         /\ nc.mission = mc.mission /\ nc.named = mc.named
         /\ MissionOpen(mc) => nc.asked = mc.asked /\ nc.answer = mc.answer /\ nc.read = mc.read
         /\ ~MissionOpen(mc) => /\ nc.asked = SendTarget(mc) /\ nc.asked # 0
                                /\ nc.answer = NoAnswer /\ nc.read = NoBrief
                                /\ nc.crossed = mc.crossed
<1>1. SendTarget(mc) # 0
  BY DEF SendTarget, ReadbackOpen, MachineValues
<1> QED BY <1>1 DEF Asked, MachineValues

LEMMA MissionFields ==
  ASSUME NEW mc \in MachineValues, NEW v, NEW nc, nc = [mc EXCEPT !.mission = v]
  PROVE  /\ nc.boot = mc.boot /\ nc.brief = mc.brief /\ nc.asked = mc.asked
         /\ nc.answer = mc.answer /\ nc.read = mc.read /\ nc.turn = mc.turn
         /\ nc.mission = v /\ nc.crossed = mc.crossed /\ nc.named = mc.named
BY DEF MachineValues

(* No machine, and one that was just made.                                 *)
LEMMA NewFields ==
  /\ ~Up(NoMachine) /\ ~Answered(NoMachine) /\ NoMachine.mission = "none" /\ ~NoMachine.crossed
  /\ \A i, c : LET nc == Booted(i, c) IN
        /\ nc.boot = i /\ nc.asked = 0 /\ ~Answered(nc) /\ nc.mission = "none" /\ ~nc.crossed
BY DEF NoMachine, Booted, Up, Answered

(* The machine of one member is put in another's place, and so a session.  *)
Puts(k, nc) == /\ machine'[k] = nc
               /\ \A m \in Members \ {k} : machine'[m] = machine[m]

LEMMA PutOne ==
  ASSUME Typed, NEW k \in Members, NEW nc, machine' = [machine EXCEPT ![k] = nc]
  PROVE  Puts(k, nc)
BY DEF Puts, Typed, CampaignTypeOK, GuestTypeOK

LEMMA MachineTyped == ASSUME Typed PROVE \A m \in Members : machine[m] \in MachineValues
BY DEF Typed, CampaignTypeOK, GuestTypeOK

(* startTurn runs the turn where the session is, and only there.           *)
LEMMA StartTurnSays ==
  ASSUME Typed, NEW k \in Members, NEW wait, NEW run, wait.boot = machine[k].boot,
         StartTurn(k, wait, run)
  PROVE  /\ OnSession(k) => Puts(k, run) /\ session'[k] = machine[k].boot
                            /\ staleTurn' = staleTurn
         /\ ~OnSession(k) => Puts(k, wait) /\ session'[k] = session[k]
         /\ \A m \in Members \ {k} : session'[m] = session[m]
<1>1. machine \in [Members -> MachineValues] /\ session \in [Members -> 0..MaxBoots]
      /\ staleTurn \in BOOLEAN
  BY DEF Typed, CampaignTypeOK, GuestTypeOK, CountTypeOK
<1>2. wait.boot \in 0..MaxBoots
  BY <1>1 DEF MachineValues
<1>3. session'[k] = (IF session[k] = 0 THEN wait.boot ELSE session[k])
      /\ \A m \in Members \ {k} : session'[m] = session[m]
  BY <1>1 DEF StartTurn
<1>4. machine' = [machine EXCEPT ![k] = IF OnSession(k) THEN run ELSE wait]
  BY DEF StartTurn, OnSession
<1>5. staleTurn' = (staleTurn \/ ~OnSession(k))
  BY DEF StartTurn, OnSession
<1> QED BY <1>1, <1>2, <1>3, <1>4, <1>5, PutOne DEF OnSession

LEMMA GuestStill ==
  ASSUME NEW m \in Members, GuestOf(m), Like(machine'[m], machine[m]),
         session'[m] \in {session[m], 0}
  PROVE  GuestOf(m)'
BY DEF GuestOf, Like, Present, Up, Answered, MissionOpen, OnSession

LEMMA GuestSame ==
  ASSUME NEW m \in Members, GuestOf(m), machine'[m] = machine[m],
         session'[m] \in {session[m], 0}
  PROVE  GuestOf(m)'
BY GuestStill DEF Like

(* A machine is made, or is gone.                                          *)
LEMMA GuestNew ==
  ASSUME NEW m \in Members, machine'[m] = NoMachine \/ \E i, c : machine'[m] = Booted(i, c)
  PROVE  GuestOf(m)'
BY NewFields DEF GuestOf, Answered, MissionOpen

LEMMA GuestTurns ==
  ASSUME Typed, GuestInv, NEW p \in Procs, NEW k \in Members,
         AskReadback(p, k) \/ RestartReadback(p, k)
  PROVE  \A m \in Members : GuestOf(m)'
<1> DEFINE mc == machine[k]
           ac == Asked(mc)
<1>1. mc \in MachineValues /\ Present(k) /\ GuestOf(k)
  BY MachineTyped DEF AskReadback, RestartReadback, GuestInv
<1>2. ASSUME NEW m \in Members \ {k}, machine'[m] = machine[m], session'[m] = session[m]
      PROVE  GuestOf(m)'
  BY <1>2, GuestSame DEF GuestInv
<1> HIDE DEF mc, ac
<1>3. CASE AskReadback(p, k)
  <2>1. /\ ac.boot = mc.boot /\ ac.turn = mc.turn /\ ac.mission = mc.mission
        /\ MissionOpen(mc) => ac.answer = mc.answer
        /\ ~MissionOpen(mc) => ac.answer = NoAnswer
        /\ ac \in MachineValues
    BY <1>1, <1>3, AskedFields, AskedType DEF ac, mc, AskReadback
  <2>2. ASSUME machine'[k] = ac, session'[k] = session[k] PROVE GuestOf(k)'
    BY <1>1, <2>1, <2>2 DEF mc, GuestOf, Present, Up, Answered, MissionOpen, OnSession
  <2>3. CASE StartTurn(k, ac, Turned(ac))
    <3>1. CASE OnSession(k)
      <4>1. Puts(k, Turned(ac)) /\ session'[k] = machine[k].boot
            /\ \A m \in Members \ {k} : session'[m] = session[m]
        BY <2>1, <2>3, <3>1, StartTurnSays DEF mc
      <4>2. Turned(ac).boot = mc.boot /\ Turned(ac).mission = mc.mission
        BY <2>1, TurnFields
      <4>3. GuestOf(k)'
        BY <1>1, <4>1, <4>2 DEF mc, Puts, GuestOf, Present, Up, MissionOpen, OnSession
      <4> QED BY <1>2, <4>1, <4>3 DEF Puts
    <3>2. CASE ~OnSession(k)
      <4>1. Puts(k, ac) /\ \A m \in Members : session'[m] = session[m]
        BY <2>1, <2>3, <3>2, StartTurnSays DEF mc
      <4> QED BY <1>2, <2>2, <4>1 DEF Puts
    <3> QED BY <3>1, <3>2
  <2>4. CASE machine' = [machine EXCEPT ![k] = ac] /\ UNCHANGED session
    BY <1>2, <2>2, <2>4, PutOne DEF Puts
  <2> QED BY <1>3, <2>3, <2>4 DEF AskReadback, ac, mc
<1>4. CASE RestartReadback(p, k)
  <2>1. Puts(k, Turned(mc))
    BY <1>4, PutOne DEF RestartReadback, mc
  <2>2. session'[k] = mc.boot /\ \A m \in Members \ {k} : session'[m] = session[m]
    BY <1>4 DEF RestartReadback, mc, Typed, CampaignTypeOK, GuestTypeOK
  <2>3. Turned(mc).boot = mc.boot /\ Turned(mc).mission = mc.mission
    BY <1>1, TurnFields
  <2>4. GuestOf(k)'
    BY <1>1, <2>1, <2>2, <2>3 DEF mc, Puts, GuestOf, Present, Up, MissionOpen, OnSession
  <2> QED BY <1>2, <2>1, <2>2, <2>4 DEF Puts
<1> QED BY <1>3, <1>4

LEMMA GuestOpens ==
  ASSUME Typed, GuestInv, NEW p \in Procs,
         \/ OpenMission(p) \/ StartMission(p) \/ RecordOnOrchestrator(p) \/ FinishCreate(p)
  PROVE  \A m \in Members : GuestOf(m)'
<1> DEFINE k == Orchestrator
           mc == machine[k]
<1>1. k \in Members \ Agents /\ mc \in MachineValues /\ GuestOf(k)
  BY OrchestratorIsMember, MachineTyped DEF Agents, GuestInv
<1>2. ASSUME NEW m \in Members, machine'[m] = machine[m], session'[m] = session[m]
      PROVE  GuestOf(m)'
  BY <1>2, GuestSame DEF GuestInv
<1>3. ASSUME NEW v, NEW nc, nc = [mc EXCEPT !.mission = v], Present(k), machine'[k] = nc,
             session'[k] = session[k] \/ (session[k] = 0 /\ session'[k] = mc.boot)
      PROVE  GuestOf(k)'
  <2>1. nc.boot = mc.boot /\ nc.answer = mc.answer /\ nc.turn = mc.turn
    BY <1>1, <1>3, MissionFields
  <2> QED BY <1>1, <1>3, <2>1 DEF GuestOf, Present, Up, Answered, OnSession
<1> HIDE DEF k, mc
<1>4. CASE UNCHANGED <<machine, session>>
  BY <1>2, <1>4
<1>5. CASE RecordOnOrchestrator(p) /\ ~UNCHANGED <<machine, session>>
  <2>1. machine' = [machine EXCEPT ![k] = Manifested(mc, copy[p].readback)] /\ UNCHANGED session
    BY <1>5 DEF RecordOnOrchestrator, FailsThere, k, mc
  <2>2. Puts(k, Manifested(mc, copy[p].readback))
    BY <1>1, <2>1, PutOne
  <2>3. Like(Manifested(mc, copy[p].readback), mc)
    BY <1>1, OperationFields
  <2> QED BY <1>1, <1>2, <2>1, <2>2, <2>3, GuestStill DEF Puts, mc
<1>6. CASE OpenMission(p) /\ ~UNCHANGED <<machine, session>>
  <2>1. /\ machine' = [machine EXCEPT ![k] = [mc EXCEPT !.mission = "put"]]
        /\ Present(k) /\ UNCHANGED session
    BY <1>6 DEF OpenMission, FailsThere, k, mc
  <2>2. Puts(k, [mc EXCEPT !.mission = "put"])
    BY <1>1, <2>1, PutOne
  <2> QED BY <1>2, <1>3, <2>1, <2>2 DEF Puts
<1>7. CASE StartMission(p) /\ ~UNCHANGED <<machine, session>>
  <2>1. StartTurn(k, mc, [mc EXCEPT !.mission = "running"]) /\ Present(k)
    BY <1>7 DEF StartMission, FailsThere, k, mc
  <2>2. CASE OnSession(k)
    <3>1. /\ Puts(k, [mc EXCEPT !.mission = "running"]) /\ session'[k] = mc.boot
          /\ \A m \in Members \ {k} : session'[m] = session[m]
      BY <1>1, <2>1, <2>2, StartTurnSays DEF mc
    <3>2. session'[k] = session[k] \/ (session[k] = 0 /\ session'[k] = mc.boot)
      BY <2>2, <3>1 DEF OnSession, mc
    <3> QED BY <1>2, <1>3, <2>1, <3>1, <3>2 DEF Puts
  <2>3. CASE ~OnSession(k)
    <3>1. Puts(k, mc) /\ \A m \in Members : session'[m] = session[m]
      BY <1>1, <2>1, <2>3, StartTurnSays DEF mc
    <3> QED BY <1>2, <3>1 DEF Puts, mc
  <2> QED BY <2>2, <2>3
<1> QED BY <1>4, <1>5, <1>6, <1>7 DEF FinishCreate

LEMMA GuestProvisions ==
  ASSUME Typed, GuestInv, NEW p \in Procs,
         Boot(p) \/ ForgetEarlierLife(p) \/ ConfigureMember(p) \/ Orchestrate(p)
            \/ RecordReadbacks(p) \/ RemoveMember(p) \/ VerifyGone(p)
  PROVE  \A m \in Members : GuestOf(m)'
<1>0. machine \in [Members -> MachineValues] /\ session \in [Members -> 0..MaxBoots]
  BY DEF Typed, CampaignTypeOK, GuestTypeOK
<1>1. ASSUME UNCHANGED machine, \A m \in Members : session'[m] \in {session[m], 0}
      PROVE  \A m \in Members : GuestOf(m)'
  BY <1>1, GuestSame DEF GuestInv
<1>2. CASE Boot(p)
  <2>1. UNCHANGED session
    BY <1>2 DEF Boot
  <2>2. \/ UNCHANGED machine
        \/ \E i, c : machine' = [machine EXCEPT ![MemberAt(p)] = Booted(i, c)]
    BY <1>2 DEF Boot
  <2>3. \A m \in Members : machine'[m] = machine[m] \/ \E i, c : machine'[m] = Booted(i, c)
    BY <1>0, <2>2
  <2> QED BY <2>1, <2>3, GuestSame, GuestNew DEF GuestInv
<1>3. CASE ForgetEarlierLife(p)
  BY <1>0, <1>1, <1>3 DEF ForgetEarlierLife, EarlierLifeForgotten
<1>4. CASE ConfigureMember(p)
  <2>1. UNCHANGED session
    BY <1>4 DEF ConfigureMember
  <2>2. \/ UNCHANGED machine
        \/ \E k, b : machine' = [machine EXCEPT ![k] = Configured(machine[k], b)]
    BY <1>4 DEF ConfigureMember
  <2>3. \A m \in Members : Like(machine'[m], machine[m])
    <3>1. \A m \in Members : \/ machine'[m] = machine[m]
                             \/ \E b : machine'[m] = Configured(machine[m], b)
      BY <1>0, <2>2
    <3> QED BY <1>0, <3>1, OperationFields DEF Like
  <2> QED BY <2>1, <2>3, GuestStill DEF GuestInv
<1>5. CASE Orchestrate(p)
  <2>1. UNCHANGED session
    BY <1>5 DEF Orchestrate
  <2>2. \A m \in Members : \/ machine'[m] = machine[m]
                           \/ \E r : machine'[m] = Manifested(machine[m], r)
    BY <1>0, <1>5 DEF Orchestrate
  <2>3. \A m \in Members : \A r : Like(Manifested(machine[m], r), machine[m])
    BY <1>0, OperationFields
  <2>4. \A m \in Members : Like(machine[m], machine[m])
    BY DEF Like
  <2>5. \A m \in Members : Like(machine'[m], machine[m])
    BY <2>2, <2>3, <2>4
  <2> QED BY <2>1, <2>5, GuestStill DEF GuestInv
<1>6. CASE RecordReadbacks(p)
  <2>1. UNCHANGED machine /\ \A m \in Members : session'[m] \in {session[m], 0}
    BY <1>6 DEF RecordReadbacks
  <2> QED BY <1>1, <2>1
<1>7. CASE RemoveMember(p)
  <2>1. UNCHANGED session
    BY <1>7 DEF RemoveMember
  <2>2. UNCHANGED machine \/ \E k : machine' = [machine EXCEPT ![k] = NoMachine]
    BY <1>7 DEF RemoveMember
  <2>3. \A m \in Members : machine'[m] = machine[m] \/ machine'[m] = NoMachine
    BY <1>0, <2>2
  <2> QED BY <2>1, <2>3, GuestSame, GuestNew DEF GuestInv
<1>8. CASE VerifyGone(p)
  <2>1. UNCHANGED machine /\ \A m \in Members : session'[m] \in {session[m], 0}
    BY <1>8 DEF VerifyGone
  <2> QED BY <1>1, <2>1
<1> QED BY <1>2, <1>3, <1>4, <1>5, <1>6, <1>7, <1>8

(* What the members do, and what befalls them.                             *)
LEMMA GuestOutside ==
  ASSUME Typed, GuestInv, NEW k \in Members,
         MemberAnswers(k) \/ MachineLost(k) \/ OrchestratorLogs
  PROVE  \A m \in Members : GuestOf(m)'
<1>0. machine \in [Members -> MachineValues] /\ UNCHANGED session
  BY DEF Typed, CampaignTypeOK, GuestTypeOK, MemberAnswers, MachineLost, OrchestratorLogs
<1>1. ASSUME NEW m \in Members, machine'[m] = machine[m] PROVE GuestOf(m)'
  BY <1>0, <1>1, GuestSame DEF GuestInv
<1>2. CASE MemberAnswers(k)
  <2>1. PICK a : machine' = [machine EXCEPT ![k] =
                    [machine[k] EXCEPT !.answer = a, !.read = machine[k].turn, !.turn = NoBrief]]
    BY <1>2 DEF MemberAnswers
  <2> DEFINE nc == [machine[k] EXCEPT !.answer = a, !.read = machine[k].turn, !.turn = NoBrief]
  <2>2. /\ machine[k] \in MachineValues
        /\ nc = [machine[k] EXCEPT !.answer = a, !.read = machine[k].turn, !.turn = NoBrief]
    BY <1>0
  <2>3. Puts(k, nc)
    BY <2>1, PutOne
  <2>4. machine[k].turn # NoBrief /\ GuestOf(k)
    BY <1>2 DEF MemberAnswers, GuestInv
  <2> HIDE DEF nc
  <2>5. nc.boot = machine[k].boot /\ nc.mission = machine[k].mission
    BY <2>2 DEF MachineValues
  <2>6. GuestOf(k)'
    BY <1>0, <2>3, <2>4, <2>5
       DEF Puts, GuestOf, Present, Up, Answered, MissionOpen, OnSession
  <2> QED BY <1>1, <2>3, <2>6 DEF Puts
<1>3. CASE MachineLost(k)
  BY <1>0, <1>1, <1>3, GuestNew DEF MachineLost
<1>4. CASE OrchestratorLogs
  <2>1. \A m \in Members : \/ machine'[m] = machine[m]
                           \/ machine'[m] = [machine[m] EXCEPT !.log = TRUE]
    BY <1>0, <1>4 DEF OrchestratorLogs
  <2>2. \A m \in Members : Like([machine[m] EXCEPT !.log = TRUE], machine[m])
    BY <1>0, OperationFields
  <2>3. \A m \in Members : Like(machine[m], machine[m])
    BY DEF Like
  <2>4. \A m \in Members : Like(machine'[m], machine[m])
    BY <2>1, <2>2, <2>3
  <2> QED BY <1>0, <2>4, GuestStill DEF GuestInv
<1> QED BY <1>2, <1>3, <1>4

(* The other steps touch neither the machines nor the sessions.            *)
LEMMA QuietSteps ==
  ASSUME NEW p \in Procs,
         \/ StartCreate(p) \/ StartDestroy(p) \/ StartDoctor(p) \/ StartObserve(p)
         \/ TakeLock(p) \/ Unlock(p) \/ MergeLogMirror(p) \/ Crash(p) \/ Doctor(p)
         \/ Adopt(p) \/ ListMembers(p) \/ LoadToDestroy(p) \/ ArchiveMember(p)
         \/ ScanMembers(p) \/ DeleteRecord(p)
         \/ \E m \in Members : KeepReadback(p, m) \/ CannotAsk(p, m) \/ JudgeReadback(p, m)
                                  \/ GiveUp(p, m)
  PROVE  UNCHANGED <<machine, session>>
BY DEF StartCreate, StartDestroy, StartDoctor, StartObserve, TakeLock, Unlock, MergeLogMirror,
       Crash, Doctor, LockToSave, Reload, SaveHarness, Adopt, ListMembers, LoadToDestroy,
       ArchiveMember, ScanMembers, DeleteRecord, KeepReadback, CannotAsk, JudgeReadback, GiveUp

LEMMA GuestStep == Typed /\ GuestInv /\ [Next]_vars => GuestInv'
<1> SUFFICES ASSUME Typed, GuestInv, [Next]_vars PROVE GuestInv'
  OBVIOUS
<1>1. ASSUME UNCHANGED <<machine, session>> PROVE \A m \in Members : GuestOf(m)'
  BY <1>1, GuestSame DEF GuestInv
<1>2. ASSUME NEW p \in Procs, Step(p)
      PROVE  \A m \in Members : GuestOf(m)'
  BY <1>1, <1>2, QuietSteps, GuestProvisions, GuestTurns, GuestOpens
     DEF Step, Create, Readback, Destroy
<1>3. ASSUME NEW p \in Procs,
             \/ StartCreate(p) \/ StartDestroy(p) \/ StartDoctor(p) \/ StartObserve(p)
             \/ Step(p) \/ Crash(p) \/ \E m \in Members : RestartReadback(p, m)
      PROVE  GuestInv'
  <2>1. StagesFresh'
    BY <1>3, ProcStep DEF GuestInv
  <2>2. \A m \in Members : GuestOf(m)'
    BY <1>1, <1>2, <1>3, QuietSteps, GuestTurns
  <2> QED BY <2>1, <2>2 DEF GuestInv
<1>4. ASSUME NEW m \in Members, MemberAnswers(m) \/ MachineLost(m) \/ OrchestratorLogs
      PROVE  GuestInv'
  <2>1. UNCHANGED <<pc, work>>
    BY <1>4 DEF MemberAnswers, MachineLost, OrchestratorLogs, procVars
  <2> QED BY <1>4, <2>1, GuestOutside DEF GuestInv, StagesFresh
<1>5. CASE UNCHANGED vars
  BY <1>1, <1>5 DEF vars, procVars, GuestInv, StagesFresh
<1> QED BY <1>3, <1>4, <1>5, OrchestratorIsMember DEF Next

LEMMA GuestInit == Init => GuestInv
<1> SUFFICES ASSUME Init PROVE GuestInv
  OBVIOUS
<1>1. StagesFresh
  BY DEF Init, StagesFresh, AllToAsk
<1>2. CASE Remembered
  BY <1>1, <1>2, NewFields DEF Remembered, GuestInv, GuestOf, Present, MissionOpen
<1>3. CASE Running
  <2>1. ASSUME NEW m \in Members
        PROVE  /\ machine[m].boot = 1
               /\ machine[m].mission = IF m = Orchestrator THEN "running" ELSE "none"
               /\ session[m] \in {0, 1}
    BY <1>3, NoMachineType DEF Running, MachineValues
  <2> QED BY <1>1, <2>1 DEF GuestInv, GuestOf, Present, Up, MissionOpen, OnSession, Agents
<1> QED BY <1>2, <1>3 DEF Init

-----------------------------------------------------------------------------
(* NoStaleTurn.  A machine of the record that is not on the host's session *)
(* is one that was just made, whose maker has yet to forget that session.  *)
SameBoot(m) ==
  /\ Present(m)' => Present(m) /\ machine'[m].boot = machine[m].boot
  /\ session'[m] \in {session[m], 0, machine[m].boot}

(* Only a boot makes a machine.                                            *)
LEMMA ProvisionBoots ==
  ASSUME Typed, NEW p \in Procs, NEW m \in Members,
         \/ Boot(p) /\ m # MemberAt(p)
         \/ ForgetEarlierLife(p) \/ ConfigureMember(p) \/ Orchestrate(p)
         \/ RecordReadbacks(p) \/ RemoveMember(p) \/ VerifyGone(p)
  PROVE  SameBoot(m)
<1>0. machine \in [Members -> MachineValues] /\ session \in [Members -> 0..MaxBoots]
  BY DEF Typed, CampaignTypeOK, GuestTypeOK
<1>1. session'[m] \in {session[m], 0}
  BY <1>0 DEF Boot, ForgetEarlierLife, EarlierLifeForgotten, ConfigureMember, Orchestrate,
              RecordReadbacks, RemoveMember, VerifyGone
<1>2. \/ machine'[m] = machine[m]
      \/ \E b : machine'[m] = Configured(machine[m], b)
      \/ \E r : machine'[m] = Manifested(machine[m], r)
      \/ machine'[m] = NoMachine
  <2>1. CASE Boot(p) /\ m # MemberAt(p)
    BY <1>0, <2>1 DEF Boot
  <2>2. CASE ConfigureMember(p)
    BY <1>0, <2>2 DEF ConfigureMember
  <2>3. CASE Orchestrate(p)
    BY <1>0, <2>3 DEF Orchestrate
  <2>4. CASE RemoveMember(p)
    <3>1. UNCHANGED machine \/ \E k : machine' = [machine EXCEPT ![k] = NoMachine]
      BY <2>4 DEF RemoveMember
    <3> QED BY <1>0, <3>1
  <2> QED BY <2>1, <2>2, <2>3, <2>4 DEF ForgetEarlierLife, RecordReadbacks, VerifyGone
<1>3. machine'[m] = NoMachine \/ machine'[m].boot = machine[m].boot
  <2>1. machine[m] \in MachineValues
    BY <1>0
  <2>2. \A b : Configured(machine[m], b).boot = machine[m].boot
    BY <2>1 DEF Configured, MachineValues
  <2>3. \A r : Manifested(machine[m], r).boot = machine[m].boot
    BY <2>1 DEF Manifested, MachineValues
  <2> QED BY <1>2, <2>2, <2>3
<1> QED BY <1>1, <1>3, NewFields DEF SameBoot, Present, Up

LEMMA TurnBoots ==
  ASSUME Typed, NEW p \in Procs, NEW k \in Members, NEW m \in Members,
         AskReadback(p, k) \/ RestartReadback(p, k)
  PROVE  SameBoot(m) /\ (OnSession(k) => staleTurn' = staleTurn)
<1> DEFINE mc == machine[k]
           ac == Asked(mc)
<1>0. machine \in [Members -> MachineValues] /\ session \in [Members -> 0..MaxBoots]
  BY DEF Typed, CampaignTypeOK, GuestTypeOK
<1>1. mc \in MachineValues /\ Present(k)
  BY <1>0 DEF AskReadback, RestartReadback
<1> HIDE DEF mc, ac
<1>2. ASSUME NEW nc, Puts(k, nc), nc.boot = mc.boot,
             session'[m] \in {session[m], 0, machine[m].boot}
      PROVE  SameBoot(m)
  BY <1>1, <1>2 DEF mc, Puts, SameBoot, Present, Up
<1>3. CASE AskReadback(p, k)
  <2>1. ac.boot = mc.boot /\ ac \in MachineValues
    BY <1>1, <1>3, AskedFields, AskedType DEF ac, mc, AskReadback
  <2>2. Turned(ac).boot = mc.boot
    BY <2>1, TurnFields
  <2>3. CASE StartTurn(k, ac, Turned(ac))
    <3>1. /\ OnSession(k) => Puts(k, Turned(ac)) /\ session'[k] = machine[k].boot
                             /\ staleTurn' = staleTurn
          /\ ~OnSession(k) => Puts(k, ac) /\ session'[k] = session[k]
          /\ \A j \in Members \ {k} : session'[j] = session[j]
      BY <2>1, <2>3, StartTurnSays DEF mc
    <3> QED BY <1>2, <2>1, <2>2, <3>1
  <2>4. CASE machine' = [machine EXCEPT ![k] = ac] /\ UNCHANGED <<session, staleTurn>>
    BY <1>2, <2>1, <2>4, PutOne
  <2> QED BY <1>3, <2>3, <2>4 DEF AskReadback, ac, mc
<1>4. CASE RestartReadback(p, k)
  <2>1. Puts(k, Turned(mc)) /\ UNCHANGED staleTurn
    BY <1>4, PutOne DEF RestartReadback, mc
  <2>2. session'[k] = mc.boot /\ \A j \in Members \ {k} : session'[j] = session[j]
    BY <1>0, <1>4 DEF RestartReadback, mc
  <2>3. Turned(mc).boot = mc.boot
    BY <1>1, TurnFields
  <2> QED BY <1>2, <2>1, <2>2, <2>3 DEF mc
<1> QED BY <1>3, <1>4

LEMMA MissionBoots ==
  ASSUME Typed, NEW p \in Procs, NEW m \in Members,
         \/ OpenMission(p) \/ StartMission(p) \/ RecordOnOrchestrator(p) \/ FinishCreate(p)
  PROVE  SameBoot(m) /\ (OnSession(Orchestrator) => staleTurn' = staleTurn)
<1> DEFINE k == Orchestrator
           mc == machine[k]
<1>1. k \in Members /\ mc \in MachineValues
  BY OrchestratorIsMember, MachineTyped
<1> HIDE DEF k, mc
<1>2. ASSUME NEW nc, Puts(k, nc), nc.boot = mc.boot,
             session'[m] \in {session[m], 0, machine[m].boot}
      PROVE  SameBoot(m)
  BY <1>1, <1>2 DEF mc, Puts, SameBoot, Present, Up
<1>3. CASE UNCHANGED <<machine, session, staleTurn>>
  BY <1>3 DEF SameBoot, Present
<1>4. CASE RecordOnOrchestrator(p) /\ ~UNCHANGED <<machine, session, staleTurn>>
  <2>1. /\ machine' = [machine EXCEPT ![k] = Manifested(mc, copy[p].readback)]
        /\ UNCHANGED <<session, staleTurn>>
    BY <1>4 DEF RecordOnOrchestrator, FailsThere, k, mc
  <2>2. Manifested(mc, copy[p].readback).boot = mc.boot
    BY <1>1, OperationFields DEF Like
  <2> QED BY <1>1, <1>2, <2>1, <2>2, PutOne
<1>5. CASE OpenMission(p) /\ ~UNCHANGED <<machine, session, staleTurn>>
  <2>1. /\ machine' = [machine EXCEPT ![k] = [mc EXCEPT !.mission = "put"]]
        /\ UNCHANGED <<session, staleTurn>>
    BY <1>5 DEF OpenMission, FailsThere, k, mc
  <2>2. [mc EXCEPT !.mission = "put"].boot = mc.boot
    BY <1>1, MissionFields
  <2> QED BY <1>1, <1>2, <2>1, <2>2, PutOne
<1>6. CASE StartMission(p) /\ ~UNCHANGED <<machine, session, staleTurn>>
  <2>1. StartTurn(k, mc, [mc EXCEPT !.mission = "running"])
    BY <1>6 DEF StartMission, FailsThere, k, mc
  <2>2. [mc EXCEPT !.mission = "running"].boot = mc.boot
    BY <1>1, MissionFields
  <2>3. /\ OnSession(k) => Puts(k, [mc EXCEPT !.mission = "running"])
                           /\ session'[k] = machine[k].boot /\ staleTurn' = staleTurn
        /\ ~OnSession(k) => Puts(k, mc) /\ session'[k] = session[k]
        /\ \A j \in Members \ {k} : session'[j] = session[j]
    BY <1>1, <2>1, StartTurnSays DEF mc
  <2> QED BY <1>1, <1>2, <2>2, <2>3 DEF k
<1> QED BY <1>3, <1>4, <1>5, <1>6 DEF FinishCreate

LEMMA OutsideBoots ==
  ASSUME Typed, NEW k \in Members, NEW m \in Members,
         MemberAnswers(k) \/ MachineLost(k) \/ OrchestratorLogs
  PROVE  SameBoot(m)
<1>0. machine \in [Members -> MachineValues] /\ UNCHANGED session
  BY DEF Typed, CampaignTypeOK, GuestTypeOK, MemberAnswers, MachineLost, OrchestratorLogs
<1>1. \/ machine'[m] = machine[m]
      \/ \E a, b, c : machine'[m] = [machine[m] EXCEPT !.answer = a, !.read = b, !.turn = c]
      \/ machine'[m] = [machine[m] EXCEPT !.log = TRUE]
      \/ machine'[m] = NoMachine
  <2>1. CASE MemberAnswers(k)
    <3>1. PICK a : machine' = [machine EXCEPT ![k] =
                    [machine[k] EXCEPT !.answer = a, !.read = machine[k].turn, !.turn = NoBrief]]
      BY <2>1 DEF MemberAnswers
    <3> QED BY <1>0, <3>1
  <2>2. CASE MachineLost(k)
    BY <1>0, <2>2 DEF MachineLost
  <2>3. CASE OrchestratorLogs
    BY <1>0, <2>3 DEF OrchestratorLogs
  <2> QED BY <2>1, <2>2, <2>3
<1>2. machine'[m] = NoMachine \/ machine'[m].boot = machine[m].boot
  BY <1>0, <1>1 DEF MachineValues
<1> QED BY <1>0, <1>2, NewFields DEF SameBoot, Present, Up

SessionInv ==
  \/ lapsed
  \/ /\ ~staleTurn
     /\ \A m \in Members : Present(m) /\ ~OnSession(m) =>
           \E p \in Procs : pc[p] = "forget" /\ MemberAt(p) = m

(* Nobody is between a boot and the forget after it.                       *)
AllOnSession == ~staleTurn /\ \A m \in Members : Present(m) => OnSession(m)

LEMMA SessionStays ==
  ASSUME AllOnSession, ~staleTurn', \A m \in Members : SameBoot(m) PROVE SessionInv'
BY DEF AllOnSession, SameBoot, SessionInv, OnSession

(* A step of the one command inside the lock.                              *)
LEMMA SessionInside ==
  ASSUME Typed, ~raced, SessionInv, NEW p \in Procs, Create(p) \/ Destroy(p)
  PROVE  SessionInv'
<1>1. pc[p] \in Inside
  BY DEF Create, Adopt, ListMembers, Boot, ForgetEarlierLife, ConfigureMember, Orchestrate,
         Readback, KeepReadback, AskReadback, CannotAsk, JudgeReadback, GiveUp, Unanswered,
         RecordReadbacks, RecordOnOrchestrator, OpenMission, StartMission, FinishCreate,
         OnOrchestrator, Destroy, LoadToDestroy, ArchiveMember, ScanMembers, RemoveMember,
         VerifyGone, DeleteRecord, StageIs, At, Inside, Creating, Destroying
<1>2. \A q \in Procs \ {p} : pc[q] \notin Inside
  BY <1>1, Alone
<1>3. CASE lapsed
  BY <1>3 DEF SessionInv, Create, Adopt, ListMembers, Boot, ForgetEarlierLife,
       ConfigureMember, Orchestrate,
       Readback, KeepReadback, AskReadback, CannotAsk, JudgeReadback, GiveUp,
       RecordReadbacks, RecordOnOrchestrator, OpenMission, StartMission, FinishCreate,
       OnOrchestrator, Destroy, LoadToDestroy, ArchiveMember, ScanMembers, RemoveMember,
       VerifyGone, DeleteRecord, ReadbackUnchanged, history
<1>4. CASE ~lapsed /\ pc[p] = "forget"
  <2>1. ForgetEarlierLife(p)
    BY <1>4 DEF Create, Adopt, ListMembers, Boot, ForgetEarlierLife, ConfigureMember,
         Orchestrate, Readback, KeepReadback, AskReadback, CannotAsk, JudgeReadback, GiveUp,
         Unanswered, RecordReadbacks, RecordOnOrchestrator, OpenMission, StartMission,
         FinishCreate, OnOrchestrator, Destroy, LoadToDestroy, ArchiveMember, ScanMembers,
         RemoveMember, VerifyGone, DeleteRecord, StageIs, At
  <2>2. UNCHANGED <<machine, staleTurn>>
    BY <2>1 DEF ForgetEarlierLife
  <2>3. lapsed' \/ session' = [session EXCEPT ![MemberAt(p)] = 0]
    BY <2>1 DEF ForgetEarlierLife, EarlierLifeForgotten
  <2>4. \A m \in Members : Present(m) /\ ~OnSession(m) => MemberAt(p) = m
    BY <1>2, <1>4 DEF SessionInv, Inside, Creating
  <2>5. session \in [Members -> 0..MaxBoots]
    BY DEF Typed, CampaignTypeOK, GuestTypeOK
  <2> QED BY <1>4, <2>2, <2>3, <2>4, <2>5 DEF SessionInv, OnSession, Present
<1>5. CASE ~lapsed /\ pc[p] # "forget"
  <2>1. AllOnSession
    BY <1>2, <1>5 DEF SessionInv, AllOnSession, Inside, Creating
  <2>2. CASE Boot(p)
    <3>1. \A m \in Members \ {MemberAt(p)} : SameBoot(m)
      BY <2>2, ProvisionBoots
    <3>2. UNCHANGED <<staleTurn, work, session>>
      BY <2>2 DEF Boot
    <3>3. UNCHANGED machine \/ Goto(p, "forget") \/ lapsed' = TRUE
      BY <2>2 DEF Boot
    <3>4. CASE UNCHANGED machine
      BY <2>1, <3>2, <3>4, SessionStays DEF SameBoot, Present, AllOnSession
    <3>5. CASE Goto(p, "forget")
      <4>1. pc'[p] = "forget" /\ MemberAt(p)' = MemberAt(p)
        BY <3>2, <3>5 DEF Goto, MemberAt, Typed, CampaignTypeOK, ProcTypeOK
      <4> QED BY <2>1, <3>1, <3>2, <4>1 DEF SessionInv, SameBoot, OnSession, AllOnSession
    <3>6. CASE lapsed' = TRUE
      BY <3>6 DEF SessionInv
    <3> QED BY <3>3, <3>4, <3>5, <3>6
  <2>3. CASE UNCHANGED <<machine, session, staleTurn>>
    BY <2>1, <2>3, SessionStays DEF SameBoot, Present, AllOnSession
  <2>4. CASE \E k \in Members : AskReadback(p, k)
    <3>1. PICK k \in Members : AskReadback(p, k)
      BY <2>4
    <3>2. Present(k)
      BY <3>1 DEF AskReadback
    <3> QED BY <2>1, <3>1, <3>2, SessionStays, TurnBoots DEF AllOnSession
  <2>5. CASE RecordOnOrchestrator(p) \/ OpenMission(p) \/ FinishCreate(p)
    <3>1. UNCHANGED staleTurn
      BY <2>5 DEF RecordOnOrchestrator, OpenMission, FinishCreate, FailsThere
    <3> QED BY <2>1, <2>5, <3>1, SessionStays, MissionBoots DEF AllOnSession
  <2>6. CASE StartMission(p)
    <3>1. Present(Orchestrator) \/ UNCHANGED staleTurn
      BY <2>6 DEF StartMission, FailsThere
    <3> QED BY <2>1, <2>6, <3>1, SessionStays, MissionBoots, OrchestratorIsMember
            DEF AllOnSession
  <2>7. CASE ConfigureMember(p) \/ Orchestrate(p)
                \/ RecordReadbacks(p) \/ RemoveMember(p) \/ VerifyGone(p)
    <3>1. UNCHANGED staleTurn
      BY <2>7 DEF ConfigureMember, Orchestrate, RecordReadbacks, RemoveMember, VerifyGone, history
    <3> QED BY <2>1, <2>7, <3>1, SessionStays, ProvisionBoots DEF AllOnSession
  <2>8. CASE Adopt(p) \/ ListMembers(p) \/ LoadToDestroy(p) \/ ArchiveMember(p)
                \/ ScanMembers(p) \/ DeleteRecord(p)
                \/ \E m \in Members : KeepReadback(p, m) \/ CannotAsk(p, m)
                                         \/ JudgeReadback(p, m) \/ GiveUp(p, m)
    <3>1. UNCHANGED staleTurn
      BY <2>8 DEF Adopt, ListMembers, LoadToDestroy, ArchiveMember, ScanMembers, DeleteRecord,
                  KeepReadback, CannotAsk, JudgeReadback, GiveUp, history
    <3> QED BY <2>3, <2>8, <3>1, QuietSteps
  <2>9. ~ForgetEarlierLife(p)
    BY <1>5 DEF ForgetEarlierLife, At
  <2> QED BY <2>2, <2>4, <2>5, <2>6, <2>7, <2>8, <2>9 DEF Create, Readback, Destroy
<1> QED BY <1>3, <1>4, <1>5

(* The other steps. *)
LEMMA SessionStep ==
  ASSUME Typed, ~raced, SessionInv, [Next]_vars PROVE SessionInv'
<1>1. ASSUME NEW p \in Procs, UNCHANGED <<machine, session, staleTurn>>,
             pc[p] # "forget" \/ lapsed', lapsed => lapsed', Others(p)
      PROVE  SessionInv'
  BY <1>1 DEF SessionInv, OnSession, Present, Others, MemberAt
<1>2. ASSUME NEW p \in Procs,
             \/ StartCreate(p) \/ StartDestroy(p) \/ StartDoctor(p) \/ StartObserve(p)
             \/ TakeLock(p) \/ Unlock(p) \/ MergeLogMirror(p) \/ Doctor(p)
      PROVE  SessionInv'
  <2>1. UNCHANGED <<lapsed, staleTurn>> /\ pc[p] # "forget"
    BY <1>2 DEF StartCreate, StartDestroy, StartDoctor, StartObserve, Begin, TakeLock, Unlock,
         MergeLogMirror, Doctor, LockToSave, Reload, SaveHarness, At, history
  <2> QED BY <1>1, <1>2, <2>1, QuietSteps, ProcStep DEF Step
<1>3. ASSUME NEW p \in Procs, Crash(p) PROVE SessionInv'
  <2>1. (lapsed' = (lapsed \/ pc[p] = "forget")) /\ UNCHANGED staleTurn
    BY <1>3 DEF Crash, At
  <2> QED BY <1>1, <1>3, <2>1, QuietSteps, ProcStep
<1>4. ASSUME UNCHANGED <<lapsed, staleTurn, pc, work>>, \A m \in Members : SameBoot(m)
      PROVE  SessionInv'
  BY <1>4 DEF SessionInv, SameBoot, OnSession, MemberAt
<1>5. ASSUME NEW p \in Procs, NEW m \in Members, RestartReadback(p, m) PROVE SessionInv'
  BY <1>4, <1>5, TurnBoots DEF RestartReadback, ReadbackUnchanged
<1>6. ASSUME NEW m \in Members, MemberAnswers(m) \/ MachineLost(m) \/ OrchestratorLogs
      PROVE  SessionInv'
  BY <1>4, <1>6, OutsideBoots DEF MemberAnswers, MachineLost, OrchestratorLogs, procVars, history
<1>7. CASE UNCHANGED vars
  BY <1>7 DEF vars, procVars, history, SessionInv, OnSession, Present, MemberAt
<1> QED BY <1>2, <1>3, <1>5, <1>6, <1>7, SessionInside, OrchestratorIsMember DEF Next, Step

LEMMA SessionInit == Init => SessionInv
<1> SUFFICES ASSUME Init PROVE SessionInv
  OBVIOUS
<1>1. CASE Remembered
  BY <1>1, NewFields DEF Init, Remembered, SessionInv, Present
<1>2. CASE Running
  <2>1. \A m \in Members : machine[m].boot = 1 /\ session[m] \in {0, 1}
    BY <1>2, NoMachineType DEF Running, MachineValues
  <2> QED BY <2>1 DEF Init, SessionInv, OnSession
<1> QED BY <1>1, <1>2 DEF Init

(* A turn is started on a session the machine never held only after a      *)
(* create died between a boot and the forget that follows it               *)
(* (forgetEarlierLife), or a boot failed having made the machine, or after *)
(* a race.                                                                 *)
THEOREM NoStaleTurnHolds == Spec => []NoStaleTurn
<1> DEFINE I == Typed /\ (raced \/ SessionInv)
<1>1. Init => I
  BY TypedInit, SessionInit
<1>2. I /\ [Next]_vars => I'
  BY TypedStep, SessionStep, LockStep, RacedStays
<1>3. I => NoStaleTurn
  BY DEF SessionInv, NoStaleTurn
<1> QED BY <1>1, <1>2, <1>3, PTL DEF Spec


-----------------------------------------------------------------------------
(* Only a process inside the lock does anything to the machines, the       *)
(* record or the archive; and until a race it is the only one there.       *)
LEMMA ActsInside ==
  ASSUME NEW p \in Procs,
         Create(p) \/ Destroy(p) \/ \E m \in Members : RestartReadback(p, m)
  PROVE  pc[p] \in Inside
BY DEF Create, Adopt, ListMembers, Boot, ForgetEarlierLife, ConfigureMember, Orchestrate,
       Readback, KeepReadback, AskReadback, CannotAsk, JudgeReadback, GiveUp, Unanswered,
       RestartReadback, RecordReadbacks, RecordOnOrchestrator, OpenMission, StartMission,
       FinishCreate, OnOrchestrator, Destroy, LoadToDestroy, ArchiveMember, ScanMembers,
       RemoveMember, VerifyGone, DeleteRecord, StageIs, At, Inside, Creating, Destroying

(* What a process does elsewhere.                                          *)
Elsewhere(p) ==
  \/ StartCreate(p) \/ StartDestroy(p) \/ StartDoctor(p) \/ StartObserve(p)
  \/ TakeLock(p) \/ Unlock(p) \/ MergeLogMirror(p) \/ Crash(p)
  \/ LockToSave(p) \/ Reload(p)

LEMMA ElsewhereSays ==
  ASSUME Typed, NEW p \in Procs, Elsewhere(p)
  PROVE  /\ UNCHANGED <<record, machine, session, evidence, incomplete>>
         /\ abandoned => abandoned'
         /\ pc[p] \notin Inside => UNCHANGED abandoned
         /\ pc'[p] \in {"idle", "lock", "relock", "merge", "adopt", "load", "reload",
                        "journal", "unlock"}
         /\ pc'[p] = "journal" => copy'[p] = record
<1>1. UNCHANGED <<record, machine, session, evidence, incomplete>> /\ (abandoned => abandoned')
  <2>1. CASE StartCreate(p) \/ StartDestroy(p) \/ StartDoctor(p) \/ StartObserve(p)
    BY <2>1 DEF StartCreate, StartDestroy, StartDoctor, StartObserve, Loaded, recordVars,
         archiveVars, history
  <2>2. CASE TakeLock(p) \/ LockToSave(p) \/ Reload(p)
    BY <2>2 DEF TakeLock, LockToSave, Reload, Loaded, recordVars, archiveVars, history
  <2>3. CASE Unlock(p) \/ MergeLogMirror(p)
    BY <2>3 DEF Unlock, MergeLogMirror, Gone, archiveVars, history
  <2>4. CASE Crash(p)
    BY <2>4 DEF Crash, Gone, archiveVars
  <2> QED BY <2>1, <2>2, <2>3, <2>4 DEF Elsewhere
<1>2. pc[p] \notin Inside => UNCHANGED abandoned
  BY DEF Elsewhere, StartCreate, StartDestroy, StartDoctor, StartObserve, TakeLock, Unlock,
         MergeLogMirror, Crash, LockToSave, Reload, At, Inside, Creating, Typed,
         CampaignTypeOK, CountTypeOK, history
<1>3. /\ pc \in [Procs -> Steps] /\ copy \in [Procs -> RecordValues]
      /\ pc[p] = "lock" => cmd[p] \in Locking
  BY DEF Typed, WriteInv, WriteTypes, CampaignTypeOK, ProcTypeOK
<1>4. CASE TakeLock(p)
  <2>1. \E s \in {"adopt", "load", "reload"} : Goto(p, s)
    BY <1>3, <1>4 DEF TakeLock, At, Locking
  <2> QED BY <1>1, <1>2, <1>3, <2>1 DEF Goto
<1>5. CASE Reload(p)
  <2>1. copy' = [copy EXCEPT ![p] = record] /\ \E s \in {"journal", "unlock"} : Goto(p, s)
    BY <1>5 DEF Reload, Loaded
  <2> QED BY <1>1, <1>2, <1>3, <2>1 DEF Goto
<1>6. CASE ~TakeLock(p) /\ ~Reload(p)
  <2>1. \E s \in {"idle", "lock", "relock", "merge"} : Goto(p, s)
    BY <1>6 DEF Elsewhere, StartCreate, StartDestroy, StartDoctor, StartObserve, Unlock,
         MergeLogMirror, Crash, LockToSave, Gone, Goto
  <2> QED BY <1>1, <1>2, <1>3, <2>1 DEF Goto
<1> QED BY <1>4, <1>5, <1>6

-----------------------------------------------------------------------------
(* ArchivedBeforeGone.  Members that archive has been to are in the        *)
(* archive, or marked; and a destroy that archives goes on when none is.   *)
Collected(m) == m \in incomplete \/ ~Present(m) \/ evidence[m] = machine[m].boot

Archiving == {"archive", "scan", "remove"}

ArchiveOf(p) ==
  /\ pc[p] = "archive" => /\ work[p].at \in 1..Len(Roster)
                          /\ \A i \in 1..Len(Roster) : i < work[p].at => Collected(Roster[i])
  /\ pc[p] \in {"scan", "remove"} /\ work[p].archive =>
        \A m \in Members : m \notin incomplete /\ Collected(m)

ArchiveInv == \A p \in Procs : ArchiveOf(p)

LEMMA RosterMembers ==
  /\ Len(Roster) \in Nat \ {0}
  /\ \A i \in 1..Len(Roster) : Roster[i] \in Members
  /\ \A m \in Members : \E i \in 1..Len(Roster) : Roster[i] = m
<1>1. Roster \in Seq(Members) /\ Roster # <<>>
  BY RosterIsSeq
<1>2. DOMAIN Roster = 1..Len(Roster)
  BY <1>1
<1> QED BY <1>1, <1>2 DEF Members

(* No machine appears under one that archives, and the archive stays.      *)
LEMMA ArchiveStays ==
  ASSUME NEW p \in Procs, ArchiveOf(p), UNCHANGED <<evidence, incomplete>>,
         pc'[p] = pc[p], work'[p].at = work[p].at, work'[p].archive = work[p].archive,
         \A m \in Members : Present(m)' => Present(m) /\ machine'[m].boot = machine[m].boot
  PROVE  ArchiveOf(p)'
<1>1. \A m \in Members : Collected(m) => Collected(m)'
  BY DEF Collected
<1> QED BY <1>1, RosterMembers DEF ArchiveOf

LEMMA ArchiveDestroys ==
  ASSUME Typed, ~raced, NEW p \in Procs, ArchiveOf(p), Destroy(p)
  PROVE  ArchiveOf(p)'
<1>0. /\ pc \in [Procs -> Steps] /\ work[p] \in WorkValues /\ work \in [Procs -> WorkValues]
      /\ machine \in [Members -> MachineValues] /\ evidence \in [Members -> 0..MaxBoots]
      /\ incomplete \subseteq Members
  BY DEF Typed, WriteInv, WriteTypes, CampaignTypeOK, ProcTypeOK, HostTypeOK, GuestTypeOK
<1>1. CASE LoadToDestroy(p)
  <2>1. CASE Goto(p, "unlock")
    BY <1>0, <2>1 DEF Goto, ArchiveOf
  <2>2. CASE ~Goto(p, "unlock")
    <3>1. PICK u \in BOOLEAN :
             /\ work' = [work EXCEPT ![p] = [work[p] EXCEPT !.archive = u,
                                                            !.at = IF u THEN 1 ELSE 0]]
             /\ Goto(p, IF u THEN "archive" ELSE "scan")
      BY <1>1, <2>2, Zenon DEF LoadToDestroy
    <3>2. work'[p].archive = u /\ work'[p].at = (IF u THEN 1 ELSE 0)
      BY <1>0, <3>1 DEF WorkValues
    <3> QED BY <1>0, <3>1, <3>2, RosterMembers DEF Goto, ArchiveOf
  <2> QED BY <2>1, <2>2
<1>2. CASE ArchiveMember(p)
  <2>0. /\ pc[p] = "archive" /\ work[p].at \in 1..Len(Roster) /\ MemberAt(p) \in Members
        /\ UNCHANGED machine
    BY <1>2, RosterMembers DEF ArchiveMember, At, ArchiveOf, MemberAt
  <2> PICK m \in Members : m = MemberAt(p)
    BY <2>0
  <2>1. /\ Collected(m)'
        /\ \A k \in Members : Collected(k) => Collected(k)'
    <3>1. CASE /\ Present(m)
               /\ evidence' = [evidence EXCEPT ![m] = machine[m].boot]
               /\ incomplete' = incomplete \ {m}
      BY <1>0, <2>0, <3>1 DEF Collected, Present
    <3>2. CASE /\ evidence' = [evidence EXCEPT ![m] = 0]
               /\ incomplete' = incomplete \cup {m}
      BY <1>0, <2>0, <3>2 DEF Collected, Present
    <3> QED BY <1>2, <3>1, <3>2 DEF ArchiveMember
  <2>2. \A i \in 1..Len(Roster) : i <= work[p].at => Collected(Roster[i])'
    BY <2>0, <2>1, RosterMembers DEF ArchiveOf, MemberAt
  <2>3. CASE MoreMembers(p)
    <3>1. work' = [work EXCEPT ![p] = [work[p] EXCEPT !.at = work[p].at + 1]] /\ UNCHANGED pc
      BY <1>2, <2>3 DEF ArchiveMember
    <3>2. work'[p].at = work[p].at + 1 /\ work[p].at \in Nat
      BY <1>0, <3>1 DEF WorkValues
    <3> QED BY <2>0, <2>2, <2>3, <3>1, <3>2, RosterMembers DEF ArchiveOf, MoreMembers
  <2>4. CASE ~MoreMembers(p)
    <3>1. Goto(p, AfterArchive(incomplete'))
      BY <1>2, <2>4 DEF ArchiveMember
    <3>2. \A i \in 1..Len(Roster) : i <= work[p].at
      BY <2>0, <2>4, RosterMembers DEF MoreMembers
    <3>3. \A k \in Members : Collected(k)'
      BY <2>2, <3>2, RosterMembers
    <3>4. pc'[p] \in {"scan", "unlock"} /\ (pc'[p] = "scan" => incomplete' = {})
      BY <1>0, <3>1 DEF Goto, AfterArchive
    <3> QED BY <3>3, <3>4 DEF ArchiveOf
  <2> QED BY <2>3, <2>4
<1>3. CASE ScanMembers(p) \/ RemoveMember(p) \/ VerifyGone(p) \/ DeleteRecord(p)
  <2>1. /\ UNCHANGED <<evidence, incomplete>> /\ pc[p] \in {"scan", "remove", "delete"}
        /\ pc'[p] \in {"remove", "delete", "unlock"}
        /\ pc'[p] = "remove" => pc[p] \in {"scan", "remove"}
    BY <1>0, <1>3 DEF ScanMembers, RemoveMember, VerifyGone, DeleteRecord, archiveVars, At, Goto
  <2>2. UNCHANGED work \/ \E v : work' = [work EXCEPT ![p] = [work[p] EXCEPT !.live = v]]
    <3>1. ScanMembers(p) => UNCHANGED work \/ work' = [work EXCEPT ![p].live = Standing]
      BY DEF ScanMembers
    <3>2. RemoveMember(p) => \/ UNCHANGED work
                             \/ \E k : work' = [work EXCEPT ![p].live = @ \ {k}]
      BY Zenon DEF RemoveMember
    <3> QED BY <1>3, <3>1, <3>2 DEF VerifyGone, DeleteRecord
  <2>3. work'[p].archive = work[p].archive
    BY <1>0, <2>2 DEF WorkValues
  <2>4. \A m \in Members : Present(m)' => Present(m) /\ machine'[m].boot = machine[m].boot
    <3>1. CASE RemoveMember(p) \/ VerifyGone(p)
      BY <3>1, ProvisionBoots DEF SameBoot
    <3>2. CASE UNCHANGED machine
      BY <3>2 DEF Present
    <3> QED BY <1>3, <3>1, <3>2 DEF ScanMembers, DeleteRecord
  <2>5. \A m \in Members : Collected(m) => Collected(m)'
    BY <2>1, <2>4 DEF Collected
  <2> QED BY <2>1, <2>3, <2>5 DEF ArchiveOf
<1> QED BY <1>1, <1>2, <1>3 DEF Destroy


LEMMA CreateGoes ==
  ASSUME Typed, NEW p \in Procs,
         Create(p) \/ SaveHarness(p) \/ \E m \in Members : RestartReadback(p, m)
  PROVE  pc'[p] \in (Creating \ {"adopt"}) \cup {"unlock"}
<1>1. \/ UNCHANGED pc /\ pc[p] = "readback"
      \/ \E s \in (Creating \ {"adopt"}) \cup {"unlock"} : Goto(p, s)
  <2>1. CASE Adopt(p) \/ ListMembers(p) \/ Boot(p) \/ ForgetEarlierLife(p)
                \/ ConfigureMember(p) \/ Orchestrate(p)
    BY <2>1 DEF Adopt, ListMembers, Boot, ForgetEarlierLife, ConfigureMember, Orchestrate,
         FailCreate, Creating
  <2>2. CASE Readback(p) \/ \E m \in Members : RestartReadback(p, m)
    BY <2>2 DEF Readback, KeepReadback, AskReadback, CannotAsk, JudgeReadback, GiveUp,
         Unanswered, RestartReadback, ReadbackUnchanged, RecordReadbacks, StageIs, At, Creating
  <2>3. CASE RecordOnOrchestrator(p) \/ OpenMission(p) \/ StartMission(p) \/ FinishCreate(p)
                \/ SaveHarness(p)
    BY <2>3 DEF RecordOnOrchestrator, OpenMission, StartMission, FinishCreate, FailsThere,
         FailCreate, SaveHarness, Creating
  <2> QED BY <2>1, <2>2, <2>3 DEF Create
<1> QED BY <1>1 DEF Goto, Typed, WriteInv, WriteTypes, Creating

(* Whose step it is.                                                       *)
LEMMA Whose ==
  ASSUME [Next]_vars
  PROVE  \/ \E p \in Procs : Elsewhere(p)
         \/ \E p \in Procs : \/ Create(p) \/ Destroy(p) \/ SaveHarness(p)
                             \/ \E m \in Members : RestartReadback(p, m)
         \/ \E m \in Members : MemberAnswers(m) \/ MachineLost(m) \/ OrchestratorLogs
         \/ UNCHANGED vars
BY OrchestratorIsMember DEF Next, Step, Doctor, Elsewhere

LEMMA NobodyElse ==
  ASSUME Typed, ~raced, NEW p \in Procs,
         Create(p) \/ Destroy(p) \/ SaveHarness(p) \/ \E m \in Members : RestartReadback(p, m)
  PROVE  /\ pc[p] \in Inside
         /\ \A q \in Procs \ {p} : pc[q] \notin Inside /\ pc'[q] \notin Inside
<1>1. pc[p] \in Inside
  BY ActsInside DEF SaveHarness, At, Inside
<1>2. Others(p)
  BY ProcStep DEF Step, Doctor
<1> QED BY <1>1, <1>2, Alone DEF Others

LEMMA ArchiveStep ==
  ASSUME Typed, ~raced, ArchiveInv, [Next]_vars PROVE ArchiveInv'
<1>0. \A p \in Procs : pc'[p] \notin Archiving => ArchiveOf(p)'
  BY DEF ArchiveOf, Archiving
<1>1. ASSUME NEW q \in Procs, Elsewhere(q) PROVE ArchiveInv'
  <2>1. Others(q) /\ pc'[q] \notin Archiving /\ UNCHANGED <<evidence, incomplete, machine>>
    BY <1>1, ProcStep, ElsewhereSays DEF Elsewhere, Step, Doctor, Archiving
  <2> QED BY <1>0, <2>1, ArchiveStays DEF ArchiveInv, Others, Present
<1>2. ASSUME NEW q \in Procs,
             Create(q) \/ Destroy(q) \/ SaveHarness(q) \/ \E m \in Members : RestartReadback(q, m)
      PROVE  ArchiveInv'
  <2>1. \A p \in Procs \ {q} : ArchiveOf(p)'
    BY <1>0, <1>2, NobodyElse DEF Archiving, Inside, Destroying
  <2>2. CASE Destroy(q)
    BY <2>1, <2>2, ArchiveDestroys DEF ArchiveInv
  <2>3. CASE ~Destroy(q)
    BY <1>0, <1>2, <2>1, <2>3, CreateGoes DEF ArchiveInv, Archiving, Creating
  <2> QED BY <2>2, <2>3
<1>3. ASSUME NEW k \in Members, MemberAnswers(k) \/ MachineLost(k) \/ OrchestratorLogs
      PROVE  ArchiveInv'
  <2>1. UNCHANGED <<pc, work, evidence, incomplete>>
    BY <1>3 DEF MemberAnswers, MachineLost, OrchestratorLogs, procVars, archiveVars
  <2> QED BY <1>3, <2>1, OutsideBoots, ArchiveStays DEF ArchiveInv, SameBoot
<1>4. CASE UNCHANGED vars
  BY <1>4, ArchiveStays DEF vars, procVars, ArchiveInv, Present
<1> QED BY <1>1, <1>2, <1>3, <1>4, Whose

(* destroy --archive takes a machine away only when the archive holds that *)
(* machine's evidence, whole: it has been to every member of the roster    *)
(* and left no mark (collectFinalArchive, archiveIncomplete; R112).        *)
THEOREM ArchivedBeforeGoneHolds == Spec => ArchivedBeforeGone
<1> DEFINE I == Typed /\ (raced \/ ArchiveInv)
<1>1. Init => I
  BY TypedInit DEF Init, ArchiveInv, ArchiveOf
<1>2. I /\ [Next]_vars => I'
  BY TypedStep, ArchiveStep, LockStep, RacedStays
<1>3. I /\ [Next]_vars =>
        [\A p \in Procs, m \in Members :
           At(p, "remove") /\ work[p].archive /\ ~raced /\ bounds' = bounds
           /\ Present(m) /\ machine'[m] = NoMachine
              => evidence[m] = machine[m].boot /\ m \notin incomplete]_vars
  BY DEF ArchiveInv, ArchiveOf, Collected, At
<1> QED BY <1>1, <1>2, <1>3, PTL DEF Spec, ArchivedBeforeGone


-----------------------------------------------------------------------------
(* What the record holds of the machines.  An answer that passed was given *)
(* on the files recorded with it; and created is said of a campaign whose  *)
(* mission runs.                                                           *)
Well(r) == r.passed => r.dispatch # 0 /\ r.read = r.inputs

(* r is of the latest dispatch of the machine that stands, which is        *)
(* closed; and that machine is the one r came from.                        *)
ClosedBy(mc, r) == Up(mc) => r.dispatch = mc.asked /\ mc.answer # NoAnswer
GivenBy(mc, r) == Up(mc) => r.from = mc.boot

RecordInv ==
  /\ \A m \in Members : Well(record.readback[m])
  /\ record.state = "created" /\ Present(Orchestrator)
        => machine[Orchestrator].mission = "running"

(* As long as no create has ended without recording what came of what it   *)
(* did: the mission is open only where the record says created or will     *)
(* say it next, no readback was asked under it, and an answer of the       *)
(* record that fits a machine's latest dispatch is that machine's own, the *)
(* members apart that are being asked just now.                            *)
OpenOf ==
  MissionOpen(machine[Orchestrator]) =>
     record.state = "created" \/ \E p \in Procs : pc[p] \in {"turn", "finish"}

Fits(r, mc) == r.passed /\ Up(mc) /\ r.dispatch = mc.asked => r.from = mc.boot

KeptOf(m) ==
  \/ \E p \in Procs : pc[p] = "readback" /\ work[p].stage[m] \notin {"ask", "bad"}
  \/ Fits(record.readback[m], machine[m])

TruthInv == OpenOf /\ MissionApart /\ \A m \in Members : KeptOf(m)

(* What a create holds.  Its copy of the record is the record's but for    *)
(* what it has yet to save; a doctor's is all of it.                       *)
Keeping == {"list"} \cup Making
Mine == Making \ {"journal"}

CopyOf(p) ==
  /\ pc[p] = "list" => record.state # "created"
  /\ pc[p] \in Keeping => copy[p].readback = record.readback
  /\ pc[p] \in Mine => copy[p].state = "creating" /\ record.state = "creating"
  /\ pc[p] = "journal" => copy[p] = record

(* The machines it has been to hold the briefing it seeded them with.      *)
Seeded(p, m) == Present(m) => machine[m].brief = copy[p].seeded[m]

SeedOf(p) ==
  /\ pc[p] \in {"boot", "forget", "configure"} =>
        /\ work[p].at \in 1..Len(Roster)
        /\ \A i \in 1..Len(Roster) :
              i < work[p].at /\ Roster[i] # MemberAt(p) => Seeded(p, Roster[i])
  /\ pc[p] \in {"orchestrate", "readback"} => \A m \in Members : Seeded(p, m)

(* A member that was asked answers on the briefing it was seeded with; and *)
(* one that is done has closed its dispatch with a report that says so.    *)
StageOf(p, m) ==
  LET mc == machine[m]
      seeded == copy[p].seeded[m]
      stage == work[p].stage[m]
      r == work[p].report[m]
  IN /\ stage \in {"wait", "again"} /\ Present(m) /\ ~MissionOpen(mc) =>
           /\ mc.asked # 0
           /\ mc.turn \in {NoBrief, seeded}
           /\ mc.answer # NoAnswer => mc.read = seeded
     /\ stage = "rejected" => ~r.passed
     /\ stage = "ok" =>
           /\ r.passed /\ r.dispatch # 0 /\ r.read = seeded /\ r.inputs = seeded
           /\ ClosedBy(mc, r)
           /\ ~abandoned => GivenBy(mc, r)

(* Once all are done the record holds their reports, and the mission is    *)
(* the only thing left to do.                                              *)
ConfirmedBy(m) ==
  LET mc == machine[m]  r == record.readback[m]
  IN /\ r.passed
     /\ Present(m) => r.read = mc.brief
     /\ ClosedBy(mc, r)
     /\ ~abandoned => GivenBy(mc, r)

LastOf(p) ==
  /\ pc[p] \in {"manifest", "mission"} => \A m \in Members : ConfirmedBy(m)
  /\ pc[p] = "mission" /\ Present(Orchestrator) =>
        \A g \in Agents : machine[Orchestrator].named[g] = record.readback[g].dispatch
  /\ pc[p] = "turn" /\ Present(Orchestrator) => machine[Orchestrator].answer # NoAnswer
  /\ pc[p] = "finish" /\ Present(Orchestrator) => machine[Orchestrator].mission = "running"

CommandOf(p) ==
  /\ CopyOf(p)
  /\ SeedOf(p)
  /\ pc[p] = "readback" => \A m \in Members : StageOf(p, m)
  /\ LastOf(p)

LifeInv == RecordInv /\ (abandoned \/ TruthInv) /\ \A p \in Procs : CommandOf(p)

(* Who holds no copy of the record is left out of it.                      *)
LEMMA HoldsNothing ==
  ASSUME NEW p \in Procs, pc'[p] \notin Keeping PROVE CommandOf(p)'
BY DEF CommandOf, CopyOf, SeedOf, LastOf, Keeping, Mine, Making, Creating

LEMMA CommandSame ==
  ASSUME NEW p \in Procs, CommandOf(p), UNCHANGED <<record, machine>>, abandoned => abandoned',
         pc'[p] = pc[p], copy'[p] = copy[p], work'[p] = work[p], abandoned \in BOOLEAN
  PROVE  CommandOf(p)'
<1>1. CopyOf(p)' /\ LastOf(p)'
  BY DEF CommandOf, CopyOf, LastOf, ConfirmedBy, Present
<1>2. SeedOf(p)'
  BY DEF CommandOf, SeedOf, Seeded, MemberAt, Present
<1>3. ASSUME NEW m \in Members, StageOf(p, m) PROVE StageOf(p, m)'
  BY <1>3 DEF StageOf, Present
<1> QED BY <1>1, <1>2, <1>3 DEF CommandOf

(* The record and what is true of it, where nobody's readback or mission   *)
(* goes on.                                                                *)
Stays ==
  \A q \in Procs : pc[q] \in {"readback", "turn", "finish"} =>
                      pc'[q] = pc[q] /\ work'[q] = work[q]

SameFor(m) ==
  \/ /\ machine'[m].boot = machine[m].boot /\ machine'[m].asked = machine[m].asked
     /\ machine'[m].mission = machine[m].mission /\ machine'[m].crossed = machine[m].crossed
  \/ machine'[m] = NoMachine
  \/ record.state # "created" /\ \E i, c : machine'[m] = Booted(i, c)

LEMMA WorldSame ==
  ASSUME RecordInv, abandoned \/ TruthInv, UNCHANGED abandoned, Stays,
         record'.readback = record.readback,
         record'.state = "created" <=> record.state = "created",
         \A m \in Members : SameFor(m)
  PROVE  RecordInv' /\ (abandoned \/ TruthInv)'
<1>0. Orchestrator \in Members
  BY OrchestratorIsMember
<1>1. RecordInv'
  BY <1>0, NewFields DEF RecordInv, SameFor, Like, Present, Up
<1>2. CASE ~abandoned
  <2>1. OpenOf'
    BY <1>0, <1>2, NewFields DEF TruthInv, OpenOf, SameFor, Like, MissionOpen, Stays
  <2>2. MissionApart'
    BY <1>2, NewFields DEF TruthInv, MissionApart, SameFor, Like
  <2>3. ASSUME NEW m \in Members PROVE KeptOf(m)'
    <3>1. Fits(record.readback[m], machine[m]) => Fits(record'.readback[m], machine'[m])
      BY NewFields DEF Fits, SameFor, Like, Up, RecordInv, Well
    <3> QED BY <1>2, <3>1 DEF TruthInv, KeptOf, Stays
  <2> QED BY <1>1, <2>1, <2>2, <2>3 DEF TruthInv
<1> QED BY <1>1, <1>2


(* One process does something inside the lock: what is to show is what it  *)
(* leaves, and what it holds then.                                         *)
Acts(p) ==
  Create(p) \/ Destroy(p) \/ SaveHarness(p) \/ \E m \in Members : RestartReadback(p, m)

LEMMA LifeOne ==
  ASSUME Typed, ~raced, NEW p \in Procs, Acts(p),
         RecordInv', (abandoned \/ TruthInv)', CommandOf(p)'
  PROVE  LifeInv'
<1>1. \A q \in Procs \ {p} : pc'[q] \notin Keeping
  BY NobodyElse DEF Acts, Keeping, Making, Inside, Creating
<1> QED BY <1>1, HoldsNothing DEF LifeInv

LEMMA StaysAlone ==
  ASSUME Typed, ~raced, NEW p \in Procs, Acts(p), pc[p] \notin {"readback", "turn", "finish"}
  PROVE  Stays
BY NobodyElse DEF Acts, Stays, Inside, Creating

LEMMA LifeElsewhere ==
  ASSUME Typed, ~raced, LifeInv, NEW p \in Procs, Elsewhere(p) PROVE LifeInv'
<1>0. /\ UNCHANGED <<record, machine>> /\ Others(p)
      /\ abandoned \in BOOLEAN /\ abandoned' \in BOOLEAN /\ (abandoned => abandoned')
  <2>1. abandoned' \in BOOLEAN
    BY DEF Elsewhere, StartCreate, StartDestroy, StartDoctor, StartObserve, TakeLock, Unlock,
         MergeLogMirror, Crash, LockToSave, Reload, history, Typed, CampaignTypeOK, CountTypeOK
  <2> QED BY <2>1, ElsewhereSays, ProcStep DEF Elsewhere, Step, Doctor, Typed, CampaignTypeOK,
              CountTypeOK
<1>1. CommandOf(p)'
  <2>1. CASE pc'[p] = "journal"
    BY <1>0, <2>1, ElsewhereSays DEF CommandOf, CopyOf, SeedOf, LastOf, Mine, Creating
  <2>2. CASE pc'[p] # "journal"
    BY <2>2, ElsewhereSays, HoldsNothing DEF Keeping, Making, Creating
  <2> QED BY <2>1, <2>2
<1>2. \A q \in Procs \ {p} : CommandOf(q)'
  BY <1>0, CommandSame DEF Others, LifeInv
<1>3. RecordInv'
  BY <1>0 DEF LifeInv, RecordInv, Present
<1>4. (abandoned \/ TruthInv)'
  <2>1. CASE pc[p] \notin {"readback", "turn", "finish"}
    <3>1. UNCHANGED abandoned
      <4>1. ~Crash(p) => UNCHANGED abandoned
        BY DEF Elsewhere, StartCreate, StartDestroy, StartDoctor, StartObserve, TakeLock,
             Unlock, MergeLogMirror, LockToSave, Reload, history
      <4>2. Crash(p) => UNCHANGED abandoned
        BY <1>0, <2>1 DEF Crash, At
      <4> QED BY <4>1, <4>2
    <3>2. Stays /\ \A m \in Members : SameFor(m)
      BY <1>0, <2>1 DEF Stays, Others, SameFor, Like
    <3> QED BY <1>0, <3>1, <3>2, WorldSame DEF LifeInv
  <2>2. CASE pc[p] \in {"readback", "turn", "finish"} /\ ~abandoned'
    <3>1. Crash(p)
      BY <2>2 DEF Elsewhere, StartCreate, StartDestroy, StartDoctor, StartObserve, Begin,
           TakeLock, Unlock, MergeLogMirror, LockToSave, Reload, At
    <3>2. pc[p] = "readback" /\ \A m \in Members : work[p].stage[m] = "ask"
      BY <2>2, <3>1 DEF Crash, At
    <3>3. \A q \in Procs : pc[q] \notin {"turn", "finish"} /\ (pc[q] = "readback" => q = p)
      BY <3>2, Alone DEF Inside, Creating
    <3>4. TruthInv
      BY <1>0, <2>2 DEF LifeInv
    <3>5. OpenOf' /\ MissionApart'
      BY <1>0, <3>3, <3>4 DEF TruthInv, OpenOf, MissionApart, MissionOpen
    <3>6. ASSUME NEW m \in Members PROVE KeptOf(m)'
      BY <1>0, <3>2, <3>3, <3>4 DEF TruthInv, KeptOf, Fits
    <3> QED BY <3>5, <3>6 DEF TruthInv
  <2> QED BY <2>1, <2>2
<1> QED BY <1>1, <1>2, <1>3, <1>4 DEF LifeInv

(* A destroy, and a doctor that saves.                                     *)
LEMMA LifeDestroys ==
  ASSUME Typed, ~raced, GuestInv, OwnInv, LifeInv, NEW p \in Procs, Destroy(p) PROVE LifeInv'
<1>0. Acts(p) /\ pc \in [Procs -> Steps] /\ machine \in [Members -> MachineValues]
  BY DEF Acts, Typed, WriteInv, WriteTypes, CampaignTypeOK, GuestTypeOK
<1>1. /\ pc[p] \in {"load", "archive", "scan", "remove", "delete"}
      /\ pc'[p] \in {"unlock", "archive", "scan", "remove", "delete"}
      /\ UNCHANGED abandoned
  BY <1>0 DEF Destroy, LoadToDestroy, ArchiveMember, ScanMembers, RemoveMember, VerifyGone,
              DeleteRecord, At, Goto, AfterArchive, history
<1>2. CommandOf(p)'
  BY <1>1, HoldsNothing DEF Keeping, Making, Creating
<1>3. Stays
  BY <1>0, <1>1, StaysAlone
<1>4. CASE DeleteRecord(p)
  <2>1. record' = NoRecord /\ UNCHANGED machine /\ pc[p] = "delete"
    BY <1>4 DEF DeleteRecord, Save, At
  <2>2. \A m \in Members : ~Present(m) /\ ~MissionOpen(machine[m])
    BY <2>1 DEF OwnInv, GuestInv, GuestOf
  <2>3. RecordInv'
    BY <2>1 DEF RecordInv, NoRecord, NoReadback, Well
  <2>4. ~abandoned => TruthInv'
    BY <2>1, <2>2, OrchestratorIsMember
       DEF LifeInv, TruthInv, OpenOf, MissionApart, KeptOf, Fits, Present, MissionOpen
  <2> QED BY <1>0, <1>1, <1>2, <2>3, <2>4, LifeOne
<1>5. CASE ~DeleteRecord(p)
  <2>1. UNCHANGED record
    BY <1>5 DEF Destroy, LoadToDestroy, Loaded, ArchiveMember, ScanMembers, RemoveMember,
                VerifyGone, recordVars
  <2>2. UNCHANGED machine \/ \E k : machine' = [machine EXCEPT ![k] = NoMachine]
    <3>1. RemoveMember(p) => UNCHANGED machine \/ \E k : machine' = [machine EXCEPT ![k] = NoMachine]
      BY Zenon DEF RemoveMember
    <3> QED BY <1>5, <3>1 DEF Destroy, LoadToDestroy, ArchiveMember, ScanMembers, VerifyGone
  <2>3. \A m \in Members : SameFor(m)
    BY <1>0, <2>2 DEF SameFor, Like
  <2> QED BY <1>0, <1>1, <1>2, <1>3, <2>1, <2>3, WorldSame, LifeOne DEF LifeInv
<1> QED BY <1>4, <1>5

LEMMA LifeSaves ==
  ASSUME Typed, ~raced, LifeInv, NEW p \in Procs, SaveHarness(p) PROVE LifeInv'
<1>0. Acts(p) /\ pc \in [Procs -> Steps] /\ record \in RecordValues
  BY DEF Acts, Typed, WriteInv, WriteTypes, CampaignTypeOK, HostTypeOK
<1>1. /\ pc[p] = "journal" /\ pc'[p] = "unlock" /\ UNCHANGED <<abandoned, machine>>
      /\ record' = [copy[p] EXCEPT !.harness = TRUE]
  BY <1>0 DEF SaveHarness, Save, At, Goto, history
<1>2. copy[p] = record
  BY <1>1 DEF LifeInv, CommandOf, CopyOf
<1>3. record'.readback = record.readback /\ record'.state = record.state
  BY <1>0, <1>1, <1>2 DEF RecordValues
<1>4. Stays /\ \A m \in Members : SameFor(m)
  BY <1>0, <1>1, StaysAlone DEF SameFor, Like
<1>5. CommandOf(p)'
  BY <1>1, HoldsNothing DEF Keeping, Making, Creating
<1> QED BY <1>0, <1>1, <1>3, <1>4, <1>5, WorldSame, LifeOne DEF LifeInv


-----------------------------------------------------------------------------
(* A create up to its readback.                                            *)
LEMMA LifeFails ==
  ASSUME Typed, ~raced, LifeInv, NEW p \in Procs, Acts(p), pc[p] \in Mine,
         pc[p] \notin {"readback", "turn", "finish"}, FailCreate(p),
         UNCHANGED <<machine, abandoned>>
  PROVE  LifeInv'
<1>1. copy[p] \in RecordValues /\ pc'[p] = "unlock"
      /\ record' = [copy[p] EXCEPT !.state = "create-failed"]
  BY DEF Typed, WriteInv, WriteTypes, CampaignTypeOK, ProcTypeOK, FailCreate, Goto, Save
<1>2. copy[p].readback = record.readback /\ record.state # "created"
  BY DEF LifeInv, CommandOf, CopyOf, Keeping, Mine
<1>3. record'.readback = record.readback /\ record'.state # "created"
  BY <1>1, <1>2 DEF RecordValues
<1>4. Stays /\ \A m \in Members : SameFor(m)
  BY StaysAlone DEF SameFor, Like
<1>5. CommandOf(p)'
  BY <1>1, HoldsNothing DEF Keeping, Making, Creating
<1> QED BY <1>2, <1>3, <1>4, <1>5, WorldSame, LifeOne DEF LifeInv

LEMMA LifeAdopts ==
  ASSUME Typed, ~raced, LifeInv, NEW p \in Procs, Adopt(p) \/ ListMembers(p) PROVE LifeInv'
<1>0. /\ Acts(p) /\ pc \in [Procs -> Steps] /\ pc[p] \in {"adopt", "list"}
      /\ copy \in [Procs -> RecordValues] /\ work[p] \in WorkValues
      /\ work \in [Procs -> WorkValues]
      /\ UNCHANGED <<machine, abandoned>>
  BY DEF Acts, Create, Typed, WriteInv, WriteTypes, CampaignTypeOK, ProcTypeOK, Adopt,
         ListMembers, At, history
<1>1. Stays /\ \A m \in Members : SameFor(m)
  BY <1>0, StaysAlone DEF SameFor, Like
<1>2. CASE Adopt(p)
  <2>1. UNCHANGED record
    BY <1>2 DEF Adopt, Loaded, recordVars
  <2>2. CASE Goto(p, "unlock")
    <3>1. CommandOf(p)'
      BY <1>0, <2>2, HoldsNothing DEF Goto, Keeping, Making, Creating
    <3> QED BY <1>0, <1>1, <2>1, <3>1, WorldSame, LifeOne DEF LifeInv
  <2>3. CASE Goto(p, "list") /\ record.state # "created" /\ copy'[p].readback = record.readback
    <3>1. pc'[p] = "list"
      BY <1>0, <2>3 DEF Goto
    <3>2. CommandOf(p)'
      BY <2>1, <2>3, <3>1
         DEF CommandOf, CopyOf, SeedOf, LastOf, Mine, Making, Creating
    <3> QED BY <1>0, <1>1, <2>1, <3>2, WorldSame, LifeOne DEF LifeInv
  <2>4. record.state \in Resumable /\ Loaded(p) => copy'[p] = record /\ record.state # "created"
    BY <1>0 DEF Loaded, Resumable
  <2>5. ASSUME NEW n, ~Recorded, copy' = [copy EXCEPT ![p] = Planned(n)]
        PROVE  record.state # "created" /\ copy'[p].readback = record.readback
    BY <1>0, <2>5 DEF Recorded, Planned, NoRecord
  <2> QED BY <1>2, <2>2, <2>3, <2>4, <2>5 DEF Adopt
<1>3. CASE ListMembers(p)
  <2>1. CASE Goto(p, "unlock") /\ UNCHANGED recordVars
    <3>1. CommandOf(p)'
      BY <1>0, <2>1, HoldsNothing DEF Goto, Keeping, Making, Creating
    <3> QED BY <1>0, <1>1, <2>1, <3>1, WorldSame, LifeOne DEF LifeInv, recordVars
  <2>2. CASE ~(Goto(p, "unlock") /\ UNCHANGED recordVars)
    <3>1. PICK b : /\ work' = [work EXCEPT ![p] = [work[p] EXCEPT !.live = Standing, !.at = 1,
                                                                  !.brief = b]]
                   /\ copy' = [copy EXCEPT ![p] = [copy[p] EXCEPT !.state = "creating"]]
                   /\ record' = copy'[p]
                   /\ Goto(p, "boot")
      BY <1>3, <2>2 DEF ListMembers, Save
    <3>2. /\ pc[p] = "list" /\ pc'[p] = "boot" /\ work'[p].at = 1
          /\ record' = copy'[p] /\ copy'[p].readback = copy[p].readback
          /\ copy'[p].state = "creating"
      <4>1. pc[p] = "list" /\ pc'[p] = "boot"
        BY <1>0, <1>3, <3>1 DEF Goto, ListMembers, At
      <4>2. work'[p].at = 1
        BY <1>0, <3>1 DEF WorkValues
      <4>3. copy'[p] = [copy[p] EXCEPT !.state = "creating"] /\ copy[p] \in RecordValues
        BY <1>0, <3>1
      <4>4. copy'[p].readback = copy[p].readback /\ copy'[p].state = "creating"
        BY <4>3 DEF RecordValues
      <4> QED BY <3>1, <4>1, <4>2, <4>4
    <3>3. copy[p].readback = record.readback /\ record.state # "created"
      BY <3>2 DEF LifeInv, CommandOf, CopyOf, Keeping
    <3>4. SeedOf(p)'
      BY <3>2, RosterMembers DEF SeedOf
    <3>5. CommandOf(p)'
      BY <3>2, <3>4 DEF CommandOf, CopyOf, LastOf
    <3> QED BY <1>0, <1>1, <3>2, <3>3, <3>5, WorldSame, LifeOne DEF LifeInv
  <2> QED BY <2>1, <2>2
<1> QED BY <1>2, <1>3

LEMMA LifeBoots ==
  ASSUME Typed, ~raced, LifeInv, NEW p \in Procs, Boot(p) \/ ForgetEarlierLife(p)
  PROVE  LifeInv'
<1>0. /\ Acts(p) /\ pc \in [Procs -> Steps] /\ machine \in [Members -> MachineValues]
      /\ pc[p] \in {"boot", "forget"} /\ pc[p] \in Mine /\ UNCHANGED abandoned
  BY DEF Acts, Create, Typed, WriteInv, WriteTypes, CampaignTypeOK, GuestTypeOK, Boot,
         ForgetEarlierLife, At, Mine, Making, Creating, history
<1>1. CASE FailCreate(p) /\ UNCHANGED machine
  BY <1>0, <1>1, LifeFails
<1>2. CASE FailCreate(p) /\ ~UNCHANGED machine
  <2>1. \E i, c : machine' = [machine EXCEPT ![MemberAt(p)] = Booted(i, c)]
    BY <1>0, <1>2 DEF Boot, ForgetEarlierLife
  <2>2. copy[p] \in RecordValues /\ pc'[p] = "unlock"
        /\ record' = [copy[p] EXCEPT !.state = "create-failed"]
    BY <1>2 DEF Typed, WriteInv, WriteTypes, CampaignTypeOK, ProcTypeOK, FailCreate, Goto, Save
  <2>3. copy[p].readback = record.readback /\ record.state # "created"
    BY <1>0 DEF LifeInv, CommandOf, CopyOf, Keeping, Mine
  <2>4. record'.readback = record.readback /\ record'.state # "created"
    BY <2>2, <2>3 DEF RecordValues
  <2>5. Stays /\ \A m \in Members : SameFor(m)
    BY <1>0, <2>1, <2>3, StaysAlone DEF SameFor
  <2>6. CommandOf(p)'
    BY <2>2, HoldsNothing DEF Keeping, Making, Creating
  <2> QED BY <1>0, <2>3, <2>4, <2>5, <2>6, WorldSame, LifeOne DEF LifeInv
<1>3. CASE ~FailCreate(p)
  <2>1. /\ UNCHANGED <<record, copy, work>> /\ pc'[p] \in {"forget", "configure"}
        /\ \/ UNCHANGED machine
           \/ \E i, c : machine' = [machine EXCEPT ![MemberAt(p)] = Booted(i, c)]
    BY <1>0, <1>3 DEF Boot, ForgetEarlierLife, Goto, recordVars
  <2>2. CommandOf(p) /\ record.state = "creating"
    BY <1>0 DEF LifeInv, CommandOf, CopyOf
  <2>3. Stays
    BY <1>0, StaysAlone
  <2>4. \A m \in Members : SameFor(m)
    BY <1>0, <2>1, <2>2 DEF SameFor, Like
  <2>5. SeedOf(p)'
    <3>1. \A m \in Members \ {MemberAt(p)} : Seeded(p, m) => Seeded(p, m)'
      BY <1>0, <2>1 DEF Seeded, Present
    <3>2. MemberAt(p)' = MemberAt(p) /\ work'[p].at = work[p].at
      BY <2>1 DEF MemberAt
    <3> QED BY <1>0, <2>1, <2>2, <3>1, <3>2, RosterMembers DEF CommandOf, SeedOf
  <2>6. CommandOf(p)'
    BY <1>0, <2>1, <2>2, <2>5
       DEF CommandOf, CopyOf, LastOf, Keeping, Mine, Making, Creating
  <2> QED BY <1>0, <2>1, <2>3, <2>4, <2>6, WorldSame, LifeOne DEF LifeInv
<1> QED BY <1>1, <1>2, <1>3


LEMMA LifeConfigures ==
  ASSUME Typed, ~raced, LifeInv, NEW p \in Procs, ConfigureMember(p) PROVE LifeInv'
<1>0. /\ Acts(p) /\ pc \in [Procs -> Steps] /\ machine \in [Members -> MachineValues]
      /\ copy \in [Procs -> RecordValues] /\ work \in [Procs -> WorkValues]
      /\ pc[p] = "configure" /\ pc[p] \in Mine /\ UNCHANGED abandoned
  BY DEF Acts, Create, Typed, WriteInv, WriteTypes, CampaignTypeOK, GuestTypeOK, ProcTypeOK,
         ConfigureMember, At, Mine, Making, Creating, history
<1>1. CASE FailCreate(p) /\ UNCHANGED machine
  BY <1>0, <1>1, LifeFails
<1>2. CASE ~(FailCreate(p) /\ UNCHANGED machine)
  <2>1. /\ CommandOf(p) /\ copy[p].readback = record.readback
        /\ copy[p].state = "creating" /\ record.state = "creating"
        /\ work[p].at \in 1..Len(Roster)
    BY <1>0 DEF LifeInv, CommandOf, CopyOf, SeedOf, Keeping, Mine
  <2>2. PICK k \in Members : k = MemberAt(p)
    BY <2>1, RosterMembers DEF MemberAt
  <2>3. PICK b \in BriefOrNone : b = work[p].brief
    BY <1>0 DEF WorkValues
  <2>4. /\ machine' = [machine EXCEPT ![k] = Configured(machine[k], b)]
        /\ copy' = [copy EXCEPT ![p] = [copy[p] EXCEPT !.seeded =
                                           [copy[p].seeded EXCEPT ![k] = b]]]
        /\ record' = copy'[p]
        /\ IF MoreMembers(p)
              THEN work' = [work EXCEPT ![p] = [work[p] EXCEPT !.at = work[p].at + 1]]
                   /\ Goto(p, "boot")
              ELSE Goto(p, "orchestrate")
    BY <1>2, <2>2, <2>3 DEF ConfigureMember, Save
  <2>5. /\ copy'[p].readback = copy[p].readback /\ copy'[p].state = copy[p].state
        /\ copy'[p].seeded[k] = b
        /\ \A m \in Members \ {k} : copy'[p].seeded[m] = copy[p].seeded[m]
    <3>1. copy[p] \in RecordValues /\ copy'[p] = [copy[p] EXCEPT !.seeded =
                                                      [copy[p].seeded EXCEPT ![k] = b]]
      BY <1>0, <2>4
    <3> QED BY <3>1 DEF RecordValues
  <2>6. /\ machine'[k].brief = b /\ Like(machine'[k], machine[k])
        /\ \A m \in Members \ {k} : machine'[m] = machine[m]
    BY <1>0, <2>4, OperationFields
  <2>7. \A m \in Members : SameFor(m)
    BY <2>6 DEF SameFor, Like
  <2>8. /\ Seeded(p, k)'
        /\ \A m \in Members \ {k} : Seeded(p, m) => Seeded(p, m)'
    BY <2>5, <2>6 DEF Seeded, Present
  <2>9. \A i \in 1..Len(Roster) : i <= work[p].at => Seeded(p, Roster[i])'
    <3>1. ASSUME NEW i \in 1..Len(Roster), i <= work[p].at, Roster[i] # k
          PROVE  Seeded(p, Roster[i])
      BY <1>0, <2>1, <2>2, <3>1 DEF CommandOf, SeedOf, MemberAt
    <3> QED BY <2>8, <3>1, RosterMembers
  <2>10. SeedOf(p)' /\ pc'[p] \in {"boot", "orchestrate"}
    <3>1. CASE MoreMembers(p)
      <4>1. pc'[p] = "boot" /\ work'[p].at = work[p].at + 1
        BY <1>0, <2>1, <2>4, <3>1 DEF Goto, WorkValues
      <4>2. work'[p].at \in 1..Len(Roster)
        BY <2>1, <3>1, <4>1, RosterMembers DEF MoreMembers
      <4> QED BY <2>1, <2>9, <4>1, <4>2 DEF SeedOf
    <3>2. CASE ~MoreMembers(p)
      <4>1. pc'[p] = "orchestrate"
        BY <1>0, <2>4, <3>2 DEF Goto
      <4>2. \A i \in 1..Len(Roster) : i <= work[p].at
        BY <2>1, <3>2, RosterMembers DEF MoreMembers
      <4>3. \A m \in Members : Seeded(p, m)'
        BY <2>9, <4>2, RosterMembers
      <4> QED BY <4>1, <4>3 DEF SeedOf
    <3> QED BY <3>1, <3>2
  <2>11. CommandOf(p)'
    BY <2>1, <2>4, <2>5, <2>10 DEF CommandOf, CopyOf, LastOf, Keeping, Mine, Making, Creating
  <2>12. Stays
    BY <1>0, StaysAlone
  <2>13. record'.readback = record.readback /\ record'.state = record.state
    BY <2>1, <2>4, <2>5
  <2> QED BY <1>0, <2>7, <2>11, <2>12, <2>13, WorldSame, LifeOne DEF LifeInv
<1> QED BY <1>1, <1>2

LEMMA LifeOrchestrates ==
  ASSUME Typed, ~raced, GuestInv, LifeInv, NEW p \in Procs, Orchestrate(p) PROVE LifeInv'
<1>0. /\ Acts(p) /\ pc \in [Procs -> Steps] /\ machine \in [Members -> MachineValues]
      /\ copy \in [Procs -> RecordValues] /\ work[p].report \in [Members -> Readbacks]
      /\ pc[p] = "orchestrate" /\ pc[p] \in Mine /\ UNCHANGED <<abandoned, work>>
  BY DEF Acts, Create, Typed, WriteInv, WriteTypes, CampaignTypeOK, GuestTypeOK, ProcTypeOK,
         WorkValues, Orchestrate, At, Mine, Making, Creating, history
<1>1. CASE FailCreate(p) /\ UNCHANGED machine
  BY <1>0, <1>1, LifeFails
<1>2. CASE ~(FailCreate(p) /\ UNCHANGED machine)
  <2>1. /\ CommandOf(p) /\ copy[p].readback = record.readback
        /\ copy[p].state = "creating" /\ record.state = "creating"
    BY <1>0 DEF LifeInv, CommandOf, CopyOf, Keeping, Mine
  <2>2. /\ machine' = [machine EXCEPT ![Orchestrator] =
                          Manifested(machine[Orchestrator], copy[p].readback)]
        /\ copy' = [copy EXCEPT ![p] = [copy[p] EXCEPT !.harness = TRUE]]
        /\ Goto(p, "readback")
        /\ UNCHANGED record
    BY <1>2 DEF Orchestrate, recordVars
  <2>3. /\ copy'[p].readback = copy[p].readback /\ copy'[p].state = copy[p].state
        /\ copy'[p].seeded = copy[p].seeded
    BY <1>0, <2>2 DEF RecordValues
  <2>4. \A m \in Members : Like(machine'[m], machine[m]) /\ machine'[m].brief = machine[m].brief
    <3>1. \A r : LET nc == Manifested(machine[Orchestrator], r) IN
             Like(nc, machine[Orchestrator]) /\ nc.brief = machine[Orchestrator].brief
      BY <1>0, OperationFields, OrchestratorIsMember
    <3> QED BY <1>0, <2>2, <3>1, OrchestratorIsMember DEF Like
  <2>5. pc'[p] = "readback" /\ \A m \in Members : work'[p].stage[m] = "ask"
    BY <1>0, <2>2 DEF Goto, GuestInv, StagesFresh, AllToAsk, NoWork
  <2>6. SeedOf(p)'
    BY <1>0, <2>1, <2>3, <2>4, <2>5 DEF CommandOf, SeedOf, Seeded, Present, Up, Like
  <2>7. \A m \in Members : StageOf(p, m)'
    BY <2>5 DEF StageOf
  <2>8. CommandOf(p)'
    BY <2>1, <2>2, <2>3, <2>5, <2>6, <2>7
       DEF CommandOf, CopyOf, LastOf, Keeping, Mine, Making, Creating
  <2>9. Stays /\ \A m \in Members : SameFor(m)
    BY <1>0, <2>4, StaysAlone DEF SameFor, Like
  <2> QED BY <1>0, <2>2, <2>8, <2>9, WorldSame, LifeOne DEF LifeInv
<1> QED BY <1>1, <1>2


-----------------------------------------------------------------------------
(* The readback, which leaves the record as it is until everyone is done.  *)
ToStage(p, k, s) ==
  /\ work'[p].stage[k] = s
  /\ \A m \in Members \ {k} : work'[p].stage[m] = work[p].stage[m]

ToReport(p, k, r) ==
  /\ work'[p].report[k] = r
  /\ \A m \in Members \ {k} : work'[p].report[m] = work[p].report[m]

LEMMA StageSays ==
  ASSUME Typed, NEW p \in Procs, NEW k \in Members, NEW s
  PROVE  /\ Stage(p, k, s) => /\ ToStage(p, k, s)
                              /\ \A m \in Members : work'[p].report[m] = work[p].report[m]
         /\ \A r : work' = [work EXCEPT ![p].stage[k] = s, ![p].report[k] = r]
                       => ToStage(p, k, s) /\ ToReport(p, k, r)
<1>1. work \in [Procs -> WorkValues]
  BY DEF Typed, CampaignTypeOK, ProcTypeOK
<1>2. ASSUME NEW stage, work' = [work EXCEPT ![p] = [work[p] EXCEPT !.stage = stage]]
      PROVE  work'[p].stage = stage /\ work'[p].report = work[p].report
  BY <1>1, <1>2 DEF WorkValues
<1>3. ASSUME NEW stage, NEW report,
             work' = [work EXCEPT ![p] = [work[p] EXCEPT !.stage = stage, !.report = report]]
      PROVE  work'[p].stage = stage /\ work'[p].report = report
  BY <1>1, <1>3 DEF WorkValues
<1>4. work[p].stage \in [Members -> Stages] /\ work[p].report \in [Members -> Readbacks]
  BY <1>1 DEF WorkValues
<1>5. Stage(p, k, s) => /\ ToStage(p, k, s)
                        /\ \A m \in Members : work'[p].report[m] = work[p].report[m]
  <2>1. SUFFICES ASSUME Stage(p, k, s)
                 PROVE  /\ ToStage(p, k, s)
                        /\ \A m \in Members : work'[p].report[m] = work[p].report[m]
    OBVIOUS
  <2>2. work' = [work EXCEPT ![p] = [work[p] EXCEPT !.stage = [work[p].stage EXCEPT ![k] = s]]]
    BY <2>1 DEF Stage
  <2>3. work'[p].stage = [work[p].stage EXCEPT ![k] = s] /\ work'[p].report = work[p].report
    BY <1>2, <2>2
  <2> QED BY <1>4, <2>3 DEF ToStage
<1>6. ASSUME NEW r, work' = [work EXCEPT ![p].stage[k] = s, ![p].report[k] = r]
      PROVE  ToStage(p, k, s) /\ ToReport(p, k, r)
  <2>1. work' = [work EXCEPT ![p] = [work[p] EXCEPT !.stage = [work[p].stage EXCEPT ![k] = s],
                                           !.report = [work[p].report EXCEPT ![k] = r]]]
    BY <1>1, <1>6
  <2>2. /\ work'[p].stage = [work[p].stage EXCEPT ![k] = s]
        /\ work'[p].report = [work[p].report EXCEPT ![k] = r]
    BY <1>3, <2>1
  <2> QED BY <1>4, <2>2 DEF ToStage, ToReport
<1> QED BY <1>5, <1>6

LEMMA StageSame ==
  ASSUME NEW p \in Procs, NEW m \in Members, StageOf(p, m), UNCHANGED copy,
         machine'[m] = machine[m], abandoned => abandoned', abandoned \in BOOLEAN,
         work'[p].stage[m] = work[p].stage[m], work'[p].report[m] = work[p].report[m]
  PROVE  StageOf(p, m)'
BY DEF StageOf, Present

(* Nobody but the one at its readback is anywhere in a create.             *)
LEMMA ReadingAlone ==
  ASSUME Typed, ~raced, GuestInv, LifeInv, NEW p \in Procs, pc[p] = "readback"
  PROVE  /\ \A q \in Procs \ {p} : pc[q] \notin {"readback", "turn", "finish"}
         /\ record.state = "creating" /\ copy[p].readback = record.readback
         /\ \A m \in Members : Seeded(p, m) /\ StageOf(p, m) /\ GuestOf(m)
         /\ ~abandoned => \A m \in Members : ~MissionOpen(machine[m]) /\ ~machine[m].crossed
         /\ ~abandoned => \A m \in Members : work[p].stage[m] \in {"ask", "bad"}
                                      => Fits(record.readback[m], machine[m])
<1>1. \A q \in Procs \ {p} : pc[q] \notin {"readback", "turn", "finish"}
  BY Alone DEF Inside, Creating
<1>2. /\ record.state = "creating" /\ copy[p].readback = record.readback
      /\ \A m \in Members : Seeded(p, m) /\ StageOf(p, m) /\ GuestOf(m)
  BY DEF LifeInv, CommandOf, CopyOf, SeedOf, GuestInv, Keeping, Mine, Making, Creating
<1>3. ASSUME ~abandoned
      PROVE  \A m \in Members : ~MissionOpen(machine[m]) /\ ~machine[m].crossed
  <2>1. ~MissionOpen(machine[Orchestrator])
    BY <1>1, <1>2, <1>3 DEF LifeInv, TruthInv, OpenOf
  <2> QED BY <1>2, <1>3, <2>1 DEF LifeInv, TruthInv, MissionApart, GuestOf, Agents
<1>4. ASSUME ~abandoned, NEW m \in Members, work[p].stage[m] \in {"ask", "bad"}
      PROVE  Fits(record.readback[m], machine[m])
  BY <1>1, <1>4 DEF LifeInv, TruthInv, KeptOf
<1> QED BY <1>1, <1>2, <1>3, <1>4

(* What a step with the member k has to leave.                             *)
LEMMA LifeReads ==
  ASSUME Typed, ~raced, GuestInv, LifeInv, NEW p \in Procs, Acts(p), pc[p] = "readback",
         UNCHANGED <<record, pc, copy>>, abandoned => abandoned', abandoned' \in BOOLEAN,
         NEW k \in Members, StageOf(p, k)',
         NEW s, ToStage(p, k, s),
         \A m \in Members \ {k} : work'[p].report[m] = work[p].report[m],
         NEW nc, Puts(k, nc), nc.boot = machine[k].boot, nc.brief = machine[k].brief,
         nc.mission = machine[k].mission,
         ~abandoned' => /\ ~nc.crossed
                        /\ s \in {"ask", "bad"} => Fits(record.readback[k], nc)
  PROVE  LifeInv'
<1>0. abandoned \in BOOLEAN /\ ~abandoned' => ~abandoned
  BY DEF Typed, CampaignTypeOK, CountTypeOK
<1>1. RecordInv'
  BY ReadingAlone DEF LifeInv, RecordInv
<1>2. \A m \in Members : StageOf(p, m)'
  BY <1>0, ReadingAlone, StageSame DEF ToStage, Puts, Typed, CampaignTypeOK, CountTypeOK
<1>3. SeedOf(p)'
  BY ReadingAlone DEF SeedOf, Seeded, Present, Up, Puts
<1>4. CommandOf(p)'
  BY <1>2, <1>3 DEF LifeInv, CommandOf, CopyOf, LastOf
<1>5. ASSUME ~abandoned' PROVE TruthInv'
  <2>1. OpenOf' /\ MissionApart'
    BY <1>0, <1>5, ReadingAlone, OrchestratorIsMember
       DEF OpenOf, MissionApart, MissionOpen, Puts
  <2>2. ASSUME NEW m \in Members PROVE KeptOf(m)'
    <3>1. CASE work'[p].stage[m] \notin {"ask", "bad"}
      BY <3>1 DEF KeptOf
    <3>2. CASE work'[p].stage[m] \in {"ask", "bad"}
      <4>1. CASE m = k
        BY <1>5, <3>2, <4>1 DEF KeptOf, Fits, ToStage, Puts
      <4>2. CASE m # k
        <5>1. Fits(record.readback[m], machine[m])
          BY <1>0, <1>5, <3>2, <4>2, ReadingAlone DEF ToStage
        <5> QED BY <4>2, <5>1 DEF KeptOf, Fits, Puts
      <4> QED BY <4>1, <4>2
    <3> QED BY <3>1, <3>2
  <2> QED BY <2>1, <2>2 DEF TruthInv
<1> QED BY <1>1, <1>4, <1>5, LifeOne


LEMMA LifeKeeps ==
  ASSUME Typed, ~raced, GuestInv, LifeInv, NEW p \in Procs, NEW k \in Members,
         KeepReadback(p, k)
  PROVE  LifeInv'
<1>0. /\ Acts(p) /\ pc[p] = "readback" /\ work[p].stage[k] = "ask"
      /\ UNCHANGED <<record, pc, copy, machine, abandoned>> /\ abandoned \in BOOLEAN
      /\ machine[k] \in MachineValues
  BY DEF Acts, Create, Readback, KeepReadback, StageIs, At, ReadbackUnchanged, recordVars,
         Typed, CampaignTypeOK, CountTypeOK, GuestTypeOK
<1>1. ToStage(p, k, "ok") /\ ToReport(p, k, copy[p].readback[k])
  BY StageSays DEF KeepReadback
<1>2. PICK r : r = record.readback[k]
  OBVIOUS
<1>3. /\ copy[p].readback[k] = r /\ Well(r) /\ (~abandoned => Fits(r, machine[k]))
      /\ ~abandoned => ~machine[k].crossed
  BY <1>0, <1>2, ReadingAlone DEF LifeInv, RecordInv
<1>4. /\ r.passed /\ machine[k].asked = r.dispatch /\ ~ReadbackOpen(machine[k])
      /\ r.inputs = copy[p].seeded[k]
  BY <1>3 DEF KeepReadback, KeptReadback
<1>5. r.dispatch # 0 /\ r.read = r.inputs /\ machine[k].answer # NoAnswer
  BY <1>0, <1>3, <1>4 DEF Well, ReadbackOpen, MachineValues
<1>6. StageOf(p, k)'
  BY <1>0, <1>1, <1>3, <1>4, <1>5 DEF StageOf, ToStage, ToReport, ClosedBy, GivenBy, Fits, Present
<1>7. Puts(k, machine[k])
  BY <1>0 DEF Puts
<1> QED BY <1>0, <1>1, <1>3, <1>6, <1>7, LifeReads DEF ToReport

(* The member that is asked holds the briefing it was seeded with, and if  *)
(* it is not on the session nothing of it runs.                            *)
LEMMA LifeAsks ==
  ASSUME Typed, ~raced, GuestInv, LifeInv, NEW p \in Procs, NEW k \in Members,
         AskReadback(p, k)
  PROVE  LifeInv'
<1> DEFINE mc == machine[k]
           ac == Asked(mc)
<1>0. /\ Acts(p) /\ pc[p] = "readback" /\ Present(k)
      /\ UNCHANGED <<record, pc, copy>> /\ abandoned \in BOOLEAN /\ mc \in MachineValues
  BY DEF Acts, Create, Readback, AskReadback, StageIs, At, ReadbackUnchanged, recordVars,
         Typed, CampaignTypeOK, CountTypeOK, GuestTypeOK
<1>1. ac \in MachineValues
  BY <1>0, AskedType DEF AskReadback
<1>2. Seeded(p, k) /\ GuestOf(k) /\ (~abandoned => ~MissionOpen(mc) /\ ~mc.crossed)
  BY <1>0, ReadingAlone
<1> HIDE DEF mc, ac
<1>3. CASE /\ StartTurn(k, ac, Turned(ac))
           /\ \E s \in {"wait", "again"} : Stage(p, k, s)
           /\ UNCHANGED abandoned
  <2>1. PICK s \in {"wait", "again"} : Stage(p, k, s)
    BY <1>3
  <2>2. /\ ToStage(p, k, s) /\ \A m \in Members : work'[p].report[m] = work[p].report[m]
    BY <2>1, StageSays
  <2>3. PICK nc : /\ Puts(k, nc)
                  /\ nc.boot = mc.boot /\ nc.brief = mc.brief /\ nc.mission = mc.mission
                  /\ ~MissionOpen(mc) => /\ nc.asked # 0 /\ nc.answer = NoAnswer
                                         /\ nc.turn \in {NoBrief, mc.brief}
                                         /\ nc.crossed = mc.crossed
    <3>1. /\ ac.boot = mc.boot /\ ac.brief = mc.brief /\ ac.mission = mc.mission
          /\ ac.turn = mc.turn
          /\ ~MissionOpen(mc) => ac.asked # 0 /\ ac.answer = NoAnswer /\ ac.crossed = mc.crossed
      BY <1>0, AskedFields DEF ac
    <3>2. LET tc == Turned(ac) IN
          /\ tc.boot = mc.boot /\ tc.brief = mc.brief /\ tc.mission = mc.mission
          /\ tc.turn = mc.brief
          /\ ~MissionOpen(mc) => tc.asked # 0 /\ tc.answer = NoAnswer /\ tc.crossed = mc.crossed
      BY <1>1, <3>1, TurnFields
    <3>3. IF OnSession(k) THEN Puts(k, Turned(ac)) ELSE Puts(k, ac)
      BY <1>3, <3>1, StartTurnSays DEF mc
    <3>4. ~OnSession(k) => mc.turn = NoBrief
      BY <1>0, <1>2 DEF GuestOf, Answered, mc
    <3> QED BY <3>1, <3>2, <3>3, <3>4
  <2>4. StageOf(p, k)'
    BY <1>0, <1>2, <2>2, <2>3
       DEF StageOf, ToStage, Puts, Seeded, MissionOpen, mc
  <2> QED BY <1>0, <1>2, <1>3, <2>2, <2>3, <2>4, LifeReads DEF mc
<1>4. CASE /\ machine' = [machine EXCEPT ![k] = ac] /\ Stage(p, k, "bad") /\ abandoned'
  <2>1. /\ ToStage(p, k, "bad") /\ \A m \in Members : work'[p].report[m] = work[p].report[m]
    BY <1>4, StageSays
  <2>2. StageOf(p, k)'
    BY <2>1 DEF StageOf, ToStage
  <2>3. Puts(k, ac) /\ ac.boot = mc.boot /\ ac.brief = mc.brief /\ ac.mission = mc.mission
    BY <1>0, <1>4, PutOne, AskedFields DEF ac
  <2> QED BY <1>0, <1>4, <2>1, <2>2, <2>3, LifeReads DEF mc
<1> QED BY <1>3, <1>4 DEF AskReadback, ac, mc

LEMMA LifeFailsOne ==
  ASSUME Typed, ~raced, GuestInv, LifeInv, NEW p \in Procs, NEW k \in Members,
         CannotAsk(p, k) \/ GiveUp(p, k)
  PROVE  LifeInv'
<1>0. /\ Acts(p) /\ pc[p] = "readback" /\ Stage(p, k, "bad")
      /\ UNCHANGED <<record, pc, copy, machine>>
  BY DEF Acts, Create, Readback, CannotAsk, GiveUp, Unanswered, StageIs, At,
         ReadbackUnchanged, recordVars
<1>1. abandoned \in BOOLEAN /\ abandoned' \in BOOLEAN /\ (abandoned => abandoned')
      /\ (~abandoned' => ~abandoned /\ work[p].stage[k] = "ask")
  <2>1. abandoned \in BOOLEAN
    BY DEF Typed, CampaignTypeOK, CountTypeOK
  <2>2. GiveUp(p, k) => abandoned' = TRUE
    BY DEF GiveUp
  <2>3. CannotAsk(p, k) => /\ abandoned' = (abandoned \/ StageIs(p, k, {"rework"}))
                           /\ StageIs(p, k, {"ask"}) \/ StageIs(p, k, {"rework"})
    BY DEF CannotAsk, StageIs
  <2> QED BY <2>1, <2>2, <2>3 DEF StageIs
<1>2. /\ ToStage(p, k, "bad") /\ \A m \in Members : work'[p].report[m] = work[p].report[m]
  BY <1>0, StageSays
<1>3. StageOf(p, k)' /\ Puts(k, machine[k])
  BY <1>0, <1>2 DEF StageOf, ToStage, Puts
<1>4. ~abandoned' => ~machine[k].crossed /\ Fits(record.readback[k], machine[k])
  BY <1>0, <1>1, ReadingAlone
<1> QED BY <1>0, <1>1, <1>2, <1>3, <1>4, LifeReads

LEMMA LifeJudges ==
  ASSUME Typed, ~raced, GuestInv, LifeInv, NEW p \in Procs, NEW k \in Members,
         JudgeReadback(p, k)
  PROVE  LifeInv'
<1> DEFINE mc == machine[k]
           verdict == Verdict(mc.answer, StageIs(p, k, {"again"}))
           told == Restated(mc, copy[p].seeded[k])
<1>0. /\ Acts(p) /\ pc[p] = "readback" /\ work[p].stage[k] \in {"wait", "again"}
      /\ UNCHANGED <<record, pc, copy, machine>> /\ abandoned \in BOOLEAN
      /\ mc.answer # NoAnswer /\ ~MissionOpen(mc)
      /\ abandoned' = (abandoned \/ verdict = "bad")
  BY DEF Acts, Create, Readback, JudgeReadback, StageIs, At, ReadbackUnchanged, recordVars,
         Typed, CampaignTypeOK, CountTypeOK, GuestTypeOK
<1>1. StageOf(p, k) /\ GuestOf(k) /\ (~abandoned => ~mc.crossed)
  BY <1>0, ReadingAlone
<1>2. Present(k)
  BY <1>0, <1>1 DEF GuestOf, Answered
<1>3. mc.asked # 0 /\ mc.read = copy[p].seeded[k]
  BY <1>0, <1>1, <1>2 DEF StageOf
<1>4. /\ verdict \in {"ok", "rework", "bad", "rejected"}
      /\ verdict = "ok" <=> mc.answer = "good"
  BY DEF Verdict, OfForm
<1>5. PICK r : /\ r = IF verdict \in {"ok", "rejected"} THEN told ELSE NoReadback
               /\ work' = [work EXCEPT ![p].stage[k] = verdict, ![p].report[k] = r]
  BY DEF JudgeReadback
<1>6. verdict \in {"ok", "rejected"} =>
         /\ r.dispatch = mc.asked /\ r.inputs = copy[p].seeded[k] /\ r.from = mc.boot
         /\ r.read = mc.read /\ r.passed = (mc.answer = "good")
  BY <1>5 DEF Restated
<1> HIDE DEF mc, verdict, told
<1>7. ToStage(p, k, verdict) /\ ToReport(p, k, r)
  BY <1>5, StageSays
<1>8. StageOf(p, k)'
  <2>1. CASE verdict = "ok"
    BY <1>0, <1>3, <1>4, <1>6, <1>7, <2>1
       DEF StageOf, ToStage, ToReport, ClosedBy, GivenBy, Present, mc
  <2>2. CASE verdict = "rejected"
    BY <1>4, <1>6, <1>7, <2>2 DEF StageOf, ToStage, ToReport
  <2>3. CASE verdict \in {"rework", "bad"}
    BY <1>7, <2>3 DEF StageOf, ToStage
  <2> QED BY <1>4, <2>1, <2>2, <2>3
<1>9. Puts(k, mc)
  BY <1>0 DEF Puts, mc
<1> QED BY <1>0, <1>1, <1>4, <1>7, <1>8, <1>9, LifeReads DEF ToReport, mc

LEMMA LifeRestarts ==
  ASSUME Typed, ~raced, GuestInv, LifeInv, NEW p \in Procs, NEW k \in Members,
         RestartReadback(p, k)
  PROVE  LifeInv'
<1> DEFINE mc == machine[k]
           s == work[p].stage[k]
<1>0. /\ Acts(p) /\ pc[p] = "readback" /\ s \in {"wait", "again"} /\ Present(k)
      /\ UNCHANGED <<record, pc, copy, work, abandoned>> /\ abandoned \in BOOLEAN
      /\ mc.answer = NoAnswer \/ MissionOpen(mc)
      /\ machine' = [machine EXCEPT ![k] = Turned(mc)] /\ mc \in MachineValues
  BY DEF Acts, RestartReadback, Unanswered, StageIs, At, ReadbackUnchanged, recordVars,
         Typed, CampaignTypeOK, CountTypeOK, GuestTypeOK
<1>1. StageOf(p, k) /\ Seeded(p, k) /\ (~abandoned => ~mc.crossed)
  BY <1>0, ReadingAlone
<1> HIDE DEF mc
<1>2. PICK nc : nc = Turned(mc)
  OBVIOUS
<1>3. /\ Puts(k, nc)
      /\ nc.boot = mc.boot /\ nc.brief = mc.brief /\ nc.mission = mc.mission
      /\ nc.turn = mc.brief /\ nc.asked = mc.asked /\ nc.answer = mc.answer
      /\ nc.crossed = mc.crossed
  BY <1>0, <1>2, PutOne, TurnFields DEF mc
<1>4. StageOf(p, k)'
  BY <1>0, <1>1, <1>3 DEF StageOf, Seeded, Puts, Present, Up, MissionOpen, mc
<1>5. ToStage(p, k, s)
  BY <1>0 DEF ToStage
<1> QED BY <1>0, <1>1, <1>3, <1>4, <1>5, LifeReads DEF mc


(* Everyone is done, and the record is told.                               *)
LEMMA LifeRecords ==
  ASSUME Typed, ~raced, GuestInv, LifeInv, NEW p \in Procs, RecordReadbacks(p)
  PROVE  LifeInv'
<1> DEFINE passed == \A m \in Members : work[p].stage[m] = "ok"
           told == [m \in Members |-> IF work[p].stage[m] = "bad" THEN copy[p].readback[m]
                                                                   ELSE work[p].report[m]]
           new == [copy[p] EXCEPT !.readback = told]
<1>0. /\ Acts(p) /\ pc[p] = "readback" /\ pc \in [Procs -> Steps]
      /\ copy \in [Procs -> RecordValues]
      /\ UNCHANGED <<machine, abandoned>> /\ abandoned \in BOOLEAN
      /\ \A m \in Members : work[p].stage[m] \in {"ok", "rejected", "bad"}
  BY DEF Acts, Create, Readback, RecordReadbacks, At, Typed, WriteInv, WriteTypes,
         CampaignTypeOK, ProcTypeOK, CountTypeOK, history
<1>1. /\ copy' = [copy EXCEPT ![p] = new]
      /\ record' = (IF passed THEN new ELSE [new EXCEPT !.state = "create-failed"])
      /\ Goto(p, IF passed THEN "manifest" ELSE "unlock")
  BY DEF RecordReadbacks, Save
<1>2. /\ record.state = "creating" /\ copy[p].state = "creating"
      /\ copy[p].readback = record.readback
  BY <1>0, ReadingAlone DEF LifeInv, CommandOf, CopyOf, Mine, Making, Creating
<1>3. new.readback = told /\ new.state = "creating"
      /\ [new EXCEPT !.state = "create-failed"].readback = told
      /\ [new EXCEPT !.state = "create-failed"].state = "create-failed"
  BY <1>0, <1>2 DEF RecordValues
<1> HIDE DEF passed, new
<1>4. record'.readback = told /\ record'.state # "created"
  BY <1>1, <1>3
<1>5. ASSUME NEW m \in Members
      PROVE  LET r == record'.readback[m] IN
             /\ Well(r)
             /\ ~abandoned => Fits(r, machine[m])
             /\ work[p].stage[m] = "ok" =>
                   /\ r.passed
                   /\ ClosedBy(machine[m], r)
                   /\ ~abandoned => GivenBy(machine[m], r)
                   /\ Present(m) => r.read = machine[m].brief
  <2>1. Seeded(p, m) /\ StageOf(p, m)
    BY <1>0, ReadingAlone
  <2>2. CASE work[p].stage[m] = "bad"
    <3>1. record'.readback[m] = record.readback[m]
      BY <1>2, <1>4, <2>2
    <3>2. Well(record.readback[m]) /\ (~abandoned => Fits(record.readback[m], machine[m]))
      BY <1>0, <2>2, ReadingAlone DEF LifeInv, RecordInv
    <3> QED BY <2>2, <3>1, <3>2
  <2>3. CASE work[p].stage[m] # "bad"
    <3>1. record'.readback[m] = work[p].report[m]
      BY <1>4, <2>3
    <3>2. work[p].stage[m] = "ok" \/ ~work[p].report[m].passed
      BY <1>0, <2>1, <2>3 DEF StageOf
    <3> QED BY <2>1, <3>1, <3>2 DEF StageOf, Seeded, Well, Fits, ClosedBy, GivenBy, Present
  <2> QED BY <2>2, <2>3
<1>6. RecordInv'
  BY <1>4, <1>5 DEF RecordInv
<1>7. (abandoned \/ TruthInv)'
  <2>1. CASE ~abandoned
    <3>1. OpenOf' /\ MissionApart'
      BY <1>0, <2>1, ReadingAlone, OrchestratorIsMember DEF OpenOf, MissionApart, MissionOpen
    <3>2. ASSUME NEW m \in Members PROVE KeptOf(m)'
      BY <1>0, <1>5, <2>1 DEF KeptOf, Fits
    <3> QED BY <3>1, <3>2 DEF TruthInv
  <2> QED BY <1>0, <2>1
<1>8. CommandOf(p)'
  <2>1. CASE passed
    <3>1. pc'[p] = "manifest" /\ record' = new /\ copy'[p] = new
      BY <1>0, <1>1, <2>1 DEF Goto
    <3>2. \A m \in Members : ConfirmedBy(m)'
      BY <1>0, <1>5, <2>1 DEF ConfirmedBy, ClosedBy, GivenBy, Present, passed
    <3> QED BY <1>3, <3>1, <3>2 DEF CommandOf, CopyOf, SeedOf, LastOf
  <2>2. CASE ~passed
    BY <1>0, <1>1, <2>2, HoldsNothing DEF Goto, Keeping, Making, Creating
  <2> QED BY <2>1, <2>2
<1> QED BY <1>0, <1>6, <1>7, <1>8, LifeOne


-----------------------------------------------------------------------------
(* The last steps, on the orchestrator.                                    *)
LEMMA LifeNames ==
  ASSUME Typed, ~raced, GuestInv, LifeInv, NEW p \in Procs, RecordOnOrchestrator(p)
  PROVE  LifeInv'
<1> DEFINE mc == machine[Orchestrator]
<1>0. /\ Acts(p) /\ pc[p] = "manifest" /\ pc[p] \in Mine /\ pc \in [Procs -> Steps]
      /\ UNCHANGED copy
      /\ mc \in MachineValues /\ machine \in [Members -> MachineValues]
      /\ abandoned \in BOOLEAN
  BY OrchestratorIsMember DEF Acts, Create, RecordOnOrchestrator, OnOrchestrator, At, Mine,
     Making, Creating, Typed, WriteInv, WriteTypes, CampaignTypeOK, GuestTypeOK, CountTypeOK
<1>1. CASE FailsThere(p, FALSE)
  <2>1. FailCreate(p) /\ UNCHANGED <<machine, abandoned>>
    BY <1>0, <1>1 DEF FailsThere, At
  <2> QED BY <1>0, <2>1, LifeFails
<1>2. CASE ~FailsThere(p, FALSE)
  <2>1. /\ machine' = [machine EXCEPT ![Orchestrator] = Manifested(mc, copy[p].readback)]
        /\ pc'[p] = "mission" /\ UNCHANGED <<record, abandoned>>
    BY <1>0, <1>2 DEF RecordOnOrchestrator, Goto, recordVars
  <2>2. /\ CommandOf(p) /\ copy[p].readback = record.readback
        /\ \A m \in Members : ConfirmedBy(m)
    BY <1>0 DEF LifeInv, CommandOf, CopyOf, LastOf, Keeping, Mine
  <2> HIDE DEF mc
  <2>3. PICK nc : nc = Manifested(mc, copy[p].readback)
    OBVIOUS
  <2>4. /\ Like(nc, mc) /\ nc.brief = mc.brief
        /\ nc.named = [a \in Agents |-> IF copy[p].readback[a].passed
                                          THEN copy[p].readback[a].dispatch ELSE 0]
    BY <1>0, <2>3, OperationFields
  <2>5. Puts(Orchestrator, nc)
    BY <2>1, <2>3, PutOne, OrchestratorIsMember
  <2>6. \A m \in Members : Like(machine'[m], machine[m]) /\ machine'[m].brief = machine[m].brief
    BY <2>4, <2>5, OrchestratorIsMember DEF Puts, Like, mc
  <2>7. \A m \in Members : ConfirmedBy(m)'
    BY <2>1, <2>2, <2>6 DEF ConfirmedBy, ClosedBy, GivenBy, Present, Up, Like
  <2>8. \A g \in Agents : machine'[Orchestrator].named[g] = record.readback[g].dispatch
    BY <2>2, <2>4, <2>5 DEF Puts, ConfirmedBy, Agents
  <2>9. CommandOf(p)'
    BY <1>0, <2>1, <2>2, <2>7, <2>8 DEF CommandOf, CopyOf, SeedOf, LastOf, Keeping, Mine,
       Making, Creating
  <2>10. Stays /\ \A m \in Members : SameFor(m)
    BY <1>0, <2>6, StaysAlone DEF SameFor, Like
  <2> QED BY <1>0, <2>1, <2>9, <2>10, WorldSame, LifeOne DEF LifeInv
<1> QED BY <1>1, <1>2

LEMMA LifeOpens ==
  ASSUME Typed, ~raced, GuestInv, LifeInv, NEW p \in Procs, OpenMission(p) \/ StartMission(p)
  PROVE  LifeInv'
<1> DEFINE mc == machine[Orchestrator]
           refused == OpenMission(p) /\ MissionRefused(mc)
<1>0. /\ Acts(p) /\ pc[p] \in {"mission", "turn"} /\ pc[p] \in Mine /\ pc \in [Procs -> Steps]
      /\ pc[p] = "mission" <=> OpenMission(p)
      /\ UNCHANGED copy
      /\ mc \in MachineValues /\ machine \in [Members -> MachineValues]
      /\ abandoned \in BOOLEAN
  BY OrchestratorIsMember DEF Acts, Create, OpenMission, StartMission, OnOrchestrator, At,
     Mine, Making, Creating, Typed, WriteInv, WriteTypes, CampaignTypeOK, GuestTypeOK,
     CountTypeOK
<1>1. /\ CommandOf(p) /\ copy[p].readback = record.readback
      /\ record.state = "creating" /\ copy[p].state = "creating"
      /\ \A q \in Procs \ {p} : pc[q] \notin {"readback", "turn", "finish"}
  BY <1>0, Alone DEF LifeInv, CommandOf, CopyOf, LastOf, Keeping, Mine, Making, Inside, Creating
<1> HIDE DEF mc, refused
<1>2. ASSUME NEW r, FailsThere(p, r) PROVE LifeInv'
  <2>1. FailCreate(p) /\ UNCHANGED machine
        /\ (abandoned' <=> abandoned \/ pc[p] = "turn") /\ abandoned' \in BOOLEAN
    BY <1>0, <1>2 DEF FailsThere, At
  <2>2. CASE pc[p] = "mission"
    BY <1>0, <2>1, <2>2, LifeFails
  <2>3. CASE pc[p] = "turn"
    <3>1. /\ record' = [copy[p] EXCEPT !.state = "create-failed"] /\ copy[p] \in RecordValues
          /\ pc'[p] = "unlock"
      BY <1>0, <2>1 DEF FailCreate, Save, Goto, Typed, CampaignTypeOK, ProcTypeOK
    <3>2. record'.readback = record.readback /\ record'.state = "create-failed"
      BY <1>1, <3>1 DEF RecordValues
    <3>3. RecordInv'
      BY <3>2 DEF LifeInv, RecordInv
    <3>4. CommandOf(p)'
      BY <3>1, HoldsNothing DEF Keeping, Making, Creating
    <3> QED BY <1>0, <2>1, <2>3, <3>3, <3>4, LifeOne
  <2> QED BY <1>0, <2>2, <2>3
<1>3. ASSUME NEW v \in {"put", "running"}, NEW s \in {"turn", "finish"},
             pc'[p] = s, Puts(Orchestrator, [mc EXCEPT !.mission = v]),
             s = "turn" => mc.answer # NoAnswer, s = "finish" => v = "running",
             UNCHANGED <<record, abandoned>>
      PROVE  LifeInv'
  <2>1. PICK nc : nc = [mc EXCEPT !.mission = v]
    OBVIOUS
  <2>2. /\ nc.boot = mc.boot /\ nc.asked = mc.asked /\ nc.answer = mc.answer
        /\ nc.mission = v /\ nc.crossed = mc.crossed
    BY <1>0, <2>1, MissionFields
  <2>3. CommandOf(p)'
    BY <1>0, <1>1, <1>3, <2>1, <2>2 DEF CommandOf, CopyOf, SeedOf, LastOf, Puts, Keeping, Mine,
       Making, Creating
  <2>4. RecordInv'
    BY <1>1, <1>3 DEF LifeInv, RecordInv
  <2>5. ASSUME ~abandoned PROVE TruthInv'
    <3>1. OpenOf'
      BY <1>3 DEF OpenOf
    <3>2. MissionApart'
      BY <1>3, <2>1, <2>2, <2>5 DEF LifeInv, TruthInv, MissionApart, Puts, mc
    <3>3. ASSUME NEW m \in Members PROVE KeptOf(m)'
      <4>1. Fits(record.readback[m], machine[m])
        BY <1>0, <1>1, <2>5 DEF LifeInv, TruthInv, KeptOf
      <4> QED BY <1>3, <2>1, <2>2, <4>1 DEF KeptOf, Fits, Puts, Up, mc
    <3> QED BY <3>1, <3>2, <3>3 DEF TruthInv
  <2> QED BY <1>0, <1>3, <2>3, <2>4, <2>5, LifeOne
<1>4. CASE OpenMission(p)
  <2>1. CASE FailsThere(p, MissionRefused(mc))
    BY <1>2, <2>1
  <2>2. CASE ~FailsThere(p, MissionRefused(mc))
    <3>1. /\ Present(Orchestrator) /\ pc'[p] = "turn" /\ UNCHANGED <<record, abandoned>>
          /\ machine' = [machine EXCEPT ![Orchestrator] = [mc EXCEPT !.mission = "put"]]
      BY <1>0, <1>4, <2>2 DEF OpenMission, Goto, recordVars, mc
    <3>2. Puts(Orchestrator, [mc EXCEPT !.mission = "put"])
      BY <3>1, PutOne, OrchestratorIsMember
    <3>3. mc.answer # NoAnswer
      BY <1>0, <1>1, <1>4, <3>1, OrchestratorIsMember DEF CommandOf, LastOf, ConfirmedBy, ClosedBy, Present, mc
    <3> QED BY <1>3, <3>1, <3>2, <3>3
  <2> QED BY <2>1, <2>2
<1>5. CASE StartMission(p)
  <2>1. CASE FailsThere(p, FALSE)
    BY <1>2, <2>1
  <2>2. CASE ~FailsThere(p, FALSE)
    <3>1. /\ Present(Orchestrator) /\ Goto(p, "finish") /\ UNCHANGED <<record, abandoned>>
          /\ StartTurn(Orchestrator, mc, [mc EXCEPT !.mission = "running"])
          /\ pc[p] = "turn"
      BY <1>5, <2>2 DEF StartMission, OnOrchestrator, At, recordVars, mc
    <3>2. pc'[p] = "finish"
      BY <1>0, <3>1 DEF Goto
    <3>3. OnSession(Orchestrator)
      BY <1>1, <3>1, OrchestratorIsMember DEF CommandOf, LastOf, GuestInv, GuestOf, Answered
    <3>4. Puts(Orchestrator, [mc EXCEPT !.mission = "running"])
      BY <3>1, <3>3, StartTurnSays, OrchestratorIsMember DEF mc
    <3> QED BY <1>3, <3>1, <3>2, <3>4
  <2> QED BY <2>1, <2>2
<1> QED BY <1>4, <1>5

LEMMA LifeFinishes ==
  ASSUME Typed, ~raced, LifeInv, NEW p \in Procs, FinishCreate(p) PROVE LifeInv'
<1>0. /\ Acts(p) /\ pc[p] = "finish" /\ pc \in [Procs -> Steps] /\ copy[p] \in RecordValues
      /\ UNCHANGED <<machine, abandoned>> /\ pc'[p] = "unlock"
      /\ record' = [copy[p] EXCEPT !.state = "created"] /\ abandoned \in BOOLEAN
  BY DEF Acts, Create, FinishCreate, OnOrchestrator, At, Save, Goto, Typed, WriteInv,
         WriteTypes, CampaignTypeOK, ProcTypeOK, CountTypeOK
<1>1. /\ copy[p].readback = record.readback
      /\ Present(Orchestrator) => machine[Orchestrator].mission = "running"
      /\ \A q \in Procs : pc[q] # "readback"
  BY <1>0, Alone DEF LifeInv, CommandOf, CopyOf, LastOf, Keeping, Making, Inside, Creating
<1>2. record'.readback = record.readback /\ record'.state = "created"
  BY <1>0, <1>1 DEF RecordValues
<1>3. RecordInv'
  BY <1>0, <1>1, <1>2 DEF LifeInv, RecordInv, Present
<1>4. ~abandoned => TruthInv'
  BY <1>0, <1>1, <1>2 DEF LifeInv, TruthInv, OpenOf, MissionApart, KeptOf, Fits
<1>5. CommandOf(p)'
  BY <1>0, HoldsNothing DEF Keeping, Making, Creating
<1> QED BY <1>0, <1>3, <1>4, <1>5, LifeOne


-----------------------------------------------------------------------------
(* A machine answers, is lost, or logs; none of the commands goes on.      *)
Answering(nc, mc) ==
  /\ nc.boot = mc.boot /\ nc.brief = mc.brief /\ nc.asked = mc.asked
  /\ nc.mission = mc.mission /\ nc.crossed = mc.crossed /\ nc.named = mc.named
  /\ \/ nc.answer = mc.answer /\ nc.read = mc.read /\ nc.turn = mc.turn
     \/ /\ mc.turn # NoBrief /\ nc.read = mc.turn
        /\ nc.answer # NoAnswer /\ nc.turn = NoBrief

LEMMA OutsideFields ==
  ASSUME Typed, NEW k \in Members, MemberAnswers(k) \/ MachineLost(k) \/ OrchestratorLogs,
         NEW m \in Members
  PROVE  machine'[m] = NoMachine \/ Answering(machine'[m], machine[m])
<1>0. machine \in [Members -> MachineValues]
  BY DEF Typed, CampaignTypeOK, GuestTypeOK
<1>1. CASE MemberAnswers(k)
  <2>1. PICK a \in Answers : machine' = [machine EXCEPT ![k] =
           [machine[k] EXCEPT !.answer = a, !.read = machine[k].turn, !.turn = NoBrief]]
    BY <1>1 DEF MemberAnswers
  <2>2. PICK nc :
           nc = [machine[k] EXCEPT !.answer = a, !.read = machine[k].turn, !.turn = NoBrief]
    OBVIOUS
  <2>3. a # NoAnswer /\ machine[k].turn # NoBrief
    BY <1>1 DEF Answers, NoAnswer, MemberAnswers
  <2>4. Answering(nc, machine[k])
    <3>1. machine[k] \in MachineValues
      BY <1>0
    <3> QED BY <2>2, <2>3, <3>1 DEF Answering, MachineValues
  <2> QED BY <1>0, <2>1, <2>2, <2>4 DEF Answering
<1>2. CASE MachineLost(k)
  BY <1>0, <1>2 DEF MachineLost, Answering
<1>3. CASE OrchestratorLogs
  <2>1. PICK nc : nc = [machine[Orchestrator] EXCEPT !.log = TRUE]
    OBVIOUS
  <2>2. machine' = [machine EXCEPT ![Orchestrator] = nc]
    BY <1>3, <2>1 DEF OrchestratorLogs
  <2>3. Answering(nc, machine[Orchestrator])
    BY <1>0, <2>1, OrchestratorIsMember, OperationFields DEF Answering, Like
  <2> QED BY <1>0, <2>2, <2>3 DEF Answering
<1> QED BY <1>1, <1>2, <1>3

LEMMA LifeOutside ==
  ASSUME Typed, LifeInv, NEW k \in Members,
         MemberAnswers(k) \/ MachineLost(k) \/ OrchestratorLogs
  PROVE  LifeInv'
<1>0. /\ UNCHANGED <<record, pc, copy, work, abandoned>> /\ ~Up(NoMachine)
      /\ Orchestrator \in Members
  BY NewFields, OrchestratorIsMember
     DEF MemberAnswers, MachineLost, OrchestratorLogs, recordVars, procVars, history
<1>1. \A m \in Members : machine'[m] = NoMachine \/ Answering(machine'[m], machine[m])
  BY OutsideFields
<1>2. Stays /\ \A m \in Members : SameFor(m)
  BY <1>0, <1>1 DEF Stays, SameFor, Answering
<1>3. ASSUME NEW p \in Procs PROVE CommandOf(p)'
  <2>1. CopyOf(p)'
    BY <1>0 DEF LifeInv, CommandOf, CopyOf
  <2>2. \A m \in Members : Seeded(p, m) => Seeded(p, m)'
    BY <1>0, <1>1 DEF Seeded, Present, Up, Answering
  <2>3. SeedOf(p)'
    <3>1. MemberAt(p)' = MemberAt(p)
      BY <1>0 DEF MemberAt
    <3> QED BY <1>0, <2>2, <3>1, RosterMembers DEF LifeInv, CommandOf, SeedOf
  <2>4. ASSUME NEW m \in Members, StageOf(p, m) PROVE StageOf(p, m)'
    BY <1>0, <1>1, <2>4 DEF StageOf, ClosedBy, GivenBy, Present, Up, MissionOpen, Answering
  <2>5. ASSUME NEW m \in Members, ConfirmedBy(m) PROVE ConfirmedBy(m)'
    BY <1>0, <1>1, <2>5 DEF ConfirmedBy, ClosedBy, GivenBy, Present, Up, Answering
  <2>6. LastOf(p)'
    BY <1>0, <1>1, <2>5 DEF LifeInv, CommandOf, LastOf, Present, Up, Answering
  <2> QED BY <1>0, <2>1, <2>3, <2>4, <2>6 DEF LifeInv, CommandOf
<1> QED BY <1>0, <1>2, <1>3, WorldSame DEF LifeInv

LEMMA LifeStep ==
  ASSUME Typed, ~raced, GuestInv, OwnInv, LifeInv, [Next]_vars PROVE LifeInv'
<1>1. ASSUME NEW p \in Procs, Create(p) PROVE LifeInv'
  BY <1>1, LifeAdopts, LifeBoots, LifeConfigures, LifeOrchestrates, LifeKeeps, LifeAsks,
     LifeFailsOne, LifeJudges, LifeRecords, LifeNames, LifeOpens, LifeFinishes
     DEF Create, Readback
<1>2. CASE UNCHANGED vars
  BY <1>2, CommandSame, WorldSame
     DEF vars, procVars, history, LifeInv, Stays, SameFor, Typed, CampaignTypeOK, CountTypeOK
<1> QED BY <1>1, <1>2, Whose, LifeElsewhere, LifeDestroys, LifeSaves, LifeRestarts, LifeOutside

LEMMA LifeInit == Init => LifeInv
<1> SUFFICES ASSUME Init PROVE LifeInv
  OBVIOUS
<1>0. Orchestrator \in Members
  BY OrchestratorIsMember
<1>1. \A p \in Procs : CommandOf(p)
  BY DEF Init, CommandOf, CopyOf, SeedOf, LastOf, Keeping, Mine, Making, Creating
<1>2. CASE Remembered
  <2>1. /\ record = NoRecord /\ \A m \in Members : machine[m] = NoMachine
    BY <1>2 DEF Remembered
  <2>2. RecordInv
    BY <2>1 DEF RecordInv, NoRecord, NoReadback, Well
  <2>3. TruthInv
    BY <1>0, <2>1, NewFields DEF TruthInv, OpenOf, MissionApart, KeptOf, Fits, MissionOpen
  <2> QED BY <1>1, <2>2, <2>3 DEF LifeInv
<1>3. CASE Running
  <2>1. \A m \in Members :
          /\ machine[m].boot = 1 /\ ~machine[m].crossed
          /\ machine[m].mission = IF m = Orchestrator THEN "running" ELSE "none"
    BY <1>3, NoMachineType DEF Running, MachineValues, NoMachine
  <2>2. record.state = "created" /\ \A m \in Members : record.readback[m] = Confirmed(1)
    BY <1>3 DEF Running
  <2>3. RecordInv
    BY <1>0, <2>1, <2>2 DEF RecordInv, Confirmed, Well
  <2>4. TruthInv
    BY <2>1, <2>2 DEF TruthInv, OpenOf, MissionApart, KeptOf, Fits, Confirmed
  <2> QED BY <1>1, <2>3, <2>4 DEF LifeInv
<1> QED BY <1>2, <1>3 DEF Init

-----------------------------------------------------------------------------
(* All of it together, until a destroy's unlink has raced a waiter.        *)
CampaignInv == Typed /\ GuestInv /\ (raced \/ (OwnInv /\ LifeInv))

LEMMA CampaignInvStep == CampaignInv /\ [Next]_vars => CampaignInv'
BY TypedStep, GuestStep, OwnStep, LifeStep, LockStep, RacedStays DEF CampaignInv

(* What the record and every command under way hold is what the machines    *)
(* hold, for every interleaving and crash, until a destroy's unlink has    *)
(* raced a waiter.                                                         *)
THEOREM CampaignInvHolds == Spec => []CampaignInv
<1>1. Init => CampaignInv
  BY TypedInit, GuestInit, OwnInit, LifeInit DEF CampaignInv
<1> QED BY <1>1, CampaignInvStep, PTL DEF Spec

(* A campaign the record calls created has its mission running, wherever   *)
(* the orchestrator's machine still stands: FinishCreate says it only      *)
(* after the turn was started, and nothing opens a machine's mission twice.*)
THEOREM CreatedMeansRunningHolds == Spec => []CreatedMeansRunning
<1>1. CampaignInv => CreatedMeansRunning
  BY DEF CampaignInv, LifeInv, RecordInv, CreatedMeansRunning
<1> QED BY <1>1, CampaignInvHolds, PTL

(* No readback is asked under the mission's dispatch, unless a create has  *)
(* ended without recording what came of what it did.                       *)
THEOREM MissionApartHolds == Spec => []MissionApartUnlessAbandoned
<1>1. CampaignInv => MissionApartUnlessAbandoned
  BY DEF CampaignInv, LifeInv, TruthInv, MissionApartUnlessAbandoned
<1> QED BY <1>1, CampaignInvHolds, PTL

(* Only openMission opens the mission.                                     *)
LEMMA OnlyOpenMission ==
  ASSUME CampaignInv, ~raced, [Next]_vars, MissionOpens
  PROVE  /\ Present(Orchestrator)
         /\ \E p \in Procs : pc[p] = "mission"
<1>0. /\ machine \in [Members -> MachineValues] /\ Orchestrator \in Members /\ Typed /\ GuestInv
      /\ machine[Orchestrator].mission = "none" /\ machine'[Orchestrator].mission = "put"
  BY OrchestratorIsMember DEF CampaignInv, Typed, CampaignTypeOK, GuestTypeOK, MissionOpens
<1> DEFINE mc == machine[Orchestrator]
           nc == machine'[Orchestrator]
<1>1. ASSUME nc.mission = mc.mission \/ nc.mission # "put" PROVE FALSE
  BY <1>0, <1>1
<1>2. CASE UNCHANGED machine
  BY <1>1, <1>2
<1>3. ASSUME NEW p \in Procs, OpenMission(p)
      PROVE  Present(Orchestrator) /\ pc[p] = "mission"
  <2>1. UNCHANGED machine \/ Present(Orchestrator)
    BY <1>3 DEF OpenMission, FailsThere
  <2> QED BY <1>2, <1>3, <2>1 DEF OpenMission, OnOrchestrator, At
<1>4. ASSUME NEW p \in Procs,
             Boot(p) \/ ConfigureMember(p) \/ Orchestrate(p) \/ RemoveMember(p)
                \/ RecordOnOrchestrator(p)
      PROVE  FALSE
  <2>1. \/ nc = mc \/ nc = NoMachine
        \/ \E i, c : nc = Booted(i, c)
        \/ \E b : nc = Configured(mc, b)
        \/ \E r : nc = Manifested(mc, r)
    <3>1. CASE Boot(p)
      BY <1>0, <3>1 DEF Boot
    <3>2. CASE ConfigureMember(p)
      BY <1>0, <3>2 DEF ConfigureMember
    <3>3. CASE Orchestrate(p)
      BY <1>0, <3>3 DEF Orchestrate
    <3>4. CASE RecordOnOrchestrator(p)
      BY <1>0, <3>4 DEF RecordOnOrchestrator, FailsThere
    <3>5. CASE RemoveMember(p)
      BY <1>0, <3>5 DEF RemoveMember
    <3> QED BY <1>4, <3>1, <3>2, <3>3, <3>4, <3>5
  <2>2. /\ \A b : Configured(mc, b).mission = mc.mission
        /\ \A r : Manifested(mc, r).mission = mc.mission
    <3>1. mc \in MachineValues
      BY <1>0
    <3> HIDE DEF mc
    <3> QED BY <3>1, OperationFields DEF Like
  <2> QED BY <1>1, <2>1, <2>2, NewFields
<1>5. ASSUME NEW p \in Procs, NEW k \in Members, AskReadback(p, k) \/ RestartReadback(p, k)
      PROVE  FALSE
  <2>1. PICK kc : kc = machine[k] /\ kc \in MachineValues
    BY <1>0
  <2>2. Asked(kc) \in MachineValues \/ ~AskReadback(p, k)
    BY <2>1, AskedType DEF AskReadback
  <2>3. /\ Asked(kc).mission = kc.mission /\ Turned(kc).mission = kc.mission
        /\ AskReadback(p, k) => Turned(Asked(kc)).mission = kc.mission
    BY <2>1, <2>2, AskedFields, TurnFields
  <2>4. \/ Puts(k, Asked(kc)) \/ Puts(k, Turned(kc))
        \/ AskReadback(p, k) /\ Puts(k, Turned(Asked(kc)))
    <3>1. CASE RestartReadback(p, k)
      BY <1>0, <2>1, <3>1, PutOne DEF RestartReadback
    <3>2. CASE AskReadback(p, k)
      <4>1. Asked(kc).boot = kc.boot
        BY <2>1, AskedFields
      <4>2. StartTurn(k, Asked(kc), Turned(Asked(kc)))
               => Puts(k, Asked(kc)) \/ Puts(k, Turned(Asked(kc)))
        BY <1>0, <2>1, <4>1, StartTurnSays
      <4>3. machine' = [machine EXCEPT ![k] = Asked(kc)] => Puts(k, Asked(kc))
        BY <1>0, PutOne
      <4> QED BY <2>1, <3>2, <4>2, <4>3 DEF AskReadback
    <3> QED BY <1>5, <3>1, <3>2
  <2> QED BY <1>0, <1>1, <2>1, <2>3, <2>4 DEF Puts
<1>6. ASSUME NEW p \in Procs, StartMission(p) PROVE FALSE
  <2>1. UNCHANGED machine
           \/ StartTurn(Orchestrator, mc, [mc EXCEPT !.mission = "running"])
    BY <1>6 DEF StartMission, FailsThere
  <2>2. [mc EXCEPT !.mission = "running"].mission = "running"
    BY <1>0, MissionFields
  <2> DEFINE run == [mc EXCEPT !.mission = "running"]
  <2>3. ASSUME StartTurn(Orchestrator, mc, run)
        PROVE  Puts(Orchestrator, mc) \/ Puts(Orchestrator, run)
    <3>1. mc.boot = machine[Orchestrator].boot
      OBVIOUS
    <3> HIDE DEF mc, run
    <3> QED BY <1>0, <2>3, <3>1, StartTurnSays
  <2>4. nc = machine[Orchestrator] \/ nc = mc \/ nc = run
    BY <2>1, <2>3 DEF Puts
  <2> QED BY <1>1, <2>2, <2>4
<1>7. ASSUME NEW k \in Members, MemberAnswers(k) \/ MachineLost(k) \/ OrchestratorLogs
      PROVE  FALSE
  BY <1>0, <1>1, <1>7, OutsideFields, NewFields DEF Answering
<1>8. ASSUME NEW p \in Procs,
             ForgetEarlierLife(p) \/ RecordReadbacks(p) \/ FinishCreate(p) \/ VerifyGone(p)
      PROVE  UNCHANGED machine
  BY <1>8 DEF ForgetEarlierLife, RecordReadbacks, FinishCreate, VerifyGone
<1> QED BY <1>2, <1>3, <1>4, <1>5, <1>6, <1>7, <1>8, QuietSteps, OrchestratorIsMember
        DEF Next, Step, Create, Readback, Destroy, vars


LEMMA OpensConfirmed ==
  ASSUME CampaignInv, ~raced, [Next]_vars, MissionOpens
  PROVE  /\ Present(Orchestrator) /\ \A m \in Members : ConfirmedBy(m) /\ Well(record.readback[m])
         /\ \A g \in Agents : machine[Orchestrator].named[g] = record.readback[g].dispatch
BY OnlyOpenMission DEF CampaignInv, LifeInv, RecordInv, CommandOf, LastOf

(* When the mission opens, every machine that stands has a readback in the *)
(* record that passed, of the briefing it holds, under the dispatch it was *)
(* asked last and has closed, whatever creates were cut short, machines    *)
(* lost and made again and briefings edited before; and it gave that       *)
(* readback itself, unless a create before left the record without what    *)
(* came of a dispatch (runReadback, keptReadback, openMission).            *)
THEOREM MissionOnConfirmedBriefingHolds == Spec => MissionOnConfirmedBriefing
<1>1. CampaignInv /\ [Next]_vars =>
        [MissionOpens /\ ~raced =>
           \A m \in Members : Present(m) =>
              LET r == record.readback[m] IN
              /\ r.passed
              /\ r.read = machine[m].brief
              /\ r.dispatch = machine[m].asked
              /\ ~ReadbackOpen(machine[m])
              /\ ~abandoned => r.from = machine[m].boot]_vars
  BY OpensConfirmed DEF ConfirmedBy, ClosedBy, GivenBy, Present, ReadbackOpen
<1> QED BY <1>1, CampaignInvHolds, PTL DEF Spec, MissionOnConfirmedBriefing

(* When the mission opens, the orchestrator's manifest names the readback  *)
(* each agent has closed: writeManifest was told what the record was       *)
(* (R150).                                                                 *)
THEOREM ManifestNamesReadbacksHolds == Spec => ManifestNamesReadbacks
<1>1. CampaignInv /\ [Next]_vars =>
        [MissionOpens /\ ~raced =>
           \A g \in Agents : /\ machine[Orchestrator].named[g] # 0
                             /\ machine[Orchestrator].named[g] = record.readback[g].dispatch]_vars
  BY OpensConfirmed DEF ConfirmedBy, Well, Agents
<1> QED BY <1>1, CampaignInvHolds, PTL DEF Spec, ManifestNamesReadbacks
=============================================================================
