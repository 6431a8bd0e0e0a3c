------------------------------ MODULE Campaign ------------------------------
(***************************************************************************)
(* The life of one campaign on its host: create, resumed after any of its  *)
(* steps failed or was cut short; destroy, with or without a final         *)
(* archive; doctor, which saves what it measured; and observe, which backs *)
(* the orchestrator's log up.  Commands run at once, as processes, and     *)
(* every call to cs-sandbox, to a remote tool or to the store is a step.   *)
(***************************************************************************)
EXTENDS StoreLock, Machines

CONSTANTS
    MaxCommands,    \* commands ever run
    MaxLooks,       \* how many of them are a doctor or an observe
    MaxFaults       \* crashes, lost machines, failed calls, refused destroys,
                    \* bad or missing answers, in one run

ASSUME CampaignBounds == MaxCommands \in Nat /\ MaxLooks \in Nat /\ MaxFaults \in Nat

VARIABLES
    record,     \* the campaign's file in the store
    machine,    \* each member's machine
    session,    \* the machine each of the host's session records was made on
    evidence,   \* the final archive: the machine each member's part came from
    incomplete, \* the members with an INCOMPLETE marker there
    mirror,     \* the campaigns whose log lines the host's copy holds
    cmd,        \* the command each process runs
    pc,         \* its next step
    copy,       \* its copy of the record, in memory
    work,       \* what else it remembers
    bounds      \* commands and faults left, machines and campaigns made

(* History, read by no command.                                            *)
VARIABLES
    fresh,      \* nobody has saved since this command loaded the record
    lost,       \* a save dropped what another command had saved
    abandoned,  \* the record lacks what came of a dispatch: a create died on
                \* it, gave it up, or had nothing readable in two replies
    lapsed,     \* a create ended between a boot, be it one that failed, and
                \* the forget after it
    staleTurn   \* a turn was started on a session its machine never held

procVars == <<cmd, pc, copy, work>>
recordVars == <<record, fresh, lost>>
archiveVars == <<evidence, incomplete>>
history == <<abandoned, lapsed, staleTurn>>
vars == <<lockVars, record, machine, session, evidence, incomplete, mirror,
          procVars, bounds, fresh, lost, history>>

-----------------------------------------------------------------------------
(* The record (model.Campaign) with the fields commands decide on.  camp   *)
(* numbers the campaigns that have had the name.                           *)
NoRecord == [camp |-> 0, state |-> "none",
             seeded |-> [m \in Members |-> NoBrief],
             readback |-> [m \in Members |-> NoReadback],
             harness |-> FALSE]

RecordValues ==
    [camp : 0..MaxCreates, state : {"none", "creating", "create-failed", "created"},
     seeded : [Members -> BriefOrNone], readback : [Members -> Readbacks],
     harness : BOOLEAN]

Recorded == record # NoRecord

(* buildCampaign: a record nobody has saved yet.                           *)
Planned(n) == [NoRecord EXCEPT !.camp = n, !.state = "creating"]

(* Store.Save replaces the file whole, from the copy the command holds.    *)
Save(p, r) ==
    /\ record' = r
    /\ fresh' = [q \in Procs |-> q = p /\ fresh[q]]
    /\ lost' = (lost \/ ~fresh[p])

(* Store.Load.                                                             *)
Loaded(p) ==
    /\ copy' = [copy EXCEPT ![p] = record]
    /\ fresh' = [fresh EXCEPT ![p] = TRUE]
    /\ UNCHANGED <<record, lost>>

(* Where readbackOne stands with one member: to be asked, waited for, to   *)
(* be asked once more, waited for again; then passed, rejected on what it  *)
(* answered, or bad, with nothing to record.                               *)
Stages == {"ask", "wait", "rework", "again", "ok", "rejected", "bad"}

NoWork == [live |-> {}, at |-> 0, brief |-> NoBrief, archive |-> FALSE, seen |-> {},
           stage |-> [m \in Members |-> "ask"],
           report |-> [m \in Members |-> NoReadback]]

WorkValues ==
    [live : SUBSET Members, at : 0..Len(Roster), brief : BriefOrNone, archive : BOOLEAN,
     seen : SUBSET (0..MaxCreates), stage : [Members -> Stages],
     report : [Members -> Readbacks]]

Creating == {"adopt", "list", "boot", "forget", "configure", "orchestrate",
             "readback", "manifest", "mission", "turn", "finish"}
Destroying == {"load", "archive", "scan", "remove", "delete"}

HostTypeOK ==
    /\ record \in RecordValues
    /\ fresh \in [Procs -> BOOLEAN]
    /\ lost \in BOOLEAN
    /\ evidence \in [Members -> 0..MaxBoots]
    /\ incomplete \subseteq Members
    /\ mirror \subseteq 0..MaxCreates

GuestTypeOK ==
    /\ machine \in [Members -> MachineValues]
    /\ session \in [Members -> 0..MaxBoots]

ProcTypeOK ==
    /\ cmd \in [Procs -> {"none", "create", "destroy", "doctor", "observe"}]
    /\ pc \in [Procs -> {"idle", "lock", "relock", "reload", "journal", "merge", "unlock"}
                            \cup Creating \cup Destroying]
    /\ copy \in [Procs -> RecordValues]
    /\ work \in [Procs -> WorkValues]

CountTypeOK ==
    /\ bounds \in [commands : 0..MaxCommands, looks : 0..MaxLooks, faults : 0..MaxFaults,
                   boots : 0..MaxBoots, camps : 0..MaxCreates]
    /\ abandoned \in BOOLEAN
    /\ lapsed \in BOOLEAN
    /\ staleTurn \in BOOLEAN

CampaignTypeOK == HostTypeOK /\ GuestTypeOK /\ ProcTypeOK /\ CountTypeOK

(* The types of everything, the lock included.                             *)
TypeOK == LockTypeOK /\ CampaignTypeOK

(* One of the briefings, whichever.                                        *)
Brief1 == CHOOSE b \in Briefs : TRUE

(* A campaign of the name that is up and running, as a create leaves it.   *)
Confirmed(i) == [dispatch |-> 1, inputs |-> Brief1, passed |-> TRUE, from |-> i,
                 read |-> Brief1]

(* The host before the first command: one that has seen a campaign of the  *)
(* name, destroyed without its sessions being forgotten, which is all that *)
(* is left of it and its log's copy; or one where a campaign is running.   *)
Remembered ==
    /\ record = NoRecord
    /\ machine = [m \in Members |-> NoMachine]
    /\ mirror = {1}
    /\ session = [m \in Members |-> 1]

Running ==
    /\ record = [camp |-> 1, state |-> "created", harness |-> TRUE,
                  seeded |-> [m \in Members |-> Brief1],
                  readback |-> [m \in Members |-> Confirmed(1)]]
    /\ machine = [m \in Members |->
          [NoMachine EXCEPT !.boot = 1, !.born = 1, !.brief = Brief1, !.asked = 1,
             !.answer = "good", !.read = Brief1,
             !.mission = IF m = Orchestrator THEN "running" ELSE "none",
             !.named = [g \in Agents |-> IF m = Orchestrator THEN 1 ELSE 0],
             !.log = m = Orchestrator]]
    /\ mirror = {1}
    /\ session = [m \in Members |-> IF m = Orchestrator THEN 1 ELSE 0]

Init ==
    /\ LockInit
    /\ Remembered \/ Running
    /\ bounds = [commands |-> MaxCommands, looks |-> MaxLooks, faults |-> MaxFaults,
                 boots |-> 1, camps |-> 1]
    /\ evidence = [m \in Members |-> 0]
    /\ incomplete = {}
    /\ cmd = [p \in Procs |-> "none"]
    /\ pc = [p \in Procs |-> "idle"]
    /\ copy = [p \in Procs |-> NoRecord]
    /\ work = [p \in Procs |-> NoWork]
    /\ fresh = [p \in Procs |-> FALSE]
    /\ lost = FALSE
    /\ abandoned = FALSE
    /\ lapsed = FALSE
    /\ staleTurn = FALSE

At(p, step) == pc[p] = step
Goto(p, step) == pc' = [pc EXCEPT ![p] = step]
Remember(p, field, value) == [work EXCEPT ![p] = [@ EXCEPT ![field] = value]]

(* A call that fails spends one of the faults.                             *)
Fault == bounds.faults > 0 /\ bounds' = [bounds EXCEPT !.faults = @ - 1]

Present(m) == Up(machine[m])
Standing == {m \in Members : Present(m)}

(* A process ends, and its memory with it.                                 *)
Gone(p) ==
    /\ pc' = [pc EXCEPT ![p] = "idle"]
    /\ cmd' = [cmd EXCEPT ![p] = "none"]
    /\ copy' = [copy EXCEPT ![p] = NoRecord]
    /\ work' = [work EXCEPT ![p] = NoWork]
    /\ fresh' = [fresh EXCEPT ![p] = FALSE]
    /\ UNCHANGED <<record, lost>>

-----------------------------------------------------------------------------
(* Commands start.  create and destroy go for the lock at once; doctor     *)
(* loads the record and measures before it locks; observe locks nothing.   *)
Begin(p, c) ==
    /\ At(p, "idle")
    /\ bounds.commands > 0
    /\ IF c \in {"doctor", "observe"}
          THEN /\ bounds.looks > 0
               /\ bounds' = [bounds EXCEPT !.commands = @ - 1, !.looks = @ - 1]
          ELSE bounds' = [bounds EXCEPT !.commands = @ - 1]
    /\ cmd' = [cmd EXCEPT ![p] = c]

StartCreate(p) ==
    /\ Begin(p, "create")
    /\ LockOpen(p)
    /\ Goto(p, "lock")
    /\ UNCHANGED <<recordVars, machine, session, archiveVars, mirror, copy, work, history>>

StartDestroy(p) ==
    /\ Begin(p, "destroy")
    /\ LockOpen(p)
    /\ Goto(p, "lock")
    /\ UNCHANGED <<recordVars, machine, session, archiveVars, mirror, copy, work, history>>

StartDoctor(p) ==
    /\ Recorded
    /\ Begin(p, "doctor")
    /\ Loaded(p)
    /\ Goto(p, "relock")
    /\ UNCHANGED <<lockVars, machine, session, archiveVars, mirror, work, history>>

StartObserve(p) ==
    /\ Recorded
    /\ Begin(p, "observe")
    /\ work' = Remember(p, "seen", IF machine[Orchestrator].log
                                      THEN {machine[Orchestrator].born} ELSE {})
    /\ Goto(p, "merge")
    /\ UNCHANGED <<lockVars, recordVars, machine, session, archiveVars, mirror,
                   copy, history>>

TakeLock(p) ==
    /\ At(p, "lock")
    /\ LockTake(p)
    /\ Goto(p, CASE cmd[p] = "create" -> "adopt"
                 [] cmd[p] = "destroy" -> "load"
                 [] cmd[p] = "doctor" -> "reload")
    /\ UNCHANGED <<recordVars, machine, session, archiveVars, mirror, cmd, copy, work,
                   bounds, history>>

Unlock(p) ==
    /\ At(p, "unlock")
    /\ LockRelease(p)
    /\ Gone(p)
    /\ UNCHANGED <<machine, session, archiveVars, mirror, bounds, history>>

-----------------------------------------------------------------------------
(* adoptResumableCreate: what is taken up again.                           *)
ResumableAlways == {"creating", "create-failed", "created"}
Resumable == {"creating", "create-failed"}

(* ResetLogMirror, when nothing is resumed.                                *)
MirrorResetAlways(resumed) == {}
MirrorReset(resumed) == IF resumed THEN mirror ELSE {}

Adopt(p) ==
    /\ At(p, "adopt")
    /\ UNCHANGED <<lockVars, machine, session, archiveVars, cmd, work, history>>
    /\ \/ /\ record.state = "created"
          /\ Goto(p, "unlock")
          /\ UNCHANGED <<recordVars, mirror, copy, bounds>>
       \/ /\ record.state \in Resumable
          /\ Loaded(p)
          /\ mirror' = MirrorReset(TRUE)
          /\ Goto(p, "list")
          /\ UNCHANGED bounds
       \/ /\ ~Recorded
          /\ bounds.camps < MaxCreates
          /\ bounds' = [bounds EXCEPT !.camps = @ + 1]
          /\ copy' = [copy EXCEPT ![p] = Planned(bounds'.camps)]
          /\ fresh' = [fresh EXCEPT ![p] = TRUE]
          /\ mirror' = MirrorReset(FALSE)
          /\ Goto(p, "list")
          /\ UNCHANGED <<record, lost>>

(* The step fails, and the record says so: failCreate, or the same three   *)
(* lines written out.                                                      *)
FailCreate(p) ==
    /\ Save(p, [copy[p] EXCEPT !.state = "create-failed"])
    /\ Goto(p, "unlock")

(* The live listing is taken once, and the attempt is journalled before    *)
(* anything is made.  A listing that fails ends create with nothing saved. *)
ListMembers(p) ==
    /\ At(p, "list")
    /\ UNCHANGED <<lockVars, machine, session, archiveVars, mirror, cmd, history>>
    /\ \/ /\ copy' = [copy EXCEPT ![p].state = "creating"]
          /\ Save(p, copy'[p])
          /\ \E b \in Briefs : work' = [work EXCEPT ![p].live = Standing, ![p].at = 1,
                                                   ![p].brief = b]
          /\ Goto(p, "boot")
          /\ UNCHANGED bounds
       \/ /\ Fault
          /\ Goto(p, "unlock")
          /\ UNCHANGED <<recordVars, copy, work>>

MemberAt(p) == Roster[work[p].at]

MoreMembersOrOne(p) == work[p].at <= Len(Roster)
MoreMembers(p) == work[p].at < Len(Roster)

(* cs-sandbox create for a member the listing did not have, and nothing    *)
(* for one it had.  When it fails it may have made the machine all the     *)
(* same, and nothing is forgotten for that one.                            *)
Boot(p) ==
    /\ At(p, "boot")
    /\ UNCHANGED <<lockVars, session, archiveVars, mirror, cmd, copy, work, abandoned,
                   staleTurn>>
    /\ LET m == MemberAt(p) IN
       \/ /\ m \in work[p].live
          /\ Goto(p, "configure")
          /\ UNCHANGED <<recordVars, machine, bounds, lapsed>>
       \/ /\ m \notin work[p].live
          /\ ~Present(m)
          /\ bounds.boots < MaxBoots
          /\ \/ /\ bounds' = [bounds EXCEPT !.boots = @ + 1]
                /\ Goto(p, "forget")
                /\ UNCHANGED <<recordVars, lapsed>>
             \/ /\ bounds.faults > 0
                /\ bounds' = [bounds EXCEPT !.boots = @ + 1, !.faults = @ - 1]
                /\ FailCreate(p)
                /\ lapsed' = TRUE
          /\ machine' = [machine EXCEPT ![m] = Booted(bounds'.boots, copy[p].camp)]
       \/ /\ m \notin work[p].live
          /\ Fault \/ ((Present(m) \/ bounds.boots = MaxBoots) /\ UNCHANGED bounds)
          /\ FailCreate(p)
          /\ UNCHANGED <<machine, lapsed>>

(* forgetEarlierLife: a machine that was just made holds no session.       *)
EarlierLifeKept(m) == session
EarlierLifeForgotten(m) == [session EXCEPT ![m] = 0]

ForgetEarlierLife(p) ==
    /\ At(p, "forget")
    /\ UNCHANGED <<lockVars, machine, archiveVars, mirror, cmd, copy, work, abandoned,
                   staleTurn>>
    /\ \/ /\ session' = EarlierLifeForgotten(MemberAt(p))
          /\ Goto(p, "configure")
          /\ UNCHANGED <<recordVars, bounds, lapsed>>
       \/ /\ session[MemberAt(p)] # 0
          /\ Fault
          /\ FailCreate(p)
          /\ lapsed' = TRUE
          /\ UNCHANGED session

(* The rest of provisionMember, which is the same for a new machine and an *)
(* old one: wait until it accepts commands, read its branch and address,   *)
(* write its credential, its model and its channels, journal it.           *)
ConfigureMember(p) ==
    /\ At(p, "configure")
    /\ UNCHANGED <<lockVars, session, archiveVars, mirror, cmd, history>>
    /\ LET m == MemberAt(p) IN
       \/ /\ Present(m)
          /\ machine' = [machine EXCEPT ![m] = Configured(@, work[p].brief)]
          /\ copy' = [copy EXCEPT ![p].seeded[m] = work[p].brief]
          /\ Save(p, copy'[p])
          /\ IF MoreMembers(p)
                THEN /\ work' = [work EXCEPT ![p].at = @ + 1]
                     /\ Goto(p, "boot")
                ELSE /\ work' = [work EXCEPT ![p].at = 0, ![p].live = {}]
                     /\ Goto(p, "orchestrate")
          /\ UNCHANGED bounds
       \/ /\ Fault \/ (~Present(m) /\ UNCHANGED bounds)
          /\ FailCreate(p)
          /\ UNCHANGED <<machine, copy, work>>

(* configureOrchestrator and the campaign doctor: the first manifest, the  *)
(* log, the guard, then every machine is measured and must answer.         *)
Orchestrate(p) ==
    /\ At(p, "orchestrate")
    /\ UNCHANGED <<lockVars, session, archiveVars, mirror, cmd, work, history>>
    /\ \/ /\ Standing = Members
          /\ machine' = [machine EXCEPT ![Orchestrator] =
                             Manifested(@, copy[p].readback)]
          /\ copy' = [copy EXCEPT ![p].harness = TRUE]
          /\ Goto(p, "readback")
          /\ UNCHANGED <<recordVars, bounds>>
       \/ /\ Fault \/ (Standing # Members /\ UNCHANGED bounds)
          /\ FailCreate(p)
          /\ UNCHANGED <<machine, copy>>

-----------------------------------------------------------------------------
(* The readback: one goroutine a member, so the members' steps interleave. *)
StageIs(p, m, stages) == At(p, "readback") /\ work[p].stage[m] \in stages
Stage(p, m, stage) == work' = [work EXCEPT ![p].stage[m] = stage]

ReadbackUnchanged == UNCHANGED <<lockVars, recordVars, archiveVars, mirror, cmd, pc,
                                 copy, lapsed>>

(* startTurn on a machine: the host's session record is resumed, or made   *)
(* when there is none.  A session another machine held is not one this     *)
(* machine knows, and the turn does not run.                               *)
StartTurn(m, waiting, running) ==
    /\ session' = [session EXCEPT ![m] = IF @ = 0 THEN waiting.boot ELSE @]
    /\ machine' = [machine EXCEPT ![m] =
                      IF session[m] \in {0, waiting.boot} THEN running ELSE waiting]
    /\ staleTurn' = (staleTurn \/ session[m] \notin {0, waiting.boot})

Turned(mc) == [mc EXCEPT !.turn = mc.brief]

(* readbackOne, up to its wait: the answer an earlier create recorded may  *)
(* stand; a machine that cannot be probed fails the member; otherwise the  *)
(* prompt is put and a turn started, which may fail when the put has not.  *)
KeepReadback(p, m) ==
    /\ StageIs(p, m, {"ask"})
    /\ Present(m)
    /\ KeptReadback(machine[m], copy[p].readback[m], copy[p].seeded[m])
    /\ work' = [work EXCEPT ![p].stage[m] = "ok",
                            ![p].report[m] = copy[p].readback[m]]
    /\ ReadbackUnchanged
    /\ UNCHANGED <<machine, session, bounds, abandoned, staleTurn>>

AskReadback(p, m) ==
    /\ StageIs(p, m, {"ask", "rework"})
    /\ Present(m)
    /\ StageIs(p, m, {"ask"}) =>
          ~KeptReadback(machine[m], copy[p].readback[m], copy[p].seeded[m])
    /\ SendTarget(machine[m]) <= MaxAsks
    /\ ReadbackUnchanged
    /\ \/ /\ StartTurn(m, Asked(machine[m]), Turned(Asked(machine[m])))
          /\ Stage(p, m, IF StageIs(p, m, {"ask"}) THEN "wait" ELSE "again")
          /\ UNCHANGED <<bounds, abandoned>>
       \/ /\ Fault
          /\ machine' = [machine EXCEPT ![m] = Asked(@)]
          /\ Stage(p, m, "bad")
          /\ abandoned' = TRUE
          /\ UNCHANGED <<session, staleTurn>>

(* The probe fails, and the member with it; an answer whose form was wrong *)
(* is then recorded nowhere.  MaxAsks is the bound of the model.           *)
CannotAsk(p, m) ==
    /\ StageIs(p, m, {"ask", "rework"})
    /\ IF Present(m) /\ SendTarget(machine[m]) <= MaxAsks THEN Fault ELSE UNCHANGED bounds
    /\ Stage(p, m, "bad")
    /\ abandoned' = (abandoned \/ StageIs(p, m, {"rework"}))
    /\ ReadbackUnchanged
    /\ UNCHANGED <<machine, session, staleTurn>>

(* What an answer comes to, by its form and its facts: parseReadback,      *)
(* verifyReadback, readbackIncomplete and, for a seat with a declared      *)
(* model, assertDeclaredTurnConfig.  A second answer with nothing in it    *)
(* that can be read leaves nothing to record (Readback.Empty).             *)
Verdict(answer, again) ==
    CASE answer = "good" -> "ok"
      [] answer \in OfForm /\ ~again -> "rework"
      [] answer = "unparsed" /\ again -> "bad"
      [] OTHER -> "rejected"

Restated(mc, seeded) ==
    [dispatch |-> mc.asked, inputs |-> seeded, passed |-> mc.answer = "good",
     from |-> mc.boot, read |-> mc.read]

(* awaitReply finds the answer, and it is judged.                          *)
JudgeReadback(p, m) ==
    /\ StageIs(p, m, {"wait", "again"})
    /\ LET mc == machine[m]
           verdict == Verdict(mc.answer, StageIs(p, m, {"again"}))
       IN /\ mc.answer # NoAnswer /\ ~MissionOpen(mc)
          /\ work' = [work EXCEPT
                ![p].stage[m] = verdict,
                ![p].report[m] = IF verdict \in {"ok", "rejected"}
                                    THEN Restated(mc, copy[p].seeded[m]) ELSE NoReadback]
          /\ abandoned' = (abandoned \/ verdict = "bad")
    /\ ReadbackUnchanged
    /\ UNCHANGED <<machine, session, bounds, staleTurn>>

Unanswered(p, m) ==
    /\ StageIs(p, m, {"wait", "again"})
    /\ machine[m].answer = NoAnswer \/ MissionOpen(machine[m])

(* hostRestart: the session is killed and forgotten, and a turn started on *)
(* a new one.  When the loop comes to it is the ladder's to say, in Ladder.*)
RestartReadback(p, m) ==
    /\ Unanswered(p, m)
    /\ Present(m)
    /\ session' = [session EXCEPT ![m] = machine[m].boot]
    /\ machine' = [machine EXCEPT ![m] = Turned(@)]
    /\ ReadbackUnchanged
    /\ UNCHANGED <<work, bounds, abandoned, staleTurn>>

(* The wait ends without an answer: node-stuck, or readbackBound.          *)
GiveUp(p, m) ==
    /\ Unanswered(p, m)
    /\ IF Present(m) /\ ~MissionOpen(machine[m]) THEN Fault ELSE UNCHANGED bounds
    /\ Stage(p, m, "bad")
    /\ abandoned' = TRUE
    /\ ReadbackUnchanged
    /\ UNCHANGED <<machine, session, staleTurn>>

(* runReadback once every member is done: what was answered is recorded,   *)
(* passed or not, over what an earlier create had recorded, which stands   *)
(* where there is nothing to record; and one member that failed fails      *)
(* create.  Otherwise the agents with a context line have their readback   *)
(* sessions ended.                                                         *)
RecordReadbacks(p) ==
    /\ At(p, "readback")
    /\ \A m \in Members : work[p].stage[m] \in {"ok", "rejected", "bad"}
    /\ LET told == [copy[p] EXCEPT !.readback = [m \in Members |->
                       IF work[p].stage[m] = "bad" THEN @[m] ELSE work[p].report[m]]]
           passed == \A m \in Members : work[p].stage[m] = "ok"
       IN /\ copy' = [copy EXCEPT ![p] = told]
          /\ Save(p, IF passed THEN told ELSE [told EXCEPT !.state = "create-failed"])
          /\ Goto(p, IF passed THEN "manifest" ELSE "unlock")
          /\ session' = [m \in Members |->
                            IF passed /\ m \in Lined THEN 0 ELSE session[m]]
    /\ work' = [work EXCEPT ![p] = NoWork]
    /\ UNCHANGED <<lockVars, machine, archiveVars, mirror, cmd, bounds, history>>

-----------------------------------------------------------------------------
(* The last steps of executeCreate.                                        *)
OnOrchestrator(p, step) ==
    /\ At(p, step)
    /\ UNCHANGED <<lockVars, archiveVars, mirror, cmd, copy, work, lapsed>>

(* The orchestrator is not there, a call fails, or it is refused.          *)
FailsThereUnnoticed(p, refused) ==
    /\ Fault \/ ((~Present(Orchestrator) \/ refused) /\ UNCHANGED bounds)
    /\ IF At(p, "turn") THEN Goto(p, "finish") /\ UNCHANGED recordVars
                        ELSE FailCreate(p)
    /\ UNCHANGED <<machine, session, abandoned, staleTurn>>

FailsThere(p, refused) ==
    /\ Fault \/ ((~Present(Orchestrator) \/ refused) /\ UNCHANGED bounds)
    /\ FailCreate(p)
    /\ abandoned' = (abandoned \/ At(p, "turn"))
    /\ UNCHANGED <<machine, session, staleTurn>>

RecordOnOrchestrator(p) ==
    /\ OnOrchestrator(p, "manifest")
    /\ \/ /\ Present(Orchestrator)
          /\ machine' = [machine EXCEPT ![Orchestrator] =
                             Manifested(@, copy[p].readback)]
          /\ Goto(p, "mission")
          /\ UNCHANGED <<recordVars, session, bounds, abandoned, staleTurn>>
       \/ FailsThere(p, FALSE)

OpenMission(p) ==
    /\ OnOrchestrator(p, "mission")
    /\ \/ /\ Present(Orchestrator)
          /\ ~MissionRefused(machine[Orchestrator])
          /\ machine' = [machine EXCEPT ![Orchestrator].mission = "put"]
          /\ Goto(p, "turn")
          /\ UNCHANGED <<recordVars, session, bounds, abandoned, staleTurn>>
       \/ FailsThere(p, MissionRefused(machine[Orchestrator]))

StartMission(p) ==
    /\ OnOrchestrator(p, "turn")
    /\ LET mc == machine[Orchestrator] IN
       \/ /\ Present(Orchestrator)
          /\ StartTurn(Orchestrator, mc, [mc EXCEPT !.mission = "running"])
          /\ Goto(p, "finish")
          /\ UNCHANGED <<recordVars, bounds, abandoned>>
       \/ FailsThere(p, FALSE)

FinishCreate(p) ==
    /\ OnOrchestrator(p, "finish")
    /\ Save(p, [copy[p] EXCEPT !.state = "created"])
    /\ Goto(p, "unlock")
    /\ UNCHANGED <<machine, session, bounds, abandoned, staleTurn>>

-----------------------------------------------------------------------------
(* destroy.                                                                *)
LoadToDestroy(p) ==
    /\ At(p, "load")
    /\ Loaded(p)
    /\ \/ /\ ~Recorded
          /\ Goto(p, "unlock")
          /\ UNCHANGED work
       \/ /\ Recorded
          /\ \E archive \in BOOLEAN :
                /\ work' = [work EXCEPT ![p].archive = archive,
                                        ![p].at = IF archive THEN 1 ELSE 0]
                /\ Goto(p, IF archive THEN "archive" ELSE "scan")
    /\ UNCHANGED <<lockVars, machine, session, archiveVars, mirror, cmd, bounds, history>>

(* archiveIncomplete: destroy goes no further while it finds a mark.       *)
AfterArchiveAnyway(marked) == "scan"
AfterArchive(marked) == IF marked = {} THEN "scan" ELSE "unlock"

(* archiveMember, of one member after the other.  What cannot be collected *)
(* is removed from the archive and marked; the marks are looked at when    *)
(* all are done.                                                           *)
ArchiveMember(p) ==
    /\ At(p, "archive")
    /\ LET m == MemberAt(p) IN
       \/ /\ Present(m)
          /\ evidence' = [evidence EXCEPT ![m] = machine[m].boot]
          /\ incomplete' = incomplete \ {m}
          /\ UNCHANGED bounds
       \/ /\ Fault \/ (~Present(m) /\ UNCHANGED bounds)
          /\ evidence' = [evidence EXCEPT ![m] = 0]
          /\ incomplete' = incomplete \cup {m}
    /\ IF MoreMembers(p)
          THEN /\ work' = [work EXCEPT ![p].at = @ + 1]
               /\ UNCHANGED pc
          ELSE /\ work' = [work EXCEPT ![p].at = 0]
               /\ Goto(p, AfterArchive(incomplete'))
    /\ UNCHANGED <<lockVars, recordVars, machine, session, mirror, cmd, copy, history>>

ScanMembers(p) ==
    /\ At(p, "scan")
    /\ \/ /\ work' = [work EXCEPT ![p].live = Standing]
          /\ Goto(p, "remove")
          /\ UNCHANGED bounds
       \/ /\ Fault
          /\ Goto(p, "unlock")
          /\ UNCHANGED work
    /\ UNCHANGED <<lockVars, recordVars, machine, session, archiveVars, mirror, cmd,
                   copy, history>>

(* cs-sandbox destroy, of the last member in the listing first.  Unforced  *)
(* it may refuse, and says so with a zero exit.                            *)
RemoveMember(p) ==
    /\ At(p, "remove")
    /\ work[p].live # {}
    /\ LET m == Roster[CHOOSE i \in DOMAIN Roster :
                   /\ Roster[i] \in work[p].live
                   /\ \A j \in DOMAIN Roster : Roster[j] \in work[p].live => j <= i]
       IN \/ /\ Present(m)
             /\ machine' = [machine EXCEPT ![m] = NoMachine]
             /\ work' = [work EXCEPT ![p].live = @ \ {m}]
             /\ UNCHANGED <<pc, bounds>>
          \/ /\ Present(m)
             /\ Fault
             /\ work' = [work EXCEPT ![p].live = @ \ {m}]
             /\ UNCHANGED <<machine, pc>>
          \/ /\ Fault \/ (~Present(m) /\ UNCHANGED bounds)
             /\ Goto(p, "unlock")
             /\ UNCHANGED <<machine, work>>
    /\ UNCHANGED <<lockVars, recordVars, session, archiveVars, mirror, cmd, copy, history>>

(* list --all finds no member of the campaign.                             *)
NoneLeftBySay == TRUE
NoneLeft == Standing = {}

(* The second listing decides, not the exits: while a member stands the    *)
(* record stays.  Otherwise the host's sessions are forgotten, each as far *)
(* as the tool manages, and the group removed.                             *)
VerifyGone(p) ==
    /\ At(p, "remove")
    /\ work[p].live = {}
    /\ \/ /\ NoneLeft
          /\ session' = [m \in Members |-> 0]
          /\ Goto(p, "delete")
          /\ UNCHANGED bounds
       \/ /\ NoneLeft
          /\ Fault
          /\ \E kept \in SUBSET Members, next \in {"delete", "unlock"} :
                /\ session' = [m \in Members |-> IF m \in kept THEN session[m] ELSE 0]
                /\ Goto(p, next)
       \/ /\ Fault \/ (~NoneLeft /\ UNCHANGED bounds)
          /\ Goto(p, "unlock")
          /\ UNCHANGED session
    /\ UNCHANGED <<lockVars, recordVars, machine, archiveVars, mirror, cmd, copy, work,
                   history>>

(* Store.Delete: the record, and the lock's file with it.                  *)
DeleteRecord(p) ==
    /\ At(p, "delete")
    /\ Save(p, NoRecord)
    /\ LockUnlink(p)
    /\ Goto(p, "unlock")
    /\ UNCHANGED <<machine, session, archiveVars, mirror, cmd, copy, work, bounds, history>>

-----------------------------------------------------------------------------
(* saveHarness: only now is the lock taken, the record read again, and the *)
(* one field this command owns copied over.                                *)
LockToSave(p) ==
    /\ At(p, "relock")
    /\ LockOpen(p)
    /\ Goto(p, "lock")
    /\ UNCHANGED <<recordVars, machine, session, archiveVars, mirror, cmd, copy, work,
                   bounds, history>>

ReloadSkipped(p) ==
    /\ At(p, "reload")
    /\ Goto(p, IF Recorded THEN "journal" ELSE "unlock")
    /\ UNCHANGED <<lockVars, recordVars, machine, session, archiveVars, mirror, cmd, copy,
                   work, bounds, history>>

Reload(p) ==
    /\ At(p, "reload")
    /\ Loaded(p)
    /\ Goto(p, IF Recorded THEN "journal" ELSE "unlock")
    /\ UNCHANGED <<lockVars, machine, session, archiveVars, mirror, cmd, work, bounds, history>>

SaveHarness(p) ==
    /\ At(p, "journal")
    /\ Save(p, [copy[p] EXCEPT !.harness = TRUE])
    /\ Goto(p, "unlock")
    /\ UNCHANGED <<lockVars, machine, session, archiveVars, mirror, cmd, copy, work,
                   bounds, history>>

(* MergeLogMirror: the lines observe read are added to the host's copy,    *)
(* and none is taken away.                                                 *)
MergeLogMirror(p) ==
    /\ At(p, "merge")
    /\ mirror' = mirror \cup work[p].seen
    /\ Gone(p)
    /\ UNCHANGED <<lockVars, machine, session, archiveVars, bounds, history>>

-----------------------------------------------------------------------------
(* The members, and what may go wrong.                                     *)
MemberAnswers(m) ==
    /\ machine[m].turn # NoBrief
    /\ ReadbackOpen(machine[m])
    /\ \E a \in Answers :
          /\ IF a = "good" THEN UNCHANGED bounds ELSE Fault
          /\ machine' = [machine EXCEPT ![m].answer = a, ![m].read = machine[m].turn,
                                        ![m].turn = NoBrief]
    /\ UNCHANGED <<lockVars, recordVars, session, archiveVars, mirror, procVars, history>>

(* The orchestrator appends to its log.                                    *)
OrchestratorLogs ==
    /\ machine[Orchestrator].mission = "running"
    /\ ~machine[Orchestrator].log
    /\ machine' = [machine EXCEPT ![Orchestrator].log = TRUE]
    /\ UNCHANGED <<lockVars, recordVars, session, archiveVars, mirror, procVars, bounds,
                   history>>

MachineLost(m) ==
    /\ Present(m)
    /\ Fault
    /\ machine' = [machine EXCEPT ![m] = NoMachine]
    /\ UNCHANGED <<lockVars, recordVars, session, archiveVars, mirror, procVars, history>>

(* A command dies: its descriptors close, and what it knew is gone.        *)
Crash(p) ==
    /\ ~At(p, "idle")
    /\ Fault
    /\ IF phase[p] = "out" THEN UNCHANGED lockVars ELSE LockRelease(p)
    /\ Gone(p)
    /\ lapsed' = (lapsed \/ At(p, "forget"))
    /\ abandoned' = \/ abandoned
                    \/ At(p, "readback") /\ \E m \in Members : work[p].stage[m] # "ask"
                    \/ pc[p] \in {"turn", "finish"}
    /\ UNCHANGED <<machine, session, archiveVars, mirror, staleTurn>>

Readback(p) ==
    \/ \E m \in Members : \/ KeepReadback(p, m) \/ AskReadback(p, m) \/ CannotAsk(p, m)
                          \/ JudgeReadback(p, m) \/ GiveUp(p, m)
    \/ RecordReadbacks(p)

Create(p) ==
    \/ Adopt(p) \/ ListMembers(p) \/ Boot(p) \/ ForgetEarlierLife(p)
    \/ ConfigureMember(p) \/ Orchestrate(p) \/ Readback(p)
    \/ RecordOnOrchestrator(p) \/ OpenMission(p) \/ StartMission(p) \/ FinishCreate(p)

Destroy(p) ==
    \/ LoadToDestroy(p) \/ ArchiveMember(p) \/ ScanMembers(p) \/ RemoveMember(p)
    \/ VerifyGone(p) \/ DeleteRecord(p)

Doctor(p) == LockToSave(p) \/ Reload(p) \/ SaveHarness(p)

(* What a running command does next.                                       *)
Step(p) ==
    \/ TakeLock(p) \/ Unlock(p) \/ Create(p) \/ Destroy(p) \/ Doctor(p) \/ MergeLogMirror(p)

Next ==
    \/ \E p \in Procs :
          \/ StartCreate(p) \/ StartDestroy(p) \/ StartDoctor(p) \/ StartObserve(p)
          \/ Step(p) \/ Crash(p)
          \/ \E m \in Members : RestartReadback(p, m)
    \/ \E m \in Members : MemberAnswers(m) \/ MachineLost(m)
    \/ OrchestratorLogs

Spec == Init /\ [][Next]_vars

-----------------------------------------------------------------------------
(* No command's save drops what another command had saved since it loaded  *)
(* the record (R101), as long as the lock excludes.                        *)
NoLostWrite == lost => raced

(* Every machine that stands belongs to the campaign the record names: no  *)
(* create leaves machines the record does not know, and no destroy drops   *)
(* the record of machines that are left.                                   *)
NoOrphans == raced \/ \A m \in Members : Present(m) => machine[m].born = record.camp

(* A turn is started on a session the machine never held only after a      *)
(* create died between a boot and the forget that follows it, or its       *)
(* cs-sandbox create failed having made the machine.                       *)
NoStaleTurn == staleTurn => lapsed \/ raced

MissionOpens == machine[Orchestrator].mission = "none"
                /\ machine'[Orchestrator].mission = "put"

(* When the mission opens, the record holds for every machine of the team  *)
(* a readback that passed, given on the briefing the machine holds, under  *)
(* the dispatch it was asked last, with none open since; and the machine   *)
(* itself gave it: however many creates it took, whatever was edited, lost *)
(* or made again between them.  The last part has an exception: a create   *)
(* before that left the record without what came of a dispatch.  keptRead- *)
(* back takes a dispatch's name for its answer, so a machine made again    *)
(* may then pass on what the machine before it answered under that name.   *)
MissionOnConfirmedBriefing ==
    [][MissionOpens /\ ~raced =>
         \A m \in Members : Present(m) =>
            LET r == record.readback[m] IN
            /\ r.passed
            /\ r.read = machine[m].brief
            /\ r.dispatch = machine[m].asked
            /\ ~ReadbackOpen(machine[m])
            /\ ~abandoned => r.from = machine[m].boot]_vars

(* When the mission opens, the orchestrator's manifest names the readback  *)
(* each agent has closed, so that its dispatcher owes none of them a       *)
(* judgment (R150).                                                        *)
ManifestNamesReadbacks ==
    [][MissionOpens /\ ~raced =>
         \A g \in Agents : /\ machine[Orchestrator].named[g] # 0
                           /\ machine[Orchestrator].named[g] = record.readback[g].dispatch]_vars

(* A campaign the record calls created has its mission running.            *)
CreatedMeansRunning ==
    record.state = "created" /\ ~raced =>
        ~Present(Orchestrator) \/ machine[Orchestrator].mission = "running"

(* No readback is asked under the mission's dispatch.                      *)
MissionApart == \A m \in Members : ~machine[m].crossed

MissionApartUnlessAbandoned == abandoned \/ raced \/ MissionApart

(* destroy --archive takes a machine away only when the archive holds that *)
(* machine's evidence, whole (R112).                                       *)
ArchivedBeforeGone ==
    [][\A p \in Procs, m \in Members :
         At(p, "remove") /\ work[p].archive /\ ~raced /\ bounds' = bounds
         /\ Present(m) /\ machine'[m] = NoMachine
            => evidence[m] = machine[m].boot /\ m \notin incomplete]_vars

(* Evidence taken of a machine that is gone is not lost again.             *)
EvidenceStays ==
    [][\A m \in Members : evidence[m] # 0 /\ machine[m].boot # evidence[m]
                              => evidence'[m] = evidence[m]]_vars

(* While a campaign is recorded, the host's copy of its log loses nothing. *)
BackupStays ==
    [][Recorded /\ record'.camp = record.camp => mirror \subseteq mirror']_vars
=============================================================================
