# TLA+ models of cs-campaign

`cs-campaign` runs a fleet of machines, one orchestrator and its agents, each
driven by a command-line coding agent. This directory models the protocol they
speak (PROTOCOL.md, `internal/protocol`) and the programs that speak it
(`cmd/cs-campaign-member`, `internal/cli`). Source paths below are relative to
the repository; every definition that stands for code names its lines in
`PROJECT.json`.

## The system

| Component | State it keeps | Operations | What makes it correct |
| --- | --- | --- | --- |
| Channel of a node (`protocol.go`, `artifacts.go`) | message files, reply files | mint a name, put under noclobber, write a reply | one dispatch open at a time; the open one is the one everybody finds; no name reused; a reply closes for good |
| Sends and moves (`dispatcher.go`) | the session record, the turn lock | `send`, `send --continue`, `restart`, the moves of `wait` | nothing opens by accident; one session per agent |
| Worker (`worker.go`) | its reply files | `reply`, `inbox`, `check-inputs` | a reply answers the open dispatch and stands |
| Node state (`state.go`) | none: computed from one look | `Compute` | recovery moves are counted right although nothing is remembered |
| Recovery ladder (`dispatcher.go`, `state.go`) | none | one look a poll, at most one move per node | bounded, fair, and always concluded |
| Judgments and the log (`dispatcher.go`, `artifacts.go`) | the append-only log | `accept`, `note`, what `wait` reports | each judgment asked for once, never for another node's dispatch |
| Observer memory (`dispatcher.go`) | `observer.json` | a look | a machine is given up only after its time, and an observer that is blind itself gives up none |
| Push and withheld paths (`dispatcher.go`, `withhold`) | git refs, log | `push`, `fetch` | nothing withheld is delivered |
| Campaign document (`internal/cli/profile.go`, `upstream.go`) | none: judged, then recorded | `validate`, `plan`, overrides, what `create` checks and makes of repositories | the machines that come up are the ones that were declared |
| Guard and gate (`guard.go`, `main.go`) | none | per-tool hook, verb gate | who may do what |
| Host dispatch (`hostdispatch.go`) | the orchestrator's channel | `send`, `restart`, the readback wait | as the channel, without noclobber |
| Creation (`create.go`, `readback.go`) | the campaign record, machines | `create`, a resumed create | every step can be taken up again; the mission opens once |
| Record and lock (`store.go`) | record file, lock file | lock, load, save, delete | commands exclude one another; no write is lost |
| Log mirror (`logmirror.go`) | the host's copy | merge, reset | never loses a line, never doubles one |
| Archive, destroy (`archive.go`, `lifecycle.go`) | the archive | `archive`, `destroy` | no record goes while a machine stands |

The orchestrator's model runs `cs-campaign-member` commands, several at a time
if it likes. Each reaches an agent's machine over ssh in a few separate round
trips: a probe, a put, a kill, the launch of a turn. On the agent's machine a
turn driver runs the agent, which calls `reply`, and writes why each turn ended
into a turn log. `wait` polls every agent, computes each state from that look
alone, and performs the mechanical moves. The host treats the orchestrator as
the orchestrator treats the agents.

**What is hard.** Round trips of different commands interleave freely; a move
acts on a look that is several round trips old; a command can end between any
two of its steps; order is known only from file times of one second's
resolution; how far recovery has come is inferred from messages and a turn log
which do not name each other; launches fail, turns end without a word, budgets
run out. On the host, `create` and `destroy` go over the machines for minutes
and may end anywhere; they are run again on what is left, on an edited profile,
from another shell, while the operator works in the repositories they read.
`PROJECT.json` lists these hazards at their lines, each with the properties that
would catch it, or with why no property does.

Four groups of modules, each checked on its own:

    Channel  <-  Delivery                one agent's channel, every command on it
    NodeState  ->  Ladder                one agent's recovery over time
    Wait                                 the wait loop over the whole fleet
    StoreLock, Machines  ->  Campaign    the host's commands on one campaign name
    Seats, Withhold  ->  Setup           what is declared, made and delivered

## The modules

**`Channel`** is the abstract specification: dispatches are numbered in order,
a new one opens only when all earlier ones are closed, a message belongs to an
opened dispatch and has a name of its own, a reply closes its dispatch.

**`Delivery`** is one agent's channel with everybody that works on it. A
command is a process; its program counter `pc` and what it has read (`call`)
are its state, and each action is one round trip or one step on the
orchestrator's disk:

| Action | Code |
| --- | --- |
| `ListMessages`, then `SendTarget` or `ChooseMove` | the probe in two steps (messages; then replies and drivers), and the decision on it: `sendBody`, `unexpectedSend`; `doRestartPrepared`, `doHandoffPrepared`, the moves of `cmdWait` |
| `PutMsg`, `PutCollides` | `PutMsgScript` under noclobber; the one retry of `sendBody`, none for moves |
| `KillSession`, `ForgetSession` | the two commands of `runSessionCmd`, whose errors are ignored |
| `LockSession`, `LaunchTurn` | `lockSession`, `startTurn`: `--new` or `--resume` by the marker |
| `Abort` | a missed bound, an ssh error, a killed command |
| `TurnEnds`, `ReplyCheck`, `ReplyWrite` | the agent's machine: `cmdReply` checks, and then renames |

Sending and restarting are told apart by sets of processes: `Senders` look and
classify, `Movers` act on a snapshot. A `commit` ask of the hand-off move is a
mover's choice of its own, since the check of the work against the handoff is
data. Left out: what a message says; the copy of the handoff that is kept; the
empty file that exists for an instant while a put fills it; the launcher's
progress (it registers the session in one step). The clock of the agent's
machine does not go back.

**`NodeState`** is `Compute` and everything it calls, as operators over a record
of facts, for an agent whose tools keep a turn log. `Precedes` keeps the tie
break of `SortMsgs` as it is (in one second `d001.001.md` comes before
`d001.md`), and the windows of `Charged` and `endSince` keep their `>=` and
`<=`. `HeldSeconds` is the closed form of the loop in `heldSeconds`.

**`Ladder`** drives it: one dispatch, a loop that looks once a poll and makes
the move the verdict calls for, and a machine on which launches fail
(`TurnVanishes`, the failed half of `Deliver`), turns end with any class a turn
log knows, and the token budget runs out and is raised. Four history variables
record what the code cannot see: which messages' turns ran and came to an end
(`ran`), which messages' turns were running when their driver died without a
line in the log (`vanished`), how
long the node was not held on its budget (`own`), and how many fresh sessions
in a row handed off at once (`rapid`: a session counts once, at the first turn
end that hands off, and one that the budget stopped ends the row). The properties
compare the computed verdicts with them.

**`Wait`** is the loop of `wait` over the whole fleet, with what it remembers in
`observer.json` and in the log, and the model that calls it:

| Action | Code |
| --- | --- |
| `StartWait`, `StartObserve`, `LookStart` | a command begins, a look begins (`cmdWait`, `cmdObserve`) |
| `Probe` | one agent's answer: its state, an error, or nothing within the bound |
| `Remember` | the look is added to `observer.json`: time unseen, time the fleet was dark, capped by the gap between two looks |
| `Move` | the mechanical move a node calls for, at most one resume a look |
| `Tell`, `Report`, `Return` | the judgments owed are printed, the once-only ones recorded, and the wait returns |
| `Elapse`, `Sleep` | the wait's time is up, or it polls again |
| `Kill`, `Accept`, `Send` | the model's part: its call is killed, it accepts a reply, it sends |
| `TurnEnds`, `HoldEnds`, `LinkChanges`, `Tick` | the world: a turn ends in some condition, a hold runs out, a link breaks or heals, a second passes |

An agent's condition (`cond`) stands for what `NodeState` computes and `Ladder`
goes through; a move is one step here. Times are kept as ages with a cap beyond
every bound of the policy, so a run has no last second, and deadlock is checked.
`observer.json` is read and renamed in one step.

**`StoreLock`** is the flock of one campaign (`Store.Lock`, `Store.Delete`) with
the file behind its name: `LockOpen`, `LockTake`, `LockUnlink`, `LockRelease`.
Files are numbered as they are made, so a waiter can hold the lock of a file
whose name is gone. It doubles as the abstract specification of how the host's
commands use the lock.

**`Machines`** is what the host's calls do to one machine: boot, configuration,
the put and the turn of a message, the readback kept and judged, the manifest,
the mission.

**`Campaign`** composes them. Processes run commands on one campaign name, and
every call that reaches a machine, the store or the archive is a step:

| Command | Actions |
| --- | --- |
| `create` | `TakeLock`, `Adopt`, `ListMembers`, `Boot`, `ForgetEarlierLife`, `ConfigureMember`, `Orchestrate`; per member `KeepReadback`, `AskReadback`, `CannotAsk`, `JudgeReadback`, `Unanswered`, `RestartReadback`, `GiveUp`; `RecordReadbacks`, `RecordOnOrchestrator`, `OpenMission`, `StartMission`, `FinishCreate`, `FailCreate` |
| `destroy` | `LoadToDestroy`, `ArchiveMember`, `ScanMembers`, `RemoveMember`, `VerifyGone`, `DeleteRecord` |
| `doctor` | `LockToSave`, `Reload`, `SaveHarness`: it measures without the lock and saves under it |
| `observe` | `MergeLogMirror` |
| the rest | `MemberAnswers`, `OrchestratorLogs`, `MachineLost`, `Crash` |

A run starts with a campaign of that name remembered (destroyed, with the host's
session records of its machines left over) or running. A machine has the number
of its boot, a session record the boot it was made on, a readback the boot, the
briefing and the dispatch it speaks of, so that what is kept from an earlier
attempt can be told from what is there. An answer is of one of four kinds, by
what `parseReadback`, `readbackIncomplete` and `verifyReadback` make of it: good;
unparsed or incomplete, which is asked about once more; wrong, which is not. A
second answer with nothing in it that can be read leaves the record what it was
(`Readback.Empty`), and any other is recorded, passed or not. A failing
`cs-sandbox create` may leave a machine or none. `Lined` are the seats with
hand-off tokens, whose session is ended once their readback is recorded. The members' readbacks are asked and judged concurrently, as in the
code. **`MCCampaign`** has the roster of an orchestrator and an agent, and the
symmetry of the two processes.

**`Seats`** is the campaign document: the rules that refuse a profile,
overrides, defaults, the credential each seat is granted, its numbers.
**`Withhold`** is the matcher of declarations over paths (`Match`, as the code
recurses) beside a reference (`CoversPrefix`), and which commits of a history a
declaration withholds. **`Setup`** has them run:

| Part | Actions |
| --- | --- |
| `create` | `CreateStart`, `ResolveSeat` (one git call a seat), `CreateChecks`, `GitInit`, `UpdateRef`, `SymbolicRef`, `NoInit`, `Adopt`, `Provision` (one machine a step), `CreateDone`, `CreateEnds` |
| the operator | `Commit`, `Amend`, `ChangeFiles`, `InitByHand`, `Prune` on the host's repository; `SetVariable`, `EditProfile` |
| the team | `Work` and `Fetch` of a member, with the merge of a build store; `PushStart`, `PushSend`, `PushEnds` |

`validate` and `plan` change nothing: they are the operators `ValidateAccepts`
and `PlanAccepts`, which follow each command's own path through the rules. A machine
holds the grants of its seat and, in `env`, those variables of create's shell
that the profile's `env` of the seat names by a bare `KEY`. A commit or an amend
leaves files in the work tree or `.git` alone. History variables: `late`, the
commits made since create's last look, and `since`, how many commits there were
when the create began and whether the repository was left without a file since.
Abstracted: all seats use one repository, a commit adds one path, the operator
switches no branches and removes no `.git`, an `env` entry `KEY=VALUE` names
nothing of the shell, the check of
the host's history and of its object store is one step, resources and addresses
are left out, malformed globs too, and `create` of a name that exists with
machines is `Campaign`'s matter. **`MCSetup`** has the starts, in sets that each
vary one thing: credentials, repositories, declarations to match, whole
documents to judge, profiles from flags, and teams at work.

**`DeliveryProofs`**, **`StoreLockProofs`**, **`CampaignTypes`**,
**`CampaignProofs`**, **`MissionProofs`**, **`WaitProofs`**, **`SetupProofs`** and
**`LadderProofs`** hold the theorems.
**`MCDelivery`** adds symmetry sets to `Delivery`.

## The runs

| Run | Shows | Instance |
| --- | --- | --- |
| `sends` | `AtMostOneOpen`, `OpenIsCurrent`, `FenceHolds`, the refinement `ChannelSpec` | two sends, one reply command, two sessions, two dispatches, message numbers 0 to 2 |
| `moves` | `MoveNeverOpens` | two movers (continue, restart), one send, one reply command, an agent with fresh sessions per dispatch |
| `ladder` | `RungsBounded`, `WrittenOffFairly`, `HandoffsBounded`, `FreshMessageSettles`, `ElapsedIsOwnTime` | one continue, one restart and two quick hand-offs allowed, one lost turn or failed move, one budget stop, one `send --continue`, all classes of turn end; 2.4 million states |
| `concludes` | `Concludes` under `FairSpec` | the same without a send |
| `waits` | `NotGoneEarly`, `BlindFleetSparesNodes`, `FreeIsJudged`, `StuckToldOnce`; under fairness `JudgmentsAreTold`, `GoneConcluded` | two agents, two dispatches, two events anywhere, no last second; 0.85 million states |
| `campaign` | `ExclusiveUnlessUnlinked`, `NoLostWrite`, `NoOrphans`, `NoStaleTurn`, `CreatedMeansRunning`, `MissionApartUnlessAbandoned`, `MissionOnConfirmedBriefing`, `ManifestNamesReadbacks`, `ArchivedBeforeGone`, `BackupStays` | two processes, three commands (at most one a doctor or an observe), two faults, two members, two briefings; 1.2 million states |
| `work` | `ValidateIsPlan`, `LentHoldsNoSecret`, `OneBase`, `SeatHasCredential`, `InitSparesHead`, `ClonesHoldNothingWithheld`, `MatchMeansBeneath`, `NoWithheldByPush` | 2792 starts; up to two edits on the host, two on the desk, four steps of the team, four commits, one `create` that ends early; 1.2 million states |
| `two_sessions`, `two_replies`, `same_second`, `send_into_turn`, `evidence_lost` | five places where the code does other than the repository says; see Findings | as above, smaller |

Each specification has one type invariant, checked with the rest.

**Bounds.** Two dispatches suffice to open, close, reopen and exhaust the
numbers (`MaxDispatchSeq` is 999 in the code and 2 here, so the last number is
reached), `SeqLimit` = 1 reaches the message number whose name nobody lists,
two commands of a kind suffice for every race on a name, on the lock and on a
stale look, and the proofs carry the results to every size. In `Ladder` the
policy's numbers are small but in the order of the defaults (settling window <
provider wait < elapsed bound), each verdict of `Compute` is reached, and the
elapsed bound falls after a whole ladder of one continue and one restart, and
after two sessions in a row that handed off at once.
`MaxTime` is where the clock stops. In `concludes` it lies far enough behind the
elapsed bound that every behaviour concludes before it; in `ladder` one second
behind, where the bound trips at its second on a node that was never held, a
second later on one that was held for a second, and not yet on one held for two.
Deadlock is not checked there because the clock stops.

In `Wait`, `PollSeconds` = 1, `GoneAfter` = 3, `ProviderWait` = 2 and looks of up
to a second are enough for a node to be given up over several looks and several
waits, for the observer to be dark for longer than it may, and for a link to
break and heal in between; `Chunk` = 0 makes waits short, so that what is
remembered between them matters most. `MaxEvents` = 2 is what the world and the
operator may do in all, beside the answers of the probes: enough for one agent's
trouble to meet another's reply. The proofs of its safety properties hold for
every bound.

In `Campaign`, three commands of which two may run at once are enough for a
create, its resume and a destroy between them; `MaxCreates` = 3 and `MaxBoots` =
4 let a name be used again and a machine be made again, `MaxAsks` = 2 lets a
readback be asked again after rework, `Briefs` = {1, 2} an edit of the briefing,
and two faults a crash after a crash, or a lost machine and a bad answer. Faults
are bounded together, because a run is over the product of their places. The
constraint `UntilRaced` stops where `Delete` has unlinked a lock file that
another command had opened: from there on nothing is claimed. Deadlock is not
checked because commands run out.

In `Setup`, seats are the orchestrator and one or two agents, the host has the
branches `main` and `dev`, and the starts fix how many edits of each kind a
behaviour may have; two edits and one early end put the record between two states
of the profile, the shell and the host. Four commits let a withheld path come
from a member, be merged and be pushed on. Deadlock is not checked because the
edits run out.

**Two switches.** `SameSecond` lets a turn end in the second of a look or of a
message, `SendIntoTurn` lets `send --continue` reach a running turn. The code
allows both. The passing runs have them off, because with either on, the
inference from times goes wrong: that is what the runs `same_second` and
`send_into_turn` show. What holds of the ladder therefore holds of campaigns in
which neither happens. A second send while a turn is still being launched is in
`Delivery`, and not in `Ladder`.

**A conservative count.** A message older than the first line of the turn log is
charged even if its turn never ran, because a log that is new cannot be told
from one that was cut. Before the first turn has ended, the loop itself sends
only resumes, which are never charged; a `send --continue` can be charged that
way, and the properties leave the orchestrator's own sends aside (`Sent`).

**Fairness.** `FairSpec` of `Ladder` assumes of the loop that it looks and that
time passes (the orchestrator must call `wait` again and again; PROTOCOL.md
requires it and `wait` polls on its own in between), and of the machine that a
launched turn begins or dies (the launcher is bounded: `turnStartBound`) and
that a running turn ends (the driver's stall detector; `--turn-timeout 0` leaves
no other watchdog). Nothing is assumed of replies, of the operator or of the
model. `Wait` assumes the same of the loop: the steps of a running command are
taken (a probe has a bound, so it answers, errs or is given up on), time passes,
and `wait` is called again after it has returned, as the orchestrator's role
says. Nothing is assumed of the agents, the links, or of what the model does
with a judgment.

**What the properties leave aside.** Some properties name a case in which the
code does not do what they say, and the exemption is part of the statement:

- `NoOrphans`, `NoLostWrite` and all of `Campaign`: from the moment a delete
  unlinked a lock file that another command had opened (`raced`).
- `RungsBounded`: a driver that died with no line in the log while its turn ran
  (`vanished`). The loop cannot tell such a turn from one that never began and
  gives its rung again, so the policy's number bounds the turns that came to an
  end, and every death adds one.
- `FreshMessageSettles`: once the node's own time is up. A look then reads stuck
  on the elapsed bound, booting or not.
- `MissionOnConfirmedBriefing` (only its last part, that the machine itself gave
  the answer), `MissionApartUnlessAbandoned`: after a create ended without
  recording what came of a readback it had asked (`abandoned`): it died; a
  machine that was to be asked again could not be reached; an agent answered twice
  with nothing that can be read; or it ended between the put of the mission and
  the last save. A resumed create then finds a dispatch it did not record. Asked
  under an open mission, a readback becomes a message of the mission's dispatch.
  And `keptReadback` knows an answer by the name of its dispatch: when one
  machine confirmed under d002, was lost and made again, and the new one closes
  d001 and d002 with answers that cannot be read, the record still holds the old
  confirmation (`readback.go:63-70`), and the next create lets the mission open
  on it. That takes five faults and the run has two, so what bears the statement
  up to there and beyond is the theorem.
- `NoStaleTurn`: after a create died between a boot and the forget that follows,
  or a `cs-sandbox create` failed having made the machine (`lapsed`). The resume
  finds the machine there and forgets nothing (`create.go:593-595`).
- `NotGoneEarly`: its time clause when two looks fell into one second
  (`crowded`), since each adds a second at least; the clause on errors stays.
- `BlindFleetSparesNodes`: a fleet of one, and an observer dark for
  `ProviderWait` or longer; there the code counts.
- `JudgmentsAreTold`, `StuckToldOnce`: a stuck node that was recorded by a wait
  killed before the model read its output counts as told; the log has it.
- `ValidateIsPlan`: what create alone asks on top of the plan, a key for every
  seat and the pinned cs-sandbox; overrides; and a name that does not fit.
- `LentHoldsNoSecret`: what the profile's `env` of that very seat names.
  `createArgs` passes it on with the values of create's own shell, to a lent seat
  as to any, since the operator wrote it there.
- `OneBase`: a host that moved while the seats were being resolved (`torn`), one
  git call after the other.
- `SeatHasCredential`, `ClonesHoldNothingWithheld`: a profile edited between the
  attempt that made the record and the one that makes the machines. `create`
  judges the new one and makes the old one.
- `ClonesHoldNothingWithheld`, besides: commits made after the last look
  (`late`), and a repository create made itself.
- `InitSparesHead`: commits made after the last look; and, of those made since
  the create began, also earlier ones if somebody left the repository without a
  file meanwhile. `canInitializeRepo` looks for files and not for commits
  (`profile.go:643-655`), so a `commit --allow-empty` passes it, and `update-ref`
  overwrites the branch. What was there when the create began is spared without
  exception. Nothing is said of a branch that is not checked out in a repository
  without files, which it overwrites too.

## Findings

- `two_sessions`: killing and forgetting a session are outside the lock that
  `startTurn` calls a complete fence. A session started between an opener's kill
  and its forget goes on beside the one the opener starts.
- `two_replies`: two `reply` commands can both find the dispatch open; the
  second replaces the first one's file.
- `same_second`: when a turn ends and the loop carries the node on within one
  second, the old turn's end is read as the end of the new turn. The settling
  window of R60 is skipped: the node reads as stopped, or stuck, while it boots.
- `send_into_turn`: a message sent into a restart's running turn takes that
  turn's end; the restart counts as never run, and the node gets another.
- `evidence_lost`: a `destroy --archive` that ended after it had removed a
  machine, and is run again as R102 says it may be, collects every member anew.
  Of the machine that is gone it can collect nothing: it removes the evidence the
  first attempt had archived, leaves the mark INCOMPLETE in its place, and stops
  there, this time and every time.

A continuation that loses to a reply is a weakness of the same kind, and not a
finding, because nothing in the repository promises otherwise: `send --continue`
decides on its probe, and a reply that comes between that and the put leaves the
message in a closed dispatch. It opens nothing (`ChannelSpec`).

## The proofs

Each result below holds for every value of the constants that satisfies the
assumptions named in the module: any number of commands, members, agents,
dispatches, faults and edits, and any policy.

**The channel.** `DeliveryProofs` proves, under `DeliveryAssumption`: type correctness, `AtMostOneOpen`, `OpenIsCurrent`,
`FenceHolds`, `MoveNeverOpens`, and that `Delivery` implements `Channel`.

None of these is inductive: a command that is about to put a message acts on a
listing that the world has moved past. The invariant `IInv` says what still
ties its plan to the world:

- `ChannelOK`: dispatches are numbered without gaps, each has an opener, openers
  are in the order of their numbers in time as well, and all but the last are
  answered;
- `SnapshotOK`: a listing that a command still acts on is a part of the channel,
  with the opener of every dispatch it shows and no number left out;
- `PlanOK`: every dispatch below a planned opener is opened and answered; a
  planned continuation names a dispatch that exists, and a mover plans nothing
  else;
- `FenceOK`: only the lock's holder has read the marker, what it read is
  still so, and the marker names the one session there is, until a command has
  begun to end a session.

Openers race for one name, so that the winner's put makes every other opener of
that number collide; that is why a stale plan is harmless (`FreshOpener`). That
continuations never open follows from `PlanOK`, and the refinement from
`FreshOpener` and `PlanStep`. Facts about the choice of the current dispatch
(`OpeningTime`, `NewestIsCurrent`, `PartInOrder`, `ListedIsSnapshot`) are lemmas
on their own. Each step lemma has one step per action.

**The lock and the campaign.** `StoreLockProofs` proves `LockInv`, which is
inductive: one holder to a file, and, until a delete has raced a waiter,
everybody who holds or waits does so on the file the name refers to. Exclusion
alone is not inductive, since two holders may have opened different files.
`CampaignProofs` shows that every step of every command is a step of the lock
or leaves it alone (`LockSteps`), so that `Campaign` implements `StoreLock`
(`CampaignLocks`) and inherits its exclusion (`CampaignExclusive`).

`NoLostWriteHolds` rests on `WriteInv`: a process at a program point inside the
lock holds it, and its copy of the record is the record as it stands, unless
raced. That is where `doctor` could go wrong: it has a copy before it has the
lock, and its save is harmless only because it loads again. `NoOrphansHolds`
rests on `OwnInv`: while a create is making machines, the record it saved is
still there and names its campaign; while a destroy is at its delete, no machine
is left. Both use exclusion. `TypeOKHolds` has a module of its own
(`CampaignTypes`), since the steps of the campaign are many.

**The mission.** `MissionProofs` proves what a campaign is when its mission
opens. `CampaignInv` joins the types and the write fence to
- `GuestInv`, which holds even after a race: what is not there holds nothing,
  only the orchestrator is given a mission, and a machine whose turn runs, or has
  answered, is the one the host's session is on;
- `RecordInv`: an answer that passed was given on the files recorded with it, and
  created is said only of a mission that runs;
- `TruthInv`, until a dispatch's outcome is missing from the record (`abandoned`): the
  mission is open only where the record says created or is about to, and an
  answer of the record that fits a machine's latest dispatch is that machine's
  own. Members being asked just now are exempt; that exemption is what makes it
  inductive;
- `CommandOf`, one conjunct per stage of a create: its copy of the record, the
  machines it has been to (`SeedOf`), each member's stage with its report
  (`StageOf`), and what holds once all members are done (`LastOf`). That an
  answer which passed is of its machine's latest dispatch, closed, and on the
  briefing it holds (`ClosedBy`) needs no `TruthInv`; that this machine gave it
  (`GivenBy`) does.

`MissionOnConfirmedBriefingHolds`, `ManifestNamesReadbacksHolds`,
`CreatedMeansRunningHolds` and `MissionApartHolds` follow. `NoStaleTurnHolds` has
an invariant of its own (`SessionInv`: a machine off its session has a create at
the forget that follows its boot), and so has `ArchivedBeforeGoneHolds`
(`ArchiveInv`: the members before the cursor are archived or marked).

**The wait loop.** `WaitInv` is inductive. Besides the types it says
- `LookInv`: how old a look is, against everything that is measured in ages;
- `CountedFairly`: what `observer.json` counts against a node or for the
  darkness of the fleet never exceeds the time that really passed, counted by
  history variables, with what two looks in a second may add; and a node's errors
  were as many as its count needs;
- `ToldOnce`: what was ever told and may be told once is recorded in the log.

The ages are capped, and the caps have to lie far enough beyond the policy's
bounds that a capped age is still larger than every count it is compared with
(`Ranges`). From it follow `NeverGoneEarly`, `BlindnessSpares`, `UnjudgedIsTold`
and `StuckOnce`.

**The setup.** What the proofs take of the starts (`StartsAssumption`) is what
the code reads: a seat has one repository (the model's abstraction), nothing is
lent through a variable (the document has no spelling for it), the history names
parents that came before, the host's refs and loose objects are in it, and the
shell's variables are variables. Paths are sequences of segments
(`PathsAssumption`).

`CredentialInv` says that the plan, and the record made from it, are sound: after
overrides and defaults every grant of a lent seat is a loan, and a seat that
needs a variable was judged against the shell this create read. With what
`MachinesAsRecorded` says of the variables on a machine, `LentIsLent` and
`SeatsAreGiven` follow. `BasesAgree` needs three parts: what the plan resolved so
far is what the host's refs say, as long as the host has not moved; what the
record says agrees among its seats unless it is torn; and machines are at the
commits of the record.

The rest is about histories. `Ancestors` and `Match` are recursive functions;
their lemmas (`AncestorsOf`, `GrownKeeps`, `MatchCovers`) are by induction on the
natural numbers, which is derived from the library's least elements of sets of
finite sets (`LeastNat`, `NatByInduction`) since its own induction rules take an
operator. `HostInv` and `TeamInv` say that the host's repository and every clone
are closed under ancestors, whatever is committed, amended, pruned, fetched or
merged, and that a push under way would bring its member nothing withheld: the
judgment was made on one round trip and holds in the next because a clone only
grows. With `GrantInv` they make up `SetupInv`, from which `SetupTypes`,
`PushesWithholdNothing` and `MatcherMeansBeneath` follow.
`FirstCommitSparesHead` and `ClonesAreClean` need besides that what came to the
host after create's last look is exactly what `late` counts (`FirstCommitInv`,
`CleanInv`); and for the first of them, that from the plan on everything on the
checked-out branch was made since the create began, as long as the path is one
that create means to initialise.

**The ladder.** `LadderProofs` assumes the policy's numbers to be positive
(`PolicyAssumption`), and that the two switches described above are off:
`SameSecond` for all that speaks of ends and messages, `SendIntoTurn` for the
rungs. With either on the statements are false, as two runs show. `BasicInv` says
that messages are numbered in the order of their times and nothing is from the
future; `SecondInv` that at most one turn, the log's last, has ended since the
newest message, and then none is under way. They give `LadderTypes`. For
`ElapsedIsOwn`, `OwnInv` adds up the seconds: those the node
had for itself and those a look would count as held make up the clock; the one
second a tick adds is held in the one sense exactly when it is in the other
(`HeldNow`). `FreshSettles` needs both: no end is taken for the fresh message's,
and the look trips on the elapsed bound no earlier than the node's own time is up.

For `RungsAreBounded`, `RunInv` gives every message whose turn came to an end
that end in the log, later than the message, no later than the next, and not one the
budget refused. Hence a look charges every rung that ran (`RanIsCharged`), however
short the tail it reads, since what the tail does not reach is charged too; and
so a rung is called for only while fewer have ended than the policy allows
(`RungsLeft`). `RungInv` counts the turn under way, which the next end may add.
The turns that vanished have no end, and the theorem adds them on both sides.

The two other results about the ladder's counts need that a look reads the whole
log of the dispatch (`Len(log) <= LogTail`, 16 turn ends in the code). A shorter
tail charges rungs that never ran, and with `LogTail` = 2 TLC shows
`WrittenOffFairly` violated; it also shows fewer quick hand-offs than there were.
`WrittenOffIsFair` is the converse of `RungsAreBounded`: a rung that is charged
had its turn, but for a continue that the orchestrator's `send` put before every
turn end there is. `FairInv` counts those (`Early`) against the sends that were
made, and `ApartInv` keeps the ends of turns apart from each other and from the
messages, without which one end would be read as two turns'.

`HandoffsAreBounded` compares a count kept from turn to turn (`rapid`) with one
recomputed from the files at every look. `StartedInv` says that sessions begin
in order, one in a second. `RowInv` says that the last sessions that are over
make a row of quick ones (`Row`) at least as long as the count; it is this that
a commit ask which did not count as a session, or one session counted twice,
would break. `LimitInv` describes the states at the limit: the last turn handed
off, as the first of its session to do so, and none follows it. There a look
counts every session of the row (`QuickIsRapid`, `LimitCounts`), the node is
written off or has its reply (`LimitStops`), and so nothing goes on.

**Only model-checked.**

- Liveness under fairness (`Concludes`, `JudgmentsAreTold`, `GoneConcluded`),
  which is beyond the proof system.
- `WrittenOffFairly` and `HandoffsBounded` of a dispatch whose log outgrows the
  tail: the first is false there, the second is not proved.
- The properties of the five violation runs, which are false.

## Not modelled, and what would come next

- The rest of `Compute`: the agent that is busy by itself, and the idle bound of
  the orchestrator.
- The operator's own `send`, `restart` and resume of a running mission. They are
  the dispatcher's moves without the noclobber, on a channel one operator writes
  to.
- Two observers at once: an `observe` beside a `wait` on one `observer.json`.
  The model's looks follow one another; the hazard is listed.
- The bound on quick hand-offs for a log longer than the tail.

Left out: the guard and the gate on verbs, each one test on one command without
state; `archive` on its own, which writes to a directory of its own and changes
nothing else; the sandbox tool's command lines and guest scripts, briefs and
packets, which are data or text; `inbox`, `check-inputs`, `read` and `list`,
which print; the coverage map and the viewer, which report on campaigns that are
over.
