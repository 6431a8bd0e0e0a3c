-------------------------------- MODULE Setup --------------------------------
(***************************************************************************)
(* `validate` and `create` up to the machines: the checks on the profile,  *)
(* the shell and the host's repository, the repository create makes where  *)
(* there is none, the record a later attempt takes up, and the clone and   *)
(* the credential every machine is made with.  The operator works in the   *)
(* repository and the shell between any two steps.  Afterwards the members *)
(* commit, and the orchestrator fetches from them and pushes to them past  *)
(* the fence of withheld paths.                                            *)
(*                                                                         *)
(* One repository stands for all: every seat that has one has this one.    *)
(* What a machine goes through after it is made is Campaign's.             *)
(*                                                                         *)
(* Source: internal/cli/create.go, profile.go, withhold.go, sandbox.go,    *)
(* upstream.go and cmd/cs-campaign-member/dispatcher.go.                   *)
(***************************************************************************)
EXTENDS Seats, Withhold

CONSTANTS
  Starts,       \* profiles with their options, hosts and shells to start from
  Paths,        \* the paths a commit adds
  Defaults,     \* DefaultPolicy and DefaultOrchestratorStallSeconds
  MaxCommits,   \* bound of the model: commits
  MaxCrashes    \* bound of the model: creates that end early

Branches == {"main", "dev"}

(* What is read of a profile.  A seat has one repository, and nothing is    *)
(* lent through a variable.                                                *)
GrantsRead(auth) ==
  \A g \in auth :
    /\ g.what \in {"env", "key", "login"} /\ g.how \in {"plain"} \cup Verbs
    /\ ~(g.what = "env" /\ g.how = "lend")
ReposRead(repos) ==
  /\ \A q, r \in repos : q = r
  /\ \A r \in repos : r.ref \in {""} \cup Branches /\ r.withhold \subseteq Seq(STRING)
ProfileRead(p) ==
  /\ {"defaults", "seats"} \subseteq DOMAIN p
  /\ {"verb", "engine"} \subseteq DOMAIN p.defaults
  /\ \A s \in Seats(p) :
       /\ {"cli", "auth", "verb", "env", "imageStores", "repos"} \subseteq DOMAIN p.seats[s]
       /\ GrantsRead(p.seats[s].auth)
       /\ ReposRead(p.seats[s].repos)

initialRepoBranch == "main"
Trees == {"absent", "empty", "files", "git", "work"}
IsRepo(h) == h.tree \in {"git", "work"}

(* A host's history, and a repository of it: no commit is older than its    *)
(* parents, and no object is there without the commits it stands on.        *)
HistoryRead(d) ==
  /\ d \in Seq([parents : SUBSET Nat, adds : Seq(STRING)])
  /\ \A c \in 1 .. Len(d) : d[c].parents \subseteq 0 .. c - 1
HostRead(h, d) ==
  /\ h \in [tree : Trees, head : Branches, refs : [Branches -> NoCommit .. Len(d)],
            loose : SUBSET (0 .. Len(d))]
  /\ ~IsRepo(h) => h.loose = {} /\ \A b \in Branches : h.refs[b] = NoCommit
  /\ History(d, h.loose) \subseteq h.loose \cup History(d, {h.refs[b] : b \in Branches})

Variables == {"KEY_A", "KEY_B"}

ASSUME StartsAssumption ==
  \A choice \in Starts :
    /\ {"profile", "other", "opts"} \subseteq DOMAIN choice
    /\ ProfileRead(choice.profile) /\ ProfileRead(choice.other)
    /\ HistoryRead(choice.dag) /\ HostRead(choice.host, choice.dag)
    /\ choice.shell \subseteq Variables

ASSUME PathsAssumption == Paths \subseteq Seq(STRING)

VARIABLES
  start,     \* what is chosen: profile or flags, options, files beside it
  host,      \* the repository's path on the host
  dag,       \* every commit there is
  shell,     \* the variables that are set
  record,    \* the campaign's record: the plan that was taken up first
  machines,  \* what every machine was made with, and its clone
  fetched,   \* the orchestrator's refs to the members' branches
  pc, plan,  \* create: where it stands, what it has planned, its shell
  push,      \* the push under way
  edits,     \* bound of the model: what may still be done, on the host,
             \* at the operator's desk, by the team
  crashes,
  late,      \* history: commits that came to the host after the last check
  since      \* history: how many commits there were when this create began, and
             \* whether someone has left the repository without a file since

repo  == <<host, dag, late, since>>
team  == <<machines, fetched, push>>
vars  == <<start, repo, shell, record, team, pc, plan, edits, crashes>>

Nothing == [none |-> TRUE]

-----------------------------------------------------------------------------
(* The host's repository: what is at its path, the branch that is checked   *)
(* out, the branches, and the objects no branch reaches.                    *)

Tip(h) == h.refs[h.head]

RevParse(h, ref) ==
  IF IsRepo(h) THEN h.refs[IF Given(ref) THEN ref ELSE h.head] ELSE NoCommit

Reachable(h) == History(dag, {h.refs[b] : b \in Branches})

(* canInitializeRepo: nothing is there, or nothing but a .git. *)
CanInitialize(h) == h.tree \in {"absent", "empty", "git"}

(* A seat's repository: its commit, or a refusal, or one to be made.        *)
Resolves(h, r) ==
  \/ RevParse(h, r.ref) # NoCommit
  \/ CanInitialize(h) /\ r.ref \in {"", initialRepoBranch}
Initializes(h, r) == RevParse(h, r.ref) = NoCommit
ResolvedCommit(h, r) == IF Initializes(h, r) THEN Initial ELSE RevParse(h, r.ref)

ResolvesRepos(h, p) == \A s \in Seats(p) : \A r \in p.seats[s].repos : Resolves(h, r)
ToInitialize(h, p) == {s \in Seats(p) : \E r \in p.seats[s].repos : Initializes(h, r)}

ResolvesSnapshots(p) ==
  \A s \in Seats(p) : \A snap \in p.seats[s].snapshots : snap.tree = "directory"

HaveRepositories(p) == \A s \in Seats(p) : p.seats[s].repos # {}

(* checkWithheld: of a repository with a declaration, every branch's        *)
(* history is read, and no object may be out of their reach; a snapshot is  *)
(* read as it stands; a repository create will make is passed over.         *)
(* Mutant of CleanOfWithheld: what no branch reaches is not looked for. *)
CleanOfHistory(h, p, initialize) ==
  \A s \in Seats(p) :
    /\ s \notin initialize => \A r \in p.seats[s].repos :
         r.withhold # {} => Withheld(dag, r.withhold, Reachable(h)) = {}
    /\ \A snap \in p.seats[s].snapshots : \A path \in snap.holds : ~Hit(snap.withhold, path)
CleanOfWithheld(h, p, initialize) ==
  \A s \in Seats(p) :
    /\ s \notin initialize => \A r \in p.seats[s].repos :
         r.withhold # {} => Withheld(dag, r.withhold, Reachable(h)) = {} /\ h.loose = {}
    /\ \A snap \in p.seats[s].snapshots : \A path \in snap.holds : ~Hit(snap.withhold, path)

(* The mission and a brief for every seat are beside the profile; a fleet    *)
(* of the flags has neither.                                                 *)
HaveInputs(p) ==
  \/ start.flags
  \/ "mission" \in start.beside /\ Seats(p) \subseteq start.beside

(* Names of groups and sandboxes, and the path of a machine's socket, fit.  *)
FitsMappings(p) ==
  \/ start.name = "short"
  \/ start.name = "long" /\ p.defaults.engine = "podman"

-----------------------------------------------------------------------------
(* validate: the profile as it is written. *)
ValidateAccepts ==
  LET p == ApplyDefaults(start.profile) IN
    /\ ValidProfile(start.profile)
    /\ ResolvesRepos(host, p) /\ ResolvesSnapshots(p)
    /\ CleanOfWithheld(host, p, ToInitialize(host, p))
    /\ HaveInputs(p) /\ HaveRepositories(p)

(* planCampaign and the inputs, for plan and for create: the profile with   *)
(* its overrides.  A fleet of the flags is judged without them too.         *)
Planned == ApplyDefaults(ApplySets(start.profile, CredentialSet(start.opts)))

(* Mutants of PlanJudges: the briefs are left to create; the profile is     *)
(* judged before its overrides.                                             *)
PlanJudgesNoInputs ==
  /\ start.name # "bad" /\ ValidOpts(start.opts)
  /\ start.flags => ValidProfile(start.profile)
  /\ ApplySetsOK(start.profile, CredentialSet(start.opts))
  /\ ResolvesSnapshots(Planned) /\ HaveRepositories(Planned) /\ FitsMappings(Planned)
PlanJudgesWritten ==
  /\ start.name # "bad" /\ ValidOpts(start.opts)
  /\ ValidProfile(start.profile)
  /\ \A set \in CredentialSet(start.opts) : ValidSet(start.profile, set)
  /\ ResolvesSnapshots(Planned) /\ HaveRepositories(Planned) /\ FitsMappings(Planned)
  /\ HaveInputs(Planned)
PlanJudges ==
  /\ start.name # "bad" /\ ValidOpts(start.opts)
  /\ start.flags => ValidProfile(start.profile)
  /\ ApplySetsOK(start.profile, CredentialSet(start.opts))
  /\ ResolvesSnapshots(Planned) /\ HaveRepositories(Planned) /\ FitsMappings(Planned)
  /\ HaveInputs(Planned)

PlanAccepts ==
  /\ PlanJudges /\ ResolvesRepos(host, Planned)
  /\ CleanOfWithheld(host, Planned, ToInitialize(host, Planned))

(* The record a plan becomes: every seat with its commit and its numbers.   *)
BuildCampaign ==
  LET p == plan.profile IN
    [profile |-> p, policy |-> CampaignPolicy(p, Defaults),
     seats |-> [s \in Seats(p) |->
       [commit |-> plan.commits[s],
        stall |-> Stall(p, s, Defaults.orchestratorStall, Defaults.stall),
        line |-> HandoffLine(p, s)]]]

(* gateUpstream: another cs-sandbox than the pinned one stops create, unless *)
(* it is accepted; other tools only warn.                                   *)
GateOpens == start.sandbox = "pinned" \/ start.opts.acceptUpstream

-----------------------------------------------------------------------------
Init ==
  /\ start \in Starts
  /\ host = start.host /\ dag = start.dag /\ shell = start.shell /\ late = {}
  /\ record = Nothing /\ plan = Nothing /\ push = Nothing
  /\ machines = <<>> /\ fetched = <<>>
  /\ since = [commits |-> Len(dag), bare |-> FALSE]
  /\ pc = "idle" /\ edits = start.edits /\ crashes = 0

(* create judges the profile and the files beside it.  Its shell is its     *)
(* own from here on.                                                        *)
CreateStart ==
  /\ pc = "idle" /\ PlanJudges
  /\ plan' = [profile |-> Planned, commits |-> <<>>, initialize |-> {},
              shell |-> shell, torn |-> FALSE]
  /\ pc' = "resolve"
  /\ since' = [commits |-> Len(dag), bare |-> FALSE]
  /\ UNCHANGED <<start, host, dag, late, shell, record, team, edits, crashes>>

(* resolveRepoRefs: one seat after the other asks git for its commit. *)
ResolveSeat(s) ==
  /\ pc = "resolve" /\ s \in Seats(plan.profile) \ DOMAIN plan.commits
  /\ LET r == CHOOSE r \in plan.profile.seats[s].repos : TRUE IN
       /\ Resolves(host, r)
       /\ plan' = [plan EXCEPT
            !.commits = [t \in DOMAIN @ \cup {s} |->
                           IF t = s THEN ResolvedCommit(host, r) ELSE @[t]],
            !.initialize = @ \cup (IF Initializes(host, r) THEN {s} ELSE {})]
  /\ UNCHANGED <<start, repo, shell, record, team, pc, edits, crashes>>

(* The last checks before anything is made.                                 *)
(* Mutant of CreateChecks: the seats without a key are only warned of. *)
CreateChecksWarning ==
  /\ pc = "resolve" /\ DOMAIN plan.commits = Seats(plan.profile)
  /\ CleanOfWithheld(host, plan.profile, plan.initialize) /\ GateOpens
  /\ pc' = "initialize" /\ late' = {}
  /\ UNCHANGED <<start, host, dag, since, shell, record, team, plan, edits, crashes>>
CreateChecks ==
  /\ pc = "resolve" /\ DOMAIN plan.commits = Seats(plan.profile)
  /\ CleanOfWithheld(host, plan.profile, plan.initialize)
  /\ UnsatisfiedKeyEnv(plan.profile, plan.shell) = {} /\ GateOpens
  /\ pc' = "initialize" /\ late' = {}
  /\ UNCHANGED <<start, host, dag, since, shell, record, team, plan, edits, crashes>>

(* initializeRepos, if the plan has a repository to make: the path is       *)
(* looked at again, git init, the first commit under main, HEAD to main.    *)
(* Mutant of GitInit: the path is not looked at again. *)
GitInitAnyway ==
  /\ pc = "initialize" /\ plan.initialize # {}
  /\ pc' = "update-ref"
  /\ host' = IF IsRepo(host) THEN host
             ELSE [host EXCEPT !.tree = "git", !.head = initialRepoBranch]
  /\ UNCHANGED <<start, dag, late, since, shell, record, team, plan, edits, crashes>>
GitInit ==
  /\ pc = "initialize" /\ plan.initialize # {} /\ CanInitialize(host)
  /\ pc' = "update-ref"
  /\ host' = IF IsRepo(host) THEN host
             ELSE [host EXCEPT !.tree = "git", !.head = initialRepoBranch]
  /\ UNCHANGED <<start, dag, late, since, shell, record, team, plan, edits, crashes>>

(* A branch that was there is left without the commits only it had. *)
UpdateRef ==
  /\ pc = "update-ref" /\ pc' = "symbolic-ref"
  /\ LET refs == [host.refs EXCEPT ![initialRepoBranch] = Initial]
         reached == History(dag, {refs[b] : b \in Branches})
     IN host' = [host EXCEPT !.refs = refs,
                             !.loose = @ \cup (Reachable(host) \ reached)]
  /\ UNCHANGED <<start, dag, late, since, shell, record, team, plan, edits, crashes>>

SymbolicRef ==
  /\ pc = "symbolic-ref" /\ pc' = "adopt"
  /\ host' = [host EXCEPT !.head = initialRepoBranch]
  /\ UNCHANGED <<start, dag, late, since, shell, record, team, plan, edits, crashes>>

NoInit ==
  /\ pc = "initialize" /\ plan.initialize = {} /\ pc' = "adopt"
  /\ UNCHANGED <<start, repo, shell, record, team, plan, edits, crashes>>

(* A record that is still being created is taken up as it was planned then. *)
(* Mutant of Adopt: the new plan takes its place. *)
AdoptNewPlan ==
  /\ pc = "adopt"
  /\ record' = [campaign |-> BuildCampaign, torn |-> plan.torn]
  /\ pc' = "provision"
  /\ UNCHANGED <<start, repo, shell, team, plan, edits, crashes>>
Adopt ==
  /\ pc = "adopt"
  /\ record' = IF record # Nothing THEN record
               ELSE [campaign |-> BuildCampaign, torn |-> plan.torn]
  /\ pc' = "provision"
  /\ UNCHANGED <<start, repo, shell, team, plan, edits, crashes>>

(* A machine is made for a seat that has none, with a clone of all the      *)
(* host's repository holds, checked out at the commit of the plan, with the  *)
(* credential the create's own shell yields, and with the variables of that *)
(* shell that the profile's env names.  (An entry KEY=VALUE of it names     *)
(* nothing of the shell.)                                                   *)
Holds(h) == Reachable(h) \cup h.loose

(* Mutant of CreateArgs: the clone has what a fetch would bring. *)
CreateArgsFetched(s) ==
  LET seat == record.campaign.profile.seats[s]
      args == record.campaign.seats[s]
      grants == AuthArgs(seat, plan.shell)
  IN [base |-> args.commit, head |-> args.commit, store |-> Reachable(host),
      origin |-> {host.refs[b] : b \in Branches},
      orchestrator |-> NoCommit, verb |-> seat.verb, grants |-> grants,
      env |-> seat.env \cap plan.shell,
      file |-> PrepareAuth(seat, plan.shell), config |-> ModelConfig(seat),
      stall |-> args.stall, line |-> args.line]
CreateArgs(s) ==
  LET seat == record.campaign.profile.seats[s]
      args == record.campaign.seats[s]
      grants == AuthArgs(seat, plan.shell)
  IN [base |-> args.commit, head |-> args.commit, store |-> Holds(host),
      origin |-> {host.refs[b] : b \in Branches},
      orchestrator |-> NoCommit, verb |-> seat.verb, grants |-> grants,
      env |-> seat.env \cap plan.shell,
      file |-> PrepareAuth(seat, plan.shell), config |-> ModelConfig(seat),
      stall |-> args.stall, line |-> args.line]

Provision(s) ==
  /\ pc = "provision" /\ s \in Seats(record.campaign.profile) \ DOMAIN machines
  /\ record.campaign.seats[s].commit \in Holds(host)
  /\ machines' = [t \in DOMAIN machines \cup {s} |-> IF t = s THEN CreateArgs(s) ELSE machines[t]]
  /\ fetched' = [t \in DOMAIN fetched \cup {s} |-> NoCommit]
  /\ UNCHANGED <<start, repo, shell, record, push, pc, plan, edits, crashes>>

CreateDone ==
  /\ pc = "provision" /\ DOMAIN machines = Seats(record.campaign.profile)
  /\ pc' = "running" /\ plan' = Nothing
  /\ UNCHANGED <<start, repo, shell, record, team, edits, crashes>>

(* An error, a refusal or a crash at any point; the next create starts anew. *)
CreateEnds ==
  /\ pc \in {"resolve", "initialize", "update-ref", "symbolic-ref", "adopt", "provision"}
  /\ crashes < MaxCrashes /\ crashes' = crashes + 1
  /\ pc' = "idle" /\ plan' = Nothing
  /\ UNCHANGED <<start, repo, shell, record, team, edits>>

-----------------------------------------------------------------------------
(* The operator, until the campaign runs. *)

Edit(who) == edits[who] > 0 /\ edits' = [edits EXCEPT ![who] = @ - 1]
AddCommit(parents, path) ==
  Len(dag) < MaxCommits /\ dag' = Append(dag, [parents |-> parents, adds |-> path])

(* The host moves while a plan is being resolved. *)
Tear == plan' = IF pc = "resolve" THEN [plan EXCEPT !.torn = TRUE] ELSE plan

(* An edit leaves the path of a repository with files, or with its .git alone. *)
Leaves(tree) == since' = [since EXCEPT !.bare = @ \/ tree = "git"]

(* A commit need not leave a file: `git commit --allow-empty`, or one that   *)
(* removes them all.                                                        *)
Commit ==
  /\ pc # "running" /\ Edit("host") /\ IsRepo(host)
  /\ \E path \in Paths : AddCommit({Tip(host)} \ {NoCommit}, path)
  /\ \E tree \in {"git", "work"} :
       /\ host' = [host EXCEPT !.tree = tree, !.refs[host.head] = Len(dag')]
       /\ Leaves(tree)
  /\ late' = late \cup {Len(dag')} /\ Tear
  /\ UNCHANGED <<start, shell, record, team, pc, crashes>>

(* An amend leaves the commit it replaces behind, in nobody's reach. *)
Amend ==
  /\ pc # "running" /\ Edit("host") /\ IsRepo(host) /\ Tip(host) > 0
  /\ \E path \in Paths : AddCommit(dag[Tip(host)].parents, path)
  /\ LET refs == [host.refs EXCEPT ![host.head] = Len(dag')] IN
       \E tree \in {"git", "work"} :
         /\ host' = [host EXCEPT !.tree = tree, !.refs = refs,
                      !.loose = @ \cup (Reachable(host) \
                                  UNION {Ancestors(dag', refs[b]) : b \in Branches})]
         /\ Leaves(tree)
  /\ late' = late \cup {Len(dag')} /\ Tear
  /\ UNCHANGED <<start, shell, record, team, pc, crashes>>

(* Files are written or removed, and a repository is made by hand. *)
ChangeFiles ==
  /\ pc # "running" /\ Edit("host")
  /\ \E tree \in (IF IsRepo(host) THEN {"git", "work"} ELSE {"absent", "empty", "files"})
                \ {host.tree} :
       host' = [host EXCEPT !.tree = tree] /\ Leaves(tree)
  /\ UNCHANGED <<start, dag, late, shell, record, team, pc, plan, crashes>>
InitByHand ==
  /\ pc # "running" /\ Edit("host") /\ ~IsRepo(host)
  /\ \E head \in Branches :
       host' = [host EXCEPT !.head = head,
                            !.tree = IF @ = "files" THEN "work" ELSE "git"]
  /\ UNCHANGED <<start, dag, late, since, shell, record, team, pc, plan, crashes>>

Prune ==
  /\ pc # "running" /\ host.loose # {}
  /\ host' = [host EXCEPT !.loose = {}]
  /\ UNCHANGED <<start, dag, late, since, shell, record, team, pc, plan, edits, crashes>>

SetVariable ==
  /\ pc # "running" /\ Edit("desk")
  /\ \E k \in Variables :
       shell' = IF k \in shell THEN shell \ {k} ELSE shell \cup {k}
  /\ UNCHANGED <<start, repo, record, team, pc, plan, crashes>>

EditProfile ==
  /\ pc # "running" /\ Edit("desk") /\ start.other # start.profile
  /\ start' = [start EXCEPT !.profile = start.other]
  /\ UNCHANGED <<repo, shell, record, team, pc, plan, crashes>>

-----------------------------------------------------------------------------
(* The campaign runs.  A member's branch is its head.  The orchestrator's    *)
(* clone gets the members' work by fetch, and a member gets history by push  *)
(* alone, under a ref of its own.  The entry a push writes to the log is     *)
(* left out: nothing here reads it.                                          *)

Orchestrator == machines["orchestrator"]
Refs(m) == ({m.head, m.orchestrator} \cup m.origin) \ {NoCommit}

(* A member commits, on top of what it has or in place of its last commit. *)
Work(s) ==
  /\ pc = "running" /\ Edit("team") /\ s \in DOMAIN machines
  /\ \E path \in Paths :
       \/ AddCommit({machines[s].head}, path)
       \/ machines[s].head # machines[s].base /\ AddCommit(dag[machines[s].head].parents, path)
  /\ machines' = [machines EXCEPT ![s].head = Len(dag'), ![s].store = @ \cup {Len(dag')}]
  /\ UNCHANGED <<start, host, late, since, shell, record, fetched, push, pc, plan, crashes>>

(* takeIntoStore: a build store's fetch is merged at once. *)
Merge(c, has) ==
  LET Take(head) == [has EXCEPT !.head = head, !.store = @ \cup {head}] IN
    \/ /\ c \in Ancestors(dag, has.head)
       /\ dag' = dag /\ machines' = [machines EXCEPT !["orchestrator"] = has]
    \/ /\ has.head \in Ancestors(dag, c) \ {c}
       /\ dag' = dag /\ machines' = [machines EXCEPT !["orchestrator"] = Take(c)]
    \/ /\ c \notin Ancestors(dag, has.head) /\ has.head \notin Ancestors(dag, c)
       /\ AddCommit({has.head, c}, <<>>)
       /\ machines' = [machines EXCEPT !["orchestrator"] = Take(Len(dag'))]

(* fetch takes a member's branch, fast forward only. *)
Fetch(a) ==
  /\ pc = "running" /\ Edit("team") /\ a \in AgentNames(record.campaign.profile)
  /\ fetched[a] # machines[a].head
  /\ fetched[a] = NoCommit \/ fetched[a] \in Ancestors(dag, machines[a].head)
  /\ fetched' = [fetched EXCEPT ![a] = machines[a].head]
  /\ LET c == machines[a].head
         has == [Orchestrator EXCEPT !.store = @ \cup Ancestors(dag, c)]
     IN IF start.buildStore THEN Merge(c, has)
        ELSE dag' = dag /\ machines' = [machines EXCEPT !["orchestrator"] = has]
  /\ UNCHANGED <<start, host, late, since, shell, record, push, pc, plan, crashes>>

Declared(a) == UNION {r.withhold : r \in record.campaign.profile.seats[a].repos}

(* heldByMember: the member's refs, as far as the orchestrator's clone       *)
(* knows the commits.                                                        *)
(* Mutant of HeldByMember: what the orchestrator has had from anyone. *)
HeldByAnyone(a) ==
  UNION {Refs(machines[s]) : s \in DOMAIN machines} \cap Orchestrator.store
HeldByMember(a) == Refs(machines[a]) \cap Orchestrator.store

Newly(c, held) == Ancestors(dag, c) \ History(dag, held)

(* push of any commit of the orchestrator's clone: what it would newly       *)
(* deliver is judged first, if the member has anything withheld ...          *)
PushStart(a) ==
  /\ pc = "running" /\ Edit("team") /\ push = Nothing
  /\ a \in AgentNames(record.campaign.profile)
  /\ \E c \in Orchestrator.store :
       /\ Declared(a) # {} => Withheld(dag, Declared(a), Newly(c, HeldByMember(a))) = {}
       /\ push' = [to |-> a, commit |-> c]
  /\ UNCHANGED <<start, repo, shell, record, machines, fetched, pc, plan, crashes>>

(* ... and then git carries it, if its ref moves forward. *)
PushSend ==
  /\ push # Nothing
  /\ LET a == push.to
         c == push.commit
         moves == machines[a].orchestrator \in {NoCommit} \cup Ancestors(dag, c)
     IN machines' = IF ~moves THEN machines ELSE
          [machines EXCEPT ![a].orchestrator = c,
             ![a].store = @ \cup Ancestors(dag, c)]
  /\ push' = Nothing
  /\ UNCHANGED <<start, repo, shell, record, fetched, pc, plan, edits, crashes>>

(* The push is cut short before it carried anything. *)
PushEnds ==
  /\ push # Nothing /\ push' = Nothing
  /\ UNCHANGED <<start, repo, shell, record, machines, fetched, pc, plan, edits, crashes>>

-----------------------------------------------------------------------------
Create ==
  \/ CreateStart \/ CreateChecks \/ GitInit \/ UpdateRef \/ SymbolicRef \/ NoInit
  \/ Adopt \/ CreateDone \/ CreateEnds
  \/ pc = "resolve" /\ \E s \in Seats(plan.profile) : ResolveSeat(s)
  \/ pc = "provision" /\ \E s \in Seats(record.campaign.profile) : Provision(s)

Operator ==
  Commit \/ Amend \/ ChangeFiles \/ InitByHand \/ Prune \/ SetVariable \/ EditProfile

Team ==
  \/ \E s \in DOMAIN machines : Work(s) \/ Fetch(s) \/ PushStart(s)
  \/ PushSend \/ PushEnds

Next == Create \/ Operator \/ Team

Spec == Init /\ [][Next]_vars

-----------------------------------------------------------------------------
(* Properties *)

Grants ==
  [what : {"env", "key", "login"}, how : Verbs,
   value : Variables \cup Providers \cup CLIs]

(* Every variable keeps to its kind, and every commit a name of something    *)
(* stands for is there.                                                      *)
TypeOK ==
  /\ host.head \in Branches /\ host.loose \subseteq 0 .. Len(dag)
  /\ \A b \in Branches : host.refs[b] \in NoCommit .. Len(dag)
  /\ \A c \in DOMAIN dag : dag[c].parents \subseteq 0 .. c - 1
  /\ late \subseteq DOMAIN dag /\ since.commits \in 0 .. Len(dag) /\ since.bare \in BOOLEAN
  /\ DOMAIN machines # {} =>
       record # Nothing /\ DOMAIN machines \subseteq Seats(record.campaign.profile)
  /\ DOMAIN fetched = DOMAIN machines
  /\ \A s \in DOMAIN machines :
       LET m == machines[s] IN
         /\ m.store \subseteq 0 .. Len(dag) /\ m.base \in m.store
         /\ Refs(m) \subseteq m.store /\ History(dag, Refs(m)) \subseteq m.store
         /\ m.grants \subseteq Grants /\ m.env \subseteq Variables
  /\ pc \in {"idle", "resolve", "initialize", "update-ref", "symbolic-ref", "adopt",
             "provision", "running"}
  /\ push # Nothing => pc = "running" /\ push.commit \in Orchestrator.store

(* R88: a profile that create can be given without overrides, under a name   *)
(* that fits, is refused by validate exactly when its plan is refused.  What *)
(* create asks on top, a key for every seat and the pinned cs-sandbox, does  *)
(* not come into it.                                                         *)
ValidateIsPlan ==
  ~start.flags /\ start.opts.sets = {} /\ start.opts.credentials = ""
  /\ FitsMappings(Planned) /\ start.name # "bad" => (ValidateAccepts <=> PlanAccepts)

(* A machine of a lent seat is given no credential of its own: no variable,  *)
(* key or login for a copy, and of create's environment no more than the     *)
(* profile's env names for that very seat (the sleeps between polls and the  *)
(* length of a wait apart), whatever the overrides and the edits of the      *)
(* profile between the create that made the record and the one that resumes. *)
LentHoldsNoSecret ==
  \A s \in DOMAIN machines :
    machines[s].verb = "lend" =>
      /\ \A g \in machines[s].grants : g.how = "lend"
      /\ machines[s].env \subseteq record.campaign.profile.seats[s].env

(* No machine is made without a credential for a seat that declares one: the *)
(* shell is judged by the same create that makes the machine, however often  *)
(* it changes between attempts.  Not so when the profile was edited between  *)
(* them: the record's seats are made and the new profile's are judged.       *)
SeatHasCredential ==
  [][\A s \in DOMAIN machines' \ DOMAIN machines :
       plan.profile = record.campaign.profile =>
         \/ record.campaign.profile.seats[s].auth = {}
         \/ machines'[s].grants # {}]_vars

(* Seats given the repository at one ref are made at one commit, through     *)
(* every resumed create and every commit on the host, unless the host moved  *)
(* while the record's plan was being resolved, seat by seat.                 *)
OneBase ==
  record # Nothing /\ ~record.torn =>
    \A s, t \in DOMAIN machines :
      {r.ref : r \in record.campaign.profile.seats[s].repos}
        = {r.ref : r \in record.campaign.profile.seats[t].repos}
      => machines[s].base = machines[t].base

(* The first commit of a repository create makes takes from the branch that  *)
(* is checked out no commit that was on it when this create began; and of    *)
(* those made since, only such as came after its last checks, unless someone *)
(* has left the repository without a file in the meantime: the path is       *)
(* looked at again for files, not for commits.  (A branch that is not checked *)
(* out, in a repository without files, it does overwrite; the operator       *)
(* switches no branches here.)                                               *)
InitSparesHead ==
  [][pc = "update-ref" /\ pc' = "symbolic-ref" /\ host.head = initialRepoBranch =>
       LET lost == Reachable(host) \ History(dag, {host'.refs[b] : b \in Branches}) IN
         /\ \A c \in lost : c > since.commits
         /\ since.bare \/ lost \subseteq late]_vars

(* A machine's clone holds a commit that adds a withheld path only if it     *)
(* came to the host after create's last look, or the repository is one       *)
(* create made itself and did not look at, or the profile was edited between *)
(* the attempt that made the record and the one that looked.                 *)
ClonesHoldNothingWithheld ==
  [][\A s \in DOMAIN machines' \ DOMAIN machines :
       s \notin plan.initialize /\ plan.profile = record.campaign.profile =>
         Withheld(dag, Declared(s), machines'[s].store) \subseteq late]_vars

(* No push brings a member a commit that adds a path withheld from it, by    *)
(* whatever route the orchestrator came to have that commit: a fetch from    *)
(* another member, a merge, its own work.                                    *)
NoWithheldByPush ==
  [][push # Nothing /\ push' = Nothing =>
       Withheld(dag, Declared(push.to),
                machines'[push.to].store \ machines[push.to].store) = {}]_vars

(* A declaration withholds what a commit adds exactly when its segments can  *)
(* be laid along a beginning of that path; and what it withholds, it does    *)
(* followed by "**", too.                                                    *)
MatchMeansBeneath ==
  \A s \in Seats(start.profile) : \A r \in start.profile.seats[s].repos :
    \A decl \in r.withhold, c \in DOMAIN dag :
      /\ Match(decl, dag[c].adds) <=> CoversPrefix(decl, dag[c].adds)
      /\ Match(decl, dag[c].adds) <=> Match(Append(decl, "**"), dag[c].adds)
==============================================================================
