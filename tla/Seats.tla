-------------------------------- MODULE Seats --------------------------------
(***************************************************************************)
(* What a campaign's profile says of every seat, the orchestrator's and    *)
(* the agents', and what becomes of it: which profiles are refused, how    *)
(* defaults and overrides reach a seat, which credential a machine is made *)
(* with, and which numbers it is given.  Everything here is a function of  *)
(* the profile; Setup is the command that uses it.                         *)
(*                                                                         *)
(* A credential is granted by a set of grants.  `what` is granted, and     *)
(* `how` is the spelling: the plain one takes the campaign's verb, the     *)
(* other two are verbs of their own.  An environment grant names a         *)
(* variable of the shell create runs in; there is none to lend.            *)
(*                                                                         *)
(* Source: internal/cli/profile.go, create.go, sandbox.go and              *)
(* internal/model/model.go, internal/protocol/protocol.go.                 *)
(***************************************************************************)
EXTENDS Integers, FiniteSets

CLIs      == {"claude", "codex", "opencode"}
Providers == {"anthropic", "openai", "fireworks"}
Verbs     == {"lend", "inherit"}
Lendable(cli) == cli \in {"claude", "codex"}

(* "" is a field the profile leaves out; "bad" is one no rule accepts. *)
Given(field) == field # ""

-----------------------------------------------------------------------------
(* model.Auth *)

Granted(auth, what) == {g.value : g \in {x \in auth : x.what = what}}
APIKeyEnvs(auth)  == Granted(auth, "env")
APIKeys(auth)     == Granted(auth, "key")
AgentLogins(auth) == Granted(auth, "login")

Spells(auth, how) == \E g \in auth : g.how = how /\ ~(how = "plain" /\ g.what = "env")

DeclaredCredentials(auth) ==
  IF Spells(auth, "lend") THEN "lend"
  ELSE IF Spells(auth, "inherit") THEN "inherit" ELSE ""

(* The verb of one seat: its own spelling, the campaign's, lend.             *)
Credentials(defaults, seat) ==
  IF Given(DeclaredCredentials(seat.auth)) THEN DeclaredCredentials(seat.auth)
  ELSE IF Given(defaults.verb) THEN defaults.verb
  ELSE "lend"

ValidSpelling(auth) ==
  /\ ~(Spells(auth, "lend") /\ Spells(auth, "inherit"))
  /\ ~(Spells(auth, "plain") /\ (Spells(auth, "lend") \/ Spells(auth, "inherit")))

(* A grant that the verb of its seat cannot carry out is refused. *)
ValidAuth(auth, verb) ==
  /\ ValidSpelling(auth)
  /\ "bad" \notin APIKeyEnvs(auth)
  /\ verb = "lend" => ~\E g \in auth : g.what = "env" /\ g.how = "plain"
  /\ APIKeys(auth) \subseteq Providers /\ AgentLogins(auth) \subseteq CLIs
  /\ verb = "lend" => \A family \in AgentLogins(auth) : Lendable(family)

-----------------------------------------------------------------------------
(* validateProfile *)

(* A slug names its provider; a plain model does not. *)
ValidHeaderTimeout(seat) ==
  \/ seat.headerTimeout = 0
  \/ seat.headerTimeout > 0 /\ seat.cli = "opencode" /\ seat.model = "slug"

ValidModelConfig(seat) ==
  /\ seat.model # "bad"
  /\ ValidHeaderTimeout(seat)
  /\ Given(seat.effort) =>
       seat.effort # "bad" /\ ~(seat.cli = "opencode" /\ ~Given(seat.model))

(* A seat carries a stall, a context line and the fresh-session switch only. *)
ValidMemberPolicy(seat) == seat.handoffTokens >= 0 /\ ~seat.campaignOnly

(* No declaration of a withheld path names the whole tree or leaves it. *)
Normal(decl) ==
  /\ decl # <<>> /\ decl # <<"**">>
  /\ \A i \in DOMAIN decl : decl[i] \notin {"", ".", ".."}
ValidWithhold(seat) ==
  \A source \in seat.repos \cup seat.snapshots : \A decl \in source.withhold : Normal(decl)

ValidImageStores(stores) == "bad" \notin stores

ValidSeat(defaults, seat) ==
  /\ seat.cli \in CLIs
  /\ ValidAuth(seat.auth, Credentials(defaults, seat))
  /\ ValidModelConfig(seat) /\ ValidMemberPolicy(seat) /\ ValidWithhold(seat)
  /\ ValidImageStores(seat.imageStores)

(* "bad" is a name that is no DNS label; the roster is a function of names. *)
Seats(p) == DOMAIN p.seats
AgentNames(p) == Seats(p) \ {"orchestrator"}

ValidProfile(p) ==
  /\ p.document = "CampaignProfile"
  /\ "orchestrator" \in Seats(p) /\ AgentNames(p) # {} /\ "bad" \notin Seats(p)
  /\ ~p.seats["orchestrator"].fresh
  /\ \A s \in Seats(p) : ValidSeat(p.defaults, p.seats[s])
  /\ ValidImageStores(p.defaults.imageStores)
  /\ p.defaults.verb \in Verbs \cup {""}
  /\ p.defaults.deadline >= 0

(* A profile of the fleet flags: every seat has the one repository and the  *)
(* one snapshot, and nothing else.                                          *)
FlagProfile(blank, orchestrator, agents, repos, snapshots) ==
  [document |-> "CampaignProfile", defaults |-> [blank.defaults EXCEPT !.engine = "firecracker"],
   seats |-> [s \in DOMAIN agents \cup {"orchestrator"} |->
     [blank.seat EXCEPT !.cli = IF s = "orchestrator" THEN orchestrator ELSE agents[s],
                        !.repos = repos, !.snapshots = snapshots]]]

-----------------------------------------------------------------------------
(* Overrides and defaults *)

(* One --set: a path of the profile, and a value.  Any other path, and a    *)
(* value its path does not take, is an error.  The two paths of resources   *)
(* are left out: nothing else reads them.                                   *)
ValidSet(p, set) ==
  \/ set.path = "engine" /\ set.value \in {"firecracker", "podman"}
  \/ set.path = "credentials" /\ set.value \in Verbs
  \/ set.path = "cli" /\ set.seat \in Seats(p) /\ set.value \in CLIs

Override(p, set) ==
  CASE set.path = "engine"      -> [p EXCEPT !.defaults.engine = set.value]
    [] set.path = "credentials" -> [p EXCEPT !.defaults.verb = set.value]
    [] set.path = "cli"         -> [p EXCEPT !.seats[set.seat].cli = set.value]

(* --credentials is one more --set, refused beside another of its path. *)
CredentialSet(opts) ==
  IF opts.credentials = "" THEN opts.sets
  ELSE opts.sets \cup {[path |-> "credentials", seat |-> "", value |-> opts.credentials]}
ValidOpts(opts) ==
  opts.credentials # "" => \A set \in opts.sets : set.path # "credentials"

(* At most one override is given of a path, so their order does not matter. *)
ApplySets(p, sets) ==
  LET After(path, q) == IF \E s \in sets : s.path = path
                        THEN Override(q, CHOOSE s \in sets : s.path = path) ELSE q
  IN After("engine", After("credentials", After("cli", p)))

ApplySetsOK(p, sets) ==
  (\A set \in sets : ValidSet(p, set)) /\ ValidProfile(ApplySets(p, sets))

OrElse(own, default) == IF own = {} THEN default ELSE own

(* A seat that names an environment or stores of its own opts out of the    *)
(* campaign's; nothing is merged.                                           *)
ApplyDefaults(p) ==
  [p EXCEPT
    !.defaults.engine = IF Given(@) THEN @ ELSE "firecracker",
    !.defaults.verb = IF Given(@) THEN @ ELSE "lend",
    !.seats = [s \in Seats(p) |->
       [p.seats[s] EXCEPT !.verb = Credentials(p.defaults, p.seats[s]),
                          !.env = OrElse(@, p.defaults.env),
                          !.imageStores = OrElse(@, p.defaults.imageStores)]]]

-----------------------------------------------------------------------------
(* What a seat's machine is made with *)

(* The first variable of its grant that is set, by their order. *)
SelectedAPIKey(seat, shell) ==
  LET set == APIKeyEnvs(seat.auth) \cap shell IN
    IF set = {} THEN "" ELSE CHOOSE k \in set : TRUE

(* One credential, never a blend: the variable, else a key, else a login.   *)
AuthArgs(seat, shell) ==
  LET verb == IF seat.verb = "inherit" THEN "inherit" ELSE "lend"
      All(what) == {[what |-> what, how |-> verb, value |-> v] : v \in Granted(seat.auth, what)}
  IN IF SelectedAPIKey(seat, shell) # ""
     THEN {[what |-> "env", how |-> "inherit", value |-> SelectedAPIKey(seat, shell)]}
     ELSE IF APIKeys(seat.auth) # {} THEN All("key") ELSE All("login")

(* A seat is bare when its only grants are variables and none is set. *)
UnsatisfiedKeyEnv(p, shell) ==
  {s \in Seats(p) :
     LET seat == p.seats[s] IN
       /\ APIKeyEnvs(seat.auth) # {}
       /\ APIKeys(seat.auth) = {} /\ AgentLogins(seat.auth) = {}
       /\ SelectedAPIKey(seat, shell) = ""}

(* codex and opencode read a variable's key from a file, so one is written  *)
(* in the machine; a lent or copied grant is placed by the sandbox.         *)
PrepareAuth(seat, shell) ==
  SelectedAPIKey(seat, shell) # "" /\ seat.cli \in {"codex", "opencode"}

(* What is written to the CLI's own configuration, and recorded then.       *)
ModelConfig(seat) ==
  [model |-> seat.model, effort |-> seat.effort,
   headerTimeout |-> IF seat.cli = "opencode" THEN seat.headerTimeout ELSE 0]

(* The numbers of a seat: its own, else the campaign's, else the built-in   *)
(* one.  There is no built-in context line.                                 *)
Stall(p, s, orchestratorStall, agentStall) ==
  IF p.seats[s].stall > 0 THEN p.seats[s].stall
  ELSE IF p.defaults.stall > 0 THEN p.defaults.stall
  ELSE IF s = "orchestrator" THEN orchestratorStall ELSE agentStall

HandoffLine(p, s) ==
  IF p.seats[s].handoffTokens > 0 THEN p.seats[s].handoffTokens
  ELSE p.defaults.handoffTokens

(* The campaign's policy: every number the profile leaves at zero is filled *)
(* in, the elapsed bound from the deadline, and the bound on hand-offs only *)
(* when some seat has a line.                                               *)
CampaignPolicy(p, default) ==
  [elapsed |-> IF p.defaults.elapsed > 0 THEN p.defaults.elapsed
               ELSE IF p.defaults.deadline > 0 THEN p.defaults.deadline ELSE default.elapsed,
   handoffs |-> IF p.defaults.handoffs = 0 /\ \E s \in Seats(p) : HandoffLine(p, s) > 0
                THEN default.handoffs ELSE p.defaults.handoffs]
==============================================================================
