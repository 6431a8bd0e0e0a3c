------------------------------- MODULE MCSetup -------------------------------
(* Setup on small profiles and hosts.  Each set of starts varies one thing    *)
(* and keeps the rest ordinary.                                               *)
EXTENDS Setup, TLC

O == "orchestrator"
D == <<"d">>          \* a withheld directory, a path in it, and another path
X == <<"d", "x">>
Y == <<"y">>
Root(path) == <<[parents |-> {}, adds |-> path]>>

MCPaths == {X, Y}
MCDefaults == [elapsed |-> 9, handoffs |-> 3, stall |-> 2, orchestratorStall |-> 4]

Blank == [cli |-> "codex", auth |-> {}, repos |-> {[ref |-> "", withhold |-> {}]},
          snapshots |-> {}, model |-> "", effort |-> "", headerTimeout |-> 0,
          handoffTokens |-> 0, campaignOnly |-> FALSE, fresh |-> FALSE, stall |-> 0,
          imageStores |-> {}, env |-> {}, verb |-> ""]
BlankDefaults == [verb |-> "", engine |-> "", imageStores |-> {}, env |-> {},
                  deadline |-> 0, elapsed |-> 0, handoffs |-> 0, stall |-> 0,
                  handoffTokens |-> 0]
Plain == [document |-> "CampaignProfile", defaults |-> BlankDefaults,
          seats |-> O :> Blank @@ "a" :> Blank]

Repo(ref, decls) == {[ref |-> ref, withhold |-> decls]}
WithSeat(s, seat) == [Plain EXCEPT !.seats[s] = seat]
WithRepos(o, a) == [Plain EXCEPT !.seats[O].repos = o, !.seats["a"].repos = a]

Host(tree, head, main, dev, loose) ==
  [tree |-> tree, head |-> head, refs |-> "main" :> main @@ "dev" :> dev, loose |-> loose]
Ordinary == Host("work", "main", 1, NoCommit, {})

Start == [profile |-> Plain, other |-> Plain, flags |-> FALSE,
          opts |-> [sets |-> {}, credentials |-> "", acceptUpstream |-> FALSE],
          beside |-> {"mission", O, "a"}, name |-> "short", sandbox |-> "pinned",
          host |-> Ordinary, dag |-> Root(Y), shell |-> {},
          edits |-> [host |-> 0, desk |-> 0, team |-> 0], buildStore |-> FALSE]

-----------------------------------------------------------------------------
(* Credentials: every way to grant them, under every verb. *)
Grant(how, what, value) == [how |-> how, what |-> what, value |-> value]
Auths ==
  {{}, {Grant("lend", "login", "claude")}, {Grant("plain", "login", "opencode")},
   {Grant("plain", "key", "openai"), Grant("plain", "login", "codex")},
   {Grant("plain", "env", "KEY_A")}, {Grant("inherit", "env", "KEY_A")},
   {Grant("plain", "env", "KEY_A"), Grant("plain", "env", "KEY_B")},
   {Grant("plain", "env", "KEY_A"), Grant("lend", "key", "openai")},
   {Grant("inherit", "key", "openai"), Grant("lend", "login", "codex")}}
AuthProfile(auth, verb, env) ==
  [WithSeat("a", [Blank EXCEPT !.auth = auth, !.env = env]) EXCEPT
     !.defaults.verb = verb, !.defaults.env = {"KEY_A", "E"}]
Credentialed ==
  {[Start EXCEPT !.profile = AuthProfile(auth, verb, {"KEY_B"}),
                 !.other = AuthProfile({Grant("lend", "login", "codex")}, "", {}),
                 !.opts.credentials = override, !.shell = sh, !.edits.desk = 2] :
     auth \in Auths, verb \in {"", "inherit"}, override \in {"", "lend"},
     sh \in {{}, {"KEY_A"}}}

(* Repositories: what is at the path, and what the seats ask of it. *)
Hosts ==
  {Ordinary, Host("absent", "main", NoCommit, NoCommit, {}),
   Host("files", "main", NoCommit, NoCommit, {}), Host("git", "main", NoCommit, NoCommit, {}),
   Host("git", "dev", 1, NoCommit, {}), Host("work", "dev", 1, NoCommit, {}),
   Host("work", "main", NoCommit, 1, {})}
AtRepos(a, h, path) ==
  [Start EXCEPT !.profile = WithRepos(Repo("", {}), a), !.host = h, !.dag = Root(path),
                !.edits.host = 2]
Heads(h) == {h.refs[b] : b \in Branches} \ {NoCommit}
Repositories ==
  {AtRepos(a, h, Y) : a \in {Repo("", {D}), Repo("main", {}), Repo("dev", {D})}, h \in Hosts}
  \cup {AtRepos(a, h, X) : a \in {Repo("", {D}), Repo("dev", {D})},
                          h \in {h \in Hosts : Heads(h) # {}}}

(* Declarations of up to three segments, over paths of up to four. *)
Words(letters, n) == UNION {[1 .. k -> letters] : k \in 1 .. n}
Withholding ==
  {[Start EXCEPT !.profile = WithRepos(Repo("", {}), Repo("", {decl})), !.dag = Root(path)] :
     decl \in Words({"a", "b", "*", "**"}, 3), path \in Words({"a", "b"}, 4)}

(* Profiles that are refused, each for one reason, and their overrides. *)
Line == [Blank EXCEPT !.handoffTokens = 5, !.stall = 1, !.headerTimeout = 9,
                      !.cli = "opencode", !.model = "slug"]
Engine(value) == {[path |-> "engine", seat |-> "", value |-> value]}
Profiles ==
  {Plain, [Plain EXCEPT !.document = "Campaign"], [Plain EXCEPT !.defaults.verb = "bad"],
   [Plain EXCEPT !.defaults.deadline = -1], [Plain EXCEPT !.seats[O].fresh = TRUE],
   [Plain EXCEPT !.defaults.imageStores = {"bad"}], [Plain EXCEPT !.seats = O :> Blank],
   [Plain EXCEPT !.seats = @ @@ "bad" :> Blank], WithRepos(Repo("", {}), {}),
   WithRepos(Repo("", {}), Repo("", {<<"..">>}))}
  \cup {WithSeat("a", seat) : seat \in
     {Line, [Line EXCEPT !.model = ""], [Line EXCEPT !.headerTimeout = -1],
      [Line EXCEPT !.handoffTokens = -1], [Line EXCEPT !.effort = "bad"],
      [Blank EXCEPT !.cli = "bad"], [Blank EXCEPT !.campaignOnly = TRUE],
      [Blank EXCEPT !.auth = {Grant("plain", "env", "bad")}],
      [Blank EXCEPT !.snapshots = {[tree |-> "file", holds |-> {}, withhold |-> {}]}],
      [Blank EXCEPT !.snapshots = {[tree |-> "directory", holds |-> {X}, withhold |-> {D}]}],
      [Blank EXCEPT !.imageStores = {"/s"}, !.env = {"E"}]}}
Judged ==
  {[Start EXCEPT !.profile = p, !.beside = b, !.name = n] :
     p \in Profiles, b \in {{"mission", O, "a"}, {"mission", O}}, n \in {"short", "long", "bad"}}
  \cup {[Start EXCEPT !.opts = o, !.sandbox = b] :
     o \in [sets : {{}} \cup {Engine(v) : v \in {"podman", "bad"}}
                   \cup {{[path |-> "cli", seat |-> "a", value |-> "claude"]}},
            credentials : {"", "inherit"}, acceptUpstream : BOOLEAN],
     b \in {"pinned", "other"}}

(* Fleets of the flags. *)
Fleet(agents, repos) ==
  FlagProfile([defaults |-> BlankDefaults, seat |-> Blank], "claude", agents, repos, {})
Flagged ==
  {[Start EXCEPT !.profile = Fleet(agents, repos), !.flags = TRUE, !.beside = {},
                 !.opts.credentials = override] :
     agents \in {"a" :> "codex", "a" :> "bad", <<>>}, repos \in {Repo("", {}), {}},
     override \in {"", "inherit"}}

(* Work in a campaign that runs, one of whose agents has paths withheld. *)
Crew == [Fleet("a" :> "codex" @@ "b" :> "codex", Repo("", {})) EXCEPT
           !.seats["a"].repos = Repo("", {D})]
Working ==
  {[Start EXCEPT !.profile = Crew, !.other = Crew, !.beside = @ \cup {"b"},
                 !.edits.team = 4, !.buildStore = build] : build \in BOOLEAN}

MCStarts == Credentialed \cup Repositories \cup Withholding \cup Judged \cup Flagged \cup Working
==============================================================================
