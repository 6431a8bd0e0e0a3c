-------------------------------- MODULE Wait --------------------------------
(***************************************************************************)
(* The orchestrator's `wait` over a fleet: what one look learns of every   *)
(* agent, what it remembers of the agents that do not answer, which moves  *)
(* it makes, and which judgments it returns with.  The model goes on with  *)
(* its own commands (send, accept) while a wait runs in the background,    *)
(* and a wait may be killed at any point, as a CLI's bound on tool calls   *)
(* does.                                                                   *)
(*                                                                         *)
(* Time is measured from what the code compares with: every clock below is *)
(* an age or a rest that stops at the largest value that matters, so there *)
(* is no last second and waits go on for ever.                             *)
(*                                                                         *)
(* Source: cmd/cs-campaign-member/dispatcher.go and                        *)
(* internal/protocol/artifacts.go.  What makes a node stopped, refused or  *)
(* stuck is NodeState's and Ladder's; here it is the node's `cond`.        *)
(***************************************************************************)
EXTENDS Integers, FiniteSets

CONSTANTS
  Agents,        \* the fleet, as numbers: the loop goes by sorted names
  MaxDispatch,   \* bound of the model: dispatches of one agent
  PollSeconds,   \* Policy.PollSeconds
  GoneAfter,     \* Policy.BlindProbes * Policy.PollSeconds
  ProviderWait,  \* Policy.ProviderWaitSeconds
  Chunk,         \* WaitChunk: how long one wait blocks
  MaxLook,       \* bound of the model: how long the probes of a look take
  MaxEvents      \* bound of the model: turn ends, links, sends, kills, observes

ASSUME WaitAssumption ==
  /\ Agents \subseteq Nat /\ IsFiniteSet(Agents) /\ Agents # {}
  /\ MaxDispatch \in Nat \ {0, 1} /\ PollSeconds \in Nat \ {0}
  /\ GoneAfter \in Nat \ {0} /\ ProviderWait \in Nat
  /\ Chunk \in Nat /\ MaxLook \in Nat /\ MaxEvents \in Nat

(* The conditions a probe finds an agent in.  A refused agent is held until *)
(* its next try is due; a stuck one is out of rungs or past its bound.      *)
Conds == {"working", "stopped", "held", "due", "stuck", "replied"}
Links == {"up", "errors", "silent"}   \* silent: the probe missed its bound

(* Dispatch 1 is the readback, which create judged.  A machine that is gone *)
(* has no dispatch: ReportedKey's "-".                                      *)
Readback == 1
NoDispatch == 0
Node   == [disp: 1 .. MaxDispatch, cond: Conds]
Entry  == [kind: {"accepted", "reported"}, node: Agents, key: 0 .. MaxDispatch]
Answer == [ans: {"none"} \cup Links, disp: 0 .. MaxDispatch, cond: Conds \cup {"-"}]
NoAnswer(ans) == [ans |-> ans, disp |-> NoDispatch, cond |-> "-"]

VARIABLES
  node, link,    \* every agent, and the way to its machine
  log,           \* output/log.jsonl on the orchestrator's machine
  mem,           \* locks/observer.json, with LastLook as an age
  cmd, pc,       \* the command, wait or observe, and where it stands
  seen,          \* the look: what each probe answered
  entries,       \* the look: the log as it read it
  lookAge,       \* the look: seconds since it read the clock
  left,          \* seconds to the wait's deadline, -1 when it is past
  rest,          \* seconds left to sleep
  moves, due,    \* agents a move is still due for; stuck judgments to record
  told,          \* the judgments the wait printed
  events,        \* what is left of MaxEvents
  everTold,      \* history: every node-stuck judgment a wait returned with
  unseenFor,     \* history: seconds since the start of the look that saw the agent last
  erredLooks,    \* history: the looks since that came back with an error
  darkFor,       \* history: seconds since the start of a look any agent answered
  crowded        \* history: two looks were in one second

world   == <<node, link>>
look    == <<seen, entries, lookAge, moves, due>>
clocks  == <<left, rest>>
history == <<everTold, unseenFor, erredLooks, darkFor, crowded>>
vars    == <<world, log, mem, cmd, pc, look, clocks, told, events, history>>

Min2(a, b) == IF a <= b THEN a ELSE b
Max2(a, b) == IF a >= b THEN a ELSE b

(* The ages beyond which nothing below can tell two of them apart. *)
StepCap == 2 * PollSeconds
LookCap == StepCap + MaxLook
AgeCap  == Max2(GoneAfter, ProviderWait) + MaxLook + 1
Never   == -1

-----------------------------------------------------------------------------
(* What is read from the log. *)

(* Mutant of AcceptedFor: a bare dispatch, whoever's it is. *)
AcceptedForAnyNode(es, a) == {e.key : e \in {x \in es : x.kind = "accepted"}}
AcceptedFor(es, a) ==
  {e.key : e \in {x \in es : x.kind = "accepted" /\ x.node = a}}

JudgedFor(es, a) == AcceptedFor(es, a) \cup {Readback}

(* Mutant of ReportedFor: the same, for the reported entries. *)
ReportedForAnyNode(es, a) == {e.key : e \in {x \in es : x.kind = "reported"}}
ReportedFor(es, a) ==
  {e.key : e \in {x \in es : x.kind = "reported" /\ x.node = a}}

(* What the look makes of an agent: its state, with the dispatch it names. *)
(* An agent that did not answer is unreachable, or stuck without one.      *)
Observed(a) ==
  LET s == seen[a] IN
    IF s.ans # "up"
    THEN [state |-> IF mem.unseen[a] >= GoneAfter THEN "stuck" ELSE "unreachable",
          disp |-> NoDispatch]
    ELSE [state |-> IF s.cond = "replied" /\ s.disp \in JudgedFor(entries, a)
                    THEN "free" ELSE s.cond,
          disp |-> s.disp]

Judgment(a) == [node |-> a, state |-> Observed(a).state, key |-> Observed(a).disp]

(* The judgments a look owes: every reply, and every stuck node the log does *)
(* not say was reported.  The loop reads the log once more before it looks   *)
(* that up; only the loop itself writes "reported", so the log of the moment *)
(* it prints is the same.                                                    *)
Judgments ==
  {Judgment(a) : a \in {x \in Agents :
     \/ Observed(x).state = "replied"
     \/ /\ Observed(x).state = "stuck"
        /\ Observed(x).disp \notin ReportedFor(log, x)}}

-----------------------------------------------------------------------------
(* The observer's memory. *)

Answered == {a \in Agents : seen[a].ans = "up"}
SelfBlind == Answered = {} /\ Cardinality(Agents) > 1

(* Mutant of LookStep: the first look has one before it, too. *)
LookStepUnguarded == Min2(mem.lastLook - lookAge, StepCap)
LookStep == IF mem.lastLook = Never THEN 0 ELSE Min2(mem.lastLook - lookAge, StepCap)

AllBlind == IF SelfBlind THEN Min2(mem.allBlind + LookStep, ProviderWait) ELSE 0

(* Mutant of Counts: a look that saw nobody is like any other. *)
CountsBlind == TRUE
Counts == ~SelfBlind \/ AllBlind >= ProviderWait

(* Mutant of Unseen: silence counts as an error does. *)
UnseenWhenSilent(a) ==
  CASE seen[a].ans = "up" -> 0
    [] Counts             -> Min2(mem.unseen[a] + Max2(LookStep, 1), GoneAfter)
    [] OTHER              -> mem.unseen[a]
Unseen(a) ==
  CASE seen[a].ans = "up"               -> 0
    [] seen[a].ans = "errors" /\ Counts -> Min2(mem.unseen[a] + Max2(LookStep, 1), GoneAfter)
    [] OTHER                            -> mem.unseen[a]

-----------------------------------------------------------------------------
(* Every agent has replied to its readback; some were sent their work. *)
Init ==
  /\ node \in [Agents -> {[disp |-> Readback, cond |-> "replied"],
                          [disp |-> Readback + 1, cond |-> "working"]}]
  /\ link = [a \in Agents |-> "up"]
  /\ log = {}
  /\ mem = [lastLook |-> Never, allBlind |-> 0, unseen |-> [a \in Agents |-> 0]]
  /\ cmd = "wait" /\ pc = "idle"
  /\ seen = [a \in Agents |-> NoAnswer("none")] /\ entries = {} /\ lookAge = 0
  /\ left = 0 /\ rest = 0 /\ moves = {} /\ due = {} /\ told = {}
  /\ events = MaxEvents
  /\ everTold = {}
  /\ unseenFor = [a \in Agents |-> 0] /\ erredLooks = [a \in Agents |-> 0]
  /\ darkFor = 0 /\ crowded = FALSE

(* An event of the world, of which there are MaxEvents. *)
Event == events > 0 /\ events' = events - 1

(* The model calls wait, and is told nothing until it returns. *)
(* Mutant of StartWait: the memory does not outlive the call. *)
StartWaitAfresh ==
  /\ pc = "idle" /\ pc' = "look" /\ cmd' = "wait"
  /\ left' = Chunk /\ told' = {}
  /\ mem' = [lastLook |-> Never, allBlind |-> 0, unseen |-> [a \in Agents |-> 0]]
  /\ UNCHANGED <<world, log, look, rest, events, history>>

StartWait ==
  /\ pc = "idle" /\ pc' = "look" /\ cmd' = "wait"
  /\ left' = Chunk /\ told' = {}
  /\ UNCHANGED <<world, log, mem, look, rest, events, history>>

StartObserve ==
  /\ pc = "idle" /\ pc' = "look" /\ cmd' = "observe" /\ told' = {}
  /\ Event
  /\ UNCHANGED <<world, log, mem, look, clocks, history>>

(* A look begins: the log, then the clock, then the probes. *)
LookStart ==
  /\ pc = "look" \/ (pc = "sleeping" /\ rest = 0)
  /\ pc' = "probing" /\ entries' = log
  /\ UNCHANGED <<world, log, mem, cmd, seen, lookAge, moves, due, clocks, told, events, history>>

(* One probe; the fleet is a map, so they come in any order. *)
Probe(a) ==
  /\ pc = "probing" /\ seen[a].ans = "none"
  /\ seen' = [seen EXCEPT ![a] =
       IF link[a] = "up"
       THEN [ans |-> "up", disp |-> node[a].disp, cond |-> node[a].cond]
       ELSE NoAnswer(link[a])]
  /\ UNCHANGED <<world, log, mem, cmd, pc, entries, lookAge, moves, due, clocks, told, events, history>>

(* The memory is brought up to date and saved, and the moves are picked:    *)
(* every stopped agent's, and of the refused ones that are due the first's, *)
(* whether or not it will come off.                                         *)
MovesDue ==
  LET In(state) == {a \in Agents : Observed(a).state = state} IN
    In("stopped") \cup {a \in In("due") : \A b \in In("due") : a <= b}

Remember ==
  /\ pc = "probing" /\ \A a \in Agents : seen[a].ans # "none"
  /\ pc' = "acting"
  /\ mem' = [lastLook |-> lookAge, allBlind |-> AllBlind,
             unseen |-> [a \in Agents |-> Unseen(a)]]
  /\ moves' = IF cmd = "wait" THEN MovesDue ELSE {}
  /\ unseenFor' = [a \in Agents |-> IF a \in Answered THEN lookAge ELSE unseenFor[a]]
  /\ erredLooks' = [a \in Agents |->
       CASE seen[a].ans = "up"     -> 0
         [] seen[a].ans = "silent" -> erredLooks[a]
         [] OTHER                  -> Min2(erredLooks[a] + 1, GoneAfter)]
  /\ darkFor' = IF Answered # {} THEN lookAge ELSE darkFor
  /\ crowded' = (crowded \/ mem.lastLook = lookAge)
  /\ UNCHANGED <<world, log, cmd, seen, entries, lookAge, due, clocks, told, events, everTold>>

(* One recovery move, in the order of the names.  It starts a turn, unless  *)
(* it fails or the dispatch was answered meanwhile; where its message lands *)
(* is Delivery's.                                                           *)
Move(a) ==
  /\ pc = "acting" /\ a \in moves /\ \A b \in moves : a <= b
  /\ moves' = moves \ {a}
  /\ \/ UNCHANGED node
     \/ /\ link[a] = "up" /\ node[a].cond # "replied"
        /\ node' = [node EXCEPT ![a].cond = "working"]
  /\ UNCHANGED <<link, log, mem, cmd, pc, seen, entries, lookAge, due, clocks, told, events, history>>

(* Judgments end the wait: they are printed, and each stuck one recorded. *)
Tell ==
  /\ pc = "acting" /\ cmd = "wait" /\ moves = {} /\ Judgments # {}
  /\ pc' = "telling" /\ told' = Judgments
  /\ due' = {j \in Judgments : j.state = "stuck"}
  /\ UNCHANGED <<world, log, mem, cmd, seen, entries, lookAge, moves, clocks, events, history>>

(* Mutant of Report: a machine that is gone is recorded under its dispatch. *)
ReportByDispatch(j) ==
  /\ pc = "telling" /\ j \in due /\ \A i \in due : j.node <= i.node
  /\ log' = log \cup {[kind |-> "reported", node |-> j.node, key |-> node[j.node].disp]}
  /\ due' = due \ {j}
  /\ UNCHANGED <<world, mem, cmd, pc, seen, entries, lookAge, moves, clocks, told, events, history>>

Report(j) ==
  /\ pc = "telling" /\ j \in due /\ \A i \in due : j.node <= i.node
  /\ log' = log \cup {[kind |-> "reported", node |-> j.node, key |-> j.key]}
  /\ due' = due \ {j}
  /\ UNCHANGED <<world, mem, cmd, pc, seen, entries, lookAge, moves, clocks, told, events, history>>

(* What a look knew is forgotten when it ends. *)
EndLook ==
  /\ seen' = [a \in Agents |-> NoAnswer("none")] /\ entries' = {} /\ lookAge' = 0
  /\ moves' = {} /\ due' = {}

EndCommand == pc' = "idle" /\ cmd' = "wait" /\ left' = 0 /\ rest' = 0 /\ EndLook

Return ==
  /\ pc = "telling" /\ due = {}
  /\ EndCommand
  /\ everTold' = everTold \cup {j \in told : j.state = "stuck"}
  /\ UNCHANGED <<world, log, mem, told, events, unseenFor, erredLooks, darkFor, crowded>>

(* The look owes nothing: an observe is done, a wait whose chunk is over    *)
(* returns without a judgment, any other sleeps and looks again.            *)
Nothing == pc = "acting" /\ moves = {} /\ (cmd = "wait" => Judgments = {})

Elapse ==
  /\ Nothing /\ (cmd = "observe" \/ left < 0)
  /\ EndCommand
  /\ UNCHANGED <<world, log, mem, told, events, history>>

Sleep ==
  /\ Nothing /\ cmd = "wait" /\ left >= 0
  /\ pc' = "sleeping" /\ rest' = PollSeconds
  /\ EndLook
  /\ UNCHANGED <<world, log, mem, cmd, left, told, events, history>>

(* The CLI kills the tool call: nothing of what it printed is read. *)
Kill ==
  /\ pc # "idle" /\ Event
  /\ EndCommand /\ told' = {}
  /\ UNCHANGED <<world, log, mem, history>>

-----------------------------------------------------------------------------
(* The model, the agents and the network, at any time. *)

(* accept: a probe, and one entry for a reply that create did not judge and *)
(* nobody accepted.  A reply stays and only accept writes "accepted", so    *)
(* the two round trips are one step.                                        *)
Accept(a) ==
  /\ link[a] = "up" /\ node[a].cond = "replied" /\ node[a].disp # Readback
  /\ node[a].disp \notin AcceptedFor(log, a)
  /\ log' = log \cup {[kind |-> "accepted", node |-> a, key |-> node[a].disp]}
  /\ UNCHANGED <<world, mem, cmd, pc, look, clocks, told, events, history>>

(* send: it opens a dispatch when the last one was answered, else continues. *)
Send(a) ==
  /\ Event /\ link[a] = "up"
  /\ \/ /\ node[a].cond = "replied" /\ node[a].disp < MaxDispatch
        /\ node' = [node EXCEPT ![a] = [disp |-> @.disp + 1, cond |-> "working"]]
     \/ /\ node[a].cond # "replied"
        /\ node' = [node EXCEPT ![a].cond = "working"]
  /\ UNCHANGED <<link, log, mem, cmd, pc, look, clocks, told, history>>

(* A turn ends, with or without a reply, or the ladder is spent. *)
TurnEnds(a) ==
  /\ Event /\ node[a].cond = "working"
  /\ \E c \in Conds \ {"working", "due"} : node' = [node EXCEPT ![a].cond = c]
  /\ UNCHANGED <<link, log, mem, cmd, pc, look, clocks, told, history>>

HoldEnds(a) ==
  /\ node[a].cond = "held" /\ node' = [node EXCEPT ![a].cond = "due"]
  /\ UNCHANGED <<link, log, mem, cmd, pc, look, clocks, told, events, history>>

LinkChanges(a) ==
  /\ Event
  /\ \E l \in Links \ {link[a]} : link' = [link EXCEPT ![a] = l]
  /\ UNCHANGED <<node, log, mem, cmd, pc, look, clocks, told, history>>

(* A second passes; the probes and the moves of a look take MaxLook of them. *)
Looking == pc \in {"probing", "acting", "telling"}
Older(age, cap) == Min2(age + 1, cap)

Tick ==
  /\ Looking => lookAge < MaxLook
  /\ lookAge' = IF Looking THEN lookAge + 1 ELSE lookAge
  /\ mem' = IF mem.lastLook = Never THEN mem
            ELSE [mem EXCEPT !.lastLook = Older(@, LookCap)]
  /\ left' = IF pc # "idle" /\ cmd = "wait" THEN Max2(left - 1, -1) ELSE left
  /\ rest' = Max2(rest - 1, 0)
  /\ unseenFor' = [a \in Agents |-> Older(unseenFor[a], AgeCap)]
  /\ darkFor' = Older(darkFor, AgeCap)
  /\ UNCHANGED <<world, log, cmd, pc, seen, entries, moves, due, told, events,
                 everTold, erredLooks, crowded>>

Wait ==
  \/ LookStart \/ (\E a \in Agents : Probe(a)) \/ Remember
  \/ (\E a \in Agents : Move(a))
  \/ Tell \/ (\E j \in due : Report(j)) \/ Return \/ Elapse \/ Sleep

Others ==
  \/ StartObserve \/ Kill
  \/ \E a \in Agents :
       Accept(a) \/ Send(a) \/ TurnEnds(a) \/ HoldEnds(a) \/ LinkChanges(a)

Next == StartWait \/ Wait \/ Others \/ Tick

(* The command's own steps are taken, time passes, and the model calls wait  *)
(* again whenever it has returned, as the role it is given says.             *)
Spec == Init /\ [][Next]_vars /\ WF_vars(StartWait) /\ WF_vars(Wait) /\ WF_vars(Tick)

-----------------------------------------------------------------------------
TypeOK ==
  /\ node \in [Agents -> Node] /\ link \in [Agents -> Links]
  /\ log \subseteq Entry /\ entries \subseteq log
  /\ mem \in [lastLook: -1 .. LookCap, allBlind: 0 .. ProviderWait,
              unseen: [Agents -> 0 .. GoneAfter]]
  /\ cmd \in {"wait", "observe"}
  /\ pc \in {"idle", "look", "probing", "acting", "telling", "sleeping"}
  /\ seen \in [Agents -> Answer] /\ lookAge \in 0 .. MaxLook
  /\ left \in -1 .. Chunk /\ rest \in 0 .. PollSeconds
  /\ moves \subseteq Agents /\ due \subseteq told
  /\ \A j \in told \cup everTold : j.node \in Agents /\ j.key \in 0 .. MaxDispatch
  /\ events \in 0 .. MaxEvents
  /\ unseenFor \in [Agents -> 0 .. AgeCap] /\ erredLooks \in [Agents -> 0 .. GoneAfter]
  /\ darkFor \in 0 .. AgeCap /\ crowded \in BOOLEAN

(* R65, R133: a machine is concluded gone only when it was not seen for      *)
(* GoneAfter seconds, and its errors were so many that neither silence nor a *)
(* gap between two waits stands for them.  A look adds a second even when    *)
(* the one before it was in the same second, so this is said of fleets that  *)
(* were not looked at twice in one, and one second may be missing for the    *)
(* very first look.                                                          *)
NotGoneEarly ==
  \A a \in Agents :
    pc = "acting" /\ seen[a].ans # "up" /\ mem.unseen[a] >= GoneAfter =>
      /\ crowded \/ unseenFor[a] - lookAge + 1 >= GoneAfter
      /\ erredLooks[a] * StepCap >= GoneAfter

(* An observer that sees nobody moves nobody toward "gone" until it was dark *)
(* for ProviderWait in one stretch (a fleet of one cannot tell).             *)
BlindFleetSparesNodes ==
  [][\A a \in Agents :
       mem'.unseen[a] > mem.unseen[a] /\ Answered = {} =>
         Cardinality(Agents) = 1 \/ darkFor - lookAge >= ProviderWait]_vars

(* A wait that sleeps or returns without a judgment leaves no reply behind   *)
(* that its look saw and that was not accepted as that agent's own.          *)
FreeIsJudged ==
  [][pc = "acting" /\ pc' # "acting" /\ told' = {} /\ events' = events /\ cmd = "wait" =>
       \A a \in Answered :
         seen[a].cond = "replied" /\ seen[a].disp # Readback =>
           [kind |-> "accepted", node |-> a, key |-> seen[a].disp] \in log]_vars

(* R134: a node-stuck judgment ends a wait once, across waits and kills. *)
StuckToldOnce ==
  [][everTold' # everTold => everTold \cap told = {}]_vars

(* A reply, or a node that is stuck, comes to the model's notice as long as *)
(* it stays so: no other agent's recovery, loss or judgment keeps it back.   *)
(* A stuck one may have been told to a wait that was killed: the log has it. *)
JudgmentsAreTold ==
  \A a \in Agents : \A d \in (1 .. MaxDispatch) \ {Readback} :
    LET Logged(kind) == [kind |-> kind, node |-> a, key |-> d] \in log
        Owed == /\ link[a] = "up" /\ node[a].disp = d
                /\ \/ node[a].cond = "replied" /\ ~Logged("accepted")
                   \/ node[a].cond = "stuck" /\ ~Logged("reported")
    IN Owed ~> ~Owed \/ (pc = "idle" /\ \E j \in told : j.node = a /\ j.key = d)

(* R133: a machine that stays lost is concluded gone, however the looks fall *)
(* into waits, and whether or not any other agent answers.                   *)
GoneConcluded ==
  \A a \in Agents :
    link[a] = "errors" ~>
      link[a] # "errors" \/ [kind |-> "reported", node |-> a, key |-> NoDispatch] \in log
==============================================================================
