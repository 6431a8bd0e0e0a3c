------------------------------- MODULE Ladder -------------------------------
(***************************************************************************)
(* One agent with one open dispatch, and the wait loop that carries it to  *)
(* a reply or to node-stuck.  The loop knows only what a look shows, and   *)
(* computes everything from it (module NodeState).  The agent's machine    *)
(* does what machines do: launches fail, turns end for every reason a turn *)
(* log knows, drivers die without a line in the log, budgets run out.      *)
(*                                                                         *)
(* Time is counted in polls: the loop looks once in every unit of time.    *)
(* What lies between the look and the delivery is in module Delivery.      *)
(*                                                                         *)
(* Source: cmd/cs-campaign-member/dispatcher.go (cmdWait and its moves)    *)
(* and internal/protocol/state.go.                                         *)
(***************************************************************************)
EXTENDS NodeState

CONSTANTS
  RetryAfters,  \* what a provider may ask for with a refusal
  EndClasses,   \* how the turns of this instance may end
  SameSecond,   \* may a turn end in the second of a look or of a message?
  SendIntoTurn, \* may a `send --continue` find a turn running?
  MaxTime,      \* bound of the model: where the clock stops
  MaxSends,     \* bound of the model: `send --continue` by the orchestrator
  MaxSpent,     \* bound of the model: turns the token budget stops
  MaxMisses     \* bound of the model: moves and launches that fail

ASSUME LadderAssumption ==
  /\ RetryAfters \subseteq Nat /\ EndClasses \subseteq Classes
  /\ SameSecond \in BOOLEAN /\ SendIntoTurn \in BOOLEAN
  /\ {MaxTime, MaxSends, MaxSpent, MaxMisses} \subseteq Nat

VARIABLES
  now,
  looked,   \* the loop has looked in this unit of time
  msgs,     \* the messages of the dispatch
  log,      \* the turn log on the agent's machine, all of it
  replied,  \* the dispatch has its reply
  room,     \* the budget reading says a turn would be sent
  turn,     \* "none", "starting", or "running": a driver is alive
  by,       \* the message that turn was launched for
  ran,      \* history: the messages whose turn ran, and came to an end
  vanished, \* history: the messages whose driver died while their turn ran
  own,      \* history: how long the node was not held on its budget
  rapid,    \* history: quick hand-offs of fresh sessions, in a row
  bounds    \* the bounds of the model: what is left of each

world   == <<replied, room>>
history == <<ran, vanished, own, rapid>>
vars    == <<now, looked, msgs, log, world, turn, by, history, bounds>>

(* Types; no message, turn end or count is from a later time than now, and *)
(* a turn is launched only for a message that was delivered.               *)
TypeOK ==
  /\ now \in 0 .. MaxTime /\ looked \in BOOLEAN
  /\ msgs \subseteq Msg /\ \A m \in msgs : m.at <= now
  /\ log \in Seq(End) /\ \A i \in DOMAIN log : log[i].at <= now
  /\ replied \in BOOLEAN /\ room \in BOOLEAN
  /\ turn \in {"none", "starting", "running"}
  /\ by \in {m.seq : m \in msgs}
  /\ (ran \cup vanished) \subseteq {m.seq : m \in msgs}
  /\ own \in 0 .. now /\ rapid \in Nat
  /\ bounds \in [sends: 0 .. MaxSends, spent: 0 .. MaxSpent,
                 misses: 0 .. MaxMisses]

(* What a look reads. *)
Facts ==
  [msgs    |-> msgs,
   ends    |-> SubSeq(log, Greatest({1, Len(log) - LogTail + 1}), Len(log)),
   spents  |-> {log[i].at : i \in {j \in DOMAIN log : Spent(log[j])}},
   replied |-> replied,
   active  |-> turn = "running",
   room    |-> room,
   now     |-> now]

State == Compute(Facts)

Done == State.state \in {"replied", "stuck"}

(* The newest message, the one the agent's session began on, and whether   *)
(* the agent is held on its budget.                                        *)
Newest == CHOOSE m \in msgs : \A n \in msgs : n.seq <= m.seq
Started ==  \* the messages that a session, or a turn asked to commit, began on
  {m \in msgs : m.kind \in {"handoff", "commit"}}
Latest == CHOOSE m \in Started : \A n \in Started : n.seq <= m.seq
Held ==
  log # <<>> /\ Spent(log[Len(log)]) /\ log[Len(log)].at >= Newest.at /\ turn = "none"

-----------------------------------------------------------------------------
Init ==
  /\ now = 0 /\ looked = TRUE
  /\ msgs = {[seq |-> 0, kind |-> "open", at |-> 0]}
  /\ log = <<>>
  /\ replied = FALSE /\ room = FALSE
  /\ turn \in {"none", "starting"} /\ by = 0
  /\ ran = {} /\ vanished = {} /\ own = 0 /\ rapid = 0
  /\ bounds = [sends |-> MaxSends, spent |-> MaxSpent, misses |-> MaxMisses]

Miss ==
  bounds.misses > 0 /\ bounds' = [bounds EXCEPT !.misses = @ - 1]

(* A plausible bug: the turn is launched though the message was not put.   *)
DeliverUnput(kind) ==
  /\ UNCHANGED msgs
  /\ by' = Newest.seq + 1
  /\ \/ turn' = "starting" /\ UNCHANGED bounds
     \/ turn' = "none" /\ Miss

(* A message of this kind arrives, and its turn is launched or is not.     *)
Deliver(kind) ==
  /\ msgs' = msgs \cup {[seq |-> Newest.seq + 1, kind |-> kind, at |-> now]}
  /\ by' = Newest.seq + 1
  /\ \/ turn' = "starting" /\ UNCHANGED bounds
     \/ turn' = "none" /\ Miss

(* The move a verdict calls for.  A hand-off is taken when the work and    *)
(* the handoff agree, and else the session is asked to commit first.       *)
MessageKinds(move) == IF move = "handoff" THEN {"handoff", "commit"} ELSE {move}

(* One turn of the wait loop: it looks, and acts on what it saw.           *)
Look ==
  /\ ~looked
  /\ looked' = TRUE
  /\ \/ /\ State.move # "none" /\ turn = "none"
        /\ \E kind \in MessageKinds(State.move) : Deliver(kind)
     \/ /\ State.move # "none"
        /\ Miss
        /\ UNCHANGED <<msgs, turn, by>>
     \/ /\ State.move = "none"
        /\ UNCHANGED <<msgs, turn, by, bounds>>
  /\ UNCHANGED <<now, log, world, history>>

(* The orchestrator's model adds a message to the open dispatch.           *)
SendContinue ==
  /\ ~Done
  /\ SameSecond \/ \A i \in DOMAIN log : log[i].at < now
  /\ bounds.sends > 0
  /\ \/ /\ turn = "none"
        /\ turn' = "starting"
        /\ by' = Newest.seq + 1
     \/ /\ turn = "running" /\ SendIntoTurn
        /\ UNCHANGED <<turn, by>>
  /\ msgs' = msgs \cup {[seq |-> Newest.seq + 1, kind |-> "continue", at |-> now]}
  /\ bounds' = [bounds EXCEPT !.sends = @ - 1]
  /\ UNCHANGED <<now, looked, log, world, history>>

-----------------------------------------------------------------------------
(* The agent's machine.                                                    *)

(* The driver appears in the process table.                                *)
TurnBegins ==
  /\ turn = "starting"
  /\ turn' = "running"
  /\ UNCHANGED <<now, looked, msgs, log, world, by, history, bounds>>

(* The launched turn dies before that, or its driver dies while the turn    *)
(* runs, and neither leaves a line in the log.                             *)
TurnVanishes ==
  /\ turn # "none"
  /\ turn' = "none"
  /\ vanished' = IF turn = "running" THEN vanished \cup {by} ELSE vanished
  /\ Miss
  /\ UNCHANGED <<now, looked, msgs, log, world, by, ran, own, rapid>>

Reply ==
  /\ turn = "running"
  /\ ~replied
  /\ replied' = TRUE
  /\ UNCHANGED <<now, looked, msgs, log, room, turn, by, history, bounds>>

(* How many sessions in a row, up to the one whose turn ends now, handed    *)
(* off quickly.  A session hands off once, at its first such end, and one   *)
(* that the budget stopped ends the row.                                   *)
EndedAs(classes) ==
  \E i \in DOMAIN log : log[i].class \in classes /\ log[i].at > Latest.at

RapidAfter(class) ==
  IF class \notin {"handoff", "spentHandoff"} \/ (Started # {} /\ EndedAs({"handoff"}))
  THEN rapid
  ELSE IF \/ Started = {} \/ now - Latest.at >= RapidHandoffSeconds
          \/ class = "spentHandoff" \/ EndedAs({"spentRefused", "spentHandoff"})
  THEN 0 ELSE rapid + 1

(* The turn ends, and the driver says why in the log.                      *)
TurnEnds ==
  /\ turn = "running"
  /\ SameSecond \/ (looked /\ \A m \in msgs : m.at < now)
  /\ \E class \in EndClasses, retry \in RetryAfters :
       /\ class # "refused" => retry = 0
       /\ log' = Append(log, [at |-> now, class |-> class, retry |-> retry])
       /\ rapid' = RapidAfter(class)
       /\ ran' = IF class = "spentRefused" THEN ran ELSE ran \cup {by}
       /\ IF class \in {"spentRefused", "spentHandoff"}
          THEN /\ bounds.spent > 0
               /\ bounds' = [bounds EXCEPT !.spent = @ - 1]
               /\ room' = FALSE
          ELSE UNCHANGED <<bounds, room>>
  /\ turn' = "none"
  /\ UNCHANGED <<now, looked, msgs, replied, by, vanished, own>>

(* The operator raises the token budget.                                   *)
RaiseBudget ==
  /\ Held /\ ~room
  /\ room' = TRUE
  /\ UNCHANGED <<now, looked, msgs, log, replied, turn, by, history, bounds>>

(* A turn that was launched shows its driver before the settling window is *)
(* over.                                                                   *)
Tick ==
  /\ now < MaxTime
  /\ looked
  /\ turn = "starting" => now + 1 - Newest.at < SettlingSeconds
  /\ now' = now + 1
  /\ looked' = FALSE
  /\ own' = IF Held THEN own ELSE own + 1
  /\ UNCHANGED <<msgs, log, world, turn, by, ran, vanished, rapid, bounds>>

Next ==
  \/ Look \/ SendContinue
  \/ TurnBegins \/ TurnVanishes \/ Reply \/ TurnEnds \/ RaiseBudget
  \/ Tick

Spec == Init /\ [][Next]_vars

(* The orchestrator keeps calling wait, which polls without end; a turn    *)
(* that is launched begins or dies, and the stall detector of its driver   *)
(* ends it.                                                                *)
FairSpec ==
  Spec /\ WF_vars(Look) /\ WF_vars(Tick)
       /\ WF_vars(TurnBegins) /\ WF_vars(TurnEnds)

-----------------------------------------------------------------------------
TurnsOf(kind, run) == Cardinality({m \in msgs : m.kind = kind /\ m.seq \in run})

RanOf(kind) == TurnsOf(kind, ran)

Sent == MaxSends - bounds.sends

(* SPEC.md R58, R132: recovery is bounded by its counts, though the counts *)
(* are inferred from what a look finds: the turns that run on the continues *)
(* (the orchestrator's own sends aside) or on the restarts are never more   *)
(* than the policy's number and one for every driver that died with no line *)
(* in the log: such a turn cannot be told from one that never ran, and its  *)
(* rung is given again.                                                    *)
RungsBounded ==
  /\ TurnsOf("continue", ran \cup vanished)
       <= ContinueAttempts + Sent + TurnsOf("continue", vanished)
  /\ TurnsOf("restart", ran \cup vanished) <= Restarts + TurnsOf("restart", vanished)

(* SPEC.md R132: a node is written off for its spent rungs only when every *)
(* rung of it had a turn that came to its end, or the orchestrator's own    *)
(* send took its place.                                                    *)
WrittenOffFairly ==
  /\ State.why = "rungs" => RanOf("continue") + Sent >= ContinueAttempts
  /\ State \in {Stuck("rungs"), Stuck("context")} => RanOf("restart") >= Restarts

(* SPEC.md R142: fresh sessions that hand off at once are bounded in a row.*)
HandoffsBounded == rapid <= Handoffs

(* SPEC.md R60: while the turn of a fresh message is still booting, a look *)
(* reads the node as settling, and never as stopped or stuck, until the    *)
(* node's own time is up.                                                  *)
FreshMessageSettles ==
  turn = "starting" /\ ~replied /\ own < ElapsedSeconds => State.why = "settling"

(* R58 and R151: the elapsed bound trips exactly when the node's own time  *)
(* is up, whatever holds on the operator's budget lie between.             *)
ElapsedIsOwnTime ==
  ~replied /\ turn # "running" => (State.why = "elapsed" <=> own >= ElapsedSeconds)

(* PROTOCOL.md, section 5: a dispatch comes to its reply or to node-stuck, *)
(* and stays there.                                                        *)
Concludes == <>[]Done
==============================================================================
