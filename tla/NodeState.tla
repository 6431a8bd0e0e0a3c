----------------------------- MODULE NodeState -----------------------------
(***************************************************************************)
(* The state of one agent, computed from the facts of one look: nothing is *)
(* remembered from look to look, so the messages of the open dispatch and  *)
(* the agent's own turn log must tell how far its recovery has come.       *)
(*                                                                         *)
(* The node's tools keep a turn log (knowsTurns), and the node is an agent *)
(* and not the orchestrator (IdleBound is not here).                       *)
(*                                                                         *)
(* Source: internal/protocol, state.go and protocol.go.                    *)
(***************************************************************************)
EXTENDS Integers, FiniteSets, Sequences

CONSTANTS            \* type Policy, in seconds and counts
  ContinueAttempts,
  Restarts,
  ElapsedSeconds,
  SettlingSeconds,
  ProviderWaitSeconds,
  Handoffs,
  RapidHandoffSeconds,
  SpentRetrySeconds,
  FirstBackoff,      \* 30 in RefusalBackoff
  LastBackoff,       \* 600 in RefusalBackoff
  LogTail            \* how many turn ends one look reads: 16 in ProbeScript

PolicyNumbers ==
  {ContinueAttempts, Restarts, ElapsedSeconds, SettlingSeconds,
   ProviderWaitSeconds, Handoffs, RapidHandoffSeconds, SpentRetrySeconds,
   FirstBackoff, LastBackoff, LogTail}

ASSUME PolicyAssumption == PolicyNumbers \subseteq Nat \ {0}

Kinds   == {"open", "continue", "restart", "resume", "handoff", "commit"}
Classes == {"ended",         \* a class that changes no move, or none
            "refused",       \* throttled, capacity or unreachable
            "unauthorized", "context", "handoff",
            "spentRefused",  \* spent, exit 5
            "spentHandoff"}  \* spent, exit 0

(* A message of the open dispatch, and a line of the turn log. *)
Msg == [seq: Nat, kind: Kinds, at: Nat]
End == [at: Nat, class: Classes, retry: Nat]

Spent(e) == e.class \in {"spentRefused", "spentHandoff"}

Least(S)    == CHOOSE x \in S : \A y \in S : x <= y
Greatest(S) == CHOOSE x \in S : \A y \in S : y <= x

-----------------------------------------------------------------------------
(* Facts f: msgs, a set of messages; ends, the tail of the turn log;       *)
(* spents, when every spent turn ended; replied; active; room; now.        *)

(* SortMsgs: by time, then by name: "d001.001.md" < "d001.md". *)
Precedes(m, n) ==
  \/ m.at < n.at
  \/ m.at = n.at /\ m.seq # n.seq /\ (n.seq = 0 \/ (m.seq # 0 /\ m.seq < n.seq))

Following(ms, m) == {n \in ms : Precedes(m, n)}
NextOf(ms, m) ==
  CHOOSE n \in Following(ms, m) :
    \A o \in Following(ms, m) : o = n \/ Precedes(n, o)

OpenedAt(f)  == Least({m.at : m \in f.msgs})
NewestMsg(f) == Greatest({m.at : m \in f.msgs})
EndedSince(f, t) == \E i \in DOMAIN f.ends : f.ends[i].at >= t
LastEnd(f) == f.ends[Len(f.ends)]

(* A plausible bug: a rung the budget stopped is not charged, though its    *)
(* turn ran and came to a clean exit.                                      *)
ChargedUnlessSpent(f) ==
  {m \in f.msgs :
     /\ m.kind \in {"continue", "restart"}
     /\ \/ f.ends = <<>>
        \/ Following(f.msgs, m) = {}
        \/ m.at < f.ends[1].at
        \/ \E i \in DOMAIN f.ends :
             /\ f.ends[i].at >= m.at
             /\ f.ends[i].at <= NextOf(f.msgs, m).at
             /\ ~Spent(f.ends[i])}

(* A plausible bug: a rung is charged when it is delivered.                *)
ChargedOnDelivery(f) == {m \in f.msgs : m.kind \in {"continue", "restart"}}

(* The rungs whose turn ran, as far as the log can tell: a message older   *)
(* than the log, or the newest, counts as one.                             *)
Charged(f) ==
  {m \in f.msgs :
     /\ m.kind \in {"continue", "restart"}
     /\ \/ f.ends = <<>>
        \/ Following(f.msgs, m) = {}
        \/ m.at < f.ends[1].at
        \/ \E i \in DOMAIN f.ends :
             /\ f.ends[i].at >= m.at
             /\ f.ends[i].at <= NextOf(f.msgs, m).at
             /\ f.ends[i].class # "spentRefused"}

Continues(f)     == Cardinality({m \in Charged(f) : m.kind = "continue"})
RestartsSpent(f) == Cardinality({m \in Charged(f) : m.kind = "restart"})

(* The refused turns at the tail of the log. *)
RefusedRun(f) ==
  {i \in DOMAIN f.ends : \A j \in i .. Len(f.ends) :
     f.ends[j].class = "refused" /\ f.ends[j].at >= OpenedAt(f)}

RefusalBackoff(n) == Least({FirstBackoff * 2 ^ (n - 1), LastBackoff})

(* A plausible bug: a session told to commit first is not a fresh start.   *)
HandoffStarts(f) == {m \in f.msgs : m.kind = "handoff"}

(* Sessions that began on a .handoff or .commit message and handed off     *)
(* soon after, in a row up to the latest.                                  *)
SessionStarts(f) == {m \in f.msgs : m.kind \in {"handoff", "commit"}}

SessionEnd(f, s) ==
  LET later == Following(SessionStarts(f), s)
      next  == NextOf(SessionStarts(f), s)
      own   == {f.ends[i].at : i \in {j \in DOMAIN f.ends :
                  /\ f.ends[j].class = "handoff"
                  /\ f.ends[j].at > s.at /\ f.ends[j].at <= next.at}}
  IN  IF later = {} THEN LastEnd(f).at
      ELSE IF own # {} THEN Least(own) ELSE next.at

Rapid(f, s) ==
  /\ SessionEnd(f, s) - s.at < RapidHandoffSeconds
  /\ \A i \in DOMAIN f.ends : Spent(f.ends[i]) =>
       f.ends[i].at <= s.at \/ f.ends[i].at > SessionEnd(f, s)

RapidHandoffs(f) ==
  Cardinality({s \in SessionStarts(f) :
    \A t \in {s} \cup Following(SessionStarts(f), s) : Rapid(f, t)})

(* A plausible bug: no message ends a hold.                                *)
HeldSinceSpent(f) ==
  Cardinality({t \in OpenedAt(f) .. f.now - 1 : \E at \in f.spents :
    OpenedAt(f) <= at /\ at <= t})

(* The seconds of the dispatch's life spent held on a spent budget: from a *)
(* spent turn end up to the next message.                                  *)
HeldSeconds(f) ==
  Cardinality({t \in OpenedAt(f) .. f.now - 1 : \E at \in f.spents :
    /\ OpenedAt(f) <= at /\ at <= t
    /\ \A m \in f.msgs : m.at > at => t < m.at})

-----------------------------------------------------------------------------
(* Compute.  A verdict names the state, the move it calls for, and why.    *)

Verdict(state, move, why) == [state |-> state, move |-> move, why |-> why]
Working    == Verdict("working", "none", "active")
Stuck(why) == Verdict("stuck", "none", why)

(* The ladder: continues, then restarts, then no more. *)
LadderVerdict(f) ==
  IF Continues(f) < ContinueAttempts THEN Verdict("stopped", "continue", "ended")
  ELSE IF RestartsSpent(f) < Restarts THEN Verdict("stopped", "restart", "ended")
  ELSE Stuck("rungs")

RefusedVerdict(f) ==
  LET run  == RefusedRun(f)
      hold == Greatest({LastEnd(f).retry, RefusalBackoff(Cardinality(run))})
  IN  IF f.now - f.ends[Least(run)].at >= ProviderWaitSeconds
      THEN Stuck("refusals")
      ELSE Verdict("refused",
             IF f.now < LastEnd(f).at + hold THEN "none" ELSE "resume", "refused")

SpentVerdict(f) ==
  IF f.now < LastEnd(f).at + SpentRetrySeconds /\ ~f.room
  THEN Verdict("refused", "none", "spent")
  ELSE IF LastEnd(f).class = "spentHandoff"
  THEN Verdict("stopped", "handoff", "spent")
  ELSE Verdict("refused", "resume", "spent")

HandoffVerdict(f) ==
  IF RapidHandoffs(f) >= Handoffs THEN Stuck("handoffs")
  ELSE Verdict("stopped", "handoff", "handoff")

ContextVerdict(f) ==
  IF RestartsSpent(f) >= Restarts THEN Stuck("context")
  ELSE Verdict("stopped", "restart", "context")

(* A turn ended since the newest message: why it did decides. *)
EndedVerdict(f) ==
  CASE LastEnd(f).class = "unauthorized" -> Stuck("credential")
    [] LastEnd(f).class = "refused"      -> RefusedVerdict(f)
    [] Spent(LastEnd(f))                 -> SpentVerdict(f)
    [] LastEnd(f).class = "handoff"      -> HandoffVerdict(f)
    [] LastEnd(f).class = "context"      -> ContextVerdict(f)
    [] OTHER                             -> LadderVerdict(f)

(* No turn ended since the newest message: it is starting, or never ran.   *)
LaunchesFailSince(f) ==
  IF f.ends = <<>> \/ LastEnd(f).at <= OpenedAt(f) THEN OpenedAt(f)
  ELSE LET tries == {m.at : m \in {n \in f.msgs : n.at >= LastEnd(f).at}}
       IN  IF Spent(LastEnd(f)) /\ tries # {} THEN Least(tries)
           ELSE LastEnd(f).at

(* A plausible bug: silence is judged at once.                             *)
UnheardAtOnce(f) ==
  IF f.now - LaunchesFailSince(f) >= ProviderWaitSeconds THEN Stuck("launches")
  ELSE Verdict("stopped", "resume", "unheard")

UnheardVerdict(f) ==
  IF f.now - NewestMsg(f) < SettlingSeconds THEN Verdict("working", "none", "settling")
  ELSE IF f.now - LaunchesFailSince(f) >= ProviderWaitSeconds THEN Stuck("launches")
  ELSE Verdict("stopped", "resume", "unheard")

(* A plausible bug: why the last turn ended is asked before the bound.     *)
ComputeEndFirst(f) ==
  IF f.replied THEN Verdict("replied", "none", "reply")
  ELSE IF f.active THEN Working
  ELSE IF EndedSince(f, NewestMsg(f)) THEN EndedVerdict(f)
  ELSE IF f.now - OpenedAt(f) - HeldSeconds(f) >= ElapsedSeconds THEN Stuck("elapsed")
  ELSE UnheardVerdict(f)

(* Order is load-bearing: the reply first, then whether a turn is alive,   *)
(* then the bound that nothing resets, then why the last turn ended.       *)
Compute(f) ==
  IF f.replied THEN Verdict("replied", "none", "reply")
  ELSE IF f.active THEN Working
  ELSE IF f.now - OpenedAt(f) - HeldSeconds(f) >= ElapsedSeconds THEN Stuck("elapsed")
  ELSE IF EndedSince(f, NewestMsg(f)) THEN EndedVerdict(f)
  ELSE UnheardVerdict(f)
==============================================================================
