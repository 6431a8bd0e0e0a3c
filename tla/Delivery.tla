------------------------------ MODULE Delivery ------------------------------
(***************************************************************************)
(* The channel between the orchestrator and one agent, with everybody that *)
(* works on it at once: `send` commands the orchestrator's model runs in   *)
(* parallel, the wait loop and `restart` commands that act on a snapshot,  *)
(* and the `reply` commands of the agent's own turns.                      *)
(*                                                                         *)
(* A command is a process with a program counter.  Each of its steps is    *)
(* one round trip to the agent's machine, or one step on the               *)
(* orchestrator's own disk, so commands interleave between any two of      *)
(* them, and a command may end early at any of them (Abort).               *)
(*                                                                         *)
(* Source: internal/protocol (protocol.go, state.go, artifacts.go) and     *)
(* cmd/cs-campaign-member (dispatcher.go, worker.go).                      *)
(***************************************************************************)
EXTENDS Naturals, FiniteSets

CONSTANTS
  Senders,           \* `send` commands that may run at the same time
  Movers,            \* wait loops and `restart` commands
  Repliers,          \* `reply` commands on the agent's machine
  Sessions,          \* identities for the agent's sessions
  MoveKinds,         \* the moves a mover may make
  MaxDispatchSeq,    \* protocol.MaxDispatchSeq: 999 in the code
  SeqLimit,          \* the last message number msgName accepts: 999
  MaxTime,           \* bound of the model: where the clock stops
  MaxMsgs,           \* bound of the model: how many messages are written
  FreshPerDispatch,  \* AgentRecord.FreshPerDispatch
  Nobody             \* no process, no session, no reply

Moves == {"continue", "restart", "resume", "handoff", "commit"}
Kinds == {"plain", "restart", "resume", "handoff", "commit"}
Wants == {"open"} \cup Moves

ASSUME DeliveryAssumption ==
  /\ MaxDispatchSeq \in Nat /\ SeqLimit \in Nat
  /\ MaxTime \in Nat /\ MaxMsgs \in Nat
  /\ MoveKinds \subseteq Moves
  /\ FreshPerDispatch \in BOOLEAN
  /\ Senders \cap Movers = {}
  /\ Nobody \notin Senders \cup Movers \cup Repliers \cup Sessions

Commands == Senders \cup Movers
Ids      == 1 .. MaxDispatchSeq

(* A message file: its name, who wrote it, and when. *)
Msg  == [id: Ids, seq: Nat, kind: Kinds, from: Commands, mtime: Nat]
Name == [id: Nat, seq: Nat, kind: Kinds]

VARIABLES
  now,       \* the clock of the agent's machine
  msgs,      \* the message files in its input channel
  reply,     \* who wrote the reply file of each dispatch, if any
  live,      \* its CLI sessions that exist and were not ended
  driving,   \* the sessions a turn driver runs in
  marker,    \* the orchestrator's record of the agent's session
  turnlock,  \* who holds the flock on <session>.turnlock
  unfenced,  \* history: some command began to end a session
  pc,        \* where each command stands
  call,      \* what each command has read and decided
  replying   \* the dispatch each `reply` command is about to close

chanState == <<msgs, reply>>
nodeState == <<live, driving>>
vars == <<now, msgs, reply, live, driving, marker, turnlock, unfenced, pc,
          call, replying>>

Call == [want: Wants, msgs: SUBSET Msg,
         driven: BOOLEAN, name: Name, retried: BOOLEAN,
         session: Sessions \cup {Nobody}]

(* What a command keeps once it is done with its listing. *)
Keep(want, name, retried, driven) ==
  [want |-> want, msgs |-> {}, driven |-> driven, name |-> name,
   retried |-> retried, session |-> Nobody]

NoName == [id |-> 0, seq |-> 0, kind |-> "plain"]
NoCall == Keep("open", NoName, FALSE, FALSE)

Steps == {"idle", "again", "decide", "put", "kill", "forget",
          "lock", "launch"}

(* Types; numbers stay within their bounds, the dispatch numbers that      *)
(* MaxDispatchSeq leaves among them (NextDispatchID).                      *)
TypeOK ==
  /\ now \in 0 .. MaxTime
  /\ msgs \subseteq Msg
  /\ reply \in [Ids -> Repliers \cup {Nobody}]
  /\ live \subseteq Sessions
  /\ driving \subseteq Sessions
  /\ marker \in Sessions \cup {Nobody}
  /\ turnlock \in Commands \cup {Nobody}
  /\ unfenced \in BOOLEAN
  /\ pc \in [Commands -> Steps]
  /\ call \in [Commands -> Call]
  /\ replying \in [Repliers -> Ids \cup {0}]

-----------------------------------------------------------------------------
(* Reading a listing of the channel.                                       *)

IdsOf(ms) == {m.id : m \in ms}
Replied   == {i \in Ids : reply[i] # Nobody}

(* The largest element of a set of numbers, as a set; empty for none. *)
Largest(S) == {x \in S : \A y \in S : y <= x}

(* A directory listing shows only the names msgName matches. *)
Listed == {m \in msgs : m.seq <= SeqLimit}

(* A plausible bug: a dispatch is as new as its newest message.            *)
OpenedAtNewest(ms, i) ==
  CHOOSE t \in {m.mtime : m \in {n \in ms : n.id = i}} :
    \A m \in ms : m.id = i => m.mtime <= t

OpenedAt(ms, i) ==
  CHOOSE t \in {m.mtime : m \in {n \in ms : n.id = i}} :
    \A m \in ms : m.id = i => t <= m.mtime

(* The dispatch with the newest opening, ties going to the larger ID. *)
Current(ms) ==
  {i \in IdsOf(ms) : \A j \in IdsOf(ms) :
     \/ OpenedAt(ms, j) < OpenedAt(ms, i)
     \/ OpenedAt(ms, j) = OpenedAt(ms, i) /\ j <= i}

IsOpen(ms) == \E i \in Current(ms) : i \notin Replied

(* The names of the next message: an opener's, when the dispatch a send    *)
(* lands in is a new one, else the next number in the open dispatch.       *)
NextDispatch(ms) ==
  IF ms = {} THEN {1} ELSE {i + 1 : i \in Largest(IdsOf(ms))}

(* A plausible bug: the mint does not refuse past the last number.         *)
OpenerNamesUnbounded(ms) ==
  {[id |-> i, seq |-> 0, kind |-> "plain"] : i \in NextDispatch(ms)}

OpenerNames(ms) ==
  {[id |-> i, seq |-> 0, kind |-> "plain"] :
     i \in {j \in NextDispatch(ms) : j <= MaxDispatchSeq}}

NextMsgNames(ms, kind) ==
  UNION {{[id |-> i, seq |-> s + 1, kind |-> kind] :
            s \in Largest({m.seq : m \in {n \in ms : n.id = i}})} :
          i \in Current(ms)}

KindOf(want) == IF want \in {"open", "continue"} THEN "plain" ELSE want

(* A plausible bug: delivery clobbers, as PutFileScript does.              *)
NameTakenNever(n) == FALSE

NameTaken(n) ==
  \E m \in msgs : m.id = n.id /\ m.seq = n.seq /\ m.kind = n.kind

(* Whether this command ends the agent's session before it starts a turn.  *)
EndsSession(p) ==
  IF p \in Senders
  THEN FreshPerDispatch /\ call[p].want = "open"
  ELSE call[p].want \in {"restart", "handoff"}

-----------------------------------------------------------------------------
Init ==
  /\ now = 0
  /\ msgs = {}
  /\ reply = [i \in Ids |-> Nobody]
  /\ live = {} /\ driving = {}
  /\ marker = Nobody
  /\ turnlock = Nobody
  /\ unfenced = FALSE
  /\ pc = [p \in Commands |-> "idle"]
  /\ call = [p \in Commands |-> NoCall]
  /\ replying = [r \in Repliers |-> 0]

Goto(p, step) == pc' = [pc EXCEPT ![p] = step]
Return(p)     == Goto(p, "idle") /\ call' = [call EXCEPT ![p] = NoCall]

(* The orchestrator's model runs `send`, with or without --continue, or    *)
(* the wait loop comes round, or `restart` is run, or a `send` that lost   *)
(* its name looks again.  The probe is one script that lists the messages, *)
(* then the replies and the turn drivers; the channel may change between.  *)
ListMessages(p) ==
  /\ \/ /\ pc[p] = "idle"
        /\ \E w \in IF p \in Senders THEN {"open", "continue"} ELSE MoveKinds :
             call' = [call EXCEPT ![p].want = w, ![p].msgs = Listed]
     \/ /\ pc[p] = "again"
        /\ call' = [call EXCEPT ![p].msgs = Listed]
  /\ Goto(p, "decide")
  /\ UNCHANGED <<now, chanState, nodeState, marker, turnlock, unfenced,
                 replying>>

(* The rest of the probe, and what a `send` concludes from the facts.      *)
(* A send that would land on the other side is refused, and so is a new    *)
(* dispatch past the last number.                                          *)
SendTarget(p) ==
  /\ p \in Senders
  /\ pc[p] = "decide"
  /\ LET c     == call[p]
         opens == ~IsOpen(c.msgs)
         names == IF opens THEN OpenerNames(c.msgs)
                  ELSE NextMsgNames(c.msgs, "plain")
     IN  \/ /\ opens <=> c.want = "open"
            /\ \E n \in names :
                 call' = [call EXCEPT ![p] =
                   Keep(c.want, n, c.retried, ~opens /\ driving # {})]
            /\ Goto(p, "put")
         \/ /\ (opens <=> c.want # "open") \/ names = {}
            /\ Return(p)
  /\ UNCHANGED <<now, chanState, nodeState, marker, turnlock, unfenced,
                 replying>>

(* A plausible bug: the move is classified again when it is made.          *)
ChooseMoveReclassified(p) ==
  /\ p \in Movers
  /\ pc[p] = "decide"
  /\ LET c     == call[p]
         names == IF IsOpen(Listed) THEN NextMsgNames(Listed, KindOf(c.want))
                  ELSE OpenerNames(Listed)
     IN  \/ /\ \E n \in names :
                 call' = [call EXCEPT ![p] = Keep(c.want, n, FALSE, FALSE)]
            /\ Goto(p, IF EndsSession(p) THEN "kill" ELSE "put")
         \/ names = {} /\ Return(p)
  /\ UNCHANGED <<now, chanState, nodeState, marker, turnlock, unfenced,
                 replying>>

(* A move is made only in an open dispatch, and by the wait loop only when *)
(* no driver was seen.  It delivers under the name the snapshot gives it:  *)
(* no second probe, no other classification.                               *)
ChooseMove(p) ==
  /\ p \in Movers
  /\ pc[p] = "decide"
  /\ LET c   == call[p]
         due == IsOpen(c.msgs) /\ (driving = {} \/ c.want = "restart")
     IN  \/ /\ due
            /\ \E n \in NextMsgNames(c.msgs, KindOf(c.want)) :
                 call' = [call EXCEPT ![p] = Keep(c.want, n, FALSE, FALSE)]
            /\ Goto(p, IF EndsSession(p) THEN "kill" ELSE "put")
         \/ ~due /\ Return(p)
  /\ UNCHANGED <<now, chanState, nodeState, marker, turnlock, unfenced,
                 replying>>

(* The message file is created under noclobber.  A continuation that saw a *)
(* live driver starts no turn.                                             *)
PutMsg(p) ==
  /\ pc[p] = "put"
  /\ ~NameTaken(call[p].name)
  /\ Cardinality(msgs) < MaxMsgs
  /\ LET n == call[p].name
     IN  msgs' = msgs \cup {[id |-> n.id, seq |-> n.seq, kind |-> n.kind,
                             from |-> p, mtime |-> now]}
  /\ \/ /\ call[p].driven
        /\ Return(p)
     \/ /\ ~call[p].driven
        /\ Goto(p, IF p \in Senders /\ EndsSession(p) THEN "kill" ELSE "lock")
        /\ UNCHANGED call
  /\ UNCHANGED <<now, reply, nodeState, marker, turnlock, unfenced, replying>>

(* A plausible bug: a send that lost its name takes the next number.       *)
PutCollidesCounting(p) ==
  /\ pc[p] = "put"
  /\ NameTaken(call[p].name)
  /\ \/ /\ p \in Senders /\ ~call[p].retried
        /\ call[p].name.id < MaxDispatchSeq
        /\ call' = [call EXCEPT ![p].retried = TRUE, ![p].name.id = @ + 1]
        /\ UNCHANGED pc
     \/ /\ p \in Movers \/ call[p].retried
        /\ Return(p)
  /\ UNCHANGED <<now, chanState, nodeState, marker, turnlock, unfenced,
                 replying>>

(* The name was taken first.  A send probes once more; a move gives up.    *)
PutCollides(p) ==
  /\ pc[p] = "put"
  /\ NameTaken(call[p].name)
  /\ \/ /\ p \in Senders /\ ~call[p].retried
        /\ call' = [call EXCEPT ![p] =
                      Keep(call[p].want, NoName, TRUE, FALSE)]
        /\ Goto(p, "again")
     \/ /\ p \in Movers \/ call[p].retried
        /\ Return(p)
  /\ UNCHANGED <<now, chanState, nodeState, marker, turnlock, unfenced,
                 replying>>

(* Ending the session that is on record, and then forgetting it, are two   *)
(* steps, and neither is under the turn lock.  A session that is ended can *)
(* still be resumed until its record is dropped.  Either step may fail:    *)
(* the command goes on all the same.                                       *)
KillSession(p) ==
  /\ pc[p] = "kill"
  /\ \/ live' = live \ {marker} /\ driving' = driving \ {marker}
     \/ UNCHANGED nodeState
  /\ unfenced' = TRUE
  /\ Goto(p, "forget")
  /\ UNCHANGED <<now, chanState, marker, turnlock, call, replying>>

ForgetSession(p) ==
  /\ pc[p] = "forget"
  /\ marker' \in {Nobody, marker}
  /\ Goto(p, IF p \in Senders THEN "lock" ELSE "put")
  /\ UNCHANGED <<now, chanState, nodeState, turnlock, unfenced, call,
                 replying>>

(* A plausible bug: the marker is read without waiting for the lock.       *)
LockSessionUnlocked(p) ==
  /\ pc[p] = "lock"
  /\ turnlock' = p
  /\ call' = [call EXCEPT ![p].session = marker]
  /\ Goto(p, "launch")
  /\ UNCHANGED <<now, chanState, nodeState, marker, unfenced, replying>>

(* Turn starts are serialised: under the lock the marker is read, and then *)
(* the launcher starts a new session or resumes the recorded one.          *)
LockSession(p) ==
  /\ pc[p] = "lock"
  /\ turnlock = Nobody
  /\ turnlock' = p
  /\ call' = [call EXCEPT ![p].session = marker]
  /\ Goto(p, "launch")
  /\ UNCHANGED <<now, chanState, nodeState, marker, unfenced, replying>>

LaunchTurn(p) ==
  /\ pc[p] = "launch"
  /\ turnlock' = Nobody
  /\ \E s \in Sessions :
       /\ \/ call[p].session = Nobody /\ s \notin live
          \/ call[p].session = s /\ marker = s
       /\ live' = live \cup {s}
       /\ driving' = driving \cup {s}
       /\ marker' = s
  /\ Return(p)
  /\ UNCHANGED <<now, chanState, unfenced, replying>>

(* A round trip fails or misses its bound, the launcher fails, or the      *)
(* command is killed: it ends where it stands, and its lock is released.   *)
Abort(p) ==
  /\ pc[p] # "idle"
  /\ turnlock' = IF turnlock = p THEN Nobody ELSE turnlock
  /\ Return(p)
  /\ UNCHANGED <<now, chanState, nodeState, marker, unfenced, replying>>

-----------------------------------------------------------------------------
(* The agent's machine.                                                    *)

(* A turn may end at any time, whether or not the dispatch was answered.   *)
TurnEnds(s) ==
  /\ s \in driving
  /\ driving' = driving \ {s}
  /\ UNCHANGED <<now, chanState, live, marker, turnlock, unfenced, pc, call,
                 replying>>

(* `reply` finds the current dispatch and sees that it has no reply ...    *)
ReplyCheck(r) ==
  /\ driving # {}
  /\ replying[r] = 0
  /\ \E i \in Current(Listed) :
       /\ i \notin Replied
       /\ replying' = [replying EXCEPT ![r] = i]
  /\ UNCHANGED <<now, chanState, nodeState, marker, turnlock, unfenced, pc,
                 call>>

(* ... and, after measuring every repository, renames the reply into place *)
(* over whatever is there; or it is stopped before it does.                *)
ReplyWrite(r) ==
  /\ replying[r] # 0
  /\ \/ reply' = [reply EXCEPT ![replying[r]] = r]
     \/ UNCHANGED reply
  /\ replying' = [replying EXCEPT ![r] = 0]
  /\ UNCHANGED <<now, msgs, nodeState, marker, turnlock, unfenced, pc, call>>

Tick ==
  /\ now < MaxTime
  /\ now' = now + 1
  /\ UNCHANGED <<chanState, nodeState, marker, turnlock, unfenced, pc, call,
                 replying>>

Step(p) ==
  \/ ListMessages(p)
  \/ SendTarget(p) \/ ChooseMove(p)
  \/ PutMsg(p) \/ PutCollides(p)
  \/ KillSession(p) \/ ForgetSession(p)
  \/ LockSession(p) \/ LaunchTurn(p)
  \/ Abort(p)

Next ==
  \/ \E p \in Commands : Step(p)
  \/ \E s \in Sessions : TurnEnds(s)
  \/ \E r \in Repliers : ReplyCheck(r) \/ ReplyWrite(r)
  \/ Tick

Spec == Init /\ [][Next]_vars

-----------------------------------------------------------------------------
(* PROTOCOL.md, section 3: at most one dispatch is open per node, however  *)
(* many commands mint and deliver at once.                                 *)
AtMostOneOpen ==
  \A i, j \in IdsOf(msgs) : i # j => i \in Replied \/ j \in Replied

(* Every observer finds the open dispatch: no listing makes an answered    *)
(* dispatch look newer than one that is still open, so neither a send nor  *)
(* a reply can act on the wrong one (Current picks by mtime, ties by ID).  *)
OpenIsCurrent ==
  \A i \in IdsOf(msgs) \ Replied : Current(Listed) = {i}

(* A recovery move never opens a dispatch, even when a reply lands between *)
(* its snapshot and its delivery (dispatcher.go, cmdWait).                 *)
MoveNeverOpens ==
  [][\A m \in msgs' \ msgs : m.from \in Movers => m.id \in IdsOf(msgs)]_vars

(* The turn lock is a complete fence between turn starts: as long as no    *)
(* command has ended a session, the agent has at most one.                 *)
FenceHolds == ~unfenced => \A s, t \in live : s = t

(* The channel is the one the protocol describes: this implements Channel. *)
Delivered ==
  {[id |-> m.id, seq |-> m.seq, kind |-> m.kind, from |-> m.from] : m \in msgs}

Chan == INSTANCE Channel WITH
  Writers <- Commands,
  MaxSeq  <- SeqLimit + 1,
  opened  <- IdsOf(msgs),
  closed  <- Replied,
  mail    <- Delivered

ChannelSpec == Chan!ChanSpec

-----------------------------------------------------------------------------
(* What the repository says and the code does not do.                      *)

(* "a local flock is a complete fence" against a second session            *)
(* (dispatcher.go, startTurn): the agent never has two.                    *)
OneSession == \A s, t \in live : s = t

(* "dispatch %s is already closed by its reply" (worker.go, cmdReply): a   *)
(* reply, once there, is never replaced.                                   *)
RepliesStand ==
  [][\A i \in Ids : reply[i] # Nobody => reply'[i] = reply[i]]_vars
==============================================================================
