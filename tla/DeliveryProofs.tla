--------------------------- MODULE DeliveryProofs ---------------------------
(***************************************************************************)
(* Proofs about Delivery, for every set of commands and replies, every     *)
(* number of dispatches and messages, and an agent's clock that stands     *)
(* still or moves on between any two steps.                                *)
(*                                                                         *)
(* The invariant has four parts.  ChannelOK says what the message files    *)
(* and reply files look like.  SnapshotOK says that what a command listed  *)
(* was such a channel once.  PlanOK says that the name a command is about  *)
(* to claim was right when it was chosen, in terms that stay true: other   *)
(* commands only add messages and replies.  FenceOK is about the session.  *)
(***************************************************************************)
EXTENDS Delivery, TLAPS

Opener(o, i) == o.id = i /\ o.seq = 0 /\ o.kind = "plain"

(* Every dispatch has its opening message. *)
HasOpeners(ms) == \A m \in ms : \E o \in ms : Opener(o, m.id)

(* Dispatches are numbered without a gap. *)
NoGaps(ms) == \A m \in ms : 1 .. m.id \subseteq IdsOf(ms)

(* An opening message is no newer than what its dispatch and later hold. *)
InOrder(ms) ==
  \A o, m \in ms : o.seq = 0 /\ o.id <= m.id => o.mtime <= m.mtime

ChannelOK ==
  /\ HasOpeners(msgs)
  /\ NoGaps(msgs)
  /\ InOrder(msgs)
  /\ \A m \in msgs : m.mtime <= now /\ m.seq <= SeqLimit + 1
  /\ \A m, n \in msgs : m.id < n.id => reply[m.id] # Nobody
  /\ \A r \in Repliers : replying[r] # 0 => replying[r] \in IdsOf(msgs)

Snapshot(ms) ==
  /\ ms \subseteq msgs
  /\ HasOpeners(ms)
  /\ NoGaps(ms)
  /\ \A m \in ms : m.seq <= SeqLimit

SnapshotOK == \A p \in Commands : pc[p] = "decide" => Snapshot(call[p].msgs)

Plan(n) ==
  /\ n.id \in Ids /\ n.kind \in Kinds
  /\ n.seq <= SeqLimit + 1
  /\ n.seq = 0 =>
       /\ n.kind = "plain"
       /\ \A i \in Ids : i < n.id => i \in IdsOf(msgs) /\ reply[i] # Nobody
  /\ n.seq # 0 => n.id \in IdsOf(msgs)

PlanOK ==
  \A p \in Commands : pc[p] \in {"put", "kill", "forget"} =>
    /\ Plan(call[p].name)
    /\ p \in Movers => call[p].name.seq # 0

FenceOK ==
  /\ \A p \in Commands : pc[p] = "launch" => turnlock = p
  /\ \A p \in Commands : pc[p] = "forget" => unfenced
  /\ ~unfenced =>
       /\ live \subseteq {marker}
       /\ \A p \in Commands : pc[p] = "launch" => call[p].session = marker

IInv == TypeOK /\ ChannelOK /\ SnapshotOK /\ PlanOK /\ FenceOK

-----------------------------------------------------------------------------
(* What Current computes on a well-formed listing.                         *)

(* A dispatch opened when its opening message was written. *)
LEMMA OpeningTime ==
  ASSUME NEW ms \in SUBSET Msg, InOrder(ms),
         NEW o \in ms, o.seq = 0
  PROVE  OpenedAt(ms, o.id) = o.mtime
<1> DEFINE T == {m.mtime : m \in {n \in ms : n.id = o.id}}
           First(t) == \A m \in ms : m.id = o.id => t <= m.mtime
<1>1. o.mtime \in T /\ First(o.mtime)
  BY DEF InOrder, Msg, Ids
<1>2. \A t \in T : First(t) => t = o.mtime
  BY <1>1 DEF Msg
<1>3. OpenedAt(ms, o.id) = CHOOSE t \in T : First(t)
  BY DEF OpenedAt
<1> QED BY <1>1, <1>2, <1>3

(* The current dispatch is the one with the largest number: opening times  *)
(* never run against the numbers, and ties go to the larger one.           *)
LEMMA NewestIsCurrent ==
  ASSUME NEW ms \in SUBSET Msg, HasOpeners(ms), InOrder(ms),
         NEW i \in IdsOf(ms), \A j \in IdsOf(ms) : j <= i
  PROVE  Current(ms) = {i}
<1>1. \A j, k \in IdsOf(ms) : j <= k =>
        /\ OpenedAt(ms, j) \in Nat /\ OpenedAt(ms, k) \in Nat
        /\ OpenedAt(ms, j) <= OpenedAt(ms, k)
  <2> SUFFICES ASSUME NEW j \in IdsOf(ms), NEW k \in IdsOf(ms), j <= k
               PROVE  /\ OpenedAt(ms, j) \in Nat /\ OpenedAt(ms, k) \in Nat
                      /\ OpenedAt(ms, j) <= OpenedAt(ms, k)
    OBVIOUS
  <2>1. PICK o \in ms : Opener(o, j)
    BY DEF HasOpeners, IdsOf
  <2>2. PICK q \in ms : Opener(q, k)
    BY DEF HasOpeners, IdsOf
  <2>3. OpenedAt(ms, j) = o.mtime
    BY <2>1, OpeningTime DEF Opener
  <2>4. OpenedAt(ms, k) = q.mtime
    BY <2>2, OpeningTime DEF Opener
  <2> QED BY <2>1, <2>2, <2>3, <2>4 DEF InOrder, Opener, Msg
<1>2. IdsOf(ms) \subseteq Nat
  BY DEF IdsOf, Msg, Ids
<1>3. i \in Current(ms)
  BY <1>1, <1>2 DEF Current
<1>4. ASSUME NEW j \in Current(ms)
      PROVE  j = i
  <2>1. j \in IdsOf(ms) /\ j <= i
    BY <1>4 DEF Current
  <2>2. OpenedAt(ms, j) <= OpenedAt(ms, i)
    BY <1>1, <2>1
  <2>3. \/ OpenedAt(ms, i) < OpenedAt(ms, j)
        \/ OpenedAt(ms, i) = OpenedAt(ms, j) /\ i <= j
    BY <1>4 DEF Current
  <2> QED BY <1>1, <1>2, <2>1, <2>2, <2>3
<1> QED BY <1>3, <1>4

(* Listings are smaller than the channel, and share its order. *)
LEMMA PartInOrder ==
  ASSUME NEW ms, NEW ns \in SUBSET ms, InOrder(ms)
  PROVE  InOrder(ns)
BY DEF InOrder

(* What is listed of a well-formed channel is a snapshot of it. *)
LEMMA ListedIsSnapshot ==
  ASSUME TypeOK, ChannelOK
  PROVE  Snapshot(Listed)
<1>1. HasOpeners(Listed)
  <2> SUFFICES ASSUME NEW m \in Listed PROVE \E o \in Listed : Opener(o, m.id)
    BY DEF HasOpeners
  <2>1. PICK o \in msgs : Opener(o, m.id)
    BY DEF ChannelOK, HasOpeners, Listed
  <2>2. o \in Listed
    BY <2>1, DeliveryAssumption DEF Opener, Listed
  <2> QED BY <2>1, <2>2
<1>2. NoGaps(Listed)
  <2> SUFFICES ASSUME NEW m \in Listed, NEW i \in 1 .. m.id
               PROVE  i \in IdsOf(Listed)
    BY DEF NoGaps
  <2>1. i \in IdsOf(msgs)
    BY DEF ChannelOK, NoGaps, Listed
  <2>2. PICK n \in msgs : n.id = i
    BY <2>1 DEF IdsOf
  <2>3. PICK o \in msgs : Opener(o, i)
    BY <2>2 DEF ChannelOK, HasOpeners
  <2> QED BY <2>3, DeliveryAssumption DEF Opener, Listed, IdsOf
<1> QED BY <1>1, <1>2 DEF Snapshot, Listed

-----------------------------------------------------------------------------
(* Type correctness.  A planned name is in range because Plan says so.     *)

LEMMA NoCallType == NoCall \in Call
BY DEF NoName, NoCall, Keep, Call, Name, Wants, Kinds

LEMMA KeepType ==
  ASSUME NEW w \in Wants, NEW n \in Name,
         NEW retried \in BOOLEAN, NEW driven \in BOOLEAN
  PROVE  Keep(w, n, retried, driven) \in Call
BY DEF Keep, Call

(* A command's next step leaves what it remembers well typed. *)
LEMMA ReturnType ==
  ASSUME TypeOK, NEW p \in Commands, Return(p)
  PROVE  pc' \in [Commands -> Steps] /\ call' \in [Commands -> Call]
BY NoCallType DEF TypeOK, Return, Goto, Steps

(* The names a command chooses from have the type of a name. *)
LEMMA NextNames ==
  ASSUME NEW ms \in SUBSET Msg
  PROVE  /\ OpenerNames(ms) \subseteq Name
         /\ \A k \in Kinds : NextMsgNames(ms, k) \subseteq Name
<1>1. IdsOf(ms) \subseteq Nat
  BY DEF IdsOf, Msg, Ids
<1>2. OpenerNames(ms) \subseteq Name
  <2>1. NextDispatch(ms) \subseteq Nat
    BY <1>1 DEF NextDispatch, Largest
  <2> QED BY <2>1 DEF OpenerNames, Name, Kinds
<1>3. ASSUME NEW k \in Kinds, NEW n \in NextMsgNames(ms, k)
      PROVE  n \in Name
  <2>1. PICK i \in Current(ms) :
          \E s \in Largest({m.seq : m \in {q \in ms : q.id = i}}) :
            n = [id |-> i, seq |-> s + 1, kind |-> k]
    BY <1>3 DEF NextMsgNames
  <2>2. i \in Nat
    BY <1>1 DEF Current
  <2> QED BY <2>1, <2>2 DEF Largest, Msg, Name
<1> QED BY <1>2, <1>3

LEMMA TypeStep ==
  ASSUME IInv, [Next]_vars
  PROVE  TypeOK'
<1> USE DEF IInv
<1>1. CASE UNCHANGED vars
  BY <1>1 DEF TypeOK, vars
<1>2. ASSUME NEW p \in Commands, ListMessages(p)
      PROVE  TypeOK'
  <2>1. Listed \in SUBSET Msg
    BY DEF TypeOK, Listed
  <2>2. call' \in [Commands -> Call]
    <3>1. call \in [Commands -> Call]
      BY DEF TypeOK
    <3>2. CASE pc[p] = "idle"
      <4>1. PICK w \in IF p \in Senders THEN {"open", "continue"} ELSE MoveKinds :
              call' = [call EXCEPT ![p].want = w, ![p].msgs = Listed]
        BY <1>2, <3>2 DEF ListMessages
      <4>2. w \in Wants
        BY DeliveryAssumption DEF Wants, Moves
      <4> QED BY <2>1, <3>1, <4>1, <4>2 DEF Call
    <3>3. CASE pc[p] = "again"
      <4>1. call' = [call EXCEPT ![p].msgs = Listed]
        BY <1>2, <3>3 DEF ListMessages
      <4> QED BY <2>1, <3>1, <4>1 DEF Call
    <3> QED BY <1>2, <3>2, <3>3 DEF ListMessages
  <2> QED BY <1>2, <2>2 DEF ListMessages, Goto, TypeOK, Steps, chanState, nodeState
<1>3. ASSUME NEW p \in Commands, SendTarget(p)
      PROVE  TypeOK'
  <2> DEFINE c     == call[p]
             opens == ~IsOpen(c.msgs)
             names == IF opens THEN OpenerNames(c.msgs)
                      ELSE NextMsgNames(c.msgs, "plain")
  <2>1. call \in [Commands -> Call] /\ pc \in [Commands -> Steps] /\ c \in Call
    BY DEF TypeOK
  <2>2. names \subseteq Name
    BY <2>1, NextNames DEF Call, Kinds
  <2>3. pc' \in [Commands -> Steps] /\ call' \in [Commands -> Call]
    <3>1. CASE Return(p)
      BY <3>1, ReturnType
    <3>2. ASSUME NEW n \in names,
                 call' = [call EXCEPT ![p] =
                   Keep(c.want, n, c.retried, ~opens /\ driving # {})],
                 Goto(p, "put")
          PROVE  pc' \in [Commands -> Steps] /\ call' \in [Commands -> Call]
      <4>1. n \in Name /\ c.want \in Wants /\ c.retried \in BOOLEAN
        BY <2>1, <2>2 DEF Call
      <4>2. Keep(c.want, n, c.retried, ~opens /\ driving # {}) \in Call
        BY <4>1, KeepType
      <4> HIDE DEF c, opens, names
      <4> QED BY <2>1, <3>2, <4>2 DEF Goto, Steps
    <3> QED BY <1>3, <3>1, <3>2 DEF SendTarget
  <2> HIDE DEF c, opens, names
  <2> QED BY <1>3, <2>3 DEF SendTarget, TypeOK, chanState, nodeState
<1>4. ASSUME NEW p \in Commands, ChooseMove(p)
      PROVE  TypeOK'
  <2> DEFINE c == call[p]
  <2>1. call \in [Commands -> Call] /\ pc \in [Commands -> Steps] /\ c \in Call
    BY DEF TypeOK
  <2>2. KindOf(c.want) \in Kinds
    BY <2>1 DEF Call, KindOf, Wants, Moves, Kinds
  <2>3. NextMsgNames(c.msgs, KindOf(c.want)) \subseteq Name
    BY <2>1, <2>2, NextNames DEF Call
  <2>4. pc' \in [Commands -> Steps] /\ call' \in [Commands -> Call]
    <3>1. CASE Return(p)
      BY <3>1, ReturnType
    <3>2. ASSUME NEW n \in NextMsgNames(c.msgs, KindOf(c.want)),
                 call' = [call EXCEPT ![p] = Keep(c.want, n, FALSE, FALSE)],
                 Goto(p, IF EndsSession(p) THEN "kill" ELSE "put")
          PROVE  pc' \in [Commands -> Steps] /\ call' \in [Commands -> Call]
      <4>1. Keep(c.want, n, FALSE, FALSE) \in Call
        BY <2>1, <2>3, KeepType DEF Call
      <4> HIDE DEF c
      <4> QED BY <2>1, <3>2, <4>1 DEF Goto, Steps
    <3> QED BY <1>4, <3>1, <3>2 DEF ChooseMove
  <2> HIDE DEF c
  <2> QED BY <1>4, <2>4 DEF ChooseMove, TypeOK, chanState, nodeState
<1>5. ASSUME NEW p \in Commands, PutMsg(p)
      PROVE  TypeOK'
  <2>1. msgs' \subseteq Msg
    <3>1. call[p].name.id \in Ids /\ call[p].name.kind \in Kinds
      BY <1>5 DEF PutMsg, PlanOK, Plan
    <3>2. call[p].name.seq \in Nat
      BY DEF TypeOK, Call, Name
    <3>3. now \in Nat
      BY DeliveryAssumption DEF TypeOK
    <3> QED BY <1>5, <3>1, <3>2, <3>3 DEF PutMsg, TypeOK, Msg
  <2>2. pc' \in [Commands -> Steps] /\ call' \in [Commands -> Call]
    BY <1>5, ReturnType DEF PutMsg, TypeOK, Goto, Steps
  <2> QED BY <1>5, <2>1, <2>2 DEF PutMsg, TypeOK, nodeState
<1>6. ASSUME NEW p \in Commands, PutCollides(p)
      PROVE  TypeOK'
  <2>1. pc' \in [Commands -> Steps] /\ call' \in [Commands -> Call]
    <3>1. CASE Return(p)
      BY <3>1, ReturnType
    <3>2. CASE /\ call' = [call EXCEPT ![p] =
                             Keep(call[p].want, NoName, TRUE, FALSE)]
               /\ Goto(p, "again")
      <4>1. NoName \in Name
        BY DEF NoName, Name, Kinds
      <4>2. Keep(call[p].want, NoName, TRUE, FALSE) \in Call
        BY <4>1, KeepType DEF TypeOK, Call
      <4> QED BY <3>2, <4>2 DEF TypeOK, Goto, Steps
    <3> QED BY <1>6, <3>1, <3>2 DEF PutCollides
  <2> QED BY <1>6, <2>1 DEF PutCollides, TypeOK, chanState, nodeState
<1>7. ASSUME NEW p \in Commands, KillSession(p)
      PROVE  TypeOK'
  BY <1>7 DEF KillSession, TypeOK, Goto, Steps, chanState, nodeState
<1>8. ASSUME NEW p \in Commands, ForgetSession(p)
      PROVE  TypeOK'
  BY <1>8 DEF ForgetSession, TypeOK, Goto, Steps, chanState, nodeState
<1>9. ASSUME NEW p \in Commands, LockSession(p)
      PROVE  TypeOK'
  BY <1>9 DEF LockSession, TypeOK, Goto, Steps, Call, chanState, nodeState
<1>10. ASSUME NEW p \in Commands, LaunchTurn(p)
       PROVE  TypeOK'
  BY <1>10, ReturnType DEF LaunchTurn, TypeOK, chanState
<1>11. ASSUME NEW p \in Commands, Abort(p)
       PROVE  TypeOK'
  BY <1>11, ReturnType DEF Abort, TypeOK, chanState, nodeState
<1>12. ASSUME NEW s \in Sessions, TurnEnds(s)
       PROVE  TypeOK'
  BY <1>12 DEF TurnEnds, TypeOK, chanState
<1>13. ASSUME NEW r \in Repliers, ReplyCheck(r) \/ ReplyWrite(r)
       PROVE  TypeOK'
  BY <1>13 DEF ReplyCheck, ReplyWrite, TypeOK, Current, IdsOf, Listed, Msg, chanState, nodeState
<1>14. CASE Tick
  BY <1>14, DeliveryAssumption DEF Tick, TypeOK, chanState, nodeState
<1> QED
  BY <1>1, <1>2, <1>3, <1>4, <1>5, <1>6, <1>7, <1>8, <1>9, <1>10, <1>11,
     <1>12, <1>13, <1>14 DEF Next, Step

-----------------------------------------------------------------------------
(* The channel only grows.                                                 *)

Grows ==
  /\ msgs \subseteq msgs'
  /\ \A i \in Ids : reply[i] # Nobody => reply'[i] # Nobody

LEMMA ChannelGrows ==
  ASSUME TypeOK, [Next]_vars
  PROVE  Grows
<1>1. ASSUME NEW r \in Repliers, ReplyWrite(r)
      PROVE  Grows
  BY <1>1, DeliveryAssumption DEF ReplyWrite, Grows, TypeOK
<1>2. ASSUME NEW p \in Commands, PutMsg(p)
      PROVE  Grows
  BY <1>2 DEF PutMsg, Grows
<1>3. CASE UNCHANGED <<msgs, reply>>
  BY <1>3 DEF Grows
<1> QED
  BY <1>1, <1>2, <1>3
  DEF Next, Step, vars, chanState, ListMessages, SendTarget, ChooseMove,
      PutCollides, KillSession, ForgetSession, LockSession, LaunchTurn, Abort,
      TurnEnds, ReplyCheck, Tick

(* A snapshot stays one, and a plan that was right stays right. *)
LEMMA SnapshotStable ==
  ASSUME Grows
  PROVE  \A ms : Snapshot(ms) => Snapshot(ms)'
BY DEF Grows, Snapshot, HasOpeners, NoGaps, IdsOf, Opener

LEMMA PlanStable ==
  ASSUME Grows
  PROVE  \A n : Plan(n) => Plan(n)'
BY DEF Grows, Plan, IdsOf

LEMMA SnapshotStep ==
  ASSUME IInv, [Next]_vars
  PROVE  SnapshotOK'
<1> USE DEF IInv
<1>1. Grows
  BY ChannelGrows
<1>2. ASSUME NEW p \in Commands, ListMessages(p)
      PROVE  SnapshotOK'
  <2>1. Snapshot(Listed)
    BY ListedIsSnapshot
  <2>2. call'[p].msgs = Listed
    <3>1. CASE pc[p] = "idle"
      <4>1. PICK w \in IF p \in Senders THEN {"open", "continue"} ELSE MoveKinds :
              call' = [call EXCEPT ![p].want = w, ![p].msgs = Listed]
        BY <1>2, <3>1 DEF ListMessages
      <4> QED BY <4>1 DEF TypeOK, Call
    <3>2. CASE pc[p] = "again"
      BY <1>2, <3>2 DEF ListMessages, TypeOK, Call
    <3> QED BY <1>2, <3>1, <3>2 DEF ListMessages
  <2>3. \A q \in Commands : q # p => call'[q] = call[q] /\ pc'[q] = pc[q]
    BY <1>2 DEF ListMessages, Goto, TypeOK
  <2> QED BY <1>1, <2>1, <2>2, <2>3, SnapshotStable DEF SnapshotOK
<1>3. ASSUME NEW p \in Commands, Step(p), ~ListMessages(p)
      PROVE  SnapshotOK'
  <2>1. pc'[p] # "decide"
    BY <1>3 DEF Step, SendTarget, ChooseMove, PutMsg, PutCollides, KillSession,
      ForgetSession, LockSession, LaunchTurn, Abort, Goto, Return, TypeOK, Steps
  <2>2. \A q \in Commands : q # p => call'[q] = call[q] /\ pc'[q] = pc[q]
    BY <1>3 DEF Step, SendTarget, ChooseMove, PutMsg, PutCollides, KillSession,
      ForgetSession, LockSession, LaunchTurn, Abort, Goto, Return, TypeOK
  <2> QED BY <1>1, <2>1, <2>2, SnapshotStable DEF SnapshotOK
<1>4. CASE UNCHANGED <<pc, call>>
  BY <1>1, <1>4, SnapshotStable DEF SnapshotOK
<1> QED BY <1>2, <1>3, <1>4 DEF Next, vars, TurnEnds, ReplyCheck, ReplyWrite, Tick

LEMMA FenceStep ==
  ASSUME IInv, [Next]_vars
  PROVE  FenceOK'
<1> USE DEF IInv
<1>1. CASE UNCHANGED vars
  BY <1>1 DEF FenceOK, vars
<1>2. ASSUME NEW p \in Commands,
             \/ ListMessages(p) \/ SendTarget(p) \/ ChooseMove(p)
             \/ PutMsg(p) \/ PutCollides(p)
      PROVE  FenceOK'
  <2>1. UNCHANGED <<live, marker, turnlock, unfenced>>
    BY <1>2 DEF ListMessages, SendTarget, ChooseMove, PutMsg, PutCollides, nodeState
  <2>2. pc'[p] \notin {"launch", "forget"}
    BY <1>2 DEF ListMessages, SendTarget, ChooseMove, PutMsg, PutCollides,
      Goto, Return, TypeOK
  <2>3. \A q \in Commands : q # p => call'[q] = call[q] /\ pc'[q] = pc[q]
    BY <1>2 DEF ListMessages, SendTarget, ChooseMove, PutMsg, PutCollides,
      Goto, Return, TypeOK
  <2> QED BY <2>1, <2>2, <2>3 DEF FenceOK
<1>3. ASSUME NEW p \in Commands, KillSession(p)
      PROVE  FenceOK'
  BY <1>3 DEF KillSession, FenceOK, Goto, TypeOK
<1>4. ASSUME NEW p \in Commands, ForgetSession(p)
      PROVE  FenceOK'
  BY <1>4 DEF ForgetSession, FenceOK, Goto, TypeOK
<1>5. ASSUME NEW p \in Commands, LockSession(p)
      PROVE  FenceOK'
  <2>1. \A q \in Commands : pc[q] # "launch"
    BY <1>5, DeliveryAssumption DEF LockSession, FenceOK, Commands
  <2>2. /\ pc'[p] = "launch" /\ turnlock' = p /\ call'[p].session = marker
        /\ UNCHANGED <<live, marker, unfenced>>
    BY <1>5 DEF LockSession, Goto, TypeOK, Call, nodeState
  <2>3. \A q \in Commands : q # p => call'[q] = call[q] /\ pc'[q] = pc[q]
    BY <1>5 DEF LockSession, Goto, TypeOK
  <2> QED BY <2>1, <2>2, <2>3 DEF FenceOK
<1>6. ASSUME NEW p \in Commands, LaunchTurn(p)
      PROVE  FenceOK'
  <2>1. \A q \in Commands : q # p => pc[q] # "launch"
    BY <1>6 DEF LaunchTurn, FenceOK
  <2>2. \A q \in Commands : pc'[q] # "launch"
    BY <1>6, <2>1 DEF LaunchTurn, Return, Goto, TypeOK
  <2>3. \A q \in Commands : pc'[q] = "forget" => pc[q] = "forget"
    BY <1>6 DEF LaunchTurn, Return, Goto, TypeOK
  <2>4. ~unfenced' => live' \subseteq {marker'}
    BY <1>6, DeliveryAssumption DEF LaunchTurn, FenceOK, TypeOK
  <2> QED BY <1>6, <2>2, <2>3, <2>4 DEF FenceOK, LaunchTurn
<1>7. ASSUME NEW p \in Commands, Abort(p)
      PROVE  FenceOK'
  BY <1>7 DEF Abort, FenceOK, Return, Goto, TypeOK, nodeState
<1>8. CASE UNCHANGED <<live, marker, turnlock, unfenced, pc, call>>
  BY <1>8 DEF FenceOK
<1> QED BY <1>1, <1>2, <1>3, <1>4, <1>5, <1>6, <1>7, <1>8
        DEF Next, Step, TurnEnds, ReplyCheck, ReplyWrite, Tick, nodeState

-----------------------------------------------------------------------------
(* The names that are chosen from a snapshot.                              *)

LEMMA ContinuationPlanned ==
  ASSUME TypeOK, ChannelOK, NEW ms, Snapshot(ms), NEW k \in Kinds,
         NEW n \in NextMsgNames(ms, k)
  PROVE  Plan(n) /\ n.seq # 0
<1>1. PICK i \in Current(ms) :
        \E s \in Largest({m.seq : m \in {q \in ms : q.id = i}}) :
          n = [id |-> i, seq |-> s + 1, kind |-> k]
  BY DEF NextMsgNames
<1>2. PICK m \in ms : m.id = i /\ n = [id |-> i, seq |-> m.seq + 1, kind |-> k]
  BY <1>1 DEF Largest
<1>3. m \in Msg /\ m \in msgs /\ m.seq <= SeqLimit
  BY DEF Snapshot, TypeOK
<1> QED BY <1>2, <1>3, DeliveryAssumption DEF Plan, Msg, IdsOf

(* A snapshot whose current dispatch is answered has all of them answered, *)
(* so the next number is one past dispatches that are closed.              *)
LEMMA OpenerPlanned ==
  ASSUME TypeOK, ChannelOK, NEW ms, Snapshot(ms), ~IsOpen(ms),
         NEW n \in OpenerNames(ms)
  PROVE  Plan(n)
<1>1. PICK k \in NextDispatch(ms) :
        k <= MaxDispatchSeq /\ n = [id |-> k, seq |-> 0, kind |-> "plain"]
  BY DEF OpenerNames
<1>2. ms \in SUBSET Msg /\ IdsOf(ms) \subseteq Ids
  BY DEF Snapshot, TypeOK, IdsOf, Msg
<1>3. CASE ms = {}
  <2>1. k = 1
    BY <1>1, <1>3 DEF NextDispatch
  <2> QED BY <1>1, <2>1, DeliveryAssumption DEF Plan, Ids, Kinds
<1>4. CASE ms # {}
  <2>1. PICK i \in Largest(IdsOf(ms)) : k = i + 1
    BY <1>1, <1>4 DEF NextDispatch
  <2>2. i \in IdsOf(ms) /\ \A j \in IdsOf(ms) : j <= i
    BY <2>1 DEF Largest
  <2>3. HasOpeners(ms) /\ InOrder(ms)
    BY PartInOrder DEF Snapshot, ChannelOK
  <2>4. Current(ms) = {i}
    BY <1>2, <2>2, <2>3, NewestIsCurrent
  <2>5. reply[i] # Nobody
    BY <2>4 DEF IsOpen, Replied
  <2>6. \A j \in Ids : j <= i => j \in IdsOf(msgs)
    <3>1. PICK m \in ms : m.id = i
      BY <2>2 DEF IdsOf
    <3>2. 1 .. i \subseteq IdsOf(ms)
      BY <3>1 DEF Snapshot, NoGaps
    <3> QED BY <1>2, <2>2, <3>2 DEF Ids, Snapshot, IdsOf
  <2>7. \A j \in Ids : j < i => reply[j] # Nobody
    <3> SUFFICES ASSUME NEW j \in Ids, j < i
                 PROVE  reply[j] # Nobody
      OBVIOUS
    <3>1. PICK m \in msgs : m.id = j
      BY <1>2, <2>2, <2>6 DEF IdsOf, Ids
    <3>2. PICK o \in msgs : o.id = i
      BY <2>2 DEF IdsOf, Snapshot
    <3> QED BY <3>1, <3>2 DEF ChannelOK
  <2>8. k \in Ids /\ \A j \in Ids : j < k => j <= i
    BY <1>1, <1>2, <2>1, <2>2, DeliveryAssumption DEF Ids
  <2>9. \A j \in Ids : j <= i => reply[j] # Nobody
    BY <1>2, <2>2, <2>5, <2>7 DEF Ids
  <2> QED BY <1>1, <2>6, <2>8, <2>9, DeliveryAssumption DEF Plan, Kinds
<1> QED BY <1>3, <1>4

LEMMA PlanStep ==
  ASSUME IInv, [Next]_vars
  PROVE  PlanOK'
<1> USE DEF IInv
<1> DEFINE Planning == {"put", "kill", "forget"}
<1>1. Grows
  BY ChannelGrows
<1>2. ASSUME NEW p \in Commands, SendTarget(p)
      PROVE  PlanOK'
  <2> DEFINE c     == call[p]
             opens == ~IsOpen(c.msgs)
             names == IF opens THEN OpenerNames(c.msgs)
                      ELSE NextMsgNames(c.msgs, "plain")
  <2>1. Snapshot(c.msgs)
    BY <1>2 DEF SendTarget, SnapshotOK
  <2>2. \A n \in names : Plan(n)
    BY <2>1, OpenerPlanned, ContinuationPlanned DEF Kinds
  <2>3. pc'[p] \in Planning => Plan(call'[p].name)
    <3>1. CASE Return(p)
      BY <3>1 DEF Return, Goto, TypeOK
    <3>2. ASSUME NEW n \in names,
                 call' = [call EXCEPT ![p] =
                   Keep(c.want, n, c.retried, ~opens /\ driving # {})]
          PROVE  Plan(call'[p].name)
      <4>1. Plan(n)
        BY <2>2
      <4> HIDE DEF c, opens, names
      <4>2. call'[p].name = n
        BY <3>2 DEF TypeOK, Keep
      <4> QED BY <4>1, <4>2
    <3> QED BY <1>2, <3>1, <3>2 DEF SendTarget
  <2>4. p \notin Movers
    BY <1>2, DeliveryAssumption DEF SendTarget
  <2>5. \A q \in Commands : q # p => call'[q] = call[q] /\ pc'[q] = pc[q]
    BY <1>2 DEF SendTarget, Goto, Return, TypeOK
  <2> HIDE DEF c, opens, names
  <2> QED BY <1>1, <1>2, <2>3, <2>4, <2>5, PlanStable DEF PlanOK
<1>3. ASSUME NEW p \in Commands, ChooseMove(p)
      PROVE  PlanOK'
  <2> DEFINE c == call[p]
  <2>1. Snapshot(c.msgs) /\ KindOf(c.want) \in Kinds
    BY <1>3 DEF ChooseMove, SnapshotOK, TypeOK, Call, KindOf, Kinds, Wants, Moves
  <2>2. \A n \in NextMsgNames(c.msgs, KindOf(c.want)) : Plan(n) /\ n.seq # 0
    BY <2>1, ContinuationPlanned
  <2>3. pc'[p] \in Planning => Plan(call'[p].name) /\ call'[p].name.seq # 0
    <3>1. CASE Return(p)
      BY <3>1 DEF Return, Goto, TypeOK
    <3>2. ASSUME NEW n \in NextMsgNames(c.msgs, KindOf(c.want)),
                 call' = [call EXCEPT ![p] = Keep(c.want, n, FALSE, FALSE)]
          PROVE  Plan(call'[p].name) /\ call'[p].name.seq # 0
      <4>1. Plan(n) /\ n.seq # 0
        BY <2>2
      <4> HIDE DEF c
      <4>2. call'[p].name = n
        BY <3>2 DEF TypeOK, Keep
      <4> QED BY <4>1, <4>2
    <3> QED BY <1>3, <3>1, <3>2 DEF ChooseMove
  <2>4. \A q \in Commands : q # p => call'[q] = call[q] /\ pc'[q] = pc[q]
    BY <1>3 DEF ChooseMove, Goto, Return, TypeOK
  <2> HIDE DEF c
  <2> QED BY <1>1, <1>3, <2>3, <2>4, PlanStable DEF PlanOK
<1>4. ASSUME NEW p \in Commands,
             PutMsg(p) \/ KillSession(p) \/ ForgetSession(p)
      PROVE  PlanOK'
  <2>1. \A q \in Commands : pc'[q] \in Planning =>
          pc[q] \in Planning /\ call'[q] = call[q]
    BY <1>4 DEF PutMsg, KillSession, ForgetSession, Goto, Return, TypeOK
  <2> QED BY <1>1, <2>1, PlanStable DEF PlanOK
<1>5. ASSUME NEW p \in Commands,
             \/ ListMessages(p) \/ PutCollides(p) \/ LockSession(p)
             \/ LaunchTurn(p) \/ Abort(p)
      PROVE  PlanOK'
  <2>1. \A q \in Commands : pc'[q] \in Planning =>
          pc[q] \in Planning /\ call'[q] = call[q]
    BY <1>5 DEF ListMessages, PutCollides, LockSession, LaunchTurn, Abort,
      Goto, Return, TypeOK
  <2> QED BY <1>1, <2>1, PlanStable DEF PlanOK
<1>6. CASE UNCHANGED <<pc, call>>
  BY <1>1, <1>6, PlanStable DEF PlanOK
<1> QED BY <1>2, <1>3, <1>4, <1>5, <1>6
        DEF Next, Step, vars, TurnEnds, ReplyCheck, ReplyWrite, Tick

-----------------------------------------------------------------------------
(* Claiming a planned name keeps the channel in order.                     *)

(* An opening name that is planned and free is past every dispatch there   *)
(* is: had somebody opened its dispatch, or a later one, that dispatch's   *)
(* opening message would have taken the name.                              *)
LEMMA FreshOpener ==
  ASSUME TypeOK, ChannelOK, NEW n, Plan(n), n.seq = 0, ~NameTaken(n)
  PROVE  \A m \in msgs : m.id < n.id
<1> SUFFICES ASSUME NEW m \in msgs, n.id <= m.id
             PROVE  FALSE
  BY DEF TypeOK, Msg, Plan, Ids
<1>1. n.id \in IdsOf(msgs)
  BY DEF ChannelOK, NoGaps, Plan, Ids, TypeOK, Msg
<1>2. PICK o \in msgs : Opener(o, n.id)
  BY <1>1 DEF ChannelOK, HasOpeners, IdsOf
<1> QED BY <1>2 DEF Opener, NameTaken, Plan

LEMMA ChannelStep ==
  ASSUME IInv, [Next]_vars
  PROVE  ChannelOK'
<1> USE DEF IInv
<1>1. ASSUME NEW p \in Commands, PutMsg(p)
      PROVE  ChannelOK'
  <2> DEFINE n == call[p].name
             N == [id |-> n.id, seq |-> n.seq, kind |-> n.kind, from |-> p,
                   mtime |-> now]
  <2>1. Plan(n) /\ ~NameTaken(n) /\ n.seq \in Nat /\ now \in Nat
    BY <1>1, DeliveryAssumption DEF PutMsg, PlanOK, TypeOK, Call, Name
  <2>2. /\ msgs' = msgs \cup {N} /\ UNCHANGED <<now, reply, replying>>
        /\ n.id \in Ids /\ msgs \in SUBSET Msg
    BY <1>1, <2>1 DEF PutMsg, Plan, TypeOK
  <2> HIDE DEF n
  <2>n. N.id = n.id
    OBVIOUS
  <2>3. HasOpeners(msgs')
    <3>1. CASE n.seq = 0
      BY <2>1, <2>2, <3>1 DEF HasOpeners, ChannelOK, Opener, Plan
    <3>2. CASE n.seq # 0
      <4>1. PICK o \in msgs : Opener(o, n.id)
        BY <2>1, <3>2 DEF Plan, ChannelOK, HasOpeners, IdsOf
      <4> QED BY <2>2, <4>1 DEF HasOpeners, ChannelOK
    <3> QED BY <3>1, <3>2
  <2>4. NoGaps(msgs')
    <3> HIDE DEF N
    <3>1. IdsOf(msgs') = IdsOf(msgs) \cup {n.id}
      BY <2>2, <2>n DEF IdsOf
    <3>2. 1 .. n.id \subseteq IdsOf(msgs')
      <4>1. CASE n.seq = 0
        <5> SUFFICES ASSUME NEW i \in 1 .. n.id
                     PROVE  i \in IdsOf(msgs')
          OBVIOUS
        <5>1. i \in Ids /\ (i < n.id \/ i = n.id)
          BY <2>2, DeliveryAssumption DEF Ids
        <5> QED BY <2>1, <3>1, <4>1, <5>1 DEF Plan
      <4>2. CASE n.seq # 0
        BY <2>1, <3>1, <4>2 DEF Plan, ChannelOK, NoGaps, IdsOf
      <4> QED BY <4>1, <4>2
    <3> QED BY <2>2, <2>n, <3>1, <3>2 DEF NoGaps, ChannelOK
  <2>5. InOrder(msgs')
    <3>1. \A m \in msgs : m.mtime <= now /\ m.mtime \in Nat /\ m.id \in Nat
      BY DEF ChannelOK, TypeOK, Msg, Ids
    <3>2. n.seq = 0 => \A m \in msgs : m.id < n.id
      BY <2>1, FreshOpener
    <3> QED BY <2>1, <2>2, <3>1, <3>2 DEF InOrder, ChannelOK, Ids
  <2>6. \A m \in msgs' : m.mtime <= now' /\ m.seq <= SeqLimit + 1
    BY <2>1, <2>2 DEF ChannelOK, Plan
  <2>7. \A m, q \in msgs' : m.id < q.id => reply'[m.id] # Nobody
    <3>1. n.seq = 0 => \A m \in msgs : m.id < n.id
      BY <2>1, FreshOpener
    <3>2. \A m \in msgs : m.id \in Ids
      BY <2>2 DEF Msg
    <3>3. CASE n.seq = 0
      BY <2>1, <2>2, <3>1, <3>2, <3>3 DEF ChannelOK, Plan, Ids
    <3>4. CASE n.seq # 0
      <4>1. PICK o \in msgs : o.id = n.id
        BY <2>1, <3>4 DEF Plan, IdsOf
      <4> QED BY <2>2, <4>1, <3>2 DEF ChannelOK, Ids
    <3> QED BY <3>3, <3>4
  <2>8. \A r \in Repliers : replying'[r] # 0 => replying'[r] \in IdsOf(msgs')
    BY <2>2 DEF ChannelOK, IdsOf
  <2> QED BY <2>3, <2>4, <2>5, <2>6, <2>7, <2>8 DEF ChannelOK
<1>2. ASSUME NEW r \in Repliers, ReplyCheck(r)
      PROVE  ChannelOK'
  <2>1. \A i \in Current(Listed) : i \in IdsOf(msgs)
    BY DEF Current, IdsOf, Listed
  <2> QED BY <1>2, <2>1 DEF ReplyCheck, ChannelOK, TypeOK, chanState
<1>3. ASSUME NEW r \in Repliers, ReplyWrite(r)
      PROVE  ChannelOK'
  <2>1. /\ \A i \in Ids : reply[i] # Nobody => reply'[i] # Nobody
        /\ \A q \in Repliers : replying'[q] # 0 => replying'[q] \in IdsOf(msgs)
        /\ UNCHANGED <<now, msgs>>
    BY <1>3, DeliveryAssumption DEF ReplyWrite, TypeOK, ChannelOK
  <2> QED BY <2>1 DEF ChannelOK, TypeOK, Msg
<1>4. CASE Tick
  BY <1>4 DEF Tick, ChannelOK, TypeOK, Msg, chanState
<1>5. CASE UNCHANGED <<now, msgs, reply, replying>>
  BY <1>5 DEF ChannelOK
<1> QED BY <1>1, <1>2, <1>3, <1>4, <1>5
        DEF Next, Step, vars, chanState, ListMessages, SendTarget, ChooseMove,
            PutCollides, KillSession, ForgetSession, LockSession, LaunchTurn,
            Abort, TurnEnds

-----------------------------------------------------------------------------
(* The invariant, and the properties it gives.                             *)

LEMMA InvInit == Init => IInv
<1> SUFFICES ASSUME Init PROVE IInv
  OBVIOUS
<1>1. TypeOK
  <2>1. call \in [Commands -> Call] /\ pc \in [Commands -> Steps]
    BY NoCallType DEF Init, Steps
  <2>2. /\ reply \in [Ids -> Repliers \cup {Nobody}]
        /\ replying \in [Repliers -> Ids \cup {0}]
    BY DEF Init
  <2>3. now \in 0 .. MaxTime /\ msgs \subseteq Msg
    BY DeliveryAssumption DEF Init
  <2>4. /\ live \subseteq Sessions /\ driving \subseteq Sessions
        /\ marker \in Sessions \cup {Nobody}
        /\ turnlock \in Commands \cup {Nobody} /\ unfenced \in BOOLEAN
    BY DEF Init
  <2> QED BY <2>1, <2>2, <2>3, <2>4 DEF TypeOK
<1>2. ChannelOK
  BY DEF Init, ChannelOK, HasOpeners, NoGaps, InOrder
<1>3. SnapshotOK /\ PlanOK /\ FenceOK
  BY DEF Init, SnapshotOK, PlanOK, FenceOK
<1> QED BY <1>1, <1>2, <1>3 DEF IInv

(* Every reachable state of Delivery satisfies the inductive invariant.    *)
THEOREM InvHolds == Spec => []IInv
<1>1. IInv /\ [Next]_vars => IInv'
  BY TypeStep, ChannelStep, SnapshotStep, PlanStep, FenceStep DEF IInv
<1> QED BY <1>1, InvInit, PTL DEF Spec

(* The model's state keeps its types: in particular no command ever puts a *)
(* message under a dispatch number past the last (protocol.go, SendTarget  *)
(* and NextDispatchID).                                                    *)
THEOREM TypeCorrect == Spec => []TypeOK
BY InvHolds, PTL DEF IInv

(* However many sends mint a dispatch at once, whatever is lost on the     *)
(* way, at most one dispatch is open (dispatcher.go, sendBody;             *)
(* artifacts.go, PutMsgScript).                                            *)
THEOREM OneOpenDispatch == Spec => []AtMostOneOpen
<1>1. IInv => AtMostOneOpen
  <2> HAVE IInv
  <2>1. IdsOf(msgs) \subseteq Ids
    BY DEF IInv, TypeOK, IdsOf, Msg
  <2>2. \A i, j \in IdsOf(msgs) : i < j => i \in Replied
    BY <2>1 DEF IInv, ChannelOK, IdsOf, Replied
  <2>3. \A i, j \in IdsOf(msgs) : i # j => i < j \/ j < i
    BY <2>1 DEF Ids
  <2> QED BY <2>2, <2>3 DEF AtMostOneOpen
<1> QED BY <1>1, InvHolds, PTL

(* The dispatch that is open is the one every listing shows as current     *)
(* (protocol.go, Current), though Current compares file times and knows    *)
(* nothing of the order of the numbers.                                    *)
THEOREM OpenDispatchIsCurrent == Spec => []OpenIsCurrent
<1>1. IInv => OpenIsCurrent
  <2> SUFFICES ASSUME IInv, NEW i \in IdsOf(msgs) \ Replied
               PROVE  Current(Listed) = {i}
    BY DEF OpenIsCurrent
  <2>1. Listed \in SUBSET Msg /\ Listed \in SUBSET msgs
    BY DEF IInv, TypeOK, Listed
  <2>2. HasOpeners(Listed) /\ InOrder(Listed)
    BY <2>1, ListedIsSnapshot, PartInOrder DEF IInv, Snapshot, ChannelOK
  <2>3. PICK m \in msgs : m.id = i
    BY DEF IdsOf
  <2>4. i \in IdsOf(Listed)
    <3>1. PICK o \in msgs : Opener(o, i)
      BY <2>3 DEF IInv, ChannelOK, HasOpeners
    <3> QED BY <3>1, DeliveryAssumption DEF Opener, Listed, IdsOf
  <2>5. \A n \in msgs : n.id <= i
    BY <2>3 DEF IInv, TypeOK, Msg, ChannelOK, Replied, Ids
  <2> QED BY <2>1, <2>2, <2>4, <2>5, NewestIsCurrent DEF IdsOf
<1> QED BY <1>1, InvHolds, PTL

(* The flock on the session's turn lock (dispatcher.go, startTurn) keeps   *)
(* the agent at one session as long as nobody ends one.                    *)
THEOREM TurnLockFences == Spec => []FenceHolds
<1>1. IInv => FenceHolds
  BY DEF IInv, FenceOK, FenceHolds
<1> QED BY <1>1, InvHolds, PTL

(* A recovery move lands in a dispatch that exists (dispatcher.go,         *)
(* cmdWait and deliverPrepared).                                           *)
THEOREM MovesContinue == Spec => MoveNeverOpens
<1> DEFINE Continues ==
      \A m \in msgs' \ msgs : m.from \in Movers => m.id \in IdsOf(msgs)
<1>1. ASSUME IInv, [Next]_vars
      PROVE  [Continues]_vars
  <2>1. ASSUME NEW p \in Commands, PutMsg(p)
        PROVE  Continues
    BY <1>1, <2>1 DEF PutMsg, IInv, PlanOK, Plan
  <2>2. CASE UNCHANGED msgs
    BY <2>2
  <2> QED BY <1>1, <2>1, <2>2
          DEF Next, Step, vars, chanState, ListMessages, SendTarget, ChooseMove,
              PutCollides, KillSession, ForgetSession, LockSession, LaunchTurn,
              Abort, TurnEnds, ReplyCheck, ReplyWrite, Tick
<1> QED BY <1>1, InvHolds, PTL DEF Spec, MoveNeverOpens

-----------------------------------------------------------------------------
(* The commands and replies of Delivery implement the channel of module    *)
(* Channel: claiming a name opens the next dispatch or adds to one, the    *)
(* first reply closes its dispatch, and every other step is invisible.     *)

LEMMA PutMsgRefines ==
  ASSUME IInv, NEW p \in Commands, PutMsg(p)
  PROVE  Chan!ChanNext
<1> DEFINE n == call[p].name
           m == [id |-> n.id, seq |-> n.seq, kind |-> n.kind, from |-> p]
           N == [id |-> n.id, seq |-> n.seq, kind |-> n.kind, from |-> p,
                 mtime |-> now]
<1>1. Plan(n) /\ ~NameTaken(n) /\ n.seq \in Nat /\ n.id \in Ids
  BY DEF PutMsg, IInv, PlanOK, Plan, TypeOK, Call, Name
<1>2. msgs' = msgs \cup {N} /\ reply' = reply
  BY DEF PutMsg
<1>3. /\ m.id = n.id /\ m.seq = n.seq /\ m.kind = n.kind /\ m.from = p
      /\ N.id = n.id /\ N.seq = n.seq /\ N.kind = n.kind /\ N.from = p
  OBVIOUS
<1> HIDE DEF n, m, N
<1>4. \A q \in Delivered : ~Chan!SameName(m, q)
  BY <1>1, <1>3 DEF Chan!SameName, NameTaken, Delivered
<1>5. Delivered' = Delivered \cup {m}
  BY <1>2, <1>3 DEF Delivered, m
<1>6. m \in Delivered' \ Delivered
  BY <1>4, <1>5 DEF Chan!SameName
<1>7. m \in Chan!Mail
  BY <1>1, DeliveryAssumption DEF Plan, Chan!Mail, m, Ids
<1>8. IdsOf(msgs)' = IdsOf(msgs) \cup {n.id}
  BY <1>2, <1>3 DEF IdsOf
<1>9. Replied' = Replied
  BY <1>2 DEF Replied
<1>10. CASE n.seq = 0
  <2>1. \A j \in Ids : j < n.id <=> j \in IdsOf(msgs)
    <3>1. \A q \in msgs : q.id < n.id
      BY <1>1, <1>10, FreshOpener DEF IInv
    <3> QED BY <1>1, <1>10, <3>1 DEF Plan, IdsOf
  <2>2. IdsOf(msgs) \subseteq Replied
    <3>1. IdsOf(msgs) \subseteq Ids
      BY DEF IInv, TypeOK, IdsOf, Msg
    <3> QED BY <1>1, <1>10, <2>1, <3>1 DEF Plan, Replied
  <2>3. Chan!OpenDispatch(m)
    BY <1>3, <1>4, <1>5, <1>8, <1>9, <1>10, <2>1, <2>2
    DEF Chan!OpenDispatch, Ids
  <2> QED BY <1>6, <1>7, <2>3 DEF Chan!ChanNext
<1>11. CASE n.seq # 0
  <2>1. n.id \in IdsOf(msgs)
    BY <1>1, <1>11 DEF Plan
  <2>2. Chan!AddMessage(m)
    BY <1>1, <1>3, <1>4, <1>5, <1>8, <1>9, <1>11, <2>1
    DEF Chan!AddMessage
  <2> QED BY <1>6, <1>7, <2>2 DEF Chan!ChanNext
<1> QED BY <1>10, <1>11

LEMMA ReplyWriteRefines ==
  ASSUME IInv, NEW r \in Repliers, ReplyWrite(r)
  PROVE  [Chan!ChanNext]_(Chan!chanVars)
<1>1. msgs' = msgs /\ IdsOf(msgs)' = IdsOf(msgs) /\ Delivered' = Delivered
  BY DEF ReplyWrite, IdsOf, Delivered
<1>2. CASE Replied' = Replied
  BY <1>1, <1>2 DEF Chan!chanVars
<1>3. CASE Replied' # Replied
  <2> DEFINE i == replying[r]
  <2>1. i \in Ids /\ i \in IdsOf(msgs) /\ reply' = [reply EXCEPT ![i] = r]
    BY <1>3 DEF ReplyWrite, IInv, TypeOK, ChannelOK, Replied
  <2>2. Replied' = Replied \cup {i}
    BY <2>1, DeliveryAssumption DEF Replied, IInv, TypeOK
  <2> HIDE DEF i
  <2>3. Chan!CloseDispatch(i)
    BY <1>1, <1>3, <2>1, <2>2 DEF Chan!CloseDispatch
  <2> QED BY <2>1, <2>3 DEF Chan!ChanNext, Ids
<1> QED BY <1>2, <1>3

(* PROTOCOL.md, section 3, as module Channel states it: whoever writes to  *)
(* the channel, dispatches open one after another, each only when all      *)
(* before it are closed, no message takes another's name, and none is lost *)
(* or falls outside an opened dispatch.                                    *)
THEOREM ChannelRefined == Spec => ChannelSpec
<1>1. Init => Chan!ChanInit
  <2> HAVE Init
  <2>1. IdsOf(msgs) = {} /\ Delivered = {}
    BY DEF Init, IdsOf, Delivered
  <2>2. Replied = {}
    BY DEF Init, Replied
  <2> QED BY <2>1, <2>2 DEF Chan!ChanInit
<1>2. ASSUME IInv, [Next]_vars
      PROVE  [Chan!ChanNext]_(Chan!chanVars)
  <2>1. ASSUME NEW p \in Commands, PutMsg(p)
        PROVE  Chan!ChanNext
    BY <1>2, <2>1, PutMsgRefines
  <2>2. ASSUME NEW r \in Repliers, ReplyWrite(r)
        PROVE  [Chan!ChanNext]_(Chan!chanVars)
    BY <1>2, <2>2, ReplyWriteRefines
  <2>3. CASE UNCHANGED <<msgs, reply>>
    <3>1. IdsOf(msgs)' = IdsOf(msgs) /\ Replied' = Replied /\ Delivered' = Delivered
      BY <2>3 DEF IdsOf, Replied, Delivered
    <3> QED BY <3>1 DEF Chan!chanVars
  <2> QED BY <1>2, <2>1, <2>2, <2>3
          DEF Next, Step, vars, chanState, ListMessages, SendTarget, ChooseMove,
              PutCollides, KillSession, ForgetSession, LockSession, LaunchTurn,
              Abort, TurnEnds, ReplyCheck, Tick
<1> QED BY <1>1, <1>2, InvHolds, PTL DEF Spec, ChannelSpec, Chan!ChanSpec
==============================================================================
