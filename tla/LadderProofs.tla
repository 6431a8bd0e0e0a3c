---------------------------- MODULE LadderProofs ----------------------------
(***************************************************************************)
(* Proofs about the recovery ladder: its types, the settling of a fresh    *)
(* message, the elapsed bound, the bounds on rungs and quick hand-offs,   *)
(* and that no node is written off before its rungs ran, for every policy  *)
(* and every time.  They are about a ladder whose turns end in a second of *)
(* their own (SameSecond is FALSE) and, for the rungs, whose orchestrator  *)
(* sends no message into a running turn (SendIntoTurn is FALSE): with      *)
(* either, TLC shows the properties violated.  The last two results hold   *)
(* while the log of the dispatch fits the tail that a look reads.          *)
(***************************************************************************)
EXTENDS Ladder, FiniteSetTheorems, WellFoundedInduction, TLAPS

-----------------------------------------------------------------------------
(* The messages: numbered without gaps from the opening one, in the order   *)
(* of their times.                                                         *)
MsgInv ==
  /\ msgs \subseteq Msg /\ IsFiniteSet(msgs)
  /\ \A m \in msgs : m.at <= now
  /\ \A m, n \in msgs : m.seq = n.seq => m = n
  /\ \A m, n \in msgs : m.seq < n.seq => m.at <= n.at
  /\ \E m \in msgs : \A n \in msgs : n.seq <= m.seq
  /\ \E m \in msgs : m.at = 0

(* The log and the clock. *)
LogInv ==
  /\ now \in 0 .. MaxTime /\ looked \in BOOLEAN
  /\ log \in Seq(End) /\ \A i \in DOMAIN log : log[i].at <= now

RestInv ==
  /\ replied \in BOOLEAN /\ room \in BOOLEAN
  /\ turn \in {"none", "starting", "running"}
  /\ by \in {m.seq : m \in msgs}
  /\ (ran \cup vanished) \subseteq {m.seq : m \in msgs}
  /\ own \in 0 .. now /\ rapid \in Nat
  /\ bounds \in [sends: 0 .. MaxSends, spent: 0 .. MaxSpent,
                 misses: 0 .. MaxMisses]

BasicInv == LogInv /\ MsgInv /\ RestInv

Numbers ==
  /\ {MaxTime, MaxSends, MaxSpent, MaxMisses} \subseteq Nat
  /\ {ContinueAttempts, Restarts, ElapsedSeconds, SettlingSeconds, Handoffs, LogTail}
       \subseteq Nat \ {0}

LEMMA NumbersHold == Numbers
BY LadderAssumption, PolicyAssumption DEF Numbers, PolicyNumbers

LEMMA LogReads ==
  ASSUME LogInv
  PROVE  /\ Len(log) \in Nat /\ DOMAIN log = 1 .. Len(log)
         /\ \A i \in DOMAIN log : log[i] \in End /\ log[i].at \in Nat /\ log[i].class \in Classes
<1>1. \A i \in DOMAIN log : log[i] \in End
  BY DEF LogInv
<1>2. Len(log) \in Nat /\ DOMAIN log = 1 .. Len(log)
  BY DEF LogInv
<1>3. \A e \in End : e.at \in Nat /\ e.class \in Classes
  BY DEF End
<1> QED BY <1>1, <1>2, <1>3

LEMMA NewestIs ==
  ASSUME MsgInv
  PROVE  /\ Newest \in msgs /\ Newest \in Msg
         /\ \A n \in msgs : n.seq <= Newest.seq /\ n.at <= Newest.at
<1>1. Newest \in msgs /\ \A n \in msgs : n.seq <= Newest.seq
  BY DEF MsgInv, Newest
<1>2. ASSUME NEW n \in msgs PROVE n.at <= Newest.at
  <2>1. n.seq \in Nat /\ Newest.seq \in Nat /\ n.at \in Nat /\ Newest.at \in Nat
    BY <1>1 DEF MsgInv, Msg
  <2>2. CASE n.seq = Newest.seq
    BY <1>1, <2>1, <2>2 DEF MsgInv
  <2>3. CASE n.seq # Newest.seq
    <3>1. n.seq < Newest.seq
      BY <1>1, <2>1, <2>3
    <3> QED BY <1>1, <3>1 DEF MsgInv
  <2> QED BY <2>2, <2>3
<1> QED BY <1>1, <1>2 DEF MsgInv

(* The message that a step delivers. *)
Arrives(kind) == msgs' = msgs \cup {[seq |-> Newest.seq + 1, kind |-> kind, at |-> now]}

LEMMA ArrivesKeeps ==
  ASSUME BasicInv, NEW kind \in Kinds, Arrives(kind), now' = now
  PROVE  /\ MsgInv'
         /\ Newest' = [seq |-> Newest.seq + 1, kind |-> kind, at |-> now]
         /\ Newest' \in msgs' /\ Newest' \notin msgs
         /\ msgs' = msgs \cup {Newest'}
         /\ \A m \in msgs : m.seq < Newest'.seq
<1> DEFINE new == [seq |-> Newest.seq + 1, kind |-> kind, at |-> now]
<1>0. now \in Nat
  BY NumbersHold DEF BasicInv, LogInv, Numbers
<1>1. /\ Newest \in msgs /\ Newest.seq \in Nat
      /\ \A n \in msgs : n.seq \in Nat /\ n.at \in Nat /\ n.seq <= Newest.seq /\ n.at <= now
  BY NewestIs DEF BasicInv, MsgInv, Msg
<1>2. new \in Msg /\ new.seq = Newest.seq + 1 /\ new.at = now /\ new.kind = kind
  BY <1>0, <1>1 DEF Msg
<1>3. msgs' = msgs \cup {new}
  BY DEF Arrives
<1> HIDE DEF new
<1>4. \A n \in msgs : n.seq < new.seq /\ n.at <= new.at
  BY <1>1, <1>2
<1>5. new \notin msgs
  BY <1>1, <1>2
<1>6. IsFiniteSet(msgs')
  BY <1>3, FS_AddElement DEF BasicInv, MsgInv
<1>7. \A m, n \in msgs' : m.seq = n.seq => m = n
  BY <1>1, <1>2, <1>3, <1>4 DEF BasicInv, MsgInv
<1>8. \A m, n \in msgs' : m.seq < n.seq => m.at <= n.at
  BY <1>0, <1>1, <1>2, <1>3, <1>4 DEF BasicInv, MsgInv
<1>9. \A n \in msgs' : n.seq <= new.seq
  BY <1>1, <1>2, <1>3, <1>4
<1>10. MsgInv'
  BY <1>0, <1>2, <1>3, <1>6, <1>7, <1>8, <1>9 DEF BasicInv, MsgInv
<1>11. Newest' = new
  <2>1. Newest' \in msgs' /\ \A n \in msgs' : n.seq <= Newest'.seq
    BY <1>10 DEF MsgInv, Newest
  <2>2. new.seq <= Newest'.seq /\ Newest'.seq <= new.seq
    BY <1>3, <1>9, <2>1
  <2>3. Newest'.seq \in Nat /\ new.seq \in Nat
    BY <1>10, <1>2, <2>1 DEF MsgInv, Msg
  <2>4. Newest'.seq = new.seq
    BY <2>2, <2>3
  <2> QED BY <1>3, <1>7, <2>1, <2>4
<1> QED BY <1>3, <1>4, <1>5, <1>10, <1>11 DEF new

(* A verdict calls for one of four moves, or for none. *)
LEMMA MovesOfVerdicts ==
  ASSUME NEW f
  PROVE  Compute(f).move \in {"none", "continue", "restart", "resume", "handoff"}
<1> DEFINE Fine(v) == v.move \in {"none", "continue", "restart", "resume", "handoff"}
<1>0. \A s, m, w : Verdict(s, m, w).move = m
  BY DEF Verdict
<1>1. Fine(RefusedVerdict(f))
  BY <1>0 DEF RefusedVerdict, Stuck
<1>2. Fine(SpentVerdict(f)) /\ Fine(HandoffVerdict(f)) /\ Fine(ContextVerdict(f))
      /\ Fine(LadderVerdict(f)) /\ Fine(UnheardVerdict(f))
  BY <1>0 DEF SpentVerdict, HandoffVerdict, ContextVerdict, LadderVerdict, UnheardVerdict, Stuck
<1>3. Fine(EndedVerdict(f))
  BY <1>0, <1>1, <1>2 DEF EndedVerdict, Stuck
<1> QED BY <1>0, <1>2, <1>3 DEF Compute, Working, Stuck

LEMMA MovesAreKinds == State.move # "none" => MessageKinds(State.move) \subseteq Kinds
BY MovesOfVerdicts DEF State, MessageKinds, Kinds

-----------------------------------------------------------------------------
LEMMA InitBasic == Init => BasicInv
<1> SUFFICES ASSUME Init PROVE BasicInv
  OBVIOUS
<1> DEFINE first == [seq |-> 0, kind |-> "open", at |-> 0]
<1>1. msgs = {first} /\ first \in Msg /\ first.seq = 0 /\ first.at = 0 /\ now = 0
  BY DEF Init, Msg, Kinds
<1> HIDE DEF first
<1>2. MsgInv
  <2>1. IsFiniteSet(msgs)
    BY <1>1, FS_Singleton
  <2> QED BY <1>1, <2>1 DEF MsgInv
<1>3. LogInv
  BY NumbersHold DEF Init, LogInv, Numbers
<1>4. RestInv
  <2>1. by \in {m.seq : m \in msgs} /\ (ran \cup vanished) \subseteq {m.seq : m \in msgs}
    BY <1>1 DEF Init
  <2>2. bounds \in [sends: 0 .. MaxSends, spent: 0 .. MaxSpent, misses: 0 .. MaxMisses]
    BY NumbersHold DEF Init, Numbers
  <2>3. turn \in {"none", "starting", "running"} /\ own \in 0 .. now /\ rapid \in Nat
    BY DEF Init
  <2>4. replied \in BOOLEAN /\ room \in BOOLEAN
    BY DEF Init
  <2> QED BY <2>1, <2>2, <2>3, <2>4 DEF RestInv
<1> QED BY <1>2, <1>3, <1>4 DEF BasicInv

LEMMA MissKeeps ==
  ASSUME RestInv, Miss
  PROVE  bounds' \in [sends: 0 .. MaxSends, spent: 0 .. MaxSpent, misses: 0 .. MaxMisses]
BY NumbersHold DEF RestInv, Miss, Numbers

(* A step that leaves clock, log and messages alone. *)
LEMMA RestStays ==
  ASSUME BasicInv, UNCHANGED <<now, looked, msgs, log>>, RestInv'
  PROVE  BasicInv'
BY DEF BasicInv, LogInv, MsgInv

LEMMA DeliverKeeps ==
  ASSUME BasicInv, NEW kind \in Kinds, Deliver(kind), UNCHANGED <<now, log, world, history>>,
         looked' \in BOOLEAN
  PROVE  BasicInv'
<1>1. Arrives(kind)
  BY DEF Deliver, Arrives
<1>2. MsgInv' /\ Newest'.seq = Newest.seq + 1 /\ Newest' \in msgs' /\ msgs \subseteq msgs'
  BY <1>1, ArrivesKeeps
<1>3. by' = Newest'.seq
  BY <1>2 DEF Deliver
<1>4. turn' \in {"none", "starting", "running"}
  BY DEF Deliver
<1>5. bounds' \in [sends: 0 .. MaxSends, spent: 0 .. MaxSpent, misses: 0 .. MaxMisses]
  BY MissKeeps DEF Deliver, BasicInv, RestInv
<1>6. RestInv'
  BY <1>2, <1>3, <1>4, <1>5 DEF BasicInv, RestInv, world, history
<1> QED BY <1>2, <1>6 DEF BasicInv, LogInv

LEMMA LookKeeps == ASSUME BasicInv, Look PROVE BasicInv'
<1>1. looked' = TRUE /\ UNCHANGED <<now, log, world, history>>
  BY DEF Look
<1>2. ASSUME NEW kind \in MessageKinds(State.move), State.move # "none", Deliver(kind)
      PROVE  BasicInv'
  BY <1>1, <1>2, MovesAreKinds, DeliverKeeps
<1>3. ASSUME Miss \/ UNCHANGED bounds, UNCHANGED <<msgs, turn, by>> PROVE BasicInv'
  <2>1. RestInv'
    BY <1>1, <1>3, MissKeeps DEF BasicInv, RestInv, world, history
  <2> QED BY <1>1, <1>3, <2>1 DEF BasicInv, LogInv, MsgInv
<1> QED BY <1>2, <1>3 DEF Look

LEMMA SendKeeps == ASSUME BasicInv, SendContinue PROVE BasicInv'
<1>1. Arrives("continue") /\ UNCHANGED <<now, looked, log, world, history>>
  BY DEF SendContinue, Arrives
<1>2. MsgInv' /\ Newest'.seq = Newest.seq + 1 /\ Newest' \in msgs' /\ msgs \subseteq msgs'
  BY <1>1, ArrivesKeeps DEF Kinds
<1>3. by' \in {m.seq : m \in msgs'}
  BY <1>2 DEF SendContinue, BasicInv, RestInv
<1>4. turn' \in {"none", "starting", "running"}
  BY DEF SendContinue, BasicInv, RestInv
<1>5. bounds' \in [sends: 0 .. MaxSends, spent: 0 .. MaxSpent, misses: 0 .. MaxMisses]
  BY NumbersHold DEF SendContinue, BasicInv, RestInv, Numbers
<1>6. RestInv'
  BY <1>1, <1>2, <1>3, <1>4, <1>5 DEF BasicInv, RestInv, world, history
<1> QED BY <1>1, <1>2, <1>6 DEF BasicInv, LogInv

LEMMA RapidIsNat == ASSUME RestInv, NEW class PROVE RapidAfter(class) \in Nat
BY DEF RapidAfter, RestInv

LEMMA EndsKeeps == ASSUME BasicInv, TurnEnds PROVE BasicInv'
<1>1. PICK class \in EndClasses, retry \in RetryAfters :
        /\ log' = Append(log, [at |-> now, class |-> class, retry |-> retry])
        /\ rapid' = RapidAfter(class)
        /\ ran' = IF class = "spentRefused" THEN ran ELSE ran \cup {by}
        /\ IF class \in {"spentRefused", "spentHandoff"}
           THEN /\ bounds.spent > 0
                /\ bounds' = [bounds EXCEPT !.spent = @ - 1]
                /\ room' = FALSE
           ELSE UNCHANGED <<bounds, room>>
  BY DEF TurnEnds
<1>2. now \in Nat /\ now <= MaxTime
  BY NumbersHold DEF BasicInv, LogInv, Numbers
<1> DEFINE e == [at |-> now, class |-> class, retry |-> retry]
<1>3. e \in End /\ e.at = now
  BY <1>2, LadderAssumption DEF End
<1> HIDE DEF e
<1>4. log' = Append(log, e) /\ log \in Seq(End)
  BY <1>1 DEF e, BasicInv, LogInv
<1>5. /\ log' \in Seq(End) /\ DOMAIN log' = DOMAIN log \cup {Len(log) + 1}
      /\ \A i \in DOMAIN log : log'[i] = log[i]
      /\ log'[Len(log) + 1] = e
  BY <1>3, <1>4
<1>6. LogInv'
  <2>1. now' = now /\ looked' = looked
    BY DEF TurnEnds
  <2>2. \A i \in DOMAIN log' : log'[i].at <= now
    BY <1>2, <1>3, <1>5 DEF BasicInv, LogInv
  <2> QED BY <1>5, <2>1, <2>2 DEF BasicInv, LogInv
<1>7. bounds' \in [sends: 0 .. MaxSends, spent: 0 .. MaxSpent, misses: 0 .. MaxMisses]
  <2>1. \/ bounds' = bounds
        \/ bounds.spent > 0 /\ bounds' = [bounds EXCEPT !.spent = @ - 1]
    BY <1>1
  <2> QED BY <2>1, NumbersHold DEF BasicInv, RestInv, Numbers
<1>8. rapid' \in Nat
  BY <1>1, RapidIsNat DEF BasicInv
<1>9. (ran' \cup vanished') \subseteq {m.seq : m \in msgs} /\ room' \in BOOLEAN
  BY <1>1 DEF BasicInv, RestInv, TurnEnds
<1>10. RestInv'
  BY <1>7, <1>8, <1>9 DEF BasicInv, RestInv, TurnEnds
<1> QED BY <1>6, <1>10 DEF BasicInv, MsgInv, TurnEnds

LEMMA TickKeeps == ASSUME BasicInv, Tick PROVE BasicInv'
<1>1. now' = now + 1 /\ now \in Nat /\ now < MaxTime /\ MaxTime \in Nat
  BY NumbersHold DEF BasicInv, LogInv, Numbers, Tick
<1>2. UNCHANGED <<msgs, log, world, turn, by, ran, vanished, rapid, bounds>> /\ looked' = FALSE
  BY DEF Tick
<1>3. own' \in 0 .. now'
  BY <1>1 DEF Tick, BasicInv, RestInv
<1>4. \A m \in msgs : m.at <= now'
  BY <1>1 DEF BasicInv, MsgInv, Msg
<1>5. \A i \in DOMAIN log : log[i].at <= now'
  <2>1. \A i \in DOMAIN log : log[i].at \in Nat /\ log[i].at <= now
    BY LogReads DEF BasicInv, LogInv
  <2> QED BY <1>1, <2>1
<1>6. LogInv'
  <2>1. now' \in 0 .. MaxTime
    BY <1>1
  <2>2. looked' \in BOOLEAN /\ log' = log /\ log \in Seq(End)
    BY <1>2 DEF BasicInv, LogInv
  <2> QED BY <1>5, <2>1, <2>2 DEF LogInv
<1>7. MsgInv'
  BY <1>2, <1>4 DEF BasicInv, MsgInv
<1>8. RestInv'
  BY <1>2, <1>3 DEF BasicInv, RestInv, world
<1> QED BY <1>6, <1>7, <1>8 DEF BasicInv

LEMMA BasicStep == BasicInv /\ [Next]_vars => BasicInv'
<1> SUFFICES ASSUME BasicInv, [Next]_vars PROVE BasicInv'
  OBVIOUS
<1>1. CASE TurnBegins
  BY <1>1, RestStays DEF TurnBegins, BasicInv, RestInv, world, history
<1>2. CASE TurnVanishes
  BY <1>2, RestStays, MissKeeps DEF TurnVanishes, BasicInv, RestInv, world, history
<1>3. CASE Reply
  BY <1>3, RestStays DEF Reply, BasicInv, RestInv, history
<1>4. CASE RaiseBudget
  BY <1>4, RestStays DEF RaiseBudget, BasicInv, RestInv, history
<1>5. CASE UNCHANGED vars
  BY <1>5, RestStays DEF vars, BasicInv, RestInv, world, history
<1> QED BY <1>1, <1>2, <1>3, <1>4, <1>5, LookKeeps, SendKeeps, EndsKeeps, TickKeeps DEF Next

(* Messages and turn ends come in the order of their times, none from       *)
(* later than now, and every variable keeps its type.                      *)
THEOREM BasicInvHolds == Spec => []BasicInv
<1> QED BY InitBasic, BasicStep, PTL DEF Spec

(* Every variable keeps its type, for every policy and every bound.        *)
THEOREM LadderTypes == Spec => []TypeOK
<1>1. BasicInv => TypeOK
  BY DEF BasicInv, LogInv, MsgInv, RestInv, TypeOK
<1> QED BY <1>1, BasicInvHolds, PTL

-----------------------------------------------------------------------------
(* The clock and the ends: no turn ends in the second of a message, or      *)
(* before the look of that second, so at most one turn, the last of the     *)
(* log, has ended since the newest message, and then none is under way.     *)
SecondInv ==
  /\ ~looked => \A i \in DOMAIN log : log[i].at < now
  /\ \A i \in DOMAIN log : log[i].at > 0
  /\ \A i \in DOMAIN log : log[i].at >= Newest.at => i = Len(log) /\ turn = "none"
  /\ turn = "starting" => now - Newest.at < SettlingSeconds

LEMMA ArrivesInOwnSecond ==
  ASSUME BasicInv, SecondInv, NEW kind \in Kinds, Arrives(kind), UNCHANGED <<now, log>>,
         \A i \in DOMAIN log : log[i].at < now
  PROVE  SecondInv'
<1>1. Newest'.at = now /\ now \in Nat /\ SettlingSeconds \in Nat \ {0}
  BY ArrivesKeeps, NumbersHold DEF BasicInv, LogInv, Numbers
<1>2. \A i \in DOMAIN log : log[i].at \in Nat /\ log[i].at < now
  BY LogReads DEF BasicInv
<1>3. \A i \in DOMAIN log' : ~(log'[i].at >= Newest'.at)
  BY <1>1, <1>2
<1>4. now' - Newest'.at < SettlingSeconds
  BY <1>1
<1> QED BY <1>2, <1>3, <1>4 DEF SecondInv

LEMMA SecondStays ==
  ASSUME SecondInv, UNCHANGED <<now, msgs, log>>, looked' = looked \/ looked' = TRUE,
         turn' = turn \/ (turn # "none" /\ turn' # "starting")
  PROVE  SecondInv'
<1>1. Newest' = Newest
  BY DEF Newest
<1> QED BY <1>1 DEF SecondInv

LEMMA SecondStep == ASSUME ~SameSecond, BasicInv, SecondInv, [Next]_vars PROVE SecondInv'
<1>1. CASE Look
  <2>1. ~looked /\ looked' = TRUE /\ UNCHANGED <<now, log>>
    BY <1>1 DEF Look
  <2>2. ASSUME NEW kind \in MessageKinds(State.move), State.move # "none", Deliver(kind)
        PROVE  SecondInv'
    <3>1. kind \in Kinds /\ Arrives(kind)
      BY <2>2, MovesAreKinds DEF Deliver, Arrives
    <3>2. \A i \in DOMAIN log : log[i].at < now
      BY <2>1 DEF SecondInv
    <3> QED BY <2>1, <3>1, <3>2, ArrivesInOwnSecond
  <2>3. CASE UNCHANGED <<msgs, turn, by>>
    BY <2>1, <2>3, SecondStays
  <2> QED BY <1>1, <2>2, <2>3 DEF Look
<1>2. CASE SendContinue
  <2>1. Arrives("continue") /\ "continue" \in Kinds /\ UNCHANGED <<now, log>>
    BY <1>2 DEF SendContinue, Arrives, Kinds
  <2>2. \A i \in DOMAIN log : log[i].at < now
    BY <1>2 DEF SendContinue
  <2> QED BY <2>1, <2>2, ArrivesInOwnSecond
<1>3. CASE TurnBegins \/ TurnVanishes \/ Reply \/ RaiseBudget
  BY <1>3, SecondStays DEF TurnBegins, TurnVanishes, Reply, RaiseBudget
<1>4. CASE TurnEnds
  <2>1. PICK e : log' = Append(log, e) /\ e.at = now
    BY <1>4 DEF TurnEnds
  <2>2. /\ log \in Seq(End) /\ Len(log) \in Nat /\ DOMAIN log = 1 .. Len(log)
        /\ \A i \in DOMAIN log : log[i].at \in Nat
    BY LogReads DEF BasicInv, LogInv
  <2>3. /\ Len(log') = Len(log) + 1 /\ DOMAIN log' = DOMAIN log \cup {Len(log) + 1}
        /\ \A i \in DOMAIN log : log'[i] = log[i]
        /\ log'[Len(log) + 1].at = now
    <3>1. log' \in Seq(End)
      BY <1>4, BasicStep DEF BasicInv, LogInv, Next
    <3> QED BY <2>1, <2>2, <3>1
  <2>4. turn = "running" /\ turn' = "none" /\ looked /\ looked' = looked /\ now' = now
        /\ msgs' = msgs /\ \A m \in msgs : m.at < now
    BY <1>4 DEF TurnEnds
  <2>5. Newest' = Newest /\ Newest \in msgs /\ Newest.at \in Nat /\ now \in Nat
    BY <2>4, NewestIs, NumbersHold DEF Newest, BasicInv, Msg, LogInv, Numbers
  <2>6. \A i \in DOMAIN log : ~(log[i].at >= Newest.at)
    BY <2>4 DEF SecondInv
  <2>7. \A i \in DOMAIN log' : log'[i].at >= Newest.at => i = Len(log')
    BY <2>3, <2>6
  <2>8. \A i \in DOMAIN log' : log'[i].at > 0
    BY <2>3, <2>4, <2>5 DEF SecondInv
  <2> QED BY <2>4, <2>5, <2>7, <2>8 DEF SecondInv
<1>5. CASE Tick
  <2>1. /\ now' = now + 1 /\ UNCHANGED <<msgs, log, turn>>
        /\ turn = "starting" => now + 1 - Newest.at < SettlingSeconds
    BY <1>5 DEF Tick
  <2>2. Newest' = Newest
    BY <2>1 DEF Newest
  <2>3. \A i \in DOMAIN log : log[i].at \in Nat /\ log[i].at <= now /\ now \in Nat
    BY LogReads, NumbersHold DEF BasicInv, LogInv, Numbers
  <2>4. \A i \in DOMAIN log' : log'[i].at < now'
    BY <2>1, <2>3
  <2>5. ASSUME turn' = "starting" PROVE now' - Newest'.at < SettlingSeconds
    <3>1. turn = "starting"
      BY <2>1, <2>5
    <3>2. now + 1 - Newest.at < SettlingSeconds
      BY <2>1, <3>1
    <3>3. Newest'.at = Newest.at
      BY <2>2
    <3>4. now' = now + 1
      BY <2>1
    <3>5. now \in Nat /\ Newest.at \in Nat
      BY NewestIs, NumbersHold DEF BasicInv, LogInv, Numbers, Msg
    <3> QED BY <3>2, <3>3, <3>4, <3>5
  <2>6. /\ \A i \in DOMAIN log' : log'[i].at > 0
        /\ \A i \in DOMAIN log' : log'[i].at >= Newest'.at => i = Len(log') /\ turn' = "none"
    BY <2>1, <2>2 DEF SecondInv
  <2> QED BY <2>4, <2>5, <2>6 DEF SecondInv
<1>6. CASE UNCHANGED vars
  BY <1>6, SecondStays DEF vars
<1> QED BY <1>1, <1>2, <1>3, <1>4, <1>5, <1>6 DEF Next

LEMMA InitSecond == Init => SecondInv
<1> SUFFICES ASSUME Init PROVE SecondInv
  OBVIOUS
<1>1. log = <<>> /\ now = 0 /\ looked = TRUE
  BY DEF Init
<1>2. Newest.at = 0
  <2>1. Newest \in msgs
    BY InitBasic, NewestIs DEF BasicInv
  <2> QED BY <2>1 DEF Init
<1>3. DOMAIN log = {} /\ SettlingSeconds \in Nat \ {0}
  BY <1>1, NumbersHold DEF Numbers
<1> QED BY <1>1, <1>2, <1>3 DEF SecondInv

(* At most one turn, the last of the log, has ended since the newest        *)
(* message, if no turn ends in the second of a message or before a look.   *)
THEOREM SecondInvHolds == ASSUME ~SameSecond PROVE Spec => [](BasicInv /\ SecondInv)
<1>1. Init => BasicInv /\ SecondInv
  BY InitBasic, InitSecond
<1>2. BasicInv /\ SecondInv /\ [Next]_vars => (BasicInv /\ SecondInv)'
  BY BasicStep, SecondStep
<1> QED BY <1>1, <1>2, PTL DEF Spec

-----------------------------------------------------------------------------
(* What a look reads: the last turn ends of the log, in its order.         *)
Before == IF Len(log) <= LogTail THEN 0 ELSE Len(log) - LogTail
LEMMA TailReads ==
  ASSUME LogInv
  PROVE  /\ Before \in 0 .. Len(log) /\ Len(Facts.ends) = Len(log) - Before
         /\ DOMAIN Facts.ends = 1 .. Len(log) - Before
         /\ \A i \in 1 .. Len(log) - Before : Facts.ends[i] = log[i + Before]
         /\ log # <<>> => LastEnd(Facts) = log[Len(log)] /\ Len(log) - Before > 0
<1>1. log \in Seq(End) /\ Len(log) \in Nat /\ LogTail \in Nat \ {0}
  BY LogReads, NumbersHold DEF LogInv, Numbers
<1>2. Greatest({1, Len(log) - LogTail + 1}) = Before + 1
  <2>1. PICK g \in {1, Len(log) - LogTail + 1} : \A y \in {1, Len(log) - LogTail + 1} : y <= g
    BY <1>1
  <2>2. Greatest({1, Len(log) - LogTail + 1}) \in {1, Len(log) - LogTail + 1}
        /\ \A y \in {1, Len(log) - LogTail + 1} : y <= Greatest({1, Len(log) - LogTail + 1})
    BY <2>1 DEF Greatest
  <2> QED BY <1>1, <2>2 DEF Before
<1>3. Before \in 0 .. Len(log)
  BY <1>1 DEF Before
<1>4. Facts.ends = SubSeq(log, Before + 1, Len(log))
  BY <1>2 DEF Facts
<1> DEFINE ends == SubSeq(log, Before + 1, Len(log))
<1>5. Len(ends) = Len(log) - Before /\ DOMAIN ends = 1 .. Len(log) - Before
  BY <1>1, <1>3
<1>6. \A i \in 1 .. Len(log) - Before : ends[i] = log[i + Before]
  BY <1>1, <1>3
<1> HIDE DEF ends
<1>7. ASSUME log # <<>> PROVE ends[Len(ends)] = log[Len(log)] /\ Len(log) - Before > 0
  <2>1. Len(log) > 0
    BY <1>1, <1>7
  <2>2. Len(log) - Before > 0
    BY <1>1, <2>1 DEF Before
  <2>3. Len(log) - Before \in 1 .. Len(log) - Before /\ Len(log) - Before + Before = Len(log)
    BY <1>1, <1>3, <2>2
  <2> QED BY <1>5, <1>6, <2>2, <2>3
<1> QED BY <1>3, <1>4, <1>5, <1>6, <1>7 DEF ends, LastEnd

LEMMA FactsRead ==
  /\ Facts.msgs = msgs /\ Facts.replied = replied /\ Facts.active = (turn = "running")
  /\ Facts.room = room /\ Facts.now = now
  /\ Facts.spents = {log[i].at : i \in {j \in DOMAIN log : Spent(log[j])}}
BY DEF Facts

LEMMA TimesRead ==
  ASSUME BasicInv
  PROVE  NewestMsg(Facts) = Newest.at /\ OpenedAt(Facts) = 0
<1>1. Newest \in msgs /\ \A m \in msgs : m.at <= Newest.at /\ m.at \in Nat
  BY NewestIs DEF BasicInv, MsgInv, Msg
<1> DEFINE ats == {m.at : m \in msgs}
<1>2. Newest.at \in ats /\ \A t \in ats : t <= Newest.at /\ t \in Nat
  BY <1>1
<1>3. 0 \in ats
  BY DEF BasicInv, MsgInv
<1> HIDE DEF ats
<1>4. Greatest(ats) \in ats /\ \A t \in ats : t <= Greatest(ats)
  BY <1>2 DEF Greatest
<1>5. Least(ats) \in ats /\ \A t \in ats : Least(ats) <= t
  BY <1>2, <1>3 DEF Least
<1>6. Greatest(ats) = Newest.at
  BY <1>2, <1>4
<1>7. Least(ats) = 0
  BY <1>2, <1>3, <1>5
<1> QED BY <1>6, <1>7, FactsRead DEF NewestMsg, OpenedAt, ats

-----------------------------------------------------------------------------
(* The time the node is held on its budget, read off the log and the        *)
(* messages, is the time it was held.                                      *)
HeldThen(t) ==
  \E i \in DOMAIN log :
    Spent(log[i]) /\ log[i].at <= t /\ \A m \in msgs : m.at > log[i].at => t < m.at
HeldBefore(n) == {t \in 0 .. n - 1 : HeldThen(t)}
OwnInv == own + Cardinality(HeldBefore(now)) = now

LEMMA HeldFinite ==
  ASSUME NEW n \in Nat
  PROVE  IsFiniteSet(HeldBefore(n)) /\ Cardinality(HeldBefore(n)) \in Nat
<1>1. IsFiniteSet(0 .. n - 1)
  BY FS_Interval
<1>2. HeldBefore(n) \subseteq 0 .. n - 1
  BY DEF HeldBefore
<1> QED BY <1>1, <1>2, FS_Subset, FS_CardinalityType

(* What a look counts as held. *)
LEMMA HeldIsRead == ASSUME BasicInv PROVE HeldSeconds(Facts) = Cardinality(HeldBefore(now))
<1>1. Facts.msgs = msgs /\ Facts.now = now /\ OpenedAt(Facts) = 0
  BY FactsRead, TimesRead
<1>2. \A i \in DOMAIN log : log[i].at \in Nat
  BY LogReads DEF BasicInv
<1> DEFINE read(t) == \E at \in Facts.spents :
             /\ OpenedAt(Facts) <= at /\ at <= t
             /\ \A m \in Facts.msgs : m.at > at => t < m.at
<1>3. ASSUME NEW t PROVE read(t) <=> HeldThen(t)
  <2>1. Facts.spents = {log[i].at : i \in {j \in DOMAIN log : Spent(log[j])}}
    BY FactsRead
  <2>2. ASSUME NEW at PROVE at \in Facts.spents <=> \E i \in DOMAIN log : Spent(log[i]) /\ log[i].at = at
    BY <2>1
  <2> QED BY <1>1, <1>2, <2>2 DEF HeldThen
<1>4. {t \in 0 .. now - 1 : read(t)} = HeldBefore(now)
  <2> HIDE DEF read
  <2> QED BY <1>3 DEF HeldBefore
<1>5. {t \in OpenedAt(Facts) .. Facts.now - 1 : read(t)} = HeldBefore(now)
  <2> HIDE DEF read
  <2> QED BY <1>1, <1>4
<1> QED BY <1>5 DEF HeldSeconds

(* A message or a turn end of now says nothing of the time before. *)
LEMMA HeldStays ==
  ASSUME BasicInv, now' = now, own' = own, OwnInv,
         \A t \in 0 .. now - 1 : HeldThen(t)' <=> HeldThen(t)
  PROVE  OwnInv'
<1>1. HeldBefore(now)' = HeldBefore(now)
  BY DEF HeldBefore
<1> QED BY <1>1 DEF OwnInv

LEMMA ArrivesHolds ==
  ASSUME BasicInv, NEW kind \in Kinds, Arrives(kind), UNCHANGED <<now, log, own>>, OwnInv
  PROVE  OwnInv'
<1>1. msgs' = msgs \cup {Newest'} /\ Newest'.at = now
  BY ArrivesKeeps
<1>2. ASSUME NEW t \in 0 .. now - 1 PROVE HeldThen(t)' <=> HeldThen(t)
  <2>1. t < now
    BY NumbersHold DEF BasicInv, LogInv, Numbers
  <2> QED BY <1>1, <2>1 DEF HeldThen
<1> QED BY <1>2, HeldStays

(* At most one turn has ended since the newest message, and if the budget   *)
(* stopped that one, the node is held now.                                 *)
LEMMA HeldNow == ASSUME BasicInv, SecondInv PROVE HeldThen(now) <=> Held
<1>1. /\ Newest \in msgs /\ Newest.at \in Nat /\ now \in Nat
      /\ \A m \in msgs : m.at <= Newest.at /\ m.at <= now /\ m.at \in Nat
  BY NewestIs, NumbersHold DEF BasicInv, MsgInv, Msg, LogInv, Numbers
<1>2. /\ Len(log) \in Nat /\ DOMAIN log = 1 .. Len(log)
      /\ \A i \in DOMAIN log : log[i].at \in Nat /\ log[i].at <= now
  BY LogReads DEF BasicInv, LogInv
<1>3. ASSUME HeldThen(now) PROVE Held
  <2>1. PICK i \in DOMAIN log :
          Spent(log[i]) /\ \A m \in msgs : m.at > log[i].at => now < m.at
    BY <1>3 DEF HeldThen
  <2>2. log[i].at >= Newest.at
    BY <1>1, <1>2, <2>1
  <2>3. i = Len(log) /\ turn = "none" /\ log # <<>>
    BY <1>2, <2>2 DEF SecondInv
  <2> QED BY <2>1, <2>2, <2>3 DEF Held
<1>4. ASSUME Held PROVE HeldThen(now)
  <2>1. Len(log) \in DOMAIN log
    <3>1. log \in Seq(End) /\ log # <<>>
      BY <1>4 DEF Held, BasicInv, LogInv
    <3> QED BY <3>1
  <2>2. Spent(log[Len(log)]) /\ log[Len(log)].at >= Newest.at
    BY <1>4 DEF Held
  <2>3. \A m \in msgs : ~(m.at > log[Len(log)].at)
    BY <1>1, <1>2, <2>1, <2>2
  <2> QED BY <1>2, <2>1, <2>2, <2>3 DEF HeldThen
<1> QED BY <1>3, <1>4

LEMMA OwnStep == ASSUME BasicInv, SecondInv, OwnInv, [Next]_vars PROVE OwnInv'
<1>1. CASE Look
  <2>1. ASSUME NEW kind \in MessageKinds(State.move), State.move # "none", Deliver(kind)
        PROVE  OwnInv'
    <3>1. kind \in Kinds /\ Arrives(kind)
      BY <2>1, MovesAreKinds DEF Deliver, Arrives
    <3> QED BY <1>1, <3>1, ArrivesHolds DEF Look, history
  <2>2. CASE UNCHANGED msgs
    BY <1>1, <2>2, HeldStays DEF Look, HeldThen, history
  <2> QED BY <1>1, <2>1, <2>2 DEF Look
<1>2. CASE SendContinue
  BY <1>2, ArrivesHolds DEF SendContinue, Arrives, Kinds, history
<1>3. CASE TurnBegins \/ TurnVanishes \/ Reply \/ RaiseBudget
  BY <1>3, HeldStays DEF TurnBegins, TurnVanishes, Reply, RaiseBudget, HeldThen, history
<1>4. CASE TurnEnds
  <2>1. PICK e : log' = Append(log, e) /\ e.at = now
    BY <1>4 DEF TurnEnds
  <2>2. now' = now /\ own' = own /\ msgs' = msgs
    BY <1>4 DEF TurnEnds
  <2>3. log \in Seq(End) /\ log' \in Seq(End)
    BY <1>4, BasicStep DEF BasicInv, LogInv, Next
  <2>4. /\ DOMAIN log' = DOMAIN log \cup {Len(log) + 1}
        /\ \A i \in DOMAIN log : log'[i] = log[i]
        /\ log'[Len(log) + 1].at = now
    BY <2>1, <2>3
  <2>5. ASSUME NEW t \in 0 .. now - 1 PROVE HeldThen(t)' <=> HeldThen(t)
    <3>1. ~(now <= t)
      BY NumbersHold DEF BasicInv, LogInv, Numbers
    <3> QED BY <2>2, <2>4, <3>1 DEF HeldThen
  <2> QED BY <2>2, <2>5, HeldStays
<1>5. CASE Tick
  <2>1. /\ now' = now + 1 /\ UNCHANGED <<msgs, log>>
        /\ own' = IF Held THEN own ELSE own + 1
    BY <1>5 DEF Tick
  <2>2. now \in Nat /\ own \in Nat
    BY NumbersHold DEF BasicInv, LogInv, RestInv, Numbers
  <2> DEFINE was == HeldBefore(now)
             is == HeldBefore(now)'
  <2>3. is = IF HeldThen(now) THEN was \cup {now} ELSE was
    <3>1. \A t : HeldThen(t)' <=> HeldThen(t)
      BY <2>1 DEF HeldThen
    <3>2. is = {t \in 0 .. now : HeldThen(t)}
      BY <2>1, <2>2, <3>1 DEF HeldBefore
    <3>3. 0 .. now = (0 .. now - 1) \cup {now}
      BY <2>2
    <3> QED BY <3>2, <3>3 DEF HeldBefore
  <2>4. now \notin was /\ IsFiniteSet(was) /\ Cardinality(was) \in Nat
    BY <2>2, HeldFinite DEF HeldBefore
  <2> HIDE DEF was, is
  <2>5. Cardinality(was \cup {now}) = Cardinality(was) + 1
    BY <2>4, FS_AddElement
  <2>6. own + Cardinality(was) = now
    BY DEF OwnInv, was
  <2>7. own' + Cardinality(is) = now'
    BY <2>1, <2>2, <2>3, <2>4, <2>5, <2>6, HeldNow
  <2> QED BY <2>7 DEF OwnInv, is
<1>6. CASE UNCHANGED vars
  BY <1>6, HeldStays DEF vars, HeldThen, history
<1> QED BY <1>1, <1>2, <1>3, <1>4, <1>5, <1>6 DEF Next

LEMMA InitOwn == Init => OwnInv
<1> SUFFICES ASSUME Init PROVE OwnInv
  OBVIOUS
<1>1. now = 0 /\ own = 0
  BY DEF Init
<1>2. HeldBefore(now) = {}
  BY <1>1 DEF HeldBefore
<1> QED BY <1>1, <1>2, FS_EmptySet DEF OwnInv

LEMMA NoOtherElapses ==
  ASSUME NEW f
  PROVE  EndedVerdict(f).why # "elapsed" /\ UnheardVerdict(f).why # "elapsed"
<1>0. \A s, m, w : Verdict(s, m, w).why = w
  BY DEF Verdict
<1>1. RefusedVerdict(f).why # "elapsed"
  BY <1>0 DEF RefusedVerdict, Stuck
<1>2. /\ SpentVerdict(f).why # "elapsed" /\ HandoffVerdict(f).why # "elapsed"
      /\ ContextVerdict(f).why # "elapsed" /\ LadderVerdict(f).why # "elapsed"
      /\ UnheardVerdict(f).why # "elapsed"
  BY <1>0 DEF SpentVerdict, HandoffVerdict, ContextVerdict, LadderVerdict, UnheardVerdict, Stuck
<1> QED BY <1>0, <1>1, <1>2 DEF EndedVerdict, Stuck

(* The time that a look counts is the node's own.                          *)
LEMMA OwnIsRead ==
  ASSUME BasicInv, SecondInv, OwnInv, turn # "running"
  PROVE  Facts.now - OpenedAt(Facts) - HeldSeconds(Facts) = own
<1>1. ~Facts.active /\ Facts.now = now /\ OpenedAt(Facts) = 0
  BY FactsRead, TimesRead
<1>2. now \in Nat /\ own \in Nat /\ Cardinality(HeldBefore(now)) \in Nat
  BY NumbersHold, HeldFinite DEF BasicInv, LogInv, RestInv, Numbers
<1> QED BY <1>1, <1>2, HeldIsRead DEF OwnInv

(* The elapsed bound trips exactly when the node's own time is up, whatever  *)
(* holds on the operator's budget lie between.                             *)
THEOREM ElapsedIsOwn == ASSUME ~SameSecond PROVE Spec => []ElapsedIsOwnTime
<1>1. Init => OwnInv
  BY InitOwn
<1>2. BasicInv /\ SecondInv /\ OwnInv /\ [Next]_vars => OwnInv'
  BY OwnStep
<1>3. BasicInv /\ SecondInv /\ OwnInv => ElapsedIsOwnTime
  <2> SUFFICES ASSUME BasicInv, SecondInv, OwnInv, ~replied, turn # "running"
               PROVE  State.why = "elapsed" <=> own >= ElapsedSeconds
    BY DEF ElapsedIsOwnTime
  <2>1. ~Facts.replied /\ ~Facts.active /\ Facts.now = now /\ OpenedAt(Facts) = 0
    BY FactsRead, TimesRead
  <2>3. Facts.now - OpenedAt(Facts) - HeldSeconds(Facts) = own
    BY OwnIsRead
  <2>4. \A s, m, w : Verdict(s, m, w).why = w
    BY DEF Verdict
  <2> QED BY <2>1, <2>3, <2>4, NoOtherElapses DEF State, Compute, Stuck
<1> QED BY <1>1, <1>2, <1>3, SecondInvHolds, PTL DEF Spec

(* While the turn of a fresh message is still booting, a look reads the      *)
(* node as settling, and never as stopped or stuck, until the node's own    *)
(* time is up.                                                             *)
THEOREM FreshSettles == ASSUME ~SameSecond PROVE Spec => []FreshMessageSettles
<1>1. Init => OwnInv
  BY InitOwn
<1>2. BasicInv /\ SecondInv /\ OwnInv /\ [Next]_vars => OwnInv'
  BY OwnStep
<1>3. BasicInv /\ SecondInv /\ OwnInv => FreshMessageSettles
  <2> SUFFICES ASSUME BasicInv, SecondInv, OwnInv, turn = "starting", ~replied,
                      own < ElapsedSeconds
               PROVE  State.why = "settling"
    BY DEF FreshMessageSettles
  <2>1. ~Facts.replied /\ ~Facts.active /\ Facts.now = now
    BY FactsRead
  <2>2. ~EndedSince(Facts, NewestMsg(Facts))
    <3> SUFFICES ASSUME NEW i \in DOMAIN Facts.ends, Facts.ends[i].at >= Newest.at PROVE FALSE
      BY TimesRead DEF EndedSince
    <3>1. /\ i \in 1 .. Len(log) - Before /\ Facts.ends[i] = log[i + Before]
          /\ Before \in 0 .. Len(log) /\ Len(log) \in Nat /\ DOMAIN log = 1 .. Len(log)
      BY TailReads, LogReads DEF BasicInv
    <3>2. i + Before \in DOMAIN log
      BY <3>1
    <3> QED BY <3>1, <3>2 DEF SecondInv
  <2>3. Facts.now - NewestMsg(Facts) < SettlingSeconds
    BY <2>1, TimesRead DEF SecondInv
  <2>4. \A s, m, w : Verdict(s, m, w).why = w
    BY DEF Verdict
  <2>5. UnheardVerdict(Facts).why = "settling"
    BY <2>3, <2>4 DEF UnheardVerdict
  <2>6. ~(Facts.now - OpenedAt(Facts) - HeldSeconds(Facts) >= ElapsedSeconds)
    BY OwnIsRead, NumbersHold DEF BasicInv, RestInv, LogInv, Numbers
  <2> QED BY <2>1, <2>2, <2>4, <2>5, <2>6 DEF State, Compute, Stuck
<1> QED BY <1>1, <1>2, <1>3, SecondInvHolds, PTL DEF Spec

-----------------------------------------------------------------------------
(* Of every set of numbers there is a least, by what the library has on     *)
(* finite sets.                                                            *)
LEMMA LeastNat ==
  ASSUME NEW T \in SUBSET Nat, T # {}
  PROVE  \E n \in T : \A m \in T : n <= m
<1> DEFINE U == {0 .. n : n \in T}
<1>1. U \subseteq FiniteSubsetsOf(Nat)
  <2> SUFFICES ASSUME NEW n \in T PROVE 0 .. n \in FiniteSubsetsOf(Nat)
    OBVIOUS
  <2> QED BY FS_Interval DEF FiniteSubsetsOf
<1>2. U # {}
  OBVIOUS
<1>3. PICK x \in U : \A y \in U : ~ (<<y, x>> \in StrictSubsetOrdering(Nat))
  <2> HIDE DEF U
  <2> QED BY <1>1, <1>2, FS_StrictSubsetOrderingWellFounded, WFMin, ZenonT(30)
<1>4. PICK n \in T : x = 0 .. n
  OBVIOUS
<1>5. ASSUME NEW m \in T PROVE n <= m
  <2>1. SUFFICES ASSUME m < n PROVE FALSE
    OBVIOUS
  <2>2. 0 .. m \in SUBSET (0 .. n) /\ 0 .. m # 0 .. n /\ 0 .. m \in SUBSET Nat /\ 0 .. n \in SUBSET Nat
    BY <2>1
  <2>3. <<0 .. m, x>> \in StrictSubsetOrdering(Nat)
    BY <2>2, <1>4 DEF StrictSubsetOrdering
  <2> QED BY <1>3, <2>3
<1> QED BY <1>5

(* The message that follows one in the order of their files is there, and is *)
(* a later one, but when the opening message is of the same second.        *)
LEMMA NextIsFirst ==
  ASSUME MsgInv, NEW S \in SUBSET msgs, NEW m \in msgs, Following(S, m) # {}
  PROVE  \E n \in Following(S, m) : \A o \in Following(S, m) : o = n \/ Precedes(n, o)
<1> DEFINE F == Following(S, m)
           ats == {n.at : n \in F}
<1>1. F \subseteq msgs /\ \A n \in F : n.at \in Nat /\ n.seq \in Nat
  BY DEF Following, MsgInv, Msg
<1>2. \A o, n \in F : o.seq = n.seq => o = n
  BY <1>1 DEF MsgInv
<1>0. F # {} /\ F = Following(S, m)
  OBVIOUS
<1> HIDE DEF F
<1>3. ats \in SUBSET Nat /\ ats # {}
  BY <1>0, <1>1
<1>4. PICK a \in ats : \A b \in ats : a <= b
  BY <1>3, LeastNat
<1>5. a \in Nat /\ \A n \in F : n.at = a \/ n.at > a
  <2>1. \A n \in F : n.at \in ats /\ n.at \in Nat
    BY <1>1
  <2> HIDE DEF ats
  <2> QED BY <1>3, <1>4, <2>1
<1> DEFINE G == {n \in F : n.at = a /\ n.seq # 0}
<1>6. \E n \in F : \A o \in F : o = n \/ Precedes(n, o)
  <2>1. CASE G = {}
    <3>1. PICK n \in F : n.at = a
      BY <1>4
    <3>2. ASSUME NEW o \in F PROVE o = n \/ Precedes(n, o)
      BY <1>2, <1>5, <2>1, <3>1 DEF Precedes
    <3> QED BY <3>2
  <2>2. CASE G # {}
    <3> DEFINE seqs == {n.seq : n \in G}
    <3>1. seqs \in SUBSET Nat /\ seqs # {}
      BY <1>1, <2>2
    <3>2. PICK s \in seqs : \A t \in seqs : s <= t
      BY <3>1, LeastNat
    <3>3. PICK n \in G : n.seq = s
      BY <3>2
    <3>4. \A o \in G : n.seq <= o.seq
      BY <3>2, <3>3
    <3> HIDE DEF seqs
    <3>5. ASSUME NEW o \in F PROVE o = n \/ Precedes(n, o)
      BY <1>1, <1>2, <1>5, <3>3, <3>4 DEF Precedes
    <3> QED BY <3>3, <3>5
  <2> QED BY <2>1, <2>2
<1> QED BY <1>0, <1>6

LEMMA NextExists ==
  ASSUME MsgInv, NEW S \in SUBSET msgs, NEW m \in msgs, Following(S, m) # {}
  PROVE  /\ NextOf(S, m) \in Following(S, m)
         /\ \A o \in Following(S, m) : o = NextOf(S, m) \/ Precedes(NextOf(S, m), o)
BY NextIsFirst DEF NextOf

LEMMA NextIsLater ==
  ASSUME MsgInv, NEW m \in msgs, m.at > 0, Following(msgs, m) # {}
  PROVE  NextOf(msgs, m) \in msgs /\ NextOf(msgs, m).seq > m.seq
<1> DEFINE n == NextOf(msgs, m)
<1>1. n \in msgs /\ Precedes(m, n)
  BY NextExists DEF Following
<1>2. m.at \in Nat /\ m.seq \in Nat /\ n.at \in Nat /\ n.seq \in Nat
  BY <1>1 DEF MsgInv, Msg
<1> HIDE DEF n
<1>3. PICK z \in msgs : z.at = 0
  BY DEF MsgInv
<1>4. ASSUME n.seq = 0, n.at = m.at PROVE FALSE
  <2>1. z.seq \in Nat
    BY <1>3 DEF MsgInv, Msg
  <2>2. CASE z.seq = 0
    BY <1>1, <1>3, <1>4, <2>2 DEF MsgInv
  <2>3. CASE z.seq # 0
    <3>1. n.seq < z.seq
      BY <1>4, <2>1, <2>3
    <3>2. n.at <= 0
      BY <1>1, <1>3, <3>1 DEF MsgInv
    <3> QED BY <1>2, <1>4, <3>2
  <2> QED BY <2>2, <2>3
<1>5. CASE m.at < n.at
  <2>1. ~(n.seq < m.seq)
    BY <1>1, <1>2, <1>5 DEF MsgInv
  <2>2. n.seq # m.seq
    BY <1>1, <1>2, <1>5 DEF MsgInv
  <2> QED BY <1>1, <1>2, <2>1, <2>2 DEF n
<1>6. CASE m.at = n.at
  BY <1>1, <1>2, <1>4, <1>6 DEF Precedes, n
<1> QED BY <1>1, <1>5, <1>6 DEF Precedes

(* A message whose turn ran has an end of its own in the log: after it, no   *)
(* later than the next, and not one that the budget refused.  A turn under  *)
(* way is that of the newest message.                                      *)
RunInv ==
  /\ turn # "none" => by = Newest.seq
  /\ \A i, j \in DOMAIN log : i <= j => log[i].at <= log[j].at
  /\ \A m \in msgs : m.seq \in ran => \E i \in DOMAIN log :
       /\ log[i].class # "spentRefused" /\ m.at < log[i].at
       /\ \A n \in msgs : n.seq > m.seq => log[i].at <= n.at

(* So every look charges it.                                               *)
LEMMA RanIsCharged ==
  ASSUME BasicInv, SecondInv, RunInv,
         NEW m \in msgs, m.kind \in {"continue", "restart"}, m.seq \in ran
  PROVE  m \in Charged(Facts)
<1>1. PICK i \in DOMAIN log :
        /\ log[i].class # "spentRefused" /\ m.at < log[i].at
        /\ \A n \in msgs : n.seq > m.seq => log[i].at <= n.at
  BY DEF RunInv
<1>2. /\ Len(log) \in Nat /\ DOMAIN log = 1 .. Len(log)
      /\ \A j \in DOMAIN log : log[j].at \in Nat /\ log[j].at > 0
      /\ m.at \in Nat
  BY LogReads DEF BasicInv, SecondInv, MsgInv, Msg
<1>3. log # <<>>
  BY <1>1, <1>2
<1>4. /\ Before \in 0 .. Len(log) /\ DOMAIN Facts.ends = 1 .. Len(log) - Before
      /\ \A j \in 1 .. Len(log) - Before : Facts.ends[j] = log[j + Before]
      /\ Len(log) - Before > 0
  BY <1>3, TailReads DEF BasicInv
<1>5. Facts.msgs = msgs
  BY FactsRead
<1>6. Before + 1 \in DOMAIN log /\ Facts.ends[1] = log[Before + 1]
  <2>1. 1 \in 1 .. Len(log) - Before /\ 1 + Before = Before + 1
    BY <1>2, <1>4
  <2> QED BY <1>2, <1>4, <2>1
<1>7. CASE m.at < Facts.ends[1].at
  BY <1>5, <1>7 DEF Charged
<1>8. CASE ~(m.at < Facts.ends[1].at) /\ Following(msgs, m) = {}
  BY <1>5, <1>8 DEF Charged
<1>9. CASE ~(m.at < Facts.ends[1].at) /\ Following(msgs, m) # {}
  <2>1. m.at > 0
    BY <1>2, <1>6, <1>9
  <2>2. NextOf(msgs, m) \in msgs /\ NextOf(msgs, m).seq > m.seq
    BY <1>9, <2>1, NextIsLater DEF BasicInv
  <2>3. log[i].at <= NextOf(msgs, m).at
    BY <1>1, <2>2
  <2>4. ~(i <= Before + 1)
    <3>1. i <= Before + 1 => log[i].at <= log[Before + 1].at
      BY <1>6 DEF RunInv
    <3> QED BY <1>1, <1>2, <1>6, <1>9, <3>1
  <2>5. i - Before \in 1 .. Len(log) - Before /\ i - Before + Before = i
    BY <1>2, <1>4, <2>4
  <2>6. i - Before \in DOMAIN Facts.ends /\ Facts.ends[i - Before] = log[i]
    BY <1>4, <2>5
  <2>7. Facts.ends[i - Before].at >= m.at
    BY <1>1, <1>2, <2>6
  <2> QED BY <1>1, <1>5, <2>3, <2>6, <2>7 DEF Charged
<1> QED BY <1>7, <1>8, <1>9

LEMMA ArrivesRuns ==
  ASSUME BasicInv, RunInv, NEW kind \in Kinds, Arrives(kind), UNCHANGED <<now, log, ran>>,
         turn' # "none" => by' = Newest'.seq
  PROVE  RunInv'
<1>1. /\ msgs' = msgs \cup {Newest'} /\ Newest'.at = now
      /\ \A m \in msgs : m.seq < Newest'.seq
  BY ArrivesKeeps
<1>2. \A m \in msgs : m.seq \in Nat
  BY DEF BasicInv, MsgInv, Msg
<1>3. Newest'.seq \notin ran
  <2> SUFFICES ASSUME Newest'.seq \in ran PROVE FALSE
    OBVIOUS
  <2>1. PICK m \in msgs : m.seq = Newest'.seq
    BY DEF BasicInv, RestInv
  <2> QED BY <1>1, <1>2, <2>1
<1>4. \A i \in DOMAIN log : log[i].at <= now
  BY DEF BasicInv, LogInv
<1>5. ASSUME NEW m \in msgs', m.seq \in ran'
      PROVE  \E i \in DOMAIN log' :
               /\ log'[i].class # "spentRefused" /\ m.at < log'[i].at
               /\ \A n \in msgs' : n.seq > m.seq => log'[i].at <= n.at
  <2>1. m \in msgs /\ m.seq \in ran
    BY <1>1, <1>3, <1>5
  <2>2. PICK i \in DOMAIN log :
          /\ log[i].class # "spentRefused" /\ m.at < log[i].at
          /\ \A n \in msgs : n.seq > m.seq => log[i].at <= n.at
    BY <2>1 DEF RunInv
  <2>3. \A n \in msgs' : n.seq > m.seq => log[i].at <= n.at
    BY <1>1, <1>4, <2>2
  <2> QED BY <2>2, <2>3
<1>6. \A i, j \in DOMAIN log' : i <= j => log'[i].at <= log'[j].at
  BY DEF RunInv
<1> QED BY <1>5, <1>6 DEF RunInv

LEMMA RunStays ==
  ASSUME RunInv, UNCHANGED <<msgs, log, ran, by>>, turn' # "none" => turn # "none"
  PROVE  RunInv'
<1>1. Newest' = Newest
  BY DEF Newest
<1> QED BY <1>1 DEF RunInv

LEMMA EndsRuns == ASSUME ~SameSecond, BasicInv, RunInv, TurnEnds PROVE RunInv'
<1>1. PICK class \in EndClasses, retry \in RetryAfters :
        /\ log' = Append(log, [at |-> now, class |-> class, retry |-> retry])
        /\ ran' = IF class = "spentRefused" THEN ran ELSE ran \cup {by}
  BY DEF TurnEnds
<1>2. /\ turn' = "none" /\ msgs' = msgs /\ by = Newest.seq
      /\ \A m \in msgs : m.at < now
  BY DEF TurnEnds, RunInv
<1> DEFINE e == [at |-> now, class |-> class, retry |-> retry]
<1>3. log' = Append(log, e) /\ e.at = now /\ e.class = class
  BY <1>1
<1> HIDE DEF e
<1>4. /\ log \in Seq(End) /\ Len(log) \in Nat /\ DOMAIN log = 1 .. Len(log)
      /\ \A i \in DOMAIN log : log[i].at \in Nat /\ log[i].at <= now
      /\ now \in Nat
  BY LogReads, NumbersHold DEF BasicInv, LogInv, Numbers
<1>5. /\ DOMAIN log' = DOMAIN log \cup {Len(log) + 1}
      /\ \A i \in DOMAIN log : log'[i] = log[i]
      /\ log'[Len(log) + 1] = e
  <2>1. log' \in Seq(End)
    BY BasicStep DEF BasicInv, LogInv, Next
  <2> QED BY <1>3, <1>4, <2>1
<1>6. ASSUME NEW i \in DOMAIN log', NEW j \in DOMAIN log', i <= j
      PROVE  log'[i].at <= log'[j].at
  <2>1. CASE j \in DOMAIN log
    <3>1. i \in DOMAIN log
      BY <1>4, <1>5, <1>6, <2>1
    <3> QED BY <1>5, <1>6, <2>1, <3>1 DEF RunInv
  <2>2. CASE j = Len(log) + 1
    BY <1>3, <1>4, <1>5, <2>2
  <2> QED BY <1>5, <2>1, <2>2
<1>7. ASSUME NEW m \in msgs, m.seq \in ran'
      PROVE  \E i \in DOMAIN log' :
               /\ log'[i].class # "spentRefused" /\ m.at < log'[i].at
               /\ \A n \in msgs : n.seq > m.seq => log'[i].at <= n.at
  <2>1. CASE m.seq \in ran
    <3>1. PICK i \in DOMAIN log :
            /\ log[i].class # "spentRefused" /\ m.at < log[i].at
            /\ \A n \in msgs : n.seq > m.seq => log[i].at <= n.at
      BY <2>1 DEF RunInv
    <3> QED BY <1>5, <3>1
  <2>2. CASE m.seq \notin ran
    <3>1. class # "spentRefused" /\ m.seq = Newest.seq
      BY <1>1, <1>2, <1>7, <2>2
    <3>2. \A n \in msgs : n.seq \in Nat /\ n.seq <= m.seq /\ m.seq \in Nat
      BY <3>1, NewestIs DEF BasicInv, MsgInv, Msg
    <3>3. \A n \in msgs : ~(n.seq > m.seq)
      BY <3>2
    <3> QED BY <1>2, <1>3, <1>5, <3>1, <3>3
  <2> QED BY <2>1, <2>2
<1> QED BY <1>2, <1>6, <1>7 DEF RunInv

LEMMA RunStep ==
  ASSUME ~SameSecond, ~SendIntoTurn, BasicInv, RunInv, [Next]_vars
  PROVE  RunInv'
<1>1. CASE Look
  <2>1. ASSUME NEW kind \in MessageKinds(State.move), State.move # "none", Deliver(kind)
        PROVE  RunInv'
    <3>1. kind \in Kinds /\ Arrives(kind) /\ by' = Newest.seq + 1
      BY <2>1, MovesAreKinds DEF Deliver, Arrives
    <3>2. Newest'.seq = Newest.seq + 1 /\ UNCHANGED <<now, log, ran>>
      BY <1>1, <3>1, ArrivesKeeps DEF Look, history
    <3> QED BY <3>1, <3>2, ArrivesRuns
  <2>2. CASE UNCHANGED <<msgs, turn, by>>
    BY <1>1, <2>2, RunStays DEF Look, history
  <2> QED BY <1>1, <2>1, <2>2 DEF Look
<1>2. CASE SendContinue
  <2>1. Arrives("continue") /\ "continue" \in Kinds /\ by' = Newest.seq + 1
    BY <1>2 DEF SendContinue, Arrives, Kinds
  <2>2. Newest'.seq = Newest.seq + 1 /\ UNCHANGED <<now, log, ran>>
    BY <1>2, <2>1, ArrivesKeeps DEF SendContinue, history
  <2> QED BY <2>1, <2>2, ArrivesRuns
<1>3. CASE TurnBegins \/ TurnVanishes \/ Reply \/ RaiseBudget
  BY <1>3, RunStays DEF TurnBegins, TurnVanishes, Reply, RaiseBudget, history
<1>4. CASE Tick \/ UNCHANGED vars
  BY <1>4, RunStays DEF Tick, vars, history
<1> QED BY <1>1, <1>2, <1>3, <1>4, EndsRuns DEF Next

LEMMA InitRun == Init => RunInv
<1> SUFFICES ASSUME Init PROVE RunInv
  OBVIOUS
<1>1. Newest \in msgs
  BY InitBasic, NewestIs DEF BasicInv
<1>2. Newest.seq = 0 /\ log = <<>> /\ ran = {} /\ by = 0
  BY <1>1 DEF Init
<1> QED BY <1>2 DEF RunInv

-----------------------------------------------------------------------------
(* The turns that ran and the one that is due stay within the policy's      *)
(* numbers.                                                                *)
Due(kind) == IF turn # "none" /\ Newest.kind = kind THEN 1 ELSE 0
Allowed(kind) == IF kind = "continue" THEN ContinueAttempts + Sent ELSE Restarts
RungKinds == {"continue", "restart"}
RungInv == \A kind \in RungKinds : RanOf(kind) + Due(kind) <= Allowed(kind)

LEMMA RanFinite ==
  ASSUME MsgInv, NEW kind
  PROVE  RanOf(kind) \in Nat
<1>1. {m \in msgs : m.kind = kind /\ m.seq \in ran} \subseteq msgs
  OBVIOUS
<1> QED BY <1>1, FS_Subset, FS_CardinalityType DEF MsgInv, RanOf, TurnsOf

LEMMA SentIsNat == ASSUME RestInv PROVE Sent \in Nat
BY NumbersHold DEF RestInv, Sent, Numbers

(* A look calls for a rung only while those charged, and with them those    *)
(* that ran, are fewer than its number.                                    *)
LEMMA RungsLeft ==
  ASSUME NEW f, RestartsSpent(f) \in Nat
  PROVE  /\ Compute(f).move = "continue" => Continues(f) < ContinueAttempts
         /\ Compute(f).move = "restart" => RestartsSpent(f) < Restarts
<1> DEFINE Fine(v) == /\ v.move = "continue" => Continues(f) < ContinueAttempts
                      /\ v.move = "restart" => RestartsSpent(f) < Restarts
<1>0. \A s, m, w : Verdict(s, m, w).move = m
  BY DEF Verdict
<1>1. Fine(RefusedVerdict(f))
  BY <1>0 DEF RefusedVerdict, Stuck
<1>2. Fine(SpentVerdict(f)) /\ Fine(HandoffVerdict(f)) /\ Fine(UnheardVerdict(f))
  BY <1>0 DEF SpentVerdict, HandoffVerdict, UnheardVerdict, Stuck
<1>3. Fine(LadderVerdict(f)) /\ Fine(ContextVerdict(f))
  <2>1. ~(RestartsSpent(f) >= Restarts) => RestartsSpent(f) < Restarts
    BY NumbersHold DEF Numbers
  <2> QED BY <1>0, <2>1 DEF LadderVerdict, ContextVerdict, Stuck
<1>4. Fine(EndedVerdict(f))
  BY <1>0, <1>1, <1>2, <1>3 DEF EndedVerdict, Stuck
<1> QED BY <1>0, <1>2, <1>4 DEF Compute, Working, Stuck

LEMMA RanWithinRead ==
  ASSUME BasicInv, SecondInv, RunInv
  PROVE  /\ RanOf("continue") <= Continues(Facts)
         /\ RanOf("restart") <= RestartsSpent(Facts)
         /\ Continues(Facts) \in Nat /\ RestartsSpent(Facts) \in Nat
<1> DEFINE read(kind) == {m \in Charged(Facts) : m.kind = kind}
           did(kind) == {m \in msgs : m.kind = kind /\ m.seq \in ran}
<1>1. ASSUME NEW kind \in {"continue", "restart"}
      PROVE  did(kind) \subseteq read(kind) /\ IsFiniteSet(read(kind))
  <2>1. read(kind) \subseteq msgs
    BY FactsRead DEF Charged
  <2>2. did(kind) \subseteq read(kind)
    BY RanIsCharged
  <2> QED BY <2>1, <2>2, FS_Subset DEF BasicInv, MsgInv
<1>2. ASSUME NEW kind \in {"continue", "restart"}
      PROVE  Cardinality(did(kind)) <= Cardinality(read(kind)) /\ Cardinality(read(kind)) \in Nat
  BY <1>1, FS_Subset, FS_CardinalityType
<1> QED BY <1>2 DEF RanOf, TurnsOf, Continues, RestartsSpent

(* What a step that delivers a message leaves of the counts.               *)
LEMMA ArrivesRan ==
  ASSUME BasicInv, NEW kind \in Kinds, Arrives(kind), UNCHANGED <<now, ran>>, NEW k
  PROVE  RanOf(k)' = RanOf(k) /\ (k # kind => Due(k)' = 0) /\ Due(k)' \in {0, 1}
<1>1. /\ msgs' = msgs \cup {Newest'} /\ Newest'.kind = kind
      /\ \A m \in msgs : m.seq < Newest'.seq /\ m.seq \in Nat
  BY ArrivesKeeps DEF BasicInv, MsgInv, Msg
<1>2. Newest'.seq \notin ran
  <2> SUFFICES ASSUME Newest'.seq \in ran PROVE FALSE
    OBVIOUS
  <2>1. PICK m \in msgs : m.seq = Newest'.seq
    BY DEF BasicInv, RestInv
  <2> QED BY <1>1, <2>1
<1>3. {m \in msgs' : m.kind = k /\ m.seq \in ran'} = {m \in msgs : m.kind = k /\ m.seq \in ran}
  BY <1>1, <1>2
<1> QED BY <1>1, <1>3 DEF RanOf, TurnsOf, Due

LEMMA RungStays ==
  ASSUME BasicInv, RungInv, UNCHANGED <<msgs, ran>>, bounds'.sends = bounds.sends,
         turn' # "none" => turn # "none"
  PROVE  RungInv'
<1>1. Newest' = Newest /\ Sent' = Sent
  BY DEF Newest, Sent
<1>2. ASSUME NEW kind \in RungKinds PROVE RanOf(kind)' + Due(kind)' <= Allowed(kind)'
  <2>1. RanOf(kind)' = RanOf(kind) /\ Allowed(kind)' = Allowed(kind)
    BY <1>1 DEF RanOf, TurnsOf, Allowed
  <2>2. Due(kind)' \in Nat /\ Due(kind) \in Nat /\ Due(kind)' <= Due(kind)
    BY <1>1 DEF Due
  <2>3. RanOf(kind) \in Nat /\ Allowed(kind) \in Nat
    BY RanFinite, SentIsNat, NumbersHold DEF BasicInv, Numbers, Allowed
  <2>4. RanOf(kind) + Due(kind) <= Allowed(kind)
    BY DEF RungInv
  <2> QED BY <2>1, <2>2, <2>3, <2>4
<1> QED BY <1>2 DEF RungInv, RungKinds

LEMMA LookRungs == ASSUME BasicInv, SecondInv, RunInv, RungInv, Look PROVE RungInv'
<1>1. UNCHANGED <<now, ran>>
  BY DEF Look, history
<1>2. ASSUME NEW kind \in MessageKinds(State.move), State.move # "none", turn = "none",
             Deliver(kind)
      PROVE  RungInv'
  <2>1. kind \in Kinds /\ Arrives(kind)
    BY <1>2, MovesAreKinds DEF Deliver, Arrives
  <2>2. kind \in RungKinds => State.move = kind
    BY <1>2 DEF MessageKinds, RungKinds
  <2>3. bounds'.sends = bounds.sends
    BY <1>2 DEF Deliver, Miss, BasicInv, RestInv
  <2>4. ASSUME NEW k \in RungKinds PROVE RanOf(k)' + Due(k)' <= Allowed(k)'
    <3>1. /\ RanOf(k)' = RanOf(k) /\ (k # kind => Due(k)' = 0) /\ Due(k)' \in {0, 1}
          /\ Allowed(k)' = Allowed(k) /\ Due(k) = 0
      BY <1>1, <1>2, <2>1, <2>3, ArrivesRan DEF Allowed, Sent, Due
    <3>2. RanOf(k) \in Nat /\ Sent \in Nat /\ ContinueAttempts \in Nat /\ Restarts \in Nat
      BY RanFinite, SentIsNat, NumbersHold DEF BasicInv, Numbers
    <3>3. RanOf(k) + Due(k) <= Allowed(k)
      BY <2>4 DEF RungInv
    <3>4. CASE k # kind
      BY <3>1, <3>2, <3>3, <3>4
    <3>5. CASE k = kind
      <4>1. State.move = k
        BY <2>2, <2>4, <3>5
      <4>2. k = "continue" => RanOf(k) < ContinueAttempts
        BY <4>1, <3>2, RungsLeft, RanWithinRead, NumbersHold DEF State, Numbers
      <4>3. k = "restart" => RanOf(k) < Restarts
        BY <4>1, <3>2, RungsLeft, RanWithinRead, NumbersHold DEF State, Numbers
      <4>4. RanOf(k) < Allowed(k) /\ Allowed(k) \in Nat
        BY <2>4, <3>2, <4>2, <4>3 DEF Allowed, RungKinds
      <4> QED BY <3>1, <3>2, <4>4
    <3> QED BY <3>4, <3>5
  <2> QED BY <2>4 DEF RungInv, RungKinds
<1>3. ASSUME Miss \/ UNCHANGED bounds, UNCHANGED <<msgs, turn, by>> PROVE RungInv'
  <2>1. bounds'.sends = bounds.sends
    BY <1>3 DEF Miss, BasicInv, RestInv
  <2> QED BY <1>1, <1>3, <2>1, RungStays
<1> QED BY <1>2, <1>3 DEF Look

LEMMA SendRungs == ASSUME ~SendIntoTurn, BasicInv, RungInv, SendContinue PROVE RungInv'
<1>1. /\ turn = "none" /\ Arrives("continue") /\ "continue" \in Kinds
      /\ UNCHANGED <<now, ran>>
  BY DEF SendContinue, Arrives, Kinds, history
<1>2. Sent' = Sent + 1 /\ Sent \in Nat
  BY NumbersHold, SentIsNat DEF SendContinue, Sent, BasicInv, RestInv, Numbers
<1>3. ASSUME NEW k \in RungKinds PROVE RanOf(k)' + Due(k)' <= Allowed(k)'
  <2>1. /\ RanOf(k)' = RanOf(k) /\ (k # "continue" => Due(k)' = 0) /\ Due(k)' \in {0, 1}
        /\ Due(k) = 0
    BY <1>1, ArrivesRan DEF Due
  <2>2. RanOf(k) \in Nat /\ ContinueAttempts \in Nat /\ Restarts \in Nat
    BY RanFinite, NumbersHold DEF BasicInv, Numbers
  <2>3. RanOf(k) + Due(k) <= Allowed(k)
    BY <1>3 DEF RungInv
  <2>4. Allowed(k)' = IF k = "continue" THEN Allowed(k) + 1 ELSE Allowed(k)
    BY <1>2, <2>2 DEF Allowed
  <2>5. Allowed(k) \in Nat
    BY <1>2, <2>2 DEF Allowed
  <2> QED BY <2>1, <2>2, <2>3, <2>4, <2>5
<1> QED BY <1>3 DEF RungInv, RungKinds

LEMMA EndsRungs == ASSUME BasicInv, RunInv, RungInv, TurnEnds PROVE RungInv'
<1>1. /\ turn = "running" /\ turn' = "none" /\ msgs' = msgs /\ by = Newest.seq
      /\ ran' = ran \/ ran' = ran \cup {by}
  BY DEF TurnEnds, RunInv
<1>2. bounds'.sends = bounds.sends
  BY DEF TurnEnds, BasicInv, RestInv
<1>3. Sent' = Sent
  BY <1>2 DEF Sent
<1>4. ASSUME NEW k \in RungKinds PROVE RanOf(k)' + Due(k)' <= Allowed(k)'
  <2> DEFINE did == {m \in msgs : m.kind = k /\ m.seq \in ran}
             does == {m \in msgs : m.kind = k /\ m.seq \in ran'}
  <2>1. IsFiniteSet(did) /\ Cardinality(did) \in Nat
    BY FS_Subset, FS_CardinalityType DEF BasicInv, MsgInv
  <2>2. does = did \/ (Newest.kind = k /\ does = did \cup {Newest})
    <3>1. Newest \in msgs /\ \A m \in msgs : m.seq = Newest.seq => m = Newest
      BY NewestIs DEF BasicInv, MsgInv
    <3> QED BY <1>1, <3>1
  <2> HIDE DEF did, does
  <2>9. Cardinality(did \cup {Newest}) \in {Cardinality(did), Cardinality(did) + 1}
    <3>1. Newest \notin did => Cardinality(did \cup {Newest}) = Cardinality(did) + 1
      BY <2>1, FS_AddElement
    <3>2. Newest \in did => did \cup {Newest} = did
      OBVIOUS
    <3> QED BY <3>1, <3>2
  <2>3. Cardinality(does) <= Cardinality(did) + Due(k)
    <3>1. Due(k) = IF Newest.kind = k THEN 1 ELSE 0
      BY <1>1 DEF Due
    <3> QED BY <2>1, <2>2, <2>9, <3>1
  <2>4. RanOf(k)' = Cardinality(does) /\ RanOf(k) = Cardinality(did)
    BY <1>1 DEF RanOf, TurnsOf, did, does
  <2>5. Due(k)' = 0 /\ Allowed(k)' = Allowed(k)
    BY <1>1, <1>3 DEF Due, Allowed
  <2>6. Cardinality(does) \in Nat
    <3>1. Cardinality(did \cup {Newest}) \in Nat
      BY <2>1, <2>9
    <3> QED BY <2>1, <2>2, <3>1
  <2>7. Allowed(k) \in Nat /\ Due(k) \in Nat
    BY SentIsNat, NumbersHold DEF BasicInv, Numbers, Allowed, Due
  <2>8. RanOf(k) + Due(k) <= Allowed(k)
    BY <1>4 DEF RungInv
  <2> QED BY <2>1, <2>3, <2>4, <2>5, <2>6, <2>7, <2>8
<1> QED BY <1>4 DEF RungInv, RungKinds

LEMMA RungStep ==
  ASSUME ~SendIntoTurn, BasicInv, SecondInv, RunInv, RungInv, [Next]_vars
  PROVE  RungInv'
<1>1. CASE TurnBegins \/ Reply \/ RaiseBudget \/ Tick \/ UNCHANGED vars
  BY <1>1, RungStays DEF TurnBegins, Reply, RaiseBudget, Tick, vars, history
<1>2. CASE TurnVanishes
  <2>1. bounds'.sends = bounds.sends
    BY <1>2 DEF TurnVanishes, Miss, BasicInv, RestInv
  <2> QED BY <1>2, <2>1, RungStays DEF TurnVanishes, history
<1> QED BY <1>1, <1>2, LookRungs, SendRungs, EndsRungs DEF Next

LEMMA InitRungs == Init => RungInv
<1> SUFFICES ASSUME Init PROVE RungInv
  OBVIOUS
<1>1. Newest \in msgs
  BY InitBasic, NewestIs DEF BasicInv
<1>2. Newest.kind = "open" /\ ran = {}
  BY <1>1 DEF Init
<1>3. Sent = 0
  BY NumbersHold DEF Init, Sent, Numbers
<1>4. ASSUME NEW k \in RungKinds PROVE RanOf(k) + Due(k) <= Allowed(k)
  <2>1. RanOf(k) = 0
    <3>1. {m \in msgs : m.kind = k /\ m.seq \in ran} = {}
      BY <1>2
    <3> QED BY <3>1, FS_EmptySet DEF RanOf, TurnsOf
  <2>2. Due(k) = 0
    BY <1>2, <1>4 DEF Due, RungKinds
  <2> QED BY <1>3, <2>1, <2>2, NumbersHold DEF Allowed, Numbers
<1> QED BY <1>4 DEF RungInv

(* Two kinds of turns together are no more than the one and the other.      *)
LEMMA TurnsAdd ==
  ASSUME MsgInv, NEW kind, NEW a, NEW b
  PROVE  /\ TurnsOf(kind, a \cup b) <= TurnsOf(kind, a) + TurnsOf(kind, b)
         /\ TurnsOf(kind, a) \in Nat /\ TurnsOf(kind, b) \in Nat
         /\ TurnsOf(kind, a \cup b) \in Nat
<1> DEFINE of(run) == {m \in msgs : m.kind = kind /\ m.seq \in run}
<1>1. \A run : IsFiniteSet(of(run)) /\ Cardinality(of(run)) \in Nat
  BY FS_Subset, FS_CardinalityType DEF MsgInv
<1>2. of(a \cup b) = of(a) \cup of(b)
  OBVIOUS
<1> HIDE DEF of
<1>3. Cardinality(of(a) \cup of(b)) = Cardinality(of(a)) + Cardinality(of(b)) - Cardinality(of(a) \cap of(b))
  BY <1>1, FS_Union
<1>4. Cardinality(of(a) \cap of(b)) \in Nat
  BY <1>1, FS_Intersection, FS_CardinalityType
<1>5. /\ TurnsOf(kind, a) = Cardinality(of(a)) /\ TurnsOf(kind, b) = Cardinality(of(b))
      /\ TurnsOf(kind, a \cup b) = Cardinality(of(a) \cup of(b))
  BY <1>2 DEF TurnsOf, of
<1>6. /\ TurnsOf(kind, a) \in Nat /\ TurnsOf(kind, b) \in Nat
      /\ TurnsOf(kind, a \cup b) \in Nat
  BY <1>1, <1>2, <1>5
<1>7. \A x, y, z, u \in Nat : u = x + y - z => u <= x + y
  OBVIOUS
<1> QED BY <1>3, <1>4, <1>5, <1>6, <1>7

(* Recovery is bounded by its counts, though the counts are inferred: no     *)
(* more turns run on the continues, or on the restarts, than the policy's   *)
(* number, the orchestrator's own sends, and one for every driver that died *)
(* with no line in the log, whatever is lost or refused between the looks,  *)
(* and however short a tail of the log is read.                            *)
THEOREM RungsAreBounded ==
  ASSUME ~SameSecond, ~SendIntoTurn
  PROVE  Spec => []RungsBounded
<1>1. Init => RunInv /\ RungInv
  BY InitRun, InitRungs
<1>2. BasicInv /\ SecondInv /\ RunInv /\ RungInv /\ [Next]_vars => (RunInv /\ RungInv)'
  BY RunStep, RungStep
<1>3. BasicInv /\ RungInv => RungsBounded
  <2> SUFFICES ASSUME BasicInv, RungInv PROVE RungsBounded
    OBVIOUS
  <2>1. ASSUME NEW k \in RungKinds PROVE RanOf(k) <= Allowed(k)
    <3>1. RanOf(k) \in Nat /\ Allowed(k) \in Nat /\ Due(k) \in Nat
      BY RanFinite, SentIsNat, NumbersHold DEF BasicInv, Numbers, Allowed, Due
    <3>2. RanOf(k) + Due(k) <= Allowed(k)
      BY <2>1 DEF RungInv
    <3> QED BY <3>1, <3>2
  <2>2. ASSUME NEW k \in RungKinds
        PROVE  TurnsOf(k, ran \cup vanished) <= Allowed(k) + TurnsOf(k, vanished)
    <3>1. RanOf(k) <= Allowed(k) /\ Allowed(k) \in Nat
      BY <2>1, SentIsNat, NumbersHold DEF BasicInv, Numbers, Allowed
    <3>2. MsgInv
      BY DEF BasicInv
    <3> QED BY <3>1, <3>2, TurnsAdd DEF RanOf
  <2> QED BY <2>2 DEF RungsBounded, Allowed, RungKinds
<1> QED BY <1>1, <1>2, <1>3, SecondInvHolds, PTL DEF Spec

-----------------------------------------------------------------------------
(* No two turns end in one second, and none in the second of a message.     *)
ApartInv ==
  /\ \A i, j \in DOMAIN log : i < j => log[i].at < log[j].at
  /\ \A i \in DOMAIN log : \A m \in msgs : m.at # log[i].at

(* What the end of a turn does to the log.                                 *)
LEMMA EndIsLast ==
  ASSUME ~SameSecond, BasicInv, SecondInv, TurnEnds
  PROVE  /\ Len(log) \in Nat /\ Len(log') = Len(log) + 1
         /\ DOMAIN log = 1 .. Len(log) /\ DOMAIN log' = DOMAIN log \cup {Len(log) + 1}
         /\ Len(log) + 1 \notin DOMAIN log
         /\ \A i \in DOMAIN log : log'[i] = log[i] /\ log[i].at \in Nat /\ log[i].at < now
         /\ log'[Len(log) + 1].at = now /\ now \in Nat
         /\ \A m \in msgs : m.at < now /\ m.at \in Nat
         /\ UNCHANGED <<now, msgs, looked>> /\ turn = "running" /\ turn' = "none"
         /\ \E class \in EndClasses :
              /\ log'[Len(log) + 1].class = class
              /\ rapid' = RapidAfter(class)
              /\ ran' = IF class = "spentRefused" THEN ran ELSE ran \cup {by}
              /\ bounds'.sends = bounds.sends
<1>1. PICK class \in EndClasses, retry \in RetryAfters :
        /\ log' = Append(log, [at |-> now, class |-> class, retry |-> retry])
        /\ rapid' = RapidAfter(class)
        /\ ran' = IF class = "spentRefused" THEN ran ELSE ran \cup {by}
        /\ bounds' = bounds \/ bounds' = [bounds EXCEPT !.spent = @ - 1]
  BY DEF TurnEnds
<1>2. /\ UNCHANGED <<now, msgs, looked>> /\ turn = "running" /\ turn' = "none"
      /\ \A m \in msgs : m.at < now
  BY DEF TurnEnds
<1> DEFINE e == [at |-> now, class |-> class, retry |-> retry]
<1>3. log' = Append(log, e) /\ e.at = now /\ e.class = class
  BY <1>1
<1> HIDE DEF e
<1>4. /\ log \in Seq(End) /\ Len(log) \in Nat /\ DOMAIN log = 1 .. Len(log)
      /\ \A i \in DOMAIN log : log[i].at \in Nat
      /\ now \in Nat /\ \A m \in msgs : m.at \in Nat
  BY LogReads, NumbersHold DEF BasicInv, LogInv, MsgInv, Msg, Numbers
<1>5. /\ Len(log') = Len(log) + 1 /\ DOMAIN log' = DOMAIN log \cup {Len(log) + 1}
      /\ Len(log) + 1 \notin DOMAIN log
      /\ \A i \in DOMAIN log : log'[i] = log[i]
      /\ log'[Len(log) + 1] = e
  <2>1. log' \in Seq(End)
    BY BasicStep DEF BasicInv, LogInv, Next
  <2> QED BY <1>3, <1>4, <2>1
<1>6. ASSUME NEW i \in DOMAIN log PROVE log[i].at < now
  <2>1. ~(log[i].at >= Newest.at)
    BY <1>2 DEF SecondInv
  <2>2. Newest \in msgs
    BY NewestIs DEF BasicInv
  <2> QED BY <1>2, <1>4, <2>1, <2>2
<1>7. bounds'.sends = bounds.sends
  BY <1>1 DEF BasicInv, RestInv
<1> QED BY <1>1, <1>2, <1>3, <1>4, <1>5, <1>6, <1>7

LEMMA ApartStep == ASSUME ~SameSecond, BasicInv, SecondInv, ApartInv, [Next]_vars PROVE ApartInv'
<1>0. /\ now \in Nat /\ \A i \in DOMAIN log : log[i].at \in Nat
  BY LogReads, NumbersHold DEF BasicInv, LogInv, Numbers
<1>1. ASSUME NEW kind \in Kinds, Arrives(kind), UNCHANGED <<now, log>>,
             \A i \in DOMAIN log : log[i].at < now
      PROVE  ApartInv'
  <2>1. msgs' = msgs \cup {Newest'} /\ Newest'.at = now
    BY <1>1, ArrivesKeeps
  <2> QED BY <1>0, <1>1, <2>1 DEF ApartInv
<1>2. CASE Look
  <2>1. ASSUME NEW kind \in MessageKinds(State.move), State.move # "none", Deliver(kind)
        PROVE  ApartInv'
    <3>1. kind \in Kinds /\ Arrives(kind)
      BY <2>1, MovesAreKinds DEF Deliver, Arrives
    <3>2. UNCHANGED <<now, log>> /\ \A i \in DOMAIN log : log[i].at < now
      BY <1>2 DEF Look, SecondInv
    <3> QED BY <1>1, <3>1, <3>2
  <2>2. CASE UNCHANGED msgs
    BY <1>2, <2>2 DEF Look, ApartInv
  <2> QED BY <1>2, <2>1, <2>2 DEF Look
<1>3. CASE SendContinue
  <2>1. Arrives("continue") /\ "continue" \in Kinds /\ UNCHANGED <<now, log>>
    BY <1>3 DEF SendContinue, Arrives, Kinds
  <2>2. \A i \in DOMAIN log : log[i].at < now
    BY <1>3 DEF SendContinue
  <2> QED BY <1>1, <2>1, <2>2
<1>4. CASE TurnEnds
  <2>1. /\ DOMAIN log' = DOMAIN log \cup {Len(log) + 1} /\ DOMAIN log = 1 .. Len(log)
        /\ \A i \in DOMAIN log : log'[i] = log[i] /\ log[i].at < now
        /\ log'[Len(log) + 1].at = now /\ msgs' = msgs /\ Len(log) \in Nat
        /\ \A m \in msgs : m.at < now /\ m.at \in Nat
    BY <1>4, EndIsLast
  <2>2. ASSUME NEW i \in DOMAIN log', NEW j \in DOMAIN log', i < j
        PROVE  log'[i].at < log'[j].at
    <3>1. i \in DOMAIN log
      BY <2>1, <2>2
    <3>2. CASE j \in DOMAIN log
      BY <2>1, <2>2, <3>1, <3>2 DEF ApartInv
    <3> QED BY <2>1, <2>2, <3>1, <3>2
  <2>3. ASSUME NEW i \in DOMAIN log', NEW m \in msgs PROVE m.at # log'[i].at
    BY <1>0, <2>1 DEF ApartInv
  <2> QED BY <2>1, <2>2, <2>3 DEF ApartInv
<1>5. CASE TurnBegins \/ TurnVanishes \/ Reply \/ RaiseBudget \/ Tick \/ UNCHANGED vars
  BY <1>5 DEF TurnBegins, TurnVanishes, Reply, RaiseBudget, Tick, vars, ApartInv
<1> QED BY <1>2, <1>3, <1>4, <1>5 DEF Next

LEMMA InitApart == Init => ApartInv
BY DEF Init, ApartInv

-----------------------------------------------------------------------------
(* A rung that is written off was used.  A turn that ended ran for the      *)
(* message that was the newest then, and a continue from before the first  *)
(* turn end is the orchestrator's: the loop makes its own only after one.  *)
Early == {m \in msgs : m.kind = "continue" /\ \A i \in DOMAIN log : m.at < log[i].at}
FairInv ==
  /\ \A i \in DOMAIN log, m \in msgs :
       /\ log[i].class # "spentRefused" /\ m.at < log[i].at
       /\ \A n \in msgs : n.seq > m.seq => n.at > log[i].at
       => m.seq \in ran
  /\ \A m \in msgs : m.kind = "restart" => \E i \in DOMAIN log : log[i].at < m.at
  /\ Cardinality(Early) <= Sent

(* Only silence and a budget are answered without a turn end to go by, and  *)
(* those only by resuming.                                                 *)
LEMMA MovesHaveEnds ==
  ASSUME NEW f, Compute(f).move \in {"continue", "restart", "handoff"}
  PROVE  EndedSince(f, NewestMsg(f)) /\ Compute(f) = EndedVerdict(f)
<1>0. \A s, m, w : Verdict(s, m, w).move = m
  BY DEF Verdict
<1>1. UnheardVerdict(f).move \in {"none", "resume"}
  BY <1>0 DEF UnheardVerdict, Stuck
<1> QED BY <1>0, <1>1 DEF Compute, Working, Stuck

LEMMA EndsAreOfTheLog ==
  ASSUME BasicInv, NEW t, EndedSince(Facts, t)
  PROVE  /\ log # <<>> /\ LastEnd(Facts) = log[Len(log)]
         /\ \E i \in DOMAIN log : log[i].at >= t
<1>1. PICK i \in DOMAIN Facts.ends : Facts.ends[i].at >= t
  BY DEF EndedSince
<1>2. /\ i \in 1 .. Len(log) - Before /\ Facts.ends[i] = log[i + Before]
      /\ Before \in 0 .. Len(log) /\ Len(log) \in Nat /\ DOMAIN log = 1 .. Len(log)
  BY <1>1, TailReads, LogReads DEF BasicInv
<1>3. i + Before \in DOMAIN log
  BY <1>2
<1>4. log # <<>>
  BY <1>2, <1>3
<1> QED BY <1>1, <1>2, <1>3, <1>4, TailReads DEF BasicInv

LEMMA EarlyFinite ==
  ASSUME MsgInv PROVE IsFiniteSet(Early) /\ Cardinality(Early) \in Nat
<1>1. Early \subseteq msgs
  BY DEF Early
<1> QED BY <1>1, FS_Subset, FS_CardinalityType DEF MsgInv

(* A message that arrives has not run, and of now there is no end.         *)
LEMMA ArrivesFair ==
  ASSUME BasicInv, FairInv, NEW kind \in Kinds, Arrives(kind), UNCHANGED <<now, log, ran>>,
         \A i \in DOMAIN log : log[i].at < now,
         Sent' \in {Sent, Sent + 1},
         kind \in {"continue", "restart"} /\ log = <<>> => kind = "continue" /\ Sent' = Sent + 1
  PROVE  FairInv'
<1> DEFINE new == Newest'
<1>1. /\ msgs' = msgs \cup {new} /\ new.at = now /\ new.kind = kind /\ new \notin msgs
  BY ArrivesKeeps
<1>2. /\ log \in Seq(End) /\ Len(log) \in Nat /\ DOMAIN log = 1 .. Len(log)
      /\ \A i \in DOMAIN log : log[i].at \in Nat
      /\ now \in Nat /\ Sent \in Nat
  BY LogReads, NumbersHold, SentIsNat DEF BasicInv, LogInv, Numbers
<1> HIDE DEF new
<1>3. ASSUME NEW i \in DOMAIN log, NEW m \in msgs', log[i].class # "spentRefused",
             m.at < log[i].at, \A n \in msgs' : n.seq > m.seq => n.at > log[i].at
      PROVE  m.seq \in ran
  <2>1. m \in msgs
    BY <1>1, <1>2, <1>3
  <2> QED BY <1>1, <1>3, <2>1 DEF FairInv
<1>4. ASSUME NEW m \in msgs', m.kind = "restart" PROVE \E i \in DOMAIN log : log[i].at < m.at
  <2>1. CASE m \in msgs
    BY <1>4, <2>1 DEF FairInv
  <2>2. CASE m = new
    <3>1. log # <<>>
      BY <1>1, <1>4, <2>2
    <3>2. 1 \in DOMAIN log
      BY <1>2, <3>1
    <3> QED BY <1>1, <2>2, <3>2
  <2> QED BY <1>1, <2>1, <2>2
<1>5. Cardinality(Early)' <= Sent'
  <2> DEFINE was == Early
             is == Early'
  <2>1. is = was \/ (is = was \cup {new} /\ Sent' = Sent + 1)
    <3>1. CASE log = <<>>
      <4>1. DOMAIN log = {}
        BY <3>1
      <4> QED BY <1>1, <3>1, <4>1 DEF Early
    <3>2. CASE log # <<>>
      <4>1. 1 \in DOMAIN log /\ ~(now < log[1].at)
        BY <1>2, <3>2
      <4> QED BY <1>1, <4>1 DEF Early
    <3> QED BY <3>1, <3>2
  <2>2. IsFiniteSet(was) /\ Cardinality(was) \in Nat /\ Cardinality(was) <= Sent
    BY EarlyFinite DEF BasicInv, FairInv
  <2>3. new \notin was
    BY <1>1 DEF Early
  <2> HIDE DEF was, is
  <2>4. Cardinality(was \cup {new}) = Cardinality(was) + 1
    BY <2>2, <2>3, FS_AddElement
  <2>5. Cardinality(is) <= Sent'
    <3>1. CASE is = was
      BY <1>2, <2>2, <3>1
    <3>2. CASE is = was \cup {new} /\ Sent' = Sent + 1
      BY <1>2, <2>2, <2>4, <3>2
    <3> QED BY <2>1, <3>1, <3>2
  <2> QED BY <2>5 DEF is
<1> QED BY <1>3, <1>4, <1>5 DEF FairInv

LEMMA FairStays ==
  ASSUME FairInv, UNCHANGED <<msgs, log, ran>>, bounds'.sends = bounds.sends
  PROVE  FairInv'
BY DEF FairInv, Early, Sent

LEMMA EndsFair ==
  ASSUME ~SameSecond, BasicInv, SecondInv, RunInv, FairInv, TurnEnds
  PROVE  FairInv'
<1>1. /\ DOMAIN log' = DOMAIN log \cup {Len(log) + 1} /\ DOMAIN log = 1 .. Len(log)
      /\ \A i \in DOMAIN log : log'[i] = log[i] /\ log[i].at < now /\ log[i].at \in Nat
      /\ log'[Len(log) + 1].at = now /\ msgs' = msgs /\ Len(log) \in Nat /\ now \in Nat
      /\ \A m \in msgs : m.at < now /\ m.at \in Nat
      /\ Len(log) + 1 \notin DOMAIN log
  BY EndIsLast
<1>2. /\ log'[Len(log) + 1].class # "spentRefused" => by \in ran'
      /\ ran \subseteq ran' /\ bounds'.sends = bounds.sends
  BY EndIsLast
<1>3. by = Newest.seq
  BY DEF TurnEnds, RunInv
<1>4. ASSUME NEW i \in DOMAIN log', NEW m \in msgs, log'[i].class # "spentRefused",
             m.at < log'[i].at, \A n \in msgs : n.seq > m.seq => n.at > log'[i].at
      PROVE  m.seq \in ran'
  <2>1. CASE i \in DOMAIN log
    <3>1. m.seq \in ran
      BY <1>1, <1>4, <2>1 DEF FairInv
    <3> QED BY <1>2, <3>1
  <2>2. CASE i = Len(log) + 1
    <3>1. \A n \in msgs : ~(n.seq > m.seq)
      BY <1>1, <1>4, <2>2
    <3>2. /\ Newest \in msgs /\ \A n \in msgs : n.seq <= Newest.seq
          /\ m.seq \in Nat /\ Newest.seq \in Nat
      BY NewestIs DEF BasicInv, MsgInv, Msg
    <3>3. m.seq = Newest.seq
      BY <3>1, <3>2
    <3> QED BY <1>2, <1>3, <1>4, <2>2, <3>3
  <2> QED BY <1>1, <2>1, <2>2
<1>5. ASSUME NEW m \in msgs, m.kind = "restart" PROVE \E i \in DOMAIN log' : log'[i].at < m.at
  <2>1. PICK i \in DOMAIN log : log[i].at < m.at
    BY <1>5 DEF FairInv
  <2> QED BY <1>1, <2>1
<1>6. Early' = Early
  BY <1>1 DEF Early
<1>7. Sent' = Sent
  BY <1>2 DEF Sent
<1> QED BY <1>1, <1>4, <1>5, <1>6, <1>7 DEF FairInv

LEMMA FairStep ==
  ASSUME ~SameSecond, BasicInv, SecondInv, RunInv, FairInv, [Next]_vars
  PROVE  FairInv'
<1>1. CASE Look
  <2>1. UNCHANGED <<now, log, ran>> /\ ~looked
    BY <1>1 DEF Look, history
  <2>2. ASSUME NEW kind \in MessageKinds(State.move), State.move # "none", Deliver(kind)
        PROVE  FairInv'
    <3>1. kind \in Kinds /\ Arrives(kind)
      BY <2>2, MovesAreKinds DEF Deliver, Arrives
    <3>2. \A i \in DOMAIN log : log[i].at < now
      BY <2>1 DEF SecondInv
    <3>3. kind \in {"continue", "restart"} => log # <<>>
      <4>1. kind \in {"continue", "restart"} => State.move = kind
        BY <2>2 DEF MessageKinds
      <4> QED BY <4>1, MovesHaveEnds, EndsAreOfTheLog DEF State
    <3>4. Sent' = Sent
      BY <2>2 DEF Deliver, Miss, BasicInv, RestInv, Sent
    <3> QED BY <2>1, <3>1, <3>2, <3>3, <3>4, ArrivesFair
  <2>3. ASSUME Miss \/ UNCHANGED bounds, UNCHANGED <<msgs, turn, by>> PROVE FairInv'
    <3>1. bounds'.sends = bounds.sends
      BY <2>3 DEF Miss, BasicInv, RestInv
    <3> QED BY <2>1, <2>3, <3>1, FairStays
  <2> QED BY <1>1, <2>2, <2>3 DEF Look
<1>2. CASE SendContinue
  <2>1. Arrives("continue") /\ "continue" \in Kinds /\ UNCHANGED <<now, log, ran>>
    BY <1>2 DEF SendContinue, Arrives, Kinds, history
  <2>2. Sent' = Sent + 1
    BY <1>2, NumbersHold DEF SendContinue, Sent, BasicInv, RestInv, Numbers
  <2>3. \A i \in DOMAIN log : log[i].at < now
    BY <1>2 DEF SendContinue
  <2> QED BY <2>1, <2>2, <2>3, ArrivesFair
<1>3. CASE TurnVanishes
  <2>1. bounds'.sends = bounds.sends
    BY <1>3 DEF TurnVanishes, Miss, BasicInv, RestInv
  <2> QED BY <1>3, <2>1, FairStays DEF TurnVanishes, history
<1>4. CASE TurnBegins \/ Reply \/ RaiseBudget \/ Tick \/ UNCHANGED vars
  BY <1>4, FairStays DEF TurnBegins, Reply, RaiseBudget, Tick, vars, history
<1> QED BY <1>1, <1>2, <1>3, <1>4, EndsFair DEF Next

LEMMA InitFair == Init => FairInv
<1> SUFFICES ASSUME Init PROVE FairInv
  OBVIOUS
<1>1. \A m \in msgs : m.kind = "open"
  BY DEF Init
<1>2. Early = {} /\ DOMAIN log = {} /\ Sent = 0
  BY <1>1, NumbersHold DEF Init, Early, Sent, Numbers
<1> QED BY <1>1, <1>2, FS_EmptySet DEF FairInv

(* A tail that is the whole log. *)
LEMMA TailIsWhole ==
  ASSUME BasicInv, Len(log) <= LogTail
  PROVE  DOMAIN Facts.ends = DOMAIN log /\ \A i \in DOMAIN log : Facts.ends[i] = log[i]
<1>1. /\ Len(log) \in Nat /\ DOMAIN log = 1 .. Len(log) /\ Before = 0
      /\ DOMAIN Facts.ends = 1 .. Len(log) - Before
      /\ \A i \in 1 .. Len(log) - Before : Facts.ends[i] = log[i + Before]
  BY TailReads, LogReads DEF BasicInv, Before
<1>2. Len(log) - Before = Len(log)
  BY <1>1
<1>3. \A i \in DOMAIN log : i + Before = i
  BY <1>1
<1> QED BY <1>1, <1>2, <1>3

(* The messages after one are those of higher numbers, the opening second   *)
(* apart.                                                                  *)
LEMMA LaterFollows ==
  ASSUME MsgInv, NEW m \in msgs, m.at > 0, NEW n \in msgs, n.seq > m.seq
  PROVE  Precedes(m, n)
<1>1. m.at \in Nat /\ m.seq \in Nat /\ n.at \in Nat /\ n.seq \in Nat
  BY DEF MsgInv, Msg
<1>2. m.at <= n.at
  BY <1>1 DEF MsgInv
<1>3. m.seq # 0
  <2>1. PICK z \in msgs : z.at = 0
    BY DEF MsgInv
  <2>2. z.seq \in Nat /\ z # m
    BY <2>1 DEF MsgInv, Msg
  <2>3. m.seq < z.seq => m.at <= 0
    BY <2>1 DEF MsgInv
  <2>4. m.seq = z.seq => m = z
    BY <2>1 DEF MsgInv
  <2> QED BY <1>1, <2>2, <2>3, <2>4
<1> QED BY <1>1, <1>2, <1>3 DEF Precedes

LEMMA ChargedRan ==
  ASSUME BasicInv, SecondInv, RunInv, ApartInv, FairInv, Len(log) <= LogTail,
         EndedSince(Facts, NewestMsg(Facts)), ~Spent(LastEnd(Facts)),
         NEW m \in Charged(Facts)
  PROVE  m.seq \in ran \/ m \in Early
<1>1. /\ m \in msgs /\ m.kind \in {"continue", "restart"}
      /\ \/ Facts.ends = <<>>
         \/ Following(msgs, m) = {}
         \/ m.at < Facts.ends[1].at
         \/ \E i \in DOMAIN Facts.ends :
              /\ Facts.ends[i].at >= m.at
              /\ Facts.ends[i].at <= NextOf(msgs, m).at
              /\ Facts.ends[i].class # "spentRefused"
  BY FactsRead DEF Charged
<1>2. /\ Len(log) \in Nat /\ DOMAIN log = 1 .. Len(log)
      /\ \A i \in DOMAIN log : log[i].at \in Nat /\ log[i].at > 0
      /\ DOMAIN Facts.ends = DOMAIN log /\ \A i \in DOMAIN log : Facts.ends[i] = log[i]
      /\ m.at \in Nat /\ m.seq \in Nat
      /\ \A n \in msgs : n.at \in Nat /\ n.seq \in Nat
  BY <1>1, LogReads, TailIsWhole DEF BasicInv, SecondInv, MsgInv, Msg
<1>3. /\ log # <<>> /\ LastEnd(Facts) = log[Len(log)]
      /\ \E i \in DOMAIN log : log[i].at >= Newest.at
  BY EndsAreOfTheLog, TimesRead
<1>4. 1 \in DOMAIN log /\ Len(log) \in DOMAIN log /\ Facts.ends # <<>>
  <2>1. 1 \in DOMAIN log /\ Len(log) \in DOMAIN log
    BY <1>2, <1>3
  <2>2. Facts.ends = <<>> => DOMAIN Facts.ends = {}
    OBVIOUS
  <2> QED BY <1>2, <2>1, <2>2
<1>5. CASE m.at < log[1].at
  <2>1. \A i \in DOMAIN log : log[1].at <= log[i].at
    BY <1>2, <1>4 DEF RunInv
  <2>2. \A i \in DOMAIN log : m.at < log[i].at
    BY <1>2, <1>4, <1>5, <2>1
  <2>3. m.kind # "restart"
    BY <1>1, <1>2, <2>2 DEF FairInv
  <2> QED BY <1>1, <2>2, <2>3 DEF Early
<1>6. CASE ~(m.at < log[1].at)
  <2>1. m.at > 0
    BY <1>2, <1>4, <1>6
  <2>2. CASE Following(msgs, m) = {}
    <3>1. \A n \in msgs : ~(n.seq > m.seq)
      BY <1>1, <2>1, <2>2, LaterFollows DEF BasicInv, Following
    <3>2. Newest \in msgs /\ \A n \in msgs : n.seq <= Newest.seq
      BY NewestIs DEF BasicInv
    <3>3. m = Newest
      <4>1. m.seq = Newest.seq
        BY <1>1, <1>2, <3>1, <3>2
      <4> QED BY <1>1, <3>2, <4>1 DEF BasicInv, MsgInv
    <3>4. log[Len(log)].at >= Newest.at
      BY <1>3 DEF SecondInv
    <3>5. m.at < log[Len(log)].at
      <4>1. m.at # log[Len(log)].at
        BY <1>1, <1>4 DEF ApartInv
      <4> QED BY <1>2, <1>4, <3>3, <3>4, <4>1
    <3>6. log[Len(log)].class # "spentRefused"
      BY <1>3 DEF Spent
    <3> QED BY <1>1, <1>4, <3>1, <3>5, <3>6 DEF FairInv
  <2>3. CASE Following(msgs, m) # {}
    <3> DEFINE next == NextOf(msgs, m)
    <3>1. PICK i \in DOMAIN log :
            log[i].at >= m.at /\ log[i].at <= next.at /\ log[i].class # "spentRefused"
      <4>1. ~(m.at < Facts.ends[1].at)
        BY <1>2, <1>4, <1>6
      <4> QED BY <1>1, <1>2, <1>4, <2>3, <4>1
    <3>2. next \in msgs /\ next \in Following(msgs, m)
      BY <1>1, <2>3, NextExists DEF BasicInv, Following
    <3>3. \A n \in Following(msgs, m) : n = next \/ Precedes(next, n)
      BY <1>1, <2>3, NextExists DEF BasicInv
    <3> HIDE DEF next
    <3>4. ASSUME NEW n \in msgs, n.seq > m.seq PROVE n.at > log[i].at
      <4>1. n \in Following(msgs, m)
        BY <1>1, <2>1, <3>4, LaterFollows DEF BasicInv, Following
      <4>2. next.at <= n.at
        BY <1>2, <3>2, <3>3, <4>1 DEF Precedes
      <4>3. n.at # log[i].at
        BY DEF ApartInv
      <4> QED BY <1>2, <3>1, <3>2, <4>2, <4>3
    <3>5. m.at < log[i].at
      <4>1. m.at # log[i].at
        BY <1>1 DEF ApartInv
      <4> QED BY <1>2, <3>1, <4>1
    <3> QED BY <1>1, <3>1, <3>4, <3>5 DEF FairInv
  <2> QED BY <2>2, <2>3
<1> QED BY <1>5, <1>6

LEMMA WrittenOff ==
  ASSUME NEW f, Continues(f) \in Nat, RestartsSpent(f) \in Nat,
         Compute(f).why = "rungs" \/ Compute(f) \in {Stuck("rungs"), Stuck("context")}
  PROVE  /\ EndedSince(f, NewestMsg(f)) /\ ~Spent(LastEnd(f))
         /\ RestartsSpent(f) >= Restarts
         /\ Compute(f).why = "rungs" => Continues(f) >= ContinueAttempts
<1> DEFINE Other(v) == v.why \notin {"rungs", "context"}
<1>0. /\ \A s, m, w : Verdict(s, m, w).why = w /\ Verdict(s, m, w).state = s
      /\ \A w : Stuck(w).why = w /\ Stuck(w).state = "stuck"
  BY DEF Verdict, Stuck
<1>1. /\ Compute(f).why \in {"rungs", "context"}
      /\ Compute(f).why = "context" => Compute(f).state = "stuck"
  BY <1>0
<1>2. /\ Other(RefusedVerdict(f)) /\ Other(SpentVerdict(f)) /\ Other(HandoffVerdict(f))
      /\ Other(UnheardVerdict(f)) /\ \A s, m : Other(Verdict(s, m, "reply"))
      /\ Other(Working) /\ Other(Stuck("elapsed")) /\ Other(Stuck("credential"))
  BY <1>0 DEF RefusedVerdict, SpentVerdict, HandoffVerdict, UnheardVerdict, Working
<1>3. EndedSince(f, NewestMsg(f)) /\ Compute(f) = EndedVerdict(f)
  BY <1>1, <1>2 DEF Compute
<1>4. /\ ~Spent(LastEnd(f))
      /\ Compute(f) = LadderVerdict(f) \/ Compute(f) = ContextVerdict(f)
  <2> DEFINE e == LastEnd(f)
  <2>1. CASE e.class = "unauthorized"
    BY <1>1, <1>2, <1>3, <2>1 DEF EndedVerdict, Spent
  <2>2. CASE e.class = "refused"
    BY <1>1, <1>2, <1>3, <2>2 DEF EndedVerdict, Spent
  <2>3. CASE e.class \in {"spentRefused", "spentHandoff"}
    BY <1>1, <1>2, <1>3, <2>3 DEF EndedVerdict, Spent
  <2>4. CASE e.class = "handoff"
    BY <1>1, <1>2, <1>3, <2>4 DEF EndedVerdict, Spent
  <2>5. CASE e.class = "context"
    BY <1>3, <2>5 DEF EndedVerdict, Spent
  <2>6. CASE e.class \notin {"unauthorized", "refused", "spentRefused", "spentHandoff",
                            "handoff", "context"}
    BY <1>3, <2>6 DEF EndedVerdict, Spent
  <2> QED BY <2>1, <2>2, <2>3, <2>4, <2>5, <2>6
<1>5. ContinueAttempts \in Nat /\ Restarts \in Nat
  BY NumbersHold DEF Numbers
<1>6. CASE Compute(f) = LadderVerdict(f)
  BY <1>0, <1>1, <1>3, <1>4, <1>5, <1>6 DEF LadderVerdict
<1>7. CASE Compute(f) = ContextVerdict(f)
  BY <1>0, <1>1, <1>3, <1>4, <1>5, <1>7 DEF ContextVerdict
<1> QED BY <1>4, <1>6, <1>7

(* A node is written off for its spent rungs only when every rung of it had *)
(* its turn, or the orchestrator's own send took its place; as long as a   *)
(* look reads the whole turn log of the dispatch.                          *)
THEOREM WrittenOffIsFair ==
  ASSUME ~SameSecond, ~SendIntoTurn
  PROVE  Spec => [](Len(log) <= LogTail => WrittenOffFairly)
<1>1. Init => RunInv /\ ApartInv /\ FairInv
  BY InitRun, InitApart, InitFair
<1>2. BasicInv /\ SecondInv /\ RunInv /\ ApartInv /\ FairInv /\ [Next]_vars
        => (RunInv /\ ApartInv /\ FairInv)'
  BY RunStep, ApartStep, FairStep
<1>3. BasicInv /\ SecondInv /\ RunInv /\ ApartInv /\ FairInv
        => (Len(log) <= LogTail => WrittenOffFairly)
  <2> SUFFICES ASSUME BasicInv, SecondInv, RunInv, ApartInv, FairInv, Len(log) <= LogTail,
                      State.why = "rungs" \/ State \in {Stuck("rungs"), Stuck("context")}
               PROVE  /\ State.why = "rungs" => RanOf("continue") + Sent >= ContinueAttempts
                      /\ RanOf("restart") >= Restarts
    BY DEF WrittenOffFairly, Stuck, Verdict
  <2>1. /\ EndedSince(Facts, NewestMsg(Facts)) /\ ~Spent(LastEnd(Facts))
        /\ RestartsSpent(Facts) >= Restarts
        /\ State.why = "rungs" => Continues(Facts) >= ContinueAttempts
        /\ Continues(Facts) \in Nat /\ RestartsSpent(Facts) \in Nat
    BY WrittenOff, RanWithinRead DEF State
  <2> DEFINE read(kind) == {m \in Charged(Facts) : m.kind = kind}
             did(kind) == {m \in msgs : m.kind = kind /\ m.seq \in ran}
  <2>2. /\ read("continue") \subseteq did("continue") \cup Early
        /\ read("restart") \subseteq did("restart")
    <3>1. \A m \in Charged(Facts) : m \in msgs /\ (m.seq \in ran \/ m \in Early)
      BY <2>1, ChargedRan, FactsRead DEF Charged
    <3>2. \A m \in Early : m.kind # "restart"
      BY DEF Early
    <3> QED BY <3>1, <3>2
  <2>3. /\ IsFiniteSet(did("continue")) /\ IsFiniteSet(did("restart"))
        /\ IsFiniteSet(Early) /\ Cardinality(Early) \in Nat
    BY FS_Subset, EarlyFinite DEF BasicInv, MsgInv
  <2>4. /\ Cardinality(read("continue")) = Continues(Facts)
        /\ Cardinality(read("restart")) = RestartsSpent(Facts)
        /\ Cardinality(did("continue")) = RanOf("continue")
        /\ Cardinality(did("restart")) = RanOf("restart")
    BY DEF Continues, RestartsSpent, RanOf, TurnsOf
  <2> HIDE DEF read, did
  <2>5. RestartsSpent(Facts) <= RanOf("restart")
    BY <2>2, <2>3, <2>4, FS_Subset
  <2>6. Continues(Facts) <= RanOf("continue") + Cardinality(Early)
    <3> DEFINE both == did("continue") \cup Early
    <3>1. /\ IsFiniteSet(both)
          /\ Cardinality(both) = Cardinality(did("continue")) + Cardinality(Early)
                                  - Cardinality(did("continue") \cap Early)
      BY <2>3, FS_Union
    <3>2. Cardinality(did("continue") \cap Early) \in Nat
      BY <2>3, FS_Subset, FS_CardinalityType
    <3>3. Cardinality(read("continue")) <= Cardinality(both)
      BY <2>2, <3>1, FS_Subset
    <3>4. Cardinality(did("continue")) \in Nat /\ Cardinality(both) \in Nat
      BY <2>3, <3>1, FS_CardinalityType
    <3> HIDE DEF both
    <3> QED BY <2>1, <2>3, <2>4, <3>1, <3>2, <3>3, <3>4
  <2>7. Cardinality(Early) <= Sent /\ Sent \in Nat
        /\ RanOf("continue") \in Nat /\ RanOf("restart") \in Nat
    BY SentIsNat, RanFinite DEF FairInv, BasicInv
  <2>8. ContinueAttempts \in Nat /\ Restarts \in Nat
    BY NumbersHold DEF Numbers
  <2> QED BY <2>1, <2>3, <2>5, <2>6, <2>7, <2>8
<1> QED BY <1>1, <1>2, <1>3, SecondInvHolds, PTL DEF Spec

-----------------------------------------------------------------------------
(* Sessions that hand off quickly are bounded in a row.                     *)

(* The messages that sessions began on come one in a second, from the loop's *)
(* looks.                                                                  *)
StartedInv ==
  /\ Started # {} => \E m \in Started : \A n \in Started : n.seq <= m.seq
  /\ \A m, n \in Started : m.seq < n.seq => m.at < n.at
  /\ \A m \in Started : m.at > 0
  /\ ~looked => now > 0 /\ \A m \in Started : m.at < now

LEMMA StartedRead ==
  ASSUME MsgInv
  PROVE  /\ Started \subseteq msgs /\ IsFiniteSet(Started)
         /\ \A m \in Started : m.at \in Nat /\ m.seq \in Nat
         /\ \A m, n \in Started : m.seq = n.seq => m = n
<1>1. Started \subseteq msgs
  BY DEF Started
<1>2. IsFiniteSet(Started)
  BY <1>1, FS_Subset DEF MsgInv
<1> QED BY <1>1, <1>2 DEF MsgInv, Msg

LEMMA LatestIs ==
  ASSUME MsgInv, StartedInv, Started # {}
  PROVE  /\ Latest \in Started /\ \A n \in Started : n.seq <= Latest.seq
         /\ Latest \in msgs /\ Latest.at <= Newest.at
<1>1. Latest \in Started /\ \A n \in Started : n.seq <= Latest.seq
  BY DEF StartedInv, Latest
<1> QED BY <1>1, StartedRead, NewestIs

(* What a message that arrives is to the sessions. *)
LEMMA ArrivesStarts ==
  ASSUME BasicInv, NEW kind \in Kinds, Arrives(kind), now' = now
  PROVE  /\ kind \notin {"handoff", "commit"} => Started' = Started
         /\ kind \in {"handoff", "commit"} => Started' = Started \cup {Newest'}
         /\ Newest' \notin Started /\ Newest'.at = now
         /\ \A m \in Started : m.seq < Newest'.seq
<1>1. /\ msgs' = msgs \cup {Newest'} /\ Newest'.kind = kind /\ Newest'.at = now
      /\ Newest' \notin msgs /\ \A m \in msgs : m.seq < Newest'.seq
  BY ArrivesKeeps
<1>2. Started \subseteq msgs
  BY DEF Started
<1>3. kind \notin {"handoff", "commit"} => Started' = Started
  BY <1>1 DEF Started
<1>4. kind \in {"handoff", "commit"} => Started' = Started \cup {Newest'}
  BY <1>1 DEF Started
<1> QED BY <1>1, <1>2, <1>3, <1>4

LEMMA StartedStep == ASSUME BasicInv, StartedInv, [Next]_vars PROVE StartedInv'
<1>0. now \in Nat
  BY NumbersHold DEF BasicInv, LogInv, Numbers
<1>1. ASSUME Started' = Started, now' = now, looked' = looked \/ looked' = TRUE
      PROVE  StartedInv'
  BY <1>1 DEF StartedInv
<1>2. CASE Look
  <2>1. ~looked /\ looked' = TRUE /\ now' = now
    BY <1>2 DEF Look
  <2>2. ASSUME NEW kind \in MessageKinds(State.move), State.move # "none", Deliver(kind)
        PROVE  StartedInv'
    <3>1. kind \in Kinds /\ Arrives(kind)
      BY <2>2, MovesAreKinds DEF Deliver, Arrives
    <3>2. /\ Started' = Started \/ Started' = Started \cup {Newest'}
          /\ Newest'.at = now /\ \A m \in Started : m.seq < Newest'.seq
      BY <2>1, <3>1, ArrivesStarts
    <3>3. now > 0 /\ \A m \in Started : m.at < now /\ m.seq \in Nat
      BY <2>1, StartedRead DEF StartedInv, BasicInv
    <3>4. Newest'.seq \in Nat
      BY <2>1, <3>1, ArrivesKeeps, NewestIs DEF MsgInv, Msg
    <3>5. CASE Started' = Started \cup {Newest'}
      <4>1. \A m, n \in Started' : m.seq < n.seq => m.at < n.at
        BY <3>2, <3>3, <3>4, <3>5 DEF StartedInv
      <4>2. Newest' \in Started' /\ \A n \in Started' : n.seq <= Newest'.seq
        BY <3>2, <3>3, <3>4, <3>5
      <4>3. \A m \in Started' : m.at > 0
        BY <3>2, <3>3, <3>5 DEF StartedInv
      <4> QED BY <2>1, <4>1, <4>2, <4>3 DEF StartedInv
    <3> QED BY <1>1, <2>1, <3>2, <3>5
  <2>3. CASE UNCHANGED msgs
    <3>1. Started' = Started
      BY <2>3 DEF Started
    <3> QED BY <1>1, <2>1, <3>1
  <2> QED BY <1>2, <2>2, <2>3 DEF Look
<1>3. CASE SendContinue
  <2>1. Arrives("continue") /\ "continue" \in Kinds /\ UNCHANGED <<now, looked>>
    BY <1>3 DEF SendContinue, Arrives, Kinds
  <2> QED BY <1>1, <2>1, ArrivesStarts
<1>4. CASE Tick
  <2>1. now' = now + 1 /\ msgs' = msgs
    BY <1>4 DEF Tick
  <2>2. Started' = Started
    BY <2>1 DEF Started
  <2>3. \A m \in Started : m.at <= now /\ m.at \in Nat
    BY StartedRead DEF BasicInv, MsgInv
  <2> QED BY <1>0, <2>1, <2>2, <2>3 DEF StartedInv
<1>5. CASE TurnBegins \/ TurnVanishes \/ Reply \/ RaiseBudget \/ TurnEnds \/ UNCHANGED vars
  <2>1. UNCHANGED <<now, looked, msgs>>
    BY <1>5 DEF TurnBegins, TurnVanishes, Reply, RaiseBudget, TurnEnds, vars
  <2>2. Started' = Started
    BY <2>1 DEF Started
  <2> QED BY <1>1, <2>1, <2>2
<1> QED BY <1>2, <1>3, <1>4, <1>5 DEF Next

LEMMA InitStarted == Init => StartedInv
<1> SUFFICES ASSUME Init PROVE StartedInv
  OBVIOUS
<1>1. Started = {}
  BY DEF Init, Started
<1> QED BY <1>1 DEF Init, StartedInv

(* A session that handed off quickly, at its first such end in the log, and *)
(* was not stopped by the budget before.                                   *)
QuickAt(t, i) ==
  /\ log[i].class = "handoff" /\ t.at < log[i].at
  /\ log[i].at - t.at < RapidHandoffSeconds
  /\ \A n \in Started : n.seq > t.seq => log[i].at <= n.at
  /\ \A j \in DOMAIN log :
       /\ Spent(log[j]) => log[j].at <= t.at \/ log[j].at > log[i].at
       /\ log[j].class = "handoff" /\ log[j].at > t.at => log[i].at <= log[j].at
Quick(t) == \E i \in DOMAIN log : QuickAt(t, i)

(* The sessions that are over, or have at least handed off, and the row of  *)
(* quick ones at their end.                                                *)
HandedOff == \E i \in DOMAIN log : log[i].class = "handoff" /\ log[i].at > Latest.at
Over == IF Started = {} THEN {} ELSE IF HandedOff THEN Started ELSE Started \ {Latest}
Row == {s \in Over : \A t \in Over : t.seq >= s.seq => Quick(t)}

LastClass(class) ==
  log # <<>> /\ log[Len(log)].class = class /\ log[Len(log)].at >= Newest.at

(* The history counts no more than the row; and a session that the budget   *)
(* has just stopped before it handed off has ended the count.              *)
RowInv ==
  /\ Started = {} => rapid = 0
  /\ rapid <= Cardinality(Row)
  /\ LastClass("spentHandoff") /\ Started # {} /\ ~HandedOff => rapid = 0

LEMMA RowFinite == ASSUME MsgInv PROVE IsFiniteSet(Row) /\ Cardinality(Row) \in Nat
<1>1. Row \subseteq Started
  BY DEF Row, Over
<1> QED BY <1>1, StartedRead, FS_Subset, FS_CardinalityType

(* A longer row counts more. *)
LEMMA RowGrows ==
  ASSUME BasicInv, RowInv, MsgInv', rapid' = rapid, Row \subseteq Row'
  PROVE  rapid' <= Cardinality(Row)'
<1>1. IsFiniteSet(Row') /\ Cardinality(Row') \in Nat /\ Cardinality(Row) \in Nat
  <2>1. Row' \subseteq msgs' /\ IsFiniteSet(msgs')
    BY DEF Row, Over, Started, MsgInv
  <2>2. IsFiniteSet(Row')
    BY <2>1, FS_Subset
  <2> QED BY <2>2, RowFinite, FS_CardinalityType DEF BasicInv
<1>2. Cardinality(Row) <= Cardinality(Row')
  BY <1>1, FS_Subset
<1> QED BY <1>1, <1>2 DEF RowInv, BasicInv, RestInv

LEMMA QuickStays ==
  ASSUME BasicInv, NEW t \in Started, Quick(t), log' = log,
         Started' \subseteq Started \cup {Newest'}, Newest'.at = now
  PROVE  Quick(t)'
<1>1. PICK i \in DOMAIN log : QuickAt(t, i)
  BY DEF Quick
<1>2. log[i].at <= now
  BY DEF BasicInv, LogInv
<1>3. \A n \in Started' : n.seq > t.seq => log[i].at <= n.at
  BY <1>1, <1>2 DEF QuickAt
<1>4. QuickAt(t, i)'
  BY <1>1, <1>3 DEF QuickAt
<1> QED BY <1>1, <1>4 DEF Quick

LEMMA RowStays ==
  ASSUME BasicInv, RowInv, log' = log, rapid' = rapid, Started' = Started,
         \A class : LastClass(class)' => LastClass(class)
  PROVE  RowInv'
<1>1. Latest' = Latest
  BY DEF Latest
<1>2. HandedOff' = HandedOff
  BY <1>1 DEF HandedOff
<1>3. \A t : Quick(t)' <=> Quick(t)
  BY DEF Quick, QuickAt
<1>4. Over' = Over
  BY <1>1, <1>2 DEF Over
<1>5. Row' = Row
  BY <1>3, <1>4 DEF Row
<1> QED BY <1>2, <1>5 DEF RowInv

(* A fresh session is taken up after the last handed off, or was stopped by *)
(* the budget.                                                             *)
LEMMA HandoffMoves ==
  ASSUME NEW f, Compute(f).move = "handoff"
  PROVE  LastEnd(f).class \in {"handoff", "spentHandoff"}
<1>0. \A s, m, w : Verdict(s, m, w).move = m
  BY DEF Verdict
<1>1. Compute(f) = EndedVerdict(f)
  BY MovesHaveEnds
<1>2. /\ RefusedVerdict(f).move # "handoff" /\ ContextVerdict(f).move # "handoff"
      /\ LadderVerdict(f).move # "handoff" /\ \A w : Stuck(w).move # "handoff"
  BY <1>0 DEF RefusedVerdict, ContextVerdict, LadderVerdict, Stuck
<1>3. SpentVerdict(f).move = "handoff" => LastEnd(f).class = "spentHandoff"
  BY <1>0 DEF SpentVerdict
<1> DEFINE e == LastEnd(f)
<1>4. CASE e.class = "unauthorized"
  BY <1>1, <1>2, <1>4 DEF EndedVerdict, Spent
<1>5. CASE e.class = "refused"
  BY <1>1, <1>2, <1>5 DEF EndedVerdict, Spent
<1>6. CASE e.class = "spentRefused"
  BY <1>1, <1>3, <1>6 DEF EndedVerdict, Spent
<1>7. CASE e.class = "context"
  BY <1>1, <1>2, <1>7 DEF EndedVerdict, Spent
<1>8. CASE e.class \notin {"unauthorized", "refused", "spentRefused", "spentHandoff",
                          "handoff", "context"}
  BY <1>1, <1>2, <1>8 DEF EndedVerdict, Spent
<1> QED BY <1>4, <1>5, <1>6, <1>7, <1>8

LEMMA StartKeepsRow ==
  ASSUME BasicInv, SecondInv, ApartInv, StartedInv, RowInv, ~looked,
         State.move = "handoff", NEW kind \in {"handoff", "commit"}, Arrives(kind),
         UNCHANGED <<now, log, rapid>>
  PROVE  RowInv'
<1>1. /\ Started' = Started \cup {Newest'} /\ Newest' \notin Started /\ Newest'.at = now
      /\ \A m \in Started : m.seq < Newest'.seq /\ m.seq \in Nat
  BY ArrivesStarts, StartedRead DEF Kinds, BasicInv
<1>2. MsgInv' /\ Newest'.seq \in Nat /\ now \in Nat
  <2>1. MsgInv' /\ Newest'.seq = Newest.seq + 1
    BY ArrivesKeeps DEF Kinds
  <2>2. Newest.seq \in Nat
    BY NewestIs DEF BasicInv, Msg
  <2> QED BY <2>1, <2>2, NumbersHold DEF BasicInv, LogInv, Numbers
<1>3. Latest' = Newest'
  <2>1. Latest' \in Started' /\ \A n \in Started' : n.seq <= Latest'.seq
    <3>1. \A n \in Started' : n.seq <= Newest'.seq
      BY <1>1, <1>2
    <3> QED BY <1>1, <3>1 DEF Latest
  <2> QED BY <1>1, <1>2, <2>1
<1>4. /\ \A i \in DOMAIN log : log[i].at < now /\ log[i].at \in Nat
      /\ Len(log) \in Nat /\ DOMAIN log = 1 .. Len(log)
  BY LogReads DEF SecondInv, BasicInv
<1>5. ~HandedOff' /\ \A class : ~LastClass(class)'
  <2>1. \A i \in DOMAIN log : ~(log[i].at > now) /\ ~(log[i].at >= now)
    BY <1>2, <1>4
  <2>2. log # <<>> => Len(log) \in DOMAIN log
    BY <1>4
  <2> QED BY <1>1, <1>3, <2>1, <2>2 DEF HandedOff, LastClass
<1>6. Over' = Started
  BY <1>1, <1>3, <1>5 DEF Over
<1>7. CASE Started # {} /\ HandedOff
  <2>1. Over = Started
    BY <1>7 DEF Over
  <2>2. \A t \in Started : Quick(t) => Quick(t)'
    BY <1>1, QuickStays
  <2>3. Row \subseteq Row'
    BY <1>6, <2>1, <2>2 DEF Row
  <2> QED BY <1>1, <1>2, <1>5, <2>3, RowGrows DEF RowInv
<1>8. CASE ~(Started # {} /\ HandedOff)
  <2>1. rapid = 0
    <3>1. CASE Started = {}
      BY <3>1 DEF RowInv
    <3>2. CASE Started # {}
      <4>1. /\ log # <<>> /\ LastEnd(Facts) = log[Len(log)]
            /\ \E i \in DOMAIN log : log[i].at >= Newest.at
        BY MovesHaveEnds, EndsAreOfTheLog, TimesRead DEF State
      <4>2. log[Len(log)].at >= Newest.at /\ Len(log) \in DOMAIN log
        BY <1>4, <4>1 DEF SecondInv
      <4>3. Latest \in msgs /\ Latest.at <= Newest.at /\ Latest.at \in Nat /\ Newest.at \in Nat
        BY <3>2, LatestIs, NewestIs DEF BasicInv, MsgInv, Msg
      <4>4. log[Len(log)].at > Latest.at
        <5>1. log[Len(log)].at # Latest.at
          BY <4>2, <4>3 DEF ApartInv
        <5> QED BY <1>4, <4>2, <4>3, <5>1
      <4>5. log[Len(log)].class # "handoff"
        BY <1>8, <3>2, <4>2, <4>4 DEF HandedOff
      <4>6. log[Len(log)].class = "spentHandoff"
        BY <4>1, <4>5, HandoffMoves DEF State
      <4> QED BY <1>8, <3>2, <4>1, <4>2, <4>6 DEF RowInv, LastClass
    <3> QED BY <3>1, <3>2
  <2>2. Cardinality(Row)' \in Nat
    <3>1. Row' \subseteq msgs' /\ IsFiniteSet(msgs')
      BY <1>2 DEF Row, Over, Started, MsgInv
    <3> QED BY <3>1, FS_Subset, FS_CardinalityType
  <2> QED BY <1>1, <1>5, <2>1, <2>2 DEF RowInv
<1> QED BY <1>7, <1>8

LEMMA EndKeepsQuick ==
  ASSUME ~SameSecond, BasicInv, SecondInv, TurnEnds, NEW t \in Started, Quick(t)
  PROVE  Quick(t)'
<1>1. PICK i \in DOMAIN log : QuickAt(t, i)
  BY DEF Quick
<1>2. /\ DOMAIN log' = DOMAIN log \cup {Len(log) + 1}
      /\ \A j \in DOMAIN log : log'[j] = log[j] /\ log[j].at < now /\ log[j].at \in Nat
      /\ log'[Len(log) + 1].at = now /\ now \in Nat /\ msgs' = msgs
  BY EndIsLast
<1>3. Started' = Started
  BY <1>2 DEF Started
<1>4. ASSUME NEW j \in DOMAIN log'
      PROVE  /\ Spent(log'[j]) => log'[j].at <= t.at \/ log'[j].at > log'[i].at
             /\ log'[j].class = "handoff" /\ log'[j].at > t.at => log'[i].at <= log'[j].at
  <2>1. CASE j \in DOMAIN log
    BY <1>1, <1>2, <2>1 DEF QuickAt
  <2>2. CASE j = Len(log) + 1
    BY <1>2, <2>2
  <2> QED BY <1>2, <2>1, <2>2
<1>5. QuickAt(t, i)'
  BY <1>1, <1>2, <1>3, <1>4 DEF QuickAt
<1> QED BY <1>2, <1>5 DEF Quick

LEMMA EndKeepsRow ==
  ASSUME ~SameSecond, BasicInv, SecondInv, StartedInv, RowInv, TurnEnds
  PROVE  RowInv'
<1>1. /\ DOMAIN log' = DOMAIN log \cup {Len(log) + 1} /\ DOMAIN log = 1 .. Len(log)
      /\ Len(log) \in Nat /\ Len(log') = Len(log) + 1
      /\ \A j \in DOMAIN log : log'[j] = log[j] /\ log[j].at < now /\ log[j].at \in Nat
      /\ log'[Len(log) + 1].at = now /\ now \in Nat /\ msgs' = msgs
      /\ \A m \in msgs : m.at < now /\ m.at \in Nat
  BY EndIsLast
<1>2. PICK class \in EndClasses : log'[Len(log) + 1].class = class /\ rapid' = RapidAfter(class)
  BY EndIsLast
<1>3. Started' = Started /\ Latest' = Latest
  BY <1>1 DEF Started, Latest
<1>4. Started # {} => /\ Latest \in Started /\ \A n \in Started : n.seq <= Latest.seq
                      /\ Latest.at < now /\ Latest.at \in Nat
  BY <1>1, LatestIs DEF BasicInv
<1>5. MsgInv' /\ Cardinality(Row)' \in Nat /\ IsFiniteSet(Row')
  <2>1. MsgInv'
    BY BasicStep DEF BasicInv, Next
  <2>2. Row' \subseteq msgs' /\ IsFiniteSet(msgs')
    BY <2>1 DEF Row, Over, Started, MsgInv
  <2> QED BY <2>1, <2>2, FS_Subset, FS_CardinalityType
<1>6. Started # {} => (HandedOff' <=> HandedOff \/ class = "handoff")
  BY <1>1, <1>2, <1>3, <1>4 DEF HandedOff
<1>7. \A t \in Started : Quick(t) => Quick(t)'
  BY EndKeepsQuick
<1>8. LastClass("spentHandoff")' => class = "spentHandoff"
  BY <1>1, <1>2 DEF LastClass
<1>9. EndedAs({"handoff"}) <=> HandedOff
  BY DEF HandedOff, EndedAs
<1>10. rapid' = IF class \notin {"handoff", "spentHandoff"} \/ (Started # {} /\ HandedOff)
                THEN rapid
                ELSE IF \/ Started = {} \/ now - Latest.at >= RapidHandoffSeconds
                        \/ class = "spentHandoff" \/ EndedAs({"spentRefused", "spentHandoff"})
                THEN 0 ELSE rapid + 1
  BY <1>2, <1>9 DEF RapidAfter
<1>12. CASE rapid' = 0
  BY <1>5, <1>12 DEF RowInv
<1>13. CASE rapid' # 0 /\ (class \notin {"handoff", "spentHandoff"} \/ (Started # {} /\ HandedOff))
  <2>1. rapid' = rapid /\ Started # {}
    BY <1>10, <1>13 DEF RowInv
  <2>2. HandedOff' <=> HandedOff
    BY <1>6, <1>13, <2>1
  <2>3. Over' = Over /\ Over \subseteq Started
    BY <1>3, <2>2 DEF Over
  <2>4. Row \subseteq Row'
    BY <1>7, <2>3 DEF Row
  <2>5. rapid' <= Cardinality(Row)'
    BY <1>5, <2>1, <2>4, RowGrows
  <2>6. LastClass("spentHandoff")' /\ ~HandedOff' => FALSE
    BY <1>8, <1>13, <2>2
  <2> QED BY <1>3, <2>1, <2>5, <2>6 DEF RowInv
<1>14. CASE rapid' # 0 /\ class \in {"handoff", "spentHandoff"} /\ (Started = {} \/ ~HandedOff)
  <2>1. /\ Started # {} /\ class # "spentHandoff" /\ ~EndedAs({"spentRefused", "spentHandoff"})
        /\ ~(now - Latest.at >= RapidHandoffSeconds)
        /\ rapid' = rapid + 1 /\ ~HandedOff
    BY <1>10, <1>14
  <2>2. class = "handoff" /\ \A i \in DOMAIN log : Spent(log[i]) => log[i].at <= Latest.at
    <3>1. class = "handoff"
      BY <1>14, <2>1
    <3>2. ~(\E i \in DOMAIN log : Spent(log[i]) /\ log[i].at > Latest.at)
      BY <2>1 DEF EndedAs, Spent
    <3>3. \A i \in DOMAIN log : log[i].at \in Nat /\ Latest.at \in Nat
      BY <1>1, <1>4, <2>1
    <3>4. \A i \in DOMAIN log : log[i].at > Latest.at \/ log[i].at <= Latest.at
      BY <3>3
    <3> QED BY <3>1, <3>2, <3>4
  <2>3. Over = Started \ {Latest} /\ Over' = Started
    BY <1>3, <1>6, <2>1, <2>2 DEF Over
  <2>. PICK l \in Started : l = Latest
    BY <1>4, <2>1
  <2>. PICK i \in DOMAIN log' : i = Len(log) + 1
    BY <1>1
  <2>4. Quick(l)'
    <3>1. log'[i].at = now /\ log'[i].class = "handoff"
      BY <1>1, <1>2, <2>2
    <3>2. now - l.at < RapidHandoffSeconds
      <4>1. RapidHandoffSeconds \in Nat
        BY PolicyAssumption DEF PolicyNumbers
      <4> QED BY <1>1, <1>4, <2>1, <4>1
    <3>3. \A n \in Started' : ~(n.seq > l.seq)
      <4>1. \A n \in Started : n.seq \in Nat /\ Latest.seq \in Nat /\ n.seq <= Latest.seq
        BY <1>4, <2>1, StartedRead DEF BasicInv
      <4> QED BY <1>3, <4>1
    <3>4. ASSUME NEW j \in DOMAIN log'
          PROVE  /\ Spent(log'[j]) => log'[j].at <= l.at \/ log'[j].at > log'[i].at
                 /\ log'[j].class = "handoff" /\ log'[j].at > l.at
                       => log'[i].at <= log'[j].at
      <4>1. CASE j \in DOMAIN log
        BY <1>1, <2>1, <2>2, <4>1 DEF HandedOff
      <4>2. CASE j = i
        BY <1>1, <3>1, <4>2 DEF Spent
      <4> QED BY <1>1, <4>1, <4>2
    <3>5. l.at < log'[i].at /\ log'[i].at - l.at < RapidHandoffSeconds
      BY <1>4, <2>1, <3>1, <3>2
    <3>6. QuickAt(l, i)'
      BY <3>1, <3>3, <3>4, <3>5 DEF QuickAt
    <3> QED BY <3>6 DEF Quick
  <2>5. Latest \notin Row
    BY <2>3 DEF Row
  <2>6. Row \cup {Latest} \subseteq Row'
    <3>1. \A t \in Started : t # Latest => t \in Over
      BY <2>3
    <3>2. \A t \in Started : t.seq >= Latest.seq => t = Latest
      <4>1. \A n \in Started : n.seq \in Nat /\ Latest.seq \in Nat /\ n.seq <= Latest.seq
        BY <1>4, <2>1, StartedRead DEF BasicInv
      <4> QED BY <1>4, <2>1, <4>1, StartedRead DEF BasicInv
    <3>3. Latest \in Row'
      <4>1. \A t \in Started : t.seq >= l.seq => Quick(t)'
        BY <2>4, <3>2
      <4>2. l \in Row'
        BY <2>3, <4>1 DEF Row
      <4> QED BY <4>2
    <3>4. ASSUME NEW s \in Row PROVE s \in Row'
      <4>1. s \in Started /\ \A t \in Over : t.seq >= s.seq => Quick(t)
        BY <2>3 DEF Row
      <4>2. \A t \in Started : t.seq >= s.seq => Quick(t)'
        <5> SUFFICES ASSUME NEW t \in Started, t.seq >= s.seq PROVE Quick(t)'
          OBVIOUS
        <5>1. CASE t = l
          BY <2>4, <5>1
        <5>2. CASE t # l
          BY <1>7, <3>1, <4>1, <5>2
        <5> QED BY <5>1, <5>2
      <4> QED BY <2>3, <4>1, <4>2 DEF Row
    <3> QED BY <3>3, <3>4
  <2>7. IsFiniteSet(Row) /\ Cardinality(Row) \in Nat
    BY RowFinite DEF BasicInv
  <2>8. Cardinality(Row \cup {Latest}) = Cardinality(Row) + 1
    BY <2>5, <2>7, FS_AddElement
  <2>9. Cardinality(Row \cup {Latest}) <= Cardinality(Row')
    BY <1>5, <2>6, FS_Subset
  <2>10. rapid' <= Cardinality(Row)'
    BY <1>5, <2>1, <2>7, <2>8, <2>9 DEF RowInv, BasicInv, RestInv
  <2>11. ~LastClass("spentHandoff")'
    BY <1>8, <2>2
  <2> QED BY <1>3, <2>1, <2>10, <2>11 DEF RowInv
<1> QED BY <1>12, <1>13, <1>14

LEMMA RowStep ==
  ASSUME ~SameSecond, BasicInv, SecondInv, ApartInv, StartedInv, RowInv, [Next]_vars
  PROVE  RowInv'
<1>1. ASSUME NEW kind \in Kinds, Arrives(kind), kind \notin {"handoff", "commit"},
             UNCHANGED <<now, log, rapid>>
      PROVE  RowInv'
  <2>1. Started' = Started /\ Newest'.at = now
    BY <1>1, ArrivesStarts
  <2>2. Newest.at <= now /\ now \in Nat /\ Newest.at \in Nat
    BY NewestIs, NumbersHold DEF BasicInv, MsgInv, Msg, LogInv, Numbers
  <2>3. \A class : LastClass(class)' => LastClass(class)
    <3> SUFFICES ASSUME NEW class, LastClass(class)' PROVE LastClass(class)
      OBVIOUS
    <3>1. log # <<>> /\ log[Len(log)].class = class /\ log[Len(log)].at >= now
      BY <1>1, <2>1 DEF LastClass
    <3>2. log[Len(log)].at \in Nat
      BY <3>1, LogReads DEF BasicInv
    <3>3. log[Len(log)].at >= Newest.at
      BY <2>2, <3>1, <3>2
    <3> QED BY <3>1, <3>3 DEF LastClass
  <2> QED BY <1>1, <2>1, <2>3, RowStays
<1>2. CASE Look
  <2>1. ~looked /\ UNCHANGED <<now, log, rapid>>
    BY <1>2 DEF Look, history
  <2>2. ASSUME NEW kind \in MessageKinds(State.move), State.move # "none", Deliver(kind)
        PROVE  RowInv'
    <3>1. kind \in Kinds /\ Arrives(kind)
      BY <2>2, MovesAreKinds DEF Deliver, Arrives
    <3>2. kind \in {"handoff", "commit"} => State.move = "handoff"
      BY <2>2, MovesOfVerdicts DEF MessageKinds, State
    <3> QED BY <1>1, <2>1, <3>1, <3>2, StartKeepsRow
  <2>3. CASE UNCHANGED msgs
    BY <2>1, <2>3, RowStays DEF Started, LastClass, Newest
  <2> QED BY <1>2, <2>2, <2>3 DEF Look
<1>3. CASE SendContinue
  BY <1>1, <1>3 DEF SendContinue, Arrives, Kinds, history
<1>4. CASE TurnBegins \/ TurnVanishes \/ Reply \/ RaiseBudget \/ Tick \/ UNCHANGED vars
  <2>1. UNCHANGED <<msgs, log, rapid>>
    BY <1>4 DEF TurnBegins, TurnVanishes, Reply, RaiseBudget, Tick, vars, history
  <2> QED BY <2>1, RowStays DEF Started, LastClass, Newest
<1> QED BY <1>2, <1>3, <1>4, EndKeepsRow DEF Next

LEMMA InitRow == Init => RowInv
<1> SUFFICES ASSUME Init PROVE RowInv
  OBVIOUS
<1>1. Started = {} /\ rapid = 0 /\ log = <<>>
  BY DEF Init, Started
<1>2. Row = {}
  BY <1>1 DEF Row, Over
<1> QED BY <1>1, <1>2, FS_EmptySet DEF RowInv

(* At the limit the last turn handed off, as the first of its session to do *)
(* so, and no turn follows it.                                             *)
LimitInv ==
  rapid >= Handoffs =>
    /\ rapid = Handoffs /\ turn = "none" /\ Started # {} /\ LastClass("handoff")
    /\ \A i \in DOMAIN log :
         log[i].class = "handoff" /\ log[i].at > Latest.at => i = Len(log)

(* The messages that follow one among the sessions' are the later ones.     *)
LEMMA SessionsFollow ==
  ASSUME MsgInv, StartedInv, NEW s \in Started
  PROVE  Following(Started, s) = {t \in Started : t.seq > s.seq}
<1>1. \A t \in Started : t.at \in Nat /\ t.seq \in Nat
  BY StartedRead
<1>2. \A t \in Started : t.seq > s.seq => Precedes(s, t)
  BY <1>1 DEF Precedes, StartedInv
<1>3. ASSUME NEW t \in Started, Precedes(s, t) PROVE t.seq > s.seq
  <2>1. CASE t.seq < s.seq
    <3>1. t.at < s.at
      BY <2>1 DEF StartedInv
    <3> QED BY <1>1, <1>3, <3>1 DEF Precedes
  <2>2. CASE t.seq = s.seq
    <3>1. t = s
      BY <2>2, StartedRead
    <3> QED BY <1>1, <1>3, <3>1 DEF Precedes
  <2> QED BY <1>1, <2>1, <2>2
<1> QED BY <1>2, <1>3 DEF Following

(* What the count reads of a session that handed off quickly, when the last *)
(* turn is the only one of the latest session that did.                    *)
LEMMA QuickEnd ==
  ASSUME BasicInv, StartedInv, Len(log) <= LogTail, NEW t \in Started,
         NEW i \in DOMAIN log, QuickAt(t, i),
         \A j \in DOMAIN log :
           log[j].class = "handoff" /\ log[j].at > Latest.at => j = Len(log)
  PROVE  SessionEnd(Facts, t) = log[i].at
<1>1. /\ DOMAIN Facts.ends = DOMAIN log /\ \A j \in DOMAIN log : Facts.ends[j] = log[j]
      /\ LastEnd(Facts) = log[Len(log)] /\ \A j \in DOMAIN log : log[j].at \in Nat
  <2>1. log # <<>>
    BY LogReads DEF BasicInv
  <2> QED BY <2>1, TailIsWhole, TailReads, LogReads DEF BasicInv
<1>2. SessionStarts(Facts) = Started
  BY FactsRead DEF SessionStarts, Started
<1>3. Following(Started, t) = {n \in Started : n.seq > t.seq}
  BY SessionsFollow DEF BasicInv
<1>4. CASE Following(Started, t) = {}
  <2>1. Latest \in Started /\ \A n \in Started : n.seq <= Latest.seq
    BY LatestIs DEF BasicInv
  <2>2. Latest.seq \in Nat /\ t.seq \in Nat /\ t.seq <= Latest.seq
    BY <2>1, StartedRead DEF BasicInv
  <2>3. Latest = t
    <3>1. ~(Latest.seq > t.seq)
      BY <1>3, <1>4, <2>1
    <3>2. Latest.seq = t.seq
      BY <2>2, <3>1
    <3> QED BY <2>1, <3>2, StartedRead DEF BasicInv
  <2>4. log[i].class = "handoff" /\ log[i].at > Latest.at
    BY <1>1, <2>1, <2>3, StartedRead DEF QuickAt, BasicInv
  <2>5. i = Len(log)
    BY <2>4
  <2> QED BY <1>1, <1>2, <1>4, <2>5 DEF SessionEnd
<1>5. CASE Following(Started, t) # {}
  <2> DEFINE next == NextOf(Started, t)
             offs == {Facts.ends[k].at : k \in {j \in DOMAIN Facts.ends :
                       /\ Facts.ends[j].class = "handoff"
                       /\ Facts.ends[j].at > t.at /\ Facts.ends[j].at <= next.at}}
  <2>1. next \in Started /\ next.seq > t.seq
    <3>1. t \in msgs /\ Started \in SUBSET msgs
      BY StartedRead DEF BasicInv
    <3>2. next \in Following(Started, t)
      BY <1>5, <3>1, NextExists DEF BasicInv
    <3> QED BY <1>3, <3>2
  <2> HIDE DEF next
  <2>2. log[i].at <= next.at /\ log[i].class = "handoff" /\ log[i].at > t.at
    BY <1>1, <2>1, StartedRead DEF QuickAt, BasicInv
  <2>3. log[i].at \in offs
    BY <1>1, <2>2
  <2>4. \A at \in offs : at \in Nat /\ log[i].at <= at
    <3> SUFFICES ASSUME NEW j \in DOMAIN log, log[j].class = "handoff", log[j].at > t.at
                 PROVE  log[j].at \in Nat /\ log[i].at <= log[j].at
      BY <1>1
    <3> QED BY <1>1 DEF QuickAt
  <2>5. SessionEnd(Facts, t) = IF offs # {} THEN Least(offs) ELSE next.at
    BY <1>2, <1>5 DEF SessionEnd, next
  <2> HIDE DEF offs
  <2>6. Least(offs) \in offs /\ \A at \in offs : Least(offs) <= at
    BY <2>3, <2>4 DEF Least
  <2>7. Least(offs) = log[i].at
    BY <1>1, <2>3, <2>4, <2>6
  <2> QED BY <2>3, <2>5, <2>7
<1> QED BY <1>4, <1>5

LEMMA QuickIsRapid ==
  ASSUME BasicInv, StartedInv, Len(log) <= LogTail, NEW t \in Started, Quick(t),
         \A j \in DOMAIN log :
           log[j].class = "handoff" /\ log[j].at > Latest.at => j = Len(log)
  PROVE  Rapid(Facts, t)
<1>1. PICK i \in DOMAIN log : QuickAt(t, i)
  BY DEF Quick
<1>2. SessionEnd(Facts, t) = log[i].at
  BY <1>1, QuickEnd
<1>3. DOMAIN Facts.ends = DOMAIN log /\ \A j \in DOMAIN log : Facts.ends[j] = log[j]
  BY TailIsWhole
<1>4. \A j \in DOMAIN Facts.ends : Spent(Facts.ends[j]) =>
        Facts.ends[j].at <= t.at \/ Facts.ends[j].at > log[i].at
  BY <1>1, <1>3 DEF QuickAt
<1> QED BY <1>1, <1>2, <1>4 DEF QuickAt, Rapid

(* At the limit the count reads no fewer sessions than the row has, *)
(* and the node is written off, or has its reply.                          *)
LEMMA LimitCounts ==
  ASSUME BasicInv, ApartInv, StartedInv, RowInv, LimitInv, rapid >= Handoffs,
         Len(log) <= LogTail
  PROVE  RapidHandoffs(Facts) >= Handoffs
<1>1. SessionStarts(Facts) = Started
  BY FactsRead DEF SessionStarts, Started
<1>2. HandedOff
  <2>1. /\ log # <<>> /\ log[Len(log)].class = "handoff" /\ log[Len(log)].at >= Newest.at
        /\ Len(log) \in DOMAIN log /\ log[Len(log)].at \in Nat
    BY LogReads DEF LimitInv, LastClass, BasicInv
  <2>2. Latest \in msgs /\ Latest.at <= Newest.at /\ Latest.at \in Nat /\ Newest.at \in Nat
    BY LatestIs, NewestIs DEF LimitInv, BasicInv, MsgInv, Msg
  <2>3. log[Len(log)].at # Latest.at
    BY <2>1, <2>2 DEF ApartInv
  <2>4. log[Len(log)].at > Latest.at
    BY <2>1, <2>2, <2>3
  <2> QED BY <2>1, <2>4 DEF HandedOff
<1>3. Over = Started
  BY <1>2 DEF Over
<1> DEFINE counted == {s \in Started : \A t \in {s} \cup Following(Started, s) : Rapid(Facts, t)}
<1>4. Row \subseteq counted
  <2> SUFFICES ASSUME NEW s \in Row, NEW t \in {s} \cup Following(Started, s)
               PROVE  s \in Started /\ Rapid(Facts, t)
    OBVIOUS
  <2>1. s \in Started /\ \A n \in Started : n.seq >= s.seq => Quick(n)
    BY <1>3 DEF Row
  <2>2. t \in Started /\ t.seq >= s.seq
    <3>1. t = s \/ (t \in Started /\ t.seq > s.seq)
      BY <2>1, SessionsFollow DEF BasicInv
    <3>2. s.seq \in Nat /\ (t \in Started => t.seq \in Nat)
      BY <2>1, StartedRead DEF BasicInv
    <3> QED BY <2>1, <3>1, <3>2
  <2>3. Quick(t)
    BY <2>1, <2>2
  <2> QED BY <2>1, <2>2, <2>3, QuickIsRapid DEF LimitInv
<1>5. IsFiniteSet(counted) /\ Cardinality(counted) \in Nat
  BY StartedRead, FS_Subset, FS_CardinalityType DEF BasicInv
<1>6. RapidHandoffs(Facts) = Cardinality(counted)
  BY <1>1 DEF RapidHandoffs
<1> HIDE DEF counted
<1>7. Cardinality(Row) <= Cardinality(counted) /\ Cardinality(Row) \in Nat
  BY <1>4, <1>5, FS_Subset, RowFinite DEF BasicInv
<1>8. rapid <= Cardinality(Row) /\ rapid \in Nat /\ Handoffs \in Nat
  BY NumbersHold DEF RowInv, BasicInv, RestInv, Numbers
<1> QED BY <1>5, <1>6, <1>7, <1>8

LEMMA LimitStops ==
  ASSUME BasicInv, ApartInv, StartedInv, RowInv, LimitInv, rapid >= Handoffs,
         Len(log) <= LogTail
  PROVE  Done /\ State.move = "none"
<1>0. \A s, m, w : Verdict(s, m, w).move = m /\ Verdict(s, m, w).state = s
  BY DEF Verdict
<1>1. log # <<>> /\ LastEnd(Facts).class = "handoff" /\ Len(log) \in DOMAIN log
      /\ log[Len(log)].at >= Newest.at /\ LastEnd(Facts) = log[Len(log)]
  BY TailReads, LogReads DEF LimitInv, LastClass, BasicInv
<1>2. EndedSince(Facts, NewestMsg(Facts))
  BY <1>1, TailIsWhole, TimesRead DEF EndedSince
<1>3. EndedVerdict(Facts) = Stuck("handoffs")
  BY <1>1, LimitCounts DEF EndedVerdict, HandoffVerdict, Spent
<1>4. ~Facts.active
  BY FactsRead DEF LimitInv
<1>5. \/ State = Verdict("replied", "none", "reply")
      \/ \E why : State = Stuck(why)
  BY <1>2, <1>3, <1>4 DEF State, Compute
<1> QED BY <1>0, <1>5 DEF Done, Stuck

LEMMA LimitStep ==
  ASSUME ~SameSecond, BasicInv, SecondInv, ApartInv, StartedInv, RowInv,
         Len(log) <= LogTail => LimitInv, [Next]_vars
  PROVE  (Len(log) <= LogTail => LimitInv)'
<1>0. LogTail \in Nat /\ Handoffs \in Nat \ {0} /\ rapid \in Nat /\ Len(log) \in Nat
  BY NumbersHold, LogReads DEF Numbers, BasicInv, RestInv
<1>1. CASE TurnEnds
  <2> SUFFICES ASSUME Len(log') <= LogTail, rapid' >= Handoffs PROVE LimitInv'
    BY DEF LimitInv
  <2>1. /\ DOMAIN log' = DOMAIN log \cup {Len(log) + 1} /\ Len(log') = Len(log) + 1
        /\ \A j \in DOMAIN log : log'[j] = log[j]
        /\ log'[Len(log) + 1].at = now /\ now \in Nat /\ msgs' = msgs
        /\ \A m \in msgs : m.at < now /\ m.at \in Nat
        /\ turn = "running" /\ turn' = "none"
    BY <1>1, EndIsLast
  <2>2. PICK class \in EndClasses : log'[Len(log) + 1].class = class /\ rapid' = RapidAfter(class)
    BY <1>1, EndIsLast
  <2>3. Started' = Started /\ Latest' = Latest /\ Newest' = Newest
    BY <2>1 DEF Started, Latest, Newest
  <2>4. rapid < Handoffs
    BY <1>0, <2>1 DEF LimitInv
  <2>5. rapid' # rapid /\ rapid' # 0
    BY <1>0, <2>4
  <2>6. /\ rapid' = rapid + 1 /\ class = "handoff"
        /\ Started # {} /\ ~EndedAs({"handoff"})
    BY <2>2, <2>5 DEF RapidAfter
  <2>7. rapid' = Handoffs
    BY <1>0, <2>4, <2>6
  <2>8. LastClass("handoff")'
    <3>1. Newest.at <= now
      BY <2>1, NewestIs DEF BasicInv
    <3>2. log' # <<>>
      BY <2>1
    <3> QED BY <2>1, <2>2, <2>3, <2>6, <3>1, <3>2 DEF LastClass
  <2>9. ASSUME NEW i \in DOMAIN log', log'[i].class = "handoff", log'[i].at > Latest.at
        PROVE  i = Len(log')
    BY <2>1, <2>6, <2>9 DEF EndedAs
  <2> QED BY <2>1, <2>3, <2>6, <2>7, <2>8, <2>9 DEF LimitInv
<1>2. CASE ~TurnEnds
  <2>1. log' = log /\ rapid' = rapid
    BY <1>2 DEF Next, vars, Look, SendContinue, TurnBegins, TurnVanishes, Reply, RaiseBudget,
                Tick, history
  <2> SUFFICES ASSUME LimitInv, Len(log) <= LogTail, rapid >= Handoffs PROVE LimitInv'
    BY <2>1 DEF LimitInv
  <2>2. Done /\ State.move = "none" /\ turn = "none"
    BY LimitStops DEF LimitInv
  <2>3. UNCHANGED <<msgs, turn>>
    BY <1>2, <2>2 DEF Next, vars, Look, SendContinue, TurnBegins, TurnVanishes, Reply,
                      RaiseBudget, Tick
  <2>4. Started' = Started /\ Latest' = Latest /\ Newest' = Newest
    BY <2>3 DEF Started, Latest, Newest
  <2>5. LastClass("handoff")' = LastClass("handoff")
    BY <2>1, <2>4 DEF LastClass
  <2> QED BY <2>1, <2>3, <2>4, <2>5 DEF LimitInv
<1> QED BY <1>1, <1>2

LEMMA InitLimit == Init => LimitInv
<1> SUFFICES ASSUME Init PROVE LimitInv
  OBVIOUS
<1>1. rapid = 0 /\ Handoffs \in Nat \ {0}
  BY NumbersHold DEF Init, Numbers
<1> QED BY <1>1 DEF LimitInv

(* Fresh sessions that hand off at once are bounded in a row, as long as a  *)
(* look reads the whole turn log of the dispatch.                          *)
THEOREM HandoffsAreBounded ==
  ASSUME ~SameSecond
  PROVE  Spec => [](Len(log) <= LogTail => HandoffsBounded)
<1> DEFINE Limit == Len(log) <= LogTail => LimitInv
<1>1. Init => ApartInv /\ StartedInv /\ RowInv /\ Limit
  BY InitApart, InitStarted, InitRow, InitLimit
<1>2. BasicInv /\ SecondInv /\ ApartInv /\ StartedInv /\ RowInv /\ Limit /\ [Next]_vars
        => (ApartInv /\ StartedInv /\ RowInv /\ Limit)'
  BY ApartStep, StartedStep, RowStep, LimitStep
<1>3. BasicInv /\ Limit => (Len(log) <= LogTail => HandoffsBounded)
  <2>1. BasicInv => rapid \in Nat /\ Handoffs \in Nat
    BY NumbersHold DEF BasicInv, RestInv, Numbers
  <2> QED BY <2>1 DEF LimitInv, HandoffsBounded
<1> QED BY <1>1, <1>2, <1>3, SecondInvHolds, PTL DEF Spec
=============================================================================
