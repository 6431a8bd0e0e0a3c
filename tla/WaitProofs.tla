----------------------------- MODULE WaitProofs -----------------------------
(***************************************************************************)
(* Proofs about the wait loop, for any fleet and every policy: what it     *)
(* concludes from looks that fall anywhere, across waits that end, are     *)
(* killed and are called again, and which judgments it returns with.       *)
(*                                                                         *)
(* The clocks stop at a largest value, so an invariant about an age says   *)
(* what it says or that the age is at its cap, which lies far enough       *)
(* beyond every bound of the policy.                                       *)
(***************************************************************************)
EXTENDS Wait, FiniteSetTheorems, TLAPS

-----------------------------------------------------------------------------
(* Types *)

LEMMA Ranges ==
  /\ StepCap \in Nat /\ LookCap \in Nat /\ AgeCap \in Nat
  /\ StepCap >= 2 /\ LookCap = StepCap + MaxLook
  /\ AgeCap > GoneAfter + MaxLook /\ AgeCap > ProviderWait + MaxLook
BY WaitAssumption DEF StepCap, LookCap, AgeCap, Max2

LEMMA ObservedType ==
  ASSUME TypeOK, NEW a \in Agents
  PROVE  Observed(a).disp \in 0 .. MaxDispatch
<1>1. seen[a] \in Answer
  BY DEF TypeOK
<1>2. 0 \in 0 .. MaxDispatch
  BY WaitAssumption
<1> QED BY <1>1, <1>2 DEF Observed, Answer, NoDispatch

LEMMA NoAnswerType == \A l \in {"none"} \cup Links : NoAnswer(l) \in Answer
<1>1. 0 \in 0 .. MaxDispatch
  BY WaitAssumption
<1> QED BY <1>1 DEF NoAnswer, Answer, NoDispatch

LEMMA InitTypeOK == Init => TypeOK
<1> SUFFICES ASSUME Init PROVE TypeOK
  OBVIOUS
<1> USE WaitAssumption, Ranges
<1>1. node \in [Agents -> Node]
  BY DEF Init, Node, Conds, Readback
<1>2. link \in [Agents -> Links]
  BY DEF Init, Links
<1>3. seen \in [Agents -> Answer]
  BY NoAnswerType DEF Init
<1>4. mem \in [lastLook: -1 .. LookCap, allBlind: 0 .. ProviderWait,
               unseen: [Agents -> 0 .. GoneAfter]]
  BY DEF Init, Never
<1>5. unseenFor \in [Agents -> 0 .. AgeCap] /\ erredLooks \in [Agents -> 0 .. GoneAfter]
  BY DEF Init
<1>6. /\ log \subseteq Entry /\ entries \subseteq log
      /\ cmd \in {"wait", "observe"}
      /\ pc \in {"idle", "look", "probing", "acting", "telling", "sleeping"}
      /\ moves \subseteq Agents /\ due \subseteq told
      /\ \A j \in told \cup everTold : j.node \in Agents /\ j.key \in 0 .. MaxDispatch
      /\ crowded \in BOOLEAN
  BY DEF Init
<1>7. /\ lookAge \in 0 .. MaxLook /\ left \in -1 .. Chunk /\ rest \in 0 .. PollSeconds
      /\ events \in 0 .. MaxEvents /\ darkFor \in 0 .. AgeCap
  BY DEF Init
<1> QED BY <1>1, <1>2, <1>3, <1>4, <1>5, <1>6, <1>7 DEF TypeOK

-----------------------------------------------------------------------------
(* Judgments are recorded by the look that owes them.  The last look began  *)
(* no later than the one under way, which began no earlier than anybody was *)
(* seen last.                                                               *)
LookInv ==
  /\ pc # "telling" => due = {}
  /\ mem.lastLook # Never => lookAge <= mem.lastLook
  /\ pc \in {"acting", "telling"} => mem.lastLook = lookAge
  /\ mem.lastLook = Never => mem.allBlind = 0 /\ \A a \in Agents : mem.unseen[a] = 0
  /\ \A a \in Agents : lookAge <= unseenFor[a]
  /\ lookAge <= darkFor

(* The numbers a look adds to what the observer remembers. *)
LEMMA MemoryTypes ==
  ASSUME TypeOK, LookInv
  PROVE  /\ LookStep \in Nat /\ AllBlind \in 0 .. ProviderWait
         /\ \A a \in Agents : Unseen(a) \in 0 .. GoneAfter
         /\ mem.lastLook # Never => LookStep <= mem.lastLook - lookAge
         /\ mem.lastLook = Never => LookStep = 0
         /\ LookStep <= StepCap
<1> USE WaitAssumption, Ranges
<1>1. /\ mem.lastLook \in -1 .. LookCap /\ mem.allBlind \in 0 .. ProviderWait
      /\ \A a \in Agents : mem.unseen[a] \in 0 .. GoneAfter
      /\ lookAge \in 0 .. MaxLook
  BY DEF TypeOK
<1>2. LookStep \in Nat /\ LookStep <= StepCap
  BY <1>1 DEF LookStep, Min2, Never, LookInv
<1>3. mem.lastLook # Never => LookStep <= mem.lastLook - lookAge
  BY <1>1 DEF LookStep, Min2, Never
<1>4. mem.lastLook = Never => LookStep = 0
  BY DEF LookStep
<1>5. AllBlind \in 0 .. ProviderWait
  BY <1>1, <1>2 DEF AllBlind, Min2
<1>6. ASSUME NEW a \in Agents PROVE Unseen(a) \in 0 .. GoneAfter
  <2>1. mem.unseen[a] \in 0 .. GoneAfter
    BY <1>1
  <2>2. Min2(mem.unseen[a] + Max2(LookStep, 1), GoneAfter) \in 0 .. GoneAfter
    BY <1>2, <2>1 DEF Min2, Max2
  <2>3. 0 \in 0 .. GoneAfter
    OBVIOUS
  <2> QED BY <2>1, <2>2, <2>3 DEF Unseen
<1> QED BY <1>2, <1>3, <1>4, <1>5, <1>6

LEMMA StepTypeOK == ASSUME TypeOK, LookInv, [Next]_vars PROVE TypeOK'
<1> USE WaitAssumption, Ranges DEF vars, world, look, clocks, history
<1>0. 0 \in 0 .. MaxLook /\ 0 \in 0 .. PollSeconds /\ 0 \in -1 .. Chunk
      /\ Chunk \in -1 .. Chunk /\ PollSeconds \in 0 .. PollSeconds
  OBVIOUS
<1>1. CASE StartWait
  BY <1>0, <1>1 DEF StartWait, LookInv, TypeOK
<1>2. CASE StartObserve
  BY <1>2 DEF StartObserve, Event, LookInv, TypeOK
<1>3. CASE LookStart
  BY <1>3 DEF LookStart, TypeOK
<1>4. ASSUME NEW a \in Agents, Probe(a) PROVE TypeOK'
  <2>1. link[a] \in Links /\ node[a] \in Node
    BY DEF TypeOK
  <2>2. [ans |-> "up", disp |-> node[a].disp, cond |-> node[a].cond] \in Answer
    BY <2>1 DEF Node, Answer, Links
  <2>3. seen' \in [Agents -> Answer]
    BY <1>4, <2>1, <2>2, NoAnswerType DEF Probe, TypeOK
  <2> QED BY <1>4, <2>3 DEF Probe, TypeOK
<1>5. CASE Remember
  <2>1. mem' \in [lastLook: -1 .. LookCap, allBlind: 0 .. ProviderWait,
                  unseen: [Agents -> 0 .. GoneAfter]]
    <3>1. lookAge \in -1 .. LookCap
      BY DEF TypeOK
    <3> QED BY <1>5, <3>1, MemoryTypes DEF Remember
  <2>2. moves' \subseteq Agents
    BY <1>5 DEF Remember, MovesDue
  <2>3. /\ unseenFor' \in [Agents -> 0 .. AgeCap] /\ darkFor' \in 0 .. AgeCap
        /\ erredLooks' \in [Agents -> 0 .. GoneAfter] /\ crowded' \in BOOLEAN
    <3>1. lookAge \in 0 .. AgeCap
      BY DEF TypeOK
    <3>2. \A a \in Agents : erredLooks[a] \in 0 .. GoneAfter
      BY DEF TypeOK
    <3>3. \A a \in Agents : Min2(erredLooks[a] + 1, GoneAfter) \in 0 .. GoneAfter
      BY <3>2 DEF Min2
    <3>4. 0 \in 0 .. GoneAfter
      OBVIOUS
    <3> QED BY <1>5, <3>1, <3>2, <3>3, <3>4 DEF Remember, TypeOK
  <2> QED BY <1>5, <2>1, <2>2, <2>3 DEF Remember, TypeOK
<1>6. ASSUME NEW a \in Agents, Move(a) PROVE TypeOK'
  <2>1. node' \in [Agents -> Node]
    BY <1>6 DEF Move, TypeOK, Node, Conds
  <2> QED BY <1>6, <2>1 DEF Move, TypeOK
<1>7. CASE Tell
  <2>1. \A j \in told' : j.node \in Agents /\ j.key \in 0 .. MaxDispatch
    BY <1>7, ObservedType DEF Tell, Judgments, Judgment
  <2> QED BY <1>7, <2>1 DEF Tell, TypeOK
<1>8. ASSUME NEW j \in due, Report(j) PROVE TypeOK'
  <2>1. j.node \in Agents /\ j.key \in 0 .. MaxDispatch
    BY DEF TypeOK
  <2>2. [kind |-> "reported", node |-> j.node, key |-> j.key] \in Entry
    BY <2>1 DEF Entry
  <2> QED BY <1>8, <2>2 DEF Report, TypeOK
<1> USE DEF EndCommand, EndLook
<1>9. [a \in Agents |-> NoAnswer("none")] \in [Agents -> Answer]
  BY NoAnswerType
<1>10. CASE Return
  BY <1>0, <1>9, <1>10 DEF Return, TypeOK
<1>11. CASE Elapse
  BY <1>0, <1>9, <1>11 DEF Elapse, TypeOK
<1>12. CASE Sleep
  BY <1>0, <1>9, <1>12 DEF Sleep, TypeOK
<1>13. CASE Kill
  BY <1>0, <1>9, <1>13 DEF Kill, Event, TypeOK
<1>14. ASSUME NEW a \in Agents, Accept(a) PROVE TypeOK'
  <2>1. node[a].disp \in 0 .. MaxDispatch
    <3>1. node[a] \in Node
      BY DEF TypeOK
    <3> QED BY <3>1 DEF Node
  <2>2. [kind |-> "accepted", node |-> a, key |-> node[a].disp] \in Entry
    BY <2>1 DEF Entry
  <2> QED BY <1>14, <2>2 DEF Accept, TypeOK
<1>15. ASSUME NEW a \in Agents, Send(a) PROVE TypeOK'
  <2>1. node[a] \in Node
    BY DEF TypeOK
  <2>2. node' \in [Agents -> Node]
    BY <1>15, <2>1 DEF Send, TypeOK, Node, Conds
  <2> QED BY <1>15, <2>2 DEF Send, Event, TypeOK
<1>16. ASSUME NEW a \in Agents, TurnEnds(a) PROVE TypeOK'
  <2>1. node' \in [Agents -> Node]
    BY <1>16 DEF TurnEnds, TypeOK, Node
  <2> QED BY <1>16, <2>1 DEF TurnEnds, Event, TypeOK
<1>17. ASSUME NEW a \in Agents, HoldEnds(a) PROVE TypeOK'
  <2>1. node' \in [Agents -> Node]
    BY <1>17 DEF HoldEnds, TypeOK, Node, Conds
  <2> QED BY <1>17, <2>1 DEF HoldEnds, TypeOK
<1>18. ASSUME NEW a \in Agents, LinkChanges(a) PROVE TypeOK'
  BY <1>18 DEF LinkChanges, Event, TypeOK
<1>19. CASE Tick
  <2>1. lookAge' \in 0 .. MaxLook
    BY <1>19 DEF Tick, TypeOK
  <2>2. \A n \in -1 .. LookCap : n # Never => Older(n, LookCap) \in -1 .. LookCap
    BY DEF Older, Min2, Never
  <2>3. mem' \in [lastLook: -1 .. LookCap, allBlind: 0 .. ProviderWait,
                  unseen: [Agents -> 0 .. GoneAfter]]
    BY <1>19, <2>2 DEF Tick, TypeOK
  <2>4. left' \in -1 .. Chunk /\ rest' \in 0 .. PollSeconds
    BY <1>19 DEF Tick, TypeOK, Max2
  <2>5. \A n \in 0 .. AgeCap : Older(n, AgeCap) \in 0 .. AgeCap
    BY DEF Older, Min2
  <2>6. unseenFor' \in [Agents -> 0 .. AgeCap] /\ darkFor' \in 0 .. AgeCap
    BY <1>19, <2>5 DEF Tick, TypeOK
  <2> QED BY <1>19, <2>1, <2>3, <2>4, <2>6 DEF Tick, TypeOK
<1>20. CASE UNCHANGED vars
  BY <1>20 DEF TypeOK
<1> QED
  BY <1>1, <1>2, <1>3, <1>4, <1>5, <1>6, <1>7, <1>8, <1>10, <1>11, <1>12, <1>13,
     <1>14, <1>15, <1>16, <1>17, <1>18, <1>19, <1>20 DEF Next, Wait, Others

LEMMA InitLookInv == Init => LookInv
BY WaitAssumption DEF Init, LookInv, Never

LEMMA StepLookInv == ASSUME TypeOK, LookInv, [Next]_vars PROVE LookInv'
<1> USE WaitAssumption, Ranges DEF vars, world, look, clocks, history, LookInv
<1>0. /\ lookAge \in 0 .. MaxLook /\ mem.lastLook \in -1 .. LookCap
      /\ \A a \in Agents : unseenFor[a] \in 0 .. AgeCap
      /\ darkFor \in 0 .. AgeCap
  BY DEF TypeOK
<1>1. CASE StartWait
  BY <1>1 DEF StartWait
<1>2. CASE StartObserve
  BY <1>2 DEF StartObserve, Event
<1>3. CASE LookStart
  BY <1>3 DEF LookStart
<1>4. ASSUME NEW a \in Agents, Probe(a) PROVE LookInv'
  BY <1>4 DEF Probe
<1>5. CASE Remember
  <2>1. mem'.lastLook = lookAge /\ mem'.lastLook # Never
    BY <1>0, <1>5 DEF Remember, Never
  <2>2. /\ \A a \in Agents : unseenFor'[a] \in {lookAge, unseenFor[a]}
        /\ darkFor' \in {lookAge, darkFor}
    BY <1>5 DEF Remember
  <2> QED BY <1>0, <1>5, <2>1, <2>2 DEF Remember
<1>6. ASSUME NEW a \in Agents, Move(a) PROVE LookInv'
  BY <1>6 DEF Move
<1>7. CASE Tell
  BY <1>7 DEF Tell
<1>8. ASSUME NEW j \in due, Report(j) PROVE LookInv'
  BY <1>8 DEF Report
<1> USE DEF EndCommand, EndLook, Never
<1>10. CASE Return
  BY <1>0, <1>10 DEF Return
<1>11. CASE Elapse
  BY <1>0, <1>11 DEF Elapse
<1>12. CASE Sleep
  BY <1>0, <1>12 DEF Sleep
<1>13. CASE Kill
  BY <1>0, <1>13 DEF Kill, Event
<1>14. ASSUME NEW a \in Agents,
              Accept(a) \/ Send(a) \/ TurnEnds(a) \/ HoldEnds(a) \/ LinkChanges(a)
       PROVE  LookInv'
  BY <1>14 DEF Accept, Send, TurnEnds, HoldEnds, LinkChanges, Event
<1>19. CASE Tick
  <2>1. mem.lastLook # Never =>
          mem'.lastLook # Never /\ mem'.lastLook = Older(mem.lastLook, LookCap)
    BY <1>0, <1>19 DEF Tick, TypeOK, Older, Min2
  <2>2. mem.lastLook = Never => mem' = mem
    BY <1>19 DEF Tick
  <2>3. /\ \A a \in Agents : unseenFor'[a] = Older(unseenFor[a], AgeCap)
        /\ darkFor' = Older(darkFor, AgeCap)
    BY <1>19 DEF Tick
  <2>4. /\ lookAge' \in 0 .. MaxLook
        /\ lookAge' = IF pc \in {"acting", "telling"} THEN lookAge + 1 ELSE lookAge'
        /\ lookAge' <= lookAge + 1
    BY <1>0, <1>19 DEF Tick, Looking
  <2>5. mem'.lastLook # Never => lookAge' <= mem'.lastLook
    BY <1>0, <2>1, <2>2, <2>4 DEF Older, Min2
  <2>6. pc \in {"acting", "telling"} => mem'.lastLook = lookAge'
    BY <1>0, <2>1, <2>4 DEF Older, Min2
  <2>7. (\A a \in Agents : lookAge' <= unseenFor'[a]) /\ lookAge' <= darkFor'
    BY <1>0, <2>3, <2>4 DEF Older, Min2
  <2> QED BY <1>19, <2>1, <2>2, <2>5, <2>6, <2>7 DEF Tick
<1>20. CASE UNCHANGED vars
  BY <1>20
<1> QED
  BY <1>1, <1>2, <1>3, <1>4, <1>5, <1>6, <1>7, <1>8, <1>10, <1>11, <1>12, <1>13,
     <1>14, <1>19, <1>20 DEF Next, Wait, Others

-----------------------------------------------------------------------------
(* What the observer has counted against an agent does not exceed the time  *)
(* it went unseen, nor the errors; what it has counted as its own darkness  *)
(* does not exceed the time nobody answered.                                *)
UnseenFairly(a) ==
  \/ crowded \/ mem.lastLook = Never \/ unseenFor[a] = AgeCap
  \/ mem.unseen[a] + mem.lastLook <= unseenFor[a] + 1
ErredFairly(a) ==
  erredLooks[a] = GoneAfter \/ mem.unseen[a] <= erredLooks[a] * StepCap
DarkFairly ==
  mem.lastLook = Never \/ darkFor = AgeCap \/ mem.allBlind + mem.lastLook <= darkFor

CountedFairly ==
  /\ \A a \in Agents : UnseenFairly(a) /\ ErredFairly(a)
  /\ DarkFairly

LEMMA InitCountedFairly == Init => CountedFairly
BY WaitAssumption, Ranges DEF Init, CountedFairly, UnseenFairly, ErredFairly, DarkFairly, Never

LEMMA OneMore == ASSUME NEW n \in Nat, NEW s \in Nat PROVE (n + 1) * s = n * s + s
OBVIOUS

(* A look counts fairly: it is the only step at which the counts move. *)
LEMMA RememberCountsFairly ==
  ASSUME TypeOK, LookInv, CountedFairly, Remember
  PROVE  CountedFairly'
<1> USE WaitAssumption, Ranges
<1>0. /\ lookAge \in 0 .. MaxLook /\ mem.lastLook \in -1 .. LookCap
      /\ darkFor \in 0 .. AgeCap /\ mem.allBlind \in 0 .. ProviderWait
  BY DEF TypeOK
<1>1. /\ mem'.lastLook = lookAge /\ mem'.allBlind = AllBlind
      /\ \A a \in Agents : mem'.unseen[a] = Unseen(a)
  BY DEF Remember
<1>2. lookAge <= darkFor
  BY DEF LookInv
<1>3. mem.lastLook = Never \/ LookStep <= mem.lastLook - lookAge
  BY MemoryTypes
<1>4. LookStep \in Nat /\ LookStep <= StepCap
  BY MemoryTypes
<1>5. ASSUME NEW a \in Agents PROVE UnseenFairly(a)' /\ ErredFairly(a)'
  <2>0. /\ unseenFor[a] \in 0 .. AgeCap /\ mem.unseen[a] \in 0 .. GoneAfter
        /\ erredLooks[a] \in 0 .. GoneAfter /\ lookAge <= unseenFor[a]
    BY DEF TypeOK, LookInv
  <2>1. CASE seen[a].ans = "up"
    <3>1. /\ mem'.unseen[a] = 0 /\ unseenFor'[a] = lookAge /\ erredLooks'[a] = 0
      BY <1>1, <2>1 DEF Unseen, Remember, Answered
    <3> QED BY <1>0, <1>1, <3>1 DEF UnseenFairly, ErredFairly
  <2>2. CASE seen[a].ans # "up"
    <3>1. unseenFor'[a] = unseenFor[a]
      BY <2>2 DEF Remember, Answered
    <3>2. crowded' = (crowded \/ mem.lastLook = lookAge)
      BY DEF Remember
    <3>3. CASE mem'.unseen[a] = mem.unseen[a]
      <4>1. UnseenFairly(a)'
        <5>1. mem.lastLook # Never => lookAge <= mem.lastLook
          BY DEF LookInv
        <5>2. mem.lastLook = Never => mem.unseen[a] = 0
          BY DEF LookInv
        <5>3. UnseenFairly(a)
          BY DEF CountedFairly
        <5>4. CASE mem.lastLook = Never
          BY <1>0, <1>1, <2>0, <3>1, <3>3, <5>2, <5>4 DEF UnseenFairly
        <5>5. CASE mem.lastLook # Never
          <6>1. crowded => crowded'
            BY <3>2
          <6>2. \/ crowded \/ unseenFor[a] = AgeCap
                \/ mem.unseen[a] + mem.lastLook <= unseenFor[a] + 1
            BY <5>3, <5>5 DEF UnseenFairly
          <6>3. CASE crowded
            BY <6>1, <6>3 DEF UnseenFairly
          <6>4. CASE unseenFor[a] = AgeCap
            BY <3>1, <6>4 DEF UnseenFairly
          <6>5. CASE mem.unseen[a] + mem.lastLook <= unseenFor[a] + 1
            BY <1>0, <1>1, <2>0, <3>1, <3>3, <5>1, <5>5, <6>5 DEF UnseenFairly
          <6> QED BY <6>2, <6>3, <6>4, <6>5
        <5> QED BY <5>4, <5>5
      <4>2. erredLooks'[a] \in {erredLooks[a], Min2(erredLooks[a] + 1, GoneAfter)}
        BY <2>2 DEF Remember
      <4>3. erredLooks'[a] = GoneAfter
            \/ erredLooks'[a] \in {erredLooks[a], erredLooks[a] + 1}
        BY <2>0, <4>2 DEF Min2
      <4>4. (erredLooks[a] + 1) * StepCap = erredLooks[a] * StepCap + StepCap
        BY <2>0, OneMore
      <4>5. erredLooks[a] * StepCap \in Nat
        BY <2>0
      <4>6. erredLooks[a] = GoneAfter \/ mem.unseen[a] <= erredLooks[a] * StepCap
        BY DEF CountedFairly, ErredFairly
      <4>7. erredLooks[a] = GoneAfter => erredLooks'[a] = GoneAfter
        BY <2>0, <4>2 DEF Min2
      <4> HIDE DEF StepCap
      <4>8. erredLooks'[a] = GoneAfter \/ mem.unseen[a] <= erredLooks'[a] * StepCap
        BY <2>0, <4>3, <4>4, <4>5, <4>6, <4>7
      <4> QED BY <3>3, <4>1, <4>8 DEF ErredFairly, StepCap
    <3>4. CASE mem'.unseen[a] # mem.unseen[a]
      <4>1. /\ seen[a].ans = "errors"
            /\ mem'.unseen[a] = Min2(mem.unseen[a] + Max2(LookStep, 1), GoneAfter)
        BY <1>1, <2>2, <3>4 DEF Unseen
      <4>2. mem'.unseen[a] <= mem.unseen[a] + Max2(LookStep, 1)
        BY <1>4, <2>0, <4>1 DEF Min2, Max2
      <4>3. mem'.unseen[a] \in 0 .. GoneAfter
        BY <1>1, MemoryTypes
      <4>4. UnseenFairly(a)'
        <5>1. CASE mem.lastLook = Never
          <6>1. mem.unseen[a] = 0 /\ LookStep = 0
            BY <5>1, MemoryTypes DEF LookInv
          <6> QED BY <1>0, <1>1, <2>0, <3>1, <4>2, <4>3, <6>1 DEF UnseenFairly, Max2
        <5>2. CASE mem.lastLook = lookAge
          BY <3>2, <5>2 DEF UnseenFairly
        <5>3. CASE mem.lastLook # Never /\ mem.lastLook # lookAge
          <6>1. mem.lastLook - lookAge >= 1
            BY <1>0, <5>3 DEF LookInv
          <6>2. mem'.unseen[a] <= mem.unseen[a] + (mem.lastLook - lookAge)
            BY <1>0, <1>3, <1>4, <2>0, <4>2, <4>3, <5>3, <6>1 DEF Max2
          <6>3. \/ crowded \/ unseenFor[a] = AgeCap
                \/ mem.unseen[a] + mem.lastLook <= unseenFor[a] + 1
            BY <5>3 DEF CountedFairly, UnseenFairly
          <6>4. CASE crowded
            BY <3>2, <6>4 DEF UnseenFairly
          <6>5. CASE unseenFor[a] = AgeCap
            BY <3>1, <6>5 DEF UnseenFairly
          <6>6. CASE mem.unseen[a] + mem.lastLook <= unseenFor[a] + 1
            BY <1>0, <1>1, <2>0, <3>1, <4>3, <6>2, <6>6 DEF UnseenFairly
          <6> QED BY <6>3, <6>4, <6>5, <6>6
        <5> QED BY <5>1, <5>2, <5>3
      <4>5. ErredFairly(a)'
        <5>1. erredLooks'[a] = Min2(erredLooks[a] + 1, GoneAfter)
          BY <4>1 DEF Remember
        <5>2. erredLooks'[a] = GoneAfter \/ erredLooks'[a] = erredLooks[a] + 1
          BY <5>1 DEF Min2
        <5>3. (erredLooks[a] + 1) * StepCap = erredLooks[a] * StepCap + StepCap
          BY <2>0, OneMore
        <5>4. erredLooks[a] * StepCap \in Nat
          BY <2>0
        <5>5. mem'.unseen[a] <= mem.unseen[a] + StepCap
          BY <1>4, <2>0, <4>2, <4>3 DEF Max2
        <5>6. erredLooks[a] = GoneAfter \/ mem.unseen[a] <= erredLooks[a] * StepCap
          BY DEF CountedFairly, ErredFairly
        <5>7. erredLooks[a] = GoneAfter => erredLooks'[a] = GoneAfter
          BY <5>1 DEF Min2
        <5>8. erredLooks'[a] = GoneAfter \/ mem'.unseen[a] <= erredLooks'[a] * StepCap
          BY <2>0, <4>3, <5>2, <5>3, <5>4, <5>5, <5>6, <5>7
        <5> QED BY <5>8 DEF ErredFairly, StepCap
      <4> QED BY <4>4, <4>5
    <3> QED BY <3>3, <3>4
  <2> QED BY <2>1, <2>2
<1>6. DarkFairly'
  <2>1. AllBlind \in 0 .. ProviderWait
    BY MemoryTypes
  <2>2. CASE Answered # {}
    <3>1. darkFor' = lookAge /\ AllBlind = 0
      BY <2>2 DEF Remember, AllBlind, SelfBlind
    <3> QED BY <1>0, <1>1, <3>1 DEF DarkFairly
  <2>3. CASE Answered = {} /\ ~SelfBlind
    <3>1. darkFor' = darkFor /\ AllBlind = 0
      BY <2>3 DEF Remember, AllBlind
    <3> QED BY <1>0, <1>1, <1>2, <3>1 DEF DarkFairly
  <2>4. CASE Answered = {} /\ SelfBlind
    <3>1. darkFor' = darkFor /\ AllBlind = Min2(mem.allBlind + LookStep, ProviderWait)
      BY <2>4 DEF Remember, AllBlind
    <3>2. AllBlind <= mem.allBlind + LookStep
      BY <1>0, <1>4, <3>1 DEF Min2
    <3>3. mem.lastLook = Never => mem.allBlind = 0 /\ LookStep = 0
      BY MemoryTypes DEF LookInv
    <3> QED BY <1>0, <1>1, <1>2, <1>3, <1>4, <2>1, <3>1, <3>2, <3>3
            DEF CountedFairly, DarkFairly
  <2> QED BY <2>2, <2>3, <2>4
<1> QED BY <1>5, <1>6 DEF CountedFairly

(* Time counts on both sides of each comparison. *)
LEMMA TickCountsFairly ==
  ASSUME TypeOK, CountedFairly, Tick
  PROVE  CountedFairly'
<1> USE WaitAssumption, Ranges
<1>0. /\ mem.lastLook \in -1 .. LookCap /\ darkFor \in 0 .. AgeCap
      /\ mem.allBlind \in 0 .. ProviderWait
  BY DEF TypeOK
<1>1. /\ mem'.allBlind = mem.allBlind /\ mem'.unseen = mem.unseen
      /\ mem.lastLook = Never => mem'.lastLook = Never
      /\ mem.lastLook # Never => mem'.lastLook = Older(mem.lastLook, LookCap)
      /\ darkFor' = Older(darkFor, AgeCap)
      /\ crowded' = crowded /\ erredLooks' = erredLooks
  BY DEF Tick, TypeOK
<1>2. mem.lastLook # Never => mem'.lastLook \in Nat /\ mem'.lastLook <= mem.lastLook + 1
  BY <1>0, <1>1 DEF Older, Min2, Never
<1>3. ASSUME NEW a \in Agents PROVE UnseenFairly(a)' /\ ErredFairly(a)'
  <2>1. /\ unseenFor[a] \in 0 .. AgeCap /\ mem.unseen[a] \in 0 .. GoneAfter
        /\ unseenFor'[a] = Older(unseenFor[a], AgeCap)
    BY DEF TypeOK, Tick
  <2>2. UnseenFairly(a) /\ ErredFairly(a)
    BY DEF CountedFairly
  <2>3. UnseenFairly(a)'
    BY <1>0, <1>1, <1>2, <2>1, <2>2 DEF UnseenFairly, Older, Min2
  <2>4. StepCap' = StepCap
    BY DEF StepCap
  <2> QED BY <1>1, <2>2, <2>3, <2>4 DEF ErredFairly
<1>4. DarkFairly'
  BY <1>0, <1>1, <1>2 DEF CountedFairly, DarkFairly, Older, Min2
<1> QED BY <1>3, <1>4 DEF CountedFairly

LEMMA StepCountedFairly ==
  ASSUME TypeOK, LookInv, CountedFairly, [Next]_vars
  PROVE  CountedFairly'
<1>1. CASE Remember
  BY <1>1, RememberCountsFairly
<1>2. CASE Tick
  BY <1>2, TickCountsFairly
<1>3. ASSUME ~Remember, ~Tick
      PROVE  UNCHANGED <<mem, unseenFor, erredLooks, darkFor, crowded>>
  BY <1>3 DEF Next, Wait, Others, vars, world, look, clocks, history, StartWait,
     StartObserve, LookStart, Probe, Move, Tell, Report, Return, Elapse, Sleep, Kill,
     Accept, Send, TurnEnds, HoldEnds, LinkChanges, Event
<1>4. CASE UNCHANGED <<mem, unseenFor, erredLooks, darkFor, crowded>>
  BY <1>4 DEF CountedFairly, UnseenFairly, ErredFairly, DarkFairly
<1> QED BY <1>1, <1>2, <1>3, <1>4

-----------------------------------------------------------------------------
(* A node-stuck judgment that a wait returned with is in the log; one that   *)
(* is being told was not returned before, and is in the log or on its way.   *)
Recorded(j) == [kind |-> "reported", node |-> j.node, key |-> j.key] \in log

ToldOnce ==
  /\ \A j \in everTold : j.state = "stuck" /\ Recorded(j)
  /\ pc = "telling" =>
       /\ told \cap everTold = {}
       /\ \A j \in told : j.state = "stuck" => j \in due \/ Recorded(j)

LEMMA StepToldOnce == ASSUME ToldOnce, [Next]_vars PROVE ToldOnce'
<1> USE DEF vars, world, look, clocks, history, ToldOnce, Recorded
<1>1. CASE Tell
  <2>1. \A j \in Judgments : j.state = "stuck" => ~Recorded(j)
    <3> SUFFICES ASSUME NEW j \in Judgments, j.state = "stuck", Recorded(j) PROVE FALSE
      OBVIOUS
    <3>1. PICK a \in Agents : /\ j = Judgment(a)
                              /\ \/ Observed(a).state = "replied"
                                 \/ Observed(a).disp \notin ReportedFor(log, a)
      BY DEF Judgments
    <3>2. j.node = a /\ j.state = Observed(a).state /\ j.key = Observed(a).disp
      BY <3>1 DEF Judgment
    <3>3. j.key \in ReportedFor(log, a)
      BY <3>2 DEF ReportedFor
    <3> QED BY <3>1, <3>2, <3>3
  <2>2. told' \cap everTold' = {}
    BY <1>1, <2>1 DEF Tell
  <2>3. \A j \in told' : j.state = "stuck" => j \in due'
    BY <1>1 DEF Tell
  <2> QED BY <1>1, <2>2, <2>3 DEF Tell
<1>2. ASSUME NEW j \in due, Report(j) PROVE ToldOnce'
  BY <1>2 DEF Report
<1>3. CASE Return
  <2>1. \A j \in told : j.state = "stuck" => Recorded(j)
    BY <1>3 DEF Return
  <2> QED BY <1>3, <2>1 DEF Return, EndCommand
<1>4. CASE StartWait \/ StartObserve \/ LookStart \/ Remember \/ Elapse \/ Sleep \/ Kill
  BY <1>4 DEF StartWait, StartObserve, LookStart, Remember, Elapse, Sleep, Kill, Event,
     EndCommand
<1>5. ASSUME NEW a \in Agents,
             \/ Probe(a) \/ Move(a) \/ Accept(a) \/ Send(a) \/ TurnEnds(a)
             \/ HoldEnds(a) \/ LinkChanges(a)
      PROVE  ToldOnce'
  BY <1>5 DEF Probe, Move, Accept, Send, TurnEnds, HoldEnds, LinkChanges, Event
<1>6. CASE Tick
  BY <1>6 DEF Tick
<1>7. CASE UNCHANGED vars
  BY <1>7
<1> QED BY <1>1, <1>2, <1>3, <1>4, <1>5, <1>6, <1>7 DEF Next, Wait, Others

-----------------------------------------------------------------------------
(* The invariant. *)
WaitInv == TypeOK /\ LookInv /\ CountedFairly /\ ToldOnce

(* In every reachable state the types hold, a look knows its own time, the  *)
(* counts are fair and what was told is recorded.                           *)
THEOREM WaitInvariant == Spec => []WaitInv
<1>1. Init => WaitInv
  <2>1. Init => ToldOnce
    BY DEF Init, ToldOnce
  <2> QED BY <2>1, InitTypeOK, InitLookInv, InitCountedFairly DEF WaitInv
<1>2. WaitInv /\ [Next]_vars => WaitInv'
  BY StepTypeOK, StepLookInv, StepCountedFairly, StepToldOnce DEF WaitInv
<1> QED BY <1>1, <1>2, PTL DEF Spec

(* Every variable of the wait loop keeps its type. *)
THEOREM WaitTypeCorrect == Spec => []TypeOK
<1>1. WaitInv => TypeOK
  BY DEF WaitInv
<1> QED BY <1>1, WaitInvariant, PTL

(* A machine is concluded gone only after it went unseen for GoneAfter, and  *)
(* on as many errors, for every policy and any pattern of looks.             *)
THEOREM NeverGoneEarly == Spec => []NotGoneEarly
<1>1. WaitInv => NotGoneEarly
  <2> SUFFICES ASSUME WaitInv, NEW a \in Agents,
                      pc = "acting", mem.unseen[a] >= GoneAfter
               PROVE  /\ crowded \/ unseenFor[a] - lookAge + 1 >= GoneAfter
                      /\ erredLooks[a] * StepCap >= GoneAfter
    BY DEF NotGoneEarly
  <2> USE WaitAssumption, Ranges
  <2>1. /\ mem.unseen[a] \in 0 .. GoneAfter /\ unseenFor[a] \in 0 .. AgeCap
        /\ erredLooks[a] \in 0 .. GoneAfter /\ lookAge \in 0 .. MaxLook
    BY DEF WaitInv, TypeOK
  <2>2. mem.lastLook = lookAge
    BY DEF WaitInv, LookInv
  <2>3. UnseenFairly(a) /\ ErredFairly(a)
    BY DEF WaitInv, CountedFairly
  <2>4. crowded \/ unseenFor[a] - lookAge + 1 >= GoneAfter
    BY <2>1, <2>2, <2>3 DEF UnseenFairly, Never
  <2>5. erredLooks[a] * StepCap >= GoneAfter
    <3>1. CASE erredLooks[a] = GoneAfter
      <4>1. StepCap = 1 + (StepCap - 1) /\ StepCap - 1 \in Nat
        OBVIOUS
      <4>2. GoneAfter * (1 + (StepCap - 1)) = GoneAfter + GoneAfter * (StepCap - 1)
        OBVIOUS
      <4>3. GoneAfter * (StepCap - 1) \in Nat
        BY <4>1
      <4> QED BY <3>1, <4>1, <4>2, <4>3
    <3>2. CASE mem.unseen[a] <= erredLooks[a] * StepCap
      BY <2>1, <3>2
    <3> QED BY <2>3, <3>1, <3>2 DEF ErredFairly
  <2> QED BY <2>4, <2>5
<1> QED BY <1>1, WaitInvariant, PTL

(* An observer that sees nobody counts against nobody until it was dark for  *)
(* ProviderWait in one stretch, in a fleet of any size but one.              *)
THEOREM BlindnessSpares == Spec => BlindFleetSparesNodes
<1>1. WaitInv /\ [Next]_vars =>
        [\A a \in Agents :
           mem'.unseen[a] > mem.unseen[a] /\ Answered = {} =>
             Cardinality(Agents) = 1 \/ darkFor - lookAge >= ProviderWait]_vars
  <2> SUFFICES ASSUME WaitInv, [Next]_vars, NEW a \in Agents,
                      mem'.unseen[a] > mem.unseen[a], Answered = {},
                      Cardinality(Agents) # 1
               PROVE  darkFor - lookAge >= ProviderWait
    OBVIOUS
  <2> USE WaitAssumption, Ranges
  <2>0. /\ TypeOK /\ LookInv /\ CountedFairly
        /\ mem.unseen[a] \in 0 .. GoneAfter
    BY DEF WaitInv, TypeOK
  <2>1. Remember
    <3> SUFFICES ASSUME ~Remember PROVE mem'.unseen = mem.unseen
      BY <2>0
    <3> QED BY <2>0 DEF Next, Wait, Others, vars, world, look, clocks, history, StartWait,
         StartObserve, LookStart, Probe, Move, Tell, Report, Return, Elapse, Sleep, Kill,
         Accept, Send, TurnEnds, HoldEnds, LinkChanges, Event, Tick, TypeOK
  <2>2. mem'.unseen[a] = Unseen(a)
    BY <2>1 DEF Remember
  <2>3. seen[a].ans # "up"
    BY DEF Answered
  <2>4. Counts
    BY <2>0, <2>2, <2>3 DEF Unseen
  <2>5. Cardinality(Agents) > 1
    BY FS_CardinalityType, FS_EmptySet
  <2>6. AllBlind >= ProviderWait
    BY <2>4, <2>5 DEF Counts, SelfBlind
  <2>7. mem.allBlind + LookStep >= ProviderWait
    BY <2>0, <2>6, MemoryTypes DEF AllBlind, SelfBlind, Min2, TypeOK
  <2>8. CASE mem.lastLook = Never
    BY <2>0, <2>7, <2>8, MemoryTypes DEF LookInv, TypeOK
  <2>9. CASE mem.lastLook # Never
    <3>1. mem.allBlind + (mem.lastLook - lookAge) >= ProviderWait
      BY <2>0, <2>7, <2>9, MemoryTypes DEF TypeOK
    <3>2. darkFor = AgeCap \/ mem.allBlind + mem.lastLook <= darkFor
      BY <2>0, <2>9 DEF CountedFairly, DarkFairly
    <3> QED BY <2>0, <3>1, <3>2 DEF TypeOK
  <2> QED BY <2>8, <2>9
<1> QED BY <1>1, WaitInvariant, PTL DEF Spec, BlindFleetSparesNodes

(* A wait that ends its look without a judgment has left no reply unjudged.  *)
THEOREM UnjudgedIsTold == Spec => FreeIsJudged
<1>1. WaitInv /\ [Next]_vars =>
        [pc = "acting" /\ pc' # "acting" /\ told' = {} /\ events' = events /\ cmd = "wait" =>
           \A a \in Answered :
             seen[a].cond = "replied" /\ seen[a].disp # Readback =>
               [kind |-> "accepted", node |-> a, key |-> seen[a].disp] \in log]_vars
  <2> SUFFICES ASSUME WaitInv, [Next]_vars, pc = "acting", pc' # "acting", told' = {},
                      events' = events, cmd = "wait", NEW a \in Answered,
                      seen[a].cond = "replied", seen[a].disp # Readback
               PROVE  [kind |-> "accepted", node |-> a, key |-> seen[a].disp] \in log
    OBVIOUS
  <2>1. Judgments = {}
    <3>1. events \in Nat
      BY WaitAssumption DEF WaitInv, TypeOK
    <3>2. ~Kill
      BY <3>1 DEF Kill, Event
    <3> QED BY <3>2 DEF Next, Wait, Others, vars, world, look, clocks, history, StartWait,
         StartObserve, LookStart, Probe, Remember, Move, Tell, Report, Return, Elapse, Sleep,
         Nothing, Accept, Send, TurnEnds, HoldEnds, LinkChanges, Event, Tick
  <2>2. a \in Agents /\ seen[a].ans = "up"
    BY DEF Answered
  <2>3. Observed(a).state # "replied"
    BY <2>1, <2>2 DEF Judgments
  <2>4. seen[a].disp \in AcceptedFor(entries, a)
    BY <2>2, <2>3 DEF Observed, JudgedFor
  <2>5. PICK e \in entries : e.kind = "accepted" /\ e.node = a /\ e.key = seen[a].disp
    BY <2>4 DEF AcceptedFor
  <2>6. e \in Entry /\ e \in log
    BY <2>5 DEF WaitInv, TypeOK
  <2>7. e = [kind |-> "accepted", node |-> a, key |-> seen[a].disp]
    BY <2>5, <2>6 DEF Entry
  <2> QED BY <2>6, <2>7
<1> QED BY <1>1, WaitInvariant, PTL DEF Spec, FreeIsJudged

(* A node-stuck judgment ends a wait once, across waits and their kills. *)
THEOREM StuckOnce == Spec => StuckToldOnce
<1>1. WaitInv /\ [Next]_vars => [everTold' # everTold => everTold \cap told = {}]_vars
  <2> SUFFICES ASSUME WaitInv, [Next]_vars, everTold' # everTold
               PROVE  everTold \cap told = {}
    OBVIOUS
  <2>1. pc = "telling"
    BY DEF Next, Wait, Others, vars, world, look, clocks, history, StartWait,
       StartObserve, LookStart, Probe, Remember, Move, Tell, Report, Return, Elapse, Sleep,
       Kill, Accept, Send, TurnEnds, HoldEnds, LinkChanges, Event, Tick
  <2> QED BY <2>1 DEF WaitInv, ToldOnce
<1> QED BY <1>1, WaitInvariant, PTL DEF Spec, StuckToldOnce
=============================================================================
