------------------------------ MODULE Machines ------------------------------
(***************************************************************************)
(* One member's machine as the host sees it while it creates a campaign,   *)
(* and what the host does to it: cs-sandbox's boot, the seeding of its     *)
(* briefing, the readback dispatch and the mission, and the turns that run *)
(* on it (internal/cli: sandbox, hostdispatch, readback).  All of it is    *)
(* operators on one machine's value; Campaign holds the machines.          *)
(***************************************************************************)
EXTENDS Naturals, Sequences

CONSTANTS
    Roster,     \* the members in the order of campaign.Members
    Lined,      \* the agents with a context line (HandoffTokens # 0)
    Briefs,     \* the versions of a briefing an operator may seed
    MaxBoots,   \* machines ever made
    MaxCreates, \* campaigns ever made under the name
    MaxAsks     \* readback dispatches one machine is ever asked

Members == {Roster[i] : i \in DOMAIN Roster}
Orchestrator == Roster[1]
Agents == Members \ {Orchestrator}

NoBrief == 0

ASSUME RosterIsSeq == Roster \in Seq(Members) /\ Roster # <<>>
ASSUME LinedAreAgents == Lined \subseteq Agents
ASSUME BriefsAreNamed == NoBrief \notin Briefs /\ Briefs # {}
ASSUME BoundsArePositive ==
    MaxBoots \in Nat \ {0} /\ MaxCreates \in Nat \ {0} /\ MaxAsks \in Nat \ {0}

(* What a reply to a readback dispatch holds: an answer that passes; one   *)
(* that parses to nothing, and one that lacks a required sentence, which   *)
(* are faults of form and asked about once more; or one that is wrong,     *)
(* which is not.  A sound answer given on another model than the seat      *)
(* declares counts as wrong.                                               *)
Answers == {"good", "unparsed", "incomplete", "wrong"}
OfForm == {"unparsed", "incomplete"}
NoAnswer == "none"

BriefOrNone == Briefs \cup {NoBrief}

(* A restatement recorded on the campaign: the dispatch it answered, the   *)
(* digest of the inputs the host recorded with it, whether it passed, and  *)
(* (history) the machine it came from and the briefing that one had read.  *)
NoReadback == [dispatch |-> 0, inputs |-> NoBrief, passed |-> FALSE,
               from |-> 0, read |-> NoBrief]
Readbacks == [dispatch : 0..MaxAsks, inputs : BriefOrNone, passed : BOOLEAN,
              from : 0..MaxBoots, read : BriefOrNone]

(* No machine stands under the member's reference.  turn is the briefing   *)
(* its running turn has read, read the one its answer was given on.        *)
NoMachine == [boot |-> 0, born |-> 0, brief |-> NoBrief, asked |-> 0,
              answer |-> NoAnswer, read |-> NoBrief, turn |-> NoBrief, mission |-> "none",
              crossed |-> FALSE, named |-> [a \in Agents |-> 0], log |-> FALSE]

MachineValues ==
    [boot : 0..MaxBoots, born : 0..MaxCreates, brief : BriefOrNone,
     asked : 0..MaxAsks, answer : Answers \cup {NoAnswer},
     read : BriefOrNone, turn : BriefOrNone,
     mission : {"none", "put", "running"}, crossed : BOOLEAN,
     named : [Agents -> 0..MaxAsks], log : BOOLEAN]

Up(mc) == mc.boot # 0

(* cs-sandbox create: a machine that holds nothing yet.                    *)
Booted(id, campaign) == [NoMachine EXCEPT !.boot = id, !.born = campaign]

(* configureChannels: the briefing and the guest's program are rewritten;  *)
(* messages and replies that are there stay.                               *)
Configured(mc, brief) == [mc EXCEPT !.brief = brief]

(* SendTarget on what the probe found: the open dispatch is continued, a   *)
(* closed one is followed by the next.                                     *)
ReadbackOpen(mc) == mc.asked > 0 /\ mc.answer = NoAnswer
MissionOpen(mc) == mc.mission # "none"

SendTarget(mc) == IF ReadbackOpen(mc) THEN mc.asked ELSE mc.asked + 1

(* hostSendPrepared: the readback's prompt is put under the dispatch that  *)
(* is open or the next one.  A mission that is open takes it.              *)
Asked(mc) ==
    IF MissionOpen(mc)
       THEN [mc EXCEPT !.crossed = TRUE]
       ELSE [mc EXCEPT !.asked = SendTarget(mc),
                       !.answer = NoAnswer, !.read = NoBrief]

(* keptReadback: the recorded answer passed, it closed the dispatch that   *)
(* is the machine's latest, and the seeded files are the ones it answered. *)
KeptReadbackAnyInputs(mc, readback, seeded) ==
    /\ readback.passed
    /\ ~MissionOpen(mc)
    /\ mc.asked = readback.dispatch
    /\ ~ReadbackOpen(mc)

KeptReadback(mc, readback, seeded) ==
    /\ readback.passed
    /\ ~MissionOpen(mc)
    /\ mc.asked = readback.dispatch
    /\ ~ReadbackOpen(mc)
    /\ readback.inputs = seeded

(* What openMission refuses: a mission that was opened already, or any     *)
(* dispatch that is open.                                                  *)
MissionRefused(mc) == MissionOpen(mc) \/ ReadbackOpen(mc)

(* writeManifest on the orchestrator: each agent with the readback that    *)
(* passed, which its dispatcher then takes for judged (JudgedReadback).    *)
ManifestedOnce(mc, readbacks) ==
    [mc EXCEPT !.named = [a \in Agents |-> IF mc.named[a] = 0 /\ readbacks[a].passed
                                              THEN readbacks[a].dispatch ELSE mc.named[a]]]

Manifested(mc, readbacks) ==
    [mc EXCEPT !.named = [a \in Agents |-> IF readbacks[a].passed
                                              THEN readbacks[a].dispatch ELSE 0]]
=============================================================================
