------------------------------- MODULE Channel -------------------------------
(***************************************************************************)
(* What the input and output channels of one node promise its dispatcher,  *)
(* whoever writes to them and in whatever order (PROTOCOL.md, section 3):  *)
(* dispatches are numbered 1, 2, ... and a new one opens only when every   *)
(* earlier one is closed; a message belongs to a dispatch that was opened, *)
(* and no message takes the name of another; a reply closes a dispatch     *)
(* for good.                                                               *)
(*                                                                         *)
(* It does not promise that a message reaches a dispatch while that        *)
(* dispatch is open: a reply may come between the look and the put.        *)
(***************************************************************************)
EXTENDS Naturals

CONSTANTS Writers,          \* whoever puts messages into the channel
          Kinds,            \* what a message's name says of it
          MaxDispatchSeq,   \* the last dispatch number a node can hold
          MaxSeq            \* the last number a message of a dispatch can get

VARIABLES opened,           \* the numbers of the dispatches opened so far
          closed,           \* those of them that have a reply
          mail              \* the messages: name and writer

chanVars == <<opened, closed, mail>>

Mail == [id: 1 .. MaxDispatchSeq, seq: 0 .. MaxSeq, kind: Kinds, from: Writers]

(* The two messages have the same file name. *)
SameName(m, n) == m.id = n.id /\ m.seq = n.seq /\ m.kind = n.kind

ChanInit == opened = {} /\ closed = {} /\ mail = {}

(* The dispatcher opens the next dispatch with message m. *)
OpenDispatch(m) ==
  /\ m.seq = 0
  /\ \A j \in 1 .. MaxDispatchSeq : j < m.id <=> j \in opened
  /\ opened \subseteq closed
  /\ \A n \in mail : ~SameName(m, n)
  /\ opened' = opened \cup {m.id}
  /\ mail' = mail \cup {m}
  /\ UNCHANGED closed

(* The dispatcher adds message m to a dispatch it opened earlier. *)
AddMessage(m) ==
  /\ m.id \in opened
  /\ m.seq > 0
  /\ \A n \in mail : ~SameName(m, n)
  /\ mail' = mail \cup {m}
  /\ UNCHANGED <<opened, closed>>

(* The worker's reply closes dispatch i. *)
CloseDispatch(i) ==
  /\ i \in opened \ closed
  /\ closed' = closed \cup {i}
  /\ UNCHANGED <<opened, mail>>

(* A step adds one message, or closes one dispatch. *)
ChanNext ==
  \/ \E m \in mail' \ mail : m \in Mail /\ (OpenDispatch(m) \/ AddMessage(m))
  \/ \E i \in 1 .. MaxDispatchSeq : CloseDispatch(i)

ChanSpec == ChanInit /\ [][ChanNext]_chanVars
==============================================================================
