------------------------------ MODULE Withhold ------------------------------
(***************************************************************************)
(* Withheld paths, and what of a history a repository carries.             *)
(*                                                                         *)
(* A path is a sequence of segments.  A history is a sequence of commits,  *)
(* each with its parents, which are older, and the path it adds; commit 0  *)
(* is the empty one a repository made by the tool begins with.             *)
(*                                                                         *)
(* Source: internal/withhold/withhold.go, internal/cli/withhold.go and     *)
(* cmd/cs-campaign-member/dispatcher.go.                                   *)
(***************************************************************************)
EXTENDS Integers, Sequences, FiniteSets

NoCommit == -1
Initial  == 0

(* path.Match of one segment: a name, or any. *)
SegmentMatches(glob, segment) == glob = "*" \/ glob = segment

(* A declaration that runs out has matched a directory, and everything      *)
(* beneath it; a path that runs out first is above the declaration.         *)
(* Mutant of Match: "**" stands for one segment or more. *)
MatchSomeSegment(decl, path) ==
  LET from[i \in 1 .. Len(decl) + 1] ==
        IF i > Len(decl) THEN 1 .. Len(path) + 1
        ELSE IF decl[i] = "**" THEN {j \in 1 .. Len(path) + 1 : \E k \in from[i + 1] : j < k}
        ELSE {j \in 1 .. Len(path) : SegmentMatches(decl[i], path[j]) /\ j + 1 \in from[i + 1]}
  IN 1 \in from[1]
Match(decl, path) ==
  LET from[i \in 1 .. Len(decl) + 1] ==  \* where what is left of decl matches
        IF i > Len(decl) THEN 1 .. Len(path) + 1
        ELSE IF decl[i] = "**" THEN {j \in 1 .. Len(path) + 1 : \E k \in from[i + 1] : j <= k}
        ELSE {j \in 1 .. Len(path) : SegmentMatches(decl[i], path[j]) /\ j + 1 \in from[i + 1]}
  IN 1 \in from[1]

Hit(decls, path) == \E decl \in decls : Match(decl, path)

(* What Match is meant to say: the segments of the declaration can be laid  *)
(* along the path, one on one segment, "**" on a run of them.               *)
CoversPrefix(decl, path) ==
  \E at \in [0 .. Len(decl) -> 0 .. Len(path)] :
    /\ at[0] = 0
    /\ \A i \in 1 .. Len(decl) :
         IF decl[i] = "**" THEN at[i] >= at[i - 1]
         ELSE at[i] = at[i - 1] + 1 /\ SegmentMatches(decl[i], path[at[i]])

-----------------------------------------------------------------------------
(* Commits *)

Ancestors(dag, c) ==
  LET back[d \in 0 .. Len(dag)] ==
        {d} \cup (IF d = 0 THEN {} ELSE UNION {back[p] : p \in dag[d].parents})
  IN IF c = NoCommit THEN {} ELSE back[c]

History(dag, cs) == UNION {Ancestors(dag, c) : c \in cs}

(* The commits of a set that add a path some declaration withholds. *)
Withheld(dag, decls, cs) == {c \in cs \ {Initial} : Hit(decls, dag[c].adds)}
==============================================================================
