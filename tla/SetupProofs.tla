---------------------------- MODULE SetupProofs ----------------------------
(***************************************************************************)
(* Proofs about the matcher of declarations, the repository create makes,  *)
(* the credentials, the bases and the clones of the machines, and the      *)
(* fence of withheld paths, for every profile, override, shell, host and   *)
(* history, and every edit of the operator.                                *)
(***************************************************************************)
EXTENDS Setup, FiniteSetTheorems, WellFoundedInduction, TLAPS

-----------------------------------------------------------------------------
(* Induction on the natural numbers, from what the library has on finite     *)
(* sets: of every set of numbers there is a least.                           *)
LEMMA LeastNat ==
  ASSUME NEW T \in SUBSET Nat, T # {}
  PROVE  \E n \in T : \A m \in T : n <= m
<1> DEFINE U == {0 .. n : n \in T}
<1>1. U \subseteq FiniteSubsetsOf(Nat)
  <2> SUFFICES ASSUME NEW n \in T PROVE 0 .. n \in FiniteSubsetsOf(Nat)
    OBVIOUS
  <2> QED BY FS_Interval DEF FiniteSubsetsOf
<1>2. U # {}
  OBVIOUS
<1>3. PICK x \in U : \A y \in U : ~ (<<y, x>> \in StrictSubsetOrdering(Nat))
  <2> HIDE DEF U
  <2> QED BY <1>1, <1>2, FS_StrictSubsetOrderingWellFounded, WFMin, ZenonT(30)
<1>4. PICK n \in T : x = 0 .. n
  OBVIOUS
<1>5. ASSUME NEW m \in T PROVE n <= m
  <2>1. SUFFICES ASSUME m < n PROVE FALSE
    OBVIOUS
  <2>2. 0 .. m \in SUBSET (0 .. n) /\ 0 .. m # 0 .. n /\ 0 .. m \in SUBSET Nat /\ 0 .. n \in SUBSET Nat
    BY <2>1
  <2>3. <<0 .. m, x>> \in StrictSubsetOrdering(Nat)
    BY <2>2, <1>4 DEF StrictSubsetOrdering
  <2> QED BY <1>3, <2>3
<1> QED BY <1>5

LEMMA NatByInduction ==
  ASSUME NEW S, 0 \in S, \A n \in Nat : n \in S => n + 1 \in S
  PROVE  Nat \subseteq S
<1> SUFFICES ASSUME Nat \ S # {} PROVE FALSE
  OBVIOUS
<1>1. PICK n \in Nat \ S : \A m \in Nat \ S : n <= m
  BY LeastNat
<1>2. n # 0 /\ n - 1 \in Nat
  OBVIOUS
<1>3. n - 1 \in S
  BY <1>1, <1>2
<1> QED BY <1>2, <1>3

-----------------------------------------------------------------------------
(* A history: what every commit's parents are, and the path it adds. *)
Older(hist) == Len(hist) \in Nat /\ \A c \in 1 .. Len(hist) : hist[c].parents \subseteq 0 .. c - 1

(* The recursion of Ancestors is well founded: there is such a function. *)
LEMMA AncestorsExist ==
  ASSUME NEW hist, Older(hist)
  PROVE  \E back : back = [d \in 0 .. Len(hist) |->
           {d} \cup (IF d = 0 THEN {} ELSE UNION {back[p] : p \in hist[d].parents})]
<1> DEFINE Ex(n) == \E back : back = [d \in 0 .. n |->
             {d} \cup (IF d = 0 THEN {} ELSE UNION {back[p] : p \in hist[d].parents})]
           S == {n \in Nat : n <= Len(hist) => Ex(n)}
<1>1. 0 \in S
  <2>1. [d \in 0 .. 0 |-> {0}] = [d \in 0 .. 0 |->
           {d} \cup (IF d = 0 THEN {} ELSE UNION {[e \in 0 .. 0 |-> {0}][p] : p \in hist[d].parents})]
    OBVIOUS
  <2>2. Ex(0)
    BY <2>1
  <2> QED BY <2>2
<1>2. ASSUME NEW n \in Nat, n \in S PROVE n + 1 \in S
  <2> SUFFICES ASSUME n + 1 <= Len(hist) PROVE Ex(n + 1)
    OBVIOUS
  <2>1. n <= Len(hist)
    BY DEF Older
  <2>2. PICK f : f = [d \in 0 .. n |->
             {d} \cup (IF d = 0 THEN {} ELSE UNION {f[p] : p \in hist[d].parents})]
    BY <1>2, <2>1
  <2> DEFINE g == [d \in 0 .. n + 1 |-> IF d <= n THEN f[d]
                     ELSE {d} \cup UNION {f[p] : p \in hist[d].parents}]
  <2>3. ASSUME NEW d \in 1 .. n + 1
        PROVE  {g[p] : p \in hist[d].parents} = {f[p] : p \in hist[d].parents}
    <3>1. hist[d].parents \subseteq 0 .. d - 1
      BY DEF Older
    <3>2. \A p \in hist[d].parents : g[p] = f[p]
      BY <3>1
    <3> HIDE DEF g
    <3> QED BY <3>2
  <2>4. ASSUME NEW d \in 0 .. n + 1
        PROVE  g[d] = {d} \cup (IF d = 0 THEN {} ELSE UNION {g[p] : p \in hist[d].parents})
    <3>1. ASSUME d <= n
          PROVE  f[d] = {d} \cup (IF d = 0 THEN {} ELSE UNION {f[p] : p \in hist[d].parents})
      <4>1. d \in 0 .. n
        BY <3>1
      <4> HIDE DEF g
      <4> QED BY <2>2, <4>1
    <3>2. g[d] = IF d <= n THEN f[d] ELSE {d} \cup UNION {f[p] : p \in hist[d].parents}
      OBVIOUS
    <3>3. d # 0 => d \in 1 .. n + 1
      OBVIOUS
    <3>4. d <= n \/ d # 0
      OBVIOUS
    <3> HIDE DEF g
    <3> QED BY <2>3, <3>1, <3>2, <3>3, <3>4
  <2>5. g = [d \in 0 .. n + 1 |->
             {d} \cup (IF d = 0 THEN {} ELSE UNION {g[p] : p \in hist[d].parents})]
    <3>1. g = [d \in 0 .. n + 1 |-> g[d]]
      OBVIOUS
    <3> HIDE DEF g
    <3> QED BY <2>4, <3>1
  <2> HIDE DEF g
  <2> QED BY <2>5
<1> HIDE DEF S
<1>3. Nat \subseteq S
  BY <1>1, <1>2, NatByInduction
<1>4. Len(hist) \in S
  BY <1>3 DEF Older
<1> QED BY <1>4 DEF S, Older

(* A commit's ancestors are itself and those of its parents. *)
Beneath(hist, c) == UNION {Ancestors(hist, p) : p \in hist[c].parents}
LEMMA AncestorsOf ==
  ASSUME NEW hist, Older(hist)
  PROVE  /\ Ancestors(hist, NoCommit) = {} /\ Ancestors(hist, 0) = {0}
         /\ \A c \in 1 .. Len(hist) : Ancestors(hist, c) = {c} \cup Beneath(hist, c)
<1> DEFINE B(back) == [d \in 0 .. Len(hist) |->
             {d} \cup (IF d = 0 THEN {} ELSE UNION {back[p] : p \in hist[d].parents})]
           f == CHOOSE back : back = B(back)
<1>1. \E back : back = B(back)
  BY AncestorsExist
<1>2. \A c : Ancestors(hist, c) = IF c = NoCommit THEN {} ELSE f[c]
  BY DEF Ancestors
<1>3. f = B(f)
  <2> HIDE DEF B
  <2> QED BY <1>1
<1> HIDE DEF f
<1>4. \A c \in 0 .. Len(hist) :
        f[c] = {c} \cup (IF c = 0 THEN {} ELSE UNION {f[p] : p \in hist[c].parents})
  BY <1>3
<1>5. \A c \in 1 .. Len(hist) : \A p \in hist[c].parents : Ancestors(hist, p) = f[p]
  BY <1>2 DEF Older, NoCommit
<1>6. ASSUME NEW c \in 1 .. Len(hist)
      PROVE  Ancestors(hist, c) = {c} \cup Beneath(hist, c)
  <2>1. {Ancestors(hist, p) : p \in hist[c].parents} = {f[p] : p \in hist[c].parents}
    BY <1>5
  <2>2. Ancestors(hist, c) = f[c] /\ c # 0 /\ c \in 0 .. Len(hist)
    BY <1>2 DEF NoCommit
  <2>3. f[c] = {c} \cup UNION {f[p] : p \in hist[c].parents}
    BY <1>4, <2>2
  <2> HIDE DEF B
  <2> QED BY <2>1, <2>2, <2>3 DEF Beneath
<1>7. Ancestors(hist, 0) = {0}
  <2>1. 0 \in 0 .. Len(hist)
    BY DEF Older
  <2> HIDE DEF B
  <2> QED BY <1>2, <1>4, <2>1 DEF NoCommit
<1> HIDE DEF B
<1> QED BY <1>2, <1>6, <1>7

(* They are no younger, and theirs are among them. *)
LEMMA AncestorsOlder ==
  ASSUME NEW hist, Older(hist), NEW c \in NoCommit .. Len(hist)
  PROVE  /\ Ancestors(hist, c) \subseteq 0 .. c
         /\ c # NoCommit => c \in Ancestors(hist, c)
         /\ \A a \in Ancestors(hist, c) : Ancestors(hist, a) \subseteq Ancestors(hist, c)
<1> DEFINE Fine(d) == /\ Ancestors(hist, d) \subseteq 0 .. d
                      /\ d \in Ancestors(hist, d)
                      /\ \A a \in Ancestors(hist, d) :
                           Ancestors(hist, a) \subseteq Ancestors(hist, d)
           S == {n \in Nat : \A d \in 0 .. n : d <= Len(hist) => Fine(d)}
<1>1. Fine(0)
  BY AncestorsOf
<1>2. 0 \in S
  BY <1>1
<1>3. ASSUME NEW n \in Nat, n \in S PROVE n + 1 \in S
  <2> DEFINE d == n + 1
  <2> SUFFICES ASSUME d <= Len(hist) PROVE Fine(d)
    BY <1>3
  <2> HIDE DEF d
  <2>0. d \in Nat /\ d - 1 = n /\ d >= 1
    BY DEF d
  <2>1. Ancestors(hist, d) = {d} \cup UNION {Ancestors(hist, p) : p \in hist[d].parents}
    <3>1. d \in 1 .. Len(hist)
      BY <2>0 DEF Older
    <3>2. Ancestors(hist, d) = {d} \cup Beneath(hist, d)
      BY <3>1, AncestorsOf
    <3> QED BY <3>2 DEF Beneath
  <2>2. hist[d].parents \subseteq 0 .. n
    BY <2>0 DEF Older
  <2>3. \A p \in hist[d].parents : p <= Len(hist) /\ Fine(p)
    BY <1>3, <2>0, <2>2 DEF Older
  <2>4. \A p \in hist[d].parents : Ancestors(hist, p) \subseteq 0 .. d
    BY <2>0, <2>2, <2>3
  <2>5. ASSUME NEW a \in Ancestors(hist, d) PROVE Ancestors(hist, a) \subseteq Ancestors(hist, d)
    <3>1. CASE a = d
      BY <3>1
    <3>2. CASE a # d
      <4>1. PICK p \in hist[d].parents : a \in Ancestors(hist, p)
        BY <2>1, <3>2
      <4>2. Ancestors(hist, a) \subseteq Ancestors(hist, p)
        BY <2>3, <4>1
      <4> QED BY <2>1, <4>2
    <3> QED BY <3>1, <3>2
  <2>6. Ancestors(hist, d) \subseteq 0 .. d /\ d \in Ancestors(hist, d)
    BY <2>0, <2>1, <2>4
  <2> QED BY <2>5, <2>6
<1>4. Nat \subseteq S
  <2> HIDE DEF S
  <2> QED BY <1>2, <1>3, NatByInduction
<1>5. \A d \in 0 .. Len(hist) : Fine(d)
  <2> SUFFICES ASSUME NEW d \in 0 .. Len(hist) PROVE Fine(d)
    OBVIOUS
  <2>1. d \in Nat /\ d \in 0 .. d /\ d <= Len(hist)
    BY DEF Older
  <2> HIDE DEF Fine
  <2> QED BY <1>4, <2>1
<1>6. CASE c = NoCommit
  BY <1>6, AncestorsOf
<1>7. CASE c # NoCommit
  BY <1>5, <1>7 DEF NoCommit
<1> QED BY <1>6, <1>7

(* A history that grows at its end keeps what it said. *)
LEMMA AncestorsStay ==
  ASSUME NEW hist, Older(hist), NEW more, Older(more), Len(hist) <= Len(more),
         \A c \in 1 .. Len(hist) : more[c] = hist[c],
         NEW c \in NoCommit .. Len(hist)
  PROVE  Ancestors(more, c) = Ancestors(hist, c)
<1> DEFINE Same(d) == Ancestors(more, d) = Ancestors(hist, d)
           S == {n \in Nat : \A d \in 0 .. n : d <= Len(hist) => Same(d)}
<1>0. Same(0)
  BY AncestorsOf
<1>1. 0 \in S
  <2> HIDE DEF Same
  <2> QED BY <1>0
<1>2. ASSUME NEW n \in Nat, n \in S PROVE n + 1 \in S
  <2> DEFINE d == n + 1
  <2> SUFFICES ASSUME d <= Len(hist) PROVE Same(d)
    BY <1>2
  <2> HIDE DEF d
  <2>0. d \in Nat /\ d - 1 = n /\ d >= 1
    BY DEF d
  <2>1. d \in 1 .. Len(hist) /\ d \in 1 .. Len(more)
    BY <2>0 DEF Older
  <2>2. /\ Ancestors(hist, d) = {d} \cup UNION {Ancestors(hist, p) : p \in hist[d].parents}
        /\ Ancestors(more, d) = {d} \cup UNION {Ancestors(more, p) : p \in more[d].parents}
    <3>1. Ancestors(hist, d) = {d} \cup Beneath(hist, d) /\ Ancestors(more, d) = {d} \cup Beneath(more, d)
      BY <2>1, AncestorsOf
    <3> QED BY <3>1 DEF Beneath
  <2>3. hist[d].parents \subseteq 0 .. n /\ more[d].parents = hist[d].parents
    BY <2>0, <2>1 DEF Older
  <2>4. \A p \in hist[d].parents : Same(p)
    BY <1>2, <2>0, <2>3 DEF Older
  <2>5. {Ancestors(more, p) : p \in more[d].parents} = {Ancestors(hist, p) : p \in hist[d].parents}
    BY <2>3, <2>4
  <2> QED BY <2>2, <2>5
<1>3. Nat \subseteq S
  <2> HIDE DEF S
  <2> QED BY <1>1, <1>2, NatByInduction
<1>4. \A d \in 0 .. Len(hist) : Same(d)
  <2> SUFFICES ASSUME NEW d \in 0 .. Len(hist) PROVE Same(d)
    OBVIOUS
  <2>1. d \in Nat /\ d \in 0 .. d /\ d <= Len(hist)
    BY DEF Older
  <2> HIDE DEF Same
  <2> QED BY <1>3, <2>1
<1>5. c = NoCommit \/ c \in 0 .. Len(hist)
  BY DEF NoCommit, Older
<1> QED BY <1>4, <1>5, AncestorsOf

-----------------------------------------------------------------------------
(* The matcher.  Where what is left of a declaration matches, from where its *)
(* next segment does.                                                        *)
Place(decl, path, i, next) ==
  IF i > Len(decl) THEN 1 .. Len(path) + 1
  ELSE IF decl[i] = "**" THEN {j \in 1 .. Len(path) + 1 : \E k \in next : j <= k}
  ELSE {j \in 1 .. Len(path) : SegmentMatches(decl[i], path[j]) /\ j + 1 \in next}

Places(decl, path, from) ==
  [i \in 1 .. Len(decl) + 1 |-> Place(decl, path, i, from[i + 1])]

(* The recursion of Match is well founded: there is such a function. *)
LEMMA MatchExists ==
  ASSUME NEW decl, Len(decl) \in Nat, NEW path
  PROVE  \E from : from = Places(decl, path, from)
<1> DEFINE n == Len(decl)
           F(i, from) == Place(decl, path, i, from[i + 1])
           Ex(m) == \E from : from = [i \in n + 1 - m .. n + 1 |-> F(i, from)]
           S == {m \in Nat : m <= n => Ex(m)}
<1>0. \A from, g : F(n + 1, from) = F(n + 1, g)
  BY DEF Place
<1>a. \A i, f, g : f[i + 1] = g[i + 1] => F(i, f) = F(i, g)
  OBVIOUS
<1> HIDE DEF F
<1>1. 0 \in S
  <2> DEFINE f == [i \in n + 1 .. n + 1 |-> F(i, <<>>)]
  <2>1. n + 1 - 0 .. n + 1 = n + 1 .. n + 1 /\ \A i \in n + 1 .. n + 1 : i = n + 1
    OBVIOUS
  <2>2. f = [i \in n + 1 .. n + 1 |-> F(i, f)]
    BY <1>0, <2>1
  <2> HIDE DEF f
  <2>3. Ex(0)
    BY <2>1, <2>2
  <2> QED BY <2>3
<1>2. ASSUME NEW m \in Nat, m \in S PROVE m + 1 \in S
  <2> SUFFICES ASSUME m + 1 <= n PROVE Ex(m + 1)
    OBVIOUS
  <2> DEFINE at == n - m
  <2>0. /\ n + 1 - m = at + 1 /\ n + 1 - (m + 1) = at
        /\ at \in at .. n + 1 /\ at + 1 \in at + 1 .. n + 1
        /\ \A i \in at + 1 .. n + 1 : i # at /\ i \in at .. n + 1
        /\ \A i \in at .. n + 1 : i = at \/ i \in at + 1 .. n + 1
        /\ \A i \in at .. n : i # n + 1 /\ i + 1 # at /\ i + 1 \in at + 1 .. n + 1
        /\ \A i \in at .. n + 1 : i = n + 1 \/ i \in at .. n
    OBVIOUS
  <2>1. PICK f : f = [i \in at + 1 .. n + 1 |-> F(i, f)]
    BY <1>2, <2>0
  <2> HIDE DEF at, n
  <2> DEFINE g == [i \in at .. n + 1 |-> IF i = at THEN F(at, f) ELSE f[i]]
  <2>2. \A i \in at + 1 .. n + 1 : g[i] = f[i] /\ f[i] = F(i, f)
    <3>1. \A i \in at + 1 .. n + 1 : f[i] = F(i, f)
      BY <2>1
    <3> QED BY <2>0, <3>1
  <2>3. ASSUME NEW i \in at .. n + 1 PROVE g[i] = F(i, g)
    <3>1. g[i] = F(i, f)
      BY <2>0, <2>2
    <3> HIDE DEF g
    <3>2. F(i, f) = F(i, g)
      BY <1>0, <1>a, <2>0, <2>2
    <3> QED BY <3>1, <3>2
  <2>4. g = [i \in at .. n + 1 |-> F(i, g)]
    <3>1. g = [i \in at .. n + 1 |-> g[i]]
      OBVIOUS
    <3> HIDE DEF g
    <3> QED BY <2>3, <3>1
  <2> HIDE DEF g
  <2> QED BY <2>0, <2>4
<1>3. Nat \subseteq S
  <2> HIDE DEF S
  <2> QED BY <1>1, <1>2, NatByInduction
<1>4. n + 1 - n = 1
  OBVIOUS
<1>5. Ex(n)
  BY <1>3
<1> QED BY <1>4, <1>5 DEF F, Places

(* Match is what its recursion says. *)
LEMMA MatchPlaces ==
  ASSUME NEW decl, Len(decl) \in Nat, NEW path
  PROVE  \E from :
           /\ \A i \in 1 .. Len(decl) + 1 : from[i] = Place(decl, path, i, from[i + 1])
           /\ Match(decl, path) <=> 1 \in from[1]
<1> DEFINE from == CHOOSE f : f = Places(decl, path, f)
<1>1. Match(decl, path) <=> 1 \in from[1]
  BY DEF Match, Place, Places
<1>2. from = Places(decl, path, from)
  BY MatchExists
<1> HIDE DEF from
<1>3. \A i \in 1 .. Len(decl) + 1 : from[i] = Place(decl, path, i, from[i + 1])
  BY <1>2 DEF Places
<1> QED BY <1>1, <1>3

(* What is left of a declaration from i on can be laid along the path from j *)
(* on exactly when it matches there.                                         *)
Laid(decl, path, at, i) ==
  \A h \in i .. Len(decl) :
    IF decl[h] = "**" THEN at[h] >= at[h - 1]
    ELSE at[h] = at[h - 1] + 1 /\ SegmentMatches(decl[h], path[at[h]])
Lays(decl, path, i, j) ==
  \E at \in [i - 1 .. Len(decl) -> 0 .. Len(path)] : at[i - 1] = j - 1 /\ Laid(decl, path, at, i)

LEMMA LaysOn ==
  ASSUME NEW decl, Len(decl) \in Nat, NEW path, Len(path) \in Nat,
         NEW i \in 1 .. Len(decl), NEW j \in 1 .. Len(path) + 1
  PROVE  Lays(decl, path, i, j) <=>
           j \in Place(decl, path, i, {k \in 1 .. Len(path) + 1 : Lays(decl, path, i + 1, k)})
<1> DEFINE n == Len(decl)
           next == {k \in 1 .. Len(path) + 1 : Lays(decl, path, i + 1, k)}
<1>1. ASSUME Lays(decl, path, i, j) PROVE j \in Place(decl, path, i, next)
  <2>1. PICK at \in [i - 1 .. n -> 0 .. Len(path)] :
          at[i - 1] = j - 1 /\ Laid(decl, path, at, i)
    BY <1>1 DEF Lays
  <2> DEFINE rest == [h \in i .. n |-> at[h]]
             k == at[i] + 1
  <2>2. rest \in [i + 1 - 1 .. n -> 0 .. Len(path)] /\ rest[i + 1 - 1] = k - 1
    BY <2>1
  <2>3. Laid(decl, path, rest, i + 1)
    <3>1. \A h \in i + 1 .. n : rest[h] = at[h] /\ rest[h - 1] = at[h - 1] /\ h \in i .. n
      OBVIOUS
    <3> HIDE DEF rest
    <3> QED BY <2>1, <3>1 DEF Laid
  <2>4. k \in 1 .. Len(path) + 1
    BY <2>1
  <2>5. k \in next
    <3> HIDE DEF rest, k
    <3> QED BY <2>2, <2>3, <2>4 DEF Lays
  <2>6. IF decl[i] = "**" THEN at[i] >= at[i - 1]
        ELSE at[i] = at[i - 1] + 1 /\ SegmentMatches(decl[i], path[at[i]])
    BY <2>1 DEF Laid
  <2>7. at[i] \in 0 .. Len(path)
    BY <2>1
  <2> HIDE DEF next
  <2>8. CASE decl[i] = "**"
    <3>1. j <= k
      BY <2>1, <2>6, <2>7, <2>8
    <3> HIDE DEF k
    <3> QED BY <2>5, <2>8, <3>1 DEF Place
  <2>9. CASE decl[i] # "**"
    <3>1. at[i] = j /\ k = j + 1 /\ j \in 1 .. Len(path)
      BY <2>1, <2>6, <2>7, <2>9
    <3> HIDE DEF k
    <3> QED BY <2>5, <2>6, <2>9, <3>1 DEF Place
  <2> QED BY <2>8, <2>9
<1>2. ASSUME j \in Place(decl, path, i, next) PROVE Lays(decl, path, i, j)
  <2>1. PICK k \in next :
          IF decl[i] = "**" THEN j <= k
          ELSE k = j + 1 /\ j \in 1 .. Len(path) /\ SegmentMatches(decl[i], path[j])
    <3> HIDE DEF next
    <3> QED BY <1>2 DEF Place
  <2>2. k \in 1 .. Len(path) + 1 /\ Lays(decl, path, i + 1, k)
    OBVIOUS
  <2> HIDE DEF next
  <2>3. PICK rest \in [i .. n -> 0 .. Len(path)] :
          rest[i] = k - 1 /\ Laid(decl, path, rest, i + 1)
    <3>1. i + 1 - 1 = i
      OBVIOUS
    <3> QED BY <2>2, <3>1 DEF Lays
  <2> DEFINE at == [h \in i - 1 .. n |-> IF h = i - 1 THEN j - 1 ELSE rest[h]]
  <2>4. at \in [i - 1 .. n -> 0 .. Len(path)] /\ at[i - 1] = j - 1
    BY <2>3
  <2>5. \A h \in i .. n : at[h] = rest[h]
    OBVIOUS
  <2>6. IF decl[i] = "**" THEN at[i] >= at[i - 1]
        ELSE at[i] = at[i - 1] + 1 /\ SegmentMatches(decl[i], path[at[i]])
    BY <2>1, <2>2, <2>3
  <2>7. ASSUME NEW h \in i + 1 .. n
        PROVE  /\ at[h] = rest[h] /\ at[h - 1] = rest[h - 1]
               /\ IF decl[h] = "**" THEN rest[h] >= rest[h - 1]
                  ELSE rest[h] = rest[h - 1] + 1 /\ SegmentMatches(decl[h], path[rest[h]])
    BY <2>3, <2>5 DEF Laid
  <2> HIDE DEF at
  <2>8. Laid(decl, path, at, i)
    <3> SUFFICES ASSUME NEW h \in i .. n
                 PROVE  IF decl[h] = "**" THEN at[h] >= at[h - 1]
                        ELSE at[h] = at[h - 1] + 1 /\ SegmentMatches(decl[h], path[at[h]])
      BY DEF Laid
    <3>1. h = i \/ h \in i + 1 .. n
      OBVIOUS
    <3> QED BY <2>6, <2>7, <3>1
  <2> QED BY <2>4, <2>8 DEF Lays
<1> QED BY <1>1, <1>2

(* The matcher withholds what its declaration can be laid along a beginning  *)
(* of, for every declaration and every path.                                 *)
LEMMA MatchCovers ==
  ASSUME NEW decl, Len(decl) \in Nat, NEW path, Len(path) \in Nat
  PROVE  Match(decl, path) <=> CoversPrefix(decl, path)
<1> DEFINE n == Len(decl)
           J == 1 .. Len(path) + 1
           next(i) == {k \in J : Lays(decl, path, i, k)}
<1>1. PICK from :
        /\ \A i \in 1 .. n + 1 : from[i] = Place(decl, path, i, from[i + 1])
        /\ Match(decl, path) <=> 1 \in from[1]
  BY MatchPlaces
<1> DEFINE S == {m \in Nat : m <= n => from[n + 1 - m] = next(n + 1 - m)}
<1>2. \A i, X : Place(decl, path, i, X) \subseteq J
  BY DEF Place
<1>3. 0 \in S
  <2>1. from[n + 1] = J
    <3>1. n + 1 \in 1 .. n + 1 /\ n + 1 > Len(decl)
      OBVIOUS
    <3>2. \A X : Place(decl, path, n + 1, X) = J
      BY <3>1 DEF Place
    <3> HIDE DEF J
    <3> QED BY <1>1, <3>1, <3>2
  <2>2. ASSUME NEW j \in J PROVE Lays(decl, path, n + 1, j)
    <3> DEFINE at == [h \in n .. n |-> j - 1]
    <3>1. at \in [n + 1 - 1 .. n -> 0 .. Len(path)] /\ at[n + 1 - 1] = j - 1
      OBVIOUS
    <3>3. n + 1 .. n = {}
      OBVIOUS
    <3>4. Laid(decl, path, at, n + 1)
      BY <3>3 DEF Laid
    <3> HIDE DEF at
    <3> QED BY <3>1, <3>4 DEF Lays
  <2>3. n + 1 - 0 = n + 1
    OBVIOUS
  <2> QED BY <2>1, <2>2, <2>3
<1>4. ASSUME NEW m \in Nat, m \in S PROVE m + 1 \in S
  <2> SUFFICES ASSUME m + 1 <= n PROVE from[n + 1 - (m + 1)] = next(n + 1 - (m + 1))
    OBVIOUS
  <2> DEFINE i == n - m
  <2>0. i \in 1 .. n /\ i \in 1 .. n + 1 /\ i + 1 = n + 1 - m /\ n + 1 - (m + 1) = i
    OBVIOUS
  <2>1. from[i + 1] = next(i + 1)
    BY <1>4, <2>0
  <2> HIDE DEF i
  <2>2. from[i] = Place(decl, path, i, next(i + 1))
    BY <1>1, <2>0, <2>1
  <2>3. \A j \in J : Lays(decl, path, i, j) <=> j \in Place(decl, path, i, next(i + 1))
    BY <2>0, LaysOn
  <2>4. from[i] = next(i)
    BY <1>2, <2>2, <2>3
  <2> QED BY <2>0, <2>4
<1>5. Nat \subseteq S
  <2> HIDE DEF S
  <2> QED BY <1>3, <1>4, NatByInduction
<1>6. from[1] = next(1)
  <2>1. n \in S /\ n + 1 - n = 1
    BY <1>5
  <2> QED BY <2>1
<1>7. Lays(decl, path, 1, 1) <=> CoversPrefix(decl, path)
  <2>1. 1 - 1 = 0
    OBVIOUS
  <2> QED BY <2>1 DEF Lays, Laid, CoversPrefix
<1>8. 1 \in J
  OBVIOUS
<1> QED BY <1>1, <1>6, <1>7, <1>8

(* What a declaration withholds, it does followed by "**", too. *)
LEMMA CoversBeneath ==
  ASSUME NEW decl \in Seq(STRING), NEW path, Len(path) \in Nat
  PROVE  CoversPrefix(decl, path) <=> CoversPrefix(Append(decl, "**"), path)
<1> DEFINE n == Len(decl)
           more == Append(decl, "**")
<1>1. Len(more) = n + 1 /\ more[n + 1] = "**" /\ n \in Nat /\ \A i \in 1 .. n : more[i] = decl[i]
  OBVIOUS
<1> HIDE DEF more
<1>2. ASSUME CoversPrefix(decl, path) PROVE CoversPrefix(more, path)
  <2>1. PICK at \in [0 .. n -> 0 .. Len(path)] :
          /\ at[0] = 0
          /\ \A i \in 1 .. n :
               IF decl[i] = "**" THEN at[i] >= at[i - 1]
               ELSE at[i] = at[i - 1] + 1 /\ SegmentMatches(decl[i], path[at[i]])
    BY <1>2 DEF CoversPrefix
  <2> DEFINE to == [i \in 0 .. n + 1 |-> IF i = n + 1 THEN at[n] ELSE at[i]]
  <2>2. to \in [0 .. n + 1 -> 0 .. Len(path)] /\ to[0] = 0
    BY <1>1, <2>1
  <2>3. to[n + 1] = at[n] /\ to[n] = at[n] /\ at[n] \in Nat /\ n + 1 - 1 = n
    BY <1>1, <2>1
  <2>4. \A i \in 1 .. n : to[i] = at[i] /\ to[i - 1] = at[i - 1]
    BY <1>1
  <2>5. \A i \in 1 .. n + 1 : i = n + 1 \/ i \in 1 .. n
    BY <1>1
  <2> HIDE DEF to
  <2>6. ASSUME NEW i \in 1 .. n + 1
        PROVE  IF more[i] = "**" THEN to[i] >= to[i - 1]
               ELSE to[i] = to[i - 1] + 1 /\ SegmentMatches(more[i], path[to[i]])
    <3>1. CASE i = n + 1
      BY <1>1, <2>3, <3>1
    <3>2. CASE i \in 1 .. n
      BY <1>1, <2>1, <2>4, <3>2
    <3> QED BY <2>5, <3>1, <3>2
  <2> QED BY <1>1, <2>2, <2>6 DEF CoversPrefix
<1>3. ASSUME CoversPrefix(more, path) PROVE CoversPrefix(decl, path)
  <2>1. PICK to \in [0 .. n + 1 -> 0 .. Len(path)] :
          /\ to[0] = 0
          /\ \A i \in 1 .. n + 1 :
               IF more[i] = "**" THEN to[i] >= to[i - 1]
               ELSE to[i] = to[i - 1] + 1 /\ SegmentMatches(more[i], path[to[i]])
    BY <1>1, <1>3 DEF CoversPrefix
  <2> DEFINE at == [i \in 0 .. n |-> to[i]]
  <2>2. at \in [0 .. n -> 0 .. Len(path)] /\ at[0] = 0
    BY <1>1, <2>1
  <2>3. \A i \in 1 .. n : at[i] = to[i] /\ at[i - 1] = to[i - 1] /\ i \in 1 .. n + 1
    BY <1>1
  <2> HIDE DEF at
  <2>4. \A i \in 1 .. n :
          IF decl[i] = "**" THEN at[i] >= at[i - 1]
          ELSE at[i] = at[i - 1] + 1 /\ SegmentMatches(decl[i], path[at[i]])
    BY <1>1, <2>1, <2>3
  <2> QED BY <2>2, <2>4 DEF CoversPrefix
<1> QED BY <1>2, <1>3 DEF more

-----------------------------------------------------------------------------
(* Overrides and defaults *)

(* No override takes a seat away from a profile, or a grant from a seat. *)
LEMMA OverrideReads ==
  ASSUME NEW p, ProfileRead(p), NEW set, set.path \in {"engine", "credentials", "cli"}
  PROVE  ProfileRead(Override(p, set))
<1> DEFINE q == Override(p, set)
<1>1. CASE set.path = "engine"
  <2>1. q = [p EXCEPT !.defaults.engine = set.value]
    BY <1>1 DEF Override
  <2>2. DOMAIN q = DOMAIN p /\ q.seats = p.seats
    BY <2>1 DEF ProfileRead
  <2>3. DOMAIN q.defaults = DOMAIN p.defaults
    BY <2>1 DEF ProfileRead
  <2> HIDE DEF q
  <2> QED BY <2>2, <2>3 DEF ProfileRead, Seats, q
<1>2. CASE set.path = "credentials"
  <2>1. q = [p EXCEPT !.defaults.verb = set.value]
    BY <1>2 DEF Override
  <2>2. DOMAIN q = DOMAIN p /\ q.seats = p.seats
    BY <2>1 DEF ProfileRead
  <2>3. DOMAIN q.defaults = DOMAIN p.defaults
    BY <2>1 DEF ProfileRead
  <2> HIDE DEF q
  <2> QED BY <2>2, <2>3 DEF ProfileRead, Seats, q
<1>3. CASE set.path = "cli"
  <2>1. q = [p EXCEPT !.seats[set.seat].cli = set.value]
    BY <1>3 DEF Override
  <2>2. DOMAIN q = DOMAIN p /\ q.defaults = p.defaults
    BY <2>1 DEF ProfileRead
  <2>3. q.seats = [p.seats EXCEPT ![set.seat].cli = set.value]
    BY <2>1 DEF ProfileRead
  <2>4. Seats(q) = Seats(p)
    BY <2>3 DEF Seats
  <2>5. ASSUME NEW s \in Seats(p)
        PROVE  /\ DOMAIN q.seats[s] = DOMAIN p.seats[s]
               /\ q.seats[s].auth = p.seats[s].auth /\ q.seats[s].repos = p.seats[s].repos
    BY <2>3 DEF ProfileRead, Seats
  <2> HIDE DEF q
  <2> QED BY <2>2, <2>4, <2>5 DEF ProfileRead, q
<1> QED BY <1>1, <1>2, <1>3

LEMMA SetsRead ==
  ASSUME NEW p, ProfileRead(p), NEW sets
  PROVE  ProfileRead(ApplySets(p, sets))
<1> DEFINE After(path, q) == IF \E s \in sets : s.path = path
                             THEN Override(q, CHOOSE s \in sets : s.path = path) ELSE q
<1>1. ASSUME NEW path \in {"engine", "credentials", "cli"}, NEW q, ProfileRead(q)
      PROVE  ProfileRead(After(path, q))
  <2>1. CASE \E s \in sets : s.path = path
    <3>1. (CHOOSE s \in sets : s.path = path).path = path
      BY <2>1
    <3> QED BY <1>1, <2>1, <3>1, OverrideReads
  <2> QED BY <1>1, <2>1
<1>2. ApplySets(p, sets) = After("engine", After("credentials", After("cli", p)))
  BY DEF ApplySets
<1> HIDE DEF After
<1>3. ProfileRead(After("cli", p))
  BY <1>1
<1>4. ProfileRead(After("credentials", After("cli", p)))
  BY <1>1, <1>3
<1> QED BY <1>1, <1>2, <1>4

(* A seat that lends has no variable to be given, and every seat's grants    *)
(* are of a known kind.                                                      *)
LendsNoVariable(seat) == seat.verb = "lend" => APIKeyEnvs(seat.auth) = {}
Sound(p) ==
  \A s \in Seats(p) : LendsNoVariable(p.seats[s]) /\ GrantsRead(p.seats[s].auth)

LEMMA DefaultsSeat ==
  ASSUME NEW p, ProfileRead(p), NEW s \in Seats(p)
  PROVE  /\ Seats(ApplyDefaults(p)) = Seats(p)
         /\ ApplyDefaults(p).seats[s].auth = p.seats[s].auth
         /\ ApplyDefaults(p).seats[s].repos = p.seats[s].repos
         /\ ApplyDefaults(p).seats[s].verb = Credentials(p.defaults, p.seats[s])
<1> DEFINE seats == [t \in Seats(p) |->
       [p.seats[t] EXCEPT !.verb = Credentials(p.defaults, p.seats[t]),
                          !.env = OrElse(@, p.defaults.env),
                          !.imageStores = OrElse(@, p.defaults.imageStores)]]
<1>1. ApplyDefaults(p).seats = seats
  BY DEF ApplyDefaults, ProfileRead
<1>2. seats[s] = [p.seats[s] EXCEPT !.verb = Credentials(p.defaults, p.seats[s]),
                                    !.env = OrElse(@, p.defaults.env),
                                    !.imageStores = OrElse(@, p.defaults.imageStores)]
  OBVIOUS
<1>3. DOMAIN seats = Seats(p)
  OBVIOUS
<1> HIDE DEF seats
<1>4. {"auth", "verb", "env", "imageStores", "repos"} \subseteq DOMAIN p.seats[s]
  BY DEF ProfileRead
<1>5. /\ seats[s].auth = p.seats[s].auth /\ seats[s].repos = p.seats[s].repos
      /\ seats[s].verb = Credentials(p.defaults, p.seats[s])
  BY <1>2, <1>4
<1> QED BY <1>1, <1>3, <1>5 DEF Seats

(* A valid profile is sound once its defaults are filled in. *)
LEMMA ValidIsSound ==
  ASSUME NEW p, ProfileRead(p), ValidProfile(p)
  PROVE  Sound(ApplyDefaults(p))
<1> SUFFICES ASSUME NEW s \in Seats(p)
             PROVE  /\ LendsNoVariable(ApplyDefaults(p).seats[s])
                    /\ GrantsRead(ApplyDefaults(p).seats[s].auth)
  <2>1. Seats(ApplyDefaults(p)) = Seats(p)
    <3>1. "orchestrator" \in Seats(p)
      BY DEF ValidProfile
    <3> QED BY <3>1, DefaultsSeat
  <2> QED BY <2>1 DEF Sound
<1> DEFINE auth == p.seats[s].auth
           verb == Credentials(p.defaults, p.seats[s])
<1>1. GrantsRead(auth)
  BY DEF ProfileRead
<1>2. ValidAuth(auth, verb)
  BY DEF ValidProfile, ValidSeat
<1>3. verb = "lend" => ~Spells(auth, "inherit")
  <2>1. Spells(auth, "inherit") /\ ~Spells(auth, "lend") => verb = "inherit"
    BY DEF Credentials, DeclaredCredentials, Given
  <2>2. ~(Spells(auth, "lend") /\ Spells(auth, "inherit"))
    BY <1>2 DEF ValidAuth, ValidSpelling
  <2> QED BY <2>1, <2>2
<1>4. ASSUME verb = "lend", NEW g \in auth, g.what = "env" PROVE FALSE
  <2>1. g.how # "plain"
    BY <1>2, <1>4 DEF ValidAuth
  <2>2. g.how # "lend"
    BY <1>1, <1>4 DEF GrantsRead
  <2>3. g.how # "inherit"
    BY <1>3, <1>4 DEF Spells
  <2> QED BY <1>1, <1>4, <2>1, <2>2, <2>3 DEF GrantsRead, Verbs
<1>5. verb = "lend" => APIKeyEnvs(auth) = {}
  BY <1>4 DEF APIKeyEnvs, Granted
<1> QED BY <1>1, <1>5, DefaultsSeat DEF LendsNoVariable

-----------------------------------------------------------------------------
(* The invariant: what a create goes by is sound, its shell was judged for   *)
(* its plan before anything was made, and so is what was made.               *)
Planning == {"resolve", "initialize", "update-ref", "symbolic-ref", "adopt", "provision"}
MachineSound(m) ==
  /\ {"verb", "grants"} \subseteq DOMAIN m
  /\ m.verb = "lend" => \A g \in m.grants : g.how = "lend"

CredentialInv ==
  /\ {"profile", "other", "opts"} \subseteq DOMAIN start
  /\ ProfileRead(start.profile) /\ ProfileRead(start.other)
  /\ pc \in Planning \cup {"idle", "running"}
  /\ pc \in Planning => {"profile", "shell"} \subseteq DOMAIN plan /\ Sound(plan.profile)
  /\ pc \in Planning \ {"resolve"} => UnsatisfiedKeyEnv(plan.profile, plan.shell) = {}
  /\ record # Nothing => Sound(record.campaign.profile)
  /\ pc = "provision" => record # Nothing
  /\ \A s \in DOMAIN machines : MachineSound(machines[s])

LEMMA InitCredentials == Init => CredentialInv
<1> SUFFICES ASSUME Init PROVE CredentialInv
  OBVIOUS
<1>1. start \in Starts
  BY DEF Init
<1>2. DOMAIN machines = {}
  BY DEF Init
<1> QED BY <1>1, <1>2, StartsAssumption DEF Init, CredentialInv, Planning

(* A seat that lends is given loans. *)
LEMMA ArgsSound ==
  ASSUME NEW seat, LendsNoVariable(seat), NEW sh, seat.verb = "lend"
  PROVE  \A g \in AuthArgs(seat, sh) : g.how = "lend"
<1>1. SelectedAPIKey(seat, sh) = ""
  BY DEF LendsNoVariable, SelectedAPIKey
<1> DEFINE Loans(what) ==
             {[what |-> what, how |-> "lend", value |-> v] : v \in Granted(seat.auth, what)}
<1>2. AuthArgs(seat, sh) = IF APIKeys(seat.auth) # {} THEN Loans("key") ELSE Loans("login")
  BY <1>1 DEF AuthArgs
<1>3. \A what \in {"key", "login"} : \A g \in Loans(what) : g.how = "lend"
  OBVIOUS
<1> HIDE DEF Loans
<1> QED BY <1>2, <1>3

(* A seat that is not bare is given something, if it declares anything.      *)
LEMMA ArgsGiven ==
  ASSUME NEW seat, GrantsRead(seat.auth), seat.auth # {}, NEW sh,
         ~(/\ APIKeyEnvs(seat.auth) # {}
           /\ APIKeys(seat.auth) = {} /\ AgentLogins(seat.auth) = {}
           /\ SelectedAPIKey(seat, sh) = "")
  PROVE  AuthArgs(seat, sh) # {}
<1>1. CASE SelectedAPIKey(seat, sh) # ""
  BY <1>1 DEF AuthArgs
<1>2. CASE SelectedAPIKey(seat, sh) = "" /\ APIKeys(seat.auth) # {}
  BY <1>2 DEF AuthArgs, APIKeys
<1>3. CASE SelectedAPIKey(seat, sh) = "" /\ APIKeys(seat.auth) = {}
  <2>1. PICK g \in seat.auth : TRUE
    OBVIOUS
  <2>2. g.value \in APIKeyEnvs(seat.auth) \cup APIKeys(seat.auth) \cup AgentLogins(seat.auth)
    BY DEF GrantsRead, APIKeyEnvs, APIKeys, AgentLogins, Granted
  <2>3. AgentLogins(seat.auth) # {}
    BY <1>3, <2>2
  <2> QED BY <1>3, <2>3 DEF AuthArgs, AgentLogins
<1> QED BY <1>1, <1>2, <1>3

(* Work in the campaign leaves alone what a machine was made with. *)
LEMMA TeamKeeps ==
  ASSUME CredentialInv, Team
  PROVE  /\ DOMAIN machines' = DOMAIN machines
         /\ \A s \in DOMAIN machines : MachineSound(machines'[s])
<1>0. \A s \in DOMAIN machines : MachineSound(machines[s])
  BY DEF CredentialInv
<1>1. ASSUME NEW s \in DOMAIN machines, Work(s)
      PROVE  /\ DOMAIN machines' = DOMAIN machines
             /\ \A t \in DOMAIN machines : MachineSound(machines'[t])
  <2>1. machines' = [machines EXCEPT ![s].head = Len(dag'), ![s].store = @ \cup {Len(dag')}]
    BY <1>1 DEF Work
  <2> QED BY <1>0, <2>1 DEF MachineSound
<1>2. ASSUME NEW a \in DOMAIN machines, Fetch(a)
      PROVE  /\ DOMAIN machines' = DOMAIN machines
             /\ \A t \in DOMAIN machines : MachineSound(machines'[t])
  <2> DEFINE o == "orchestrator"
             has == [machines[o] EXCEPT !.store = @ \cup Ancestors(dag, machines[a].head)]
             Take(head) == [has EXCEPT !.head = head, !.store = @ \cup {head}]
  <2>1. \/ machines' = [machines EXCEPT ![o] = has]
        \/ \E head : machines' = [machines EXCEPT ![o] = Take(head)]
    BY <1>2 DEF Fetch, Merge, Orchestrator
  <2>2. o \in DOMAIN machines => MachineSound(has)
    BY <1>0 DEF MachineSound
  <2>3. \A head : MachineSound(has) => MachineSound(Take(head))
    BY DEF MachineSound
  <2> HIDE DEF has, Take
  <2> QED BY <1>0, <2>1, <2>2, <2>3
<1>3. CASE \E a \in DOMAIN machines : PushStart(a)
  BY <1>0, <1>3 DEF PushStart
<1>4. CASE PushSend
  BY <1>0, <1>4 DEF PushSend, MachineSound
<1>5. CASE PushEnds
  BY <1>0, <1>5 DEF PushEnds
<1> QED BY <1>1, <1>2, <1>3, <1>4, <1>5 DEF Team

(* A machine is made by Provision alone, with what its seat is due. *)
LEMMA ProvisionMakes ==
  ASSUME CredentialInv, NEW s, s \in Seats(record.campaign.profile), Provision(s)
  PROVE  /\ DOMAIN machines' = DOMAIN machines \cup {s}
         /\ \A t \in DOMAIN machines' \ {s} : machines'[t] = machines[t]
         /\ machines'[s].verb = record.campaign.profile.seats[s].verb
         /\ machines'[s].grants =
              AuthArgs(record.campaign.profile.seats[s], plan.shell)
         /\ MachineSound(machines'[s])
<1>1. /\ DOMAIN machines' = DOMAIN machines \cup {s}
      /\ \A t \in DOMAIN machines' \ {s} : machines'[t] = machines[t]
      /\ machines'[s] = CreateArgs(s)
  BY DEF Provision
<1>2. /\ {"verb", "grants"} \subseteq DOMAIN CreateArgs(s)
      /\ CreateArgs(s).verb = record.campaign.profile.seats[s].verb
      /\ CreateArgs(s).grants = AuthArgs(record.campaign.profile.seats[s], plan.shell)
  BY DEF CreateArgs
<1>3. LendsNoVariable(record.campaign.profile.seats[s])
  BY DEF Provision, CredentialInv, Sound
<1>4. MachineSound(CreateArgs(s))
  BY <1>2, <1>3, ArgsSound DEF MachineSound
<1> QED BY <1>1, <1>2, <1>4

LEMMA StepCredentials == ASSUME CredentialInv, [Next]_vars PROVE CredentialInv'
<1> USE DEF Planning
<1>1. CASE CreateStart
  <2>1. Sound(Planned)
    <3>1. ProfileRead(ApplySets(start.profile, CredentialSet(start.opts)))
      BY SetsRead DEF CredentialInv
    <3>2. ValidProfile(ApplySets(start.profile, CredentialSet(start.opts)))
      BY <1>1 DEF CreateStart, PlanJudges, ApplySetsOK
    <3> QED BY <3>1, <3>2, ValidIsSound DEF Planned
  <2>2. {"profile", "shell"} \subseteq DOMAIN plan' /\ plan'.profile = Planned
    BY <1>1 DEF CreateStart
  <2> QED BY <1>1, <2>1, <2>2 DEF CreateStart, CredentialInv, team, repo
<1>2. ASSUME NEW s \in Seats(plan.profile), ResolveSeat(s) PROVE CredentialInv'
  <2>1. DOMAIN plan' = DOMAIN plan
    BY <1>2 DEF ResolveSeat
  <2>2. {"profile", "shell"} \subseteq DOMAIN plan => plan'.profile = plan.profile
    BY <1>2 DEF ResolveSeat
  <2> QED BY <1>2, <2>1, <2>2 DEF ResolveSeat, CredentialInv, team, repo
<1>3. CASE CreateChecks
  BY <1>3 DEF CreateChecks, CredentialInv, team
<1>4. CASE GitInit \/ UpdateRef \/ SymbolicRef \/ NoInit
  BY <1>4 DEF GitInit, UpdateRef, SymbolicRef, NoInit, CredentialInv, team, repo
<1>5. CASE Adopt
  <2>1. record' = record \/ record'.campaign.profile = plan.profile
    BY <1>5 DEF Adopt, BuildCampaign
  <2>2. record' # Nothing
    BY <1>5 DEF Adopt, Nothing
  <2> QED BY <1>5, <2>1, <2>2 DEF Adopt, CredentialInv, team, repo
<1>6. ASSUME NEW s \in Seats(record.campaign.profile), Provision(s) PROVE CredentialInv'
  <2>1. \A t \in DOMAIN machines' : MachineSound(machines'[t])
    BY <1>6, ProvisionMakes DEF CredentialInv
  <2> QED BY <1>6, <2>1 DEF Provision, CredentialInv, repo
<1>7. CASE CreateDone \/ CreateEnds
  BY <1>7 DEF CreateDone, CreateEnds, CredentialInv, team, repo
<1>8. CASE Commit \/ Amend
  <2>1. /\ DOMAIN plan' = DOMAIN plan \/ plan' = plan
        /\ {"profile", "shell"} \subseteq DOMAIN plan =>
             plan'.profile = plan.profile /\ plan'.shell = plan.shell
    BY <1>8 DEF Commit, Amend, Tear
  <2> QED BY <1>8, <2>1 DEF Commit, Amend, CredentialInv, team
<1>9. CASE ChangeFiles \/ InitByHand \/ Prune \/ SetVariable
  BY <1>9 DEF ChangeFiles, InitByHand, Prune, SetVariable, CredentialInv, team, repo
<1>10. CASE EditProfile
  <2>1. /\ DOMAIN start' = DOMAIN start
        /\ start'.profile = start.other /\ start'.other = start.other
    BY <1>10 DEF EditProfile, CredentialInv
  <2> QED BY <1>10, <2>1 DEF EditProfile, CredentialInv, team, repo
<1>11. CASE Team
  <2>1. \A s \in DOMAIN machines' : MachineSound(machines'[s])
    BY <1>11, TeamKeeps
  <2>2. UNCHANGED <<start, record, pc, plan>>
    BY <1>11 DEF Team, Work, Fetch, PushStart, PushSend, PushEnds
  <2> QED BY <2>1, <2>2 DEF CredentialInv
<1>12. CASE UNCHANGED vars
  BY <1>12 DEF vars, repo, team, CredentialInv
<1> QED
  BY <1>1, <1>2, <1>3, <1>4, <1>5, <1>6, <1>7, <1>8, <1>9, <1>10, <1>11, <1>12
  DEF Next, Create, Operator

(* Credentials keep to the profile in every reachable state. *)
THEOREM CredentialsKept == Spec => []CredentialInv
<1> QED BY InitCredentials, StepCredentials, PTL DEF Spec

(* A machine that is made for a seat with grants gets a credential, unless   *)
(* the profile was edited between two attempts.                              *)
THEOREM SeatsAreGiven == Spec => SeatHasCredential
<1>1. CredentialInv /\ [Next]_vars =>
        [\A s \in DOMAIN machines' \ DOMAIN machines :
           plan.profile = record.campaign.profile =>
             \/ record.campaign.profile.seats[s].auth = {}
             \/ machines'[s].grants # {}]_vars
  <2> SUFFICES ASSUME CredentialInv, [Next]_vars, NEW s \in DOMAIN machines' \ DOMAIN machines,
                      plan.profile = record.campaign.profile,
                      record.campaign.profile.seats[s].auth # {}
               PROVE  machines'[s].grants # {}
    OBVIOUS
  <2>1. ~Team
    BY TeamKeeps
  <2>2. PICK t \in Seats(record.campaign.profile) : Provision(t)
    <3> SUFFICES ASSUME \A t \in Seats(record.campaign.profile) : ~Provision(t)
                 PROVE  machines' = machines
      OBVIOUS
    <3>1. CASE CreateStart \/ GitInit \/ UpdateRef \/ SymbolicRef \/ NoInit \/ Adopt
               \/ CreateChecks \/ CreateDone \/ CreateEnds
      BY <3>1 DEF CreateStart, GitInit, UpdateRef, SymbolicRef, NoInit, Adopt,
         CreateChecks, CreateDone, CreateEnds, team
    <3>2. ASSUME NEW t \in Seats(plan.profile), ResolveSeat(t) PROVE machines' = machines
      BY <3>2 DEF ResolveSeat, team
    <3>3. CASE Operator
      BY <3>3 DEF Operator, Commit, Amend, ChangeFiles, InitByHand, Prune,
         SetVariable, EditProfile, team
    <3>4. CASE UNCHANGED vars
      BY <3>4 DEF vars, team
    <3> QED BY <2>1, <3>1, <3>2, <3>3, <3>4 DEF Next, Create
  <2>3. t = s
    <3>1. t \in Seats(record.campaign.profile)
      OBVIOUS
    <3>2. DOMAIN machines' = DOMAIN machines \cup {t}
      BY <2>2, <3>1, ProvisionMakes
    <3> QED BY <3>2
  <2> DEFINE seat == record.campaign.profile.seats[s]
  <2>4. machines'[s].grants = AuthArgs(seat, plan.shell)
    BY <2>2, <2>3, ProvisionMakes
  <2>5. s \in Seats(plan.profile) /\ s \notin UnsatisfiedKeyEnv(plan.profile, plan.shell)
    BY <2>2, <2>3 DEF Provision, CredentialInv, Planning
  <2>6. ~(/\ APIKeyEnvs(seat.auth) # {}
          /\ APIKeys(seat.auth) = {} /\ AgentLogins(seat.auth) = {}
          /\ SelectedAPIKey(seat, plan.shell) = "")
    BY <2>5 DEF UnsatisfiedKeyEnv
  <2>7. GrantsRead(seat.auth)
    BY <2>2, <2>3 DEF Provision, CredentialInv, Sound
  <2> HIDE DEF seat
  <2>8. seat.auth # {}
    BY DEF seat
  <2> QED BY <2>4, <2>6, <2>7, <2>8, ArgsGiven
<1> QED BY <1>1, CredentialsKept, PTL DEF Spec, SeatHasCredential

-----------------------------------------------------------------------------
(* Bases *)

RefsOf(p, s) == {r.ref : r \in p.seats[s].repos}
OneRepository(p) ==
  \A s \in Seats(p) : p.seats[s].repos # {} /\ ReposRead(p.seats[s].repos)
TheRepository(p, s) == CHOOSE r \in p.seats[s].repos : TRUE

(* What a seat is given depends on the host and on its ref alone. *)
LEMMA RefDecides ==
  ASSUME NEW p, OneRepository(p), NEW s \in Seats(p), NEW t \in Seats(p),
         RefsOf(p, s) = RefsOf(p, t), NEW h
  PROVE  ResolvedCommit(h, TheRepository(p, s)) = ResolvedCommit(h, TheRepository(p, t))
<1>1. TheRepository(p, s) \in p.seats[s].repos /\ TheRepository(p, t) \in p.seats[t].repos
  BY DEF OneRepository, TheRepository
<1>2. TheRepository(p, s).ref = TheRepository(p, t).ref
  <2>1. TheRepository(p, s).ref \in RefsOf(p, t)
    BY <1>1 DEF RefsOf
  <2>2. PICK r \in p.seats[t].repos : r.ref = TheRepository(p, s).ref
    BY <2>1 DEF RefsOf
  <2> QED BY <1>1, <2>2 DEF OneRepository, ReposRead
<1> QED BY <1>2 DEF ResolvedCommit, Initializes, RevParse

(* The commits planned for seats with one ref are one commit: while seats    *)
(* are resolved, because the host has not moved; later, because the plan is  *)
(* not touched again.                                                        *)
Alike(p, s, t) == s \in Seats(p) /\ t \in Seats(p) /\ RefsOf(p, s) = RefsOf(p, t)
PlanOneBase ==
  pc \in Planning =>
    /\ {"profile", "commits", "torn"} \subseteq DOMAIN plan
    /\ OneRepository(plan.profile)
    /\ pc = "resolve" => DOMAIN plan.commits \subseteq Seats(plan.profile)
    /\ IF pc = "resolve"
       THEN ~plan.torn => \A s \in DOMAIN plan.commits :
              plan.commits[s] = ResolvedCommit(host, TheRepository(plan.profile, s))
       ELSE ~plan.torn => \A s, t : Alike(plan.profile, s, t) =>
              plan.commits[s] = plan.commits[t]
RecordOneBase ==
  record # Nothing /\ ~record.torn =>
    \A s, t : Alike(record.campaign.profile, s, t) =>
      record.campaign.seats[s].commit = record.campaign.seats[t].commit
MachinesAsRecorded ==
  \A s \in DOMAIN machines :
    /\ record # Nothing /\ s \in Seats(record.campaign.profile)
    /\ "base" \in DOMAIN machines[s]
    /\ machines[s].base = record.campaign.seats[s].commit
    /\ "env" \in DOMAIN machines[s] /\ machines[s].env \subseteq Variables
    /\ machines[s].env \subseteq record.campaign.profile.seats[s].env

BaseInv == PlanOneBase /\ RecordOneBase /\ MachinesAsRecorded

LEMMA InitBase == Init => BaseInv
<1> SUFFICES ASSUME Init PROVE BaseInv
  OBVIOUS
<1>1. DOMAIN machines = {}
  BY DEF Init
<1> QED BY <1>1 DEF Init, BaseInv, PlanOneBase, RecordOneBase, MachinesAsRecorded, Planning

LEMMA PlannedOneRepository ==
  ASSUME CredentialInv, PlanJudges
  PROVE  OneRepository(Planned)
<1> DEFINE p == ApplySets(start.profile, CredentialSet(start.opts))
<1>1. ProfileRead(p)
  BY SetsRead DEF CredentialInv
<1>2. "orchestrator" \in Seats(p)
  BY DEF PlanJudges, ApplySetsOK, ValidProfile
<1>3. Planned = ApplyDefaults(p)
  BY DEF Planned
<1>4. HaveRepositories(ApplyDefaults(p))
  BY <1>3 DEF PlanJudges
<1> HIDE DEF p
<1>5. Seats(ApplyDefaults(p)) = Seats(p)
  BY <1>1, <1>2, DefaultsSeat
<1>6. \A s \in Seats(p) : ApplyDefaults(p).seats[s].repos = p.seats[s].repos
  BY <1>1, DefaultsSeat
<1> QED BY <1>1, <1>3, <1>4, <1>5, <1>6 DEF OneRepository, HaveRepositories, ProfileRead

MadeAs(m, was) ==
  {"base", "env"} \subseteq DOMAIN m /\ m.base = was.base /\ m.env = was.env
LEMMA TeamKeepsBase ==
  ASSUME MachinesAsRecorded, Team
  PROVE  /\ DOMAIN machines' = DOMAIN machines
         /\ \A s \in DOMAIN machines : MadeAs(machines'[s], machines[s])
<1>0. \A s \in DOMAIN machines : {"base", "env"} \subseteq DOMAIN machines[s]
  BY DEF MachinesAsRecorded
<1>1. ASSUME NEW s \in DOMAIN machines, Work(s)
      PROVE  /\ DOMAIN machines' = DOMAIN machines
             /\ \A t \in DOMAIN machines : MadeAs(machines'[t], machines[t])
  <2>1. machines' = [machines EXCEPT ![s].head = Len(dag'), ![s].store = @ \cup {Len(dag')}]
    BY <1>1 DEF Work
  <2> QED BY <1>0, <2>1 DEF MadeAs
<1>2. ASSUME NEW a \in DOMAIN machines, Fetch(a)
      PROVE  /\ DOMAIN machines' = DOMAIN machines
             /\ \A t \in DOMAIN machines : MadeAs(machines'[t], machines[t])
  <2> DEFINE o == "orchestrator"
             has == [machines[o] EXCEPT !.store = @ \cup Ancestors(dag, machines[a].head)]
             Take(head) == [has EXCEPT !.head = head, !.store = @ \cup {head}]
  <2>1. \/ machines' = [machines EXCEPT ![o] = has]
        \/ \E head : machines' = [machines EXCEPT ![o] = Take(head)]
    BY <1>2 DEF Fetch, Merge, Orchestrator
  <2>2. o \in DOMAIN machines => MadeAs(has, machines[o])
    BY <1>0 DEF MadeAs
  <2>3. \A head, m : MadeAs(has, m) => MadeAs(Take(head), m)
    BY DEF MadeAs
  <2> HIDE DEF has, Take
  <2> QED BY <1>0, <2>1, <2>2, <2>3 DEF MadeAs
<1>3. CASE \E a \in DOMAIN machines : PushStart(a)
  BY <1>0, <1>3 DEF PushStart, MadeAs
<1>4. CASE PushSend
  BY <1>0, <1>4 DEF PushSend, MadeAs
<1>5. CASE PushEnds
  BY <1>0, <1>5 DEF PushEnds, MadeAs
<1> QED BY <1>1, <1>2, <1>3, <1>4, <1>5 DEF Team

-----------------------------------------------------------------------------
(* Histories that grow, and sets of commits that stand on nothing outside.   *)
Grown(d, e) ==
  HistoryRead(d) /\ HistoryRead(e) /\ Len(d) <= Len(e) /\ \A c \in 1 .. Len(d) : e[c] = d[c]
Closed(d, cs) == \A c \in cs : c \in 0 .. Len(d) /\ Ancestors(d, c) \subseteq cs

LEMMA ReadIsOlder == ASSUME NEW d, HistoryRead(d) PROVE Older(d)
BY DEF HistoryRead, Older

(* What is in reach of commits is closed, and has no more than any closed    *)
(* set with those commits.                                                   *)
LEMMA HistoryCloses ==
  ASSUME NEW d, HistoryRead(d), NEW cs, cs \subseteq NoCommit .. Len(d)
  PROVE  /\ Closed(d, History(d, cs)) /\ cs \ {NoCommit} \subseteq History(d, cs)
         /\ \A S : Closed(d, S) /\ cs \ {NoCommit} \subseteq S => History(d, cs) \subseteq S
<1>0. Older(d) /\ Len(d) \in Nat
  BY ReadIsOlder DEF Older
<1>1. ASSUME NEW c \in cs
      PROVE  /\ Ancestors(d, c) \subseteq 0 .. Len(d)
             /\ c # NoCommit => c \in Ancestors(d, c)
             /\ \A a \in Ancestors(d, c) : Ancestors(d, a) \subseteq Ancestors(d, c)
             /\ Ancestors(d, NoCommit) = {}
  <2>1. c \in NoCommit .. Len(d) /\ 0 .. c \subseteq 0 .. Len(d)
    BY <1>0 DEF NoCommit
  <2> QED BY <1>0, <2>1, AncestorsOlder, AncestorsOf
<1>2. Closed(d, History(d, cs))
  BY <1>1 DEF Closed, History
<1>3. ASSUME NEW c \in cs \ {NoCommit} PROVE c \in History(d, cs)
  <2>1. c \in Ancestors(d, c)
    BY <1>1
  <2> QED BY <2>1 DEF History
<1>4. ASSUME NEW S, Closed(d, S), cs \ {NoCommit} \subseteq S PROVE History(d, cs) \subseteq S
  BY <1>1, <1>4 DEF History, Closed
<1> QED BY <1>2, <1>3, <1>4

(* A longer history says of old commits what the shorter one said. *)
LEMMA GrownKeeps ==
  ASSUME NEW d, NEW e, Grown(d, e)
  PROVE  /\ \A c \in NoCommit .. Len(d) : Ancestors(e, c) = Ancestors(d, c)
         /\ \A cs \in SUBSET (NoCommit .. Len(d)) : History(e, cs) = History(d, cs)
         /\ \A S : Closed(d, S) => Closed(e, S)
         /\ \A decls, cs : cs \subseteq 0 .. Len(d) => Withheld(e, decls, cs) = Withheld(d, decls, cs)
<1>0. Older(d) /\ Older(e) /\ Len(d) \in Nat /\ Len(e) \in Nat /\ Len(d) <= Len(e)
  BY ReadIsOlder DEF Grown, Older
<1>1. \A c \in NoCommit .. Len(d) : Ancestors(e, c) = Ancestors(d, c)
  BY <1>0, AncestorsStay DEF Grown
<1>2. ASSUME NEW cs \in SUBSET (NoCommit .. Len(d)) PROVE History(e, cs) = History(d, cs)
  BY <1>1 DEF History
<1>3. \A c \in 0 .. Len(d) : c \in 0 .. Len(e) /\ c \in NoCommit .. Len(d)
  BY <1>0 DEF NoCommit
<1>4. ASSUME NEW S, Closed(d, S) PROVE Closed(e, S)
  BY <1>1, <1>3, <1>4 DEF Closed
<1>5. ASSUME NEW decls, NEW cs, cs \subseteq 0 .. Len(d)
      PROVE  Withheld(e, decls, cs) = Withheld(d, decls, cs)
  <2>1. \A c \in cs \ {Initial} : c \in 1 .. Len(d)
    BY <1>0, <1>5 DEF Initial
  <2>2. \A c \in cs \ {Initial} : e[c].adds = d[c].adds
    BY <2>1 DEF Grown
  <2> QED BY <2>2 DEF Withheld
<1> QED BY <1>1, <1>2, <1>4, <1>5

(* A commit on top of others: the history grows by it, and a closed set that *)
(* has those can take it in.                                                 *)
LEMMA CommitGrows ==
  ASSUME NEW d, HistoryRead(d), NEW parents \in SUBSET (0 .. Len(d)), NEW path \in Seq(STRING),
         NEW e, e = Append(d, [parents |-> parents, adds |-> path])
  PROVE  /\ Grown(d, e) /\ Len(e) = Len(d) + 1 /\ Len(d) \in Nat
         /\ Ancestors(e, Len(e)) = {Len(e)} \cup UNION {Ancestors(d, p) : p \in parents}
         /\ \A S : Closed(d, S) /\ parents \subseteq S => Closed(e, S \cup {Len(e)})
<1> DEFINE new == [parents |-> parents, adds |-> path]
<1>1. d \in Seq([parents : SUBSET Nat, adds : Seq(STRING)]) /\ Len(d) \in Nat
  BY DEF HistoryRead
<1>2. new \in [parents : SUBSET Nat, adds : Seq(STRING)]
  BY <1>1
<1>3. new.parents = parents
  OBVIOUS
<1> HIDE DEF new
<1>4. /\ e \in Seq([parents : SUBSET Nat, adds : Seq(STRING)]) /\ Len(e) = Len(d) + 1
      /\ e[Len(e)] = new /\ \A c \in 1 .. Len(d) : e[c] = d[c]
  BY <1>1, <1>2 DEF new
<1>5. ASSUME NEW c \in 1 .. Len(e) PROVE e[c].parents \subseteq 0 .. c - 1
  <2>1. c = Len(e) \/ c \in 1 .. Len(d)
    BY <1>1, <1>4
  <2>2. CASE c = Len(e)
    <3>1. c - 1 = Len(d)
      BY <1>1, <1>4, <2>2
    <3> QED BY <1>3, <1>4, <2>2, <3>1
  <2>3. CASE c \in 1 .. Len(d)
    BY <1>4, <2>3 DEF HistoryRead
  <2> QED BY <2>1, <2>2, <2>3
<1>6. Grown(d, e)
  BY <1>1, <1>4, <1>5 DEF Grown, HistoryRead
<1>7. Ancestors(e, Len(e)) = {Len(e)} \cup UNION {Ancestors(d, p) : p \in parents}
  <2>1. Older(e) /\ Len(e) \in 1 .. Len(e)
    BY <1>1, <1>4, <1>6, ReadIsOlder DEF Grown
  <2>2. Ancestors(e, Len(e)) = {Len(e)} \cup UNION {Ancestors(e, p) : p \in e[Len(e)].parents}
    <3>1. Ancestors(e, Len(e)) = {Len(e)} \cup Beneath(e, Len(e))
      BY <2>1, AncestorsOf
    <3> QED BY <3>1 DEF Beneath
  <2>3. \A p \in parents : Ancestors(e, p) = Ancestors(d, p)
    <3>1. \A p \in parents : p \in NoCommit .. Len(d)
      BY <1>1 DEF NoCommit
    <3> QED BY <1>6, <3>1, GrownKeeps
  <2>4. {Ancestors(e, p) : p \in e[Len(e)].parents} = {Ancestors(d, p) : p \in parents}
    BY <1>3, <1>4, <2>3
  <2> QED BY <2>2, <2>4
<1>8. ASSUME NEW S, Closed(d, S), parents \subseteq S PROVE Closed(e, S \cup {Len(e)})
  <2>1. Closed(e, S)
    BY <1>6, <1>8, GrownKeeps
  <2>2. Ancestors(e, Len(e)) \subseteq S \cup {Len(e)}
    BY <1>7, <1>8 DEF Closed
  <2>3. Len(e) \in 0 .. Len(e)
    BY <1>1, <1>4
  <2> QED BY <2>1, <2>2, <2>3 DEF Closed
<1> QED BY <1>1, <1>4, <1>6, <1>7, <1>8

-----------------------------------------------------------------------------
(* The invariant of the host: its repository is whole, and so is the history.*)
Heads(h) == {h.refs[b] : b \in Branches}
HostInv ==
  /\ HistoryRead(dag)
  /\ host \in [tree : Trees, head : Branches, refs : [Branches -> NoCommit .. Len(dag)],
               loose : SUBSET (0 .. Len(dag))]
  /\ ~IsRepo(host) => host.loose = {} /\ \A b \in Branches : host.refs[b] = NoCommit
  /\ pc \in {"update-ref", "symbolic-ref"} => IsRepo(host)
  /\ Closed(dag, Holds(host))
  /\ late \subseteq DOMAIN dag
  /\ shell \subseteq Variables
  /\ pc \in Planning => "shell" \in DOMAIN plan /\ plan.shell \subseteq Variables

LEMMA InitHost == Init => HostInv
<1> SUFFICES ASSUME Init PROVE HostInv
  OBVIOUS
<1>1. /\ start \in Starts /\ host = start.host /\ dag = start.dag /\ shell = start.shell
      /\ late = {} /\ pc = "idle"
  BY DEF Init
<1>2. HistoryRead(dag) /\ HostRead(host, dag) /\ shell \subseteq Variables
  BY <1>1, StartsAssumption
<1>3. Closed(dag, Holds(host))
  <2>1. Len(dag) \in Nat
    BY <1>2 DEF HistoryRead
  <2>2. /\ Heads(host) \subseteq NoCommit .. Len(dag)
        /\ host.loose \subseteq NoCommit .. Len(dag) /\ NoCommit \notin host.loose
    BY <1>2, <2>1 DEF HostRead, Heads, NoCommit
  <2>3. /\ Closed(dag, History(dag, Heads(host))) /\ Closed(dag, History(dag, host.loose))
        /\ host.loose \subseteq History(dag, host.loose)
    BY <1>2, <2>2, HistoryCloses
  <2>4. History(dag, host.loose) \subseteq host.loose \cup History(dag, Heads(host))
    BY <1>2 DEF HostRead, Heads
  <2>5. Holds(host) = History(dag, host.loose) \cup History(dag, Heads(host))
    BY <2>3, <2>4 DEF Holds, Reachable, Heads
  <2> QED BY <2>3, <2>5 DEF Closed
<1> QED BY <1>1, <1>2, <1>3 DEF HostInv, HostRead, Planning

(* A repository that changes stays whole, when what it has without a name    *)
(* was there before, and nothing that was there is lost.                     *)
LEMMA HoldsStays ==
  ASSUME NEW d, NEW e, Grown(d, e), NEW was, Closed(d, was),
         NEW loose, loose \subseteq was, NEW heads, heads \subseteq NoCommit .. Len(e),
         was \subseteq loose \cup History(e, heads)
  PROVE  Closed(e, loose \cup History(e, heads))
<1>1. Closed(e, was)
  BY GrownKeeps
<1>2. Closed(e, History(e, heads))
  BY HistoryCloses DEF Grown
<1> QED BY <1>1, <1>2 DEF Closed

LEMMA GrownItself == ASSUME NEW d, HistoryRead(d) PROVE Grown(d, d)
BY DEF Grown, HistoryRead

(* What a step does to the history alone leaves the host whole. *)
LEMMA HostApart ==
  ASSUME HostInv, Grown(dag, dag'), UNCHANGED <<host, late, shell, pc, plan>>
  PROVE  HostInv'
<1>1. Len(dag) \in Nat /\ Len(dag') \in Nat /\ Len(dag) <= Len(dag')
  BY DEF Grown, HistoryRead
<1>2. /\ NoCommit .. Len(dag) \subseteq NoCommit .. Len(dag')
      /\ 0 .. Len(dag) \subseteq 0 .. Len(dag')
  BY <1>1 DEF NoCommit
<1>3. Heads(host) \subseteq NoCommit .. Len(dag)
  BY DEF HostInv, Heads
<1>4. Holds(host)' = Holds(host)
  <2>1. History(dag', Heads(host)) = History(dag, Heads(host))
    BY <1>3, GrownKeeps
  <2> QED BY <2>1 DEF Holds, Reachable, Heads
<1>5. Closed(dag', Holds(host)')
  BY <1>4, GrownKeeps DEF HostInv
<1>6. late' \subseteq DOMAIN dag'
  BY <1>1 DEF HostInv, HistoryRead, Grown
<1>7. host' \in [tree : Trees, head : Branches, refs : [Branches -> NoCommit .. Len(dag')],
                 loose : SUBSET (0 .. Len(dag'))]
  BY <1>2 DEF HostInv
<1> QED BY <1>5, <1>6, <1>7 DEF HostInv, Grown

(* The history a step of the operator adds to. *)
LEMMA Adds ==
  ASSUME HostInv, NEW parents \in SUBSET (0 .. Len(dag)), NEW path \in Paths,
         AddCommit(parents, path)
  PROVE  /\ Grown(dag, dag') /\ Len(dag') = Len(dag) + 1 /\ Len(dag) \in Nat
         /\ Ancestors(dag', Len(dag')) = {Len(dag')} \cup UNION {Ancestors(dag, p) : p \in parents}
         /\ \A S : Closed(dag, S) /\ parents \subseteq S => Closed(dag', S \cup {Len(dag')})
<1>1. path \in Seq(STRING)
  BY PathsAssumption
<1> QED BY <1>1, CommitGrows DEF AddCommit, HostInv

LEMMA CommitKeepsHost == ASSUME HostInv, Commit PROVE HostInv' /\ Grown(dag, dag')
<1> DEFINE n == Len(dag')
           tip == Tip(host)
           parents == {tip} \ {NoCommit}
<1>0. /\ HistoryRead(dag) /\ Len(dag) \in Nat /\ host.head \in Branches
      /\ host.refs \in [Branches -> NoCommit .. Len(dag)]
      /\ tip = host.refs[host.head] /\ tip \in NoCommit .. Len(dag)
  BY DEF HostInv, HistoryRead, Tip
<1>1. PICK path \in Paths : AddCommit(parents, path)
  BY DEF Commit
<1>2. parents \in SUBSET (0 .. Len(dag))
  BY <1>0 DEF NoCommit
<1>3. /\ Grown(dag, dag') /\ n = Len(dag) + 1
      /\ Ancestors(dag', n) = {n} \cup UNION {Ancestors(dag, p) : p \in parents}
  BY <1>1, <1>2, Adds
<1>4. PICK tree \in {"git", "work"} : host' = [host EXCEPT !.tree = tree, !.refs[host.head] = n]
  BY DEF Commit
<1> HIDE DEF n
<1>5. /\ host'.tree = tree /\ host'.head = host.head /\ host'.loose = host.loose
      /\ host'.refs = [host.refs EXCEPT ![host.head] = n]
      /\ host' = [tree |-> tree, head |-> host.head, loose |-> host.loose, refs |-> host'.refs]
  BY <1>4 DEF HostInv
<1>6. n \in NoCommit .. n /\ \A c \in NoCommit .. Len(dag) : c \in NoCommit .. n
  BY <1>0, <1>3 DEF NoCommit
<1>7. host'.refs \in [Branches -> NoCommit .. n]
  BY <1>0, <1>5, <1>6
<1>8. host' \in [tree : Trees, head : Branches, refs : [Branches -> NoCommit .. n],
                 loose : SUBSET (0 .. n)]
  <2>1. host.loose \subseteq 0 .. n
    BY <1>0, <1>3 DEF HostInv
  <2> QED BY <1>0, <1>5, <1>7, <2>1 DEF Trees
<1>9. Holds(host) \subseteq host'.loose \cup History(dag', Heads(host'))
  <2>1. ASSUME NEW b \in Branches
        PROVE  Ancestors(dag, host.refs[b]) \subseteq History(dag', Heads(host'))
    <3>1. host.refs[b] \in NoCommit .. Len(dag) /\ host'.refs[b] \in Heads(host')
      BY <1>0 DEF Heads
    <3>2. CASE b = host.head
      <4>1. host'.refs[b] = n
        BY <1>0, <1>5, <3>2
      <4>2. tip # NoCommit => Ancestors(dag, tip) \subseteq Ancestors(dag', n)
        BY <1>3
      <4>3. Ancestors(dag, NoCommit) = {}
        BY <1>0, AncestorsOf, ReadIsOlder
      <4> QED BY <1>0, <3>1, <3>2, <4>1, <4>2, <4>3 DEF History
    <3>3. CASE b # host.head
      <4>1. host'.refs[b] = host.refs[b]
        BY <1>0, <1>5, <3>3
      <4>2. Ancestors(dag', host.refs[b]) = Ancestors(dag, host.refs[b])
        BY <1>3, <3>1, GrownKeeps
      <4> QED BY <3>1, <4>1, <4>2 DEF History
    <3> QED BY <3>2, <3>3
  <2> QED BY <1>5, <2>1 DEF Holds, Reachable, History
<1>10. Closed(dag', Holds(host)')
  <2>1. Heads(host') \subseteq NoCommit .. Len(dag')
    BY <1>7 DEF Heads, n
  <2>2. Closed(dag, Holds(host)) /\ host'.loose \subseteq Holds(host)
    BY <1>5 DEF HostInv, Holds
  <2>3. Closed(dag', host'.loose \cup History(dag', Heads(host')))
    BY <1>3, <1>9, <2>1, <2>2, HoldsStays
  <2>4. Holds(host)' = host'.loose \cup History(dag', Heads(host'))
    BY DEF Holds, Reachable, Heads
  <2> QED BY <2>3, <2>4
<1>11. late' \subseteq DOMAIN dag'
  <2>1. late' = late \cup {n} /\ DOMAIN dag = 1 .. Len(dag) /\ DOMAIN dag' = 1 .. n
    BY <1>3 DEF Commit, n, HostInv, Grown, HistoryRead
  <2> QED BY <1>0, <1>3, <2>1 DEF HostInv
<1>12. pc' \in Planning => "shell" \in DOMAIN plan' /\ plan'.shell \subseteq Variables
  BY DEF Commit, Tear, HostInv
<1>13. UNCHANGED <<pc, shell>> /\ IsRepo(host')
  BY <1>5 DEF Commit, IsRepo
<1> QED BY <1>3, <1>8, <1>10, <1>11, <1>12, <1>13 DEF HostInv, n, Grown

LEMMA AmendKeepsHost == ASSUME HostInv, Amend PROVE HostInv' /\ Grown(dag, dag')
<1> DEFINE n == Len(dag')
           tip == Tip(host)
           parents == dag[tip].parents
<1>0. /\ HistoryRead(dag) /\ Len(dag) \in Nat /\ host.head \in Branches
      /\ host.refs \in [Branches -> NoCommit .. Len(dag)]
      /\ tip = host.refs[host.head] /\ tip \in 1 .. Len(dag)
  BY DEF HostInv, HistoryRead, Tip, Amend, NoCommit
<1>1. PICK path \in Paths : AddCommit(parents, path)
  BY DEF Amend
<1>2. parents \in SUBSET (0 .. Len(dag))
  BY <1>0 DEF HistoryRead
<1>3. Grown(dag, dag') /\ n = Len(dag) + 1
  <2> HIDE DEF parents
  <2> QED BY <1>1, <1>2, Adds
<1> HIDE DEF n
<1> DEFINE refs == [host.refs EXCEPT ![host.head] = n]
           reached == UNION {Ancestors(dag', refs[b]) : b \in Branches}
           loose == host.loose \cup (Reachable(host) \ reached)
<1>4. PICK tree \in {"git", "work"} :
        host' = [host EXCEPT !.tree = tree, !.refs = refs, !.loose = loose]
  BY DEF Amend, n
<1> HIDE DEF reached
<1>5. /\ host'.tree = tree /\ host'.head = host.head /\ host'.loose = loose
      /\ host'.refs = refs
      /\ host' = [tree |-> tree, head |-> host.head, loose |-> loose, refs |-> refs]
  BY <1>4 DEF HostInv
<1>6. n \in NoCommit .. n /\ \A c \in NoCommit .. Len(dag) : c \in NoCommit .. n
  BY <1>0, <1>3 DEF NoCommit
<1>7. host'.refs \in [Branches -> NoCommit .. n]
  BY <1>0, <1>5, <1>6
<1>8. Closed(dag, Holds(host)) /\ loose \subseteq Holds(host)
  BY DEF HostInv, Holds
<1>9. host' \in [tree : Trees, head : Branches, refs : [Branches -> NoCommit .. n],
                 loose : SUBSET (0 .. n)]
  <2>1. loose \subseteq 0 .. Len(dag) /\ 0 .. Len(dag) \subseteq 0 .. n
    BY <1>0, <1>3, <1>8 DEF Closed
  <2> HIDE DEF refs, loose
  <2> QED BY <1>0, <1>5, <1>7, <2>1 DEF Trees
<1>10. Closed(dag', Holds(host)')
  <2>1. Heads(host') \subseteq NoCommit .. Len(dag')
    BY <1>7 DEF Heads, n
  <2>2. History(dag', Heads(host')) = reached
    BY <1>5 DEF History, Heads, reached
  <2>3. Holds(host) \subseteq loose \cup History(dag', Heads(host'))
    BY <2>2 DEF Holds
  <2> HIDE DEF loose
  <2>4. Closed(dag', loose \cup History(dag', Heads(host')))
    BY <1>3, <1>8, <2>1, <2>3, HoldsStays
  <2>5. Holds(host)' = loose \cup History(dag', Heads(host'))
    BY <1>5 DEF Holds, Reachable, Heads
  <2> QED BY <2>4, <2>5
<1>11. late' \subseteq DOMAIN dag'
  <2>1. late' = late \cup {n} /\ DOMAIN dag = 1 .. Len(dag) /\ DOMAIN dag' = 1 .. n
    BY <1>3 DEF Amend, n, HostInv, Grown, HistoryRead
  <2> QED BY <1>0, <1>3, <2>1 DEF HostInv
<1>12. pc' \in Planning => "shell" \in DOMAIN plan' /\ plan'.shell \subseteq Variables
  BY DEF Amend, Tear, HostInv
<1>13. UNCHANGED <<pc, shell>> /\ IsRepo(host')
  BY <1>5 DEF Amend, IsRepo
<1> QED BY <1>3, <1>9, <1>10, <1>11, <1>12, <1>13 DEF HostInv, n, Grown

(* The first commit of a repository that create makes takes the place of     *)
(* what was there, which stays without a name.                               *)
LEMMA UpdateRefKeepsHost == ASSUME HostInv, UpdateRef PROVE HostInv'
<1> DEFINE refs == [host.refs EXCEPT ![initialRepoBranch] = Initial]
           reached == History(dag, {refs[b] : b \in Branches})
           loose == host.loose \cup (Reachable(host) \ reached)
<1>0. HistoryRead(dag) /\ Len(dag) \in Nat /\ host.refs \in [Branches -> NoCommit .. Len(dag)]
  BY DEF HostInv, HistoryRead
<1>1. /\ host' = [host EXCEPT !.refs = refs, !.loose = loose]
      /\ UNCHANGED <<dag, late, shell, plan>> /\ pc = "update-ref" /\ pc' = "symbolic-ref"
  BY DEF UpdateRef
<1> HIDE DEF reached
<1>2. /\ host'.tree = host.tree /\ host'.head = host.head /\ host'.loose = loose
      /\ host'.refs = refs
      /\ host' = [tree |-> host.tree, head |-> host.head, loose |-> loose, refs |-> refs]
  BY <1>1 DEF HostInv
<1>3. host'.refs \in [Branches -> NoCommit .. Len(dag)]
  <2>1. Initial \in NoCommit .. Len(dag)
    BY <1>0 DEF Initial, NoCommit
  <2> QED BY <1>0, <1>2, <2>1
<1>4. Closed(dag, Holds(host)) /\ loose \subseteq Holds(host)
  BY DEF HostInv, Holds
<1>5. loose \subseteq 0 .. Len(dag)
  BY <1>4 DEF Closed
<1>6. Closed(dag', Holds(host)')
  <2>1. Heads(host') \subseteq NoCommit .. Len(dag)
    BY <1>3 DEF Heads
  <2>2. History(dag, Heads(host')) = reached
    BY <1>2 DEF Heads, reached
  <2>3. Holds(host) \subseteq loose \cup History(dag, Heads(host'))
    BY <2>2 DEF Holds
  <2> HIDE DEF loose
  <2>4. Grown(dag, dag)
    BY <1>0, GrownItself
  <2>5. Closed(dag, loose \cup History(dag, Heads(host')))
    BY <1>4, <2>1, <2>3, <2>4, HoldsStays
  <2>6. Holds(host)' = loose \cup History(dag, Heads(host'))
    BY <1>1, <1>2 DEF Holds, Reachable, Heads
  <2> QED BY <1>1, <2>5, <2>6
<1>7. IsRepo(host')
  BY <1>1, <1>2 DEF HostInv, IsRepo
<1> HIDE DEF refs, loose
<1> QED BY <1>1, <1>2, <1>3, <1>5, <1>6, <1>7 DEF HostInv, Planning

LEMMA PruneKeepsHost == ASSUME HostInv, Prune PROVE HostInv'
<1>0. HistoryRead(dag) /\ host.refs \in [Branches -> NoCommit .. Len(dag)]
  BY DEF HostInv
<1>1. host' = [host EXCEPT !.loose = {}] /\ UNCHANGED <<dag, late, shell, plan, pc>>
  BY DEF Prune
<1>2. /\ host'.tree = host.tree /\ host'.head = host.head /\ host'.loose = {}
      /\ host'.refs = host.refs
      /\ host' = [tree |-> host.tree, head |-> host.head, loose |-> {}, refs |-> host.refs]
  BY <1>1 DEF HostInv
<1>3. Closed(dag', Holds(host)')
  <2>1. Heads(host) \subseteq NoCommit .. Len(dag)
    BY <1>0 DEF Heads
  <2>2. Holds(host)' = History(dag, Heads(host))
    BY <1>1, <1>2 DEF Holds, Reachable, Heads
  <2> QED BY <1>0, <1>1, <2>1, <2>2, HistoryCloses
<1> QED BY <1>1, <1>2, <1>3 DEF HostInv, IsRepo

(* Another tree or another branch checked out changes nothing it holds. *)
LEMMA HostLooks ==
  ASSUME HostInv, NEW tree \in Trees, NEW head \in Branches,
         host' = [host EXCEPT !.tree = tree, !.head = head], UNCHANGED <<dag, late, shell, plan>>,
         IsRepo(host'), pc \in Planning
  PROVE  HostInv'
<1>1. /\ host'.loose = host.loose /\ host'.refs = host.refs
      /\ host' = [tree |-> tree, head |-> head, loose |-> host.loose, refs |-> host.refs]
  BY DEF HostInv
<1>2. Closed(dag', Holds(host)')
  BY <1>1 DEF HostInv, Holds, Reachable
<1> QED BY <1>1, <1>2 DEF HostInv

(* create leaves the host whole, and the history alone. *)
LEMMA CreateKeepsHost ==
  ASSUME HostInv, CredentialInv, Create
  PROVE  HostInv' /\ Grown(dag, dag')
<1> USE DEF Planning
<1>0. Grown(dag, dag)
  BY GrownItself DEF HostInv
<1>1. CASE CreateStart
  <2>1. UNCHANGED <<host, dag, late, shell>> /\ pc' = "resolve"
    BY <1>1 DEF CreateStart, repo
  <2>2. "shell" \in DOMAIN plan' /\ plan'.shell = shell
    BY <1>1 DEF CreateStart
  <2>3. HostInv'
    BY <2>1, <2>2 DEF HostInv, Holds, Reachable, IsRepo
  <2> QED BY <1>0, <2>1, <2>3
<1>2. ASSUME NEW s \in Seats(plan.profile), ResolveSeat(s) PROVE HostInv' /\ Grown(dag, dag')
  <2>1. UNCHANGED <<host, dag, late, shell, pc>> /\ pc = "resolve"
    BY <1>2 DEF ResolveSeat, repo
  <2>2. "shell" \in DOMAIN plan => "shell" \in DOMAIN plan' /\ plan'.shell = plan.shell
    BY <1>2 DEF ResolveSeat
  <2>3. HostInv'
    BY <2>1, <2>2 DEF HostInv, Holds, Reachable, IsRepo
  <2> QED BY <1>0, <2>1, <2>3
<1>3. CASE CreateChecks
  <2>1. UNCHANGED <<host, dag, shell, plan>> /\ late' = {} /\ pc = "resolve" /\ pc' = "initialize"
    BY <1>3 DEF CreateChecks
  <2>2. HostInv'
    BY <2>1 DEF HostInv, Holds, Reachable, IsRepo
  <2> QED BY <1>0, <2>1, <2>2
<1>4. CASE GitInit
  <2>1. /\ UNCHANGED <<dag, late, shell, plan>> /\ pc = "initialize" /\ pc' = "update-ref"
        /\ host' = IF IsRepo(host) THEN host
                   ELSE [host EXCEPT !.tree = "git", !.head = initialRepoBranch]
    BY <1>4 DEF GitInit
  <2>2. CASE IsRepo(host)
    BY <1>0, <2>1, <2>2 DEF HostInv, Holds, Reachable, IsRepo
  <2>3. CASE ~IsRepo(host)
    <3>1. host' = [host EXCEPT !.tree = "git", !.head = initialRepoBranch]
      BY <2>1, <2>3
    <3>2. host'.tree = "git"
      BY <3>1 DEF HostInv
    <3> QED BY <1>0, <2>1, <3>1, <3>2, HostLooks DEF Trees, Branches, initialRepoBranch, IsRepo
  <2> QED BY <2>2, <2>3
<1>5. CASE UpdateRef
  BY <1>0, <1>5, UpdateRefKeepsHost DEF UpdateRef
<1>6. CASE SymbolicRef
  <2>1. /\ UNCHANGED <<dag, late, shell, plan>> /\ pc = "symbolic-ref"
        /\ host' = [host EXCEPT !.head = initialRepoBranch]
    BY <1>6 DEF SymbolicRef
  <2>2. /\ host' = [host EXCEPT !.tree = host.tree, !.head = initialRepoBranch]
        /\ host.tree \in Trees /\ host'.tree = host.tree
    BY <2>1 DEF HostInv
  <2>3. IsRepo(host')
    BY <2>1, <2>2 DEF HostInv, IsRepo
  <2> QED BY <1>0, <2>1, <2>2, <2>3, HostLooks DEF Branches, initialRepoBranch
<1>7. CASE NoInit \/ Adopt
  <2>1. UNCHANGED <<host, dag, late, shell, plan>> /\ pc \in Planning /\ pc' \in {"adopt", "provision"}
    BY <1>7 DEF NoInit, Adopt, repo
  <2>2. HostInv'
    BY <2>1 DEF HostInv, Holds, Reachable, IsRepo
  <2> QED BY <1>0, <2>1, <2>2
<1>8. ASSUME NEW s \in Seats(record.campaign.profile), Provision(s)
      PROVE  HostInv' /\ Grown(dag, dag')
  <2>1. UNCHANGED <<host, dag, late, shell, plan, pc>>
    BY <1>8 DEF Provision, repo
  <2> QED BY <1>0, <2>1, HostApart
<1>9. CASE CreateDone \/ CreateEnds
  <2>1. UNCHANGED <<host, dag, late, shell>> /\ pc' \in {"running", "idle"}
    BY <1>9 DEF CreateDone, CreateEnds, repo
  <2>2. HostInv'
    BY <2>1 DEF HostInv, Holds, Reachable, IsRepo
  <2> QED BY <1>0, <2>1, <2>2
<1> QED BY <1>1, <1>2, <1>3, <1>4, <1>5, <1>6, <1>7, <1>8, <1>9 DEF Create

(* Nor do files that come and go, or a repository made by hand. *)
LEMMA EditKeepsHost ==
  ASSUME HostInv, ChangeFiles \/ InitByHand
  PROVE  /\ UNCHANGED <<dag, late, shell, record, team, pc, plan, start>>
         /\ host'.refs = host.refs /\ host'.loose = host.loose
         /\ IsRepo(host) => IsRepo(host') /\ host'.head = host.head
         /\ Holds(host)' = Holds(host) /\ Reachable(host)' = Reachable(host)
         /\ HostInv'
<1>1. PICK tree \in Trees, head \in Branches :
        /\ host' = [host EXCEPT !.tree = tree, !.head = head]
        /\ IsRepo(host) => tree \in {"git", "work"} /\ head = host.head
  <2>1. CASE ChangeFiles
    <3>1. PICK tree \in Trees :
            /\ host' = [host EXCEPT !.tree = tree]
            /\ IsRepo(host) => tree \in {"git", "work"}
      BY <2>1 DEF ChangeFiles, Trees
    <3>2. host' = [host EXCEPT !.tree = tree, !.head = host.head] /\ host.head \in Branches
      BY <3>1 DEF HostInv
    <3> QED BY <3>1, <3>2
  <2>2. CASE InitByHand
    <3>1. ~IsRepo(host)
      BY <2>2 DEF InitByHand
    <3>2. PICK head \in Branches :
            host' = [host EXCEPT !.head = head, !.tree = IF @ = "files" THEN "work" ELSE "git"]
      BY <2>2 DEF InitByHand
    <3>3. \E tree \in Trees : host' = [host EXCEPT !.tree = tree, !.head = head]
      BY <3>2 DEF Trees, HostInv
    <3> QED BY <3>1, <3>3
  <2> QED BY <2>1, <2>2
<1>2. UNCHANGED <<dag, late, shell, record, team, pc, plan>> /\ start' = start
  BY DEF ChangeFiles, InitByHand
<1>3. /\ host'.loose = host.loose /\ host'.refs = host.refs
      /\ host' = [tree |-> tree, head |-> head, loose |-> host.loose, refs |-> host.refs]
  BY <1>1 DEF HostInv
<1>4. IsRepo(host) => IsRepo(host') /\ host'.head = host.head
  BY <1>1, <1>3 DEF IsRepo
<1>5. Holds(host)' = Holds(host) /\ Reachable(host)' = Reachable(host)
  BY <1>2, <1>3 DEF Holds, Reachable
<1>6. HostInv'
  BY <1>1, <1>2, <1>3, <1>4, <1>5 DEF HostInv
<1> QED BY <1>2, <1>3, <1>4, <1>5, <1>6

LEMMA OperatorKeepsHost ==
  ASSUME HostInv, Operator
  PROVE  HostInv' /\ Grown(dag, dag')
<1>0. Grown(dag, dag)
  BY GrownItself DEF HostInv
<1>1. CASE SetVariable
  <2>1. UNCHANGED <<host, dag, late, pc, plan>> /\ shell' \subseteq Variables
    BY <1>1 DEF SetVariable, HostInv, repo
  <2>2. HostInv'
    BY <2>1 DEF HostInv, Holds, Reachable, IsRepo
  <2> QED BY <1>0, <2>1, <2>2
<1>2. CASE EditProfile
  <2>1. UNCHANGED <<host, dag, late, shell, pc, plan>>
    BY <1>2 DEF EditProfile, repo
  <2> QED BY <1>0, <2>1, HostApart
<1>3. CASE Prune
  BY <1>0, <1>3, PruneKeepsHost DEF Prune
<1>4. CASE ChangeFiles \/ InitByHand
  BY <1>0, <1>4, EditKeepsHost
<1> QED BY <1>1, <1>2, <1>3, <1>4, CommitKeepsHost, AmendKeepsHost DEF Operator

-----------------------------------------------------------------------------
(* The invariant of the team: every machine's clone is whole and has what    *)
(* its refs name, and a push under way would bring its member nothing that   *)
(* is withheld from it.                                                      *)
MachineWhole(d, m) ==
  /\ {"base", "head", "store", "origin", "orchestrator"} \subseteq DOMAIN m
  /\ Closed(d, m.store) /\ m.base \in m.store
  /\ m.head \in m.store /\ (m.head = m.base \/ m.head > 0)
  /\ (m.origin \cup {m.orchestrator}) \ {NoCommit} \subseteq m.store
PushInv ==
  push # Nothing =>
    /\ pc = "running" /\ push.to \in DOMAIN machines /\ push.commit \in Orchestrator.store
    /\ Withheld(dag, Declared(push.to),
                Ancestors(dag, push.commit) \ machines[push.to].store) = {}
TeamInv ==
  /\ pc \in Planning => "orchestrator" \in Seats(plan.profile)
  /\ record # Nothing => "orchestrator" \in Seats(record.campaign.profile)
  /\ pc = "running" => record # Nothing /\ DOMAIN machines = Seats(record.campaign.profile)
  /\ DOMAIN fetched = DOMAIN machines
  /\ \A s \in DOMAIN machines : MachineWhole(dag, machines[s])
  /\ PushInv

LEMMA InitTeam == Init => TeamInv
<1> SUFFICES ASSUME Init PROVE TeamInv
  OBVIOUS
<1>1. DOMAIN machines = {} /\ DOMAIN fetched = {}
  BY DEF Init
<1> QED BY <1>1 DEF Init, TeamInv, PushInv, Planning

(* It holds of a history that grows. *)
LEMMA WholeGrows ==
  ASSUME NEW d, NEW e, Grown(d, e), NEW m, MachineWhole(d, m)
  PROVE  MachineWhole(e, m)
BY GrownKeeps DEF MachineWhole

LEMMA PushStays ==
  ASSUME HostInv, TeamInv, Grown(dag, dag'), UNCHANGED <<record, push, pc>>,
         DOMAIN machines' = DOMAIN machines,
         \A s \in DOMAIN machines : machines[s].store \subseteq machines'[s].store
  PROVE  PushInv'
<1> SUFFICES ASSUME push # Nothing PROVE PushInv'
  BY DEF PushInv
<1> DEFINE to == push.to
           c == push.commit
<1>0. pc = "running" /\ to \in DOMAIN machines /\ c \in Orchestrator.store
  BY DEF TeamInv, PushInv
<1>1. "orchestrator" \in DOMAIN machines
  BY <1>0 DEF TeamInv
<1>2. Closed(dag, Orchestrator.store)
  BY <1>1 DEF TeamInv, MachineWhole, Orchestrator
<1>3. c \in 0 .. Len(dag)
  BY <1>0, <1>2 DEF Closed
<1>4. Len(dag) \in Nat /\ c \in NoCommit .. Len(dag) /\ Older(dag)
  <2>1. Len(dag) \in Nat /\ Older(dag)
    BY ReadIsOlder DEF HostInv, Older
  <2> HIDE DEF c
  <2> QED BY <1>3, <2>1 DEF NoCommit
<1>5. Ancestors(dag, c) \subseteq 0 .. Len(dag)
  <2>1. Ancestors(dag, c) \subseteq 0 .. c
    BY <1>4, AncestorsOlder
  <2> QED BY <1>3, <1>4, <2>1
<1>6. Ancestors(dag', c) = Ancestors(dag, c)
  BY <1>4, GrownKeeps
<1> DEFINE news == Ancestors(dag, c) \ machines[to].store
           rest == Ancestors(dag, c) \ machines'[to].store
<1>7. Withheld(dag, Declared(to), news) = {}
  BY DEF TeamInv, PushInv
<1>8. Withheld(dag', Declared(to), news) = Withheld(dag, Declared(to), news)
  BY <1>5, GrownKeeps
<1>9. rest \subseteq news
  BY <1>0
<1>10. Withheld(dag', Declared(to), rest) = {}
  <2> HIDE DEF rest, news
  <2> QED BY <1>7, <1>8, <1>9 DEF Withheld
<1>11. c \in machines'["orchestrator"].store
  BY <1>0, <1>1 DEF Orchestrator
<1>12. Declared(to)' = Declared(to)
  BY DEF Declared
<1> QED BY <1>0, <1>6, <1>10, <1>11, <1>12 DEF PushInv, Orchestrator, Declared

(* What is left of the invariant when no machine is made and the record and  *)
(* the command stand.                                                        *)
LEMMA TeamStays ==
  ASSUME HostInv, TeamInv, Grown(dag, dag'), UNCHANGED <<record, push, pc, plan>>,
         DOMAIN fetched' = DOMAIN machines, DOMAIN machines' = DOMAIN machines,
         \A s \in DOMAIN machines :
           machines[s].store \subseteq machines'[s].store /\ MachineWhole(dag', machines'[s])
  PROVE  TeamInv'
BY PushStays DEF TeamInv

LEMMA WorkKeeps ==
  ASSUME HostInv, TeamInv, NEW s \in DOMAIN machines, Work(s)
  PROVE  HostInv' /\ TeamInv' /\ Grown(dag, dag')
<1> DEFINE m == machines[s]
           n == Len(dag')
<1>0. Len(dag) \in Nat /\ Older(dag) /\ HistoryRead(dag)
  BY ReadIsOlder DEF HostInv, HistoryRead
<1>1. /\ MachineWhole(dag, m) /\ m.head \in 0 .. Len(dag)
      /\ Ancestors(dag, m.head) \subseteq m.store /\ m.store \subseteq 0 .. Len(dag)
  BY DEF TeamInv, MachineWhole, Closed
<1>2. PICK path \in Paths, parents \in SUBSET m.store : AddCommit(parents, path)
  <2>1. PICK path \in Paths :
          \/ AddCommit({m.head}, path)
          \/ m.head # m.base /\ AddCommit(dag[m.head].parents, path)
    BY DEF Work
  <2>2. {m.head} \subseteq m.store
    BY <1>1 DEF MachineWhole
  <2>3. ASSUME m.head # m.base PROVE dag[m.head].parents \subseteq m.store
    <3>1. m.head \in 1 .. Len(dag)
      BY <1>0, <1>1, <2>3 DEF MachineWhole
    <3>2. Ancestors(dag, m.head) = {m.head} \cup Beneath(dag, m.head)
      BY <1>0, <3>1, AncestorsOf
    <3>3. ASSUME NEW p \in dag[m.head].parents PROVE p \in m.store
      <4>1. p \in 0 .. Len(dag) /\ p \in NoCommit .. Len(dag) /\ p # NoCommit
        <5>1. p \in 0 .. m.head - 1
          BY <1>0, <3>1 DEF Older
        <5> QED BY <1>0, <3>1, <5>1 DEF NoCommit
      <4>2. p \in Ancestors(dag, p)
        BY <1>0, <4>1, AncestorsOlder
      <4> QED BY <1>1, <3>2, <4>2 DEF Beneath
    <3> QED BY <3>3
  <2> QED BY <2>1, <2>2, <2>3
<1>3. /\ Grown(dag, dag') /\ n = Len(dag) + 1
      /\ Closed(dag', m.store \cup {n})
  BY <1>1, <1>2, Adds DEF MachineWhole
<1>4. machines' = [machines EXCEPT ![s].head = n, ![s].store = @ \cup {n}]
  BY DEF Work
<1> HIDE DEF n
<1>5. /\ DOMAIN machines' = DOMAIN machines
      /\ \A t \in DOMAIN machines : t # s => machines'[t] = machines[t]
      /\ machines'[s] = [m EXCEPT !.head = n, !.store = m.store \cup {n}]
  BY <1>1, <1>4 DEF MachineWhole
<1> HIDE DEF m
<1>6. /\ DOMAIN machines'[s] = DOMAIN m /\ machines'[s].head = n
      /\ machines'[s].store = m.store \cup {n} /\ machines'[s].base = m.base
      /\ machines'[s].origin = m.origin /\ machines'[s].orchestrator = m.orchestrator
  BY <1>1, <1>5 DEF MachineWhole
<1>7. MachineWhole(dag', machines'[s])
  BY <1>0, <1>1, <1>3, <1>6 DEF MachineWhole
<1>8. ASSUME NEW t \in DOMAIN machines
      PROVE  machines[t].store \subseteq machines'[t].store /\ MachineWhole(dag', machines'[t])
  <2>1. CASE t = s
    BY <1>6, <1>7, <2>1 DEF m
  <2>2. CASE t # s
    BY <1>3, <1>5, <2>2, WholeGrows DEF TeamInv
  <2> QED BY <2>1, <2>2
<1>9. UNCHANGED <<host, late, shell, record, fetched, push, pc, plan>>
  BY DEF Work
<1>10. TeamInv'
  BY <1>3, <1>5, <1>8, <1>9, TeamStays DEF TeamInv
<1> QED BY <1>3, <1>9, <1>10, HostApart

(* A fetch brings the orchestrator's clone a branch with all it stands on. *)
LEMMA FetchKeeps ==
  ASSUME HostInv, TeamInv, NEW a \in DOMAIN machines, Fetch(a)
  PROVE  HostInv' /\ TeamInv' /\ Grown(dag, dag')
<1> DEFINE o == "orchestrator"
           c == machines[a].head
           was == machines[o]
           has == [was EXCEPT !.store = @ \cup Ancestors(dag, c)]
           Take(head) == [has EXCEPT !.head = head, !.store = @ \cup {head}]
<1>0. /\ Len(dag) \in Nat /\ Older(dag) /\ HistoryRead(dag) /\ Grown(dag, dag)
      /\ o \in DOMAIN machines /\ pc = "running"
  <2>1. HistoryRead(dag) /\ Len(dag) \in Nat
    BY DEF HostInv, HistoryRead
  <2>2. pc = "running"
    BY DEF Fetch
  <2>3. o \in DOMAIN machines
    BY <2>2 DEF TeamInv
  <2> QED BY <2>1, <2>2, <2>3, ReadIsOlder, GrownItself
<1>1. MachineWhole(dag, was) /\ MachineWhole(dag, machines[a])
  BY <1>0 DEF TeamInv
<1>2. c \in 0 .. Len(dag) /\ c \in NoCommit .. Len(dag) /\ c # NoCommit
  <2>1. c \in 0 .. Len(dag)
    BY <1>1 DEF MachineWhole, Closed
  <2> QED BY <1>0, <2>1 DEF NoCommit
<1>3. /\ DOMAIN has = DOMAIN was /\ has.store = was.store \cup Ancestors(dag, c)
      /\ has.base = was.base /\ has.head = was.head /\ has.origin = was.origin
      /\ has.orchestrator = was.orchestrator
  BY <1>1 DEF MachineWhole
<1>4. Closed(dag, has.store) /\ c \in has.store
  <2>1. /\ Ancestors(dag, c) \subseteq 0 .. c /\ c \in Ancestors(dag, c)
        /\ \A b \in Ancestors(dag, c) : Ancestors(dag, b) \subseteq Ancestors(dag, c)
    BY <1>0, <1>2, AncestorsOlder
  <2>2. 0 .. c \subseteq 0 .. Len(dag)
    BY <1>0, <1>2
  <2>3. Closed(dag, was.store)
    BY <1>1 DEF MachineWhole
  <2> HIDE DEF c, was, has
  <2> QED BY <1>3, <2>1, <2>2, <2>3 DEF Closed
<1>5. MachineWhole(dag, has)
  <2> HIDE DEF has, c
  <2> QED BY <1>1, <1>3, <1>4 DEF MachineWhole
<1> DEFINE Fine(d, m) == MachineWhole(d, m) /\ was.store \subseteq m.store
<1>6. ASSUME NEW d, Grown(dag, d), NEW head \in Nat, head > 0,
             Closed(d, has.store \cup {head})
      PROVE  Fine(d, Take(head))
  <2>1. /\ DOMAIN Take(head) = DOMAIN has /\ Take(head).store = has.store \cup {head}
        /\ Take(head).base = has.base /\ Take(head).head = head
        /\ Take(head).origin = has.origin /\ Take(head).orchestrator = has.orchestrator
    BY <1>1, <1>3 DEF MachineWhole
  <2> HIDE DEF Take, has, c, was
  <2> QED BY <1>3, <1>5, <1>6, <2>1 DEF MachineWhole
<1> HIDE DEF Take, has
<1>7. \E m : Fine(dag', m) /\ machines' = [machines EXCEPT ![o] = m] /\ Grown(dag, dag')
  <2>1. CASE dag' = dag /\ machines' = [machines EXCEPT ![o] = has]
    BY <1>0, <1>3, <1>5, <2>1
  <2>2. CASE /\ was.head \in Ancestors(dag, c) \ {c}
             /\ dag' = dag /\ machines' = [machines EXCEPT ![o] = Take(c)]
    <3>1. was.head \in 0 .. c /\ was.head # c
      <4>1. Ancestors(dag, c) \subseteq 0 .. c
        BY <1>0, <1>2, AncestorsOlder
      <4> QED BY <2>2, <4>1
    <3>2. c \in Nat /\ c > 0
      BY <1>0, <1>2, <3>1
    <3>3. has.store \cup {c} = has.store
      BY <1>4
    <3>4. Fine(dag, Take(c))
      <4> HIDE DEF Fine, c
      <4> QED BY <1>0, <1>4, <1>6, <3>2, <3>3
    <3> QED BY <1>0, <2>2, <3>4
  <2>3. CASE /\ AddCommit({was.head, c}, <<>>)
             /\ machines' = [machines EXCEPT ![o] = Take(Len(dag'))]
    <3>1. was.head \in has.store /\ {was.head, c} \in SUBSET (0 .. Len(dag))
      BY <1>1, <1>2, <1>3 DEF MachineWhole, Closed
    <3>2. /\ Grown(dag, dag') /\ Len(dag') = Len(dag) + 1
          /\ Closed(dag', has.store \cup {Len(dag')})
      <4>1. dag' = Append(dag, [parents |-> {was.head, c}, adds |-> <<>>])
        BY <2>3 DEF AddCommit
      <4>2. <<>> \in Seq(STRING)
        OBVIOUS
      <4>3. {was.head, c} \subseteq has.store
        BY <1>4, <3>1
      <4> HIDE DEF c, was
      <4> QED BY <1>0, <1>4, <3>1, <4>1, <4>2, <4>3, CommitGrows
    <3>3. Fine(dag', Take(Len(dag')))
      <4>1. Len(dag') \in Nat /\ Len(dag') > 0
        BY <1>0, <3>2
      <4> HIDE DEF Fine
      <4> QED BY <1>6, <3>2, <4>1
    <3> QED BY <2>3, <3>2, <3>3
  <2>4. IF start.buildStore THEN Merge(c, has)
        ELSE dag' = dag /\ machines' = [machines EXCEPT ![o] = has]
    BY DEF Fetch, Orchestrator, has
  <2>5. Merge(c, has) => \/ dag' = dag /\ machines' = [machines EXCEPT ![o] = has]
                         \/ /\ was.head \in Ancestors(dag, c) \ {c}
                            /\ dag' = dag /\ machines' = [machines EXCEPT ![o] = Take(c)]
                         \/ /\ AddCommit({was.head, c}, <<>>)
                            /\ machines' = [machines EXCEPT ![o] = Take(Len(dag'))]
    BY <1>3 DEF Merge, Take
  <2> QED BY <2>1, <2>2, <2>3, <2>4, <2>5
<1>8. PICK m : Fine(dag', m) /\ machines' = [machines EXCEPT ![o] = m] /\ Grown(dag, dag')
  BY <1>7
<1>9. ASSUME NEW t \in DOMAIN machines
      PROVE  machines[t].store \subseteq machines'[t].store /\ MachineWhole(dag', machines'[t])
  <2>1. CASE t = o
    BY <1>8, <2>1
  <2>2. CASE t # o
    BY <1>8, <2>2, WholeGrows DEF TeamInv
  <2> QED BY <2>1, <2>2
<1>10. UNCHANGED <<host, late, shell, record, push, pc, plan>>
  BY DEF Fetch
<1>11. DOMAIN fetched' = DOMAIN machines /\ DOMAIN machines' = DOMAIN machines
  BY <1>8 DEF Fetch, TeamInv
<1>12. TeamInv'
  BY <1>8, <1>9, <1>10, <1>11, TeamStays
<1> QED BY <1>8, <1>10, <1>12, HostApart

(* A push that starts has been judged by what its member is known to have,   *)
(* which is less than what it has.                                           *)
LEMMA PushStartKeeps ==
  ASSUME HostInv, TeamInv, NEW a \in DOMAIN machines, PushStart(a)
  PROVE  TeamInv'
<1> DEFINE m == machines[a]
<1>1. PICK c \in Orchestrator.store :
        /\ Declared(a) # {} => Withheld(dag, Declared(a), Newly(c, HeldByMember(a))) = {}
        /\ push' = [to |-> a, commit |-> c]
  BY DEF PushStart
<1>2. UNCHANGED <<dag, record, machines, fetched, pc, plan>> /\ pc = "running"
  BY DEF PushStart, repo
<1>3. MachineWhole(dag, m)
  BY DEF TeamInv
<1>4. History(dag, HeldByMember(a)) \subseteq m.store
  <2>1. Closed(dag, m.store) /\ Refs(m) \subseteq m.store
    BY <1>3 DEF MachineWhole, Refs
  <2>2. HeldByMember(a) \subseteq m.store
    BY <2>1 DEF HeldByMember
  <2> HIDE DEF m
  <2>3. HeldByMember(a) \subseteq NoCommit .. Len(dag)
    <3>1. \A b \in m.store : b \in 0 .. Len(dag)
      BY <2>1 DEF Closed
    <3>2. Len(dag) \in Nat
      BY DEF HostInv, HistoryRead
    <3> QED BY <2>2, <3>1, <3>2 DEF NoCommit
  <2>4. HistoryRead(dag)
    BY DEF HostInv
  <2> QED BY <2>1, <2>2, <2>3, <2>4, HistoryCloses
<1>5. Withheld(dag, Declared(a), Ancestors(dag, c) \ m.store) = {}
  <2>1. CASE Declared(a) = {}
    BY <2>1 DEF Withheld, Hit
  <2>2. CASE Declared(a) # {}
    <3>1. Ancestors(dag, c) \ m.store \subseteq Newly(c, HeldByMember(a))
      BY <1>4 DEF Newly
    <3> HIDE DEF m
    <3> QED BY <1>1, <2>2, <3>1 DEF Withheld
  <2> QED BY <2>1, <2>2
<1>6. push'.to = a /\ push'.commit = c
  BY <1>1
<1>7. PushInv'
  BY <1>2, <1>5, <1>6 DEF PushInv, Orchestrator, Declared
<1> QED BY <1>2, <1>7 DEF TeamInv

(* What the push brings its member. *)
LEMMA PushBrings ==
  ASSUME HostInv, TeamInv, PushSend
  PROVE  /\ DOMAIN machines' = DOMAIN machines
         /\ \A s \in DOMAIN machines : MachineWhole(dag, machines'[s])
         /\ \A s \in DOMAIN machines \ {push.to} : machines'[s] = machines[s]
         /\ machines[push.to].store \subseteq machines'[push.to].store
         /\ machines'[push.to].store
              \subseteq machines[push.to].store \cup Ancestors(dag, push.commit)
<1> DEFINE a == push.to
           c == push.commit
           m == machines[a]
           sent == [m EXCEPT !.orchestrator = c, !.store = @ \cup Ancestors(dag, c)]
<1>1. a \in DOMAIN machines /\ c \in Orchestrator.store /\ pc = "running"
  BY DEF TeamInv, PushInv, PushSend
<1>2. MachineWhole(dag, m) /\ \A s \in DOMAIN machines : MachineWhole(dag, machines[s])
  BY <1>1 DEF TeamInv
<1>3. machines' = machines \/ machines' = [machines EXCEPT ![a] = sent]
  <2>1. machines' = machines \/ machines' = [machines EXCEPT ![a].orchestrator = c,
                                               ![a].store = @ \cup Ancestors(dag, c)]
    BY DEF PushSend
  <2> QED BY <1>1, <1>2, <2>1 DEF MachineWhole
<1>4. Len(dag) \in Nat /\ Older(dag)
  BY ReadIsOlder DEF HostInv, Older
<1>5. c \in 0 .. Len(dag)
  <2>1. "orchestrator" \in DOMAIN machines
    BY <1>1 DEF TeamInv
  <2>2. Closed(dag, Orchestrator.store)
    BY <2>1 DEF TeamInv, MachineWhole, Orchestrator
  <2> HIDE DEF c
  <2> QED BY <1>1, <2>2 DEF Closed
<1> HIDE DEF c
<1>6. c \in NoCommit .. Len(dag) /\ c # NoCommit /\ 0 .. c \subseteq 0 .. Len(dag)
  BY <1>4, <1>5 DEF NoCommit
<1>7. /\ Ancestors(dag, c) \subseteq 0 .. Len(dag) /\ c \in Ancestors(dag, c)
      /\ \A b \in Ancestors(dag, c) : Ancestors(dag, b) \subseteq Ancestors(dag, c)
  BY <1>4, <1>6, AncestorsOlder
<1> HIDE DEF m
<1>8. /\ DOMAIN sent = DOMAIN m /\ sent.store = m.store \cup Ancestors(dag, c)
      /\ sent.base = m.base /\ sent.head = m.head /\ sent.origin = m.origin
      /\ sent.orchestrator = c
  BY <1>2 DEF MachineWhole
<1> HIDE DEF sent
<1>9. MachineWhole(dag, sent)
  BY <1>2, <1>7, <1>8 DEF MachineWhole, Closed
<1> QED BY <1>1, <1>2, <1>3, <1>8, <1>9 DEF m, c

LEMMA TeamStepKeeps == ASSUME HostInv, TeamInv, Team PROVE HostInv' /\ TeamInv' /\ Grown(dag, dag')
<1>0. Grown(dag, dag)
  BY GrownItself DEF HostInv
<1>1. ASSUME NEW s \in DOMAIN machines, PushStart(s) PROVE HostInv' /\ TeamInv' /\ Grown(dag, dag')
  <2>1. UNCHANGED <<host, dag, late, shell, pc, plan>>
    BY <1>1 DEF PushStart, repo
  <2> QED BY <1>0, <1>1, <2>1, HostApart, PushStartKeeps
<1>2. CASE PushSend
  <2>1. UNCHANGED <<host, dag, late, shell, pc, plan, record, fetched>> /\ push' = Nothing
    BY <1>2 DEF PushSend, repo
  <2>2. TeamInv'
    BY <1>2, <2>1, PushBrings DEF TeamInv, PushInv
  <2> QED BY <1>0, <2>1, <2>2, HostApart
<1>3. CASE PushEnds
  <2>1. /\ UNCHANGED <<host, dag, late, shell, pc, plan, record, fetched, machines>>
        /\ push' = Nothing
    BY <1>3 DEF PushEnds, repo
  <2>2. TeamInv'
    BY <2>1 DEF TeamInv, PushInv
  <2> QED BY <1>0, <2>1, <2>2, HostApart
<1> QED BY <1>1, <1>2, <1>3, WorkKeeps, FetchKeeps DEF Team

LEMMA PlannedHasOrchestrator ==
  ASSUME CredentialInv, PlanJudges
  PROVE  "orchestrator" \in Seats(Planned)
<1> DEFINE p == ApplySets(start.profile, CredentialSet(start.opts))
<1>1. ProfileRead(p)
  BY SetsRead DEF CredentialInv
<1>2. "orchestrator" \in Seats(p)
  BY DEF PlanJudges, ApplySetsOK, ValidProfile
<1>3. Planned = ApplyDefaults(p)
  BY DEF Planned
<1> HIDE DEF p
<1> QED BY <1>1, <1>2, <1>3, DefaultsSeat

(* The invariant where nobody pushes and no machine is made. *)
LEMMA TeamAside ==
  ASSUME HostInv, TeamInv, Grown(dag, dag'), UNCHANGED <<record, machines, fetched, push>>,
         pc # "running", pc' # "running",
         pc' \in Planning => "orchestrator" \in Seats(plan'.profile)
  PROVE  TeamInv'
<1>1. push = Nothing
  BY DEF TeamInv, PushInv
<1>2. \A s \in DOMAIN machines : MachineWhole(dag', machines[s])
  BY WholeGrows DEF TeamInv
<1> QED BY <1>1, <1>2 DEF TeamInv, PushInv

(* A clone of a whole repository is whole. *)
LEMMA CloneWhole ==
  ASSUME HostInv, NEW s, record.campaign.seats[s].commit \in Holds(host)
  PROVE  MachineWhole(dag, CreateArgs(s))
<1> DEFINE m == CreateArgs(s)
           commit == record.campaign.seats[s].commit
<1>1. /\ {"base", "head", "store", "origin", "orchestrator"} \subseteq DOMAIN m
      /\ m.base = commit /\ m.head = commit /\ m.store = Holds(host)
      /\ m.origin = Heads(host) /\ m.orchestrator = NoCommit
  BY DEF CreateArgs, Heads
<1>2. Heads(host) \subseteq NoCommit .. Len(dag) /\ HistoryRead(dag) /\ Closed(dag, Holds(host))
  BY DEF HostInv, Heads
<1>3. Heads(host) \ {NoCommit} \subseteq Holds(host)
  <2>1. Heads(host) \ {NoCommit} \subseteq History(dag, Heads(host))
    BY <1>2, HistoryCloses
  <2> QED BY <2>1 DEF Holds, Reachable, Heads
<1> HIDE DEF m
<1>4. m.base \in m.store /\ m.head = m.base
  BY <1>1
<1>5. (m.origin \cup {m.orchestrator}) \ {NoCommit} \subseteq m.store
  BY <1>1, <1>3
<1>6. Closed(dag, m.store)
  BY <1>1, <1>2
<1>7. {"base", "head", "store", "origin", "orchestrator"} \subseteq DOMAIN m
  BY <1>1
<1>8. MachineWhole(dag, m)
  BY <1>4, <1>5, <1>6, <1>7 DEF MachineWhole
<1> QED BY <1>8 DEF m

LEMMA CreateKeepsTeam ==
  ASSUME HostInv, CredentialInv, TeamInv, Create
  PROVE  TeamInv'
<1> USE DEF Planning
<1>0. Grown(dag, dag') /\ Grown(dag, dag)
  BY CreateKeepsHost, GrownItself DEF HostInv
<1>1. CASE CreateStart
  <2>1. /\ UNCHANGED <<record, machines, fetched, push>> /\ pc = "idle" /\ pc' = "resolve"
        /\ plan'.profile = Planned /\ PlanJudges
    BY <1>1 DEF CreateStart, team
  <2> QED BY <1>0, <2>1, PlannedHasOrchestrator, TeamAside
<1>2. ASSUME NEW s \in Seats(plan.profile), ResolveSeat(s) PROVE TeamInv'
  <2>1. /\ UNCHANGED <<record, machines, fetched, push, pc>> /\ pc = "resolve"
        /\ plan'.profile = plan.profile
    BY <1>2 DEF ResolveSeat, team, CredentialInv
  <2>2. "orchestrator" \in Seats(plan'.profile)
    BY <2>1 DEF TeamInv
  <2> QED BY <1>0, <2>1, <2>2, TeamAside
<1>3. CASE CreateChecks \/ GitInit \/ UpdateRef \/ SymbolicRef \/ NoInit
  <2>1. /\ UNCHANGED <<record, machines, fetched, push, plan>> /\ pc \in Planning /\ pc' # "running"
        /\ pc # "running"
    BY <1>3 DEF CreateChecks, GitInit, UpdateRef, SymbolicRef, NoInit, team
  <2>2. "orchestrator" \in Seats(plan'.profile)
    BY <2>1 DEF TeamInv
  <2> QED BY <1>0, <2>1, <2>2, TeamAside
<1>4. CASE Adopt
  <2>1. /\ UNCHANGED <<dag, machines, fetched, push, plan>> /\ pc = "adopt" /\ pc' = "provision"
    BY <1>4 DEF Adopt, team, repo
  <2>2. record' = record \/ record'.campaign.profile = plan.profile
    BY <1>4 DEF Adopt, BuildCampaign
  <2>3. push = Nothing
    BY <2>1 DEF TeamInv, PushInv
  <2>4. "orchestrator" \in Seats(plan.profile)
    BY <2>1 DEF TeamInv
  <2>5. record' # Nothing => "orchestrator" \in Seats(record'.campaign.profile)
    BY <2>2, <2>4 DEF TeamInv
  <2>6. PushInv'
    BY <2>1, <2>3 DEF PushInv
  <2> QED BY <2>1, <2>4, <2>5, <2>6 DEF TeamInv
<1>5. ASSUME NEW s \in Seats(record.campaign.profile), Provision(s) PROVE TeamInv'
  <2>1. /\ UNCHANGED <<dag, record, push, plan, pc>> /\ pc = "provision"
        /\ DOMAIN machines' = DOMAIN machines \cup {s}
        /\ DOMAIN fetched' = DOMAIN fetched \cup {s}
        /\ \A t \in DOMAIN machines : t # s => machines'[t] = machines[t]
        /\ machines'[s] = CreateArgs(s)
        /\ record.campaign.seats[s].commit \in Holds(host)
    BY <1>5 DEF Provision, repo
  <2>2. MachineWhole(dag, machines'[s])
    BY <2>1, CloneWhole
  <2>3. push = Nothing
    BY <2>1 DEF TeamInv, PushInv
  <2>4. \A t \in DOMAIN machines' : MachineWhole(dag', machines'[t])
    BY <2>1, <2>2 DEF TeamInv
  <2> QED BY <2>1, <2>3, <2>4 DEF TeamInv, PushInv
<1>6. CASE CreateDone
  <2>1. /\ UNCHANGED <<dag, record, push, machines, fetched>> /\ pc = "provision" /\ pc' = "running"
        /\ DOMAIN machines = Seats(record.campaign.profile)
    BY <1>6 DEF CreateDone, repo, team
  <2>2. push = Nothing /\ record # Nothing
    BY <2>1 DEF TeamInv, PushInv, CredentialInv
  <2> QED BY <2>1, <2>2 DEF TeamInv, PushInv
<1>7. CASE CreateEnds
  <2>1. UNCHANGED <<record, machines, fetched, push>> /\ pc # "running" /\ pc' = "idle"
    BY <1>7 DEF CreateEnds, team
  <2> QED BY <1>0, <2>1, TeamAside
<1> QED BY <1>1, <1>2, <1>3, <1>4, <1>5, <1>6, <1>7 DEF Create

LEMMA OperatorKeepsTeam ==
  ASSUME HostInv, CredentialInv, TeamInv, Operator
  PROVE  TeamInv'
<1>1. Grown(dag, dag')
  BY OperatorKeepsHost
<1>2. /\ UNCHANGED <<record, machines, fetched, push, pc>> /\ pc # "running"
      /\ plan' = plan \/ (plan' = [plan EXCEPT !.torn = TRUE] /\ pc = "resolve")
  BY DEF Operator, Commit, Amend, ChangeFiles, InitByHand, Prune,
         SetVariable, EditProfile, team, Tear
<1>3. pc \in Planning => plan'.profile = plan.profile
  BY <1>2 DEF CredentialInv
<1> QED BY <1>1, <1>2, <1>3, TeamAside DEF TeamInv

-----------------------------------------------------------------------------
(* What is granted is of a known kind: a variable the shell had, a provider's *)
(* key or a CLI's login.                                                     *)
KnownGrants(p) ==
  \A s \in Seats(p) :
    APIKeys(p.seats[s].auth) \subseteq Providers /\ AgentLogins(p.seats[s].auth) \subseteq CLIs
GrantInv ==
  /\ pc \in Planning => KnownGrants(plan.profile)
  /\ record # Nothing => KnownGrants(record.campaign.profile)
  /\ \A s \in DOMAIN machines : "grants" \in DOMAIN machines[s] /\ machines[s].grants \subseteq Grants

LEMMA PlannedKnown == ASSUME CredentialInv, PlanJudges PROVE KnownGrants(Planned)
<1> DEFINE p == ApplySets(start.profile, CredentialSet(start.opts))
<1>1. ProfileRead(p)
  BY SetsRead DEF CredentialInv
<1>2. ValidProfile(p)
  BY DEF PlanJudges, ApplySetsOK
<1>3. Planned = ApplyDefaults(p)
  BY DEF Planned
<1> HIDE DEF p
<1>4. "orchestrator" \in Seats(p)
  BY <1>2 DEF ValidProfile
<1>5. Seats(ApplyDefaults(p)) = Seats(p)
  BY <1>1, <1>4, DefaultsSeat
<1>6. ASSUME NEW s \in Seats(p)
      PROVE  /\ ApplyDefaults(p).seats[s].auth = p.seats[s].auth
             /\ APIKeys(p.seats[s].auth) \subseteq Providers
             /\ AgentLogins(p.seats[s].auth) \subseteq CLIs
  <2>1. ValidAuth(p.seats[s].auth, Credentials(p.defaults, p.seats[s]))
    BY <1>2 DEF ValidProfile, ValidSeat
  <2> QED BY <1>1, <2>1, DefaultsSeat DEF ValidAuth
<1> QED BY <1>3, <1>5, <1>6 DEF KnownGrants

LEMMA ArgsKnown ==
  ASSUME NEW seat, APIKeys(seat.auth) \subseteq Providers, AgentLogins(seat.auth) \subseteq CLIs,
         NEW sh, sh \subseteq Variables
  PROVE  AuthArgs(seat, sh) \subseteq Grants
<1> DEFINE verb == IF seat.verb = "inherit" THEN "inherit" ELSE "lend"
           All(what) == {[what |-> what, how |-> verb, value |-> v] : v \in Granted(seat.auth, what)}
<1>1. SelectedAPIKey(seat, sh) # "" => SelectedAPIKey(seat, sh) \in Variables
  BY DEF SelectedAPIKey
<1>2. verb \in Verbs /\ "inherit" \in Verbs
  BY DEF Verbs
<1>3. AuthArgs(seat, sh) =
        IF SelectedAPIKey(seat, sh) # ""
        THEN {[what |-> "env", how |-> "inherit", value |-> SelectedAPIKey(seat, sh)]}
        ELSE IF APIKeys(seat.auth) # {} THEN All("key") ELSE All("login")
  BY DEF AuthArgs
<1> HIDE DEF verb
<1>4. All("key") \subseteq Grants /\ All("login") \subseteq Grants
  BY <1>2 DEF Grants, APIKeys, AgentLogins
<1>5. SelectedAPIKey(seat, sh) # "" =>
        [what |-> "env", how |-> "inherit", value |-> SelectedAPIKey(seat, sh)] \in Grants
  BY <1>1, <1>2 DEF Grants
<1> HIDE DEF All
<1> QED BY <1>3, <1>4, <1>5

(* Work in the campaign leaves alone what a machine was granted. *)
LEMMA TeamKeepsGrants ==
  ASSUME GrantInv, Team
  PROVE  /\ DOMAIN machines' = DOMAIN machines
         /\ \A s \in DOMAIN machines :
              "grants" \in DOMAIN machines'[s] /\ machines'[s].grants = machines[s].grants
<1>0. \A s \in DOMAIN machines : "grants" \in DOMAIN machines[s]
  BY DEF GrantInv
<1>1. ASSUME NEW s \in DOMAIN machines, Work(s)
      PROVE  /\ DOMAIN machines' = DOMAIN machines
             /\ \A t \in DOMAIN machines :
                  "grants" \in DOMAIN machines'[t] /\ machines'[t].grants = machines[t].grants
  <2>1. machines' = [machines EXCEPT ![s].head = Len(dag'), ![s].store = @ \cup {Len(dag')}]
    BY <1>1 DEF Work
  <2> QED BY <1>0, <2>1
<1>2. ASSUME NEW a \in DOMAIN machines, Fetch(a)
      PROVE  /\ DOMAIN machines' = DOMAIN machines
             /\ \A t \in DOMAIN machines :
                  "grants" \in DOMAIN machines'[t] /\ machines'[t].grants = machines[t].grants
  <2> DEFINE o == "orchestrator"
             has == [machines[o] EXCEPT !.store = @ \cup Ancestors(dag, machines[a].head)]
             Take(head) == [has EXCEPT !.head = head, !.store = @ \cup {head}]
  <2>1. \/ machines' = [machines EXCEPT ![o] = has]
        \/ \E head : machines' = [machines EXCEPT ![o] = Take(head)]
    BY <1>2 DEF Fetch, Merge, Orchestrator
  <2>2. o \in DOMAIN machines => "grants" \in DOMAIN has /\ has.grants = machines[o].grants
    BY <1>0
  <2>3. \A head : "grants" \in DOMAIN has =>
          "grants" \in DOMAIN Take(head) /\ Take(head).grants = has.grants
    OBVIOUS
  <2> HIDE DEF has, Take
  <2> QED BY <1>0, <2>1, <2>2, <2>3
<1>3. CASE \E a \in DOMAIN machines : PushStart(a)
  BY <1>0, <1>3 DEF PushStart
<1>4. CASE PushSend
  BY <1>0, <1>4 DEF PushSend
<1>5. CASE PushEnds
  BY <1>0, <1>5 DEF PushEnds
<1> QED BY <1>1, <1>2, <1>3, <1>4, <1>5 DEF Team

LEMMA StepGrants == ASSUME HostInv, CredentialInv, GrantInv, [Next]_vars PROVE GrantInv'
<1> USE DEF Planning
<1>1. CASE CreateStart
  <2>1. /\ UNCHANGED <<record, machines>> /\ pc' = "resolve" /\ plan'.profile = Planned /\ PlanJudges
    BY <1>1 DEF CreateStart, team
  <2> QED BY <2>1, PlannedKnown DEF GrantInv
<1>2. ASSUME NEW s \in Seats(plan.profile), ResolveSeat(s) PROVE GrantInv'
  <2>1. UNCHANGED <<record, machines, pc>> /\ pc = "resolve" /\ plan'.profile = plan.profile
    BY <1>2 DEF ResolveSeat, team, CredentialInv
  <2> QED BY <2>1 DEF GrantInv
<1>3. CASE CreateChecks \/ GitInit \/ UpdateRef \/ SymbolicRef \/ NoInit
  <2>1. UNCHANGED <<record, machines, plan>> /\ pc \in Planning
    BY <1>3 DEF CreateChecks, GitInit, UpdateRef, SymbolicRef, NoInit, team
  <2> QED BY <2>1 DEF GrantInv
<1>4. CASE Adopt
  <2>1. UNCHANGED <<machines, plan>> /\ pc = "adopt"
    BY <1>4 DEF Adopt, team
  <2>2. record' = record \/ record'.campaign.profile = plan.profile
    BY <1>4 DEF Adopt, BuildCampaign
  <2> QED BY <2>1, <2>2 DEF GrantInv
<1>5. ASSUME NEW s \in Seats(record.campaign.profile), Provision(s) PROVE GrantInv'
  <2>1. /\ UNCHANGED <<record, plan, pc>> /\ pc = "provision" /\ record # Nothing
        /\ DOMAIN machines' = DOMAIN machines \cup {s}
        /\ \A t \in DOMAIN machines' \ {s} : machines'[t] = machines[t]
        /\ machines'[s] = CreateArgs(s)
    BY <1>5 DEF Provision, CredentialInv
  <2>2. /\ "grants" \in DOMAIN CreateArgs(s)
        /\ CreateArgs(s).grants = AuthArgs(record.campaign.profile.seats[s], plan.shell)
    BY DEF CreateArgs
  <2>3. plan.shell \subseteq Variables
    BY <2>1 DEF HostInv
  <2>4. CreateArgs(s).grants \subseteq Grants
    BY <2>1, <2>2, <2>3, ArgsKnown DEF GrantInv, KnownGrants
  <2>5. \A t \in DOMAIN machines' : t # s => t \in DOMAIN machines
    BY <2>1
  <2> QED BY <2>1, <2>2, <2>4, <2>5 DEF GrantInv
<1>6. CASE CreateDone \/ CreateEnds
  <2>1. UNCHANGED <<record, machines>> /\ pc' \in {"running", "idle"}
    BY <1>6 DEF CreateDone, CreateEnds, team
  <2> QED BY <2>1 DEF GrantInv
<1>7. CASE Operator
  <2>1. /\ UNCHANGED <<record, machines, pc>>
        /\ plan' = plan \/ (plan' = [plan EXCEPT !.torn = TRUE] /\ pc = "resolve")
    BY <1>7 DEF Operator, Commit, Amend, ChangeFiles, InitByHand, Prune,
         SetVariable, EditProfile, team, Tear
  <2>2. pc \in Planning => plan'.profile = plan.profile
    BY <2>1 DEF CredentialInv
  <2> QED BY <2>1, <2>2 DEF GrantInv
<1>8. CASE Team
  <2>1. UNCHANGED <<record, plan, pc>>
    BY <1>8 DEF Team, Work, Fetch, PushStart, PushSend, PushEnds
  <2> QED BY <1>8, <2>1, TeamKeepsGrants DEF GrantInv
<1>9. CASE UNCHANGED vars
  BY <1>9 DEF vars, team, GrantInv
<1> QED BY <1>1, <1>2, <1>3, <1>4, <1>5, <1>6, <1>7, <1>8, <1>9 DEF Next, Create

-----------------------------------------------------------------------------
(* The bases of a plan, once more: the host stays what it was judged as.     *)
LEMMA StepPlanOneBase ==
  ASSUME CredentialInv, BaseInv, HostInv, [Next]_vars
  PROVE  PlanOneBase'
<1> USE DEF Planning
<1>0. PlanOneBase
  BY DEF BaseInv
<1>1. CASE CreateStart
  <2>1. /\ pc' = "resolve" /\ {"profile", "commits", "torn"} \subseteq DOMAIN plan'
        /\ plan'.profile = Planned /\ DOMAIN plan'.commits = {}
    BY <1>1 DEF CreateStart
  <2>2. OneRepository(Planned)
    BY <1>1, PlannedOneRepository DEF CreateStart
  <2> QED BY <2>1, <2>2 DEF PlanOneBase
<1>2. ASSUME NEW s \in Seats(plan.profile), ResolveSeat(s) PROVE PlanOneBase'
  <2>1. /\ pc = "resolve" /\ pc' = "resolve" /\ host' = host
        /\ {"profile", "commits", "torn"} \subseteq DOMAIN plan /\ OneRepository(plan.profile)
        /\ DOMAIN plan.commits \subseteq Seats(plan.profile)
    BY <1>0, <1>2 DEF ResolveSeat, PlanOneBase, repo
  <2>2. /\ DOMAIN plan' = DOMAIN plan
        /\ plan'.profile = plan.profile /\ plan'.torn = plan.torn
        /\ plan'.commits = [t \in DOMAIN plan.commits \cup {s} |->
             IF t = s THEN ResolvedCommit(host, TheRepository(plan.profile, s))
             ELSE plan.commits[t]]
    BY <1>2, <2>1 DEF ResolveSeat, TheRepository
  <2>3. ~plan.torn => \A t \in DOMAIN plan.commits :
          plan.commits[t] = ResolvedCommit(host, TheRepository(plan.profile, t))
    BY <1>0, <2>1 DEF PlanOneBase
  <2>4. ~plan'.torn => \A t \in DOMAIN plan'.commits :
          plan'.commits[t] = ResolvedCommit(host', TheRepository(plan'.profile, t))
    BY <2>1, <2>2, <2>3
  <2> QED BY <2>1, <2>2, <2>4 DEF PlanOneBase
<1>3. CASE CreateChecks
  <2>1. /\ pc = "resolve" /\ pc' = "initialize" /\ plan' = plan
        /\ DOMAIN plan.commits = Seats(plan.profile)
    BY <1>3 DEF CreateChecks
  <2>2. ASSUME ~plan.torn, NEW s, NEW t, Alike(plan.profile, s, t)
        PROVE  plan.commits[s] = plan.commits[t]
    BY <1>0, <2>1, <2>2, RefDecides DEF PlanOneBase, Alike
  <2> QED BY <1>0, <2>1, <2>2 DEF PlanOneBase
<1>4. CASE GitInit \/ UpdateRef \/ SymbolicRef \/ NoInit \/ Adopt
  BY <1>0, <1>4 DEF GitInit, UpdateRef, SymbolicRef, NoInit, Adopt, PlanOneBase
<1>6. ASSUME NEW s \in Seats(record.campaign.profile), Provision(s) PROVE PlanOneBase'
  BY <1>0, <1>6 DEF Provision, PlanOneBase, repo
<1>7. CASE CreateDone \/ CreateEnds
  BY <1>7 DEF CreateDone, CreateEnds, PlanOneBase
<1>8. CASE Commit \/ Amend
  <2>1. pc' = pc /\ pc # "running" /\ Tear
    BY <1>8 DEF Commit, Amend
  <2>2. CASE pc = "resolve"
    <3>1. plan' = [plan EXCEPT !.torn = TRUE]
      BY <2>1, <2>2 DEF Tear
    <3>2. {"profile", "commits", "torn"} \subseteq DOMAIN plan /\ OneRepository(plan.profile)
      BY <1>0, <2>2 DEF PlanOneBase
    <3>3. /\ DOMAIN plan' = DOMAIN plan /\ plan'.profile = plan.profile /\ plan'.torn
          /\ plan'.commits = plan.commits /\ DOMAIN plan.commits \subseteq Seats(plan.profile)
      BY <1>0, <2>2, <3>1, <3>2 DEF PlanOneBase
    <3> QED BY <2>1, <2>2, <3>2, <3>3 DEF PlanOneBase
  <2>3. CASE pc # "resolve"
    BY <1>0, <2>1, <2>3 DEF Tear, PlanOneBase
  <2> QED BY <2>2, <2>3
<1>9. CASE Prune
  <2>1. pc' = pc /\ plan' = plan /\ host' = [host EXCEPT !.loose = {}]
    BY <1>9 DEF Prune
  <2> QED BY <1>0, <2>1 DEF PlanOneBase, ResolvedCommit, Initializes, RevParse, IsRepo
<1>13. CASE ChangeFiles \/ InitByHand
  <2>1. /\ UNCHANGED <<dag, pc, plan>> /\ host'.refs = host.refs
        /\ IsRepo(host) => IsRepo(host') /\ host'.head = host.head
        /\ ~IsRepo(host) => \A b \in Branches : host.refs[b] = NoCommit
    BY <1>13, EditKeepsHost DEF HostInv
  <2>2. ASSUME NEW r, r.ref \in {""} \cup Branches
        PROVE  ResolvedCommit(host', r) = ResolvedCommit(host, r)
    <3>1. host'.head \in Branches
      BY <1>13, EditKeepsHost DEF HostInv
    <3>2. RevParse(host', r.ref) = RevParse(host, r.ref)
      BY <2>1, <2>2, <3>1 DEF RevParse, Given
    <3> QED BY <3>2 DEF ResolvedCommit, Initializes
  <2>3. ASSUME pc = "resolve", NEW s \in Seats(plan.profile)
        PROVE  ResolvedCommit(host', TheRepository(plan.profile, s))
                 = ResolvedCommit(host, TheRepository(plan.profile, s))
    <3>1. TheRepository(plan.profile, s).ref \in {""} \cup Branches
      BY <1>0, <2>3 DEF PlanOneBase, OneRepository, ReposRead, TheRepository
    <3> QED BY <2>2, <3>1
  <2> QED BY <1>0, <2>1, <2>3 DEF PlanOneBase
<1>10. CASE SetVariable \/ EditProfile
  BY <1>0, <1>10 DEF SetVariable, EditProfile, PlanOneBase, repo
<1>11. CASE Team
  <2>1. UNCHANGED <<host, record, pc, plan>>
    BY <1>11 DEF Team, Work, Fetch, PushStart, PushSend, PushEnds, repo
  <2> QED BY <1>0, <2>1 DEF PlanOneBase
<1>12. CASE UNCHANGED vars
  BY <1>0, <1>12 DEF vars, repo, PlanOneBase
<1> QED
  BY <1>1, <1>2, <1>3, <1>4, <1>6, <1>7, <1>8, <1>9, <1>10, <1>11, <1>12, <1>13
  DEF Next, Create, Operator

LEMMA StepMachines ==
  ASSUME CredentialInv, BaseInv, HostInv, [Next]_vars
  PROVE  RecordOneBase' /\ MachinesAsRecorded'
<1> USE DEF Planning, BaseInv
<1>1. CASE Adopt /\ record = Nothing
  <2>1. pc = "adopt" /\ machines' = machines /\ record' # Nothing
    BY <1>1 DEF Adopt, team, Nothing
  <2>2. DOMAIN machines = {}
    BY <1>1 DEF MachinesAsRecorded
  <2>3. record' = [campaign |-> BuildCampaign, torn |-> plan.torn]
    BY <1>1 DEF Adopt
  <2>4. /\ record'.campaign.profile = plan.profile /\ record'.torn = plan.torn
        /\ \A s \in Seats(plan.profile) : record'.campaign.seats[s].commit = plan.commits[s]
    BY <2>3 DEF BuildCampaign
  <2>5. ~plan.torn => \A s, t : Alike(plan.profile, s, t) => plan.commits[s] = plan.commits[t]
    BY <2>1 DEF PlanOneBase
  <2>6. RecordOneBase'
    BY <2>4, <2>5 DEF RecordOneBase, Alike
  <2> QED BY <2>1, <2>2, <2>6 DEF MachinesAsRecorded
<1>2. ASSUME NEW s \in Seats(record.campaign.profile), Provision(s)
      PROVE  RecordOneBase' /\ MachinesAsRecorded'
  <2>1. /\ record' = record /\ record # Nothing
        /\ DOMAIN machines' = DOMAIN machines \cup {s}
        /\ \A t \in DOMAIN machines' \ {s} : machines'[t] = machines[t]
        /\ machines'[s] = CreateArgs(s)
    BY <1>2 DEF Provision, CredentialInv
  <2>2. /\ {"base", "env"} \subseteq DOMAIN CreateArgs(s)
        /\ CreateArgs(s).base = record.campaign.seats[s].commit
        /\ CreateArgs(s).env = record.campaign.profile.seats[s].env \cap plan.shell
    BY DEF CreateArgs
  <2>5. plan.shell \subseteq Variables
    BY <1>2 DEF Provision, HostInv
  <2>3. \A t \in DOMAIN machines' : t # s => t \in DOMAIN machines
    BY <2>1
  <2>4. ASSUME NEW t \in DOMAIN machines'
        PROVE  /\ t \in Seats(record.campaign.profile) /\ "base" \in DOMAIN machines'[t]
               /\ machines'[t].base = record.campaign.seats[t].commit
               /\ "env" \in DOMAIN machines'[t] /\ machines'[t].env \subseteq Variables
               /\ machines'[t].env \subseteq record.campaign.profile.seats[t].env
    BY <2>1, <2>2, <2>3, <2>5 DEF MachinesAsRecorded
  <2> QED BY <2>1, <2>4 DEF RecordOneBase, MachinesAsRecorded
<1>3. CASE Team
  <2>1. record' = record
    BY <1>3 DEF Team, Work, Fetch, PushStart, PushSend, PushEnds
  <2> QED BY <1>3, <2>1, TeamKeepsBase DEF RecordOneBase, MachinesAsRecorded, MadeAs
<1>4. CASE UNCHANGED <<record, machines>>
  BY <1>4 DEF RecordOneBase, MachinesAsRecorded
<1>5. CASE \/ CreateStart \/ CreateChecks \/ GitInit \/ UpdateRef \/ SymbolicRef \/ NoInit
           \/ CreateDone \/ CreateEnds \/ (Adopt /\ record # Nothing)
  BY <1>4, <1>5 DEF CreateStart, GitInit, UpdateRef, SymbolicRef, NoInit, Adopt,
     CreateChecks, CreateDone, CreateEnds, team
<1>6. ASSUME NEW s \in Seats(plan.profile), ResolveSeat(s) PROVE UNCHANGED <<record, machines>>
  BY <1>6 DEF ResolveSeat, team
<1>7. CASE Operator
  BY <1>4, <1>7 DEF Operator, Commit, Amend, ChangeFiles, InitByHand, Prune,
         SetVariable, EditProfile, team
<1>8. CASE UNCHANGED vars
  BY <1>4, <1>8 DEF vars, team
<1> QED BY <1>1, <1>2, <1>3, <1>4, <1>5, <1>6, <1>7, <1>8 DEF Next, Create

-----------------------------------------------------------------------------
(* All of it together: the invariant of the module. *)
SetupInv == CredentialInv /\ BaseInv /\ HostInv /\ TeamInv /\ GrantInv

LEMMA InitSetup == Init => SetupInv
<1>1. Init => GrantInv
  <2> SUFFICES ASSUME Init PROVE GrantInv
    OBVIOUS
  <2>1. DOMAIN machines = {}
    BY DEF Init
  <2> QED BY <2>1 DEF Init, GrantInv, Planning
<1> QED BY <1>1, InitCredentials, InitBase, InitHost, InitTeam DEF SetupInv

LEMMA StepHostAndTeam ==
  ASSUME HostInv, CredentialInv, TeamInv, [Next]_vars
  PROVE  HostInv' /\ TeamInv' /\ Grown(dag, dag')
<1>1. CASE Create
  BY <1>1, CreateKeepsHost, CreateKeepsTeam
<1>2. CASE Operator
  BY <1>2, OperatorKeepsHost, OperatorKeepsTeam
<1>3. CASE Team
  BY <1>3, TeamStepKeeps
<1>4. CASE UNCHANGED vars
  <2>1. UNCHANGED <<host, dag, late, shell, pc, plan, record, fetched, machines, push>>
    BY <1>4 DEF vars, repo, team
  <2>2. Grown(dag, dag')
    BY <2>1, GrownItself DEF HostInv
  <2>3. TeamInv'
    BY <2>1 DEF TeamInv, PushInv, Orchestrator, Declared
  <2> QED BY <2>1, <2>2, <2>3, HostApart
<1> QED BY <1>1, <1>2, <1>3, <1>4 DEF Next

LEMMA StepSetup == SetupInv /\ [Next]_vars => SetupInv'
BY StepCredentials, StepPlanOneBase, StepMachines, StepHostAndTeam, StepGrants
   DEF SetupInv, BaseInv

(* Repositories, clones, credentials and bases stay whole in every reachable *)
(* state, for every host, history, profile and shell.                        *)
THEOREM SetupInvHolds == Spec => []SetupInv
<1> QED BY InitSetup, StepSetup, PTL DEF Spec

(* Seats given the repository at one ref are made at one commit, on every    *)
(* host and through every attempt, unless it moved while they were resolved. *)
THEOREM BasesAgree == Spec => []OneBase
<1>1. SetupInv => OneBase
  BY DEF SetupInv, BaseInv, RecordOneBase, MachinesAsRecorded, OneBase, Alike, RefsOf
<1> QED BY <1>1, SetupInvHolds, PTL

(* A machine of a lent seat is given no variable, key or login for a copy,   *)
(* and of create's environment what the profile's env names and no more,     *)
(* whatever the overrides, the shells and the creates that ended early.      *)
THEOREM LentIsLent == Spec => []LentHoldsNoSecret
<1>1. SetupInv => LentHoldsNoSecret
  BY DEF SetupInv, CredentialInv, BaseInv, MachinesAsRecorded, MachineSound, LentHoldsNoSecret
<1> QED BY <1>1, SetupInvHolds, PTL

(* Whatever the route by which a commit came to the orchestrator, no push    *)
(* brings a member one that adds a path withheld from it.                    *)
THEOREM PushesWithholdNothing == Spec => NoWithheldByPush
<1>1. SetupInv /\ [Next]_vars =>
        [push # Nothing /\ push' = Nothing =>
           Withheld(dag, Declared(push.to),
                    machines'[push.to].store \ machines[push.to].store) = {}]_vars
  <2> SUFFICES ASSUME SetupInv, [Next]_vars, push # Nothing, push' = Nothing
               PROVE  Withheld(dag, Declared(push.to),
                        machines'[push.to].store \ machines[push.to].store) = {}
    OBVIOUS
  <2>1. PushSend \/ PushEnds
    <3>1. pc = "running"
      BY DEF SetupInv, TeamInv, PushInv
    <3>2. ~Operator
      BY <3>1 DEF Operator, Commit, Amend, ChangeFiles, InitByHand, Prune,
         SetVariable, EditProfile
    <3>3. ~Create
      BY <3>1 DEF Create, CreateStart, ResolveSeat, CreateChecks, GitInit, UpdateRef,
         SymbolicRef, NoInit, Adopt, Provision, CreateDone, CreateEnds
    <3>4. \A s : ~Work(s) /\ ~Fetch(s) /\ ~PushStart(s)
      BY DEF Work, Fetch, PushStart
    <3>5. ~UNCHANGED vars
      BY DEF vars, team
    <3> QED BY <3>2, <3>3, <3>4, <3>5 DEF Next, Team
  <2>2. Withheld(dag, Declared(push.to),
                 Ancestors(dag, push.commit) \ machines[push.to].store) = {}
    BY DEF SetupInv, TeamInv, PushInv
  <2>3. machines'[push.to].store \ machines[push.to].store
          \subseteq Ancestors(dag, push.commit) \ machines[push.to].store
    <3>1. CASE PushSend
      BY <3>1, PushBrings DEF SetupInv
    <3>2. CASE PushEnds
      BY <3>2 DEF PushEnds
    <3> QED BY <2>1, <3>1, <3>2
  <2> DEFINE news == machines'[push.to].store \ machines[push.to].store
             rest == Ancestors(dag, push.commit) \ machines[push.to].store
  <2> HIDE DEF news, rest
  <2>4. Withheld(dag, Declared(push.to), news) = {}
    BY <2>2, <2>3 DEF Withheld, news, rest
  <2> QED BY <2>4 DEF news
<1> QED BY <1>1, SetupInvHolds, PTL DEF Spec, NoWithheldByPush

(* A profile without overrides is judged alike by validate and by plan.      *)
THEOREM ValidateJudgesAlike == Spec => []ValidateIsPlan
<1>1. ValidateIsPlan
  <2> SUFFICES ASSUME ~start.flags, start.opts.sets = {}, start.opts.credentials = "",
                      FitsMappings(Planned), start.name # "bad"
               PROVE  ValidateAccepts <=> PlanAccepts
    BY DEF ValidateIsPlan
  <2>1. CredentialSet(start.opts) = {} /\ ValidOpts(start.opts)
    BY DEF CredentialSet, ValidOpts
  <2>2. ApplySets(start.profile, {}) = start.profile
    BY DEF ApplySets
  <2>3. Planned = ApplyDefaults(start.profile)
    BY <2>1, <2>2 DEF Planned
  <2>4. PlanJudges <=> /\ ValidProfile(start.profile)
                       /\ ResolvesSnapshots(Planned) /\ HaveRepositories(Planned)
                       /\ HaveInputs(Planned)
    BY <2>1, <2>2 DEF PlanJudges, ApplySetsOK
  <2> QED BY <2>3, <2>4 DEF ValidateAccepts, PlanAccepts
<1> QED BY <1>1, PTL

(* A declaration withholds what it covers a beginning of, and that beneath,  *)
(* for every declaration of the profiles and every path of the history.      *)
THEOREM MatcherMeansBeneath == Spec => []MatchMeansBeneath
<1>1. SetupInv => MatchMeansBeneath
  <2> SUFFICES ASSUME SetupInv, NEW s \in Seats(start.profile),
                      NEW r \in start.profile.seats[s].repos,
                      NEW decl \in r.withhold, NEW c \in DOMAIN dag
               PROVE  /\ Match(decl, dag[c].adds) <=> CoversPrefix(decl, dag[c].adds)
                      /\ Match(decl, dag[c].adds) <=> Match(Append(decl, "**"), dag[c].adds)
    BY DEF MatchMeansBeneath
  <2> DEFINE path == dag[c].adds
             more == Append(decl, "**")
  <2> HIDE DEF path, more
  <2>1. decl \in Seq(STRING)
    <3>1. ProfileRead(start.profile)
      BY DEF SetupInv, CredentialInv
    <3>2. r.withhold \subseteq Seq(STRING)
      BY <3>1 DEF ProfileRead, ReposRead
    <3> QED BY <3>2
  <2>2. path \in Seq(STRING)
    <3> DEFINE T == Seq(STRING)
               R == [parents : SUBSET Nat, adds : T]
    <3>1. dag \in Seq(R)
      BY DEF SetupInv, HostInv, HistoryRead
    <3>2. \A x \in R : x.adds \in T
      <4> HIDE DEF T
      <4> QED OBVIOUS
    <3>3. dag[c] \in R
      <4> HIDE DEF R
      <4> QED BY <3>1
    <3> HIDE DEF R, T
    <3>4. dag[c].adds \in T
      BY <3>2, <3>3
    <3> QED BY <3>4 DEF T, path
  <2>3. Len(more) = Len(decl) + 1 /\ Len(decl) \in Nat
    BY <2>1 DEF more
  <2>4. Len(decl) \in Nat /\ Len(path) \in Nat /\ Len(more) \in Nat
    BY <2>1, <2>2, <2>3
  <2>5. Match(decl, path) <=> CoversPrefix(decl, path)
    BY <2>4, MatchCovers
  <2>6. Match(more, path) <=> CoversPrefix(more, path)
    BY <2>4, MatchCovers
  <2>7. CoversPrefix(decl, path) <=> CoversPrefix(more, path)
    BY <2>1, <2>4, CoversBeneath DEF more
  <2> QED BY <2>5, <2>6, <2>7 DEF path, more
<1> QED BY <1>1, SetupInvHolds, PTL

-----------------------------------------------------------------------------
(* What create may overwrite, and what its clones may hold.                  *)

DeclaredIn(p, s) == UNION {r.withhold : r \in p.seats[s].repos}

(* While a repository is to be made, what the branch that is checked out has *)
(* was made since create began; it has a commit only where the repository    *)
(* has files, or was left without one.  When the first commit is made, it    *)
(* has none but such as came after the last look, unless it was left so.     *)
MadeSince ==
  \A c \in Ancestors(dag, host.refs[initialRepoBranch]) : c = Initial \/ c > since.commits
FirstCommitInv ==
  /\ pc \in Planning => {"profile", "initialize"} \subseteq DOMAIN plan
  /\ since \in [commits : 0 .. Len(dag), bare : BOOLEAN]
  /\ /\ pc \in {"resolve", "initialize"} /\ plan.initialize # {}
     /\ host.head = initialRepoBranch
     => /\ MadeSince
        /\ \/ host.refs[initialRepoBranch] = NoCommit
           \/ host.tree = "work" \/ since.bare
  /\ pc = "update-ref" /\ host.head = initialRepoBranch =>
       /\ MadeSince
       /\ \/ since.bare
          \/ Ancestors(dag, host.refs[initialRepoBranch]) \subseteq late \cup {Initial}

(* What a seat's declarations withhold came to the host after the last look. *)
CleanInv ==
  pc \in Planning \ {"resolve"} =>
    \A s \in Seats(plan.profile) \ plan.initialize :
      Withheld(dag, DeclaredIn(plan.profile, s), Holds(host)) \subseteq late

(* What a step before the campaign runs brings the host is its own commit.   *)
LEMMA CommitBrings ==
  ASSUME HostInv, Commit
  PROVE  Holds(host)' \subseteq Holds(host) \cup late' /\ late \subseteq late'
<1> DEFINE n == Len(dag')
           tip == Tip(host)
           parents == {tip} \ {NoCommit}
           S == Holds(host) \cup {n}
<1>0. /\ HistoryRead(dag) /\ Len(dag) \in Nat /\ host.head \in Branches
      /\ host.refs \in [Branches -> NoCommit .. Len(dag)]
      /\ tip = host.refs[host.head] /\ tip \in NoCommit .. Len(dag)
      /\ Closed(dag, Holds(host))
  BY DEF HostInv, HistoryRead, Tip
<1>1. PICK path \in Paths : AddCommit(parents, path)
  BY DEF Commit
<1>2. parents \in SUBSET (0 .. Len(dag))
  BY <1>0 DEF NoCommit
<1>3. Heads(host) \ {NoCommit} \subseteq Holds(host)
  <2>1. Heads(host) \subseteq NoCommit .. Len(dag)
    BY <1>0 DEF Heads
  <2>2. Heads(host) \ {NoCommit} \subseteq History(dag, Heads(host))
    BY <1>0, <2>1, HistoryCloses
  <2> QED BY <2>2 DEF Holds, Reachable, Heads
<1>4. parents \subseteq Holds(host)
  BY <1>0, <1>3 DEF Heads
<1>5. Grown(dag, dag') /\ Closed(dag', S)
  BY <1>0, <1>1, <1>2, <1>4, Adds
<1>6. /\ \E tree \in {"git", "work"} : host' = [host EXCEPT !.tree = tree, !.refs[host.head] = n]
      /\ late' = late \cup {n}
  BY DEF Commit
<1> HIDE DEF n
<1>7. host'.loose = host.loose /\ host'.refs = [host.refs EXCEPT ![host.head] = n]
  BY <1>6 DEF HostInv
<1>8. Heads(host') \ {NoCommit} \subseteq S
  BY <1>0, <1>3, <1>7 DEF Heads
<1>9. Heads(host') \subseteq NoCommit .. Len(dag')
  <2>1. host' \in [tree : Trees, head : Branches, refs : [Branches -> NoCommit .. Len(dag')],
                   loose : SUBSET (0 .. Len(dag'))]
    BY CommitKeepsHost DEF HostInv
  <2> QED BY <2>1 DEF Heads
<1>10. History(dag', Heads(host')) \subseteq S
  <2> HIDE DEF S
  <2> QED BY <1>5, <1>8, <1>9, HistoryCloses DEF Grown
<1>11. Holds(host)' = History(dag', Heads(host')) \cup host.loose
  BY <1>7 DEF Holds, Reachable, Heads
<1>12. host.loose \subseteq Holds(host)
  BY DEF Holds
<1> QED BY <1>6, <1>10, <1>11, <1>12

LEMMA AmendBrings ==
  ASSUME HostInv, Amend
  PROVE  Holds(host)' \subseteq Holds(host) \cup late' /\ late \subseteq late'
<1> DEFINE n == Len(dag')
           tip == Tip(host)
           parents == dag[tip].parents
           S == Holds(host) \cup {n}
<1>0. /\ HistoryRead(dag) /\ Len(dag) \in Nat /\ host.head \in Branches
      /\ host.refs \in [Branches -> NoCommit .. Len(dag)]
      /\ tip = host.refs[host.head] /\ tip \in 1 .. Len(dag)
      /\ Closed(dag, Holds(host))
  BY DEF HostInv, HistoryRead, Tip, Amend, NoCommit
<1>1. PICK path \in Paths : AddCommit(parents, path)
  BY DEF Amend
<1>2. parents \in SUBSET (0 .. Len(dag))
  BY <1>0 DEF HistoryRead
<1>3. Heads(host) \ {NoCommit} \subseteq Holds(host)
  <2>1. Heads(host) \subseteq NoCommit .. Len(dag)
    BY <1>0 DEF Heads
  <2>2. Heads(host) \ {NoCommit} \subseteq History(dag, Heads(host))
    BY <1>0, <2>1, HistoryCloses
  <2> QED BY <2>2 DEF Holds, Reachable, Heads
<1>4. parents \subseteq Holds(host)
  <2>1. tip \in Holds(host)
    BY <1>0, <1>3 DEF Heads, NoCommit
  <2>2. Ancestors(dag, tip) \subseteq Holds(host)
    BY <1>0, <2>1 DEF Closed
  <2> HIDE DEF tip
  <2>3. Older(dag)
    BY <1>0, ReadIsOlder
  <2>4. Ancestors(dag, tip) = {tip} \cup Beneath(dag, tip)
    BY <1>0, <2>3, AncestorsOf
  <2>5. \A p \in parents : p \in NoCommit .. Len(dag) /\ p # NoCommit
    BY <1>0, <1>2 DEF NoCommit
  <2>6. \A p \in parents : p \in Ancestors(dag, p)
    BY <2>3, <2>5, AncestorsOlder
  <2> QED BY <2>2, <2>4, <2>6 DEF Beneath
<1>5. Grown(dag, dag') /\ Closed(dag', S)
  <2> HIDE DEF parents
  <2> QED BY <1>0, <1>1, <1>2, <1>4, Adds
<1>6. host'.refs = [host.refs EXCEPT ![host.head] = n] /\ late' = late \cup {n}
  BY DEF Amend, HostInv
<1>7. host'.loose \subseteq Holds(host)
  BY DEF Amend, HostInv, Holds
<1> HIDE DEF n
<1>8. Heads(host') \ {NoCommit} \subseteq S
  BY <1>0, <1>3, <1>6 DEF Heads
<1>9. Heads(host') \subseteq NoCommit .. Len(dag')
  <2>1. host' \in [tree : Trees, head : Branches, refs : [Branches -> NoCommit .. Len(dag')],
                   loose : SUBSET (0 .. Len(dag'))]
    BY AmendKeepsHost DEF HostInv
  <2> QED BY <2>1 DEF Heads
<1>10. History(dag', Heads(host')) \subseteq S
  <2> HIDE DEF S
  <2> QED BY <1>5, <1>8, <1>9, HistoryCloses DEF Grown
<1>11. Holds(host)' = History(dag', Heads(host')) \cup host'.loose
  BY DEF Holds, Reachable, Heads
<1> QED BY <1>6, <1>7, <1>10, <1>11

LEMMA UpdateRefBrings ==
  ASSUME HostInv, UpdateRef
  PROVE  Holds(host)' \subseteq Holds(host) \cup {Initial}
<1>0. /\ HistoryRead(dag) /\ Len(dag) \in Nat /\ dag' = dag
      /\ host.refs \in [Branches -> NoCommit .. Len(dag)] /\ Closed(dag, Holds(host))
  BY DEF HostInv, HistoryRead, UpdateRef
<1>1. host'.refs = [host.refs EXCEPT ![initialRepoBranch] = Initial]
  BY DEF UpdateRef, HostInv
<1>2. host'.loose \subseteq Holds(host)
  BY DEF UpdateRef, HostInv, Holds
<1>3. Heads(host) \ {NoCommit} \subseteq Holds(host)
  <2>1. Heads(host) \subseteq NoCommit .. Len(dag)
    BY <1>0 DEF Heads
  <2>2. Heads(host) \ {NoCommit} \subseteq History(dag, Heads(host))
    BY <1>0, <2>1, HistoryCloses
  <2> QED BY <2>2 DEF Holds, Reachable, Heads
<1> DEFINE S == Holds(host) \cup {Initial}
<1>4. Closed(dag, S)
  <2>1. Ancestors(dag, Initial) = {Initial} /\ Initial \in 0 .. Len(dag)
    BY <1>0, ReadIsOlder, AncestorsOf DEF Initial
  <2> QED BY <1>0, <2>1 DEF Closed
<1>5. Heads(host') \ {NoCommit} \subseteq S
  BY <1>0, <1>1, <1>3 DEF Heads
<1>6. Heads(host') \subseteq NoCommit .. Len(dag)
  <2>1. Initial \in NoCommit .. Len(dag)
    BY <1>0 DEF Initial, NoCommit
  <2> QED BY <1>0, <1>1, <2>1 DEF Heads
<1>7. History(dag, Heads(host')) \subseteq S
  <2> HIDE DEF S
  <2> QED BY <1>0, <1>4, <1>5, <1>6, HistoryCloses
<1>8. Holds(host)' = History(dag, Heads(host')) \cup host'.loose
  BY <1>0 DEF Holds, Reachable, Heads
<1> QED BY <1>2, <1>7, <1>8

LEMMA InitFirstCommit == Init => FirstCommitInv
<1> SUFFICES ASSUME Init PROVE FirstCommitInv
  OBVIOUS
<1>1. since = [commits |-> Len(dag), bare |-> FALSE] /\ pc = "idle"
  BY DEF Init
<1>2. Len(dag) \in Nat
  BY InitHost DEF HostInv, HistoryRead
<1> QED BY <1>1, <1>2 DEF FirstCommitInv, Planning

(* The steps that leave the plan, the history and the branches alone. *)
LEMMA FirstCommitApart ==
  ASSUME FirstCommitInv, UNCHANGED <<host, dag, late, since, plan>>,
         pc' = pc \/ pc' \notin {"resolve", "initialize", "update-ref"},
         pc' \in Planning => pc \in Planning
  PROVE  FirstCommitInv'
BY DEF FirstCommitInv, MadeSince

(* A commit that stands on what the branch had was made since, as that was.  *)
LEMMA HeadMoves ==
  ASSUME HostInv, FirstCommitInv, NEW tree \in {"git", "work"}, Len(dag') = Len(dag) + 1,
         Ancestors(dag', Len(dag')) \subseteq {Len(dag')} \cup Ancestors(dag, Tip(host)),
         host'.tree = tree, host'.head = host.head,
         host'.refs = [host.refs EXCEPT ![host.head] = Len(dag')],
         Leaves(tree), late' = late \cup {Len(dag')}, pc' = pc,
         plan' = IF pc = "resolve" THEN [plan EXCEPT !.torn = TRUE] ELSE plan
  PROVE  FirstCommitInv'
<1> USE DEF Planning
<1>0. Len(dag) \in Nat /\ host.refs \in [Branches -> NoCommit .. Len(dag)] /\ host.head \in Branches
  BY DEF HostInv, HistoryRead
<1>1. pc \in Planning => {"profile", "initialize"} \subseteq DOMAIN plan'
  BY DEF FirstCommitInv
<1>2. /\ since' = [since EXCEPT !.bare = @ \/ tree = "git"]
      /\ since \in [commits : 0 .. Len(dag), bare : BOOLEAN]
  BY DEF Leaves, FirstCommitInv
<1>3. since'.commits = since.commits /\ (since'.bare <=> since.bare \/ tree = "git")
  BY <1>2
<1>4. since' \in [commits : 0 .. Len(dag'), bare : BOOLEAN]
  <2>1. since' = [commits |-> since.commits, bare |-> since'.bare] /\ since'.bare \in BOOLEAN
    BY <1>2
  <2>2. since.commits \in 0 .. Len(dag')
    BY <1>0, <1>2
  <2> QED BY <2>1, <2>2
<1>5. ASSUME host.head = initialRepoBranch
      PROVE  /\ host'.refs[initialRepoBranch] = Len(dag')
             /\ Ancestors(dag', host'.refs[initialRepoBranch])
                  \subseteq {Len(dag')} \cup Ancestors(dag, host.refs[initialRepoBranch])
  BY <1>0, <1>5 DEF Tip
<1>6. Len(dag') > since.commits
  BY <1>0, <1>2
<1>7. ASSUME host.head = initialRepoBranch, MadeSince PROVE MadeSince'
  BY <1>3, <1>5, <1>6, <1>7 DEF MadeSince
<1>8. ASSUME pc \in {"resolve", "initialize"}, plan'.initialize # {},
             host.head = initialRepoBranch
      PROVE  MadeSince' /\ (host'.tree = "work" \/ since'.bare)
  <2>1. plan'.initialize = plan.initialize
    BY <1>8 DEF FirstCommitInv
  <2> QED BY <1>3, <1>7, <1>8, <2>1 DEF FirstCommitInv
<1>9. ASSUME pc = "update-ref", host.head = initialRepoBranch
      PROVE  /\ MadeSince'
             /\ \/ since'.bare
                \/ Ancestors(dag', host'.refs[initialRepoBranch]) \subseteq late' \cup {Initial}
  <2>1. /\ MadeSince
        /\ since.bare \/ Ancestors(dag, host.refs[initialRepoBranch]) \subseteq late \cup {Initial}
    BY <1>9 DEF FirstCommitInv
  <2> QED BY <1>3, <1>5, <1>7, <1>9, <2>1
<1> QED BY <1>1, <1>4, <1>8, <1>9 DEF FirstCommitInv

LEMMA CommitSpares == ASSUME HostInv, FirstCommitInv, Commit PROVE FirstCommitInv'
<1>0. /\ HistoryRead(dag) /\ Len(dag) \in Nat
      /\ Tip(host) \in NoCommit .. Len(dag)
  BY DEF HostInv, HistoryRead, Tip
<1>1. PICK path \in Paths : AddCommit({Tip(host)} \ {NoCommit}, path)
  BY DEF Commit
<1>2. {Tip(host)} \ {NoCommit} \in SUBSET (0 .. Len(dag))
  BY <1>0 DEF NoCommit
<1>3. /\ Len(dag') = Len(dag) + 1
      /\ Ancestors(dag', Len(dag')) =
           {Len(dag')} \cup UNION {Ancestors(dag, p) : p \in {Tip(host)} \ {NoCommit}}
  BY <1>1, <1>2, Adds
<1>4. UNION {Ancestors(dag, p) : p \in {Tip(host)} \ {NoCommit}} \subseteq Ancestors(dag, Tip(host))
  OBVIOUS
<1>5. PICK tree \in {"git", "work"} :
        /\ host' = [host EXCEPT !.tree = tree, !.refs[host.head] = Len(dag')]
        /\ Leaves(tree)
  BY DEF Commit
<1>6. /\ host'.tree = tree /\ host'.head = host.head
      /\ host'.refs = [host.refs EXCEPT ![host.head] = Len(dag')]
  BY <1>5 DEF HostInv
<1>7. /\ late' = late \cup {Len(dag')} /\ pc' = pc
      /\ plan' = IF pc = "resolve" THEN [plan EXCEPT !.torn = TRUE] ELSE plan
  BY DEF Commit, Tear
<1> QED BY <1>3, <1>4, <1>5, <1>6, <1>7, HeadMoves

LEMMA AmendSpares == ASSUME HostInv, FirstCommitInv, Amend PROVE FirstCommitInv'
<1> DEFINE parents == dag[Tip(host)].parents
<1>0. /\ HistoryRead(dag) /\ Len(dag) \in Nat /\ Tip(host) \in 1 .. Len(dag)
  BY DEF HostInv, HistoryRead, Tip, Amend, NoCommit
<1>1. PICK path \in Paths : AddCommit(parents, path)
  BY DEF Amend
<1>2. parents \in SUBSET (0 .. Len(dag))
  BY <1>0 DEF HistoryRead
<1>3. /\ Len(dag') = Len(dag) + 1
      /\ Ancestors(dag', Len(dag')) = {Len(dag')} \cup UNION {Ancestors(dag, p) : p \in parents}
  <2> HIDE DEF parents
  <2> QED BY <1>1, <1>2, Adds
<1>4. UNION {Ancestors(dag, p) : p \in parents} \subseteq Ancestors(dag, Tip(host))
  <2>0. Tip(host) \in NoCommit .. Len(dag)
    BY <1>0 DEF NoCommit
  <2>1. Ancestors(dag, Tip(host)) = {Tip(host)} \cup Beneath(dag, Tip(host))
    BY <1>0, <2>0, ReadIsOlder, AncestorsOf
  <2> QED BY <2>1 DEF Beneath
<1>5. PICK tree \in {"git", "work"} :
        /\ host'.tree = tree /\ host'.head = host.head
        /\ host'.refs = [host.refs EXCEPT ![host.head] = Len(dag')]
        /\ Leaves(tree)
  BY DEF Amend, HostInv
<1>6. /\ late' = late \cup {Len(dag')} /\ pc' = pc
      /\ plan' = IF pc = "resolve" THEN [plan EXCEPT !.torn = TRUE] ELSE plan
  BY DEF Amend, Tear
<1> HIDE DEF parents
<1> QED BY <1>3, <1>4, <1>5, <1>6, HeadMoves

(* Nor does what comes and goes at the path take a commit to the branch.     *)
LEMMA EditSpares ==
  ASSUME HostInv, FirstCommitInv, ChangeFiles \/ InitByHand
  PROVE  FirstCommitInv'
<1>1. /\ UNCHANGED <<dag, late, pc, plan>> /\ host'.refs = host.refs
      /\ IsRepo(host) => host'.head = host.head
  BY EditKeepsHost
<1>2. ASSUME ~IsRepo(host)
      PROVE  /\ host.refs[initialRepoBranch] = NoCommit
             /\ Ancestors(dag, host.refs[initialRepoBranch]) = {}
  <2>1. host.refs[initialRepoBranch] = NoCommit
    BY <1>2 DEF HostInv, Branches, initialRepoBranch
  <2>2. Ancestors(dag, NoCommit) = {}
    BY ReadIsOlder, AncestorsOf DEF HostInv
  <2> QED BY <2>1, <2>2
<1>3. /\ since \in [commits : 0 .. Len(dag), bare : BOOLEAN]
      /\ since' \in [commits : 0 .. Len(dag), bare : BOOLEAN]
      /\ since'.commits = since.commits /\ (since.bare => since'.bare)
  <2>1. since' = since \/ \E tree : Leaves(tree)
    BY DEF ChangeFiles, InitByHand
  <2> QED BY <2>1 DEF FirstCommitInv, Leaves
<1>4. MadeSince => MadeSince'
  BY <1>1, <1>3 DEF MadeSince
<1>5. IsRepo(host) => host'.tree = "work" \/ since'.bare
  BY <1>3 DEF ChangeFiles, InitByHand, Leaves, IsRepo, HostInv
<1>6. ~IsRepo(host) => MadeSince'
  BY <1>1, <1>2 DEF MadeSince
<1>7. pc = "update-ref" => IsRepo(host)
  BY DEF HostInv
<1> QED BY <1>1, <1>2, <1>3, <1>4, <1>5, <1>6, <1>7 DEF FirstCommitInv

LEMMA StepFirstCommit ==
  ASSUME HostInv, CredentialInv, TeamInv, FirstCommitInv, [Next]_vars
  PROVE  FirstCommitInv'
<1> USE DEF Planning
<1>0. Ancestors(dag, NoCommit) = {} /\ Len(dag) \in Nat
  BY ReadIsOlder, AncestorsOf DEF HostInv, HistoryRead
<1>1. CASE CreateStart
  <2>1. /\ pc' = "resolve" /\ plan'.initialize = {} /\ dag' = dag
        /\ {"profile", "initialize"} \subseteq DOMAIN plan'
        /\ since' = [commits |-> Len(dag), bare |-> FALSE]
    BY <1>1 DEF CreateStart
  <2> QED BY <1>0, <2>1 DEF FirstCommitInv
<1>2. ASSUME NEW s \in Seats(plan.profile), ResolveSeat(s) PROVE FirstCommitInv'
  <2> DEFINE r == CHOOSE q \in plan.profile.seats[s].repos : TRUE
  <2>1. /\ UNCHANGED <<host, dag, late, since, pc>> /\ pc = "resolve" /\ Resolves(host, r)
        /\ DOMAIN plan' = DOMAIN plan
    BY <1>2 DEF ResolveSeat, repo
  <2>2. {"profile", "initialize"} \subseteq DOMAIN plan
    BY <2>1 DEF FirstCommitInv
  <2>3. plan'.initialize = plan.initialize \cup (IF Initializes(host, r) THEN {s} ELSE {})
    BY <1>2, <2>2 DEF ResolveSeat
  <2> HIDE DEF r
  <2>4. ASSUME Initializes(host, r), host.head = initialRepoBranch
        PROVE  host.refs[initialRepoBranch] = NoCommit
    <3>1. RevParse(host, r.ref) = NoCommit /\ r.ref \in {"", initialRepoBranch}
      BY <2>1, <2>4 DEF Initializes, Resolves
    <3>2. (IF Given(r.ref) THEN r.ref ELSE host.head) = initialRepoBranch
      BY <2>4, <3>1 DEF Given
    <3>3. ~IsRepo(host) => host.refs[initialRepoBranch] = NoCommit
      BY DEF HostInv, Branches, initialRepoBranch
    <3> QED BY <2>4, <3>1, <3>2, <3>3 DEF RevParse
  <2> QED BY <1>0, <2>1, <2>2, <2>3, <2>4 DEF FirstCommitInv, MadeSince
<1>3. CASE CreateChecks
  <2>1. UNCHANGED <<host, dag, since, plan>> /\ pc = "resolve" /\ pc' = "initialize"
    BY <1>3 DEF CreateChecks
  <2> QED BY <2>1 DEF FirstCommitInv, MadeSince
<1>4. CASE GitInit
  <2>1. /\ UNCHANGED <<dag, late, since, plan>> /\ pc = "initialize" /\ pc' = "update-ref"
        /\ plan.initialize # {} /\ CanInitialize(host) /\ host'.refs = host.refs
        /\ IsRepo(host) => host' = host
    BY <1>4 DEF GitInit, HostInv
  <2>2. ASSUME host'.head = initialRepoBranch
        PROVE  MadeSince' /\ (host.refs[initialRepoBranch] = NoCommit \/ since.bare)
    <3>1. CASE IsRepo(host)
      <4>1. host.tree # "work"
        BY <2>1 DEF CanInitialize
      <4> QED BY <2>1, <2>2, <3>1, <4>1 DEF FirstCommitInv, MadeSince
    <3>2. CASE ~IsRepo(host)
      <4>1. host.refs[initialRepoBranch] = NoCommit
        BY <3>2 DEF HostInv, Branches, initialRepoBranch
      <4> QED BY <1>0, <2>1, <4>1 DEF MadeSince
    <3> QED BY <3>1, <3>2
  <2> QED BY <1>0, <2>1, <2>2 DEF FirstCommitInv
<1>5. CASE UpdateRef \/ SymbolicRef
  <2>1. UNCHANGED <<dag, since, plan>> /\ pc \in Planning /\ pc' \in {"symbolic-ref", "adopt"}
    BY <1>5 DEF UpdateRef, SymbolicRef
  <2> QED BY <2>1 DEF FirstCommitInv
<1>6. CASE NoInit \/ Adopt
  <2>1. UNCHANGED <<host, dag, late, since, plan>> /\ pc \in Planning /\ pc' \in {"adopt", "provision"}
    BY <1>6 DEF NoInit, Adopt, repo
  <2> QED BY <2>1, FirstCommitApart
<1>7. ASSUME NEW s \in Seats(record.campaign.profile), Provision(s) PROVE FirstCommitInv'
  BY <1>7, FirstCommitApart DEF Provision, repo
<1>8. CASE CreateDone \/ CreateEnds
  <2>1. UNCHANGED <<dag, since>> /\ pc' \in {"running", "idle"}
    BY <1>8 DEF CreateDone, CreateEnds, repo
  <2> QED BY <2>1 DEF FirstCommitInv
<1>9. CASE Commit
  BY <1>9, CommitSpares
<1>10. CASE Amend
  BY <1>10, AmendSpares
<1>11. CASE Prune
  <2>1. /\ UNCHANGED <<dag, late, since, pc, plan>> /\ host'.tree = host.tree
        /\ host'.head = host.head /\ host'.refs = host.refs
    BY <1>11 DEF Prune, HostInv
  <2> QED BY <2>1 DEF FirstCommitInv, MadeSince
<1>12. CASE SetVariable \/ EditProfile
  BY <1>12, FirstCommitApart DEF SetVariable, EditProfile, repo
<1>13. CASE Team
  <2>1. UNCHANGED <<host, late, since, pc, plan>>
    BY <1>13 DEF Team, Work, Fetch, PushStart, PushSend, PushEnds, repo
  <2>2. CASE pc = "running"
    <3>1. Len(dag') \in Nat /\ Len(dag) <= Len(dag')
      BY <1>13, TeamStepKeeps DEF Grown, HistoryRead
    <3>2. since' \in [commits : 0 .. Len(dag'), bare : BOOLEAN]
      BY <1>0, <2>1, <3>1 DEF FirstCommitInv
    <3> QED BY <2>1, <2>2, <3>2 DEF FirstCommitInv
  <2>3. CASE pc # "running"
    <3>1. PushSend \/ PushEnds
      BY <1>13, <2>3 DEF Team, Work, Fetch, PushStart
    <3>2. dag' = dag
      BY <3>1 DEF PushSend, PushEnds, repo
    <3> QED BY <2>1, <3>2, FirstCommitApart
  <2> QED BY <2>2, <2>3
<1>14. CASE UNCHANGED vars
  BY <1>14, FirstCommitApart DEF vars, repo
<1>15. CASE ChangeFiles \/ InitByHand
  BY <1>15, EditSpares
<1> QED
  BY <1>1, <1>2, <1>3, <1>4, <1>5, <1>6, <1>7, <1>8, <1>9, <1>10, <1>11, <1>12, <1>13, <1>14,
     <1>15
  DEF Next, Create, Operator

LEMMA FirstCommitHolds == Spec => []FirstCommitInv
<1>1. SetupInv /\ FirstCommitInv /\ [Next]_vars => FirstCommitInv'
  BY StepFirstCommit DEF SetupInv
<1> QED BY <1>1, InitFirstCommit, SetupInvHolds, PTL DEF Spec

(* Every variable keeps to its kind, and every commit a name stands for is   *)
(* there: on the host, and with all its history in every machine's clone.    *)
THEOREM SetupTypes == Spec => []TypeOK
<1>1. SetupInv /\ FirstCommitInv => TypeOK
  <2> SUFFICES ASSUME SetupInv, FirstCommitInv PROVE TypeOK
    OBVIOUS
  <2>1. /\ host.head \in Branches /\ host.loose \subseteq 0 .. Len(dag)
        /\ \A b \in Branches : host.refs[b] \in NoCommit .. Len(dag)
        /\ late \subseteq DOMAIN dag
    BY DEF SetupInv, HostInv
  <2>8. since.commits \in 0 .. Len(dag) /\ since.bare \in BOOLEAN
    BY DEF FirstCommitInv
  <2>2. \A c \in DOMAIN dag : dag[c].parents \subseteq 0 .. c - 1
    BY DEF SetupInv, HostInv, HistoryRead
  <2>3. DOMAIN machines # {} =>
          record # Nothing /\ DOMAIN machines \subseteq Seats(record.campaign.profile)
    BY DEF SetupInv, BaseInv, MachinesAsRecorded
  <2>4. DOMAIN fetched = DOMAIN machines
    BY DEF SetupInv, TeamInv
  <2>5. ASSUME NEW s \in DOMAIN machines
        PROVE  LET m == machines[s] IN
                 /\ m.store \subseteq 0 .. Len(dag) /\ m.base \in m.store
                 /\ Refs(m) \subseteq m.store /\ History(dag, Refs(m)) \subseteq m.store
                 /\ m.grants \subseteq Grants /\ m.env \subseteq Variables
    <3> DEFINE m == machines[s]
    <3>1. /\ MachineWhole(dag, m) /\ m.grants \subseteq Grants /\ m.env \subseteq Variables
          /\ HistoryRead(dag) /\ Len(dag) \in Nat
      BY DEF SetupInv, TeamInv, GrantInv, HostInv, HistoryRead, BaseInv, MachinesAsRecorded
    <3> HIDE DEF m
    <3>2. Closed(dag, m.store) /\ m.base \in m.store /\ Refs(m) \subseteq m.store
      BY <3>1 DEF MachineWhole, Refs
    <3>3. m.store \subseteq 0 .. Len(dag) /\ Refs(m) \subseteq NoCommit .. Len(dag)
      BY <3>1, <3>2 DEF Closed, NoCommit
    <3>4. History(dag, Refs(m)) \subseteq m.store
      BY <3>1, <3>2, <3>3, HistoryCloses
    <3> QED BY <3>1, <3>2, <3>3, <3>4 DEF m
  <2>6. pc \in {"idle", "resolve", "initialize", "update-ref", "symbolic-ref", "adopt",
                "provision", "running"}
    BY DEF SetupInv, CredentialInv, Planning
  <2>7. push # Nothing => pc = "running" /\ push.commit \in Orchestrator.store
    BY DEF SetupInv, TeamInv, PushInv
  <2> QED BY <2>1, <2>2, <2>3, <2>4, <2>5, <2>6, <2>7, <2>8 DEF TypeOK
<1> QED BY <1>1, SetupInvHolds, FirstCommitHolds, PTL

(* The commit create makes in a repository without one takes from the branch *)
(* that is checked out no commit that was on it when create began, and none  *)
(* from before create's last look unless the repository was left without a   *)
(* file in the meantime.                                                     *)
THEOREM FirstCommitSparesHead == Spec => InitSparesHead
<1>3. SetupInv /\ FirstCommitInv /\ [Next]_vars =>
        [pc = "update-ref" /\ pc' = "symbolic-ref" /\ host.head = initialRepoBranch =>
           LET lost == Reachable(host) \ History(dag, {host'.refs[b] : b \in Branches}) IN
             /\ \A c \in lost : c > since.commits
             /\ since.bare \/ lost \subseteq late]_vars
  <2> DEFINE lost == Reachable(host) \ History(dag, Heads(host'))
             gone == Ancestors(dag, host.refs[initialRepoBranch]) \ {Initial}
  <2> SUFFICES ASSUME SetupInv, FirstCommitInv, [Next]_vars,
                      pc = "update-ref", pc' = "symbolic-ref", host.head = initialRepoBranch
               PROVE  (\A c \in lost : c > since.commits) /\ (since.bare \/ lost \subseteq late)
    BY DEF Heads
  <2>1. UpdateRef
    BY DEF Next, Create, CreateStart, CreateChecks, GitInit, SymbolicRef, NoInit, Adopt,
       CreateDone, CreateEnds, ResolveSeat, Provision, Operator, Commit, Amend, ChangeFiles,
       InitByHand, Prune, SetVariable, EditProfile, Team, Work, Fetch, PushStart, PushSend,
       PushEnds, vars
  <2>2. host'.refs = [host.refs EXCEPT ![initialRepoBranch] = Initial]
    BY <2>1 DEF UpdateRef, SetupInv, HostInv
  <2>3. host.refs \in [Branches -> NoCommit .. Len(dag)] /\ initialRepoBranch \in Branches
    BY DEF SetupInv, HostInv, Branches, initialRepoBranch
  <2>4. Ancestors(dag, Initial) = {Initial}
    BY ReadIsOlder, AncestorsOf DEF SetupInv, HostInv, Initial
  <2>5. (\A c \in gone : c > since.commits) /\ (since.bare \/ gone \subseteq late)
    BY DEF FirstCommitInv, MadeSince
  <2>6. ASSUME NEW b \in Branches
        PROVE  Ancestors(dag, host.refs[b]) \subseteq History(dag, Heads(host')) \cup gone
    <3>1. host'.refs[b] \in Heads(host') /\ host'.refs[initialRepoBranch] \in Heads(host')
      BY <2>3 DEF Heads
    <3>2. CASE b = initialRepoBranch
      BY <2>2, <2>3, <2>4, <3>1, <3>2 DEF History
    <3>3. CASE b # initialRepoBranch
      BY <2>2, <2>3, <3>1, <3>3 DEF History
    <3> QED BY <3>2, <3>3
  <2> HIDE DEF gone
  <2>7. lost \subseteq gone
    BY <2>6 DEF Reachable, History
  <2> HIDE DEF lost
  <2> QED BY <2>5, <2>7
<1> QED BY <1>3, SetupInvHolds, FirstCommitHolds, PTL DEF Spec, InitSparesHead

(* What is withheld of more commits is withheld of the old ones or new. *)
LEMMA WithheldGrows ==
  ASSUME NEW d, NEW e, Grown(d, e), NEW from, NEW was, was \subseteq 0 .. Len(d),
         NEW now, NEW apart, now \subseteq was \cup apart \cup {Initial}
  PROVE  Withheld(e, from, now) \subseteq Withheld(d, from, was) \cup apart
<1>1. Withheld(e, from, was) = Withheld(d, from, was)
  <2>1. \A x, y : y \subseteq 0 .. Len(d) => Withheld(e, x, y) = Withheld(d, x, y)
    BY GrownKeeps
  <2> QED BY <2>1
<1> QED BY <1>1 DEF Withheld

(* A host that holds nothing else but what came late is as clean as it was.  *)
LEMMA CleanStays ==
  ASSUME HostInv, CleanInv, Grown(dag, dag'), late \subseteq late',
         Holds(host)' \subseteq Holds(host) \cup late' \cup {Initial},
         pc' \in Planning \ {"resolve"} =>
           /\ pc \in Planning \ {"resolve"}
           /\ plan'.profile = plan.profile /\ plan'.initialize = plan.initialize
  PROVE  CleanInv'
<1> SUFFICES ASSUME pc' \in Planning \ {"resolve"},
                    NEW s \in Seats(plan.profile) \ plan.initialize
             PROVE  Withheld(dag', DeclaredIn(plan.profile, s), Holds(host)') \subseteq late'
  BY DEF CleanInv
<1>1. Withheld(dag, DeclaredIn(plan.profile, s), Holds(host)) \subseteq late
  BY DEF CleanInv
<1>2. Holds(host) \subseteq 0 .. Len(dag)
  BY DEF HostInv, Closed
<1> DEFINE decls == DeclaredIn(plan.profile, s)
           has == Holds(host)
           hasNow == Holds(host)'
<1>3. /\ has \subseteq 0 .. Len(dag) /\ hasNow \subseteq has \cup late' \cup {Initial}
      /\ Withheld(dag, decls, has) \subseteq late
  BY <1>1, <1>2
<1> HIDE DEF decls, has, hasNow
<1>4. Withheld(dag', decls, hasNow) \subseteq Withheld(dag, decls, has) \cup late'
  BY <1>3, WithheldGrows
<1>5. Withheld(dag', decls, hasNow) \subseteq late'
  BY <1>3, <1>4
<1> QED BY <1>5 DEF decls, hasNow

LEMMA CleanApart ==
  ASSUME HostInv, CleanInv, UNCHANGED <<host, dag, late, plan>>,
         pc' \in Planning \ {"resolve"} => pc \in Planning \ {"resolve"}
  PROVE  CleanInv'
<1>1. Grown(dag, dag')
  BY GrownItself DEF HostInv
<1>2. Holds(host)' = Holds(host)
  BY DEF Holds, Reachable
<1> QED BY <1>1, <1>2, CleanStays

(* create's look: what a seat is declared is on no commit of the clone.      *)
LEMMA ChecksClean == ASSUME HostInv, PlanOneBase, CreateChecks PROVE CleanInv'
<1>1. /\ UNCHANGED <<host, dag, plan>> /\ pc = "resolve"
      /\ CleanOfWithheld(host, plan.profile, plan.initialize)
  BY DEF CreateChecks
<1>2. OneRepository(plan.profile)
  BY <1>1 DEF PlanOneBase, Planning
<1>3. ASSUME NEW s \in Seats(plan.profile) \ plan.initialize
      PROVE  Withheld(dag, DeclaredIn(plan.profile, s), Holds(host)) = {}
  <2>1. PICK r \in plan.profile.seats[s].repos : plan.profile.seats[s].repos = {r}
    <3> DEFINE repos == plan.profile.seats[s].repos
    <3>1. repos # {} /\ \A q, r \in repos : q = r
      BY <1>2 DEF OneRepository, ReposRead
    <3> HIDE DEF repos
    <3>2. \E r \in repos : repos = {r}
      BY <3>1
    <3> QED BY <3>2 DEF repos
  <2>2. DeclaredIn(plan.profile, s) = r.withhold
    BY <2>1 DEF DeclaredIn
  <2>3. CASE r.withhold = {}
    BY <2>2, <2>3 DEF Withheld, Hit
  <2>4. CASE r.withhold # {}
    <3>1. Withheld(dag, r.withhold, Reachable(host)) = {} /\ host.loose = {}
      BY <1>1, <2>1, <2>4 DEF CleanOfWithheld
    <3> QED BY <2>2, <3>1 DEF Holds
  <2> QED BY <2>3, <2>4
<1>4. Holds(host)' = Holds(host)
  BY <1>1 DEF Holds, Reachable
<1> QED BY <1>1, <1>3, <1>4 DEF CleanInv

LEMMA StepClean ==
  ASSUME HostInv, PlanOneBase, FirstCommitInv, CleanInv, [Next]_vars
  PROVE  CleanInv'
<1> USE DEF Planning
<1>0. Grown(dag, dag)
  BY GrownItself DEF HostInv
<1>1. CASE CreateStart
  BY <1>1 DEF CreateStart, CleanInv
<1>2. ASSUME NEW s \in Seats(plan.profile), ResolveSeat(s) PROVE CleanInv'
  BY <1>2 DEF ResolveSeat, CleanInv
<1>3. CASE CreateChecks
  BY <1>3, ChecksClean
<1>4. CASE GitInit \/ SymbolicRef
  <2>1. /\ UNCHANGED <<dag, late, plan>> /\ pc \in Planning \ {"resolve"}
        /\ host'.refs = host.refs /\ host'.loose = host.loose
    BY <1>4 DEF GitInit, SymbolicRef, HostInv
  <2>2. Holds(host)' = Holds(host)
    BY <2>1 DEF Holds, Reachable
  <2> QED BY <1>0, <2>1, <2>2, CleanStays
<1>5. CASE UpdateRef
  <2>1. UNCHANGED <<dag, late, plan>> /\ pc \in Planning \ {"resolve"}
    BY <1>5 DEF UpdateRef
  <2>2. Holds(host)' \subseteq Holds(host) \cup {Initial}
    BY <1>5, UpdateRefBrings
  <2> QED BY <1>0, <2>1, <2>2, CleanStays
<1>6. CASE NoInit \/ Adopt
  <2>1. UNCHANGED <<host, dag, late, plan>> /\ pc \in Planning \ {"resolve"}
    BY <1>6 DEF NoInit, Adopt, repo
  <2> QED BY <2>1, CleanApart
<1>7. ASSUME NEW s \in Seats(record.campaign.profile), Provision(s) PROVE CleanInv'
  BY <1>7, CleanApart DEF Provision, repo
<1>8. CASE CreateDone \/ CreateEnds
  BY <1>8 DEF CreateDone, CreateEnds, CleanInv
<1>9. CASE Commit \/ Amend
  <2>1. Grown(dag, dag')
    BY <1>9, CommitKeepsHost, AmendKeepsHost
  <2>2. Holds(host)' \subseteq Holds(host) \cup late' /\ late \subseteq late'
    BY <1>9, CommitBrings, AmendBrings
  <2>3. pc' = pc /\ (pc # "resolve" => plan' = plan)
    BY <1>9 DEF Commit, Amend, Tear
  <2> QED BY <2>1, <2>2, <2>3, CleanStays
<1>10. CASE Prune
  <2>1. /\ UNCHANGED <<dag, late, pc, plan>> /\ host'.refs = host.refs /\ host'.loose = {}
    BY <1>10 DEF Prune, HostInv
  <2>2. Holds(host)' \subseteq Holds(host)
    BY <2>1 DEF Holds, Reachable
  <2> QED BY <1>0, <2>1, <2>2, CleanStays
<1>11. CASE SetVariable \/ EditProfile
  BY <1>11, CleanApart DEF SetVariable, EditProfile, repo
<1>14. CASE ChangeFiles \/ InitByHand
  BY <1>0, <1>14, EditKeepsHost, CleanStays
<1>12. CASE Team
  <2>1. UNCHANGED <<host, late, pc, plan>>
    BY <1>12 DEF Team, Work, Fetch, PushStart, PushSend, PushEnds, repo
  <2>2. CASE pc = "running"
    BY <2>1, <2>2 DEF CleanInv
  <2>3. CASE pc # "running"
    <3>1. PushSend \/ PushEnds
      BY <1>12, <2>3 DEF Team, Work, Fetch, PushStart
    <3>2. dag' = dag
      BY <3>1 DEF PushSend, PushEnds, repo
    <3> QED BY <2>1, <3>2, CleanApart
  <2> QED BY <2>2, <2>3
<1>13. CASE UNCHANGED vars
  BY <1>13, CleanApart DEF vars, repo
<1> QED
  BY <1>1, <1>2, <1>3, <1>4, <1>5, <1>6, <1>7, <1>8, <1>9, <1>10, <1>11, <1>12, <1>13, <1>14
  DEF Next, Create, Operator

(* Machines are made by Provision alone. *)
LEMMA MadeByProvision ==
  ASSUME CredentialInv, [Next]_vars, NEW s \in DOMAIN machines' \ DOMAIN machines
  PROVE  s \in Seats(record.campaign.profile) /\ Provision(s)
<1>1. ~Team
  BY TeamKeeps
<1>2. PICK t \in Seats(record.campaign.profile) : Provision(t)
  <2> SUFFICES ASSUME \A t \in Seats(record.campaign.profile) : ~Provision(t)
               PROVE  machines' = machines
    OBVIOUS
  <2>1. CASE CreateStart \/ GitInit \/ UpdateRef \/ SymbolicRef \/ NoInit \/ Adopt
             \/ CreateChecks \/ CreateDone \/ CreateEnds
    BY <2>1 DEF CreateStart, GitInit, UpdateRef, SymbolicRef, NoInit, Adopt,
       CreateChecks, CreateDone, CreateEnds, team
  <2>2. ASSUME NEW t \in Seats(plan.profile), ResolveSeat(t) PROVE machines' = machines
    BY <2>2 DEF ResolveSeat, team
  <2>3. CASE Operator
    BY <2>3 DEF Operator, Commit, Amend, ChangeFiles, InitByHand, Prune,
         SetVariable, EditProfile, team
  <2>4. CASE UNCHANGED vars
    BY <2>4 DEF vars, team
  <2> QED BY <1>1, <2>1, <2>2, <2>3, <2>4 DEF Next, Create
<1>3. DOMAIN machines' = DOMAIN machines \cup {t}
  BY <1>2 DEF Provision
<1> QED BY <1>2, <1>3

(* A clone holds a commit with a withheld path only if that commit came to   *)
(* the host after create's last look, or create made the repository itself,  *)
(* or the profile was edited between two attempts.                           *)
THEOREM ClonesAreClean == Spec => ClonesHoldNothingWithheld
<1>1. Init => FirstCommitInv /\ CleanInv
  BY InitFirstCommit DEF Init, CleanInv, Planning
<1>2. SetupInv /\ FirstCommitInv /\ CleanInv /\ [Next]_vars => (FirstCommitInv /\ CleanInv)'
  BY StepFirstCommit, StepClean DEF SetupInv, BaseInv
<1>3. SetupInv /\ CleanInv /\ [Next]_vars =>
        [\A s \in DOMAIN machines' \ DOMAIN machines :
           s \notin plan.initialize /\ plan.profile = record.campaign.profile =>
             Withheld(dag, Declared(s), machines'[s].store) \subseteq late]_vars
  <2> SUFFICES ASSUME SetupInv, CleanInv, [Next]_vars,
                      NEW s \in DOMAIN machines' \ DOMAIN machines,
                      s \notin plan.initialize, plan.profile = record.campaign.profile
               PROVE  Withheld(dag, Declared(s), machines'[s].store) \subseteq late
    OBVIOUS
  <2>1. s \in Seats(record.campaign.profile) /\ Provision(s)
    BY MadeByProvision DEF SetupInv
  <2>2. pc = "provision" /\ machines'[s].store = Holds(host)
    BY <2>1 DEF Provision, CreateArgs
  <2>3. Declared(s) = DeclaredIn(plan.profile, s)
    BY DEF Declared, DeclaredIn
  <2>4. Withheld(dag, DeclaredIn(plan.profile, s), Holds(host)) \subseteq late
    BY <2>1, <2>2 DEF CleanInv, Planning
  <2> QED BY <2>2, <2>3, <2>4
<1> QED BY <1>1, <1>2, <1>3, SetupInvHolds, PTL DEF Spec, ClonesHoldNothingWithheld
=============================================================================
