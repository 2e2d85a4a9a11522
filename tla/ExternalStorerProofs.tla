------------------------ MODULE ExternalStorerProofs ------------------------
(***************************************************************************)
(* Proofs about FileWriter and ExternalStorer, for every set of documents, *)
(* every path and every number of entries that are kept.                   *)
(***************************************************************************)
EXTENDS ExternalStorer, FiniteSetTheorems, SequenceTheorems,
        WellFoundedInduction, TLAPS

(* The strings, as a set the proofs need not look into.                    *)
Names == STRING

(* Induction over the parts of a path, for a set instead of a predicate.   *)
LEMMA InductionOnNat ==
  ASSUME NEW T, 0 \in T, \A n \in Nat : n \in T => n + 1 \in T
  PROVE  Nat \subseteq T
<1> DEFINE R == {p \in Nat \X Nat : p[1] < p[2]}
<1>1. IsWellFoundedOn(R, Nat)
  <2>1. OpToRel(<, Nat) = R
    BY DEF OpToRel
  <2> QED
    BY <2>1, NatLessThanWellFounded
<1>2. SUFFICES ASSUME Nat \ T # {} PROVE FALSE
  OBVIOUS
<1>3. PICK x \in Nat \ T : \A y \in Nat \ T : <<y, x>> \notin R
  <2> HIDE DEF R
  <2>1. Nat \ T \subseteq Nat
    OBVIOUS
  <2> QED
    BY <1>1, <1>2, <2>1, WFMin, Zenon
<1>4. PICK y \in Nat : x = y + 1
  <2>1. x # 0
    BY <1>3
  <2> QED
    BY <1>3, <2>1, x - 1 \in Nat
<1>5. <<y, x>> \in R
  BY <1>3, <1>4
<1>6. y \in T
  BY <1>3, <1>5
<1> QED
  BY <1>3, <1>4, <1>6

(* The same for the numbers up to a bound.                                 *)
LEMMA InductionUpTo ==
  ASSUME NEW N \in Nat, NEW T,
         0 \in T, \A n \in 0 .. N - 1 : n \in T => n + 1 \in T
  PROVE  0 .. N \subseteq T
<1> DEFINE U == {n \in Nat : n <= N => n \in T}
<1>1. 0 \in U
  OBVIOUS
<1>2. ASSUME NEW n \in Nat, n \in U PROVE n + 1 \in U
  <2>1. CASE n + 1 <= N
    <3>1. n \in 0 .. N - 1 /\ n \in T
      BY <1>2, <2>1
    <3>2. n + 1 \in T
      BY <3>1
    <3> QED
      BY <3>2
  <2>2. CASE ~(n + 1 <= N)
    BY <2>2
  <2> QED
    BY <2>1, <2>2
<1>3. Nat \subseteq U
  <2> HIDE DEF U
  <2> QED
    BY <1>1, <1>2, InductionOnNat
<1> QED
  BY <1>3

-----------------------------------------------------------------------------
(* Walk and Depth are what their recursive definitions say.                *)

LEMMA DepthDef ==
  ASSUME NEW parts \in Seq(Names)
  PROVE  /\ Depth(parts)[0] = 0
         /\ \A n \in 1 .. Len(parts) :
              Depth(parts)[n] = Depth(parts)[n - 1] + Deeper(parts[n])
<1> DEFINE Rec(n, g) ==
      g = [k \in 0 .. n |-> IF k = 0 THEN 0 ELSE g[k - 1] + Deeper(parts[k])]
    T == {n \in Nat : \E g : Rec(n, g)}
<1>1. 0 \in T
  <2> DEFINE g == [k \in 0 .. 0 |-> 0]
  <2>1. g = [k \in 0 .. 0 |->
               IF k = 0 THEN 0 ELSE g[k - 1] + Deeper(parts[k])]
    BY \A k \in 0 .. 0 : k = 0
  <2> QED
    BY <2>1
<1>2. ASSUME NEW n \in Nat, n \in T PROVE n + 1 \in T
  <2>1. PICK g : Rec(n, g)
    BY <1>2
  <2> DEFINE h == [k \in 0 .. n + 1 |->
                     IF k = n + 1 THEN g[n] + Deeper(parts[n + 1]) ELSE g[k]]
  <2>2. ASSUME NEW k \in 0 .. n + 1
        PROVE  h[k] = IF k = 0 THEN 0 ELSE h[k - 1] + Deeper(parts[k])
    <3>1. CASE k = n + 1
      <4>1. k # 0 /\ k - 1 = n /\ n \in 0 .. n + 1 /\ n # n + 1
        BY <3>1
      <4>2. h[k - 1] = g[n]
        BY <4>1
      <4> QED
        BY <3>1, <4>1, <4>2
    <3>2. CASE k # n + 1 /\ k # 0
      <4>1. k \in 0 .. n /\ k - 1 \in 0 .. n + 1 /\ k - 1 # n + 1
        BY <3>2
      <4>2. g[k] = g[k - 1] + Deeper(parts[k])
        BY <2>1, <3>2, <4>1
      <4>3. h[k] = g[k] /\ h[k - 1] = g[k - 1]
        BY <3>2, <4>1
      <4> QED
        BY <3>2, <4>2, <4>3
    <3>3. CASE k # n + 1 /\ k = 0
      <4>1. k \in 0 .. n
        BY <3>3
      <4>2. g[k] = 0
        BY <2>1, <3>3, <4>1
      <4> QED
        BY <3>3, <4>2
    <3> QED
      BY <3>1, <3>2, <3>3
  <2>3. h = [k \in 0 .. n + 1 |->
               IF k = 0 THEN 0 ELSE h[k - 1] + Deeper(parts[k])]
    <3>1. h = [k \in 0 .. n + 1 |-> h[k]]
      OBVIOUS
    <3> HIDE DEF h
    <3> QED
      BY <2>2, <3>1
  <2> HIDE DEF h
  <2>4. Rec(n + 1, h)
    BY <2>3
  <2> HIDE DEF Rec
  <2> QED
    BY <2>4
<1>3. Len(parts) \in T
  <2> HIDE DEF T
  <2> QED
    BY <1>1, <1>2, InductionOnNat, LenProperties
<1>4. Rec(Len(parts), Depth(parts))
  <2>1. PICK g : Rec(Len(parts), g)
    BY <1>3
  <2> QED
    BY <2>1 DEF Depth
<1>5. Len(parts) \in Nat
  BY LenProperties
<1> QED
  <2> DEFINE d == Depth(parts)
  <2>1. d = [k \in 0 .. Len(parts) |->
               IF k = 0 THEN 0 ELSE d[k - 1] + Deeper(parts[k])]
    BY <1>4
  <2> HIDE DEF d
  <2>2. /\ d[0] = 0
        /\ \A n \in 1 .. Len(parts) : d[n] = d[n - 1] + Deeper(parts[n])
    BY <1>5, <2>1
  <2> QED
    BY <2>2 DEF d

LEMMA WalkDef ==
  ASSUME NEW parts \in Seq(Names)
  PROVE  /\ Walk(parts)[0] = <<>>
         /\ \A n \in 1 .. Len(parts) :
              Walk(parts)[n] = Follow(Walk(parts)[n - 1], parts[n])
<1> DEFINE Rec(n, g) ==
      g = [k \in 0 .. n |-> IF k = 0 THEN <<>> ELSE Follow(g[k - 1], parts[k])]
    T == {n \in Nat : \E g : Rec(n, g)}
<1>1. 0 \in T
  <2> DEFINE g == [k \in 0 .. 0 |-> <<>>]
  <2>1. g = [k \in 0 .. 0 |->
               IF k = 0 THEN <<>> ELSE Follow(g[k - 1], parts[k])]
    BY \A k \in 0 .. 0 : k = 0
  <2> QED
    BY <2>1
<1>2. ASSUME NEW n \in Nat, n \in T PROVE n + 1 \in T
  <2>1. PICK g : Rec(n, g)
    BY <1>2
  <2> DEFINE h == [k \in 0 .. n + 1 |->
                     IF k = n + 1 THEN Follow(g[n], parts[n + 1]) ELSE g[k]]
  <2>2. ASSUME NEW k \in 0 .. n + 1
        PROVE  h[k] = IF k = 0 THEN <<>> ELSE Follow(h[k - 1], parts[k])
    <3>1. CASE k = n + 1
      <4>1. k # 0 /\ k - 1 = n /\ n \in 0 .. n + 1 /\ n # n + 1
        BY <3>1
      <4>2. h[k - 1] = g[n]
        BY <4>1
      <4> QED
        BY <3>1, <4>1, <4>2
    <3>2. CASE k # n + 1 /\ k # 0
      <4>1. k \in 0 .. n /\ k - 1 \in 0 .. n + 1 /\ k - 1 # n + 1
        BY <3>2
      <4>2. g[k] = Follow(g[k - 1], parts[k])
        BY <2>1, <3>2, <4>1
      <4>3. h[k] = g[k] /\ h[k - 1] = g[k - 1]
        BY <3>2, <4>1
      <4> QED
        BY <3>2, <4>2, <4>3
    <3>3. CASE k # n + 1 /\ k = 0
      <4>1. k \in 0 .. n
        BY <3>3
      <4>2. g[k] = <<>>
        BY <2>1, <3>3, <4>1
      <4> QED
        BY <3>3, <4>2
    <3> QED
      BY <3>1, <3>2, <3>3
  <2>3. h = [k \in 0 .. n + 1 |->
               IF k = 0 THEN <<>> ELSE Follow(h[k - 1], parts[k])]
    <3>1. h = [k \in 0 .. n + 1 |-> h[k]]
      OBVIOUS
    <3> HIDE DEF h
    <3> QED
      BY <2>2, <3>1
  <2> HIDE DEF h
  <2>4. Rec(n + 1, h)
    BY <2>3
  <2> HIDE DEF Rec
  <2> QED
    BY <2>4
<1>3. Len(parts) \in T
  <2> HIDE DEF T
  <2> QED
    BY <1>1, <1>2, InductionOnNat, LenProperties
<1>4. Rec(Len(parts), Walk(parts))
  <2>1. PICK g : Rec(Len(parts), g)
    BY <1>3
  <2> QED
    BY <2>1 DEF Walk
<1>5. Len(parts) \in Nat
  BY LenProperties
<1> QED
  <2> DEFINE d == Walk(parts)
  <2>1. d = [k \in 0 .. Len(parts) |->
               IF k = 0 THEN <<>> ELSE Follow(d[k - 1], parts[k])]
    BY <1>4
  <2> HIDE DEF d
  <2>2. /\ d[0] = <<>>
        /\ \A n \in 1 .. Len(parts) : d[n] = Follow(d[n - 1], parts[n])
    BY <1>5, <2>1
  <2> QED
    BY <2>2 DEF d

-----------------------------------------------------------------------------
(* Paths.                                                                  *)

LEMMA PrefixIff ==
  ASSUME NEW s \in Seq(Names), NEW t \in Seq(Names)
  PROVE  IsPrefix(s, t) <=>
           Len(s) <= Len(t) /\ \A i \in 1 .. Len(s) : s[i] = t[i]
<1>1. Len(s) \in Nat /\ Len(t) \in Nat
  BY LenProperties
<1>2. SubSeq(s, 1, Len(s)) = s
  BY SubSeqFull
<1>3. ASSUME Len(s) <= Len(t)
      PROVE  /\ SubSeq(t, 1, Len(s)) \in Seq(Names)
             /\ Len(SubSeq(t, 1, Len(s))) = Len(s)
             /\ \A i \in 1 .. Len(s) : SubSeq(t, 1, Len(s))[i] = t[i]
  <2>1. \A i \in 1 .. Len(s) : t[i] \in Names
    BY <1>1, <1>3, ElementOfSeq
  <2> QED
    BY <1>1, <1>3, <2>1, SubSeqProperties
<1>4. ASSUME Len(s) <= Len(t), \A i \in 1 .. Len(s) : s[i] = t[i]
      PROVE  s = SubSeq(t, 1, Len(s))
  BY <1>3, <1>4, SeqEqual
<1> QED
  BY <1>2, <1>3, <1>4 DEF IsPrefix

LEMMA AppendFacts ==
  ASSUME NEW S, NEW s \in Seq(S), NEW x \in S
  PROVE  /\ Append(s, x) \in Seq(S)
         /\ Len(Append(s, x)) = Len(s) + 1
         /\ \A i \in 1 .. Len(s) : Append(s, x)[i] = s[i]
         /\ Append(s, x)[Len(s) + 1] = x
         /\ ToSet(Append(s, x)) = ToSet(s) \cup {x}
         /\ Front(Append(s, x)) = s
<1>1. /\ Append(s, x) \in Seq(S)
      /\ Len(Append(s, x)) = Len(s) + 1
      /\ \A i \in 1 .. Len(s) : Append(s, x)[i] = s[i]
      /\ Append(s, x)[Len(s) + 1] = x
  OBVIOUS
<1>2. /\ DOMAIN s = 1 .. Len(s) /\ DOMAIN Append(s, x) = 1 .. Len(s) + 1
      /\ Len(s) \in Nat
  BY <1>1, LenProperties
<1>3. ToSet(Append(s, x)) = ToSet(s) \cup {x}
  BY <1>1, <1>2 DEF ToSet
<1>4. Front(Append(s, x)) = s
  BY <1>2 DEF Front
<1> QED
  BY <1>1, <1>3, <1>4

LEMMA LastInAppend ==
  ASSUME NEW S, NEW s \in Seq(S), NEW x \in S
  PROVE  x \in ToSet(Append(s, x))
BY AppendFacts

LEMMA FrontFacts ==
  ASSUME NEW S, NEW s \in Seq(S), s # <<>>
  PROVE  /\ Front(s) \in Seq(S)
         /\ Len(Front(s)) = Len(s) - 1
         /\ \A i \in 1 .. Len(s) - 1 : Front(s)[i] = s[i]
         /\ ToSet(Front(s)) \subseteq ToSet(s)
<1>1. PICK t \in Seq(S), e \in S : s = Append(t, e)
  BY SequenceEmptyOrAppend
<1>2. Front(s) = t /\ Len(s) = Len(t) + 1 /\ Len(t) \in Nat
  BY <1>1, AppendFacts, LenProperties
<1> QED
  BY <1>1, <1>2, AppendFacts

(* The kinds of parts.                                                     *)
Up(part) == part = ".."
Here(part) == part = "."
Gap(part) == part = ""
Plain(part) == part \notin {".", "..", ""}

LEMMA Kinds ==
  ASSUME NEW part
  PROVE  /\ Up(part) \/ Here(part) \/ Gap(part) \/ Plain(part)
         /\ Up(part) => ~Here(part) /\ ~Gap(part) /\ ~Plain(part)
BY DEF Up, Here, Gap, Plain

LEMMA FollowKinds ==
  ASSUME NEW at, NEW part
  PROVE  /\ Plain(part) => Follow(at, part) = Append(at, part)
         /\ Here(part) \/ Gap(part) => Follow(at, part) = at
         /\ Up(part) /\ at # <<>> => Follow(at, part) = Front(at)
         /\ Up(part) /\ at = <<>> => Follow(at, part) = at
<1>1. Plain(part) => Follow(at, part) = Append(at, part)
  BY DEF Follow, Plain
<1>2. Here(part) \/ Gap(part) => Follow(at, part) = at
  BY DEF Follow, Here, Gap
<1>3. Up(part) /\ at # <<>> => Follow(at, part) = Front(at)
  BY DEF Follow, Up
<1>4. Up(part) /\ at = <<>> => Follow(at, part) = at
  BY DEF Follow, Up
<1> QED
  BY <1>1, <1>2, <1>3, <1>4

LEMMA FollowType ==
  ASSUME NEW at \in Seq(Names), NEW part \in Names
  PROVE  /\ Follow(at, part) \in Seq(Names)
         /\ ToSet(Follow(at, part)) \subseteq ToSet(at) \cup {part}
<1>1. CASE Follow(at, part) = at
  BY <1>1
<1>2. CASE at # <<>> /\ Follow(at, part) = Front(at)
  BY <1>2, FrontFacts
<1>3. CASE Follow(at, part) = Append(at, part)
  BY <1>3, AppendFacts
<1> QED
  BY <1>1, <1>2, <1>3, Kinds, FollowKinds

(* Walking along a path meets no names but those of its parts.             *)
LEMMA WalkType ==
  ASSUME NEW parts \in Seq(Names), NEW n \in 0 .. Len(parts)
  PROVE  /\ Walk(parts)[n] \in Seq(Names)
         /\ ToSet(Walk(parts)[n]) \subseteq ToSet(parts)
<1> DEFINE w == Walk(parts)
    T == {k \in 0 .. Len(parts) :
            w[k] \in Seq(Names) /\ ToSet(w[k]) \subseteq ToSet(parts)}
<1>1. Len(parts) \in Nat /\ DOMAIN parts = 1 .. Len(parts)
  BY LenProperties
<1>2. 0 \in T
  <2>1. w[0] = <<>>
    BY WalkDef
  <2>2. <<>> \in Seq(Names) /\ ToSet(<<>>) = {}
    BY DEF ToSet
  <2>3. 0 \in 0 .. Len(parts)
    BY <1>1
  <2> HIDE DEF w
  <2> QED
    BY <2>1, <2>2, <2>3
<1>3. ASSUME NEW k \in 0 .. Len(parts) - 1, k \in T PROVE k + 1 \in T
  <2>1. k + 1 \in 1 .. Len(parts)
    BY <1>1
  <2>2. w[k + 1] = Follow(w[(k + 1) - 1], parts[k + 1])
    BY <2>1, WalkDef
  <2>3. (k + 1) - 1 = k
    BY <1>1
  <2>4. parts[k + 1] \in Names /\ parts[k + 1] \in ToSet(parts)
    BY <1>1, <2>1, ElementOfSeq DEF ToSet
  <2>5. w[k] \in Seq(Names) /\ ToSet(w[k]) \subseteq ToSet(parts)
    BY <1>3
  <2> HIDE DEF w
  <2>6. /\ Follow(w[k], parts[k + 1]) \in Seq(Names)
        /\ ToSet(Follow(w[k], parts[k + 1]))
             \subseteq ToSet(w[k]) \cup {parts[k + 1]}
    BY <2>4, <2>5, FollowType, Zenon
  <2>7. k + 1 \in 0 .. Len(parts)
    BY <2>1
  <2>8. w[k + 1] = Follow(w[k], parts[k + 1])
    BY <2>2, <2>3
  <2> QED
    BY <2>4, <2>5, <2>6, <2>7, <2>8
<1> HIDE DEF T
<1>4. 0 .. Len(parts) \subseteq T
  BY <1>1, <1>2, <1>3, InductionUpTo
<1> QED
  BY <1>4 DEF T

(* How a path goes on does not change where it leads up to there.          *)
LEMMA WalkAgrees ==
  ASSUME NEW s \in Seq(Names), NEW t \in Seq(Names),
         NEW n \in Nat, n <= Len(s), n <= Len(t),
         \A i \in 1 .. n : s[i] = t[i]
  PROVE  Walk(s)[n] = Walk(t)[n]
<1> DEFINE T == {k \in 0 .. n : Walk(s)[k] = Walk(t)[k]}
<1>1. 0 \in T
  BY WalkDef
<1>2. ASSUME NEW k \in 0 .. n - 1, k \in T PROVE k + 1 \in T
  <2>1. /\ k + 1 \in 1 .. Len(s) /\ k + 1 \in 1 .. Len(t) /\ k + 1 \in 1 .. n
        /\ (k + 1) - 1 = k
    BY LenProperties
  <2>2. /\ Walk(s)[k + 1] = Follow(Walk(s)[k], s[k + 1])
        /\ Walk(t)[k + 1] = Follow(Walk(t)[k], t[k + 1])
    BY <2>1, WalkDef
  <2>3. s[k + 1] = t[k + 1]
    BY <2>1
  <2>4. Walk(s)[k] = Walk(t)[k]
    BY <1>2
  <2> QED
    BY <2>1, <2>2, <2>3, <2>4
<1> HIDE DEF T
<1>3. 0 .. n \subseteq T
  BY <1>1, <1>2, InductionUpTo
<1> QED
  BY <1>3 DEF T

-----------------------------------------------------------------------------
(* isValidPath is exact.                                                   *)

LEMMA RootNames ==
  /\ baseDir \in Seq(Names) /\ Len(baseDir) \in Nat
  /\ \A i \in 1 .. Len(baseDir) : baseDir[i] \in Names /\ Plain(baseDir[i])
<1>1. baseDir \in Seq(Names) /\ Len(baseDir) \in Nat
  BY PathAssumption, LenProperties DEF Names
<1>2. DOMAIN baseDir = 1 .. Len(baseDir)
  BY <1>1, LenProperties
<1>3. \A i \in 1 .. Len(baseDir) : baseDir[i] \in Names
  BY <1>1, ElementOfSeq
<1>4. \A i \in 1 .. Len(baseDir) : Plain(baseDir[i])
  BY <1>2, PathAssumption DEF Plain
<1> QED
  BY <1>1, <1>3, <1>4

LEMMA JoinFacts ==
  ASSUME NEW parts \in Seq(Names)
  PROVE  /\ baseDir \o parts \in Seq(Names)
         /\ Len(baseDir \o parts) = Len(baseDir) + Len(parts)
         /\ \A i \in 1 .. Len(baseDir) : (baseDir \o parts)[i] = baseDir[i]
         /\ \A i \in 1 .. Len(parts) :
              (baseDir \o parts)[Len(baseDir) + i] = parts[i]
<1>1. Len(parts) \in Nat /\ Len(baseDir) \in Nat /\ baseDir \in Seq(Names)
  BY RootNames, LenProperties
<1> QED
  BY <1>1, ConcatProperties

(* The walk comes to the root folder first.                                *)
LEMMA RootWalk ==
  ASSUME NEW parts \in Seq(Names)
  PROVE  Walk(baseDir \o parts)[Len(baseDir)] = baseDir
<1> DEFINE B == Len(baseDir)
           full == baseDir \o parts
           w == Walk(full)
           Follows(k) == /\ w[k] \in Seq(Names)
                         /\ Len(w[k]) = k
                         /\ \A i \in 1 .. k : w[k][i] = baseDir[i]
           T == {k \in 0 .. B : Follows(k)}
<1>1. /\ B \in Nat /\ full \in Seq(Names)
      /\ Len(full) = B + Len(parts) /\ Len(parts) \in Nat
      /\ \A i \in 1 .. B : /\ full[i] = baseDir[i]
                           /\ baseDir[i] \in Names /\ Plain(baseDir[i])
  BY RootNames, JoinFacts, LenProperties
<1> HIDE DEF full, B
<1>2. 0 \in T
  <2>1. w[0] = <<>>
    BY <1>1, WalkDef
  <2>2. <<>> \in Seq(Names) /\ Len(<<>>) = 0
    OBVIOUS
  <2>3. Follows(0)
    BY <2>1, <2>2
  <2> HIDE DEF Follows
  <2> QED
    BY <1>1, <2>3
<1>3. ASSUME NEW k \in 0 .. B - 1, k \in T PROVE k + 1 \in T
  <2>1. /\ k + 1 \in 1 .. Len(full) /\ k + 1 \in 1 .. B /\ (k + 1) - 1 = k
        /\ k \in Nat
    BY <1>1
  <2>2. w[k + 1] = Follow(w[k], full[k + 1])
    BY <1>1, <2>1, WalkDef
  <2>3. Follows(k)
    BY <1>3
  <2>4. /\ full[k + 1] = baseDir[k + 1]
        /\ baseDir[k + 1] \in Names /\ Plain(baseDir[k + 1])
    BY <1>1, <2>1
  <2> HIDE DEF w
  <2>5. w[k + 1] = Append(w[k], baseDir[k + 1])
    BY <2>2, <2>3, <2>4, FollowKinds
  <2>6. /\ Append(w[k], baseDir[k + 1]) \in Seq(Names)
        /\ Len(Append(w[k], baseDir[k + 1])) = k + 1
        /\ \A i \in 1 .. k : Append(w[k], baseDir[k + 1])[i] = w[k][i]
        /\ Append(w[k], baseDir[k + 1])[k + 1] = baseDir[k + 1]
    BY <2>3, <2>4, AppendFacts
  <2>7. Follows(k + 1)
    <3>1. ASSUME NEW i \in 1 .. k + 1 PROVE w[k + 1][i] = baseDir[i]
      <4>1. i \in 1 .. k \/ i = k + 1
        BY <2>1
      <4> QED
        BY <2>3, <2>5, <2>6, <4>1
    <3> QED
      BY <2>5, <2>6, <3>1
  <2>8. k + 1 \in 0 .. B
    BY <2>1
  <2> HIDE DEF Follows
  <2> QED
    BY <2>7, <2>8
<1> HIDE DEF T
<1>4. 0 .. B \subseteq T
  BY <1>1, <1>2, <1>3, InductionUpTo
<1>5. B \in T
  BY <1>1, <1>4
<1>6. Follows(B)
  BY <1>5 DEF T
<1> HIDE DEF w
<1>7. w[B] = baseDir
  BY <1>6, RootNames, SeqEqual DEF B
<1> QED
  BY <1>7 DEF B, w, full

(* What is below the root stays below it, up to a ".." at the root.        *)
LEMMA StaysBelow ==
  ASSUME NEW at \in Seq(Names), IsPrefix(baseDir, at), NEW part \in Names
  PROVE  /\ Len(at) \in Nat /\ Len(at) >= Len(baseDir)
         /\ ~Up(part) => IsPrefix(baseDir, Follow(at, part))
         /\ Len(at) > Len(baseDir) => IsPrefix(baseDir, Front(at))
<1>1. /\ Len(at) \in Nat /\ Len(at) >= Len(baseDir)
      /\ Len(baseDir) \in Nat /\ baseDir \in Seq(Names)
      /\ \A i \in 1 .. Len(baseDir) : baseDir[i] = at[i]
  BY RootNames, PrefixIff, LenProperties
<1>2. IsPrefix(baseDir, Append(at, part))
  <2>1. /\ Append(at, part) \in Seq(Names)
        /\ Len(Append(at, part)) = Len(at) + 1
        /\ \A i \in 1 .. Len(at) : Append(at, part)[i] = at[i]
    BY AppendFacts
  <2> HIDE DEF Names
  <2>2. \A i \in 1 .. Len(baseDir) : baseDir[i] = Append(at, part)[i]
    BY <1>1, <2>1
  <2>3. Len(baseDir) <= Len(Append(at, part))
    BY <1>1, <2>1
  <2> QED
    BY <1>1, <2>1, <2>2, <2>3, PrefixIff
<1>3. ASSUME Len(at) > Len(baseDir) PROVE IsPrefix(baseDir, Front(at))
  <2>1. at # <<>>
    BY <1>1, <1>3
  <2>2. /\ Front(at) \in Seq(Names)
        /\ Len(Front(at)) = Len(at) - 1
        /\ \A i \in 1 .. Len(at) - 1 : Front(at)[i] = at[i]
    BY <2>1, FrontFacts
  <2>3. \A i \in 1 .. Len(baseDir) : baseDir[i] = Front(at)[i]
    BY <1>1, <1>3, <2>2
  <2>4. Len(baseDir) <= Len(Front(at))
    BY <1>1, <1>3, <2>2
  <2> QED
    BY <1>1, <2>2, <2>3, <2>4, PrefixIff
<1>4. ASSUME ~Up(part) PROVE IsPrefix(baseDir, Follow(at, part))
  <2>1. CASE Here(part) \/ Gap(part)
    BY <2>1, FollowKinds
  <2>2. CASE Plain(part)
    BY <1>2, <2>2, FollowKinds
  <2> QED
    BY <1>4, <2>1, <2>2, Kinds
<1> QED
  BY <1>1, <1>3, <1>4

LEMMA DeeperValues ==
  ASSUME NEW part
  PROVE  /\ Up(part) => Deeper(part) = -1
         /\ Here(part) => Deeper(part) = 0
         /\ Plain(part) \/ Gap(part) => Deeper(part) = 1
         /\ Deeper(part) \in Int
<1>1. Up(part) => Deeper(part) = -1
  BY DEF Deeper, Up
<1>2. Here(part) => Deeper(part) = 0
  BY DEF Deeper, Here
<1>3. Plain(part) \/ Gap(part) => Deeper(part) = 1
  BY DEF Deeper, Plain, Gap
<1> QED
  BY <1>1, <1>2, <1>3, Kinds

LEMMA DepthType ==
  ASSUME NEW parts \in Seq(STRING)
  PROVE  \A n \in 0 .. Len(parts) : Depth(parts)[n] \in Int
<1> DEFINE d == Depth(parts)
           T == {n \in 0 .. Len(parts) : d[n] \in Int}
<1>1. Len(parts) \in Nat
  BY LenProperties
<1>2. /\ d[0] = 0
      /\ \A n \in 1 .. Len(parts) : d[n] = d[n - 1] + Deeper(parts[n])
  BY DepthDef DEF Names
<1> HIDE DEF d
<1>3. 0 \in T
  BY <1>1, <1>2
<1>4. ASSUME NEW n \in 0 .. Len(parts) - 1, n \in T PROVE n + 1 \in T
  <2>1. n + 1 \in 1 .. Len(parts) /\ (n + 1) - 1 = n
    BY <1>1
  <2>2. d[n + 1] = d[n] + Deeper(parts[n + 1])
    BY <1>2, <2>1
  <2> QED
    BY <1>4, <2>1, <2>2, DeeperValues
<1> HIDE DEF T
<1>5. 0 .. Len(parts) \subseteq T
  BY <1>1, <1>3, <1>4, InductionUpTo
<1> QED
  BY <1>5 DEF T, d

(* The first n parts are names or steps up that do not go too far.         *)
Sinks(parts, n) ==
  /\ \A m \in 0 .. n : Depth(parts)[m] >= 0
  /\ \A m \in 1 .. n : ~Gap(parts[m])

(* As long as the depth is not negative the walk is that far below the     *)
(* root.                                                                   *)
LEMMA PathInside ==
  ASSUME NEW parts \in Seq(Names), NEW n \in 0 .. Len(parts), Sinks(parts, n)
  PROVE  LET at == Walk(baseDir \o parts)[Len(baseDir) + n]
         IN /\ IsPrefix(baseDir, at)
            /\ Len(at) = Len(baseDir) + Depth(parts)[n]
<1> DEFINE B == Len(baseDir)
           full == baseDir \o parts
           w == Walk(full)
           d == Depth(parts)
           Follows(k) == /\ w[B + k] \in Seq(Names)
                         /\ IsPrefix(baseDir, w[B + k])
                         /\ Len(w[B + k]) = B + d[k]
           T == {k \in 0 .. n : Follows(k)}
<1>1. /\ B \in Nat /\ full \in Seq(Names) /\ Len(parts) \in Nat
      /\ Len(full) = B + Len(parts)
      /\ \A i \in 1 .. Len(parts) : full[B + i] = parts[i]
      /\ \A i \in 1 .. Len(parts) : parts[i] \in Names
  BY RootNames, JoinFacts, LenProperties, ElementOfSeq
<1>2. w[B] = baseDir
  BY RootWalk
<1>3. /\ d[0] = 0
      /\ \A m \in 1 .. Len(parts) : d[m] = d[m - 1] + Deeper(parts[m])
      /\ \A m \in 0 .. Len(parts) : d[m] \in Int
  BY <1>1, DepthDef, DepthType DEF Names
<1>8. \A m \in 1 .. n : d[m] >= 0 /\ ~Gap(parts[m])
  BY DEF Sinks
<1> HIDE DEF full, B, d
<1>4. 0 \in T
  <2>1. IsPrefix(baseDir, baseDir)
    BY RootNames, PrefixIff
  <2>2. w[B + 0] = baseDir /\ Len(baseDir) = B + d[0]
    BY <1>1, <1>2, <1>3 DEF B
  <2>3. Follows(0)
    <3> HIDE DEF w
    <3> QED
      BY <2>1, <2>2, RootNames
  <2> HIDE DEF Follows
  <2> QED
    BY <1>1, <2>3
<1>5. ASSUME NEW k \in 0 .. n - 1, k \in T PROVE k + 1 \in T
  <2>1. /\ k \in Nat /\ (k + 1) - 1 = k
        /\ k + 1 \in 1 .. Len(parts) /\ k + 1 \in 1 .. n /\ k + 1 \in 0 .. n
        /\ k \in 0 .. n /\ k \in 0 .. Len(parts)
        /\ B + (k + 1) \in 1 .. Len(full)
        /\ (B + (k + 1)) - 1 = B + k
    BY <1>1
  <2>2. w[B + (k + 1)] = Follow(w[B + k], full[B + (k + 1)])
    BY <1>1, <2>1, WalkDef
  <2> DEFINE part == parts[k + 1]
             at == w[B + k]
  <2>3. /\ full[B + (k + 1)] = part /\ part \in Names /\ ~Gap(part)
    BY <1>1, <1>8, <2>1
  <2>4. at \in Seq(Names) /\ IsPrefix(baseDir, at) /\ Len(at) = B + d[k]
    BY <1>5
  <2>5. /\ d[k + 1] = d[k] + Deeper(part)
        /\ d[k] \in Int /\ d[k + 1] \in Int /\ d[k + 1] >= 0
    <3>1. d[k + 1] = d[k] + Deeper(part)
      BY <1>3, <2>1
    <3>2. d[k] \in Int /\ d[k + 1] \in Int
      BY <1>3, <2>1
    <3>3. d[k + 1] >= 0
      BY <1>8, <2>1
    <3> QED
      BY <3>1, <3>2, <3>3
  <2>6. w[B + (k + 1)] = Follow(at, part)
    BY <2>2, <2>3
  <2> HIDE DEF w, part, at
  <2>7. Follow(at, part) \in Seq(Names)
    BY <2>3, <2>4, FollowType
  <2>8. IsPrefix(baseDir, Follow(at, part)) /\ Len(Follow(at, part)) = B + d[k + 1]
    <3>1. CASE Up(part)
      <4>1. d[k] >= 1 /\ d[k + 1] = d[k] - 1
        BY <2>5, <3>1, DeeperValues
      <4>2. Len(at) > Len(baseDir) /\ at # <<>>
        <5>1. Len(at) > Len(baseDir)
          BY <1>1, <2>4, <2>5, <4>1 DEF B
        <5> QED
          BY <1>1, <5>1 DEF B
      <4>3. Follow(at, part) = Front(at)
        BY <3>1, <4>2, FollowKinds
      <4>4. IsPrefix(baseDir, Front(at)) /\ Len(Front(at)) = Len(at) - 1
        BY <2>3, <2>4, <4>2, StaysBelow, FrontFacts
      <4> QED
        BY <1>1, <2>4, <2>5, <4>1, <4>3, <4>4
    <3>2. CASE Here(part)
      <4>1. Follow(at, part) = at
        BY <3>2, FollowKinds
      <4>2. d[k + 1] = d[k]
        BY <2>5, <3>2, DeeperValues
      <4> QED
        BY <2>4, <4>1, <4>2
    <3>3. CASE Plain(part)
      <4>2. Follow(at, part) = Append(at, part)
        BY <3>3, FollowKinds
      <4>3. d[k + 1] = d[k] + 1
        BY <2>5, <3>3, DeeperValues
      <4>4. IsPrefix(baseDir, Follow(at, part))
        BY <2>3, <2>4, <3>3, Kinds, StaysBelow
      <4>5. Len(Append(at, part)) = Len(at) + 1
        BY <2>3, <2>4, AppendFacts
      <4> QED
        BY <1>1, <2>4, <2>5, <4>2, <4>3, <4>4, <4>5
    <3> QED
      BY <2>3, <3>1, <3>2, <3>3, Kinds
  <2>9. Follows(k + 1)
    BY <2>6, <2>7, <2>8
  <2> HIDE DEF Follows
  <2> QED
    BY <2>1, <2>9
<1> HIDE DEF T
<1>6. 0 .. n \subseteq T
  BY <1>4, <1>5, InductionUpTo
<1>7. Follows(n)
  <2>1. n \in T
    BY <1>6
  <2> QED
    BY <2>1 DEF T
<1> QED
  BY <1>7 DEF B, w, full, d

(* What IsPath and IsValidPath say of the parts.                           *)
Proper(parts) == \A i \in 1 .. Len(parts) - 1 : ~Gap(parts[i])
Sound(parts) == \A m \in 0 .. Len(parts) : Depth(parts)[m] >= 0

(* Below an accepted path the walk never leaves the root.                  *)
LEMMA SoundInside ==
  ASSUME NEW parts \in Seq(Names), Proper(parts), Sound(parts),
         NEW n \in 0 .. Len(parts)
  PROVE  /\ Walk(baseDir \o parts)[Len(baseDir) + n] \in Seq(Names)
         /\ IsPrefix(baseDir, Walk(baseDir \o parts)[Len(baseDir) + n])
<1> DEFINE B == Len(baseDir)
           full == baseDir \o parts
           w == Walk(full)
<1>1. B \in Nat /\ Len(parts) \in Nat
  BY RootNames, LenProperties
<1>2. /\ full \in Seq(Names) /\ Len(full) = B + Len(parts)
      /\ \A i \in 1 .. Len(parts) : full[B + i] = parts[i]
  BY JoinFacts
<1> HIDE DEF full, B
<1>3. w[B + n] \in Seq(Names)
  <2>1. B + n \in 0 .. Len(full)
    BY <1>1, <1>2
  <2> QED
    BY <1>2, <2>1, WalkType
<1> HIDE DEF w
<1>4. ASSUME n = 0 \/ n < Len(parts) \/ ~Gap(parts[n])
      PROVE  IsPrefix(baseDir, w[B + n])
  <2>1. \A m \in 1 .. n : ~Gap(parts[m])
    BY <1>1, <1>4 DEF Proper
  <2>2. Sinks(parts, n)
    BY <1>1, <2>1 DEF Sinks, Sound
  <2> QED
    BY <2>2, PathInside DEF w, full, B
<1>5. ASSUME n > 0, n = Len(parts), Gap(parts[n])
      PROVE  IsPrefix(baseDir, w[B + n])
  <2>1. /\ n - 1 \in 0 .. Len(parts) /\ B + n \in 1 .. Len(full)
        /\ (B + n) - 1 = B + (n - 1)
    BY <1>1, <1>2, <1>5
  <2>2. \A m \in 1 .. n - 1 : ~Gap(parts[m])
    BY <1>1, <1>5 DEF Proper
  <2>3. Sinks(parts, n - 1)
    BY <1>1, <1>5, <2>2 DEF Sinks, Sound
  <2>4. IsPrefix(baseDir, w[B + (n - 1)])
    BY <2>1, <2>3, PathInside DEF w, full, B
  <2>5. w[B + n] = Follow(w[B + (n - 1)], full[B + n])
    BY <1>2, <2>1, WalkDef DEF w
  <2>6. Gap(full[B + n])
    BY <1>1, <1>2, <1>5
  <2>7. w[B + n] = w[B + (n - 1)]
    BY <2>5, <2>6, FollowKinds
  <2> QED
    BY <2>4, <2>7
<1>6. n \in Nat /\ n <= Len(parts)
  BY <1>1
<1> QED
  BY <1>1, <1>3, <1>4, <1>5, <1>6 DEF w, full, B

(* Where the first n parts of a path lead to is a place on the walk along  *)
(* all of it.                                                              *)
LEMMA VisitedIs ==
  ASSUME NEW path, IsPath(path), NEW n \in 0 .. Len(path.parts)
  PROVE  Visited(path, n) = Walk(baseDir \o path.parts)[Len(baseDir) + n]
<1> DEFINE parts == path.parts
           first == SubSeq(parts, 1, n)
           B == Len(baseDir)
<1>1. parts \in Seq(Names) /\ Len(parts) \in Nat /\ B \in Nat
  BY RootNames, LenProperties DEF IsPath, Names
<1>2. [path EXCEPT !.parts = first].parts = first
  BY DEF IsPath
<1>3. Visited(path, n) = Walk(baseDir \o first)[Len(baseDir \o first)]
  BY <1>2 DEF Visited, FolderAt, Resolve, Join, GetRelativePath, Relative
<1>4. n \in 0 .. Len(parts)
  OBVIOUS
<1> HIDE DEF parts
<1>5. \A i \in 1 .. n : parts[i] \in Names
  BY <1>1, <1>4, ElementOfSeq
<1>6. /\ first \in Seq(Names) /\ Len(first) = n
      /\ \A i \in 1 .. n : first[i] = parts[i]
  BY <1>1, <1>4, <1>5, SubSeqProperties
<1> HIDE DEF first
<1>7. /\ baseDir \o first \in Seq(Names) /\ Len(baseDir \o first) = B + n
      /\ baseDir \o parts \in Seq(Names)
      /\ Len(baseDir \o parts) = B + Len(parts)
  BY <1>1, <1>6, JoinFacts
<1> HIDE DEF B
<1>8. \A i \in 1 .. B + n : (baseDir \o first)[i] = (baseDir \o parts)[i]
  <2>1. /\ \A i \in 1 .. B : (baseDir \o first)[i] = baseDir[i]
        /\ \A i \in 1 .. B : (baseDir \o parts)[i] = baseDir[i]
        /\ \A i \in 1 .. n : (baseDir \o first)[B + i] = first[i]
        /\ \A i \in 1 .. Len(parts) : (baseDir \o parts)[B + i] = parts[i]
    BY <1>1, <1>6, JoinFacts DEF B
  <2> SUFFICES ASSUME NEW i \in 1 .. B + n
               PROVE  (baseDir \o first)[i] = (baseDir \o parts)[i]
    OBVIOUS
  <2>2. CASE i <= B
    <3>1. i \in 1 .. B
      BY <1>1, <2>2
    <3> QED
      BY <2>1, <3>1
  <2>3. CASE i > B
    <3>1. PICK j \in 1 .. n : i = B + j
      <4>1. i - B \in 1 .. n /\ i = B + (i - B)
        BY <1>1, <1>4, <2>3
      <4> QED
        BY <4>1
    <3>2. j \in 1 .. Len(parts)
      BY <1>1, <1>4
    <3> QED
      BY <1>6, <2>1, <3>1, <3>2
  <2>4. i <= B \/ i > B
    BY <1>1, <1>4
  <2> QED
    BY <2>2, <2>3, <2>4
<1>9. Walk(baseDir \o first)[B + n] = Walk(baseDir \o parts)[B + n]
  <2>1. B + n \in Nat /\ B + n <= Len(baseDir \o parts)
    BY <1>1, <1>4, <1>7
  <2> DEFINE s == baseDir \o first
             t == baseDir \o parts
  <2>2. /\ s \in Seq(Names) /\ t \in Seq(Names)
        /\ B + n \in Nat /\ B + n <= Len(s) /\ B + n <= Len(t)
        /\ \A i \in 1 .. B + n : s[i] = t[i]
    BY <1>7, <1>8, <2>1
  <2> HIDE DEF s, t
  <2>3. Walk(s)[B + n] = Walk(t)[B + n]
    BY <2>2, WalkAgrees
  <2> QED
    BY <2>3 DEF s, t
<1> QED
  BY <1>3, <1>7, <1>9 DEF parts, B

(* A path with a negative depth leaves the root there.                     *)
LEMMA UnsoundLeaves ==
  ASSUME NEW parts \in Seq(Names), Proper(parts), ~Sound(parts), baseDir # <<>>
  PROVE  \E n \in 0 .. Len(parts) :
           ~IsPrefix(baseDir, Walk(baseDir \o parts)[Len(baseDir) + n])
<1> DEFINE B == Len(baseDir)
           full == baseDir \o parts
           w == Walk(full)
           d == Depth(parts)
<1>1. B \in Nat /\ B > 0 /\ Len(parts) \in Nat
  BY RootNames, LenProperties, EmptySeq
<1>2. /\ full \in Seq(Names) /\ Len(full) = B + Len(parts)
      /\ \A i \in 1 .. Len(parts) : full[B + i] = parts[i]
  BY JoinFacts
<1>3. /\ d[0] = 0
      /\ \A m \in 1 .. Len(parts) : d[m] = d[m - 1] + Deeper(parts[m])
      /\ \A m \in 0 .. Len(parts) : d[m] \in Int
  BY DepthDef, DepthType DEF Names
<1>4. PICK last \in 0 .. Len(parts) : ~(d[last] >= 0)
  BY DEF Sound
<1> HIDE DEF d
<1>5. PICK n \in 1 .. Len(parts) :
        d[n] < 0 /\ \A m \in 0 .. n - 1 : d[m] >= 0
  <2> DEFINE T == {m \in 0 .. Len(parts) : \A k \in 0 .. m : d[k] >= 0}
  <2>1. 0 \in T
    BY <1>1, <1>3
  <2>2. SUFFICES ASSUME \A n \in 1 .. Len(parts) :
                          ~(d[n] < 0 /\ \A m \in 0 .. n - 1 : d[m] >= 0)
                 PROVE  FALSE
    OBVIOUS
  <2>3. ASSUME NEW m \in 0 .. Len(parts) - 1, m \in T PROVE m + 1 \in T
    <3>1. m + 1 \in 1 .. Len(parts) /\ m \in 0 .. Len(parts)
      BY <1>1
    <3>2. \A k \in 0 .. m : d[k] >= 0
      BY <2>3
    <3>3. ~(d[m + 1] < 0)
      BY <2>2, <3>1, <3>2
    <3>4. d[m + 1] >= 0
      BY <1>3, <3>1, <3>3
    <3>5. \A k \in 0 .. m + 1 : k \in 0 .. m \/ k = m + 1
      BY <1>1
    <3> QED
      BY <3>1, <3>2, <3>4, <3>5
  <2> HIDE DEF T
  <2>4. 0 .. Len(parts) \subseteq T
    BY <1>1, <2>1, <2>3, InductionUpTo
  <2>5. last \in T
    BY <2>4
  <2>6. \A k \in 0 .. last : d[k] >= 0
    BY <2>5 DEF T
  <2> QED
    BY <1>1, <1>4, <2>6
<1>6. /\ n - 1 \in 0 .. Len(parts) /\ n \in 0 .. Len(parts)
      /\ B + n \in 1 .. Len(full) /\ B + n \in 0 .. Len(full)
      /\ (B + n) - 1 = B + (n - 1)
      /\ n - 1 \in 0 .. n - 1
  BY <1>1, <1>2
<1>7. d[n] = d[n - 1] + Deeper(parts[n]) /\ d[n] \in Int /\ d[n - 1] \in Int
  BY <1>3, <1>6
<1>8. d[n - 1] >= 0
  BY <1>5, <1>6
<1>9. Up(parts[n]) /\ d[n - 1] = 0
  <2>1. Deeper(parts[n]) \in Int /\ Deeper(parts[n]) < 0
    BY <1>5, <1>7, <1>8, DeeperValues
  <2>2. Up(parts[n])
    BY <2>1, Kinds, DeeperValues
  <2>3. Deeper(parts[n]) = -1
    BY <2>2, DeeperValues
  <2> QED
    BY <1>5, <1>7, <1>8, <2>2, <2>3
<1>10. Sinks(parts, n - 1)
  <2>1. \A m \in 1 .. n - 1 : ~Gap(parts[m])
    BY <1>1 DEF Proper
  <2> QED
    BY <1>5, <2>1 DEF Sinks, d
<1> DEFINE at == w[B + (n - 1)]
<1>11. Len(at) = B
  <2>1. Len(at) = B + d[n - 1]
    BY <1>6, <1>10, PathInside DEF d
  <2> HIDE DEF at, B
  <2> QED
    BY <1>1, <1>9, <2>1
<1>12. at \in Seq(Names)
  <2>1. B + (n - 1) \in 0 .. Len(full)
    BY <1>1, <1>2, <1>6
  <2> HIDE DEF full, B
  <2> QED
    BY <1>2, <2>1, WalkType
<1> HIDE DEF B, full
<1>13. w[B + n] = Follow(at, parts[n])
  BY <1>2, <1>6, WalkDef
<1> HIDE DEF w, at
<1>14. at # <<>>
  BY <1>1, <1>11
<1>15. Len(w[B + n]) < Len(baseDir) /\ w[B + n] \in Seq(Names)
  BY <1>1, <1>9, <1>11, <1>12, <1>13, <1>14, FollowKinds, FrontFacts DEF B
<1>16. ~IsPrefix(baseDir, w[B + n])
  BY <1>1, <1>15, RootNames, PrefixIff DEF B
<1> QED
  BY <1>6, <1>16 DEF B, full, w

(* isValidPath accepts a path exactly if no part of it leaves the root     *)
(* folder, for every path.                                                 *)
THEOREM PathCheckExact ==
  ASSUME baseDir # <<>>, NEW path, IsPath(path)
  PROVE  AcceptedIffInside(path)
<1> DEFINE parts == path.parts
<1>1. parts \in Seq(Names) /\ Proper(parts)
  BY DEF IsPath, Names, Proper, Gap
<1>2. IsValidPath(path) <=> Sound(parts)
  BY DEF IsValidPath, GetRelativePath, Relative, Sound
<1>3. \A n \in 0 .. Len(parts) :
        Visited(path, n) = Walk(baseDir \o parts)[Len(baseDir) + n]
  BY VisitedIs
<1> HIDE DEF parts
<1>4. (\A n \in 0 .. Len(parts) : IsPrefix(baseDir, Visited(path, n)))
        <=> Sound(parts)
  BY <1>1, <1>3, SoundInside, UnsoundLeaves
<1> QED
  BY <1>2, <1>4 DEF parts, AcceptedIffInside

-----------------------------------------------------------------------------
(* The folders of the storer's paths.                                      *)

LEMMA IsPathFacts ==
  ASSUME NEW path, IsPath(path)
  PROVE  /\ path.parts \in Seq(Names) /\ Proper(path.parts)
         /\ Len(path.parts) \in Nat
         /\ FolderAt(path) = Resolve(baseDir \o path.parts)
         /\ FoldersOn(path) =
              {Walk(baseDir \o path.parts)[n] :
                 n \in Len(baseDir) .. Len(baseDir \o path.parts)}
         /\ IsValidPath(path) <=> Sound(path.parts)
<1>1. path.parts \in Seq(Names) /\ Proper(path.parts)
  BY DEF IsPath, Names, Proper, Gap
<1>2. Len(path.parts) \in Nat
  BY <1>1, LenProperties
<1>3. IsValidPath(path) <=> Sound(path.parts)
  BY DEF IsValidPath, GetRelativePath, Relative, Sound
<1> QED
  BY <1>1, <1>2, <1>3
     DEF FolderAt, FoldersOn, Join, GetRelativePath, Relative

(* The folder itself is one of those on the way, and none of those of an   *)
(* accepted path leaves the root.                                          *)
LEMMA FoldersOnFacts ==
  ASSUME NEW path, IsPath(path)
  PROVE  /\ FolderAt(path) \in FoldersOn(path)
         /\ IsValidPath(path) =>
              \A p \in FoldersOn(path) : p \in Seq(Names) /\ IsPrefix(baseDir, p)
<1> DEFINE parts == path.parts
           B == Len(baseDir)
           full == baseDir \o parts
<1>1. /\ parts \in Seq(Names) /\ Proper(parts) /\ Len(parts) \in Nat
      /\ FolderAt(path) = Walk(full)[Len(full)]
      /\ FoldersOn(path) = {Walk(full)[n] : n \in B .. Len(full)}
      /\ IsValidPath(path) <=> Sound(parts)
  BY IsPathFacts DEF Resolve
<1> HIDE DEF parts
<1>2. B \in Nat /\ Len(full) = B + Len(parts)
  BY <1>1, RootNames, JoinFacts
<1> HIDE DEF full
<1>3. FolderAt(path) \in FoldersOn(path)
  BY <1>1, <1>2
<1>4. ASSUME Sound(parts), NEW n \in B .. Len(full)
      PROVE  Walk(full)[n] \in Seq(Names) /\ IsPrefix(baseDir, Walk(full)[n])
  <2>1. PICK m \in 0 .. Len(parts) : n = Len(baseDir) + m
    <3>1. n - B \in 0 .. Len(parts) /\ n = B + (n - B)
      BY <1>1, <1>2
    <3> QED
      BY <3>1
  <2> QED
    BY <1>1, <1>4, <2>1, SoundInside DEF full
<1> QED
  BY <1>1, <1>3, <1>4

LEMMA FolderNames ==
  ASSUME NEW path, IsPath(path)
  PROVE  /\ FolderAt(path) \in Seq(Names)
         /\ ToSet(FolderAt(path)) \subseteq ToSet(baseDir) \cup ToSet(path.parts)
<1> DEFINE parts == path.parts
           B == Len(baseDir)
           full == baseDir \o parts
<1>1. /\ parts \in Seq(Names) /\ Len(parts) \in Nat
      /\ FolderAt(path) = Walk(full)[Len(full)]
  BY IsPathFacts DEF Resolve
<1> HIDE DEF parts
<1>2. /\ B \in Nat /\ full \in Seq(Names) /\ Len(full) = B + Len(parts)
      /\ \A i \in 1 .. B : full[i] = baseDir[i]
      /\ \A i \in 1 .. Len(parts) : full[B + i] = parts[i]
      /\ DOMAIN full = 1 .. Len(full) /\ DOMAIN parts = 1 .. Len(parts)
      /\ DOMAIN baseDir = 1 .. B
  BY <1>1, RootNames, JoinFacts, LenProperties
<1> HIDE DEF full, B
<1>3. /\ Walk(full)[Len(full)] \in Seq(Names)
      /\ ToSet(Walk(full)[Len(full)]) \subseteq ToSet(full)
  <2>1. Len(full) \in 0 .. Len(full)
    BY <1>1, <1>2
  <2> QED
    BY <1>2, <2>1, WalkType
<1>4. ToSet(full) \subseteq ToSet(baseDir) \cup ToSet(parts)
  <2> SUFFICES ASSUME NEW i \in 1 .. Len(full)
               PROVE  full[i] \in ToSet(baseDir) \cup ToSet(parts)
    BY <1>2 DEF ToSet
  <2>1. CASE i <= B
    <3>1. i \in 1 .. B
      BY <1>2, <2>1
    <3> QED
      BY <1>2, <3>1 DEF ToSet
  <2>2. CASE i > B
    <3>1. PICK j \in 1 .. Len(parts) : i = B + j
      <4>1. i - B \in 1 .. Len(parts) /\ i = B + (i - B)
        BY <1>1, <1>2, <2>2
      <4> QED
        BY <4>1
    <3> QED
      BY <1>2, <3>1 DEF ToSet
  <2>3. i <= B \/ i > B
    BY <1>1, <1>2
  <2> QED
    BY <2>1, <2>2, <2>3
<1> QED
  BY <1>1, <1>3, <1>4 DEF parts

(* One part more is one step more.                                         *)
LEMMA ResolveAppend ==
  ASSUME NEW parts \in Seq(Names), NEW part \in Names
  PROVE  Resolve(baseDir \o Append(parts, part)) =
           Follow(Resolve(baseDir \o parts), part)
<1> DEFINE s == baseDir \o Append(parts, part)
           t == baseDir \o parts
           B == Len(baseDir)
           n == Len(parts)
<1>1. /\ Append(parts, part) \in Seq(Names)
      /\ Len(Append(parts, part)) = n + 1
      /\ \A i \in 1 .. n : Append(parts, part)[i] = parts[i]
      /\ Append(parts, part)[n + 1] = part
      /\ n \in Nat /\ B \in Nat
  BY AppendFacts, RootNames, LenProperties
<1>2. /\ s \in Seq(Names) /\ Len(s) = B + (n + 1)
      /\ \A i \in 1 .. B : s[i] = baseDir[i]
      /\ \A i \in 1 .. n + 1 : s[B + i] = Append(parts, part)[i]
  BY <1>1, JoinFacts
<1>3. /\ t \in Seq(Names) /\ Len(t) = B + n
      /\ \A i \in 1 .. B : t[i] = baseDir[i]
      /\ \A i \in 1 .. n : t[B + i] = parts[i]
  BY JoinFacts
<1> HIDE DEF s, t, B, n
<1>4. \A i \in 1 .. B + n : s[i] = t[i]
  <2> SUFFICES ASSUME NEW i \in 1 .. B + n
               PROVE  s[i] = t[i]
    OBVIOUS
  <2>1. CASE i <= B
    <3>1. i \in 1 .. B
      BY <1>1, <2>1
    <3> QED
      BY <1>2, <1>3, <3>1
  <2>2. CASE i > B
    <3>1. PICK j \in 1 .. n : i = B + j
      <4>1. i - B \in 1 .. n /\ i = B + (i - B)
        BY <1>1, <2>2
      <4> QED
        BY <4>1
    <3>2. j \in 1 .. n + 1
      BY <1>1
    <3> QED
      BY <1>1, <1>2, <1>3, <3>1, <3>2
  <2>3. i <= B \/ i > B
    BY <1>1
  <2> QED
    BY <2>1, <2>2, <2>3
<1>5. Walk(s)[B + n] = Walk(t)[B + n]
  <2>1. B + n \in Nat /\ B + n <= Len(s) /\ B + n <= Len(t)
    BY <1>1, <1>2, <1>3
  <2> QED
    BY <1>2, <1>3, <1>4, <2>1, WalkAgrees
<1>6. Walk(s)[B + (n + 1)] = Follow(Walk(s)[B + n], part)
  <2>1. /\ B + (n + 1) \in 1 .. Len(s) /\ (B + (n + 1)) - 1 = B + n
        /\ n + 1 \in 1 .. n + 1
    BY <1>1, <1>2
  <2>2. Walk(s)[B + (n + 1)] = Follow(Walk(s)[B + n], s[B + (n + 1)])
    BY <1>2, <2>1, WalkDef
  <2>3. s[B + (n + 1)] = part
    BY <1>1, <1>2, <2>1
  <2> QED
    BY <2>2, <2>3
<1>7. Resolve(s) = Walk(s)[B + (n + 1)] /\ Resolve(t) = Walk(t)[B + n]
  BY <1>2, <1>3 DEF Resolve
<1> QED
  BY <1>5, <1>6, <1>7 DEF s, t

-----------------------------------------------------------------------------
(* The paths of entries, and those that documents can name.                *)

ServiceIds == {d.id.value : d \in Documents} \ {""}
DocumentPaths == {d.odataId.value : d \in Documents}
Ids(n) == {Uuids[i] : i \in 1 .. n}
EntryPaths == {EntryPath(s, id) : s \in ServiceIds, id \in Ids(MaxDocuments)}
IdOf(path) == path.parts[4]

ForeignPath(path) == IsPath(path) /\ ToSet(path.parts) \subseteq OtherNames

LEMMA FixedNames ==
  /\ OtherNames \subseteq Names
  /\ "LogServices" \in OtherNames /\ "Entries" \in OtherNames /\ "" \in OtherNames
<1>1. OtherNames \subseteq Names
  BY UuidAssumption DEF Names
<1>2. "LogServices" \in OtherNames
  BY DEF OtherNames
<1>3. "Entries" \in OtherNames
  BY DEF OtherNames
<1>4. "" \in OtherNames
  BY DEF OtherNames
<1> QED
  BY <1>1, <1>2, <1>3, <1>4

LEMMA UuidFacts ==
  /\ \A id \in Ids(MaxDocuments) : id \in Names /\ id \notin OtherNames /\ Plain(id)
  /\ \A i, j \in 1 .. MaxDocuments : Uuids[i] = Uuids[j] => i = j
<1>1. Uuids \in Seq(Names) /\ Len(Uuids) >= MaxDocuments /\ MaxDocuments \in Nat
  BY StorerAssumption DEF Names
<1>2. DOMAIN Uuids = 1 .. Len(Uuids) /\ Len(Uuids) \in Nat
  BY <1>1, LenProperties
<1>3. \A i \in 1 .. MaxDocuments : i \in DOMAIN Uuids /\ Uuids[i] \in Names
  BY <1>1, <1>2, ElementOfSeq
<1>4. \A i, j \in 1 .. MaxDocuments : Uuids[i] = Uuids[j] => i = j
  BY <1>3, StorerAssumption
<1>5. \A i \in 1 .. MaxDocuments : Uuids[i] \notin OtherNames
  BY <1>3, UuidAssumption
<1>6. {"", ".", ".."} \subseteq OtherNames
  BY DEF OtherNames
<1>7. \A i \in 1 .. MaxDocuments : Plain(Uuids[i])
  BY <1>5, <1>6 DEF Plain
<1> QED
  BY <1>3, <1>4, <1>5, <1>7 DEF Ids

LEMMA DocumentNames ==
  ASSUME NEW d \in Documents
  PROVE  /\ ForeignPath(d.odataId.value)
         /\ d.id.value \in Names /\ d.id.value \in OtherNames
<1>1. IsPath(d.odataId.value) /\ d.id.value \in Names
  BY StorerAssumption DEF Names
<1>2. ToSet(d.odataId.value.parts) \subseteq OtherNames
  BY DEF OtherNames
<1>3. d.id.value \in OtherNames
  BY DEF OtherNames
<1> QED
  BY <1>1, <1>2, <1>3 DEF ForeignPath

LEMMA ForeignFacts ==
  ASSUME NEW path, ForeignPath(path)
  PROVE  ToSet(FolderAt(path)) \subseteq OtherNames
<1>1. ToSet(baseDir) \subseteq OtherNames
  BY DEF OtherNames
<1> QED
  BY <1>1, FolderNames DEF ForeignPath

Three(a, b, c) == <<a, b, c>>
Four(a, b, c, d) == <<a, b, c, d>>

LEMMA FourNames ==
  ASSUME NEW a \in Names, NEW b \in Names, NEW c \in Names, NEW d \in Names
  PROVE  /\ Three(a, b, c) \in Seq(Names) /\ Four(a, b, c, d) \in Seq(Names)
         /\ Four(a, b, c, d) = Append(Three(a, b, c), d)
BY DEF Three, Four

Appended(t, s, x) == t = Append(s, x)

LEMMA FourAppend ==
  ASSUME NEW a \in Names, NEW b \in Names, NEW c \in Names, NEW d \in Names
  PROVE  Appended(Four(a, b, c, d), Three(a, b, c), d)
BY DEF Appended, Three, Four

(* The folder of an entry has the entry's UUID for a name, and no other.   *)
LEMMA EntryPathFacts ==
  ASSUME NEW s \in ServiceIds, NEW id \in Ids(MaxDocuments)
  PROVE  /\ IsPath(EntryPath(s, id))
         /\ IdOf(EntryPath(s, id)) = id
         /\ id \in ToSet(FolderAt(EntryPath(s, id)))
         /\ ToSet(FolderAt(EntryPath(s, id))) \subseteq OtherNames \cup {id}
<1> DEFINE parts == <<"LogServices", s, "Entries">>
           path == EntryPath(s, id)
<1>1. /\ s \in Names /\ s \in OtherNames
      /\ id \in Names /\ id \notin OtherNames /\ Plain(id)
  BY UuidFacts, DocumentNames DEF ServiceIds
<1>2. "LogServices" \in Names /\ "Entries" \in Names
  BY FixedNames
<1>3. /\ path.parts = <<"LogServices", s, "Entries", id>>
      /\ path.absolute = TRUE
      /\ path = [absolute |-> TRUE, parts |-> path.parts]
  BY DEF EntryPath, Absolute
<1>4. parts \in Seq(Names) /\ path.parts = Append(parts, id)
      /\ path.parts \in Seq(Names)
  <2> DEFINE a == "LogServices"
             b == "Entries"
  <2>1. a \in Names /\ b \in Names
    BY <1>2
  <2> HIDE DEF a, b
  <2>2. /\ Three(a, s, b) \in Seq(Names) /\ Four(a, s, b, id) \in Seq(Names)
        /\ Four(a, s, b, id) = Append(Three(a, s, b), id)
    <3>1. s \in Names /\ id \in Names
      BY <1>1
    <3> HIDE DEF path, parts
    <3>2. Four(a, s, b, id) = Append(Three(a, s, b), id)
      <4>1. Appended(Four(a, s, b, id), Three(a, s, b), id)
        BY <2>1, <3>1, FourAppend, Zenon
      <4> QED
        BY <4>1 DEF Appended
    <3>3. Three(a, s, b) \in Seq(Names) /\ Four(a, s, b, id) \in Seq(Names)
      BY <2>1, <3>1, FourNames, Zenon
    <3> QED
      BY <3>2, <3>3
  <2>3. parts = Three(a, s, b) /\ path.parts = Four(a, s, b, id)
    BY <1>3 DEF a, b, Three, Four
  <2> HIDE DEF path, parts
  <2> QED
    BY <2>2, <2>3
<1>5. IsPath(path)
  <2>1. path.parts \in Seq(STRING)
    BY <1>4 DEF Names
  <2>2. path \in [absolute : BOOLEAN, parts : Seq(STRING)]
    <3> HIDE DEF path
    <3> QED
      BY <1>3, <2>1
  <2>3. Len(path.parts) = 4 /\ path.parts[1] = "LogServices"
        /\ path.parts[2] = s /\ path.parts[3] = "Entries"
    BY <1>3
  <2>4. "LogServices" # "" /\ "Entries" # "" /\ s # ""
    BY DEF ServiceIds
  <2> HIDE DEF path
  <2>5. \A i \in 1 .. Len(path.parts) - 1 : i = 1 \/ i = 2 \/ i = 3
    BY <2>3
  <2>6. \A i \in 1 .. Len(path.parts) - 1 : path.parts[i] # ""
    BY <2>3, <2>4, <2>5, Zenon
  <2> QED
    BY <2>2, <2>6 DEF IsPath
<1>6. IdOf(path) = id
  BY <1>3 DEF IdOf
<1>7. FolderAt(path) = Append(Resolve(baseDir \o parts), id)
  <2>1. FolderAt(path) = Resolve(baseDir \o Append(parts, id))
    BY <1>4, <1>5, IsPathFacts
  <2> HIDE DEF parts
  <2>2. Resolve(baseDir \o Append(parts, id)) = Follow(Resolve(baseDir \o parts), id)
    BY <1>1, <1>4, ResolveAppend, Zenon
  <2>3. Follow(Resolve(baseDir \o parts), id) = Append(Resolve(baseDir \o parts), id)
    BY <1>1, FollowKinds, Zenon
  <2> QED
    BY <2>1, <2>2, <2>3, Zenon
<1>8. id \in ToSet(FolderAt(path))
  <2>1. Resolve(baseDir \o parts) \in Seq(Names)
    <3> HIDE DEF parts
    <3>1. baseDir \o parts \in Seq(Names)
      BY <1>4, JoinFacts
    <3>2. Len(baseDir \o parts) \in 0 .. Len(baseDir \o parts)
      BY <3>1, LenProperties
    <3> DEFINE full == baseDir \o parts
    <3> HIDE DEF full
    <3> QED
      BY <3>1, <3>2, WalkType DEF Resolve, full
  <2> DEFINE at == Resolve(baseDir \o parts)
  <2> HIDE DEF at
  <2>2. id \in ToSet(Append(at, id))
    <3>1. at \in Seq(Names)
      BY <2>1 DEF at
    <3> QED
      BY <1>1, <3>1, LastInAppend, Zenon
  <2> QED
    BY <1>7, <2>2 DEF at
<1>9. ToSet(FolderAt(path)) \subseteq OtherNames \cup {id}
  <2>1. ToSet(FolderAt(path)) \subseteq ToSet(baseDir) \cup ToSet(path.parts)
    BY <1>5, FolderNames
  <2>2. ToSet(baseDir) \subseteq OtherNames
        /\ "LogServices" \in OtherNames /\ "Entries" \in OtherNames
    BY FixedNames DEF OtherNames
  <2>3. ToSet(path.parts) \subseteq {"LogServices", s, "Entries", id}
    BY <1>3 DEF ToSet
  <2> QED
    BY <1>1, <2>1, <2>2, <2>3
<1> QED
  BY <1>5, <1>6, <1>8, <1>9

LEMMA PrefixNames ==
  ASSUME NEW s \in Seq(Names), NEW t \in Seq(Names), IsPrefix(s, t)
  PROVE  ToSet(s) \subseteq ToSet(t)
<1>1. /\ Len(s) <= Len(t) /\ \A i \in 1 .. Len(s) : s[i] = t[i]
      /\ Len(s) \in Nat /\ Len(t) \in Nat
      /\ DOMAIN s = 1 .. Len(s) /\ DOMAIN t = 1 .. Len(t)
  BY PrefixIff, LenProperties
<1> QED
  BY <1>1 DEF ToSet

(* Nothing but the entry itself is in its folder.                          *)
LEMMA EntriesApart ==
  ASSUME NEW p \in EntryPaths, NEW q,
         (q \in EntryPaths /\ IdOf(q) # IdOf(p)) \/ ForeignPath(q)
  PROVE  ~IsPrefix(FolderAt(p), FolderAt(q)) /\ FolderAt(p) # FolderAt(q)
<1>1. /\ FolderAt(p) \in Seq(Names) /\ IdOf(p) \in ToSet(FolderAt(p))
      /\ IdOf(p) \notin OtherNames
  BY EntryPathFacts, FolderNames, UuidFacts DEF EntryPaths
<1>2. FolderAt(q) \in Seq(Names) /\ IdOf(p) \notin ToSet(FolderAt(q))
  <2>1. CASE q \in EntryPaths /\ IdOf(q) # IdOf(p)
    <3>1. /\ IsPath(q)
          /\ ToSet(FolderAt(q)) \subseteq OtherNames \cup {IdOf(q)}
      BY <2>1, EntryPathFacts DEF EntryPaths
    <3> QED
      BY <1>1, <2>1, <3>1, FolderNames
  <2>2. CASE ForeignPath(q)
    <3>1. IsPath(q) /\ ToSet(FolderAt(q)) \subseteq OtherNames
      BY <2>2, ForeignFacts DEF ForeignPath
    <3> QED
      BY <1>1, <3>1, FolderNames
  <2> QED
    BY <2>1, <2>2
<1> QED
  BY <1>1, <1>2, PrefixNames

(* The Entries folder of a service is in the folder of the service.        *)
LEMMA EntriesPathFacts ==
  ASSUME NEW path, ForeignPath(path)
  PROVE  /\ ForeignPath(EntriesPath(path))
         /\ FolderAt(EntriesPath(path)) = Append(FolderAt(path), "Entries")
         /\ Front(FolderAt(EntriesPath(path))) = FolderAt(path)
<1> DEFINE parts == path.parts
           named == WithoutSlash(parts)
<1>1. /\ parts \in Seq(Names) /\ Proper(parts) /\ Len(parts) \in Nat
      /\ path.absolute \in BOOLEAN /\ ToSet(parts) \subseteq OtherNames
      /\ FolderAt(path) = Resolve(baseDir \o parts)
      /\ FolderAt(path) \in Seq(Names)
  BY IsPathFacts, FolderNames DEF ForeignPath, IsPath
<1>2. /\ EntriesPath(path).parts = Append(named, "Entries")
      /\ EntriesPath(path) =
           [absolute |-> path.absolute, parts |-> Append(named, "Entries")]
  <2>1. path \in [absolute : BOOLEAN, parts : Seq(STRING)]
    BY DEF ForeignPath, IsPath
  <2> HIDE DEF named
  <2>2. EntriesPath(path) = [path EXCEPT !.parts = Append(named, "Entries")]
    BY Zenon DEF EntriesPath, named
  <2> DEFINE new == Append(named, "Entries")
  <2> HIDE DEF new
  <2>3. EntriesPath(path) = [path EXCEPT !.parts = new]
    BY <2>2 DEF new
  <2>4. /\ EntriesPath(path).parts = new
        /\ EntriesPath(path) = [absolute |-> path.absolute, parts |-> new]
    BY <2>1, <2>3
  <2> QED
    BY <2>4 DEF new
<1> HIDE DEF parts
<1>3. "Entries" \in Names /\ "Entries" \in OtherNames /\ Plain("Entries")
  <2>1. "Entries" # "" /\ "Entries" # "." /\ "Entries" # ".."
    OBVIOUS
  <2> QED
    BY <2>1, FixedNames DEF Plain
<1>4. /\ named \in Seq(Names) /\ ToSet(named) \subseteq OtherNames
      /\ \A i \in 1 .. Len(named) : ~Gap(named[i])
      /\ Resolve(baseDir \o named) = Resolve(baseDir \o parts)
  <2>1. CASE parts # <<>> /\ Last(parts) = ""
    <3>1. PICK t \in Seq(Names), e \in Names : parts = Append(t, e)
      BY <1>1, <2>1, SequenceEmptyOrAppend
    <3>2. /\ Len(parts) = Len(t) + 1 /\ Len(t) \in Nat
          /\ \A i \in 1 .. Len(t) : parts[i] = t[i]
          /\ parts[Len(t) + 1] = e /\ Front(parts) = t
          /\ ToSet(t) \subseteq ToSet(parts)
      BY <3>1, AppendFacts, LenProperties
    <3>3. named = t /\ e = ""
      BY <2>1, <3>2 DEF WithoutSlash, Last
    <3>4. \A i \in 1 .. Len(t) : ~Gap(t[i])
      BY <1>1, <3>2 DEF Proper
    <3>5. Gap(e)
      BY <3>3 DEF Gap
    <3>6. Resolve(baseDir \o Append(t, e)) = Resolve(baseDir \o t)
      BY <3>1, <3>5, ResolveAppend, FollowKinds
    <3> HIDE DEF named
    <3> QED
      BY <1>1, <3>1, <3>2, <3>3, <3>4, <3>6
  <2>2. CASE ~(parts # <<>> /\ Last(parts) = "")
    <3>1. named = parts
      BY <2>2 DEF WithoutSlash
    <3>2. \A i \in 1 .. Len(parts) : ~Gap(parts[i])
      <4> SUFFICES ASSUME NEW i \in 1 .. Len(parts) PROVE ~Gap(parts[i])
        OBVIOUS
      <4>1. CASE i \in 1 .. Len(parts) - 1
        BY <1>1, <4>1 DEF Proper
      <4>2. CASE i = Len(parts)
        <5>1. parts # <<>>
          BY <4>2
        <5>2. parts[Len(parts)] # ""
          BY <2>2, <5>1 DEF Last
        <5> QED
          BY <4>2, <5>2 DEF Gap
      <4> QED
        BY <1>1, <4>1, <4>2
    <3> HIDE DEF named
    <3> QED
      BY <1>1, <3>1, <3>2
  <2> QED
    BY <2>1, <2>2
<1> HIDE DEF named
<1> DEFINE new == Append(named, "Entries")
<1>5. /\ new \in Seq(Names) /\ ToSet(new) \subseteq OtherNames
      /\ Len(new) = Len(named) + 1 /\ Len(named) \in Nat
      /\ \A i \in 1 .. Len(named) : new[i] = named[i]
  BY <1>3, <1>4, AppendFacts, LenProperties
<1> HIDE DEF new
<1>6. ForeignPath(EntriesPath(path))
  <2>1. \A i \in 1 .. Len(new) - 1 : ~Gap(new[i])
    BY <1>4, <1>5
  <2>2. \A i \in 1 .. Len(new) - 1 : new[i] # ""
    BY <2>1 DEF Gap
  <2>3. /\ EntriesPath(path).parts = new
        /\ EntriesPath(path) = [absolute |-> path.absolute, parts |-> new]
    BY <1>2 DEF new
  <2>4. EntriesPath(path) \in [absolute : BOOLEAN, parts : Seq(STRING)]
    BY <1>1, <1>5, <2>3 DEF Names
  <2> QED
    BY <1>5, <2>2, <2>3, <2>4 DEF ForeignPath, IsPath
<1>7. FolderAt(EntriesPath(path)) = Append(FolderAt(path), "Entries")
  <2>1. FolderAt(EntriesPath(path)) = Resolve(baseDir \o new)
    BY <1>2, <1>6, IsPathFacts DEF ForeignPath, new
  <2>2. Resolve(baseDir \o new) = Follow(Resolve(baseDir \o named), "Entries")
    BY <1>3, <1>4, ResolveAppend DEF new
  <2>3. Resolve(baseDir \o new) = Append(Resolve(baseDir \o named), "Entries")
    BY <1>3, <2>2, FollowKinds
  <2> QED
    BY <1>1, <1>4, <2>1, <2>3
<1>8. Front(Append(FolderAt(path), "Entries")) = FolderAt(path)
  BY <1>1, <1>3, AppendFacts
<1> QED
  BY <1>6, <1>7, <1>8


-----------------------------------------------------------------------------
(* The invariant.  Saved and Latest are the lengths of the two queues, and *)
(* Past the number of UUIDs that were drawn before the call in progress.   *)

Saved == Len(logEntrySavedQueue)
Latest == Len(logEntryQueue)
Past == IF call.step = "idle" THEN documents ELSE documents - 1
Kept == everSaved \cup ToSet(logEntryQueue)

(* What a call is about: a new entry, one that makes room for it, or a     *)
(* file that the document names.                                           *)
Idle == call = IdleCall

Removing ==
  /\ call.step = "remove" /\ call.purpose = "entry"
  /\ call.path \in EntryPaths
  /\ logServiceId \in ServiceIds

Entering ==
  /\ call.step \in {"folder", "write", "notify"} /\ call.purpose = "entry"
  /\ call.path \in EntryPaths /\ IdOf(call.path) = Uuids[documents]

Serving ==
  /\ call.step \in {"folder", "write"}
  /\ call.purpose \in {"service", "entries", "other"}
  /\ ForeignPath(call.path)

CallKnown ==
  /\ Idle \/ Removing \/ Entering \/ Serving
  /\ call = CallFor(call.step, call.purpose, call.path)

Shape ==
  /\ logServiceId \in ServiceIds \cup {""}
  /\ stored \in Seq(EntryPaths) /\ everSaved \subseteq EntryPaths
  /\ logEntrySavedQueue \in Seq(EntryPaths) /\ logEntryQueue \in Seq(EntryPaths)
  /\ CallKnown
  /\ documents \in 0 .. MaxDocuments /\ (call.step # "idle" => documents > 0)
  /\ result \in {"none", "true", "false", "throws"}
  /\ announced \in Seq(Seq(Names)) /\ nextEntry = Len(stored)

(* The folders are in the root folder, and files, also those whose write   *)
(* was lost, and writes in progress in folders.                            *)
Rooted ==
  /\ \A p \in folders : IsPrefix(baseDir, p)
  /\ files \subseteq folders /\ lost \subseteq folders
  /\ call.step = "write" => FolderAt(call.path) \in folders

(* The queues are the first and the latest of the stored entries.          *)
Lengths ==
  /\ Saved <= maxNumSavedLogEntries /\ Saved <= Len(stored)
  /\ Latest <= maxNumLogEntries /\ Latest <= Len(stored) - Saved
  /\ Len(stored) > Saved => Saved = maxNumSavedLogEntries
  /\ Latest = Len(stored) - Saved \/ Latest >= maxNumLogEntries - 1
  /\ call.purpose = "entry" => Latest < maxNumLogEntries

Contents ==
  /\ \A i \in 1 .. Saved : logEntrySavedQueue[i] = stored[i]
  /\ \A i \in 1 .. Latest :
       logEntryQueue[i] = stored[(Len(stored) - Latest) + i]

Retained == Lengths /\ Contents

(* No two entries have a UUID in common: those stored by this process,     *)
(* those saved by any, and the one that is being removed or created.       *)
Fresh ==
  /\ \A p \in everSaved : IdOf(p) \in Ids(Past)
  /\ \A i \in 1 .. Len(stored) : IdOf(stored[i]) \in Ids(Past)
  /\ \A i, j \in 1 .. Len(stored) : IdOf(stored[i]) = IdOf(stored[j]) => i = j
  /\ \A i \in 1 .. Saved : stored[i] \in everSaved
  /\ \A p \in everSaved : \A i \in Saved + 1 .. Len(stored) :
       IdOf(p) # IdOf(stored[i])
  /\ call.step = "remove" => \A p \in Kept : IdOf(p) # IdOf(call.path)

Bookkeeping == Shape /\ Rooted /\ Retained /\ Fresh

(* What is kept was written, and so was the file to announce next.         *)
OnceWritten == files \cup lost

OnDisk ==
  /\ \A p \in Kept : FolderAt(p) \in OnceWritten
  /\ call.step = "notify" => FolderAt(call.path) \in OnceWritten

Inv == Bookkeeping /\ OnDisk

-----------------------------------------------------------------------------
(* Facts that the steps need.                                              *)

LEMMA EntryFacts ==
  ASSUME NEW s \in ServiceIds, NEW n \in 1 .. MaxDocuments
  PROVE  /\ EntryPath(s, Uuids[n]) \in EntryPaths
         /\ IdOf(EntryPath(s, Uuids[n])) = Uuids[n]
<1>1. Uuids[n] \in Ids(MaxDocuments)
  BY DEF Ids
<1> QED
  BY <1>1, EntryPathFacts DEF EntryPaths

LEMMA EntryIsPath ==
  ASSUME NEW p \in EntryPaths
  PROVE  /\ IsPath(p) /\ FolderAt(p) \in Seq(Names)
         /\ IdOf(p) \in Ids(MaxDocuments)
<1>1. PICK s \in ServiceIds, id \in Ids(MaxDocuments) : p = EntryPath(s, id)
  BY DEF EntryPaths
<1>2. IsPath(p) /\ IdOf(p) = id
  BY <1>1, EntryPathFacts
<1> QED
  BY <1>1, <1>2, FolderNames

LEMMA ForeignIsPath ==
  ASSUME NEW p, ForeignPath(p)
  PROVE  IsPath(p) /\ FolderAt(p) \in Seq(Names)
BY FolderNames DEF ForeignPath

LEMMA FreshIds ==
  ASSUME NEW n \in 1 .. MaxDocuments
  PROVE  /\ Uuids[n] \notin Ids(n - 1) /\ Uuids[n] \in Ids(n)
         /\ Ids(n - 1) \subseteq Ids(n)
<1>1. n \in Int /\ MaxDocuments \in Nat
  BY StorerAssumption
<1>2. Uuids[n] \notin Ids(n - 1)
  <2> SUFFICES ASSUME NEW i \in 1 .. n - 1, Uuids[n] = Uuids[i]
               PROVE  FALSE
    BY DEF Ids
  <2>1. i \in 1 .. MaxDocuments /\ i # n
    BY <1>1
  <2> QED
    BY <2>1, UuidFacts
<1>3. Uuids[n] \in Ids(n)
  BY <1>1 DEF Ids
<1>4. Ids(n - 1) \subseteq Ids(n)
  BY <1>1 DEF Ids
<1> QED
  BY <1>2, <1>3, <1>4

LEMMA CallFields ==
  ASSUME NEW step, NEW purpose, NEW path
  PROVE  /\ CallFor(step, purpose, path).step = step
         /\ CallFor(step, purpose, path).purpose = purpose
         /\ CallFor(step, purpose, path).path = path
         /\ [CallFor(step, purpose, path) EXCEPT !.step = "write"] =
              CallFor("write", purpose, path)
         /\ [CallFor(step, purpose, path) EXCEPT !.step = "notify"] =
              CallFor("notify", purpose, path)
BY DEF CallFor

LEMMA IdleFields ==
  /\ IdleCall = CallFor("idle", "none", IdleCall.path)
  /\ IdleCall.step = "idle" /\ IdleCall.purpose = "none"
BY DEF IdleCall, CallFor


LEMMA ReturnFacts ==
  ASSUME NEW value, Return(value)
  PROVE  call' = IdleCall /\ result' = value
BY DEF Return

-----------------------------------------------------------------------------
(* What publishJson does up to its first operation on the file system.     *)

Refuses ==
  /\ call' = IdleCall /\ result' \in {"false", "throws"}
  /\ UNCHANGED logEntryQueue

MakesRoom ==
  /\ logServiceId \in ServiceIds /\ UNCHANGED <<logServiceId, result>>
  /\ Latest = maxNumLogEntries
  /\ call' = CallFor("remove", "entry", Head(logEntryQueue))
  /\ logEntryQueue' = Tail(logEntryQueue)

StartsEntry ==
  /\ logServiceId \in ServiceIds /\ UNCHANGED <<logServiceId, result>>
  /\ Latest # maxNumLogEntries
  /\ call' = CallFor("folder", "entry",
                     EntryPath(logServiceId, Uuids[documents + 1]))
  /\ UNCHANGED logEntryQueue

StartsFile ==
  /\ \E purpose \in {"service", "other"} : \E path :
       /\ ForeignPath(path) /\ path \in DocumentPaths
       /\ call' = CallFor("folder", purpose, path)
  /\ UNCHANGED <<logEntryQueue, result>>

LEMMA Publishing ==
  ASSUME Shape, PublishJson
  PROVE  /\ call.step = "idle" /\ documents < MaxDocuments
         /\ documents' = documents + 1
         /\ UNCHANGED <<logEntrySavedQueue, nextEntry, folders, files, lost, stored,
                        everSaved, announced>>
         /\ logServiceId' \in ServiceIds \cup {""}
         /\ Refuses \/ MakesRoom \/ StartsEntry \/ StartsFile
<1>1. /\ call.step = "idle" /\ documents < MaxDocuments
      /\ documents' = documents + 1
      /\ UNCHANGED <<folders, files, lost, stored, everSaved, announced>>
  BY DEF PublishJson, disk, history
<1>2. PICK doc \in Documents :
        \/ RefuseDocument(doc) \/ ThrowOnDocument(doc)
        \/ ProcessLogEntry(doc) \/ ProcessLogService(doc) \/ ProcessOtherTypes(doc)
  BY DEF PublishJson
<1>3. logServiceId \in ServiceIds \cup {""}
  BY DEF Shape
<1>4. CASE RefuseDocument(doc)
  <2>1. UNCHANGED <<logServiceId, logEntrySavedQueue, logEntryQueue, nextEntry>>
        /\ Return("false")
    BY <1>4 DEF RefuseDocument, storerVars
  <2>2. Refuses
    BY <2>1, ReturnFacts DEF Refuses
  <2> QED
    BY <1>1, <1>3, <2>1, <2>2
<1>5. CASE ThrowOnDocument(doc)
  <2>1. UNCHANGED <<logServiceId, logEntrySavedQueue, logEntryQueue, nextEntry>>
        /\ Return("throws")
    BY <1>5 DEF ThrowOnDocument, storerVars, Throw
  <2>2. Refuses
    BY <2>1, ReturnFacts DEF Refuses
  <2> QED
    BY <1>1, <1>3, <2>1, <2>2
<1>6. CASE ProcessLogEntry(doc)
  <2>1. logServiceId # ""
    BY <1>6 DEF ProcessLogEntry, Refused, LacksService
  <2>2. logServiceId \in ServiceIds
    BY <1>3, <2>1
  <2>3. UNCHANGED <<logServiceId, logEntrySavedQueue, nextEntry, result>>
    BY <1>6 DEF ProcessLogEntry
  <2>4. MakesRoom \/ StartsEntry
    BY <1>6, <2>2, <2>3
       DEF ProcessLogEntry, MakesRoom, StartsEntry, Latest, NewEntry
  <2> QED
    BY <1>1, <1>3, <2>3, <2>4
<1>7. CASE ProcessLogService(doc)
  <2>1. /\ doc.id.value \in ServiceIds \cup {""} /\ ForeignPath(doc.odataId.value)
        /\ doc.odataId.value \in DocumentPaths
    BY DocumentNames DEF ServiceIds, DocumentPaths
  <2>2. /\ logServiceId' = doc.id.value
        /\ UNCHANGED <<logEntrySavedQueue, logEntryQueue, nextEntry>>
    BY <1>7 DEF ProcessLogService
  <2>3. Refuses \/ StartsFile
    <3>1. \/ /\ call' = CallFor("folder", "service", doc.odataId.value)
             /\ UNCHANGED result
          \/ Return("throws")
      BY <1>7 DEF ProcessLogService, Throw
    <3>2. CASE Return("throws")
      BY <2>2, <3>2, ReturnFacts DEF Refuses
    <3> QED
      BY <2>1, <2>2, <3>1, <3>2 DEF StartsFile
  <2> QED
    BY <1>1, <2>1, <2>2, <2>3
<1>8. CASE ProcessOtherTypes(doc)
  <2>1. ForeignPath(doc.odataId.value) /\ doc.odataId.value \in DocumentPaths
    BY DocumentNames DEF DocumentPaths
  <2>2. /\ UNCHANGED <<logServiceId, logEntrySavedQueue, logEntryQueue, nextEntry,
                       result>>
        /\ call' = CallFor("folder", "other", doc.odataId.value)
    BY <1>8 DEF ProcessOtherTypes, storerVars
  <2>3. StartsFile
    BY <2>1, <2>2 DEF StartsFile
  <2> QED
    BY <1>1, <1>3, <2>2, <2>3
<1> QED
  BY <1>2, <1>4, <1>5, <1>6, <1>7, <1>8

-----------------------------------------------------------------------------
(* Shape is kept.                                                          *)

LEMMA IdleNext ==
  ASSUME call' = IdleCall
  PROVE  CallKnown' /\ call'.step = "idle"
BY IdleFields DEF CallKnown, Idle

LEMMA EntryNext ==
  ASSUME NEW step \in {"folder", "write", "notify"}, NEW path \in EntryPaths,
         call' = CallFor(step, "entry", path), IdOf(path) = Uuids[documents']
  PROVE  CallKnown' /\ call'.step = step
<1>1. call'.step = step /\ call'.purpose = "entry" /\ call'.path = path
  BY CallFields
<1>2. Entering'
  BY <1>1 DEF Entering
<1> QED
  BY <1>1, <1>2 DEF CallKnown

LEMMA FileNext ==
  ASSUME NEW step \in {"folder", "write"}, NEW path, ForeignPath(path),
         NEW purpose \in {"service", "entries", "other"},
         call' = CallFor(step, purpose, path)
  PROVE  CallKnown' /\ call'.step = step
<1>1. call'.step = step /\ call'.purpose = purpose /\ call'.path = path
  BY CallFields
<1>2. Serving'
  BY <1>1 DEF Serving
<1> QED
  BY <1>1, <1>2 DEF CallKnown

LEMMA Counted ==
  ASSUME Shape
  PROVE  /\ documents \in 0 .. MaxDocuments /\ MaxDocuments \in Nat
         /\ call.step # "idle" => documents \in 1 .. MaxDocuments
<1>1. /\ documents \in 0 .. MaxDocuments
      /\ (call.step # "idle" => documents > 0)
  BY DEF Shape
<1>2. MaxDocuments \in Nat
  BY StorerAssumption
<1> QED
  BY <1>1, <1>2

LEMMA PublishShape ==
  ASSUME Shape, PublishJson
  PROVE  Shape'
<1>1. /\ call.step = "idle" /\ documents < MaxDocuments
      /\ documents' = documents + 1
      /\ UNCHANGED <<logEntrySavedQueue, nextEntry, stored, everSaved, announced>>
      /\ logServiceId' \in ServiceIds \cup {""}
      /\ Refuses \/ MakesRoom \/ StartsEntry \/ StartsFile
  BY Publishing
<1>2. documents' \in 1 .. MaxDocuments /\ MaxDocuments \in Nat
  <2>1. /\ documents < MaxDocuments /\ documents' = documents + 1
    BY <1>1
  <2> QED
    BY <2>1, Counted
<1>3. /\ CallKnown' /\ logEntryQueue' \in Seq(EntryPaths)
      /\ result' \in {"none", "true", "false", "throws"}
  <2>1. CASE Refuses
    BY <2>1, IdleNext DEF Refuses, Shape
  <2>2. CASE MakesRoom
    <3>1. logEntryQueue \in Seq(EntryPaths) /\ logEntryQueue # <<>>
      BY <2>2, StorerAssumption DEF MakesRoom, Latest, Shape
    <3>2. /\ Head(logEntryQueue) \in EntryPaths
          /\ Tail(logEntryQueue) \in Seq(EntryPaths)
      BY <3>1
    <3>3. /\ call'.step = "remove" /\ call'.purpose = "entry"
          /\ call'.path = Head(logEntryQueue)
          /\ call' = CallFor(call'.step, call'.purpose, call'.path)
      BY <2>2, CallFields DEF MakesRoom
    <3>4. Removing'
      BY <2>2, <3>2, <3>3 DEF Removing, MakesRoom
    <3> QED
      BY <2>2, <3>2, <3>3, <3>4 DEF CallKnown, MakesRoom, Shape
  <2>3. CASE StartsEntry
    <3>1. /\ EntryPath(logServiceId, Uuids[documents + 1]) \in EntryPaths
          /\ IdOf(EntryPath(logServiceId, Uuids[documents + 1])) = Uuids[documents']
      BY <1>1, <1>2, <2>3, EntryFacts DEF StartsEntry
    <3> QED
      BY <2>3, <3>1, EntryNext DEF StartsEntry, Shape
  <2>4. CASE StartsFile
    BY <2>4, FileNext DEF StartsFile, Shape
  <2> QED
    BY <1>1, <2>1, <2>2, <2>3, <2>4
<1>4. /\ stored \in Seq(EntryPaths) /\ everSaved \subseteq EntryPaths
      /\ logEntrySavedQueue \in Seq(EntryPaths)
      /\ announced \in Seq(Seq(Names)) /\ nextEntry = Len(stored)
  BY DEF Shape
<1>5. /\ stored' = stored /\ everSaved' = everSaved
      /\ logEntrySavedQueue' = logEntrySavedQueue
      /\ announced' = announced /\ nextEntry' = nextEntry
      /\ logServiceId' \in ServiceIds \cup {""}
  BY <1>1
<1>6. documents' \in 0 .. MaxDocuments /\ documents' > 0
  BY <1>2
<1> QED
  BY <1>3, <1>4, <1>5, <1>6 DEF Shape

(* A step of a call, as far as Shape is concerned.                         *)
LEMMA StepShape ==
  ASSUME Shape, CallKnown', UNCHANGED <<logServiceId, documents>>,
         call.step # "idle",
         stored' \in Seq(EntryPaths), everSaved' \subseteq EntryPaths,
         logEntrySavedQueue' \in Seq(EntryPaths),
         logEntryQueue' \in Seq(EntryPaths),
         result' \in {"none", "true", "false", "throws"},
         announced' \in Seq(Seq(Names)), nextEntry' = Len(stored')
  PROVE  Shape'
BY DEF Shape

LEMMA SameQueuesShape ==
  ASSUME Shape, CallKnown', UNCHANGED <<storerVars, history, documents>>,
         call.step # "idle",
         result' \in {"none", "true", "false", "throws"}
  PROVE  Shape'
<1>1. UNCHANGED <<logServiceId, logEntrySavedQueue, logEntryQueue, nextEntry,
                  stored, everSaved, announced, documents>>
  BY DEF storerVars, history
<1> QED
  BY <1>1, StepShape DEF Shape

LEMMA RemoveShape ==
  ASSUME Shape, RemoveOldest
  PROVE  Shape' /\ Removing
<1>1. /\ call.step = "remove" /\ UNCHANGED <<storerVars, history, documents>>
      /\ \/ call' = NewEntry(documents) /\ result' = result
         \/ Return("false")
  BY DEF RemoveOldest, bounds, Fault
<1>2. Removing
  BY <1>1, IdleFields DEF Shape, CallKnown, Idle, Entering, Serving
<1>3. documents \in 1 .. MaxDocuments
  <2>1. call.step # "idle"
    BY <1>1
  <2> QED
    BY <2>1, Counted
<1>4. CASE call' = NewEntry(documents) /\ result' = result
  <2>1. call' = CallFor("folder", "entry",
                        EntryPath(logServiceId, Uuids[documents]))
    BY <1>4 DEF NewEntry
  <2>2. /\ EntryPath(logServiceId, Uuids[documents]) \in EntryPaths
        /\ IdOf(EntryPath(logServiceId, Uuids[documents])) = Uuids[documents']
    BY <1>1, <1>2, <1>3, EntryFacts DEF Removing
  <2>3. CallKnown'
    BY <2>1, <2>2, EntryNext
  <2> QED
    BY <1>1, <1>2, <1>4, <2>3, SameQueuesShape DEF Shape
<1>5. CASE Return("false")
  <2>1. CallKnown' /\ result' \in {"none", "true", "false", "throws"}
    BY <1>5, ReturnFacts, IdleNext
  <2> QED
    BY <1>1, <1>2, <2>1, SameQueuesShape
<1> QED
  BY <1>1, <1>4, <1>5

LEMMA CallCases ==
  ASSUME Shape
  PROVE  /\ call.step = "folder" => Entering \/ Serving
         /\ call.step = "write" => Entering \/ Serving
         /\ call.step = "notify" => Entering
BY IdleFields DEF Shape, CallKnown, Idle, Removing, Serving

LEMMA FolderShape ==
  ASSUME Shape, CreateFolder
  PROVE  Shape'
<1>1. /\ call.step = "folder" /\ UNCHANGED <<storerVars, history, documents>>
      /\ \/ call' = [call EXCEPT !.step = "write"] /\ result' = result
         \/ Return("false") \/ Return("throws")
  BY DEF CreateFolder, bounds, Fault, Throw
<1>2. call = CallFor(call.step, call.purpose, call.path) /\ (Entering \/ Serving)
  BY <1>1, CallCases DEF Shape, CallKnown
<1>3. CASE call' = [call EXCEPT !.step = "write"] /\ result' = result
  <2>1. call' = CallFor("write", call.purpose, call.path)
    BY <1>2, <1>3, CallFields
  <2>2. CallKnown'
    <3>1. CASE Entering
      BY <1>1, <2>1, <3>1, EntryNext DEF Entering
    <3>2. CASE Serving
      BY <2>1, <3>2, FileNext DEF Serving
    <3> QED
      BY <1>2, <3>1, <3>2
  <2> QED
    BY <1>1, <1>3, <2>2, SameQueuesShape DEF Shape
<1>4. CASE Return("false") \/ Return("throws")
  <2>1. CallKnown' /\ result' \in {"none", "true", "false", "throws"}
    BY <1>4, ReturnFacts, IdleNext
  <2> QED
    BY <1>1, <2>1, SameQueuesShape
<1> QED
  BY <1>1, <1>3, <1>4

(* What follows the write of a file.                                       *)
LEMMA Written ==
  ASSUME Shape, WriteFile
  PROVE  /\ call.step = "write" /\ UNCHANGED <<storerVars, history, documents>>
         /\ \/ /\ Entering /\ call' = CallFor("notify", "entry", call.path)
               /\ result' = result
            \/ /\ Serving /\ call.purpose = "service"
               /\ call' = CallFor("folder", "entries", EntriesPath(call.path))
               /\ result' = result
            \/ /\ Serving /\ call.purpose \in {"entries", "other"}
               /\ Return("true")
<1>1. /\ call.step = "write" /\ UNCHANGED <<storerVars, history, documents>>
      /\ FileCreated
  BY DEF WriteFile, bounds, Fault
<1>2. call = CallFor(call.step, call.purpose, call.path) /\ (Entering \/ Serving)
  BY <1>1, CallCases DEF Shape, CallKnown
<1>3. CASE Entering
  <2>1. call.purpose = "entry"
    BY <1>3 DEF Entering
  <2>2. call' = [call EXCEPT !.step = "notify"] /\ result' = result
    BY <1>1, <2>1 DEF FileCreated
  <2>3. call' = CallFor("notify", "entry", call.path)
    BY <1>2, <2>1, <2>2, CallFields
  <2> QED
    BY <1>1, <1>3, <2>2, <2>3
<1>4. CASE Serving
  <2>1. call.purpose \in {"service", "entries", "other"}
    BY <1>4 DEF Serving
  <2> QED
    BY <1>1, <1>4, <2>1 DEF FileCreated
<1> QED
  BY <1>2, <1>3, <1>4

LEMMA WriteShape ==
  ASSUME Shape, WriteFile
  PROVE  Shape'
<1>1. /\ call.step = "write" /\ UNCHANGED <<storerVars, history, documents>>
      /\ \/ /\ Entering /\ call' = CallFor("notify", "entry", call.path)
            /\ result' = result
         \/ /\ Serving /\ call.purpose = "service"
            /\ call' = CallFor("folder", "entries", EntriesPath(call.path))
            /\ result' = result
         \/ /\ Serving /\ call.purpose \in {"entries", "other"}
            /\ Return("true")
  BY Written
<1>2. result \in {"none", "true", "false", "throws"}
  BY DEF Shape
<1>3. CallKnown' /\ result' \in {"none", "true", "false", "throws"}
  <2>1. CASE Entering /\ call' = CallFor("notify", "entry", call.path)
             /\ result' = result
    BY <1>1, <1>2, <2>1, EntryNext DEF Entering
  <2>2. CASE Serving /\ result' = result
             /\ call' = CallFor("folder", "entries", EntriesPath(call.path))
    <3>1. ForeignPath(EntriesPath(call.path))
      BY <2>2, EntriesPathFacts DEF Serving
    <3> QED
      BY <1>2, <2>2, <3>1, FileNext
  <2>3. CASE Return("true")
    BY <2>3, ReturnFacts, IdleNext
  <2> QED
    BY <1>1, <2>1, <2>2, <2>3
<1> QED
  BY <1>1, <1>3, SameQueuesShape

LEMMA EntryShape ==
  ASSUME Shape, CreateEntry
  PROVE  Shape'
<1>1. /\ call.step = "notify" /\ Entering
      /\ UNCHANGED <<logServiceId, documents>>
  BY CallCases DEF CreateEntry, bounds, Fault
<1>2. CASE /\ Announce /\ PushEntry(call.path)
           /\ stored' = Append(stored, call.path) /\ Return("true")
  <2>1. CallKnown' /\ result' \in {"none", "true", "false", "throws"}
    BY <1>2, ReturnFacts, IdleNext
  <2>2. call.path \in EntryPaths /\ FolderAt(call.path) \in Seq(Names)
    BY <1>1, EntryIsPath DEF Entering
  <2>3. /\ stored \in Seq(EntryPaths) /\ everSaved \subseteq EntryPaths
        /\ logEntrySavedQueue \in Seq(EntryPaths)
        /\ logEntryQueue \in Seq(EntryPaths)
        /\ announced \in Seq(Seq(Names)) /\ nextEntry = Len(stored)
    BY DEF Shape
  <2>4. stored' \in Seq(EntryPaths) /\ nextEntry' = Len(stored')
    BY <1>2, <2>2, <2>3, AppendFacts DEF Announce
  <2>5. announced' \in Seq(Seq(Names))
    BY <1>2, <2>2, <2>3, AppendFacts DEF Announce
  <2>6. /\ logEntrySavedQueue' \in Seq(EntryPaths)
        /\ logEntryQueue' \in Seq(EntryPaths) /\ everSaved' \subseteq EntryPaths
    <3>1. /\ Append(logEntrySavedQueue, call.path) \in Seq(EntryPaths)
          /\ Append(logEntryQueue, call.path) \in Seq(EntryPaths)
          /\ everSaved \cup {call.path} \subseteq EntryPaths
      BY <2>2, <2>3, AppendFacts
    <3>2. /\ \/ logEntrySavedQueue' = logEntrySavedQueue
             \/ logEntrySavedQueue' = Append(logEntrySavedQueue, call.path)
          /\ \/ logEntryQueue' = logEntryQueue
             \/ logEntryQueue' = Append(logEntryQueue, call.path)
          /\ everSaved' = everSaved \/ everSaved' = everSaved \cup {call.path}
      BY <1>2 DEF PushEntry
    <3> QED
      BY <2>3, <3>1, <3>2
  <2> QED
    BY <1>1, <2>1, <2>4, <2>5, <2>6, StepShape
<1>3. CASE /\ Throw
           /\ UNCHANGED <<nextEntry, logEntrySavedQueue, logEntryQueue, history>>
  <2>1. CallKnown' /\ result' \in {"none", "true", "false", "throws"}
    BY <1>3, ReturnFacts, IdleNext DEF Throw
  <2> QED
    BY <1>1, <1>3, <2>1, SameQueuesShape DEF storerVars
<1> QED
  BY <1>2, <1>3 DEF CreateEntry

LEMMA EmptySeqs == \A S : <<>> \in Seq(S) /\ Len(<<>>) = 0
OBVIOUS

LEMMA RestartShape ==
  ASSUME Shape, Restart
  PROVE  Shape'
<1>1. /\ logServiceId' = "" /\ logEntrySavedQueue' = <<>> /\ logEntryQueue' = <<>>
      /\ nextEntry' = 0 /\ call' = IdleCall /\ result' = "none"
      /\ stored' = <<>> /\ UNCHANGED <<everSaved, announced, documents>>
  BY DEF Restart
<1>2. CallKnown' /\ call'.step = "idle"
  BY <1>1, IdleNext
<1>3. /\ stored' \in Seq(EntryPaths) /\ logEntrySavedQueue' \in Seq(EntryPaths)
      /\ logEntryQueue' \in Seq(EntryPaths) /\ nextEntry' = Len(stored')
  BY <1>1, EmptySeqs, Zenon
<1>4. logServiceId' \in ServiceIds \cup {""}
  BY <1>1
<1>5. /\ everSaved' \subseteq EntryPaths /\ announced' \in Seq(Seq(Names))
      /\ documents' \in 0 .. MaxDocuments
  BY <1>1 DEF Shape
<1>6. result' \in {"none", "true", "false", "throws"}
  BY <1>1
<1> QED
  BY <1>2, <1>3, <1>4, <1>5, <1>6 DEF Shape

LEMMA ShapeKept ==
  ASSUME Shape, [Next]_vars
  PROVE  Shape'
<1>1. CASE UNCHANGED vars
  BY <1>1 DEF vars, storerVars, disk, history, bounds, Shape, CallKnown, Idle,
              Removing, Entering, Serving
<1> QED
  BY <1>1, PublishShape, RemoveShape, FolderShape, WriteShape, EntryShape,
     RestartShape DEF Next

LEMMA ShapeInit ==
  ASSUME Init
  PROVE  Shape
<1>1. CallKnown /\ call.step = "idle"
  BY IdleFields DEF Init, CallKnown, Idle
<1>2. MaxDocuments \in Nat
  BY StorerAssumption
<1>3. /\ stored = <<>> /\ logEntrySavedQueue = <<>> /\ logEntryQueue = <<>>
      /\ announced = <<>> /\ nextEntry = 0 /\ everSaved = {} /\ logServiceId = ""
      /\ documents = 0 /\ result = "none"
  BY DEF Init
<1>4. Len(stored) = 0
  BY <1>3, EmptySeqs, Zenon
<1>5. /\ stored \in Seq(EntryPaths) /\ logEntrySavedQueue \in Seq(EntryPaths)
      /\ logEntryQueue \in Seq(EntryPaths) /\ announced \in Seq(Seq(Names))
  BY <1>3, EmptySeqs, Zenon
<1>6. /\ logServiceId \in ServiceIds \cup {""} /\ everSaved \subseteq EntryPaths
      /\ result \in {"none", "true", "false", "throws"}
  BY <1>3
<1>7. documents \in 0 .. MaxDocuments /\ nextEntry = Len(stored)
  <2>1. documents = 0 /\ nextEntry = 0
    BY <1>3
  <2> QED
    BY <1>2, <1>4, <2>1
<1>8. call.step # "idle" => documents > 0
  BY <1>1
<1> QED
  BY <1>1, <1>5, <1>6, <1>7, <1>8, Zenon DEF Shape

-----------------------------------------------------------------------------
(* Rooted is kept.                                                         *)

LEMMA CallPath ==
  ASSUME Shape, call.step # "idle"
  PROVE  /\ IsPath(call.path) /\ FolderAt(call.path) \in Seq(Names)
         /\ Removing \/ Entering \/ Serving
<1>1. Removing \/ Entering \/ Serving
  BY IdleFields DEF Shape, CallKnown, Idle
<1> QED
  BY <1>1, EntryIsPath, ForeignIsPath DEF Removing, Entering, Serving

LEMMA PublishStep ==
  ASSUME Shape, PublishJson
  PROVE  /\ call'.step \in {"idle", "remove", "folder"}
         /\ call'.purpose \in {"none", "entry", "service", "other"}
         /\ call'.step = "idle" => result' # "true"
<1>1. Refuses \/ MakesRoom \/ StartsEntry \/ StartsFile
  BY Publishing
<1>2. CASE Refuses
  BY <1>2, IdleFields DEF Refuses
<1>3. CASE MakesRoom
  BY <1>3, CallFields DEF MakesRoom
<1>4. CASE StartsEntry
  BY <1>4, CallFields DEF StartsEntry
<1>5. CASE StartsFile
  <2>1. PICK purpose \in {"service", "other"} :
          \E path : call' = CallFor("folder", purpose, path)
    BY <1>5 DEF StartsFile
  <2>2. call'.step = "folder" /\ call'.purpose = purpose
    BY <2>1, CallFields
  <2> QED
    BY <2>2
<1> QED
  BY <1>1, <1>2, <1>3, <1>4, <1>5

(* What a step of a call does to the folders and files.                    *)
LEMMA Removed ==
  ASSUME Shape, RemoveOldest
  PROVE  \/ /\ call' = CallFor("folder", "entry",
                               EntryPath(logServiceId, Uuids[documents]))
            /\ folders' = folders \ Below(FolderAt(call.path))
            /\ files' = files \ Below(FolderAt(call.path))
            /\ lost' = lost \ Below(FolderAt(call.path))
            /\ result' = result
         \/ /\ call' = IdleCall /\ result' = "false"
            /\ folders' = folders /\ lost' = lost
            /\ files' \in {files, files \ {FolderAt(call.path)}}
<1>1. CASE /\ folders' = folders \ Below(FolderAt(call.path))
           /\ files' = files \ Below(FolderAt(call.path))
           /\ lost' = lost \ Below(FolderAt(call.path))
           /\ call' = NewEntry(documents) /\ UNCHANGED <<result, bounds>>
  BY <1>1 DEF NewEntry
<1>2. CASE /\ \E gone \in {{}, {FolderAt(call.path)}} : files' = files \ gone
           /\ Return("false") /\ UNCHANGED <<folders, lost>>
  BY <1>2, ReturnFacts
<1> QED
  BY <1>1, <1>2 DEF RemoveOldest

LEMMA Created ==
  ASSUME Shape, CreateFolder
  PROVE  /\ call.step = "folder" /\ files' = files /\ lost' = lost
         /\ UNCHANGED <<storerVars, history, documents>>
         /\ \/ /\ IsValidPath(call.path)
               /\ folders' = folders \cup FoldersOn(call.path)
               /\ call' = CallFor("write", call.purpose, call.path)
               /\ result' = result
            \/ /\ call' = IdleCall /\ result' \in {"false", "throws"}
               /\ folders' = folders
<1>1. /\ call.step = "folder" /\ files' = files /\ lost' = lost
      /\ UNCHANGED <<storerVars, history, documents>>
      /\ \/ /\ IsValidPath(call.path)
            /\ folders' = folders \cup FoldersOn(call.path)
            /\ call' = [call EXCEPT !.step = "write"] /\ result' = result
         \/ /\ Return("false") \/ Return("throws")
            /\ folders' = folders
  BY DEF CreateFolder, bounds, Fault, Throw
<1>2. call = CallFor(call.step, call.purpose, call.path)
  BY DEF Shape, CallKnown
<1>3. [call EXCEPT !.step = "write"] = CallFor("write", call.purpose, call.path)
  BY <1>2, CallFields
<1>4. Return("false") \/ Return("throws") =>
        call' = IdleCall /\ result' \in {"false", "throws"}
  BY ReturnFacts
<1> QED
  BY <1>1, <1>3, <1>4

LEMMA FilesWritten ==
  ASSUME WriteFile
  PROVE  /\ folders' = folders
         /\ \/ /\ files' = files \cup {FolderAt(call.path)}
               /\ lost' = lost \ {FolderAt(call.path)}
            \/ /\ files' = files \ {FolderAt(call.path)}
               /\ lost' = lost \cup {FolderAt(call.path)}
               /\ faults' = faults + 1
         /\ OnceWritten' = OnceWritten \cup {FolderAt(call.path)}
BY DEF WriteFile, Fault, OnceWritten

LEMMA RootedKept ==
  ASSUME Shape, Rooted, [Next]_vars
  PROVE  Rooted'
<1>1. CASE UNCHANGED vars
  BY <1>1 DEF vars, disk, Rooted
<1>2. CASE PublishJson
  <2>1. UNCHANGED <<folders, files, lost>> /\ call'.step # "write"
    BY <1>2, Publishing, PublishStep
  <2> QED
    BY <2>1 DEF Rooted
<1>3. CASE RemoveOldest
  <2>1. /\ folders' \subseteq folders
        /\ files' \subseteq folders' /\ lost' \subseteq folders'
    BY <1>3, Removed DEF Rooted
  <2>2. call'.step # "write"
    BY <1>3, Removed, CallFields, IdleFields
  <2> QED
    BY <2>1, <2>2 DEF Rooted
<1>4. CASE CreateFolder
  <2>1. /\ files' = files /\ lost' = lost /\ folders \subseteq folders'
        /\ IsPath(call.path)
    BY <1>4, Created, CallPath
  <2>2. CASE /\ IsValidPath(call.path)
             /\ folders' = folders \cup FoldersOn(call.path)
             /\ call' = CallFor("write", call.purpose, call.path)
    <3>1. /\ FolderAt(call.path) \in FoldersOn(call.path)
          /\ \A p \in FoldersOn(call.path) : IsPrefix(baseDir, p)
      BY <2>1, <2>2, FoldersOnFacts
    <3>2. call'.path = call.path
      BY <2>2, CallFields
    <3> QED
      BY <2>1, <2>2, <3>1, <3>2 DEF Rooted
  <2>3. CASE call' = IdleCall /\ folders' = folders
    BY <2>1, <2>3, IdleFields DEF Rooted
  <2> QED
    BY <1>4, <2>2, <2>3, Created
<1>5. CASE WriteFile
  <2>1. call.step = "write" /\ folders' = folders
    BY <1>5, Written, FilesWritten
  <2>2. files' \subseteq folders /\ lost' \subseteq folders
    BY <1>5, <2>1, FilesWritten DEF Rooted
  <2>3. call'.step # "write"
    BY <1>5, Written, CallFields, IdleFields, ReturnFacts
  <2> QED
    BY <2>1, <2>2, <2>3 DEF Rooted
<1>6. CASE CreateEntry
  <2>1. UNCHANGED <<folders, files, lost>> /\ call' = IdleCall
    BY <1>6, ReturnFacts DEF CreateEntry, disk, Throw
  <2> QED
    BY <2>1, IdleFields DEF Rooted
<1>7. CASE Restart
  <2>1. /\ UNCHANGED <<folders, lost>> /\ files' \subseteq files
        /\ call' = IdleCall
    BY <1>7 DEF Restart
  <2> QED
    BY <2>1, IdleFields DEF Rooted
<1> QED
  BY <1>1, <1>2, <1>3, <1>4, <1>5, <1>6, <1>7 DEF Next

LEMMA RootedInit ==
  ASSUME Init
  PROVE  Rooted
BY IdleFields DEF Init, Rooted

-----------------------------------------------------------------------------
(* Retained is kept.                                                       *)

LEMMA Sizes ==
  ASSUME Shape
  PROVE  /\ Saved \in Nat /\ Latest \in Nat /\ Len(stored) \in Nat
         /\ maxNumSavedLogEntries \in Nat /\ maxNumLogEntries \in Nat
         /\ maxNumLogEntries > 0
<1>1. /\ stored \in Seq(EntryPaths) /\ logEntrySavedQueue \in Seq(EntryPaths)
      /\ logEntryQueue \in Seq(EntryPaths)
  BY DEF Shape
<1>2. /\ Len(stored) \in Nat /\ Len(logEntrySavedQueue) \in Nat
      /\ Len(logEntryQueue) \in Nat
  BY <1>1, LenProperties
<1>3. /\ maxNumSavedLogEntries \in Nat /\ maxNumLogEntries \in Nat \ {0}
  BY StorerAssumption
<1> QED
  BY <1>2, <1>3 DEF Saved, Latest

LEMMA SameQueuesRetained ==
  ASSUME Retained, UNCHANGED <<logEntrySavedQueue, logEntryQueue, stored>>,
         call'.purpose = "entry" => Latest < maxNumLogEntries
  PROVE  Retained'
BY DEF Retained, Lengths, Contents, Saved, Latest

LEMMA TailFacts ==
  ASSUME NEW S, NEW s \in Seq(S), s # <<>>
  PROVE  /\ Tail(s) \in Seq(S) /\ Len(Tail(s)) = Len(s) - 1
         /\ \A i \in 1 .. Len(s) - 1 : Tail(s)[i] = s[i + 1]
         /\ Head(s) = s[1]
OBVIOUS

LEMMA PublishRetained ==
  ASSUME Shape, Retained, PublishJson
  PROVE  Retained'
<1>1. /\ UNCHANGED <<logEntrySavedQueue, stored>>
      /\ Refuses \/ MakesRoom \/ StartsEntry \/ StartsFile
  BY Publishing
<1>2. CASE Refuses
  <2>1. call'.purpose = "none" /\ logEntryQueue' = logEntryQueue
    BY <1>2, IdleFields DEF Refuses
  <2> QED
    BY <1>1, <2>1, SameQueuesRetained
<1>3. CASE MakesRoom
  <2>1. /\ Latest = maxNumLogEntries /\ logEntryQueue' = Tail(logEntryQueue)
    BY <1>3 DEF MakesRoom
  <2>2. /\ logEntryQueue \in Seq(EntryPaths) /\ logEntryQueue # <<>>
        /\ Latest = Len(logEntryQueue)
    <3>1. logEntryQueue \in Seq(EntryPaths) /\ Latest = Len(logEntryQueue)
      BY DEF Latest, Shape
    <3>2. Latest > 0
      BY <2>1, Sizes
    <3> QED
      BY <3>1, <3>2, EmptySeqs
  <2>3. /\ Latest' = Latest - 1
        /\ \A i \in 1 .. Latest - 1 : logEntryQueue'[i] = logEntryQueue[i + 1]
    BY <2>1, <2>2, TailFacts DEF Latest
  <2>4. Saved' = Saved /\ stored' = stored
        /\ logEntrySavedQueue' = logEntrySavedQueue
    BY <1>1 DEF Saved
  <2>5. /\ Saved <= maxNumSavedLogEntries /\ Saved <= Len(stored)
        /\ Latest <= maxNumLogEntries /\ Latest <= Len(stored) - Saved
        /\ Len(stored) > Saved => Saved = maxNumSavedLogEntries
        /\ \A i \in 1 .. Saved : logEntrySavedQueue[i] = stored[i]
        /\ \A i \in 1 .. Latest :
             logEntryQueue[i] = stored[(Len(stored) - Latest) + i]
    BY DEF Retained, Lengths, Contents
  <2>6. \A i \in 1 .. Latest' :
          logEntryQueue'[i] = stored'[(Len(stored') - Latest') + i]
    <3> SUFFICES ASSUME NEW i \in 1 .. Latest'
                 PROVE  logEntryQueue'[i] = stored'[(Len(stored') - Latest') + i]
      OBVIOUS
    <3>1. i \in 1 .. Latest - 1 /\ i + 1 \in 1 .. Latest
          /\ (Len(stored) - Latest) + (i + 1) = (Len(stored') - Latest') + i
      <4>1. /\ Latest' = Latest - 1 /\ Len(stored') = Len(stored)
            /\ Latest \in Nat /\ Len(stored) \in Nat
        BY <2>3, <2>4, Sizes
      <4> QED
        BY <4>1
    <3>2. logEntryQueue[i + 1] = stored[(Len(stored) - Latest) + (i + 1)]
      BY <2>5, <3>1
    <3> QED
      BY <2>3, <2>4, <3>1, <3>2
  <2>7. /\ Saved' <= maxNumSavedLogEntries /\ Saved' <= Len(stored')
        /\ Latest' <= maxNumLogEntries /\ Latest' <= Len(stored') - Saved'
        /\ Len(stored') > Saved' => Saved' = maxNumSavedLogEntries
        /\ Latest' >= maxNumLogEntries - 1 /\ Latest' < maxNumLogEntries
    BY <2>1, <2>3, <2>4, <2>5, Sizes
  <2>8. \A i \in 1 .. Saved' : logEntrySavedQueue'[i] = stored'[i]
    BY <2>4, <2>5
  <2> QED
    BY <2>6, <2>7, <2>8 DEF Retained, Lengths, Contents
<1>4. CASE StartsEntry
  <2>1. Latest < maxNumLogEntries /\ logEntryQueue' = logEntryQueue
    BY <1>4, Sizes DEF StartsEntry, Retained, Lengths, Contents
  <2> QED
    BY <1>1, <2>1, SameQueuesRetained
<1>5. CASE StartsFile
  <2>1. PICK purpose \in {"service", "other"} :
          \E path : call' = CallFor("folder", purpose, path)
    BY <1>5 DEF StartsFile
  <2>2. call'.purpose # "entry"
    BY <2>1, CallFields
  <2> QED
    BY <1>1, <1>5, <2>2, SameQueuesRetained DEF StartsFile
<1> QED
  BY <1>1, <1>2, <1>3, <1>4, <1>5

(* What CreateEntry stores.                                                *)
LEMMA Stored ==
  ASSUME Shape, CreateEntry
  PROVE  /\ call.step = "notify" /\ Entering /\ call' = IdleCall
         /\ UNCHANGED <<logServiceId, folders, files, lost, documents>>
         /\ \/ /\ result' = "true"
               /\ Announce /\ PushEntry(call.path)
               /\ stored' = Append(stored, call.path)
            \/ /\ result' = "throws"
               /\ UNCHANGED <<logEntrySavedQueue, logEntryQueue, history>>
<1>1. call.step = "notify" /\ Entering
  BY CallCases DEF CreateEntry
<1>2. call.purpose = "entry"
  BY <1>1 DEF Entering
<1> QED
  BY <1>1, <1>2, ReturnFacts DEF CreateEntry, bounds, Fault, disk, Throw

LEMMA PushRetained ==
  ASSUME Shape, Retained, Latest < maxNumLogEntries, NEW path \in EntryPaths,
         PushEntry(path), stored' = Append(stored, path), call' = IdleCall
  PROVE  Retained'
<1>1. /\ stored \in Seq(EntryPaths) /\ logEntrySavedQueue \in Seq(EntryPaths)
      /\ logEntryQueue \in Seq(EntryPaths)
  BY DEF Shape
<1>2. /\ Len(stored') = Len(stored) + 1
      /\ \A i \in 1 .. Len(stored) : stored'[i] = stored[i]
      /\ stored'[Len(stored) + 1] = path
  BY <1>1, AppendFacts
<1>3. /\ Saved <= maxNumSavedLogEntries /\ Saved <= Len(stored)
      /\ Latest <= Len(stored) - Saved
      /\ Len(stored) > Saved => Saved = maxNumSavedLogEntries
      /\ (Latest = Len(stored) - Saved \/ Latest >= maxNumLogEntries - 1)
  BY DEF Retained, Lengths, Contents
<1>7. /\ \A i \in 1 .. Saved : logEntrySavedQueue[i] = stored[i]
      /\ \A i \in 1 .. Latest :
           logEntryQueue[i] = stored[(Len(stored) - Latest) + i]
  BY DEF Retained, Lengths, Contents
<1>4. call'.purpose # "entry"
  BY IdleFields
<1>5. CASE Saved < maxNumSavedLogEntries
  <2>1. /\ logEntrySavedQueue' = Append(logEntrySavedQueue, path)
        /\ logEntryQueue' = logEntryQueue
    BY <1>5 DEF PushEntry, Saved
  <2>2. Len(stored) = Saved /\ Latest = 0
    <3>1. ~(Len(stored) > Saved)
      BY <1>3, <1>5, Sizes
    <3> QED
      BY <1>3, <3>1, Sizes
  <2>3. /\ Saved' = Saved + 1 /\ Latest' = Latest
        /\ \A i \in 1 .. Saved : logEntrySavedQueue'[i] = logEntrySavedQueue[i]
        /\ logEntrySavedQueue'[Saved + 1] = path
    BY <1>1, <2>1, AppendFacts DEF Saved, Latest
  <2>4. \A i \in 1 .. Saved' : logEntrySavedQueue'[i] = stored'[i]
    <3> SUFFICES ASSUME NEW i \in 1 .. Saved'
                 PROVE  logEntrySavedQueue'[i] = stored'[i]
      OBVIOUS
    <3>1. i \in 1 .. Saved \/ i = Saved + 1
      BY <2>3, Sizes
    <3> QED
      BY <1>2, <1>7, <2>2, <2>3, <3>1
  <2>5. /\ Saved' <= maxNumSavedLogEntries /\ Saved' <= Len(stored')
        /\ Latest' <= maxNumLogEntries /\ Latest' = Len(stored') - Saved'
        /\ ~(Len(stored') > Saved')
    BY <1>2, <1>5, <2>2, <2>3, Sizes
  <2>6. \A i \in 1 .. Latest' :
          logEntryQueue'[i] = stored'[(Len(stored') - Latest') + i]
    BY <2>2, <2>3
  <2> QED
    <3>1. Lengths'
      BY <1>4, <2>5, Sizes DEF Lengths
    <3>2. Contents'
      BY <2>4, <2>6, Zenon DEF Contents
    <3> QED
      BY <3>1, <3>2 DEF Retained
<1>6. CASE ~(Saved < maxNumSavedLogEntries)
  <2>1. /\ logEntryQueue' = Append(logEntryQueue, path)
        /\ logEntrySavedQueue' = logEntrySavedQueue
    BY <1>6 DEF PushEntry, Saved
  <2>2. Saved = maxNumSavedLogEntries
    BY <1>3, <1>6, Sizes
  <2>3. /\ Saved' = Saved /\ Latest' = Latest + 1
        /\ \A i \in 1 .. Latest : logEntryQueue'[i] = logEntryQueue[i]
        /\ logEntryQueue'[Latest + 1] = path
    BY <1>1, <2>1, AppendFacts DEF Saved, Latest
  <2>4. \A i \in 1 .. Saved' : logEntrySavedQueue'[i] = stored'[i]
    <3> SUFFICES ASSUME NEW i \in 1 .. Saved'
                 PROVE  logEntrySavedQueue'[i] = stored'[i]
      OBVIOUS
    <3>1. i \in 1 .. Saved /\ i \in 1 .. Len(stored)
      BY <1>3, <2>3, Sizes
    <3> QED
      BY <1>2, <1>7, <2>1, <3>1
  <2>5. /\ Saved' <= maxNumSavedLogEntries /\ Saved' <= Len(stored')
        /\ Latest' <= maxNumLogEntries /\ Latest' <= Len(stored') - Saved'
        /\ Saved' = maxNumSavedLogEntries
        /\ (Latest' = Len(stored') - Saved' \/ Latest' >= maxNumLogEntries - 1)
    BY <1>2, <1>3, <2>2, <2>3, Sizes
  <2>6. \A i \in 1 .. Latest' :
          logEntryQueue'[i] = stored'[(Len(stored') - Latest') + i]
    <3> SUFFICES ASSUME NEW i \in 1 .. Latest'
                 PROVE  logEntryQueue'[i] = stored'[(Len(stored') - Latest') + i]
      OBVIOUS
    <3>1. Len(stored') - Latest' = Len(stored) - Latest
      BY <1>2, <2>3, Sizes
    <3>2. CASE i \in 1 .. Latest
      <4>1. (Len(stored) - Latest) + i \in 1 .. Len(stored)
        <5>1. Latest <= Len(stored) - Saved
          BY <1>3
        <5> QED
          BY <3>2, <5>1, Sizes
      <4> QED
        BY <1>2, <1>7, <2>3, <3>1, <3>2, <4>1
    <3>3. CASE i = Latest + 1
      <4>1. (Len(stored) - Latest) + i = Len(stored) + 1
        BY <3>3, Sizes
      <4> QED
        BY <1>2, <2>3, <3>1, <3>3, <4>1
    <3>4. i \in 1 .. Latest \/ i = Latest + 1
      <4>1. Latest' = Latest + 1 /\ Latest \in Nat
        BY <2>3, Sizes
      <4> QED
        BY <4>1
    <3> QED
      BY <3>2, <3>3, <3>4
  <2> QED
    <3>1. Lengths'
      BY <1>4, <2>5, Sizes DEF Lengths
    <3>2. Contents'
      BY <2>4, <2>6, Zenon DEF Contents
    <3> QED
      BY <3>1, <3>2 DEF Retained
<1> QED
  BY <1>5, <1>6

LEMMA RetainedKept ==
  ASSUME Shape, Retained, [Next]_vars
  PROVE  Retained'
<1>0. call.purpose = "entry" => Latest < maxNumLogEntries
  BY DEF Retained, Lengths, Contents
<1>1. CASE UNCHANGED vars
  BY <1>0, <1>1, SameQueuesRetained DEF vars, storerVars, history
<1>2. CASE PublishJson
  BY <1>2, PublishRetained
<1>3. CASE RemoveOldest
  <2>1. /\ UNCHANGED <<logEntrySavedQueue, logEntryQueue, stored>>
        /\ call.purpose = "entry"
    BY <1>3, RemoveShape DEF RemoveOldest, storerVars, history, Removing
  <2> QED
    BY <1>0, <2>1, SameQueuesRetained
<1>4. CASE CreateFolder
  <2>1. /\ UNCHANGED <<logEntrySavedQueue, logEntryQueue, stored>>
        /\ call'.purpose = "entry" => call.purpose = "entry"
    BY <1>4, Created, CallFields, IdleFields DEF storerVars, history
  <2> QED
    BY <1>0, <2>1, SameQueuesRetained
<1>5. CASE WriteFile
  <2>1. UNCHANGED <<logEntrySavedQueue, logEntryQueue, stored>>
    BY <1>5, Written DEF storerVars, history
  <2>2. call'.purpose = "entry" => call.purpose = "entry"
    BY <1>5, Written, CallFields, IdleFields, ReturnFacts DEF Entering
  <2> QED
    BY <1>0, <2>1, <2>2, SameQueuesRetained
<1>6. CASE CreateEntry
  <2>1. Latest < maxNumLogEntries /\ call.path \in EntryPaths
        /\ call' = IdleCall /\ call'.purpose # "entry"
    BY <1>0, <1>6, Stored, IdleFields DEF Entering
  <2>2. CASE UNCHANGED <<logEntrySavedQueue, logEntryQueue, history>>
    BY <2>1, <2>2, SameQueuesRetained DEF history
  <2>3. CASE PushEntry(call.path) /\ stored' = Append(stored, call.path)
    BY <2>1, <2>3, PushRetained
  <2> QED
    BY <1>6, <2>2, <2>3, Stored
<1>7. CASE Restart
  <2>1. /\ logEntrySavedQueue' = <<>> /\ logEntryQueue' = <<>> /\ stored' = <<>>
        /\ call'.purpose # "entry"
    BY <1>7, IdleFields DEF Restart
  <2>2. Saved' = 0 /\ Latest' = 0 /\ Len(stored') = 0
    BY <2>1, EmptySeqs DEF Saved, Latest
  <2> QED
    BY <2>1, <2>2, Sizes DEF Retained, Lengths, Contents
<1> QED
  BY <1>1, <1>2, <1>3, <1>4, <1>5, <1>6, <1>7 DEF Next

LEMMA RetainedInit ==
  ASSUME Init
  PROVE  Retained
<1>1. /\ logEntrySavedQueue = <<>> /\ logEntryQueue = <<>> /\ stored = <<>>
      /\ call.purpose # "entry"
  BY IdleFields DEF Init
<1>2. Saved = 0 /\ Latest = 0 /\ Len(stored) = 0
  BY <1>1, EmptySeqs DEF Saved, Latest
<1> QED
  BY <1>1, <1>2, ShapeInit, Sizes DEF Retained, Lengths, Contents

-----------------------------------------------------------------------------
(* Fresh is kept.                                                          *)

LEMMA IdsGrow ==
  ASSUME NEW m \in Int, NEW n \in Int, m <= n
  PROVE  Ids(m) \subseteq Ids(n)
BY DEF Ids

LEMMA PastFacts ==
  ASSUME Shape
  PROVE  /\ Past \in Int
         /\ call.step = "idle" => Past = documents
         /\ call.step # "idle" => Past = documents - 1
BY Counted DEF Past

LEMMA PastGrows ==
  ASSUME Shape, [Next]_vars
  PROVE  Ids(Past) \subseteq Ids(Past')
<1>1. Shape' /\ documents \in Int /\ Past \in Int
  BY ShapeKept, Counted, PastFacts
<1>2. Past' \in Int /\ (Past' = documents' \/ Past' = documents' - 1)
      /\ (call'.step = "idle" => Past' = documents')
  <2>1. documents' \in 0 .. MaxDocuments
    BY <1>1, Zenon DEF Shape
  <2>2. documents' \in Int
    BY <2>1, StorerAssumption
  <2>3. Past' = IF call'.step = "idle" THEN documents' ELSE documents' - 1
    BY DEF Past
  <2>4. /\ call'.step = "idle" => Past' = documents'
        /\ call'.step # "idle" => Past' = documents' - 1
    BY <2>3, Zenon
  <2>5. Past' = documents' \/ Past' = documents' - 1
    BY <2>4, Zenon
  <2>6. Past' \in Int
    BY <2>2, <2>5
  <2> QED
    BY <2>4, <2>5, <2>6, Zenon
<1>3. CASE PublishJson
  <2>1. Past = documents /\ documents' = documents + 1
    BY <1>3, Publishing, PastFacts
  <2>2. Past <= Past'
    BY <1>1, <1>2, <2>1
  <2> QED
    BY <1>1, <1>2, <2>2, IdsGrow
<1>4. CASE UNCHANGED vars
  BY <1>4 DEF vars, bounds, Past
<1>5. CASE RemoveOldest \/ CreateFolder \/ WriteFile \/ CreateEntry \/ Restart
  <2>1. documents' = documents
    BY <1>5 DEF RemoveOldest, CreateFolder, WriteFile, CreateEntry, Restart,
                bounds, Fault
  <2>2. Past <= Past'
    <3>1. CASE Past = documents - 1
      BY <1>1, <1>2, <2>1, <3>1
    <3>2. CASE call.step = "idle"
      <4>1. Restart
        BY <1>5, <3>2 DEF RemoveOldest, CreateFolder, WriteFile, CreateEntry
      <4>2. call'.step = "idle"
        BY <4>1, IdleFields DEF Restart
      <4>3. Past' = documents /\ Past = documents
        BY <1>2, <2>1, <3>2, <4>2, PastFacts
      <4> QED
        BY <1>1, <4>3
    <3> QED
      BY <3>1, <3>2, PastFacts
  <2> QED
    BY <1>1, <1>2, <2>2, IdsGrow
<1> QED
  BY <1>3, <1>4, <1>5 DEF Next

LEMMA SameStoredFresh ==
  ASSUME Fresh, UNCHANGED <<logEntrySavedQueue, stored, everSaved>>,
         Ids(Past) \subseteq Ids(Past'),
         call'.step = "remove" => \A p \in Kept' : IdOf(p) # IdOf(call'.path)
  PROVE  Fresh'
BY DEF Fresh, Saved

(* An entry of the second queue is a stored one that is not saved.         *)
LEMMA LatestIndex ==
  ASSUME Shape, Retained, NEW i \in 1 .. Latest
  PROVE  /\ (Len(stored) - Latest) + i \in Saved + 1 .. Len(stored)
         /\ (Len(stored) - Latest) + i \in 1 .. Len(stored)
         /\ logEntryQueue[i] = stored[(Len(stored) - Latest) + i]
<1>1. Latest <= Len(stored) - Saved
  BY DEF Retained, Lengths
<1>2. logEntryQueue[i] = stored[(Len(stored) - Latest) + i]
  BY DEF Retained, Contents
<1>3. /\ (Len(stored) - Latest) + i \in Saved + 1 .. Len(stored)
      /\ (Len(stored) - Latest) + i \in 1 .. Len(stored)
  BY <1>1, Sizes
<1> QED
  BY <1>2, <1>3

LEMMA QueueSet ==
  ASSUME Shape
  PROVE  ToSet(logEntryQueue) = {logEntryQueue[i] : i \in 1 .. Latest}
<1>1. DOMAIN logEntryQueue = 1 .. Latest
  BY LenProperties DEF Shape, Latest
<1> QED
  BY <1>1 DEF ToSet

LEMMA KeptIds ==
  ASSUME Shape, Retained, Fresh, NEW p \in Kept
  PROVE  p \in EntryPaths /\ IdOf(p) \in Ids(Past)
<1>1. CASE p \in everSaved
  BY <1>1 DEF Shape, Fresh
<1>2. CASE p \in ToSet(logEntryQueue)
  <2>1. PICK i \in 1 .. Latest : p = logEntryQueue[i]
    BY <1>2, QueueSet
  <2>2. p = stored[(Len(stored) - Latest) + i]
        /\ (Len(stored) - Latest) + i \in 1 .. Len(stored)
    BY <2>1, LatestIndex
  <2>3. IdOf(p) \in Ids(Past)
    BY <2>2 DEF Fresh
  <2>4. p \in EntryPaths
    BY <2>2, ElementOfSeq DEF Shape
  <2> QED
    BY <2>3, <2>4
<1> QED
  BY <1>1, <1>2 DEF Kept

LEMMA PublishFresh ==
  ASSUME Shape, Retained, Fresh, PublishJson
  PROVE  Fresh'
<1>1. /\ UNCHANGED <<logEntrySavedQueue, stored, everSaved>>
      /\ Refuses \/ MakesRoom \/ StartsEntry \/ StartsFile
  BY Publishing
<1>2. Ids(Past) \subseteq Ids(Past')
  BY PastGrows DEF Next
<1>3. call'.step = "remove" => \A p \in Kept' : IdOf(p) # IdOf(call'.path)
  <2>1. CASE MakesRoom
    <3>1. /\ Latest = maxNumLogEntries /\ logEntryQueue' = Tail(logEntryQueue)
          /\ call'.path = Head(logEntryQueue)
      BY <2>1, CallFields DEF MakesRoom
    <3>2. logEntryQueue \in Seq(EntryPaths) /\ logEntryQueue # <<>>
          /\ Latest = Len(logEntryQueue) /\ 1 \in 1 .. Latest
      <4>1. logEntryQueue \in Seq(EntryPaths) /\ Latest = Len(logEntryQueue)
        BY DEF Latest, Shape
      <4>2. Latest > 0 /\ Latest \in Nat
        BY <3>1, Sizes
      <4> QED
        BY <4>1, <4>2, EmptySeqs
    <3> DEFINE first == (Len(stored) - Latest) + 1
    <3>3. /\ first \in Saved + 1 .. Len(stored) /\ first \in 1 .. Len(stored)
          /\ call'.path = stored[first]
      BY <3>1, <3>2, LatestIndex, TailFacts
    <3> SUFFICES ASSUME NEW p \in Kept'
                 PROVE  IdOf(p) # IdOf(call'.path)
      OBVIOUS
    <3>4. CASE p \in everSaved
      BY <3>3, <3>4 DEF Fresh
    <3>5. CASE p \in ToSet(logEntryQueue')
      <4>1. PICK k \in 1 .. Latest - 1 : p = logEntryQueue[k + 1]
        <5>1. /\ Tail(logEntryQueue) \in Seq(EntryPaths)
              /\ Len(Tail(logEntryQueue)) = Latest - 1
              /\ \A k \in 1 .. Latest - 1 :
                   Tail(logEntryQueue)[k] = logEntryQueue[k + 1]
          BY <3>2, TailFacts
        <5>2. DOMAIN Tail(logEntryQueue) = 1 .. Latest - 1
          BY <5>1, LenProperties
        <5>3. p \in ToSet(Tail(logEntryQueue))
          BY <3>1, <3>5
        <5>4. PICK k \in 1 .. Latest - 1 : p = Tail(logEntryQueue)[k]
          BY <5>2, <5>3 DEF ToSet
        <5> QED
          BY <5>1, <5>4
      <4> DEFINE second == (Len(stored) - Latest) + (k + 1)
      <4>2. k + 1 \in 1 .. Latest /\ second # first
        BY Sizes
      <4>3. second \in 1 .. Len(stored) /\ p = stored[second]
        BY <4>1, <4>2, LatestIndex
      <4> HIDE DEF first, second
      <4> QED
        BY <3>3, <4>2, <4>3 DEF Fresh
    <3> QED
      BY <1>1, <3>4, <3>5 DEF Kept
  <2>2. CASE Refuses
    BY <2>2, IdleFields DEF Refuses
  <2>3. CASE StartsEntry
    BY <2>3, CallFields DEF StartsEntry
  <2>4. CASE StartsFile
    <3>1. PICK purpose \in {"service", "other"} :
            \E path : call' = CallFor("folder", purpose, path)
      BY <2>4 DEF StartsFile
    <3> QED
      BY <3>1, CallFields
  <2> QED
    BY <1>1, <2>1, <2>2, <2>3, <2>4
<1> QED
  BY <1>1, <1>2, <1>3, SameStoredFresh

LEMMA PushFresh ==
  ASSUME Shape, Retained, Fresh, NEW path \in EntryPaths,
         NEW n \in 1 .. MaxDocuments, IdOf(path) = Uuids[n],
         Ids(Past) \subseteq Ids(n - 1), Past' = n, call'.step = "idle",
         PushEntry(path), stored' = Append(stored, path)
  PROVE  Fresh'
<1> DEFINE N == Len(stored)
<1>1. /\ IdOf(path) \notin Ids(Past) /\ Ids(Past) \subseteq Ids(Past')
      /\ IdOf(path) \in Ids(Past')
  BY FreshIds
<1>2. /\ Len(stored') = N + 1
      /\ \A i \in 1 .. N : stored'[i] = stored[i]
      /\ stored'[N + 1] = path
  <2>1. stored \in Seq(EntryPaths)
    BY DEF Shape
  <2> QED
    BY <2>1, AppendFacts
<1>3. /\ \A p \in everSaved : IdOf(p) \in Ids(Past)
      /\ \A i \in 1 .. N : IdOf(stored[i]) \in Ids(Past)
      /\ \A i, j \in 1 .. N : IdOf(stored[i]) = IdOf(stored[j]) => i = j
      /\ \A i \in 1 .. Saved : stored[i] \in everSaved
      /\ \A p \in everSaved : \A i \in Saved + 1 .. N : IdOf(p) # IdOf(stored[i])
  BY DEF Fresh
<1>4. Saved <= N /\ (N > Saved => Saved = maxNumSavedLogEntries)
      /\ Saved \in Nat /\ N \in Nat /\ maxNumSavedLogEntries \in Nat
  BY Sizes DEF Retained, Lengths
<1> HIDE DEF N
<1>5. \A i \in 1 .. Len(stored') : i \in 1 .. N \/ i = N + 1
  BY <1>2, <1>4
<1>6. \A i \in 1 .. Len(stored') : IdOf(stored'[i]) \in Ids(Past')
  BY <1>1, <1>2, <1>3, <1>5
<1>7. \A i, j \in 1 .. Len(stored') :
        IdOf(stored'[i]) = IdOf(stored'[j]) => i = j
  BY <1>1, <1>2, <1>3, <1>5
<1>8. CASE Saved < maxNumSavedLogEntries
  <2>1. /\ logEntrySavedQueue' = Append(logEntrySavedQueue, path)
        /\ everSaved' = everSaved \cup {path}
    BY <1>8 DEF PushEntry, Saved
  <2>2. Saved' = Saved + 1 /\ Saved = N
    <3>1. Saved' = Saved + 1
      <4>1. logEntrySavedQueue \in Seq(EntryPaths)
        BY DEF Shape
      <4> QED
        BY <2>1, <4>1, AppendFacts DEF Saved
    <3> QED
      BY <1>4, <1>8, <3>1
  <2>3. \A p \in everSaved' : IdOf(p) \in Ids(Past')
    BY <1>1, <1>3, <2>1
  <2>4. \A i \in 1 .. Saved' : stored'[i] \in everSaved'
    <3> SUFFICES ASSUME NEW i \in 1 .. Saved'
                 PROVE  stored'[i] \in everSaved'
      OBVIOUS
    <3>1. i \in 1 .. N \/ i = N + 1
      BY <1>4, <2>2
    <3> QED
      BY <1>2, <1>3, <2>1, <2>2, <3>1
  <2>5. \A i \in Saved' + 1 .. Len(stored') : FALSE
    BY <1>2, <1>4, <2>2
  <2> QED
    BY <1>6, <1>7, <2>3, <2>4, <2>5 DEF Fresh
<1>9. CASE ~(Saved < maxNumSavedLogEntries)
  <2>1. logEntrySavedQueue' = logEntrySavedQueue /\ everSaved' = everSaved
    BY <1>9 DEF PushEntry, Saved
  <2>2. Saved' = Saved
    BY <2>1 DEF Saved
  <2>3. \A p \in everSaved' : IdOf(p) \in Ids(Past')
    BY <1>1, <1>3, <2>1
  <2>4. \A i \in 1 .. Saved' : stored'[i] \in everSaved'
    <3> SUFFICES ASSUME NEW i \in 1 .. Saved'
                 PROVE  stored'[i] \in everSaved'
      OBVIOUS
    <3>1. i \in 1 .. N /\ i \in 1 .. Saved
      BY <1>4, <2>2
    <3> QED
      BY <1>2, <1>3, <2>1, <3>1
  <2>5. \A p \in everSaved' : \A i \in Saved' + 1 .. Len(stored') :
          IdOf(p) # IdOf(stored'[i])
    <3> SUFFICES ASSUME NEW p \in everSaved', NEW i \in Saved' + 1 .. Len(stored')
                 PROVE  IdOf(p) # IdOf(stored'[i])
      OBVIOUS
    <3>1. (i \in Saved + 1 .. N /\ i \in 1 .. N) \/ i = N + 1
      BY <1>2, <1>4, <2>2
    <3>2. p \in everSaved /\ IdOf(p) \in Ids(Past)
      BY <1>3, <2>1
    <3> QED
      BY <1>1, <1>2, <1>3, <3>1, <3>2
  <2> QED
    BY <1>6, <1>7, <2>3, <2>4, <2>5 DEF Fresh
<1> QED
  BY <1>8, <1>9

LEMMA FreshKept ==
  ASSUME Shape, Retained, Fresh, [Next]_vars
  PROVE  Fresh'
<1>0. Ids(Past) \subseteq Ids(Past')
  BY PastGrows
<1>1. CASE UNCHANGED vars
  <2>1. UNCHANGED <<logEntrySavedQueue, logEntryQueue, stored, everSaved, call>>
    BY <1>1 DEF vars, storerVars, history
  <2>2. Kept' = Kept
    BY <2>1 DEF Kept
  <2>3. call.step = "remove" => \A p \in Kept : IdOf(p) # IdOf(call.path)
    BY DEF Fresh
  <2> QED
    BY <1>0, <2>1, <2>2, <2>3, SameStoredFresh
<1>2. CASE PublishJson
  BY <1>2, PublishFresh
<1>3. CASE RemoveOldest
  <2>1. UNCHANGED <<logEntrySavedQueue, stored, everSaved>>
    BY <1>3 DEF RemoveOldest, storerVars, history
  <2>2. call'.step # "remove"
    BY <1>3, Removed, CallFields, IdleFields
  <2> QED
    BY <1>0, <2>1, <2>2, SameStoredFresh
<1>4. CASE CreateFolder
  <2>1. UNCHANGED <<logEntrySavedQueue, stored, everSaved>>
    BY <1>4, Created DEF storerVars, history
  <2>2. call'.step # "remove"
    BY <1>4, Created, CallFields, IdleFields
  <2> QED
    BY <1>0, <2>1, <2>2, SameStoredFresh
<1>5. CASE WriteFile
  <2>1. UNCHANGED <<logEntrySavedQueue, stored, everSaved>>
    BY <1>5, Written DEF storerVars, history
  <2>2. call'.step # "remove"
    BY <1>5, Written, CallFields, IdleFields, ReturnFacts
  <2> QED
    BY <1>0, <2>1, <2>2, SameStoredFresh
<1>6. CASE CreateEntry
  <2>1. /\ call.step = "notify" /\ Entering /\ call'.step = "idle"
        /\ documents' = documents
    BY <1>6, Stored, IdleFields
  <2>2. /\ documents \in 1 .. MaxDocuments /\ Past = documents - 1
        /\ Past' = documents
    BY <2>1, Counted, PastFacts DEF Past
  <2>3. CASE UNCHANGED <<logEntrySavedQueue, logEntryQueue, history>>
    BY <1>0, <2>1, <2>3, SameStoredFresh DEF history
  <2>4. CASE PushEntry(call.path) /\ stored' = Append(stored, call.path)
    <3>1. call.path \in EntryPaths /\ IdOf(call.path) = Uuids[documents]
      BY <2>1 DEF Entering
    <3>2. Ids(Past) \subseteq Ids(documents - 1)
      BY <2>2
    <3> QED
      BY <2>1, <2>2, <2>4, <3>1, <3>2, PushFresh
  <2> QED
    BY <1>6, <2>3, <2>4, Stored
<1>7. CASE Restart
  <2>1. /\ logEntrySavedQueue' = <<>> /\ stored' = <<>> /\ everSaved' = everSaved
        /\ call'.step # "remove"
    BY <1>7, IdleFields DEF Restart
  <2>2. Saved' = 0 /\ Len(stored') = 0
    BY <2>1, EmptySeqs DEF Saved
  <2>3. \A p \in everSaved' : IdOf(p) \in Ids(Past')
    BY <1>0, <2>1 DEF Fresh
  <2>4. \A i \in 1 .. Len(stored') : FALSE
    BY <2>2
  <2>5. (\A i \in 1 .. Saved' : FALSE) /\ \A i \in Saved' + 1 .. Len(stored') : FALSE
    BY <2>2
  <2> QED
    BY <2>1, <2>3, <2>4, <2>5 DEF Fresh
<1> QED
  BY <1>1, <1>2, <1>3, <1>4, <1>5, <1>6, <1>7 DEF Next

LEMMA FreshInit ==
  ASSUME Init
  PROVE  Fresh
<1>1. /\ stored = <<>> /\ everSaved = {} /\ logEntrySavedQueue = <<>>
      /\ call.step # "remove"
  BY IdleFields DEF Init
<1>2. Len(stored) = 0 /\ Saved = 0
  BY <1>1, EmptySeqs DEF Saved
<1>3. (\A i \in 1 .. Len(stored) : FALSE) /\ \A i \in 1 .. Saved : FALSE
  BY <1>2
<1> QED
  BY <1>1, <1>3 DEF Fresh

-----------------------------------------------------------------------------
(* OnDisk is kept.                                                         *)

(* Files on which nothing is removed but what is not kept.                 *)
LEMMA KeptApart ==
  ASSUME Shape, Retained, Fresh, NEW p \in Kept
  PROVE  /\ Removing => /\ FolderAt(p) # FolderAt(call.path)
                        /\ FolderAt(p) \notin Below(FolderAt(call.path))
         /\ Entering => FolderAt(p) # FolderAt(call.path)
         /\ Serving => FolderAt(p) # FolderAt(call.path)
<1>1. p \in EntryPaths /\ IdOf(p) \in Ids(Past)
  BY KeptIds
<1>2. CASE Removing
  <2>1. call.path \in EntryPaths /\ IdOf(p) # IdOf(call.path)
    BY <1>2 DEF Removing, Fresh
  <2>2. /\ ~IsPrefix(FolderAt(call.path), FolderAt(p))
        /\ FolderAt(call.path) # FolderAt(p)
    BY <1>1, <2>1, EntriesApart
  <2>3. ~Entering /\ ~Serving
    BY <1>2 DEF Removing, Entering, Serving
  <2> QED
    BY <2>2, <2>3 DEF Below
<1>3. CASE Entering
  <2>1. call.path \in EntryPaths /\ IdOf(call.path) = Uuids[documents]
        /\ call.step # "idle"
    BY <1>3 DEF Entering
  <2>2. documents \in 1 .. MaxDocuments /\ Past = documents - 1
    BY <2>1, Counted, PastFacts
  <2>3. IdOf(p) # IdOf(call.path)
    BY <1>1, <2>1, <2>2, FreshIds
  <2>4. FolderAt(p) # FolderAt(call.path)
    BY <1>1, <2>1, <2>3, EntriesApart
  <2>5. ~Removing
    BY <1>3 DEF Removing, Entering
  <2> QED
    BY <2>4, <2>5
<1>4. CASE Serving
  <2>1. FolderAt(p) # FolderAt(call.path)
    BY <1>1, <1>4, EntriesApart DEF Serving
  <2>2. ~Removing
    BY <1>4 DEF Removing, Serving
  <2> QED
    BY <2>1, <2>2
<1> QED
  BY <1>2, <1>3, <1>4

LEMMA PublishOnDisk ==
  ASSUME Shape, OnDisk, PublishJson
  PROVE  OnDisk'
<1>1. /\ OnceWritten' = OnceWritten /\ everSaved' = everSaved
      /\ Refuses \/ MakesRoom \/ StartsEntry \/ StartsFile
  BY Publishing DEF OnceWritten
<1>2. Kept' \subseteq Kept
  <2>1. logEntryQueue' = logEntryQueue
        \/ (logEntryQueue' = Tail(logEntryQueue) /\ Latest = maxNumLogEntries)
    BY <1>1 DEF Refuses, MakesRoom, StartsEntry, StartsFile
  <2>2. CASE logEntryQueue' = Tail(logEntryQueue) /\ Latest = maxNumLogEntries
    <3>1. logEntryQueue \in Seq(EntryPaths) /\ Latest = Len(logEntryQueue)
      BY DEF Shape, Latest
    <3>2. Latest > 0 /\ Latest \in Nat
      BY <2>2, Sizes
    <3>3. logEntryQueue # <<>>
      BY <3>1, <3>2, EmptySeqs
    <3>4. /\ Tail(logEntryQueue) \in Seq(EntryPaths)
          /\ Len(Tail(logEntryQueue)) = Latest - 1
          /\ \A i \in 1 .. Latest - 1 : Tail(logEntryQueue)[i] = logEntryQueue[i + 1]
      BY <3>1, <3>3, TailFacts
    <3>5. /\ DOMAIN Tail(logEntryQueue) = 1 .. Latest - 1
          /\ DOMAIN logEntryQueue = 1 .. Latest
      BY <3>1, <3>4, LenProperties
    <3>6. \A i \in 1 .. Latest - 1 : i + 1 \in 1 .. Latest
      BY <3>2
    <3>7. ToSet(Tail(logEntryQueue)) \subseteq ToSet(logEntryQueue)
      BY <3>4, <3>5, <3>6 DEF ToSet
    <3> QED
      BY <1>1, <2>2, <3>7 DEF Kept
  <2> QED
    BY <1>1, <2>1, <2>2 DEF Kept
<1>3. call'.step # "notify"
  BY PublishStep
<1> QED
  BY <1>1, <1>2, <1>3 DEF OnDisk

LEMMA RemoveOnDisk ==
  ASSUME Shape, Retained, Fresh, OnDisk, RemoveOldest
  PROVE  OnDisk'
<1>1. Removing /\ Kept' = Kept
  BY RemoveShape DEF RemoveOldest, storerVars, history, Kept
<1>2. \A p \in Kept : FolderAt(p) \in OnceWritten
  BY DEF OnDisk
<1>3. \A p \in Kept' : FolderAt(p) \in OnceWritten'
  BY <1>1, <1>2, KeptApart, Removed DEF OnceWritten
<1>4. call'.step # "notify"
  BY Removed, CallFields, IdleFields
<1> QED
  BY <1>3, <1>4 DEF OnDisk

LEMMA FolderOnDisk ==
  ASSUME Shape, OnDisk, CreateFolder
  PROVE  OnDisk'
<1>1. OnceWritten' = OnceWritten /\ Kept' = Kept
  BY Created DEF storerVars, history, Kept, OnceWritten
<1>2. call'.step # "notify"
  BY Created, CallFields, IdleFields
<1> QED
  BY <1>1, <1>2 DEF OnDisk

LEMMA WriteOnDisk ==
  ASSUME Shape, OnDisk, WriteFile
  PROVE  OnDisk'
<1>1. OnceWritten' = OnceWritten \cup {FolderAt(call.path)}
  BY FilesWritten
<1>2. Kept' = Kept
  BY Written DEF storerVars, history, Kept
<1>3. call'.step = "notify" => call'.path = call.path
  BY Written, CallFields, ReturnFacts, IdleFields
<1> QED
  BY <1>1, <1>2, <1>3 DEF OnDisk

LEMMA EntryOnDisk ==
  ASSUME Shape, OnDisk, CreateEntry
  PROVE  OnDisk'
<1>1. /\ call.step = "notify" /\ Entering /\ call' = IdleCall
      /\ OnceWritten' = OnceWritten
      /\ \/ PushEntry(call.path)
         \/ UNCHANGED <<logEntrySavedQueue, logEntryQueue, history>>
  BY Stored DEF OnceWritten
<1>2. /\ FolderAt(call.path) \in OnceWritten
      /\ \A p \in Kept : FolderAt(p) \in OnceWritten
  BY <1>1 DEF OnDisk
<1>3. Kept' \subseteq Kept \cup {call.path}
  <2>1. CASE UNCHANGED <<logEntrySavedQueue, logEntryQueue, history>>
    BY <2>1 DEF Kept, history
  <2>2. CASE PushEntry(call.path)
    <3>1. logEntryQueue \in Seq(EntryPaths) /\ call.path \in EntryPaths
      BY <1>1 DEF Shape, Entering
    <3>2. ToSet(Append(logEntryQueue, call.path))
            = ToSet(logEntryQueue) \cup {call.path}
      BY <3>1, AppendFacts
    <3>3. /\ everSaved' \subseteq everSaved \cup {call.path}
          /\ \/ logEntryQueue' = logEntryQueue
             \/ logEntryQueue' = Append(logEntryQueue, call.path)
      BY <2>2 DEF PushEntry
    <3> QED
      BY <3>2, <3>3 DEF Kept
  <2> QED
    BY <1>1, <2>1, <2>2
<1>4. call'.step = "idle"
  BY <1>1, IdleFields
<1> QED
  BY <1>1, <1>2, <1>3, <1>4 DEF OnDisk

LEMMA RestartOnDisk ==
  ASSUME Shape, Retained, Fresh, OnDisk, Restart
  PROVE  OnDisk'
<1>1. /\ everSaved' = everSaved /\ logEntryQueue' = <<>> /\ call' = IdleCall
      /\ lost' = lost
      /\ \/ files' = files
         \/ call.step = "write" /\ files' = files \ {FolderAt(call.path)}
  BY DEF Restart
<1>2. Kept' \subseteq Kept
  <2>1. ToSet(<<>>) = {}
    BY DEF ToSet
  <2> QED
    BY <1>1, <2>1 DEF Kept
<1>3. \A p \in Kept' : FolderAt(p) \in OnceWritten'
  <2>1. call.step = "write" => Entering \/ Serving
    BY CallCases
  <2>2. \A p \in Kept : FolderAt(p) \in OnceWritten
    BY DEF OnDisk
  <2> QED
    BY <1>1, <1>2, <2>1, <2>2, KeptApart DEF OnceWritten
<1>4. call'.step = "idle"
  BY <1>1, IdleFields
<1> QED
  BY <1>1, <1>3, <1>4 DEF OnDisk

LEMMA OnDiskKept ==
  ASSUME Shape, Retained, Fresh, OnDisk, [Next]_vars
  PROVE  OnDisk'
<1>1. CASE UNCHANGED vars
  BY <1>1 DEF vars, storerVars, disk, history, Kept, OnDisk, OnceWritten
<1> QED
  BY <1>1, PublishOnDisk, RemoveOnDisk, FolderOnDisk, WriteOnDisk, EntryOnDisk,
     RestartOnDisk DEF Next

LEMMA OnDiskInit ==
  ASSUME Init
  PROVE  OnDisk
<1>1. Kept = {}
  <2>1. ToSet(<<>>) = {}
    BY DEF ToSet
  <2> QED
    BY <2>1 DEF Init, Kept
<1> QED
  BY <1>1, IdleFields DEF Init, OnDisk

LEMMA TrackedKept ==
  ASSUME Shape, Retained, Fresh
  PROVE  Tracked \subseteq Kept
<1>1. DOMAIN logEntrySavedQueue = 1 .. Saved
  BY LenProperties DEF Shape, Saved
<1>2. \A i \in 1 .. Saved : logEntrySavedQueue[i] \in everSaved
  BY DEF Retained, Contents, Fresh
<1>3. ToSet(logEntrySavedQueue) \subseteq everSaved
  BY <1>1, <1>2 DEF ToSet
<1> QED
  BY <1>3 DEF Tracked, Kept

LEMMA SuffixFacts ==
  ASSUME NEW S, NEW s \in Seq(S), NEW n \in 0 .. Len(s)
  PROVE  /\ SubSeq(s, n + 1, Len(s)) \in Seq(S)
         /\ Len(SubSeq(s, n + 1, Len(s))) = Len(s) - n
         /\ \A i \in 1 .. Len(s) - n : SubSeq(s, n + 1, Len(s))[i] = s[n + i]
OBVIOUS

-----------------------------------------------------------------------------
(* The theorems.                                                           *)

THEOREM BooksKept == Spec => []Inv
<1>1. Init => Inv
  BY ShapeInit, RootedInit, RetainedInit, FreshInit, OnDiskInit
     DEF Inv, Bookkeeping
<1>2. Inv /\ [Next]_vars => Inv'
  <2> SUFFICES ASSUME Inv, [Next]_vars
               PROVE  Inv'
    OBVIOUS
  <2>1. Shape /\ Rooted /\ Retained /\ Fresh /\ OnDisk
    BY DEF Inv, Bookkeeping
  <2>2. Shape' /\ Rooted' /\ Retained' /\ Fresh'
    BY <2>1, ShapeKept, RootedKept, RetainedKept, FreshKept
  <2>3. OnDisk'
    BY <2>1, OnDiskKept
  <2> QED
    BY <2>2, <2>3 DEF Inv, Bookkeeping
<1> QED
  BY <1>1, <1>2, PTL DEF Spec

(* Every variable keeps its type, and the notifier counts what it          *)
(* announced (TypeOK), whatever fails: both queues respect their limits in *)
(* every state.                                                            *)
THEOREM StorerTypes == Spec => []TypeOK
<1>1. Inv => TypeOK
  <2> SUFFICES ASSUME Inv
               PROVE  TypeOK
    OBVIOUS
  <2>1. Shape /\ Rooted /\ Retained
    BY DEF Inv, Bookkeeping
  <2>2. logServiceId \in STRING
    BY <2>1, DocumentNames, FixedNames DEF Shape, ServiceIds, Names
  <2>3. /\ Len(logEntrySavedQueue) <= maxNumSavedLogEntries
        /\ Len(logEntryQueue) <= maxNumLogEntries
    BY <2>1 DEF Retained, Lengths, Saved, Latest
  <2>4. /\ call.step \in {"idle", "remove", "folder", "write", "notify"}
        /\ call.purpose \in {"none", "entry", "service", "entries", "other"}
    BY <2>1, IdleFields DEF Shape, CallKnown, Idle, Removing, Entering, Serving
  <2>5. /\ result \in {"none", "true", "false", "throws"}
        /\ nextEntry = Len(stored) /\ documents \in 0 .. MaxDocuments
    BY <2>1 DEF Shape
  <2>6. files \subseteq folders
    BY <2>1 DEF Rooted
  <2> QED
    BY <2>2, <2>3, <2>4, <2>5, <2>6 DEF TypeOK
<1> QED
  BY <1>1, BooksKept, PTL

(* Nothing is created outside the root folder (BelowRoot), for documents   *)
(* with any @odata.id: createFolder refuses what isValidPath refuses, and  *)
(* every part of an accepted path stays below the root.                    *)
THEOREM NothingOutside == Spec => []BelowRoot
<1>1. Inv => BelowRoot
  BY DEF Inv, Bookkeeping, Rooted, BelowRoot
<1> QED
  BY <1>1, BooksKept, PTL

(* isValidPath accepts exactly the paths no part of which leaves the base  *)
(* directory (ValidIffInside).                                             *)
THEOREM ValidPathsInside ==
  ASSUME baseDir # <<>>
  PROVE  Spec => []ValidIffInside
<1>1. ValidIffInside
  BY PathCheckExact, PathAssumption DEF ValidIffInside
<1> QED
  BY <1>1, PTL

(* The first entries and the latest of the others are kept and are on disk *)
(* (KeepsFirstAndLatest), but for those whose write was lost: whatever     *)
(* operation fails, and however often the daemon dies.                     *)
THEOREM FirstAndLatestKept == Spec => []KeepsFirstAndLatest
<1>1. Inv => KeepsFirstAndLatest
  <2> SUFFICES ASSUME Inv
               PROVE  KeepsFirstAndLatest
    OBVIOUS
  <2>1. Shape /\ Retained /\ Fresh /\ OnDisk
    BY DEF Inv, Bookkeeping
  <2>2. /\ stored \in Seq(EntryPaths) /\ logEntrySavedQueue \in Seq(EntryPaths)
        /\ logEntryQueue \in Seq(EntryPaths)
    BY <2>1 DEF Shape
  <2>3. /\ Saved <= Len(stored) /\ Latest <= maxNumLogEntries
        /\ Latest <= Len(stored) - Saved
        /\ (Len(stored) > Saved => Saved = maxNumSavedLogEntries)
        /\ (Latest = Len(stored) - Saved \/ Latest >= maxNumLogEntries - 1)
    BY <2>1 DEF Retained, Lengths
  <2>4. /\ Saved \in Nat /\ Latest \in Nat /\ Len(stored) \in Nat
        /\ maxNumLogEntries \in Nat
    BY <2>1, Sizes
  <2>5. logEntrySavedQueue = SubSeq(stored, 1, Saved)
    <3>1. /\ SubSeq(stored, 1, Saved) \in Seq(EntryPaths)
          /\ Len(SubSeq(stored, 1, Saved)) = Saved
          /\ \A i \in 1 .. Saved : SubSeq(stored, 1, Saved)[i] = stored[i]
      BY <2>2, <2>3, <2>4
    <3>2. Len(logEntrySavedQueue) = Saved
          /\ \A i \in 1 .. Saved : logEntrySavedQueue[i] = stored[i]
      BY <2>1 DEF Retained, Contents, Saved
    <3> QED
      BY <2>2, <3>1, <3>2, SeqEqual
  <2>6. logEntryQueue = SubSeq(stored, (Len(stored) - Latest) + 1, Len(stored))
    <3> DEFINE from == Len(stored) - Latest
               s == SubSeq(stored, from + 1, Len(stored))
    <3>1. from \in 0 .. Len(stored) /\ from \in Nat
          /\ Len(stored) - from = Latest
      BY <2>3, <2>4
    <3> HIDE DEF from
    <3>2. /\ s \in Seq(EntryPaths) /\ Len(s) = Latest
          /\ \A i \in 1 .. Latest : s[i] = stored[from + i]
      BY <2>2, <2>4, <3>1, SuffixFacts
    <3>3. Len(logEntryQueue) = Latest
          /\ \A i \in 1 .. Latest : logEntryQueue[i] = stored[from + i]
      BY <2>1 DEF Retained, Contents, Latest, from
    <3> HIDE DEF s
    <3>4. logEntryQueue = s
      BY <2>2, <3>2, <3>3, SeqEqual
    <3> QED
      BY <3>4, Zenon DEF from, s
  <2>7. \A p \in Tracked : FolderAt(p) \in files \cup lost
    BY <2>1, TrackedKept DEF OnDisk, OnceWritten
  <2>8. /\ Len(stored) - Saved > 0 => Saved = maxNumSavedLogEntries
        /\ \/ Latest = Len(stored) - Saved
           \/ Latest \in {maxNumLogEntries - 1, maxNumLogEntries}
    BY <2>3, <2>4
  <2> QED
    BY <2>5, <2>6, <2>7, <2>8, Zenon DEF KeepsFirstAndLatest, Saved, Latest
<1> QED
  BY <1>1, BooksKept, PTL

(* An entry that was saved once is never removed, also not by a later      *)
(* daemon that has forgotten it, though its write may have been lost       *)
(* (SavedForGood).                                                         *)
THEOREM SavedStay == Spec => []SavedForGood
<1>1. Inv => SavedForGood
  BY DEF Inv, OnDisk, OnceWritten, Kept, SavedForGood
<1> QED
  BY <1>1, BooksKept, PTL

(* D-Bus clients hear only of files that were written before, and are      *)
(* complete unless their write was lost (AnnouncedIsStored).               *)
THEOREM AnnouncementsAreTrue == Spec => AnnouncedIsStored
<1>1. Inv /\ [Next]_vars =>
        [announced' # announced => Last(announced') \in files \cup lost]_vars
  <2> SUFFICES ASSUME Inv, Next, announced' # announced
               PROVE  Last(announced') \in OnceWritten
    BY DEF vars, history, OnceWritten
  <2>1. Shape /\ OnDisk
    BY DEF Inv, Bookkeeping
  <2>2. CreateEntry
    BY <2>1, Publishing, Created, Written
       DEF Next, RemoveOldest, Restart, history
  <2>3. /\ call.step = "notify" /\ Entering
        /\ announced' = Append(announced, FolderAt(call.path))
    BY <2>1, <2>2, Stored DEF Announce, history
  <2>4. FolderAt(call.path) \in OnceWritten /\ FolderAt(call.path) \in Seq(Names)
    BY <2>1, <2>3, EntryIsPath DEF OnDisk, Entering
  <2>5. announced \in Seq(Seq(Names))
    BY <2>1 DEF Shape
  <2>6. Last(announced') = FolderAt(call.path)
    BY <2>3, <2>4, <2>5, AppendFacts DEF Last
  <2> QED
    BY <2>4, <2>6
<1> QED
  BY <1>1, BooksKept, PTL DEF Spec, AnnouncedIsStored

-----------------------------------------------------------------------------
(* What is left behind.  An orphan is the folder of an entry that neither  *)
(* queue knows and no call is about.                                       *)

EntryLike(p) == Len(p) = Len(baseDir) + 4 /\ p[Len(p) - 1] = "Entries"
CurrentEntry == IF call.purpose = "entry" THEN {call.path} ELSE {}
Known == {FolderAt(p) : p \in Tracked \cup CurrentEntry}
Orphans == EntryFolders \ Known
Leftovers == (maxNumSavedLogEntries + maxNumLogEntries) * restarts + faults

(* Files are created at paths of documents, and entries in the current     *)
(* service.                                                                *)
Served ==
  /\ call.purpose \in {"service", "other"} => call.path \in DocumentPaths
  /\ call.purpose = "entries" =>
       \E q \in DocumentPaths : call.path = EntriesPath(q)
  /\ Entering => /\ logServiceId \in ServiceIds
                 /\ call.path = EntryPath(logServiceId, Uuids[documents])

Counts == restarts \in Nat /\ faults \in Nat /\ restarts <= faults

FewOrphans ==
  /\ IsFiniteSet(Orphans) /\ Cardinality(Orphans) <= Leftovers

(* Without a fault the second queue is full once it was.                   *)
NoneMissing ==
  faults = 0 =>
    \/ Latest = Len(stored) - Saved
    \/ Latest = IF call.purpose = "entry" THEN maxNumLogEntries - 1
                                          ELSE maxNumLogEntries

(* Only starts of the daemon so far: the two files of the current service, *)
(* if it lies where its entries go, are there or being created.            *)
FolderOf(s) == FolderAt(ServicePath(s))
EntriesOf(s) == FolderAt(EntriesPath(ServicePath(s)))

ServiceCreated ==
  \/ call.purpose = "service" /\ call.path = ServicePath(logServiceId)
  \/ /\ call.purpose = "entries"
     /\ call.path = EntriesPath(ServicePath(logServiceId))
     /\ FolderOf(logServiceId) \in files
  \/ /\ call.purpose \notin {"service", "entries"}
     /\ FolderOf(logServiceId) \in files /\ EntriesOf(logServiceId) \in files

ServiceThere ==
  faults = restarts /\ logServiceId # "" /\ InPlace(logServiceId) =>
    Plain(logServiceId) /\ ServiceCreated

(* Documents as a BIOS sends them: only log entries have folders inside an *)
(* Entries folder, and the Id of a LogService is a plain name.             *)
EntriesOnly ==
  \A q \in DocumentPaths :
    \A p \in FoldersOn(q) \cup FoldersOn(EntriesPath(q)) : ~EntryLike(p)

PlainServices == \A s \in ServiceIds : Plain(s)

-----------------------------------------------------------------------------
(* Where entries and services lie.                                         *)

LEMMA FollowLength ==
  ASSUME NEW at \in Seq(Names), NEW part \in Names
  PROVE  Len(Follow(at, part)) <= Len(at) + 1 /\ Len(at) \in Nat
<1>1. Len(at) \in Nat
  BY LenProperties
<1>2. CASE Follow(at, part) = at
  BY <1>1, <1>2
<1>3. CASE at # <<>> /\ Follow(at, part) = Front(at)
  <2>1. Len(Front(at)) = Len(at) - 1
    BY <1>3, FrontFacts
  <2> QED
    BY <1>1, <1>3, <2>1
<1>4. CASE Follow(at, part) = Append(at, part)
  <2>1. Len(Append(at, part)) = Len(at) + 1
    BY AppendFacts
  <2> QED
    BY <1>1, <1>4, <2>1
<1> QED
  BY <1>2, <1>3, <1>4, Kinds, FollowKinds

(* Each part leads down by one level at most.                              *)
LEMMA WalkLength ==
  ASSUME NEW parts \in Seq(Names)
  PROVE  \A n \in 0 .. Len(parts) : Len(Walk(parts)[n]) <= n
<1> DEFINE w == Walk(parts)
           T == {n \in 0 .. Len(parts) : Len(w[n]) <= n}
<1>1. /\ Len(parts) \in Nat /\ \A n \in 0 .. Len(parts) : w[n] \in Seq(Names)
      /\ w[0] = <<>>
      /\ \A n \in 1 .. Len(parts) : w[n] = Follow(w[n - 1], parts[n])
      /\ \A n \in 1 .. Len(parts) : parts[n] \in Names
  BY LenProperties, WalkType, WalkDef, ElementOfSeq
<1> HIDE DEF w
<1>2. 0 \in T
  BY <1>1, EmptySeqs
<1>3. ASSUME NEW n \in 0 .. Len(parts) - 1, n \in T PROVE n + 1 \in T
  <2>1. n + 1 \in 1 .. Len(parts) /\ (n + 1) - 1 = n /\ n \in 0 .. Len(parts)
        /\ n + 1 \in 0 .. Len(parts)
    BY <1>1
  <2>2. w[n + 1] = Follow(w[n], parts[n + 1])
    BY <1>1, <2>1
  <2>3. Len(w[n + 1]) <= Len(w[n]) + 1 /\ Len(w[n]) \in Nat
    BY <1>1, <2>1, <2>2, FollowLength
  <2>4. Len(w[n]) <= n /\ Len(w[n + 1]) \in Nat
    BY <1>1, <1>3, <2>1, LenProperties
  <2>5. Len(w[n + 1]) <= n + 1
    BY <2>3, <2>4
  <2> QED
    BY <2>1, <2>5
<1> HIDE DEF T
<1>4. 0 .. Len(parts) \subseteq T
  BY <1>1, <1>2, <1>3, InductionUpTo
<1> QED
  BY <1>4 DEF T, w

(* A short path that begins with a name and leaves at most that is sound.  *)
LEMMA ShortSound ==
  ASSUME NEW parts \in Seq(Names), Len(parts) \in 2 .. 4,
         \A i \in 1 .. Len(parts) : i # 2 => Plain(parts[i])
  PROVE  Sound(parts)
<1> DEFINE d == Depth(parts)
<1>1. /\ d[0] = 0
      /\ \A n \in 1 .. Len(parts) : d[n] = d[n - 1] + Deeper(parts[n])
  BY DepthDef
<1> HIDE DEF d
<1>2. 1 \in 1 .. Len(parts) /\ 2 \in 1 .. Len(parts)
  OBVIOUS
<1>3. d[1] = 1
  <2>1. d[1] = d[0] + Deeper(parts[1])
    BY <1>1, <1>2
  <2>2. Deeper(parts[1]) = 1
    BY <1>2, DeeperValues
  <2> QED
    BY <1>1, <2>1, <2>2
<1>4. d[2] \in Int /\ d[2] >= 0
  <2>1. d[2] = d[1] + Deeper(parts[2])
    BY <1>1, <1>2
  <2>2. Deeper(parts[2]) \in {-1, 0, 1}
    BY Kinds, DeeperValues
  <2> QED
    BY <1>3, <2>1, <2>2
<1>5. 3 \in 1 .. Len(parts) => d[3] \in Int /\ d[3] >= 0
  <2> SUFFICES ASSUME 3 \in 1 .. Len(parts)
               PROVE  d[3] \in Int /\ d[3] >= 0
    OBVIOUS
  <2>1. d[3] = d[2] + Deeper(parts[3])
    BY <1>1
  <2>2. Deeper(parts[3]) = 1
    BY DeeperValues
  <2> QED
    BY <1>4, <2>1, <2>2
<1>6. 4 \in 1 .. Len(parts) => d[4] \in Int /\ d[4] >= 0
  <2> SUFFICES ASSUME 4 \in 1 .. Len(parts)
               PROVE  d[4] \in Int /\ d[4] >= 0
    OBVIOUS
  <2>1. d[4] = d[3] + Deeper(parts[4])
    BY <1>1
  <2>2. Deeper(parts[4]) = 1
    BY DeeperValues
  <2>3. 3 \in 1 .. Len(parts)
    OBVIOUS
  <2> QED
    BY <1>5, <2>1, <2>2, <2>3
<1>7. \A n \in 0 .. Len(parts) :
        n = 0 \/ n = 1 \/ n = 2 \/ (n = 3 /\ 3 \in 1 .. Len(parts))
        \/ (n = 4 /\ 4 \in 1 .. Len(parts))
  OBVIOUS
<1>8. \A n \in 0 .. Len(parts) : d[n] >= 0
  BY <1>1, <1>3, <1>4, <1>5, <1>6, <1>7
<1> QED
  BY <1>8 DEF Sound, d

LEMMA PlainNames ==
  Plain("LogServices") /\ Plain("Entries")
BY DEF Plain

LEMMA EntryParts ==
  ASSUME NEW p \in EntryPaths
  PROVE  /\ p.parts \in Seq(Names) /\ Len(p.parts) = 4
         /\ IsValidPath(p)
<1>1. PICK s \in ServiceIds, id \in Ids(MaxDocuments) : p = EntryPath(s, id)
  BY DEF EntryPaths
<1>2. p.parts = <<"LogServices", s, "Entries", id>>
  BY <1>1 DEF EntryPath, Absolute
<1>3. /\ Len(p.parts) = 4 /\ p.parts[1] = "LogServices"
      /\ p.parts[3] = "Entries" /\ p.parts[4] = id
  BY <1>2
<1>4. IsPath(p) /\ p.parts \in Seq(Names)
  BY EntryIsPath, IsPathFacts
<1>5. Plain(p.parts[1]) /\ Plain(p.parts[3]) /\ Plain(p.parts[4])
  BY <1>3, PlainNames, UuidFacts
<1> DEFINE parts == p.parts
<1> HIDE DEF parts
<1>6. \A i \in 1 .. Len(parts) : i # 2 => i = 1 \/ i = 3 \/ i = 4
  BY <1>3 DEF parts
<1>7. \A i \in 1 .. Len(parts) : i # 2 => Plain(parts[i])
  BY <1>5, <1>6, Zenon DEF parts
<1>8. Sound(parts)
  <2>1. Len(parts) \in 2 .. 4 /\ parts \in Seq(Names)
    BY <1>3, <1>4 DEF parts
  <2> QED
    BY <1>7, <2>1, ShortSound
<1>9. IsValidPath(p)
  BY <1>4, <1>8, IsPathFacts DEF parts
<1> QED
  BY <1>3, <1>4, <1>9

(* Creating the folder of an entry creates no other folder of an entry.    *)
LEMMA EntryFolderOnly ==
  ASSUME NEW p \in EntryPaths, NEW q \in FoldersOn(p), EntryLike(q)
  PROVE  q = FolderAt(p)
<1> DEFINE full == baseDir \o p.parts
           B == Len(baseDir)
<1>1. IsPath(p) /\ p.parts \in Seq(Names) /\ Len(p.parts) = 4
  BY EntryIsPath, EntryParts
<1>2. /\ full \in Seq(Names) /\ Len(full) = B + 4 /\ B \in Nat
      /\ FoldersOn(p) = {Walk(full)[n] : n \in B .. Len(full)}
      /\ FolderAt(p) = Walk(full)[Len(full)]
  BY <1>1, IsPathFacts, JoinFacts, RootNames DEF Resolve
<1> HIDE DEF full
<1>3. PICK n \in B .. Len(full) : q = Walk(full)[n]
  BY <1>2
<1>4. Len(q) <= n
  <2>1. n \in 0 .. Len(full)
    BY <1>2
  <2> QED
    BY <1>2, <1>3, <2>1, WalkLength
<1>5. Len(q) = B + 4
  BY DEF EntryLike
<1>6. n = Len(full)
  BY <1>2, <1>4, <1>5
<1> QED
  BY <1>2, <1>3, <1>6

LEMMA PrefixFacts ==
  ASSUME NEW S, NEW s \in Seq(S), NEW n \in 0 .. Len(s)
  PROVE  /\ SubSeq(s, 1, n) \in Seq(S) /\ Len(SubSeq(s, 1, n)) = n
         /\ \A i \in 1 .. n : SubSeq(s, 1, n)[i] = s[i]
OBVIOUS

(* The folders of a service whose Id is a plain name.                      *)
Two(a, b) == <<a, b>>

LEMMA TwoNames ==
  ASSUME NEW a \in Names, NEW b \in Names
  PROVE  /\ Two(a, b) \in Seq(Names) /\ Len(Two(a, b)) = 2
         /\ Two(a, b)[1] = a /\ Two(a, b)[2] = b
         /\ Two(a, b) = Append(Append(<<>>, a), b)
         /\ Two(a, b) # <<>> /\ Last(Two(a, b)) = b
         /\ ToSet(Two(a, b)) = {a, b}
<1>1. /\ Two(a, b) \in Seq(Names) /\ Len(Two(a, b)) = 2
      /\ Two(a, b)[1] = a /\ Two(a, b)[2] = b
      /\ Two(a, b) = Append(Append(<<>>, a), b)
  BY DEF Two
<1>2. Two(a, b) # <<>> /\ Last(Two(a, b)) = b
  BY <1>1, EmptySeqs DEF Last
<1>3. ToSet(Two(a, b)) = {a, b}
  <2>1. DOMAIN Two(a, b) = 1 .. 2
    BY <1>1, LenProperties
  <2> QED
    BY <1>1, <2>1 DEF ToSet
<1> QED
  BY <1>1, <1>2, <1>3

LEMMA ThreeNames ==
  ASSUME NEW a \in Names, NEW b \in Names, NEW c \in Names
  PROVE  /\ Three(a, b, c) \in Seq(Names) /\ Len(Three(a, b, c)) = 3
         /\ Three(a, b, c)[1] = a /\ Three(a, b, c)[3] = c
         /\ Three(a, b, c) = Append(Two(a, b), c)
BY DEF Two, Three

LEMMA RootFolder ==
  /\ Resolve(baseDir \o <<>>) = baseDir
  /\ <<>> \in Seq(Names)
<1>1. <<>> \in Seq(Names) /\ Len(<<>>) = 0
  BY EmptySeqs
<1>2. Len(baseDir \o <<>>) = Len(baseDir)
  BY <1>1, JoinFacts, RootNames
<1>3. Walk(baseDir \o <<>>)[Len(baseDir)] = baseDir
  BY <1>1, RootWalk
<1> QED
  BY <1>1, <1>2, <1>3 DEF Resolve

LEMMA PlainStep ==
  ASSUME NEW parts \in Seq(Names), NEW part \in Names, Plain(part)
  PROVE  Resolve(baseDir \o Append(parts, part)) =
           Append(Resolve(baseDir \o parts), part)
BY ResolveAppend, FollowKinds

LEMMA ServiceFolders ==
  ASSUME NEW s \in ServiceIds, Plain(s)
  PROVE  /\ FolderAt(ServicePath(s)) \in Seq(Names)
         /\ Len(FolderAt(ServicePath(s))) = Len(baseDir) + 2
         /\ FolderAt(ServicePath(s))[Len(baseDir) + 2] = s
         /\ ForeignPath(ServicePath(s))
         /\ IsValidPath(ServicePath(s))
         /\ IsValidPath(EntriesPath(ServicePath(s)))
         /\ FolderAt(EntriesPath(ServicePath(s))) =
              Append(FolderAt(ServicePath(s)), "Entries")
         /\ \A id \in Ids(MaxDocuments) :
              FolderAt(EntryPath(s, id)) =
                Append(Append(FolderAt(ServicePath(s)), "Entries"), id)
<1> DEFINE path == ServicePath(s)
           a == "LogServices"
           e == "Entries"
<1>1. /\ a \in Names /\ e \in Names /\ Plain(a) /\ Plain(e)
      /\ a \in OtherNames
  BY FixedNames, PlainNames
<1>2. s \in Names /\ s \in OtherNames
  BY DocumentNames DEF ServiceIds
<1>3. path.parts = Two(a, s) /\ path.absolute = TRUE
      /\ path = [absolute |-> TRUE, parts |-> Two(a, s)]
  BY DEF ServicePath, Absolute, Two
<1>4. \A id : EntryPath(s, id).parts = Four(a, s, e, id)
  BY DEF EntryPath, Absolute, Four
<1> HIDE DEF path, a
<1>5. /\ Two(a, s) \in Seq(Names) /\ Len(Two(a, s)) = 2
      /\ Two(a, s)[1] = a
      /\ Two(a, s) = Append(Append(<<>>, a), s)
      /\ Two(a, s) # <<>> /\ Last(Two(a, s)) = s
      /\ ToSet(Two(a, s)) = {a, s}
  BY <1>1, <1>2, TwoNames
<1>6. ForeignPath(path)
  <2>1. \A i \in 1 .. Len(path.parts) - 1 : ~Gap(path.parts[i])
    <3>1. \A i \in 1 .. 1 : i = 1
      OBVIOUS
    <3>2. ~Gap(a)
      BY <1>1 DEF Plain, Gap
    <3> QED
      BY <1>3, <1>5, <3>1, <3>2
  <2>2. path \in [absolute : BOOLEAN, parts : Seq(Names)]
    BY <1>3, <1>5
  <2>3. IsPath(path)
    BY <2>1, <2>2 DEF IsPath, Gap, Names
  <2>4. ToSet(path.parts) \subseteq OtherNames
    BY <1>1, <1>2, <1>3, <1>5
  <2> QED
    BY <2>3, <2>4 DEF ForeignPath
<1>7. IsPath(path) /\ FolderAt(path) = Resolve(baseDir \o Two(a, s))
  BY <1>3, <1>6, IsPathFacts DEF ForeignPath
<1>8. Append(<<>>, a) \in Seq(Names)
  BY <1>1, RootFolder, AppendFacts
<1>9. FolderAt(path) = Append(Append(baseDir, a), s)
  <2>1. Resolve(baseDir \o Append(<<>>, a)) = Append(baseDir, a)
    BY <1>1, RootFolder, PlainStep
  <2>2. Resolve(baseDir \o Two(a, s)) = Append(Append(baseDir, a), s)
    BY <1>2, <1>5, <1>8, <2>1, PlainStep
  <2> QED
    BY <1>7, <2>2
<1>10. /\ FolderAt(path) \in Seq(Names)
       /\ Len(FolderAt(path)) = Len(baseDir) + 2
       /\ FolderAt(path)[Len(baseDir) + 2] = s
  <2>1. /\ Append(baseDir, a) \in Seq(Names) /\ Len(Append(baseDir, a)) = Len(baseDir) + 1
        /\ Len(baseDir) \in Nat
    BY <1>1, RootNames, AppendFacts
  <2>2. /\ Append(Append(baseDir, a), s) \in Seq(Names)
        /\ Len(Append(Append(baseDir, a), s)) = Len(Append(baseDir, a)) + 1
        /\ Append(Append(baseDir, a), s)[Len(Append(baseDir, a)) + 1] = s
    BY <1>2, <2>1, AppendFacts
  <2> QED
    BY <1>9, <2>1, <2>2, RootNames
<1>11. /\ ForeignPath(EntriesPath(path))
       /\ FolderAt(EntriesPath(path)) = Append(FolderAt(path), e)
  BY <1>6, EntriesPathFacts
<1>12. EntriesPath(path).parts = Three(a, s, e)
  <2>1. WithoutSlash(Two(a, s)) = Two(a, s)
    <3>1. s # ""
      BY DEF Plain
    <3> QED
      BY <1>5, <3>1 DEF WithoutSlash
  <2>2. path \in [absolute : BOOLEAN, parts : Seq(Names)]
    BY <1>3, <1>5
  <2>3. EntriesPath(path).parts = Append(WithoutSlash(path.parts), e)
    BY <2>2 DEF EntriesPath
  <2> HIDE DEF e
  <2>4. Three(a, s, e) = Append(Two(a, s), e)
    BY <1>1, <1>2, ThreeNames
  <2> QED
    BY <1>3, <2>1, <2>3, <2>4
<1> HIDE DEF e
<1>13. IsValidPath(path)
  <2> DEFINE parts == Two(a, s)
  <2>1. \A i \in 1 .. 2 : i # 2 => i = 1
    OBVIOUS
  <2>2. Len(parts) = 2 /\ parts[1] = a /\ parts \in Seq(Names)
    BY <1>5
  <2> HIDE DEF parts
  <2>3. Sound(parts)
    BY <1>1, <2>1, <2>2, ShortSound
  <2> QED
    BY <1>3, <1>7, <2>3, IsPathFacts DEF parts
<1>14. IsValidPath(EntriesPath(path))
  <2> DEFINE parts == Three(a, s, e)
  <2>1. \A i \in 1 .. 3 : i # 2 => i = 1 \/ i = 3
    OBVIOUS
  <2>2. Len(parts) = 3 /\ parts[1] = a /\ parts[3] = e /\ parts \in Seq(Names)
    BY <1>1, <1>2, ThreeNames
  <2> HIDE DEF parts
  <2>3. Sound(parts)
    BY <1>1, <2>1, <2>2, ShortSound
  <2>4. IsPath(EntriesPath(path))
    BY <1>11 DEF ForeignPath
  <2> QED
    BY <1>12, <2>3, <2>4, IsPathFacts DEF parts
<1>15. ASSUME NEW id \in Ids(MaxDocuments)
       PROVE  FolderAt(EntryPath(s, id)) = Append(Append(FolderAt(path), e), id)
  <2>1. id \in Names /\ Plain(id)
    BY UuidFacts
  <2>2. /\ Three(a, s, e) \in Seq(Names)
        /\ Three(a, s, e) = Append(Two(a, s), e)
        /\ Four(a, s, e, id) = Append(Three(a, s, e), id)
    <3>1. s \in Names /\ id \in Names /\ e \in Names /\ a \in Names
      BY <1>1, <1>2, <2>1
    <3> HIDE DEF e
    <3>2. Three(a, s, e) \in Seq(Names) /\ Three(a, s, e) = Append(Two(a, s), e)
      BY <3>1, ThreeNames
    <3>3. Four(a, s, e, id) = Append(Three(a, s, e), id)
      <4>1. Appended(Four(a, s, e, id), Three(a, s, e), id)
        BY <3>1, FourAppend, Zenon
      <4> QED
        BY <4>1 DEF Appended
    <3> QED
      BY <3>2, <3>3
  <2>3. FolderAt(EntryPath(s, id)) = Resolve(baseDir \o Four(a, s, e, id))
    BY <1>4, EntryPathFacts, IsPathFacts
  <2>4. Resolve(baseDir \o Three(a, s, e)) = Append(FolderAt(path), e)
    BY <1>1, <1>5, <1>7, <2>2, PlainStep
  <2>5. Resolve(baseDir \o Four(a, s, e, id)) =
          Append(Append(FolderAt(path), e), id)
    BY <2>1, <2>2, <2>4, PlainStep
  <2> QED
    BY <2>3, <2>5
<1> QED
  BY <1>6, <1>10, <1>11, <1>13, <1>14, <1>15 DEF path, e

(* What that means for the folder of an entry.                             *)
LEMMA EntryInService ==
  ASSUME NEW s \in ServiceIds, Plain(s), NEW id \in Ids(MaxDocuments)
  PROVE  LET p == FolderAt(EntryPath(s, id))
         IN  /\ EntryLike(p)
             /\ Front(p) = FolderAt(EntriesPath(ServicePath(s)))
             /\ SubSeq(p, 1, Len(p) - 2) = FolderAt(ServicePath(s))
             /\ p[Len(p) - 2] = s
<1> DEFINE F == FolderAt(ServicePath(s))
           E == Append(F, "Entries")
           p == Append(E, id)
           B == Len(baseDir)
<1>1. /\ F \in Seq(Names) /\ Len(F) = B + 2 /\ B \in Nat /\ F[B + 2] = s
      /\ FolderAt(EntriesPath(ServicePath(s))) = E
      /\ FolderAt(EntryPath(s, id)) = p
  BY ServiceFolders, RootNames
<1>2. "Entries" \in Names /\ id \in Names
  BY FixedNames, UuidFacts
<1> HIDE DEF F
<1>3. /\ E \in Seq(Names) /\ Len(E) = B + 3 /\ E[B + 3] = "Entries"
      /\ \A i \in 1 .. B + 2 : E[i] = F[i]
  <2>1. /\ E \in Seq(Names) /\ Len(E) = Len(F) + 1 /\ E[Len(F) + 1] = "Entries"
        /\ \A i \in 1 .. Len(F) : E[i] = F[i]
    BY <1>1, <1>2, AppendFacts
  <2>2. Len(F) + 1 = B + 3
    BY <1>1
  <2> QED
    BY <1>1, <2>1, <2>2
<1> HIDE DEF E
<1>4. /\ p \in Seq(Names) /\ Len(p) = B + 4 /\ Front(p) = E
      /\ \A i \in 1 .. B + 3 : p[i] = E[i]
  <2>1. /\ p \in Seq(Names) /\ Len(p) = Len(E) + 1 /\ Front(p) = E
        /\ \A i \in 1 .. Len(E) : p[i] = E[i]
    BY <1>2, <1>3, AppendFacts
  <2>2. Len(E) + 1 = B + 4
    BY <1>1, <1>3
  <2> QED
    BY <1>3, <2>1, <2>2
<1> HIDE DEF p
<1>5. EntryLike(p)
  <2>1. Len(p) - 1 = B + 3 /\ B + 3 \in 1 .. B + 3
    BY <1>1, <1>4
  <2>2. p[Len(p) - 1] = "Entries"
    BY <1>3, <1>4, <2>1
  <2> QED
    BY <1>4, <2>2 DEF EntryLike
<1>6. SubSeq(p, 1, Len(p) - 2) = F
  <2>1. Len(p) - 2 = Len(F) /\ Len(F) \in 0 .. Len(p)
    BY <1>1, <1>4
  <2>2. /\ SubSeq(p, 1, Len(F)) \in Seq(Names)
        /\ Len(SubSeq(p, 1, Len(F))) = Len(F)
        /\ \A i \in 1 .. Len(F) : SubSeq(p, 1, Len(F))[i] = p[i]
    BY <1>4, <2>1, PrefixFacts
  <2>3. \A i \in 1 .. Len(F) : p[i] = F[i]
    <3> SUFFICES ASSUME NEW i \in 1 .. Len(F)
                 PROVE  p[i] = F[i]
      OBVIOUS
    <3>1. i \in 1 .. B + 2 /\ i \in 1 .. B + 3
      BY <1>1
    <3> QED
      BY <1>3, <1>4, <3>1
  <2> QED
    BY <1>1, <2>1, <2>2, <2>3, SeqEqual
<1>7. p[Len(p) - 2] = s
  <2>1. Len(p) - 2 = B + 2 /\ B + 2 \in 1 .. B + 2 /\ B + 2 \in 1 .. B + 3
    BY <1>1, <1>4
  <2> QED
    BY <1>1, <1>3, <1>4, <2>1
<1>8. FolderAt(EntryPath(s, id)) = p /\ FolderAt(EntriesPath(ServicePath(s))) = E
      /\ FolderAt(ServicePath(s)) = F
  BY <1>1 DEF F, E, p
<1> QED
  BY <1>4, <1>5, <1>6, <1>7, <1>8

-----------------------------------------------------------------------------
(* Served is kept.                                                         *)

LEMMA EnteringNext ==
  ASSUME call'.purpose # "entry" \/ call'.step \notin {"folder", "write", "notify"}
  PROVE  ~Entering'
BY DEF Entering

LEMMA PublishServed ==
  ASSUME Shape, PublishJson
  PROVE  Served'
<1>1. /\ documents' = documents + 1
      /\ Refuses \/ MakesRoom \/ StartsEntry \/ StartsFile
  BY Publishing
<1>2. CASE Refuses
  BY <1>2, IdleFields, EnteringNext DEF Refuses, Served
<1>3. CASE MakesRoom
  <2>1. call'.step = "remove" /\ call'.purpose = "entry"
    BY <1>3, CallFields DEF MakesRoom
  <2> QED
    BY <2>1, EnteringNext DEF Served
<1>4. CASE StartsEntry
  <2>1. /\ call'.purpose = "entry" /\ logServiceId' = logServiceId
        /\ call'.path = EntryPath(logServiceId, Uuids[documents'])
        /\ logServiceId \in ServiceIds
    BY <1>1, <1>4, CallFields DEF StartsEntry
  <2> QED
    BY <2>1 DEF Served
<1>5. CASE StartsFile
  <2>1. PICK purpose \in {"service", "other"}, path \in DocumentPaths :
          call' = CallFor("folder", purpose, path)
    BY <1>5 DEF StartsFile
  <2>2. call'.purpose = purpose /\ call'.path = path
    BY <2>1, CallFields
  <2> QED
    BY <2>1, <2>2, EnteringNext DEF Served
<1> QED
  BY <1>1, <1>2, <1>3, <1>4, <1>5

LEMMA IdleServed ==
  ASSUME call' = IdleCall
  PROVE  Served'
BY IdleFields, EnteringNext DEF Served

(* The call goes on with the same path.                                    *)
LEMMA SameServed ==
  ASSUME Served, UNCHANGED <<logServiceId, documents>>,
         NEW step, call' = CallFor(step, call.purpose, call.path),
         call.purpose = "entry" => Entering
  PROVE  Served'
<1>1. call'.purpose = call.purpose /\ call'.path = call.path
  BY CallFields
<1>2. Entering' => call.purpose = "entry"
  BY <1>1 DEF Entering
<1> QED
  BY <1>1, <1>2 DEF Served

LEMMA ServedKept ==
  ASSUME Shape, Served, [Next]_vars
  PROVE  Served'
<1>1. CASE UNCHANGED vars
  BY <1>1 DEF vars, storerVars, bounds, Served, Entering
<1>2. CASE PublishJson
  BY <1>2, PublishServed
<1>3. CASE RemoveOldest
  <2>1. /\ Removing /\ UNCHANGED <<logServiceId, documents>>
        /\ \/ call' = CallFor("folder", "entry",
                              EntryPath(logServiceId, Uuids[documents]))
           \/ call' = IdleCall
    BY <1>3, RemoveShape, Removed DEF RemoveOldest, storerVars, bounds, Fault
  <2>2. CASE call' = CallFor("folder", "entry",
                             EntryPath(logServiceId, Uuids[documents]))
    <3>1. /\ call'.purpose = "entry"
          /\ call'.path = EntryPath(logServiceId, Uuids[documents])
      BY <2>2, CallFields
    <3> QED
      BY <2>1, <3>1 DEF Served, Removing
  <2> QED
    BY <2>1, <2>2, IdleServed
<1>4. CASE CreateFolder
  <2>1. /\ call.step = "folder" /\ UNCHANGED <<logServiceId, documents>>
        /\ \/ call' = CallFor("write", call.purpose, call.path)
           \/ call' = IdleCall
    BY <1>4, Created DEF storerVars
  <2>2. call.purpose = "entry" => Entering
    BY <2>1, CallCases DEF Serving
  <2> QED
    BY <2>1, <2>2, IdleServed, SameServed
<1>5. CASE WriteFile
  <2>1. /\ UNCHANGED <<logServiceId, documents>>
        /\ \/ Entering /\ call' = CallFor("notify", "entry", call.path)
           \/ /\ call.purpose = "service"
              /\ call' = CallFor("folder", "entries", EntriesPath(call.path))
           \/ call' = IdleCall
    BY <1>5, Written, ReturnFacts DEF storerVars
  <2>2. CASE Entering /\ call' = CallFor("notify", "entry", call.path)
    <3>1. call.purpose = "entry"
      BY <2>2 DEF Entering
    <3> QED
      BY <2>1, <2>2, <3>1, SameServed
  <2>3. CASE /\ call.purpose = "service"
             /\ call' = CallFor("folder", "entries", EntriesPath(call.path))
    <3>1. call'.purpose = "entries" /\ call'.path = EntriesPath(call.path)
      BY <2>3, CallFields
    <3> QED
      BY <2>3, <3>1, EnteringNext DEF Served
  <2> QED
    BY <2>1, <2>2, <2>3, IdleServed
<1>6. CASE CreateEntry
  BY <1>6, Stored, IdleServed
<1>7. CASE Restart
  BY <1>7, IdleServed DEF Restart
<1> QED
  BY <1>1, <1>2, <1>3, <1>4, <1>5, <1>6, <1>7 DEF Next

LEMMA ServedInit ==
  ASSUME Init
  PROVE  Served
BY IdleFields DEF Init, Served, Entering

-----------------------------------------------------------------------------
(* What faults and restarts count.                                         *)

LEMMA CountsKept ==
  ASSUME Counts, [Next]_vars
  PROVE  Counts'
<1>1. \/ UNCHANGED <<restarts, faults>>
      \/ restarts' = restarts /\ faults' = faults + 1
      \/ restarts' = restarts + 1 /\ faults' = faults + 1
  BY DEF Next, vars, bounds, PublishJson, RemoveOldest, CreateFolder, WriteFile,
         CreateEntry, Restart, Fault
<1> QED
  BY <1>1 DEF Counts

(* The folders of an entry that somebody knows.                            *)
LEMMA FewInSequence ==
  ASSUME NEW S, NEW s \in Seq(S)
  PROVE  LET T == {FolderAt(p) : p \in ToSet(s)}
         IN  IsFiniteSet(T) /\ Cardinality(T) <= Len(s) /\ Len(s) \in Nat
                /\ Cardinality(T) \in Nat
<1> DEFINE T == {FolderAt(p) : p \in ToSet(s)}
           f == [i \in 1 .. Len(s) |-> FolderAt(s[i])]
<1>1. Len(s) \in Nat /\ DOMAIN s = 1 .. Len(s)
  BY LenProperties
<1>2. f \in Surjection(1 .. Len(s), T)
  BY <1>1 DEF Surjection, ToSet
<1> HIDE DEF f, T
<1>3. ExistsSurjection(1 .. Len(s), T)
  BY <1>2 DEF ExistsSurjection
<1>4. IsFiniteSet(T) /\ Cardinality(T) <= Len(s)
  BY <1>1, <1>3, FS_NatSurjection, FS_SurjCardinalityBound
<1>5. Cardinality(T) \in Nat
  BY <1>4, FS_CardinalityType
<1> QED
  BY <1>1, <1>4, <1>5 DEF T

(* Adding at most n elements.                                              *)
LEMMA FewMore ==
  ASSUME NEW S, NEW T, IsFiniteSet(S), IsFiniteSet(T),
         NEW U \in SUBSET (S \cup T)
  PROVE  /\ IsFiniteSet(U) /\ Cardinality(U) \in Nat
         /\ Cardinality(U) <= Cardinality(S) + Cardinality(T)
<1>1. /\ IsFiniteSet(S \cup T) /\ IsFiniteSet(S \cap T)
      /\ Cardinality(S \cup T) =
           Cardinality(S) + Cardinality(T) - Cardinality(S \cap T)
  BY FS_Union, FS_Subset
<1>2. /\ Cardinality(S) \in Nat /\ Cardinality(T) \in Nat
      /\ Cardinality(S \cap T) \in Nat
  BY <1>1, FS_CardinalityType
<1>3. IsFiniteSet(U) /\ Cardinality(U) <= Cardinality(S \cup T)
  BY <1>1, FS_Subset
<1>4. Cardinality(U) \in Nat
  BY <1>3, FS_CardinalityType
<1> QED
  BY <1>1, <1>2, <1>3, <1>4

LEMMA KnownFew ==
  ASSUME Shape, Retained
  PROVE  /\ IsFiniteSet(Known)
         /\ Cardinality(Known) \in Nat
         /\ Cardinality(Known) <= maxNumSavedLogEntries + maxNumLogEntries
<1> DEFINE A == {FolderAt(p) : p \in ToSet(logEntrySavedQueue)}
           B == {FolderAt(p) : p \in ToSet(logEntryQueue)}
           C == {FolderAt(p) : p \in CurrentEntry}
<1>1. Known \subseteq (A \cup B) \cup C
  BY DEF Known, Tracked
<1>2. /\ logEntrySavedQueue \in Seq(EntryPaths)
      /\ logEntryQueue \in Seq(EntryPaths)
  BY DEF Shape
<1>3. IsFiniteSet(A) /\ Cardinality(A) <= Saved /\ Cardinality(A) \in Nat
  BY <1>2, FewInSequence DEF Saved
<1>4. IsFiniteSet(B) /\ Cardinality(B) <= Latest /\ Cardinality(B) \in Nat
  BY <1>2, FewInSequence DEF Latest
<1>5. /\ IsFiniteSet(C) /\ Cardinality(C) \in Nat
      /\ Cardinality(C) = IF call.purpose = "entry" THEN 1 ELSE 0
  <2>1. CASE call.purpose = "entry"
    <3>1. C = {FolderAt(call.path)}
      BY <2>1 DEF CurrentEntry
    <3>2. IsFiniteSet(C) /\ Cardinality(C) = 1
      BY <3>1, FS_Singleton, Zenon
    <3> QED
      BY <2>1, <3>2
  <2>2. CASE call.purpose # "entry"
    <3>1. C = {}
      BY <2>2 DEF CurrentEntry
    <3> QED
      BY <2>2, <3>1, FS_EmptySet
  <2> QED
    BY <2>1, <2>2
<1> HIDE DEF A, B, C
<1>6. /\ IsFiniteSet(A \cup B)
      /\ Cardinality(A \cup B) \in Nat
      /\ Cardinality(A \cup B) <= Cardinality(A) + Cardinality(B)
  BY <1>3, <1>4, FewMore
<1>7. /\ IsFiniteSet(Known)
      /\ Cardinality(Known) \in Nat
      /\ Cardinality(Known) <= Cardinality(A \cup B) + Cardinality(C)
  BY <1>1, <1>5, <1>6, FewMore
<1>8. /\ Saved <= maxNumSavedLogEntries /\ Latest <= maxNumLogEntries
      /\ (call.purpose = "entry" => Latest < maxNumLogEntries)
      /\ Saved \in Nat /\ Latest \in Nat
      /\ maxNumSavedLogEntries \in Nat /\ maxNumLogEntries \in Nat
  BY Sizes DEF Retained, Lengths
<1>9. Latest + Cardinality(C) <= maxNumLogEntries
  BY <1>5, <1>8
<1> QED
  BY <1>3, <1>4, <1>5, <1>6, <1>7, <1>8, <1>9

-----------------------------------------------------------------------------
(* Orphans stay few.                                                       *)

LEMMA IdleNow ==
  ASSUME Shape, call.step = "idle"
  PROVE  call = IdleCall /\ CurrentEntry = {}
BY IdleFields
   DEF Shape, CallKnown, Idle, Removing, Entering, Serving, CurrentEntry

LEMMA NoCurrent ==
  ASSUME call'.purpose # "entry"
  PROVE  CurrentEntry' = {}
BY DEF CurrentEntry

LEMMA QueueSplit ==
  ASSUME NEW S, NEW s \in Seq(S), s # <<>>
  PROVE  ToSet(s) \subseteq ToSet(Tail(s)) \cup {Head(s)}
<1>1. /\ Tail(s) \in Seq(S) /\ Len(Tail(s)) = Len(s) - 1
      /\ \A i \in 1 .. Len(s) - 1 : Tail(s)[i] = s[i + 1]
      /\ Head(s) = s[1]
  BY TailFacts
<1>2. /\ Len(s) \in Nat /\ DOMAIN s = 1 .. Len(s)
      /\ DOMAIN Tail(s) = 1 .. Len(s) - 1
  BY <1>1, LenProperties
<1>3. ASSUME NEW i \in 1 .. Len(s), i # 1
      PROVE  s[i] \in ToSet(Tail(s))
  <2>1. i - 1 \in 1 .. Len(s) - 1 /\ (i - 1) + 1 = i
    BY <1>2, <1>3
  <2>2. Tail(s)[i - 1] = s[i]
    BY <1>1, <2>1
  <2> QED
    BY <1>2, <2>1, <2>2 DEF ToSet
<1> QED
  BY <1>1, <1>2, <1>3 DEF ToSet

LEMMA OrphansFewer ==
  ASSUME folders' \subseteq folders, Known \subseteq Known'
  PROVE  Orphans' \subseteq Orphans
BY DEF Orphans, EntryFolders

LEMMA PublishOrphans ==
  ASSUME Shape, PublishJson
  PROVE  Orphans' \subseteq Orphans /\ UNCHANGED <<restarts, faults>>
<1>1. /\ folders' = folders /\ logEntrySavedQueue' = logEntrySavedQueue
      /\ call.step = "idle" /\ CurrentEntry = {}
      /\ Refuses \/ MakesRoom \/ StartsEntry \/ StartsFile
      /\ UNCHANGED <<restarts, faults>>
  BY Publishing, IdleNow DEF PublishJson
<1>2. ToSet(logEntryQueue) \subseteq ToSet(logEntryQueue') \cup CurrentEntry'
  <2>1. CASE MakesRoom
    <3>1. /\ call'.purpose = "entry" /\ call'.path = Head(logEntryQueue)
          /\ logEntryQueue' = Tail(logEntryQueue)
      BY <2>1, CallFields DEF MakesRoom
    <3>2. logEntryQueue \in Seq(EntryPaths) /\ Latest = maxNumLogEntries
      BY <2>1 DEF Shape, MakesRoom
    <3>3. logEntryQueue # <<>>
      BY <3>2, Sizes, EmptySeqs DEF Latest
    <3> QED
      BY <3>1, <3>2, <3>3, QueueSplit DEF CurrentEntry
  <2>2. CASE Refuses \/ StartsEntry \/ StartsFile
    BY <2>2 DEF Refuses, StartsEntry, StartsFile
  <2> QED
    BY <1>1, <2>1, <2>2
<1>3. Known \subseteq Known'
  BY <1>1, <1>2 DEF Known, Tracked
<1> QED
  BY <1>1, <1>3, OrphansFewer

LEMMA RemoveOrphans ==
  ASSUME Shape, RemoveOldest
  PROVE  /\ restarts' = restarts
         /\ \/ Orphans' \subseteq Orphans /\ faults' = faults
            \/ /\ Orphans' \subseteq Orphans \cup {FolderAt(call.path)}
               /\ faults' = faults + 1
<1> DEFINE F == FolderAt(call.path)
<1>1. /\ call.purpose = "entry" /\ F \in Seq(Names)
      /\ UNCHANGED <<logEntrySavedQueue, logEntryQueue, restarts>>
  BY RemoveShape, EntryIsPath
     DEF Removing, RemoveOldest, storerVars, bounds, Fault
<1>2. Known \subseteq Known' \cup {F}
  BY <1>1 DEF Known, Tracked, CurrentEntry
<1>3. CASE folders' = folders \ Below(F) /\ faults' = faults
  <2>1. IsPrefix(F, F)
    BY <1>1, PrefixIff, LenProperties
  <2>2. F \notin folders' /\ folders' \subseteq folders
    BY <1>3, <2>1 DEF Below
  <2>3. Orphans' \subseteq Orphans
    BY <1>2, <2>2 DEF Orphans, EntryFolders
  <2> QED
    BY <1>1, <1>3, <2>3
<1>4. CASE folders' = folders /\ faults' = faults + 1
  BY <1>1, <1>2, <1>4 DEF Orphans, EntryFolders
<1>5. \/ folders' = folders \ Below(F) /\ faults' = faults
      \/ folders' = folders /\ faults' = faults + 1
  BY DEF RemoveOldest, Fault, bounds
<1> QED
  BY <1>3, <1>4, <1>5

(* Only the folder of a new entry looks like one.                          *)
LEMMA NewEntryFolders ==
  ASSUME Shape, Served, EntriesOnly, CreateFolder,
         NEW p \in EntryFolders' \ EntryFolders
  PROVE  /\ Entering /\ p = FolderAt(call.path)
         /\ call' = CallFor("write", "entry", call.path)
         /\ UNCHANGED <<faults, restarts>>
<1>1. /\ call.step = "folder" /\ (Entering \/ Serving)
      /\ \/ folders' = folders
         \/ /\ folders' = folders \cup FoldersOn(call.path)
            /\ call' = [call EXCEPT !.step = "write"]
            /\ UNCHANGED <<faults, restarts>>
  BY CallCases DEF CreateFolder, bounds
<1>2. p \in folders' /\ p \notin folders /\ EntryLike(p)
  BY DEF EntryFolders, EntryLike
<1>3. /\ p \in FoldersOn(call.path)
      /\ call' = [call EXCEPT !.step = "write"]
      /\ UNCHANGED <<faults, restarts>>
  BY <1>1, <1>2
<1>4. ~Serving
  <2> SUFFICES ASSUME Serving
               PROVE  FALSE
    OBVIOUS
  <2>1. \E q \in DocumentPaths : call.path = q \/ call.path = EntriesPath(q)
    BY DEF Serving, Served
  <2> QED
    BY <1>2, <1>3, <2>1 DEF EntriesOnly
<1>5. Entering /\ call.path \in EntryPaths /\ call.purpose = "entry"
  BY <1>1, <1>4 DEF Entering
<1>6. call' = CallFor("write", "entry", call.path)
  <2>1. call = CallFor(call.step, "entry", call.path)
    BY <1>5 DEF Shape, CallKnown
  <2> QED
    BY <1>3, <2>1, CallFields
<1> QED
  BY <1>2, <1>3, <1>5, <1>6, EntryFolderOnly

LEMMA FolderOrphans ==
  ASSUME Shape, Served, EntriesOnly, CreateFolder
  PROVE  /\ restarts' = restarts
         /\ \/ Orphans' \subseteq Orphans /\ faults' = faults
            \/ /\ Orphans' \subseteq Orphans \cup {FolderAt(call.path)}
               /\ faults' = faults + 1
<1>1. /\ restarts' = restarts
      /\ UNCHANGED <<logEntrySavedQueue, logEntryQueue>>
      /\ call.step = "folder" /\ (Entering \/ Serving)
  BY Created, CallCases DEF CreateFolder, bounds, Fault, storerVars
<1>2. Known \subseteq Known' \cup {FolderAt(call.path)}
  BY <1>1 DEF Known, Tracked, CurrentEntry
<1>3. EntryFolders' \subseteq EntryFolders \cup {FolderAt(call.path)}
  BY NewEntryFolders
<1>4. Orphans' \subseteq Orphans \cup {FolderAt(call.path)}
  BY <1>2, <1>3 DEF Orphans
<1>5. faults' = faults \/ faults' = faults + 1
  BY DEF CreateFolder, bounds, Fault
<1>6. ASSUME faults' # faults + 1
      PROVE  Orphans' \subseteq Orphans
  <2>1. \/ /\ folders' = folders \cup FoldersOn(call.path)
           /\ call' = CallFor("write", call.purpose, call.path)
        \/ ~IsValidPath(call.path) /\ call' = IdleCall /\ folders' = folders
    <3>1. call = CallFor(call.step, call.purpose, call.path)
      BY DEF Shape, CallKnown
    <3>2. [call EXCEPT !.step = "write"] = CallFor("write", call.purpose, call.path)
      BY <3>1, CallFields
    <3> QED
      BY <1>6, <3>2, ReturnFacts DEF CreateFolder, Fault
  <2>2. CASE ~IsValidPath(call.path) /\ call' = IdleCall /\ folders' = folders
    <3>1. ~Entering
      BY <2>2, EntryParts DEF Entering
    <3>2. CurrentEntry = {}
      BY <1>1, <3>1 DEF Serving, CurrentEntry
    <3>3. Known \subseteq Known'
      BY <1>1, <3>2 DEF Known, Tracked
    <3> QED
      BY <2>2, <3>3, OrphansFewer
  <2>3. CASE call' = CallFor("write", call.purpose, call.path)
    <3>1. Known' = Known
      BY <1>1, <2>3, CallFields DEF Known, Tracked, CurrentEntry
    <3>2. ASSUME NEW p \in EntryFolders' \ EntryFolders
          PROVE  p \in Known
      <4>1. Entering /\ p = FolderAt(call.path)
        BY NewEntryFolders
      <4> QED
        BY <4>1 DEF Known, CurrentEntry, Entering
    <3> QED
      BY <3>1, <3>2 DEF Orphans
  <2> QED
    BY <2>1, <2>2, <2>3
<1> QED
  BY <1>1, <1>4, <1>5, <1>6

LEMMA WriteOrphans ==
  ASSUME Shape, WriteFile
  PROVE  /\ Orphans' \subseteq Orphans /\ restarts' = restarts
         /\ faults' = faults \/ faults' = faults + 1
<1>1. /\ UNCHANGED <<folders, logEntrySavedQueue, logEntryQueue, restarts>>
      /\ faults' = faults \/ faults' = faults + 1
  BY DEF WriteFile, storerVars, bounds, Fault
<1>2. \/ Entering /\ call' = CallFor("notify", "entry", call.path)
      \/ Serving
  BY Written
<1>3. CurrentEntry \subseteq CurrentEntry'
  <2>1. CASE call' = CallFor("notify", "entry", call.path)
    <3>1. call'.purpose = "entry" /\ call'.path = call.path
      BY <2>1, CallFields
    <3> QED
      BY <3>1 DEF CurrentEntry
  <2>2. CASE Serving
    <3>1. call.purpose # "entry"
      BY <2>2 DEF Serving
    <3> QED
      BY <3>1 DEF CurrentEntry
  <2> QED
    BY <1>2, <2>1, <2>2
<1>4. Known \subseteq Known'
  BY <1>1, <1>3 DEF Known, Tracked
<1> QED
  BY <1>1, <1>4, OrphansFewer

LEMMA EntryOrphans ==
  ASSUME Shape, CreateEntry
  PROVE  /\ restarts' = restarts
         /\ \/ Orphans' \subseteq Orphans /\ faults' = faults
            \/ /\ Orphans' \subseteq Orphans \cup {FolderAt(call.path)}
               /\ faults' = faults + 1
<1>1. /\ Entering /\ folders' = folders /\ restarts' = restarts
  BY Stored DEF CreateEntry, bounds, Fault
<1>2. CurrentEntry = {call.path} /\ call.path \in EntryPaths
  BY <1>1 DEF CurrentEntry, Entering
<1>3. CASE PushEntry(call.path) /\ faults' = faults
  <2>1. /\ logEntrySavedQueue \in Seq(EntryPaths)
        /\ logEntryQueue \in Seq(EntryPaths)
    BY DEF Shape
  <2>2. /\ ToSet(Append(logEntryQueue, call.path))
             = ToSet(logEntryQueue) \cup {call.path}
        /\ ToSet(Append(logEntrySavedQueue, call.path))
             = ToSet(logEntrySavedQueue) \cup {call.path}
    BY <1>2, <2>1, AppendFacts
  <2>3. Tracked \cup {call.path} \subseteq Tracked'
    BY <1>3, <2>2 DEF PushEntry, Tracked
  <2>4. Known \subseteq Known'
    BY <1>2, <2>3 DEF Known
  <2> QED
    BY <1>1, <1>3, <2>4, OrphansFewer
<1>4. CASE /\ UNCHANGED <<logEntrySavedQueue, logEntryQueue>>
           /\ faults' = faults + 1
  <2>1. Known \subseteq Known' \cup {FolderAt(call.path)}
    BY <1>2, <1>4 DEF Known, Tracked
  <2> QED
    BY <1>1, <1>4, <2>1 DEF Orphans, EntryFolders
<1> QED
  BY <1>3, <1>4 DEF CreateEntry, bounds, Fault

LEMMA RestartOrphans ==
  ASSUME Restart
  PROVE  /\ Orphans' \subseteq Orphans \cup Known
         /\ restarts' = restarts + 1 /\ faults' = faults + 1
BY DEF Restart, Orphans, EntryFolders

LEMMA LeftoversGrow ==
  ASSUME Counts
  PROVE  /\ Leftovers \in Nat
         /\ restarts' = restarts /\ faults' = faults => Leftovers' = Leftovers
         /\ restarts' = restarts /\ faults' = faults + 1 =>
              Leftovers' = Leftovers + 1
         /\ restarts' = restarts + 1 /\ faults' = faults + 1 =>
              /\ Leftovers' =
                   Leftovers + (maxNumSavedLogEntries + maxNumLogEntries) + 1
              /\ maxNumSavedLogEntries + maxNumLogEntries \in Nat
<1> DEFINE most == maxNumSavedLogEntries + maxNumLogEntries
<1>1. most \in Nat /\ restarts \in Nat /\ faults \in Nat
  BY StorerAssumption DEF Counts
<1>2. /\ Leftovers = most * restarts + faults
      /\ Leftovers' = most * restarts' + faults'
  BY DEF Leftovers
<1> HIDE DEF most
<1>3. most * restarts \in Nat /\ most * (restarts + 1) = most * restarts + most
  BY <1>1
<1>4. Leftovers \in Nat
  BY <1>1, <1>2, <1>3
<1>5. restarts' = restarts /\ faults' = faults => Leftovers' = Leftovers
  BY <1>2
<1>6. restarts' = restarts /\ faults' = faults + 1 => Leftovers' = Leftovers + 1
  BY <1>1, <1>2, <1>3
<1>7. restarts' = restarts + 1 /\ faults' = faults + 1 =>
        Leftovers' = Leftovers + most + 1
  BY <1>1, <1>2, <1>3
<1> QED
  BY <1>1, <1>4, <1>5, <1>6, <1>7 DEF most

LEMMA StillFew ==
  ASSUME Counts, FewOrphans, NEW X, IsFiniteSet(X), NEW n \in Nat,
         Cardinality(X) <= n, Orphans' \subseteq Orphans \cup X,
         Leftovers' \in Nat, Leftovers + n <= Leftovers'
  PROVE  FewOrphans'
<1>1. IsFiniteSet(Orphans) /\ Cardinality(Orphans) <= Leftovers
  BY DEF FewOrphans
<1>2. /\ IsFiniteSet(Orphans') /\ Cardinality(Orphans') \in Nat
      /\ Cardinality(Orphans') <= Cardinality(Orphans) + Cardinality(X)
  BY <1>1, FewMore
<1>3. /\ Cardinality(Orphans) \in Nat /\ Cardinality(X) \in Nat
      /\ Leftovers \in Nat
  BY <1>1, FS_CardinalityType, LeftoversGrow
<1>4. Cardinality(Orphans') <= Leftovers'
  BY <1>1, <1>2, <1>3
<1> QED
  BY <1>2, <1>4 DEF FewOrphans

LEMMA FewOrphansKept ==
  ASSUME Shape, Retained, Served, EntriesOnly, Counts, FewOrphans, [Next]_vars
  PROVE  FewOrphans'
<1>1. CASE /\ Orphans' \subseteq Orphans /\ restarts' = restarts
           /\ faults' = faults \/ faults' = faults + 1
  <2>1. Leftovers' \in Nat /\ Leftovers + 0 <= Leftovers'
    BY <1>1, LeftoversGrow
  <2>2. IsFiniteSet({}) /\ Cardinality({}) <= 0
    BY FS_EmptySet
  <2>3. Orphans' \subseteq Orphans \cup {}
    BY <1>1
  <2> QED
    BY <2>1, <2>2, <2>3, StillFew
<1>2. CASE /\ Orphans' \subseteq Orphans \cup {FolderAt(call.path)}
           /\ restarts' = restarts /\ faults' = faults + 1
  <2>1. Leftovers' \in Nat /\ Leftovers + 1 <= Leftovers'
    BY <1>2, LeftoversGrow
  <2> DEFINE X == {FolderAt(call.path)}
  <2>2. IsFiniteSet(X) /\ Cardinality(X) = 1
    BY FS_Singleton, Zenon
  <2> HIDE DEF X
  <2>3. Cardinality(X) <= 1
    BY <2>2
  <2> QED
    BY <1>2, <2>1, <2>2, <2>3, StillFew DEF X
<1>3. CASE Restart
  <2>1. /\ Orphans' \subseteq Orphans \cup Known
        /\ restarts' = restarts + 1 /\ faults' = faults + 1
    BY <1>3, RestartOrphans
  <2> DEFINE most == maxNumSavedLogEntries + maxNumLogEntries
  <2>2. /\ most \in Nat /\ Leftovers \in Nat
        /\ Leftovers' = Leftovers + most + 1
    BY <2>1, LeftoversGrow
  <2>3. IsFiniteSet(Known) /\ Cardinality(Known) <= most
    BY KnownFew
  <2> HIDE DEF most
  <2>4. Leftovers' \in Nat /\ Leftovers + most <= Leftovers'
    BY <2>2
  <2> QED
    BY <2>1, <2>2, <2>3, <2>4, StillFew
<1>4. CASE UNCHANGED vars
  <2>1. Orphans' \subseteq Orphans
    BY <1>4 DEF vars, storerVars, disk, Orphans, EntryFolders, Known, Tracked,
                CurrentEntry
  <2> QED
    BY <1>1, <1>4, <2>1 DEF vars, bounds
<1> QED
  BY <1>1, <1>2, <1>3, <1>4, PublishOrphans, RemoveOrphans, FolderOrphans,
     WriteOrphans, EntryOrphans DEF Next

LEMMA CountsInit ==
  ASSUME Init
  PROVE  Counts /\ FewOrphans
<1>1. restarts = 0 /\ faults = 0 /\ folders = {}
  BY DEF Init
<1>2. Orphans = {}
  BY <1>1 DEF Orphans, EntryFolders
<1>3. IsFiniteSet(Orphans) /\ Cardinality(Orphans) = 0
  BY <1>2, FS_EmptySet
<1>4. Counts
  BY <1>1 DEF Counts
<1> QED
  BY <1>3, <1>4, LeftoversGrow DEF FewOrphans

THEOREM LeftoversCounted ==
  ASSUME EntriesOnly
  PROVE  Spec => [](Served /\ Counts /\ FewOrphans)
<1>1. Init => Served /\ Counts /\ FewOrphans
  BY ServedInit, CountsInit
<1>2. Inv /\ (Served /\ Counts /\ FewOrphans) /\ [Next]_vars =>
        (Served /\ Counts /\ FewOrphans)'
  BY ServedKept, CountsKept, FewOrphansKept DEF Inv, Bookkeeping
<1> QED
  BY <1>1, <1>2, BooksKept, PTL DEF Spec

(* The folders of entries are bounded (FoldersBounded): what neither queue *)
(* knows was left behind by a start of the daemon, which forgets the two   *)
(* queues and the entry in progress, or by a failed operation, which loses *)
(* one entry at most.                                                      *)
THEOREM EntryFoldersBounded ==
  ASSUME EntriesOnly
  PROVE  Spec => []FoldersBounded
<1>1. Inv /\ Served /\ Counts /\ FewOrphans => FoldersBounded
  <2> SUFFICES ASSUME Inv, Counts, FewOrphans
               PROVE  FoldersBounded
    OBVIOUS
  <2> DEFINE most == maxNumSavedLogEntries + maxNumLogEntries
  <2>1. IsFiniteSet(Orphans) /\ Cardinality(Orphans) <= Leftovers
    BY DEF FewOrphans
  <2>2. /\ IsFiniteSet(Known) /\ Cardinality(Known) \in Nat
        /\ Cardinality(Known) <= most
    BY KnownFew DEF Inv, Bookkeeping
  <2>3. EntryFolders \subseteq Orphans \cup Known
    BY DEF Orphans
  <2>4. /\ Cardinality(EntryFolders) \in Nat
        /\ Cardinality(EntryFolders) <= Cardinality(Orphans) + Cardinality(Known)
    BY <2>1, <2>2, <2>3, FewMore
  <2>5. /\ most \in Nat /\ restarts \in Nat /\ faults \in Nat
        /\ Leftovers = most * restarts + faults
    BY StorerAssumption DEF Counts, Leftovers
  <2>6. Cardinality(Orphans) \in Nat
    BY <2>1, FS_CardinalityType
  <2>7. Cardinality(EntryFolders) <= most * (restarts + 1) + faults
    <3> HIDE DEF most
    <3>1. most * restarts \in Nat /\ most * (restarts + 1) = most * restarts + most
      BY <2>5
    <3> QED
      BY <2>1, <2>2, <2>4, <2>5, <2>6, <3>1
  <2> QED
    BY <2>7 DEF FoldersBounded
<1> QED
  BY <1>1, LeftoversCounted, BooksKept, PTL

-----------------------------------------------------------------------------
(* Nothing is missing as long as nothing failed.                           *)

LEMMA PublishNoneMissing ==
  ASSUME Shape, NoneMissing, PublishJson
  PROVE  NoneMissing'
<1>1. /\ faults' = faults /\ stored' = stored
      /\ logEntrySavedQueue' = logEntrySavedQueue
      /\ call.purpose # "entry"
      /\ Refuses \/ MakesRoom \/ StartsEntry \/ StartsFile
  BY Publishing, IdleNow, IdleFields DEF PublishJson
<1>2. CASE MakesRoom
  <2>1. /\ call'.purpose = "entry" /\ logEntryQueue' = Tail(logEntryQueue)
        /\ Latest = maxNumLogEntries
    BY <1>2, CallFields DEF MakesRoom
  <2>2. logEntryQueue \in Seq(EntryPaths) /\ logEntryQueue # <<>>
    <3>1. logEntryQueue \in Seq(EntryPaths) /\ Latest = Len(logEntryQueue)
      BY DEF Shape, Latest
    <3>2. Latest > 0
      BY <2>1, Sizes
    <3> QED
      BY <3>1, <3>2, EmptySeqs
  <2>3. Latest' = maxNumLogEntries - 1
    BY <2>1, <2>2, TailFacts DEF Latest
  <2> QED
    BY <2>1, <2>3 DEF NoneMissing
<1>3. CASE StartsEntry
  <2>1. Latest # maxNumLogEntries /\ logEntryQueue' = logEntryQueue
    BY <1>3 DEF StartsEntry
  <2>2. Latest' = Latest /\ Saved' = Saved /\ Len(stored') = Len(stored)
    BY <1>1, <2>1 DEF Latest, Saved
  <2> QED
    BY <1>1, <2>1, <2>2 DEF NoneMissing
<1>4. CASE Refuses \/ StartsFile
  <2>1. call'.purpose # "entry"
    <3>1. CASE Refuses
      BY <3>1, IdleFields DEF Refuses
    <3>2. CASE StartsFile
      <4>1. PICK purpose \in {"service", "other"} :
              \E path : call' = CallFor("folder", purpose, path)
        BY <3>2 DEF StartsFile
      <4> QED
        BY <4>1, CallFields
    <3> QED
      BY <1>4, <3>1, <3>2
  <2>2. logEntryQueue' = logEntryQueue
    BY <1>4 DEF Refuses, StartsFile
  <2>3. Latest' = Latest /\ Saved' = Saved /\ Len(stored') = Len(stored)
    BY <1>1, <2>2 DEF Latest, Saved
  <2> QED
    BY <1>1, <2>1, <2>3 DEF NoneMissing
<1> QED
  BY <1>1, <1>2, <1>3, <1>4

LEMMA SameNoneMissing ==
  ASSUME NoneMissing, UNCHANGED <<logEntrySavedQueue, logEntryQueue, stored>>,
         Counts,
         \/ faults' = faults + 1
         \/ faults' = faults /\ (call'.purpose = "entry" <=> call.purpose = "entry")
  PROVE  NoneMissing'
<1>1. Latest' = Latest /\ Saved' = Saved /\ Len(stored') = Len(stored)
  BY DEF Latest, Saved
<1>2. faults' = faults + 1 => faults' # 0
  BY DEF Counts
<1> QED
  BY <1>1, <1>2 DEF NoneMissing

LEMMA NoneMissingKept ==
  ASSUME Shape, Retained, Counts, NoneMissing, [Next]_vars
  PROVE  NoneMissing'
<1>1. CASE UNCHANGED vars
  BY <1>1, SameNoneMissing DEF vars, storerVars, history, bounds
<1>2. CASE PublishJson
  BY <1>2, PublishNoneMissing
<1>3. CASE RemoveOldest
  <2>1. /\ UNCHANGED <<logEntrySavedQueue, logEntryQueue, stored>>
        /\ call.purpose = "entry"
        /\ \/ faults' = faults + 1
           \/ faults' = faults /\ call' = NewEntry(documents)
    BY <1>3, RemoveShape
       DEF RemoveOldest, storerVars, history, bounds, Fault, Removing
  <2>2. call' = NewEntry(documents) => call'.purpose = "entry"
    BY CallFields DEF NewEntry
  <2> QED
    BY <2>1, <2>2, SameNoneMissing
<1>4. CASE CreateFolder
  <2>1. /\ UNCHANGED <<logEntrySavedQueue, logEntryQueue, stored>>
        /\ call.step = "folder" /\ (Entering \/ Serving)
        /\ call = CallFor(call.step, call.purpose, call.path)
    BY <1>4, CallCases
       DEF CreateFolder, storerVars, history, Shape, CallKnown
  <2>2. \/ faults' = faults + 1
        \/ /\ faults' = faults
           /\ \/ call' = [call EXCEPT !.step = "write"]
              \/ ~IsValidPath(call.path) /\ Return("false")
    BY <1>4 DEF CreateFolder, bounds, Fault
  <2>3. CASE faults' = faults /\ ~IsValidPath(call.path) /\ Return("false")
    <3>1. ~Entering
      BY <2>3, EntryParts DEF Entering
    <3>2. call.purpose # "entry" /\ call'.purpose # "entry"
      BY <2>1, <2>3, <3>1, ReturnFacts, IdleFields DEF Serving
    <3> QED
      BY <2>1, <2>3, <3>2, SameNoneMissing
  <2>4. CASE faults' = faults /\ call' = [call EXCEPT !.step = "write"]
    <3>1. call'.purpose = call.purpose
      BY <2>1, <2>4, CallFields
    <3> QED
      BY <2>1, <2>4, <3>1, SameNoneMissing
  <2> QED
    BY <2>1, <2>2, <2>3, <2>4, SameNoneMissing
<1>5. CASE WriteFile
  <2>1. /\ UNCHANGED <<logEntrySavedQueue, logEntryQueue, stored>>
        /\ faults' = faults \/ faults' = faults + 1
    BY <1>5 DEF WriteFile, storerVars, history, bounds, Fault
  <2>2. call'.purpose = "entry" <=> call.purpose = "entry"
    <3>1. CASE Entering /\ call' = CallFor("notify", "entry", call.path)
      BY <3>1, CallFields DEF Entering
    <3>2. CASE Serving /\ call' = CallFor("folder", "entries", EntriesPath(call.path))
      BY <3>2, CallFields DEF Serving
    <3>3. CASE Serving /\ Return("true")
      BY <3>3, ReturnFacts, IdleFields DEF Serving
    <3> QED
      BY <1>5, <3>1, <3>2, <3>3, Written
  <2> QED
    BY <2>1, <2>2, SameNoneMissing
<1>6. CASE CreateEntry
  <2>1. CASE /\ UNCHANGED <<logEntrySavedQueue, logEntryQueue, stored>>
             /\ faults' = faults + 1
    BY <2>1, SameNoneMissing
  <2>2. CASE /\ PushEntry(call.path) /\ stored' = Append(stored, call.path)
             /\ faults' = faults
    <3>1. call' = IdleCall /\ call.path \in EntryPaths /\ call.purpose = "entry"
      BY <1>6, Stored DEF Entering
    <3>2. call'.purpose # "entry"
      BY <3>1, IdleFields
    <3>3. Len(stored') = Len(stored) + 1
      <4>1. stored \in Seq(EntryPaths)
        BY DEF Shape
      <4> QED
        BY <2>2, <3>1, <4>1, AppendFacts
    <3>4. \/ Saved < maxNumSavedLogEntries /\ Saved' = Saved + 1 /\ Latest' = Latest
          \/ Saved' = Saved /\ Latest' = Latest + 1
      <4>1. /\ Len(Append(logEntrySavedQueue, call.path)) = Saved + 1
            /\ Len(Append(logEntryQueue, call.path)) = Latest + 1
        <5>1. /\ logEntrySavedQueue \in Seq(EntryPaths)
              /\ logEntryQueue \in Seq(EntryPaths)
          BY DEF Shape
        <5> QED
          BY <3>1, <5>1, AppendFacts DEF Saved, Latest
      <4>2. \/ /\ Saved < maxNumSavedLogEntries
               /\ logEntrySavedQueue' = Append(logEntrySavedQueue, call.path)
               /\ logEntryQueue' = logEntryQueue
            \/ /\ logEntryQueue' = Append(logEntryQueue, call.path)
               /\ logEntrySavedQueue' = logEntrySavedQueue
        BY <2>2 DEF PushEntry, Saved
      <4>3. /\ Saved' = Len(logEntrySavedQueue') /\ Latest' = Len(logEntryQueue')
            /\ Saved = Len(logEntrySavedQueue) /\ Latest = Len(logEntryQueue)
        BY DEF Saved, Latest
      <4> QED
        BY <4>1, <4>2, <4>3, Zenon
    <3>5. /\ Saved \in Nat /\ Latest \in Nat /\ Len(stored) \in Nat
          /\ maxNumLogEntries \in Nat /\ maxNumSavedLogEntries \in Nat
          /\ Saved <= Len(stored) /\ Latest <= Len(stored) - Saved
          /\ (Len(stored) > Saved => Saved = maxNumSavedLogEntries)
      BY Sizes DEF Retained, Lengths
    <3>6. faults = 0 =>
            Latest = Len(stored) - Saved \/ Latest = maxNumLogEntries - 1
      BY <3>1 DEF NoneMissing
    <3>7. faults' = 0 =>
            Latest' = Len(stored') - Saved' \/ Latest' = maxNumLogEntries
      BY <2>2, <3>3, <3>4, <3>5, <3>6
    <3> QED
      BY <3>2, <3>7 DEF NoneMissing
  <2> QED
    BY <1>6, <2>1, <2>2 DEF CreateEntry, Fault, bounds, history
<1>7. CASE Restart
  <2>1. faults' = faults + 1 /\ faults \in Nat
    BY <1>7 DEF Restart, Counts
  <2>2. faults' # 0
    BY <2>1
  <2> QED
    BY <2>2 DEF NoneMissing
<1> QED
  BY <1>1, <1>2, <1>3, <1>4, <1>5, <1>6, <1>7 DEF Next

LEMMA NoneMissingInit ==
  ASSUME Init
  PROVE  NoneMissing
<1>1. logEntrySavedQueue = <<>> /\ logEntryQueue = <<>> /\ stored = <<>>
  BY DEF Init
<1>2. Saved = 0 /\ Latest = 0 /\ Len(stored) = 0
  BY <1>1, EmptySeqs DEF Saved, Latest
<1> QED
  BY <1>2 DEF NoneMissing

(* As long as nothing fails, the entries on disk are exactly those in the  *)
(* two queues, and the second queue holds as many as it can                *)
(* (OnlyRetainedOnDisk).                                                   *)
THEOREM NothingLeftBehind ==
  ASSUME EntriesOnly, PlainServices
  PROVE  Spec => []OnlyRetainedOnDisk
<1>1. Init => NoneMissing
  BY NoneMissingInit
<1>2. Inv /\ Counts /\ NoneMissing /\ [Next]_vars => NoneMissing'
  BY NoneMissingKept DEF Inv, Bookkeeping
<1>3. Inv /\ Counts /\ FewOrphans /\ NoneMissing => OnlyRetainedOnDisk
  <2> SUFFICES ASSUME Inv, Counts, FewOrphans, NoneMissing,
                      faults = 0, call.step = "idle"
               PROVE  /\ EntryFolders = {FolderAt(p) : p \in Tracked}
                      /\ Len(logEntryQueue) =
                           IF Len(stored) <= maxNumSavedLogEntries + maxNumLogEntries
                           THEN Len(stored) - Len(logEntrySavedQueue)
                           ELSE maxNumLogEntries
    BY DEF OnlyRetainedOnDisk
  <2>1. Shape /\ Rooted /\ Retained /\ Fresh /\ OnDisk
    BY DEF Inv, Bookkeeping
  <2>2. CurrentEntry = {} /\ call.purpose # "entry"
    BY <2>1, IdleNow, IdleFields
  <2>3. Known = {FolderAt(p) : p \in Tracked}
    BY <2>2 DEF Known
  <2>4. Orphans = {}
    <3>1. restarts = 0
      BY DEF Counts
    <3>2. Leftovers = 0
      BY <3>1, StorerAssumption DEF Leftovers
    <3>3. IsFiniteSet(Orphans) /\ Cardinality(Orphans) <= 0
      BY <3>2 DEF FewOrphans
    <3>4. Cardinality(Orphans) = 0
      BY <3>3, FS_CardinalityType
    <3> QED
      BY <3>3, <3>4, FS_EmptySet
  <2>5. ASSUME NEW p \in Tracked
        PROVE  FolderAt(p) \in EntryFolders
    <3>1. p \in Kept
      BY <2>1, TrackedKept
    <3>2. FolderAt(p) \in folders /\ p \in EntryPaths
      BY <2>1, <3>1, KeptIds DEF OnDisk, OnceWritten, Rooted
    <3>3. PICK s \in ServiceIds, id \in Ids(MaxDocuments) : p = EntryPath(s, id)
      BY <3>2 DEF EntryPaths
    <3>4. EntryLike(FolderAt(p))
      BY <3>3, EntryInService DEF PlainServices
    <3> QED
      BY <3>2, <3>4 DEF EntryFolders, EntryLike
  <2>6. EntryFolders = {FolderAt(p) : p \in Tracked}
    BY <2>3, <2>4, <2>5 DEF Orphans
  <2>7. /\ Saved \in Nat /\ Latest \in Nat /\ Len(stored) \in Nat
        /\ maxNumLogEntries \in Nat \ {0} /\ maxNumSavedLogEntries \in Nat
        /\ Saved <= maxNumSavedLogEntries
        /\ Saved <= Len(stored) /\ Latest <= Len(stored) - Saved
        /\ Latest <= maxNumLogEntries
        /\ (Len(stored) > Saved => Saved = maxNumSavedLogEntries)
    BY <2>1, Sizes DEF Retained, Lengths
  <2>8. Latest = Len(stored) - Saved \/ Latest = maxNumLogEntries
    BY <2>2 DEF NoneMissing
  <2>9. Latest = IF Len(stored) <= maxNumSavedLogEntries + maxNumLogEntries
                 THEN Len(stored) - Saved ELSE maxNumLogEntries
    BY <2>7, <2>8
  <2> QED
    BY <2>6, <2>9 DEF Latest, Saved
<1> QED
  BY <1>1, <1>2, <1>3, LeftoversCounted, BooksKept, PTL DEF Spec

-----------------------------------------------------------------------------
(* The files of the service are there, or will be before the next entry.   *)

LEMMA PublishService ==
  ASSUME Shape, ServiceThere, PublishJson
  PROVE  ServiceThere'
<1>1. /\ UNCHANGED <<files, restarts, faults>> /\ call.purpose = "none"
  BY Publishing, IdleNow, IdleFields DEF PublishJson
<1>2. PICK doc \in Documents :
        \/ RefuseDocument(doc) \/ ThrowOnDocument(doc)
        \/ ProcessLogEntry(doc) \/ ProcessLogService(doc) \/ ProcessOtherTypes(doc)
  BY DEF PublishJson
<1>3. ASSUME logServiceId' = logServiceId,
             call'.purpose \notin {"service", "entries"}
      PROVE  ServiceThere'
  BY <1>1, <1>3 DEF ServiceThere, ServiceCreated
<1>4. CASE RefuseDocument(doc)
  <2>1. logServiceId' = logServiceId /\ call'.purpose = "none"
    BY <1>4, ReturnFacts, IdleFields DEF RefuseDocument, storerVars
  <2> QED
    BY <1>3, <2>1
<1>5. CASE ThrowOnDocument(doc)
  <2>1. logServiceId' = logServiceId /\ call'.purpose = "none"
    BY <1>5, ReturnFacts, IdleFields DEF ThrowOnDocument, storerVars, Throw
  <2> QED
    BY <1>3, <2>1
<1>6. CASE ProcessLogEntry(doc)
  <2>1. logServiceId' = logServiceId /\ call'.purpose = "entry"
    BY <1>6, CallFields DEF ProcessLogEntry, NewEntry
  <2> QED
    BY <1>3, <2>1
<1>7. CASE ProcessLogService(doc)
  <2>1. /\ IsA(doc, "logService") /\ ~LacksServiceField(doc) /\ ~Mistyped(doc)
    BY <1>7 DEF ProcessLogService, Refused
  <2>2. logServiceId' = doc.id.value
    BY <1>7 DEF ProcessLogService
  <2>3. ASSUME InPlace(doc.id.value)
        PROVE  Plain(logServiceId') /\ ServiceCreated'
    <3>1. /\ Plain(doc.id.value) /\ doc.odataId.kind = "string"
          /\ doc.odataId.value = ServicePath(doc.id.value)
      BY <2>1, <2>3 DEF InPlace, Plain
    <3>2. call' = CallFor("folder", "service", ServicePath(doc.id.value))
      BY <1>7, <3>1 DEF ProcessLogService
    <3>3. /\ call'.purpose = "service" /\ call'.path = ServicePath(logServiceId')
      BY <2>2, <3>2, CallFields
    <3> QED
      BY <2>2, <3>1, <3>3 DEF ServiceCreated
  <2> QED
    BY <2>2, <2>3 DEF ServiceThere
<1>8. CASE ProcessOtherTypes(doc)
  <2>1. logServiceId' = logServiceId /\ call'.purpose = "other"
    BY <1>8, CallFields DEF ProcessOtherTypes, storerVars
  <2> QED
    BY <1>3, <2>1
<1> QED
  BY <1>2, <1>4, <1>5, <1>6, <1>7, <1>8

LEMMA FaultyService ==
  ASSUME Counts, faults' = faults + 1, restarts' = restarts
  PROVE  ServiceThere'
<1>1. faults' # restarts'
  BY DEF Counts
<1> QED
  BY <1>1 DEF ServiceThere

LEMMA ServicePaths ==
  ASSUME logServiceId \in ServiceIds, Plain(logServiceId)
  PROVE  /\ ForeignPath(ServicePath(logServiceId))
         /\ ForeignPath(EntriesPath(ServicePath(logServiceId)))
         /\ IsValidPath(ServicePath(logServiceId))
         /\ IsValidPath(EntriesPath(ServicePath(logServiceId)))
BY ServiceFolders, EntriesPathFacts

LEMMA ServiceThereKept ==
  ASSUME Shape, Counts, ServiceThere, [Next]_vars
  PROVE  ServiceThere'
<1>1. CASE UNCHANGED vars
  BY <1>1 DEF vars, storerVars, disk, bounds, ServiceThere, ServiceCreated
<1>2. CASE PublishJson
  BY <1>2, PublishService
<1> SUFFICES ASSUME ~PublishJson, Next
             PROVE  ServiceThere'
  BY <1>1, <1>2
<1>3. \/ logServiceId' = ""
      \/ restarts' = restarts /\ faults' = faults + 1
      \/ UNCHANGED <<logServiceId, restarts, faults>>
  <2>1. RemoveOldest => \/ restarts' = restarts /\ faults' = faults + 1
                        \/ UNCHANGED <<logServiceId, restarts, faults>>
    BY DEF RemoveOldest, Fault, bounds, storerVars
  <2>2. CreateFolder => \/ restarts' = restarts /\ faults' = faults + 1
                        \/ UNCHANGED <<logServiceId, restarts, faults>>
    BY DEF CreateFolder, Fault, bounds, storerVars
  <2>3. WriteFile => \/ restarts' = restarts /\ faults' = faults + 1
                     \/ UNCHANGED <<logServiceId, restarts, faults>>
    BY DEF WriteFile, Fault, bounds, storerVars
  <2>4. CreateEntry => \/ restarts' = restarts /\ faults' = faults + 1
                       \/ UNCHANGED <<logServiceId, restarts, faults>>
    BY DEF CreateEntry, Fault, bounds
  <2>5. Restart => logServiceId' = ""
    BY DEF Restart
  <2> QED
    BY <2>1, <2>2, <2>3, <2>4, <2>5 DEF Next
<1> SUFFICES ASSUME Plain(logServiceId), logServiceId \in ServiceIds,
                    ServiceCreated, UNCHANGED faults, UNCHANGED logServiceId
             PROVE  ServiceCreated'
  <2>1. logServiceId # "" => logServiceId \in ServiceIds
    BY DEF Shape
  <2> QED
    BY <1>3, <2>1, FaultyService DEF ServiceThere
<1>4. faults' # faults + 1
  BY DEF Counts
<1>5. CASE RemoveOldest
  <2>1. /\ Removing /\ call' = NewEntry(documents)
        /\ files' = files \ Below(FolderAt(call.path))
    BY <1>4, <1>5, RemoveShape DEF RemoveOldest, Fault
  <2>2. /\ call.purpose = "entry" /\ call.path \in EntryPaths
        /\ call'.purpose = "entry"
    BY <2>1, CallFields DEF Removing, NewEntry
  <2>3. /\ FolderOf(logServiceId) \notin Below(FolderAt(call.path))
        /\ EntriesOf(logServiceId) \notin Below(FolderAt(call.path))
    BY <1>4, <2>2, ServicePaths, EntriesApart DEF Below, FolderOf, EntriesOf
  <2> QED
    BY <1>4, <2>1, <2>2, <2>3 DEF ServiceCreated
<1>6. CASE CreateFolder
  <2>1. /\ call.step = "folder" /\ files' = files /\ (Entering \/ Serving)
        /\ call = CallFor(call.step, call.purpose, call.path)
        /\ \/ call' = [call EXCEPT !.step = "write"]
           \/ ~IsValidPath(call.path) /\ Return("false")
    BY <1>4, <1>6, CallCases DEF CreateFolder, Fault, Shape, CallKnown
  <2>2. CASE call' = [call EXCEPT !.step = "write"]
    <3>1. call'.purpose = call.purpose /\ call'.path = call.path
      BY <2>1, <2>2, CallFields
    <3> QED
      BY <1>4, <2>1, <3>1 DEF ServiceCreated
  <2>3. CASE ~IsValidPath(call.path) /\ Return("false")
    <3>1. /\ call.path # ServicePath(logServiceId)
          /\ call.path # EntriesPath(ServicePath(logServiceId))
      BY <1>4, <2>3, ServicePaths
    <3>2. call'.purpose = "none"
      BY <2>3, ReturnFacts, IdleFields
    <3> QED
      BY <1>4, <2>1, <3>1, <3>2 DEF ServiceCreated
  <2> QED
    BY <2>1, <2>2, <2>3
<1>7. CASE WriteFile
  <2>1. files' = files \cup {FolderAt(call.path)}
    BY <1>4, <1>7 DEF WriteFile, Fault
  <2>2. CASE Entering /\ call' = CallFor("notify", "entry", call.path)
    <3>1. call.purpose = "entry" /\ call'.purpose = "entry"
      BY <2>2, CallFields DEF Entering
    <3> QED
      BY <1>4, <2>1, <3>1 DEF ServiceCreated
  <2>3. CASE /\ call.purpose = "service"
             /\ call' = CallFor("folder", "entries", EntriesPath(call.path))
    <3>1. call'.purpose = "entries" /\ call'.path = EntriesPath(call.path)
      BY <2>3, CallFields
    <3>2. call.path = ServicePath(logServiceId)
      BY <1>4, <2>3 DEF ServiceCreated
    <3> QED
      BY <2>1, <3>1, <3>2 DEF ServiceCreated, FolderOf
  <2>4. CASE call.purpose \in {"entries", "other"} /\ Return("true")
    <3>1. call'.purpose = "none"
      BY <2>4, ReturnFacts, IdleFields
    <3> QED
      BY <1>4, <2>1, <2>4, <3>1 DEF ServiceCreated, FolderOf, EntriesOf
  <2> QED
    BY <1>7, <2>2, <2>3, <2>4, Written
<1>8. CASE CreateEntry
  <2>1. call.purpose = "entry" /\ call'.purpose = "none" /\ files' = files
    BY <1>8, Stored, IdleFields DEF Entering
  <2> QED
    BY <1>4, <2>1 DEF ServiceCreated
<1>9. CASE Restart
  <2>1. faults' = faults + 1
    BY <1>9 DEF Restart
  <2> QED
    BY <1>4, <2>1
<1> QED
  BY <1>5, <1>6, <1>7, <1>8, <1>9 DEF Next

(* As long as nothing but starts of the daemon happens, an entry is added  *)
(* only to a service whose two files are there, if its documents name the  *)
(* place of its entries (ServicesSurviveRestarts): a start forgets the     *)
(* service, and no entry is accepted before the next.                      *)
THEOREM ServicesBeforeEntries ==
  ASSUME EntriesOnly, PlainServices
  PROVE  Spec => ServicesSurviveRestarts
<1>1. Init => ServiceThere
  BY DEF Init, ServiceThere
<1>2. Inv /\ Counts /\ ServiceThere /\ [Next]_vars => ServiceThere'
  BY ServiceThereKept DEF Inv, Bookkeeping
<1>3. Inv /\ Served /\ Counts /\ ServiceThere /\ [Next]_vars =>
        [faults' = restarts' =>
           \A p \in EntryFolders' \ EntryFolders :
             InPlace(p[Len(p) - 2]) => HasService(p)]_vars
  <2> SUFFICES ASSUME Inv, Served, Counts, ServiceThere, Next,
                      faults' = restarts', NEW p \in EntryFolders' \ EntryFolders,
                      InPlace(p[Len(p) - 2])
               PROVE  HasService(p)
    OBVIOUS
  <2>1. Shape
    BY DEF Inv, Bookkeeping
  <2>2. CreateFolder
    <3>1. ~(folders' \subseteq folders)
      BY DEF EntryFolders
    <3> QED
      BY <2>1, <3>1, Publishing, Removed
         DEF Next, WriteFile, CreateEntry, Restart, disk
  <2>3. /\ Entering /\ p = FolderAt(call.path)
        /\ UNCHANGED <<faults, restarts>>
    BY <2>1, <2>2, NewEntryFolders
  <2>4. /\ logServiceId \in ServiceIds /\ logServiceId # ""
        /\ call.path = EntryPath(logServiceId, Uuids[documents])
        /\ call.purpose = "entry" /\ call.step # "idle"
    BY <2>3 DEF Served, ServiceIds, Entering
  <2>5. Uuids[documents] \in Ids(MaxDocuments)
    BY <2>1, <2>4, Counted DEF Ids
  <2>6. /\ Front(p) = EntriesOf(logServiceId)
        /\ SubSeq(p, 1, Len(p) - 2) = FolderOf(logServiceId)
        /\ p[Len(p) - 2] = logServiceId
    <3>1. Plain(logServiceId)
      BY <2>4 DEF PlainServices
    <3>2. p = FolderAt(EntryPath(logServiceId, Uuids[documents]))
      BY <2>3, <2>4
    <3>3. /\ Front(p) = FolderAt(EntriesPath(ServicePath(logServiceId)))
          /\ SubSeq(p, 1, Len(p) - 2) = FolderAt(ServicePath(logServiceId))
          /\ p[Len(p) - 2] = logServiceId
      BY <2>4, <2>5, <3>1, <3>2, EntryInService
    <3> QED
      BY <3>3 DEF FolderOf, EntriesOf
  <2>7. /\ FolderOf(logServiceId) \in files /\ EntriesOf(logServiceId) \in files
    BY <2>3, <2>4, <2>6 DEF ServiceThere, ServiceCreated
  <2> QED
    BY <2>6, <2>7 DEF HasService
<1> QED
  BY <1>1, <1>2, <1>3, LeftoversCounted, BooksKept, PTL
     DEF Spec, ServicesSurviveRestarts
=============================================================================
