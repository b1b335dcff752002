----------------------------- MODULE MainProofs -----------------------------
(***************************************************************************)
(* Proofs about Main, for every tree, all arguments, options and failures: *)
(* no shallow directory without --force for an argument that exists; a     *)
(* flist file that is created whole, kept, and loaded as what was scanned; *)
(* and the options that the workers can rely on.                           *)
(***************************************************************************)
EXTENDS Main, SequenceTheorems, WellFoundedInduction, TLAPS

-----------------------------------------------------------------------------
(* Induction, for a set of numbers.                                        *)

LEMMA LeastNumber ==
  ASSUME NEW T, T \subseteq Nat, T # {}
  PROVE  \E x \in T : \A y \in T : x <= y
<1>1. IsWellFoundedOn(OpToRel(<, Nat), Nat)
  BY NatLessThanWellFounded
<1>2. PICK x \in T : \A y \in T : ~(<<y, x>> \in OpToRel(<, Nat))
  BY <1>1, WFMin
<1>3. \A y \in T : ~(y < x)
  BY <1>2 DEF OpToRel
<1> QED BY <1>3

LEMMA SetInduction ==
  ASSUME NEW T, 0 \in T, \A m \in Nat : m \in T => m + 1 \in T
  PROVE  Nat \subseteq T
<1> SUFFICES ASSUME Nat \ T # {} PROVE FALSE
  OBVIOUS
<1>1. PICK x \in Nat \ T : \A y \in Nat \ T : x <= y
  BY LeastNumber
<1>2. x - 1 \in Nat /\ x - 1 \notin Nat \ T
  BY <1>1
<1> QED BY <1>2

-----------------------------------------------------------------------------
(* The way of the file system.                                             *)

Name == STRING \cup {"."}
Path == Seq(Name)
CanonicalPath == {p \in Path : Canonical(p)}

LEMMA StringPath == Seq(STRING) \subseteq Path
BY SeqMonotonic DEF Path, Name

\* A name more on the way, that is the k-th, where the first m are followed.
Enter(d, x, k, m) == LET e == Lexical(d, x) IN IF k <= m THEN Follow(e) ELSE e

\* The first names of the way.
IsWay(at, p, m, last) ==
  at = [k \in 0 .. last |-> IF k = 0 THEN <<>> ELSE Enter(at[k - 1], p[k], k, m)]

LEMMA FirstNames ==
  ASSUME NEW p \in Path, NEW last \in 0 .. Len(p)
  PROVE  /\ SubSeq(p, 1, last) \in Path /\ Len(SubSeq(p, 1, last)) = last
         /\ \A i \in 1 .. last : SubSeq(p, 1, last)[i] = p[i]
         /\ \A k \in 1 .. last : SubSeq(SubSeq(p, 1, last), 1, k) = SubSeq(p, 1, k)
<1>1. ASSUME NEW m \in 0 .. Len(p)
      PROVE  /\ SubSeq(p, 1, m) \in Path /\ Len(SubSeq(p, 1, m)) = m
             /\ \A i \in 1 .. m : SubSeq(p, 1, m)[i] = p[i]
  BY DEF Path
<1>2. ASSUME NEW k \in 1 .. last
      PROVE  SubSeq(SubSeq(p, 1, last), 1, k) = SubSeq(p, 1, k)
  <2> DEFINE q == SubSeq(p, 1, last)
  <2>1. Len(p) \in Nat /\ k \in 0 .. Len(p)
    BY DEF Path
  <2>2. q \in Path /\ Len(q) = last /\ \A i \in 1 .. last : q[i] = p[i]
    BY <1>1
  <2>3. /\ SubSeq(p, 1, k) \in Path /\ Len(SubSeq(p, 1, k)) = k
        /\ \A i \in 1 .. k : SubSeq(p, 1, k)[i] = p[i]
    BY <1>1, <2>1
  <2> HIDE DEF q
  <2>4. /\ SubSeq(q, 1, k) \in Path /\ Len(SubSeq(q, 1, k)) = k
        /\ \A i \in 1 .. k : SubSeq(q, 1, k)[i] = q[i]
    BY <2>1, <2>2 DEF Path
  <2>5. \A i \in 1 .. k : SubSeq(q, 1, k)[i] = SubSeq(p, 1, k)[i]
    BY <2>2, <2>3, <2>4
  <2>6. SubSeq(q, 1, k) = SubSeq(p, 1, k)
    BY <2>3, <2>4, <2>5, SeqEqual DEF Path
  <2> QED BY <2>6 DEF q
<1> QED BY <1>1, <1>2

LEMMA FirstCanonical ==
  ASSUME NEW p \in CanonicalPath, NEW last \in 0 .. Len(p)
  PROVE  SubSeq(p, 1, last) \in CanonicalPath
<1>1. p \in Path /\ Len(p) \in Nat /\ \A k \in 1 .. Len(p) : p[k] \notin {".", ".."} /\ ~IsLink(SubSeq(p, 1, k))
  BY DEF CanonicalPath, Canonical, Path
<1> DEFINE q == SubSeq(p, 1, last)
<1>2. /\ q \in Path /\ Len(q) = last /\ \A i \in 1 .. last : q[i] = p[i]
      /\ \A k \in 1 .. last : SubSeq(q, 1, k) = SubSeq(p, 1, k)
  BY <1>1, FirstNames
<1> HIDE DEF q
<1>3. ASSUME NEW k \in 1 .. last PROVE q[k] \notin {".", ".."} /\ ~IsLink(SubSeq(q, 1, k))
  <2>1. k \in 1 .. Len(p) /\ q[k] = p[k] /\ SubSeq(q, 1, k) = SubSeq(p, 1, k)
    BY <1>1, <1>2
  <2> QED BY <1>1, <2>1
<1>4. q \in CanonicalPath
  BY <1>2, <1>3 DEF CanonicalPath, Canonical
<1> QED BY <1>4 DEF q

LEMMA LongerSequence ==
  ASSUME NEW S, NEW d \in Seq(S), NEW x \in S
  PROVE  /\ Append(d, x) \in Seq(S) /\ Len(Append(d, x)) = Len(d) + 1
         /\ \A i \in 1 .. Len(d) : Append(d, x)[i] = d[i]
         /\ Append(d, x)[Len(d) + 1] = x
OBVIOUS

\* A name more, in a directory that exists by its own name.
LEMMA LongerPath ==
  ASSUME NEW d \in Path, NEW x \in Name
  PROVE  /\ Append(d, x) \in Path /\ Len(Append(d, x)) = Len(d) + 1
         /\ Append(d, x)[Len(d) + 1] = x
         /\ \A i \in 1 .. Len(d) : Append(d, x)[i] = d[i]
         /\ \A k \in 1 .. Len(d) : SubSeq(Append(d, x), 1, k) = SubSeq(d, 1, k)
         /\ SubSeq(Append(d, x), 1, Len(d) + 1) = Append(d, x)
<1> DEFINE q == Append(d, x)
<1>1. /\ q \in Path /\ Len(q) = Len(d) + 1 /\ Len(d) \in Nat /\ q[Len(d) + 1] = x
      /\ \A i \in 1 .. Len(d) : q[i] = d[i]
  <2>1. Len(d) \in Nat
    BY DEF Path
  <2>2. /\ Append(d, x) \in Path /\ Len(Append(d, x)) = Len(d) + 1
        /\ \A i \in 1 .. Len(d) : Append(d, x)[i] = d[i]
        /\ Append(d, x)[Len(d) + 1] = x
    BY LongerSequence, Zenon DEF Path
  <2> QED BY <2>1, <2>2
<1> HIDE DEF q
<1>2. ASSUME NEW k \in 1 .. Len(d) PROVE SubSeq(q, 1, k) = SubSeq(d, 1, k)
  <2>1. k \in 0 .. Len(d) /\ k \in 0 .. Len(q)
    BY <1>1
  <2>2. /\ SubSeq(q, 1, k) \in Path /\ Len(SubSeq(q, 1, k)) = k
        /\ \A i \in 1 .. k : SubSeq(q, 1, k)[i] = q[i]
    BY <1>1, <2>1, FirstNames
  <2>3. /\ SubSeq(d, 1, k) \in Path /\ Len(SubSeq(d, 1, k)) = k
        /\ \A i \in 1 .. k : SubSeq(d, 1, k)[i] = d[i]
    BY <2>1, FirstNames
  <2>4. \A i \in 1 .. k : SubSeq(q, 1, k)[i] = SubSeq(d, 1, k)[i]
    BY <1>1, <2>2, <2>3
  <2> QED BY <2>2, <2>3, <2>4, SeqEqual DEF Path
<1>3. SubSeq(q, 1, Len(d) + 1) = q
  BY <1>1, SubSeqFull DEF Path
<1> QED BY <1>1, <1>2, <1>3 DEF q

\* A name more leads from a path to another one, and from a canonical path to a
\* canonical one if symlinks are followed.
LEMMA LexicalPath ==
  ASSUME NEW d \in Path, NEW x \in Name
  PROVE  Lexical(d, x) \in Path
<1>1. CASE x = ".."
  <2>1. Len(d) \in Nat
    BY DEF Path
  <2>2. CASE Len(d) > 0
    <3>1. Len(d) - 1 \in 0 .. Len(d)
      BY <2>1, <2>2
    <3>2. SubSeq(d, 1, Len(d) - 1) \in Path
      BY <3>1, FirstNames
    <3> QED BY <1>1, <3>2 DEF Lexical, Front
  <2>3. CASE Len(d) = 0
    <3>1. SubSeq(d, 1, Len(d) - 1) \in Path
      BY <2>3 DEF Path
    <3> QED BY <1>1, <3>1 DEF Lexical, Front
  <2> QED BY <2>1, <2>2, <2>3
<1>2. CASE x # ".."
  BY <1>2, LongerPath DEF Lexical
<1> QED BY <1>1, <1>2

LEMMA LinkTarget ==
  ASSUME NEW q, IsLink(q)
  PROVE  Tree[q].of \in CanonicalPath
<1>1. q \in DOMAIN Tree
  BY DEF IsLink
<1>2. Tree[q].of \in Seq(STRING) /\ Canonical(Tree[q].of)
  BY <1>1, MainAssumption
<1> QED BY <1>2, StringPath DEF CanonicalPath

LEMMA FollowCanonical ==
  ASSUME NEW d \in CanonicalPath, NEW x \in Name
  PROVE  Follow(Lexical(d, x)) \in CanonicalPath
<1>1. /\ d \in Path /\ Len(d) \in Nat
      /\ \A k \in 1 .. Len(d) : d[k] \notin {".", ".."} /\ ~IsLink(SubSeq(d, 1, k))
  BY DEF CanonicalPath, Canonical, Path
<1>2. CASE IsLink(Lexical(d, x))
  BY <1>2, LinkTarget DEF Follow
<1>3. CASE ~IsLink(Lexical(d, x)) /\ x = ".."
  <2>1. Follow(Lexical(d, x)) = SubSeq(d, 1, Len(d) - 1)
    BY <1>3 DEF Follow, Lexical, Front
  <2>2. CASE Len(d) > 0
    <3>1. Len(d) - 1 \in 0 .. Len(d)
      BY <1>1, <2>2
    <3> QED BY <2>1, <3>1, FirstCanonical
  <2>3. CASE Len(d) = 0
    <3>1. SubSeq(d, 1, Len(d) - 1) \in Path /\ Len(SubSeq(d, 1, Len(d) - 1)) = 0
      BY <1>1, <2>3 DEF Path
    <3> QED BY <2>1, <3>1 DEF CanonicalPath, Canonical
  <2> QED BY <1>1, <2>2, <2>3
<1>4. CASE ~IsLink(Lexical(d, x)) /\ x = "."
  BY <1>4 DEF Follow, Lexical
<1>5. CASE ~IsLink(Lexical(d, x)) /\ x \notin {".", ".."}
  <2> DEFINE r == Append(d, x)
  <2>1. Follow(Lexical(d, x)) = r /\ ~IsLink(r)
    BY <1>5 DEF Follow, Lexical
  <2>2. /\ r \in Path /\ Len(r) = Len(d) + 1 /\ r[Len(d) + 1] = x
        /\ \A i \in 1 .. Len(d) : r[i] = d[i]
        /\ \A k \in 1 .. Len(d) : SubSeq(r, 1, k) = SubSeq(d, 1, k)
        /\ SubSeq(r, 1, Len(d) + 1) = r
    BY <1>1, LongerPath
  <2> HIDE DEF r
  <2>3. ASSUME NEW k \in 1 .. Len(r) PROVE r[k] \notin {".", ".."} /\ ~IsLink(SubSeq(r, 1, k))
    <3>1. CASE k \in 1 .. Len(d)
      BY <1>1, <2>2, <3>1
    <3>2. CASE k = Len(d) + 1
      BY <1>5, <2>1, <2>2, <3>2
    <3> QED BY <1>1, <2>2, <3>1, <3>2
  <2> QED BY <2>1, <2>2, <2>3 DEF CanonicalPath, Canonical
<1> QED BY <1>2, <1>3, <1>4, <1>5

LEMMA EnterPath ==
  ASSUME NEW d \in Path, NEW x \in Name, NEW k, NEW m
  PROVE  Enter(d, x, k, m) \in Path
<1> DEFINE e == Lexical(d, x)
<1>1. e \in Path
  BY LexicalPath
<1>2. IsLink(e) => Tree[e].of \in Path
  BY LinkTarget DEF CanonicalPath
<1> HIDE DEF e
<1>3. Follow(e) \in Path
  BY <1>1, <1>2 DEF Follow
<1>4. Enter(d, x, k, m) = IF k <= m THEN Follow(e) ELSE e
  BY DEF Enter, e
<1> QED BY <1>1, <1>3, <1>4

LEMMA WayExists ==
  ASSUME NEW p \in Path, NEW m, NEW last \in 0 .. Len(p)
  PROVE  \E at : IsWay(at, p, m, last)
<1> DEFINE T == {j \in Nat : j <= Len(p) => \E at : IsWay(at, p, m, j)}
<1>1. 0 \in T
  <2> DEFINE at == [k \in 0 .. 0 |-> <<>>]
  <2>1. IsWay(at, p, m, 0)
    BY DEF IsWay
  <2> HIDE DEF at
  <2> QED BY <2>1
<1>2. ASSUME NEW j \in Nat, j \in T PROVE j + 1 \in T
  <2> SUFFICES ASSUME j + 1 <= Len(p) PROVE \E at : IsWay(at, p, m, j + 1)
    OBVIOUS
  <2>1. PICK f : IsWay(f, p, m, j)
    BY <1>2 DEF Path
  <2> DEFINE new == Enter(f[j], p[j + 1], j + 1, m)
             h == [k \in 0 .. j + 1 |-> IF k = j + 1 THEN new ELSE f[k]]
  <2>2. \A k \in 0 .. j + 1 :
          h[k] = IF k = 0 THEN <<>> ELSE Enter(h[k - 1], p[k], k, m)
    <3> TAKE k \in 0 .. j + 1
    <3>1. CASE k = j + 1
      <4>1. k - 1 = j /\ k # 0 /\ h[k] = new
        BY <3>1
      <4>2. h[j] = f[j]
        OBVIOUS
      <4> QED BY <3>1, <4>1, <4>2, Zenon
    <3>2. CASE k # j + 1
      <4>1. k \in 0 .. j /\ h[k] = f[k]
        BY <3>2
      <4>2. k # 0 => h[k - 1] = f[k - 1]
        BY <3>2
      <4>3. f[k] = IF k = 0 THEN <<>> ELSE Enter(f[k - 1], p[k], k, m)
        BY <2>1, <4>1 DEF IsWay
      <4> QED BY <4>1, <4>2, <4>3
    <3> QED BY <3>1, <3>2
  <2>3. h = [k \in 0 .. j + 1 |-> h[k]]
    OBVIOUS
  <2> HIDE DEF h
  <2>4. h = [k \in 0 .. j + 1 |-> IF k = 0 THEN <<>> ELSE Enter(h[k - 1], p[k], k, m)]
    BY <2>2, <2>3
  <2> QED BY <2>4 DEF IsWay
<1> HIDE DEF T
<1>3. last \in Nat /\ last \in T
  BY <1>1, <1>2, SetInduction DEF Path
<1> QED BY <1>3 DEF T

\* The way of Main is a way.
LEMMA WayIsWay ==
  ASSUME NEW p \in Path, NEW m
  PROVE  /\ IsWay(Way(p, m), p, m, Len(p))
         /\ Way(p, m)[0] = <<>>
         /\ \A k \in 0 .. Len(p) - 1 :
              Way(p, m)[k + 1] = Enter(Way(p, m)[k], p[k + 1], k + 1, m)
<1> DEFINE at[k \in 0 .. Len(p)] == IF k = 0 THEN <<>> ELSE Enter(at[k - 1], p[k], k, m)
<1>1. Len(p) \in Nat /\ Len(p) \in 0 .. Len(p)
  BY DEF Path
<1>2. \E f : f = [k \in 0 .. Len(p) |-> IF k = 0 THEN <<>> ELSE Enter(f[k - 1], p[k], k, m)]
  BY <1>1, WayExists DEF IsWay
<1>3. at = [k \in 0 .. Len(p) |-> IF k = 0 THEN <<>> ELSE Enter(at[k - 1], p[k], k, m)]
  BY <1>2
<1>4. Way(p, m) = at
  BY DEF Way, Enter
<1> HIDE DEF at
<1>5. \A k \in 0 .. Len(p) :
        at[k] = IF k = 0 THEN <<>> ELSE Enter(at[k - 1], p[k], k, m)
  BY <1>3
<1>6. at[0] = <<>>
  BY <1>1, <1>5
<1>7. ASSUME NEW k \in 0 .. Len(p) - 1 PROVE at[k + 1] = Enter(at[k], p[k + 1], k + 1, m)
  <2>1. k + 1 \in 0 .. Len(p) /\ k + 1 # 0 /\ (k + 1) - 1 = k
    BY <1>1
  <2> QED BY <1>5, <2>1
<1> QED BY <1>3, <1>4, <1>6, <1>7 DEF IsWay

LEMMA EmptyPath == <<>> \in CanonicalPath /\ Len(<<>>) = 0
<1>1. <<>> \in Path /\ Len(<<>>) = 0
  BY DEF Path
<1>2. Canonical(<<>>)
  BY <1>1 DEF Canonical
<1> QED BY <1>1, <1>2 DEF CanonicalPath

LEMMA WayPath ==
  ASSUME NEW p \in Path, NEW m
  PROVE  Way(p, m)[Len(p)] \in Path
<1> DEFINE at == Way(p, m)
           T == {j \in Nat : j <= Len(p) => at[j] \in Path}
<1>1. Len(p) \in Nat
  BY DEF Path
<1>2. at[0] = <<>> /\ \A k \in 0 .. Len(p) - 1 : at[k + 1] = Enter(at[k], p[k + 1], k + 1, m)
  BY WayIsWay
<1> HIDE DEF at
<1>3. 0 \in T
  BY <1>2, EmptyPath DEF CanonicalPath
<1>4. ASSUME NEW j \in Nat, j \in T PROVE j + 1 \in T
  <2> SUFFICES ASSUME j + 1 <= Len(p) PROVE at[j + 1] \in Path
    OBVIOUS
  <2>1. at[j] \in Path /\ p[j + 1] \in Name
    BY <1>4 DEF Path
  <2>2. at[j + 1] = Enter(at[j], p[j + 1], j + 1, m)
    BY <1>1, <1>2
  <2> QED BY <2>1, <2>2, EnterPath
<1> HIDE DEF T
<1>5. Len(p) \in T
  BY <1>1, <1>3, <1>4, SetInduction
<1> QED BY <1>1, <1>5 DEF T, at

LEMMA ResolveCanonical ==
  ASSUME NEW p \in Path
  PROVE  Resolve(p) \in CanonicalPath
<1> DEFINE at == Way(p, Len(p))
           T == {j \in Nat : j <= Len(p) => at[j] \in CanonicalPath}
<1>1. Len(p) \in Nat
  BY DEF Path
<1>2. /\ at[0] = <<>>
      /\ \A k \in 0 .. Len(p) - 1 : at[k + 1] = Enter(at[k], p[k + 1], k + 1, Len(p))
  BY WayIsWay
<1> HIDE DEF at
<1>3. 0 \in T
  BY <1>2, EmptyPath
<1>4. ASSUME NEW j \in Nat, j \in T PROVE j + 1 \in T
  <2> SUFFICES ASSUME j + 1 <= Len(p) PROVE at[j + 1] \in CanonicalPath
    OBVIOUS
  <2>1. at[j] \in CanonicalPath /\ p[j + 1] \in Name
    BY <1>4 DEF Path
  <2>2. at[j + 1] = Enter(at[j], p[j + 1], j + 1, Len(p))
    BY <1>1, <1>2
  <2>3. at[j + 1] = Follow(Lexical(at[j], p[j + 1]))
    BY <2>2 DEF Enter
  <2> QED BY <2>1, <2>3, FollowCanonical
<1> HIDE DEF T
<1>5. Len(p) \in T
  BY <1>1, <1>3, <1>4, SetInduction
<1>6. at[Len(p)] \in CanonicalPath
  BY <1>1, <1>5 DEF T
<1> QED BY <1>6 DEF at, Resolve

\* A canonical path is its own way.
LEMMA ResolveFixed ==
  ASSUME NEW p \in CanonicalPath
  PROVE  Resolve(p) = p
<1>1. /\ p \in Path /\ Len(p) \in Nat
      /\ \A k \in 1 .. Len(p) : p[k] \notin {".", ".."} /\ ~IsLink(SubSeq(p, 1, k))
  BY DEF CanonicalPath, Canonical, Path
<1> DEFINE at == Way(p, Len(p))
           T == {j \in Nat : j <= Len(p) => at[j] = SubSeq(p, 1, j)}
<1>2. /\ at[0] = <<>>
      /\ \A k \in 0 .. Len(p) - 1 : at[k + 1] = Enter(at[k], p[k + 1], k + 1, Len(p))
  BY <1>1, WayIsWay
<1> HIDE DEF at
<1>3. 0 \in T
  <2>1. SubSeq(p, 1, 0) = <<>>
    BY <1>1 DEF Path
  <2> QED BY <1>2, <2>1
<1>4. ASSUME NEW j \in Nat, j \in T PROVE j + 1 \in T
  <2> SUFFICES ASSUME j + 1 <= Len(p) PROVE at[j + 1] = SubSeq(p, 1, j + 1)
    OBVIOUS
  <2> DEFINE d == SubSeq(p, 1, j)
  <2>1. j \in 0 .. Len(p) /\ j + 1 \in 0 .. Len(p) /\ j + 1 \in 1 .. Len(p) /\ j \in 0 .. Len(p) - 1
    BY <1>1
  <2>2. at[j + 1] = Follow(Lexical(d, p[j + 1]))
    <3>1. at[j] = d
      BY <1>4, <2>1
    <3>2. at[j + 1] = Enter(at[j], p[j + 1], j + 1, Len(p))
      BY <1>2, <2>1
    <3> QED BY <3>1, <3>2 DEF Enter
  <2>3. d \in Path /\ Len(d) = j /\ \A i \in 1 .. j : d[i] = p[i]
    BY <1>1, <2>1, FirstNames
  <2>4. p[j + 1] \in Name
    BY <1>1, <2>1 DEF Path
  <2> HIDE DEF d
  <2>5. Append(d, p[j + 1]) = SubSeq(p, 1, j + 1)
    <3> DEFINE q == Append(d, p[j + 1])
               r == SubSeq(p, 1, j + 1)
    <3>1. /\ q \in Path /\ Len(q) = j + 1 /\ q[j + 1] = p[j + 1]
          /\ \A i \in 1 .. j : q[i] = d[i]
      BY <2>3, <2>4, LongerPath
    <3>2. /\ r \in Path /\ Len(r) = j + 1 /\ \A i \in 1 .. j + 1 : r[i] = p[i]
      BY <1>1, <2>1, FirstNames
    <3> HIDE DEF q, r
    <3>3. \A i \in 1 .. j + 1 : q[i] = r[i]
      BY <2>3, <3>1, <3>2
    <3>4. q = r
      BY <3>1, <3>2, <3>3, SeqEqual DEF Path
    <3> QED BY <3>4 DEF q, r
  <2>6. Follow(Lexical(d, p[j + 1])) = Append(d, p[j + 1])
    BY <1>1, <2>1, <2>5 DEF Follow, Lexical
  <2> QED BY <2>2, <2>5, <2>6
<1> HIDE DEF T
<1>5. Len(p) \in T
  BY <1>1, <1>3, <1>4, SetInduction
<1>6. at[Len(p)] = SubSeq(p, 1, Len(p))
  BY <1>1, <1>5 DEF T
<1>7. SubSeq(p, 1, Len(p)) = p
  BY <1>1, SubSeqFull DEF Path
<1> QED BY <1>6, <1>7 DEF Resolve, at

\* What stat finds at a canonical path is what the tree has there.
LEMMA DirectoryAt ==
  ASSUME NEW p \in CanonicalPath, p # <<>>, IsDirectory(p)
  PROVE  IsDir(Tree, p)
<1>1. p \in Path /\ Len(p) \in Nat \ {0} /\ \A k \in 1 .. Len(p) : p[k] \notin {".", ".."}
  BY DEF CanonicalPath, Canonical, Path
<1>2. Last(p) = p[Len(p)] /\ Last(p) \notin {".", ".."} /\ Last(p) \in Name
  BY <1>1 DEF Last, Path
<1>3. Front(p) \in CanonicalPath
  <2>1. Len(p) - 1 \in 0 .. Len(p)
    BY <1>1
  <2> QED BY <2>1, FirstCanonical DEF Front
<1>4. Append(Front(p), Last(p)) = p
  <2> DEFINE d == Front(p)
  <2>1. Len(p) - 1 \in 0 .. Len(p)
    BY <1>1
  <2>2. d \in Path /\ Len(d) = Len(p) - 1 /\ \A i \in 1 .. Len(p) - 1 : d[i] = p[i]
    BY <1>1, <2>1, FirstNames DEF Front
  <2> HIDE DEF d
  <2> DEFINE q == Append(d, Last(p))
  <2>3. q \in Path /\ Len(q) = Len(p) /\ q[Len(p)] = Last(p) /\ \A i \in 1 .. Len(p) - 1 : q[i] = d[i]
    <3>1. Len(d) + 1 = Len(p)
      BY <1>1, <2>2
    <3>2. /\ Append(d, Last(p)) \in Path /\ Len(Append(d, Last(p))) = Len(d) + 1
          /\ Append(d, Last(p))[Len(d) + 1] = Last(p)
          /\ \A i \in 1 .. Len(d) : Append(d, Last(p))[i] = d[i]
      BY <1>2, <2>2, LongerPath
    <3> QED BY <2>2, <3>1, <3>2
  <2> HIDE DEF q
  <2>4. \A i \in 1 .. Len(p) : q[i] = p[i]
    BY <1>1, <1>2, <2>2, <2>3
  <2>5. q = p
    BY <1>1, <2>3, <2>4, SeqEqual DEF Path
  <2> QED BY <2>5 DEF d, q
<1>5. Resolve(Front(p)) = Front(p)
  BY <1>3, ResolveFixed
<1>6. Dir(Lexical(Front(p), Last(p)))
  BY <1>5 DEF IsDirectory
<1>7. Lexical(Front(p), Last(p)) = p
  BY <1>2, <1>4 DEF Lexical
<1> QED BY <1>6, <1>7 DEF Dir

-----------------------------------------------------------------------------
(* get_abspath.                                                            *)

\* A name more of a relative path.
NextNormal(d, x) ==
  IF x = ".." /\ (d = <<>> \/ Last(d) = "..") THEN Append(d, "..") ELSE Lexical(d, x)

IsNormal(at, p, last) ==
  at = [k \in 0 .. last |-> IF k = 0 THEN <<>> ELSE NextNormal(at[k - 1], p[k])]

LEMMA NormalExists ==
  ASSUME NEW p \in Path, NEW last \in 0 .. Len(p)
  PROVE  \E at : IsNormal(at, p, last)
<1> DEFINE T == {j \in Nat : j <= Len(p) => \E at : IsNormal(at, p, j)}
<1>1. 0 \in T
  <2> DEFINE at == [k \in 0 .. 0 |-> <<>>]
  <2>1. IsNormal(at, p, 0)
    BY DEF IsNormal
  <2> HIDE DEF at
  <2> QED BY <2>1
<1>2. ASSUME NEW j \in Nat, j \in T PROVE j + 1 \in T
  <2> SUFFICES ASSUME j + 1 <= Len(p) PROVE \E at : IsNormal(at, p, j + 1)
    OBVIOUS
  <2>1. PICK f : IsNormal(f, p, j)
    BY <1>2 DEF Path
  <2> DEFINE new == NextNormal(f[j], p[j + 1])
             h == [k \in 0 .. j + 1 |-> IF k = j + 1 THEN new ELSE f[k]]
  <2>2. \A k \in 0 .. j + 1 : h[k] = IF k = 0 THEN <<>> ELSE NextNormal(h[k - 1], p[k])
    <3> TAKE k \in 0 .. j + 1
    <3>1. CASE k = j + 1
      <4>1. k - 1 = j /\ k # 0 /\ h[k] = new
        BY <3>1
      <4>2. h[j] = f[j]
        OBVIOUS
      <4> QED BY <3>1, <4>1, <4>2, Zenon
    <3>2. CASE k # j + 1
      <4>1. k \in 0 .. j /\ h[k] = f[k]
        BY <3>2
      <4>2. k # 0 => h[k - 1] = f[k - 1]
        BY <3>2
      <4>3. f[k] = IF k = 0 THEN <<>> ELSE NextNormal(f[k - 1], p[k])
        BY <2>1, <4>1 DEF IsNormal
      <4> QED BY <4>1, <4>2, <4>3
    <3> QED BY <3>1, <3>2
  <2>3. h = [k \in 0 .. j + 1 |-> h[k]]
    OBVIOUS
  <2> HIDE DEF h
  <2>4. h = [k \in 0 .. j + 1 |-> IF k = 0 THEN <<>> ELSE NextNormal(h[k - 1], p[k])]
    BY <2>2, <2>3
  <2> QED BY <2>4 DEF IsNormal
<1> HIDE DEF T
<1>3. last \in Nat /\ last \in T
  BY <1>1, <1>2, SetInduction DEF Path
<1> QED BY <1>3 DEF T

LEMMA NormalPath ==
  ASSUME NEW p \in Path
  PROVE  Normal(p) \in Path
<1> DEFINE at[k \in 0 .. Len(p)] == IF k = 0 THEN <<>> ELSE NextNormal(at[k - 1], p[k])
           T == {j \in Nat : j <= Len(p) => at[j] \in Path}
<1>1. Len(p) \in Nat /\ Len(p) \in 0 .. Len(p)
  BY DEF Path
<1>2. \E f : f = [k \in 0 .. Len(p) |-> IF k = 0 THEN <<>> ELSE NextNormal(f[k - 1], p[k])]
  BY <1>1, NormalExists DEF IsNormal
<1>3. at = [k \in 0 .. Len(p) |-> IF k = 0 THEN <<>> ELSE NextNormal(at[k - 1], p[k])]
  BY <1>2
<1>4. Normal(p) = IF at[Len(p)] = <<>> THEN <<".">> ELSE at[Len(p)]
  BY DEF Normal, NextNormal
<1> HIDE DEF at
<1>5. \A k \in 0 .. Len(p) : at[k] = IF k = 0 THEN <<>> ELSE NextNormal(at[k - 1], p[k])
  BY <1>3
<1>6. 0 \in T
  BY <1>1, <1>5, EmptyPath DEF CanonicalPath
<1>7. ASSUME NEW j \in Nat, j \in T PROVE j + 1 \in T
  <2> SUFFICES ASSUME j + 1 <= Len(p) PROVE at[j + 1] \in Path
    OBVIOUS
  <2>1. at[j] \in Path /\ p[j + 1] \in Name
    BY <1>7 DEF Path
  <2>2. at[j + 1] = NextNormal(at[j], p[j + 1])
    <3>1. j + 1 \in 0 .. Len(p) /\ j + 1 # 0 /\ (j + 1) - 1 = j
      BY <1>1
    <3> QED BY <1>5, <3>1
  <2>3. Lexical(at[j], p[j + 1]) \in Path /\ Append(at[j], p[j + 1]) \in Path
    BY <2>1, LexicalPath, LongerPath
  <2> QED BY <2>2, <2>3 DEF NextNormal
<1> HIDE DEF T
<1>8. Len(p) \in T
  BY <1>1, <1>6, <1>7, SetInduction
<1>9. at[Len(p)] \in Path /\ <<".">> \in Path
  BY <1>1, <1>8 DEF T, Path, Name
<1> QED BY <1>4, <1>9

LEMMA AbsPathPath ==
  ASSUME NEW raw \in AllArgs
  PROVE  raw.path \in Path /\ GetAbsPath(raw) \in Path
<1>1. raw.path \in Path /\ Cwd \in Path
  BY MainAssumption, StringPath DEF AllArgs
<1>2. Names(raw) \in Path /\ Cwd \o Normal(raw.path) \in Path
  BY <1>1, NormalPath DEF Names, Path
<1>3. Way(Names(raw), Existing(Names(raw)))[Len(Names(raw))] \in Path
  BY <1>2, WayPath
<1> QED BY <1>1, <1>2, <1>3 DEF GetAbsPath

\* A path of which all names exist.
LEMMA AllExist ==
  ASSUME NEW p \in Path, Found(p)
  PROVE  Existing(p) = Len(p)
<1> DEFINE S == {k \in 0 .. Len(p) : Found(SubSeq(p, 1, k))}
<1>1. Len(p) \in Nat /\ SubSeq(p, 1, Len(p)) = p
  BY SubSeqFull DEF Path
<1>2. Len(p) \in S /\ \A k \in S : Len(p) >= k
  <2>1. Found(SubSeq(p, 1, Len(p)))
    BY <1>1, Zenon
  <2>2. Len(p) \in 0 .. Len(p) /\ \A k \in 0 .. Len(p) : Len(p) >= k
    BY <1>1
  <2> QED BY <2>1, <2>2
<1>3. S \subseteq Nat
  BY <1>1
<1> HIDE DEF S
<1>4. ASSUME NEW x \in S, \A y \in S : x >= y PROVE x = Len(p)
  <2>1. x >= Len(p) /\ Len(p) >= x /\ x \in Nat
    BY <1>2, <1>3, <1>4
  <2>2. Len(p) \in Nat /\ \A a, b \in Nat : a >= b /\ b >= a => a = b
    BY <1>1
  <2> QED BY <2>1, <2>2, Zenon
<1>5. Max(S) = Len(p)
  BY <1>2, <1>4 DEF Max
<1> QED BY <1>5 DEF Existing, S

\* An argument that exists is what the file system gets to.
LEMMA ThereResolved ==
  ASSUME NEW raw, raw.path \in Path, ~Refused(raw), IsThere(raw)
  PROVE  GetAbsPath(raw) = Resolve(Names(raw)) /\ GetAbsPath(raw) \in CanonicalPath
<1>1. Cwd \in Path
  BY MainAssumption, StringPath
<1>2. raw.relative => Len(raw.path) > 0
  <2>1. raw.relative => raw.path # <<>>
    BY DEF Refused
  <2> QED BY <2>1 DEF Path
<1>3. Names(raw) \in Path /\ (raw.relative => Len(Names(raw)) = Len(Cwd) + Len(raw.path))
  <2>1. CASE raw.relative
    <3>1. Names(raw) = Cwd \o raw.path
      BY <2>1 DEF Names
    <3>2. Cwd \o raw.path \in Path /\ Len(Cwd \o raw.path) = Len(Cwd) + Len(raw.path)
      BY <1>1 DEF Path
    <3> QED BY <3>1, <3>2
  <2>2. CASE ~raw.relative
    <3>1. Names(raw) = <<>> \o raw.path
      BY <2>2 DEF Names
    <3>2. <<>> \o raw.path \in Path
      BY DEF Path
    <3> QED BY <2>2, <3>1, <3>2
  <2> QED BY <2>1, <2>2
<1>4. Existing(Names(raw)) = Len(Names(raw))
  BY <1>3, AllExist DEF IsThere
<1>5. ~(raw.relative /\ Existing(Names(raw)) <= Len(Cwd))
  <2>1. Len(Cwd) \in Nat /\ Len(raw.path) \in Nat
    BY <1>1 DEF Path
  <2> QED BY <1>2, <1>3, <1>4, <2>1
<1>6. GetAbsPath(raw) = Way(Names(raw), Existing(Names(raw)))[Len(Names(raw))]
  BY <1>5 DEF GetAbsPath
<1>7. GetAbsPath(raw) = Resolve(Names(raw))
  BY <1>4, <1>6 DEF Resolve
<1> QED BY <1>3, <1>7, ResolveCanonical

-----------------------------------------------------------------------------
(* The options.                                                            *)

\* What the conversions let pass.
InRange(o) ==
  /\ o = [name \in OptionNames |-> o[name]]
  /\ \A name \in Threads : o[name] \in Nat
  /\ \A name \in Times : o[name] \in Long
  /\ \A name \in BufferSizes : o[name] \in 0 .. MaxBufferSize
  /\ \A name \in Sizes : o[name] \in -1 .. MaxBufferSize
  /\ o["num_repeat"] \in Long /\ (o["num_repeat"] = -1 \/ o["num_repeat"] > 0)
  /\ o["num_write_paths"] \in -1 .. LongMax
  /\ o["write_paths_type"] # {}
  /\ o["path_iter"] \in Iters

Argument == [num : BOOLEAN, n : Int, s : Seq(STRING)]

LEMMA Bounds ==
  /\ LongMax \in Nat /\ MaxBufferSize \in Nat /\ MaxBufferSize <= LongMax
  /\ Minute \in Nat /\ Words \in Nat \ {0} /\ Words = 2 * LongMax + 2
BY OptionsAssumption DEF Words

LEMMA DefaultInRange == InRange(Default)
<1>1. Default = [name \in OptionNames |-> Default[name]]
  BY DEF Default
<1>2. /\ \A name \in Times : Default[name] = 0
      /\ \A name \in Sizes : Default[name] = -1
      /\ \A name \in BufferSizes : Default[name] = MaxBufferSize \div 2
  BY DEF Default, OptionNames, Flags, Times, Sizes, BufferSizes
<1>3. /\ Default["num_set"] = 1 /\ Default["num_reader"] = 0 /\ Default["num_writer"] = 0
      /\ Default["num_repeat"] = -1 /\ Default["num_write_paths"] = MaxBufferSize
      /\ Default["write_paths_type"] = {"dir", "reg"}
      /\ Default["path_iter"] = <<"ordered">>
  BY DEF Default, OptionNames, Flags, Times, Sizes, BufferSizes, Threads
<1>4. MaxBufferSize \div 2 \in 0 .. MaxBufferSize
  BY Bounds
<1>5. /\ \A name \in Threads : Default[name] \in Nat
      /\ \A name \in Times : Default[name] \in Long
      /\ \A name \in BufferSizes : Default[name] \in 0 .. MaxBufferSize
      /\ \A name \in Sizes : Default[name] \in -1 .. MaxBufferSize
  BY <1>2, <1>3, <1>4, Bounds DEF Threads, Long
<1>6. /\ Default["num_repeat"] \in Long /\ Default["num_repeat"] = -1
      /\ Default["num_write_paths"] \in -1 .. LongMax
      /\ Default["write_paths_type"] # {} /\ Default["path_iter"] \in Iters
  BY <1>3, Bounds DEF Long, Iters
<1> QED BY <1>1, <1>5, <1>6 DEF InRange

LEMMA ValueInRange ==
  ASSUME NEW o, InRange(o), NEW name, NEW a \in Argument, Accepts(name, a)
  PROVE  InRange([o EXCEPT ![name] = Value(name, a)])
<1> DEFINE v == Value(name, a)
           p == [o EXCEPT ![name] = v]
<1>1. a.n \in Int /\ a.s \in Seq(STRING)
  BY DEF Argument
<1>2. name \in OptionNames
  BY DEF Accepts, OptionNames
<1>3. o = [m \in OptionNames |-> o[m]]
  BY DEF InRange
<1>4. /\ p = [m \in OptionNames |-> p[m]] /\ p[name] = v
      /\ \A m \in OptionNames : m # name => p[m] = o[m]
  BY <1>2, <1>3
<1>5. name \in Threads => v \in Nat
  <2> SUFFICES ASSUME name \in Threads PROVE v \in Nat
    OBVIOUS
  <2>1. v = Ulong(a)
    BY DEF Value, Threads, Flags, BufferSizes, Times, Sizes
  <2> QED BY <1>1, <2>1, Bounds DEF Ulong
<1>6. name \in Times => v \in Long
  <2> SUFFICES ASSUME name \in Times PROVE v \in Long
    OBVIOUS
  <2>1. v = a.n
    BY DEF Value, Threads, Flags, BufferSizes, Times, Sizes
  <2>2. IsLong(a)
    BY DEF Accepts, Threads, Flags, BufferSizes, Times, Sizes
  <2> QED BY <2>1, <2>2 DEF IsLong
<1>7. name \in BufferSizes => v \in 0 .. MaxBufferSize
  <2> SUFFICES ASSUME name \in BufferSizes PROVE v \in 0 .. MaxBufferSize
    OBVIOUS
  <2>1. v = Ulong(a)
    BY DEF Value, Threads, Flags, BufferSizes, Times, Sizes
  <2>2. Ulong(a) <= MaxBufferSize
    BY DEF Accepts, Threads, Flags, BufferSizes, Times, Sizes
  <2>3. Ulong(a) \in Nat
    BY <1>1, Bounds DEF Ulong
  <2> QED BY <2>1, <2>2, <2>3, Bounds
<1>8. name \in Sizes => v \in -1 .. MaxBufferSize
  <2> SUFFICES ASSUME name \in Sizes PROVE v \in -1 .. MaxBufferSize
    OBVIOUS
  <2>1. v = AtLeast(-1, a.n)
    BY DEF Value, Threads, Flags, BufferSizes, Times, Sizes
  <2>2. a.n <= MaxBufferSize
    BY DEF Accepts, Threads, Flags, BufferSizes, Times, Sizes
  <2> QED BY <1>1, <2>1, <2>2, Bounds DEF AtLeast
<1>9. name = "num_repeat" => v \in Long /\ (v = -1 \/ v > 0)
  <2> SUFFICES ASSUME name = "num_repeat" PROVE v \in Long /\ (v = -1 \/ v > 0)
    OBVIOUS
  <2>1. v = IF a.n = 0 THEN -1 ELSE AtLeast(-1, a.n)
    BY DEF Value, Threads, Flags, BufferSizes, Times, Sizes
  <2>2. a.n \in Long
    BY DEF Accepts, Threads, Flags, BufferSizes, Times, Sizes, IsLong
  <2> QED BY <1>1, <2>1, <2>2, Bounds DEF AtLeast, Long
<1>10. name = "num_write_paths" => v \in -1 .. LongMax
  <2> SUFFICES ASSUME name = "num_write_paths" PROVE v \in -1 .. LongMax
    OBVIOUS
  <2>1. v = AtLeast(-1, a.n)
    BY DEF Value, Threads, Flags, BufferSizes, Times, Sizes
  <2>2. a.n \in Long
    BY DEF Accepts, Threads, Flags, BufferSizes, Times, Sizes, IsLong
  <2> QED BY <1>1, <2>1, <2>2, Bounds DEF AtLeast, Long
<1>11. name = "write_paths_type" => v # {}
  <2> SUFFICES ASSUME name = "write_paths_type" PROVE v # {}
    OBVIOUS
  <2>1. v = {TypeOf[x] : x \in ToSet(a.s)}
    BY DEF Value, Threads, Flags, BufferSizes, Times, Sizes
  <2>2. a.s # <<>>
    BY DEF Accepts, Threads, Flags, BufferSizes, Times, Sizes
  <2>3. a.s[1] \in ToSet(a.s)
    BY <1>1, <2>2 DEF ToSet
  <2> QED BY <2>1, <2>3
<1>12. name = "path_iter" => v \in Iters
  <2> SUFFICES ASSUME name = "path_iter" PROVE v \in Iters
    OBVIOUS
  <2>1. v = a.s
    BY DEF Value, Threads, Flags, BufferSizes, Times, Sizes
  <2>2. a.s \in Iters
    BY DEF Accepts, Threads, Flags, BufferSizes, Times, Sizes
  <2> QED BY <2>1, <2>2
<1> HIDE DEF v, p
<1>13. /\ \A m \in Threads : p[m] \in Nat
       /\ \A m \in Times : p[m] \in Long
       /\ \A m \in BufferSizes : p[m] \in 0 .. MaxBufferSize
       /\ \A m \in Sizes : p[m] \in -1 .. MaxBufferSize
  BY <1>4, <1>5, <1>6, <1>7, <1>8 DEF InRange, OptionNames
<1>14. /\ p["num_repeat"] \in Long /\ (p["num_repeat"] = -1 \/ p["num_repeat"] > 0)
       /\ p["num_write_paths"] \in -1 .. LongMax
       /\ p["write_paths_type"] # {} /\ p["path_iter"] \in Iters
  BY <1>4, <1>9, <1>10, <1>11, <1>12 DEF InRange, OptionNames
<1>15. InRange(p)
  BY <1>4, <1>13, <1>14 DEF InRange
<1> QED BY <1>15 DEF p, v

\* After the adjustments the minutes are in the seconds, and no flist file is walked.
IsAdjusted(o) ==
  /\ o["time_minute"] = 0 /\ o["monitor_interval_minute"] = 0
  /\ o["flist_file"] # <<>> => o["path_iter"] # <<"walk">>

LEMMA AdjustedInRange ==
  ASSUME NEW o, InRange(o)
  PROVE  InRange(Adjusted(o)) /\ IsAdjusted(Adjusted(o))
<1> DEFINE p == Adjusted(o)
<1>1. o = [m \in OptionNames |-> o[m]]
  BY DEF InRange
<1>2. \A m \in Times : o[m] \in Int
  BY Bounds DEF InRange, Long
<1>3. ASSUME NEW v \in Int PROVE Wrapped(v) \in Long
  <2>1. (v + LongMax + 1) % Words \in 0 .. Words - 1
    BY Bounds
  <2> QED BY <2>1, Bounds DEF Wrapped, Long
<1>4. /\ p = [m \in OptionNames |-> p[m]]
      /\ p["time_second"] = Wrapped(o["time_second"] + o["time_minute"] * Minute)
      /\ p["time_minute"] = 0
      /\ p["monitor_interval_second"] =
           Wrapped(o["monitor_interval_second"] + o["monitor_interval_minute"] * Minute)
      /\ p["monitor_interval_minute"] = 0
      /\ p["path_iter"] = NotWalked(o)
      /\ \A m \in OptionNames \ (Times \cup {"path_iter"}) : p[m] = o[m]
  BY <1>1 DEF Adjusted, OptionNames, Times
<1>5. /\ o["time_second"] + o["time_minute"] * Minute \in Int
      /\ o["monitor_interval_second"] + o["monitor_interval_minute"] * Minute \in Int
  BY <1>2, Bounds DEF Times
<1>6. \A m \in Times : p[m] \in Long
  BY <1>3, <1>4, <1>5, Bounds DEF Times, Long
<1>7. p["path_iter"] \in Iters /\ (o["flist_file"] # <<>> => p["path_iter"] # <<"walk">>)
  BY <1>4 DEF NotWalked, Iters, InRange
<1>8. /\ \A m \in Threads \cup BufferSizes \cup Sizes : p[m] = o[m]
      /\ \A m \in {"num_repeat", "num_write_paths", "write_paths_type", "flist_file"} :
           p[m] = o[m]
  BY <1>4 DEF OptionNames, Times, Threads, BufferSizes, Sizes
<1> HIDE DEF p
<1>9. InRange(p) /\ IsAdjusted(p)
  BY <1>4, <1>6, <1>7, <1>8 DEF InRange, IsAdjusted
<1> QED BY <1>9 DEF p

-----------------------------------------------------------------------------
(* The inductive invariant.                                                *)

\* The arguments that were taken.
InputOK ==
  /\ pc = "getopt" => args = <<>>
  /\ args \in Seq(Accepted)
  /\ input = [i \in 1 .. Len(args) |-> AbsPath[args[i]]]
  /\ \A i \in DOMAIN args : opt.force \/ Len(AbsPath[args[i]]) >= 3

OptOK ==
  /\ plan \in Seq(DOMAIN Given) \ {<<>>}
  /\ InRange(opt)
  /\ pc \notin {"getopt"} \cup Ended => IsAdjusted(opt)

Creating == {"create", "remove", "scan", "open", "write"}
Dispatching == {"dispatch", "setup_flist", "workers"}

\* What is known of the mode at each place.
ModeOK ==
  /\ pc \in Creating => opt.flist_file_create
  /\ pc \in {"clean"} \cup Dispatching => ~opt.flist_file_create
  /\ pc \in Dispatching => input # <<>>

\* The creation of a flist file, from the test to the last line.
CreateOK ==
  /\ pc = "remove" => opt.force /\ file.kind = "reg"
  /\ pc \in {"scan", "open"} => file.kind = "none"
  /\ pc = "open" => todo = Wanted(Tree)
  /\ pc = "write" => /\ file.kind = "reg" /\ made = NotMade
                     /\ file.lines \cup todo = Wanted(Tree)

\* All lines for such arguments.
ListOf(m) == UNION {LinesOf(p) : p \in ScanAll(Tree, m.input, m.ignore_dot)}

\* A file that was completed stays so until the next one is begun.
MadeOK ==
  /\ file = [kind |-> file.kind, lines |-> file.lines]
  /\ made.input # <<>> => file.kind = "reg" /\ file.lines = ListOf(made)

\* What setup_flist gives to the workers.
ListsOK ==
  /\ pc \in {"getopt", "args"} => fls = <<>>
  /\ IF opt.path_iter = <<"walk">> THEN pc \in Dispatching => fls = <<>>
     ELSE pc = "workers" => /\ Len(fls) = Len(input) /\ {} \notin ToSet(fls)
                            /\ opt.flist_file # <<>> =>
                                 /\ ~LoadFails(file.lines, input)
                                 /\ fls = LoadFlist(file.lines, input)

MainInv ==
  InputOK /\ OptOK /\ ModeOK /\ CreateOK /\ CreatedMeansComplete /\ MadeOK /\ ListsOK

LEMMA InitMain == Init => MainInv
<1> SUFFICES ASSUME Init PROVE MainInv
  OBVIOUS
<1>1. /\ plan \in Plans /\ pc = "getopt" /\ opt = Default /\ input = <<>> /\ args = <<>>
      /\ fls = <<>> /\ made = NotMade /\ file \in [kind : FlistKind, lines : {{}}]
  BY DEF Init
<1>2. InputOK
  BY <1>1 DEF InputOK, ToSet
<1>3. OptOK
  BY <1>1, DefaultInRange, MainAssumption DEF OptOK
<1>4. ModeOK /\ CreateOK /\ CreatedMeansComplete /\ MadeOK
  BY <1>1 DEF ModeOK, CreateOK, CreatedMeansComplete, MadeOK, NotMade, Creating, Dispatching
<1>5. ListsOK
  BY <1>1 DEF ListsOK, Dispatching
<1> QED BY <1>2, <1>3, <1>4, <1>5 DEF MainInv

\* The arguments that were taken, as paths.
LEMMA InputPaths ==
  ASSUME InputOK
  PROVE  /\ input \in Seq(Path) /\ Len(input) = Len(args) /\ DOMAIN input = DOMAIN args
         /\ \A i \in DOMAIN input : args[i] \in Accepted /\ input[i] = GetAbsPath(args[i])
<1>1. DOMAIN args = 1 .. Len(args) /\ Len(args) \in Nat /\ \A i \in DOMAIN args : args[i] \in Accepted
  BY DEF InputOK
<1>2. Accepted \subseteq AllArgs
  BY DEF Accepted
<1>3. \A i \in 1 .. Len(args) : AbsPath[args[i]] = GetAbsPath(args[i]) /\ AbsPath[args[i]] \in Path
  BY <1>1, <1>2, AbsPathPath DEF AbsPath
<1>4. input = [i \in 1 .. Len(args) |-> AbsPath[args[i]]]
  BY DEF InputOK
<1>5. input \in Seq(Path) /\ Len(input) = Len(args)
  BY <1>1, <1>3, <1>4
<1> QED BY <1>1, <1>3, <1>4, <1>5

LEMMA NoInput ==
  ASSUME InputOK, args = <<>>
  PROVE  input = <<>>
BY DEF InputOK

\* Main goes on, and changes nothing else.
LEMMA GotoInv ==
  ASSUME MainInv, NEW where, Goto(where),
         where \in {"exit0", "exit1", "abort", "killed", "create", "remove", "scan", "clean",
                    "dispatch", "setup_flist"},
         where \in {"create", "remove", "scan", "clean"} \cup Dispatching => IsAdjusted(opt),
         where \in {"create", "remove", "scan"} => opt.flist_file_create,
         where \in {"clean", "dispatch", "setup_flist"} => ~opt.flist_file_create,
         where \in Dispatching => input # <<>>,
         where = "remove" => opt.force /\ file.kind = "reg",
         where = "scan" => file.kind = "none",
         where = "exit0" => ~opt.flist_file_create,
         where \in Dispatching /\ opt.path_iter = <<"walk">> => fls = <<>>
  PROVE  MainInv'
<1>1. pc' = where /\ UNCHANGED <<plan, n, opt, input, args, fls, todo, file, made>>
  BY DEF Goto, procVars
<1>2. InputOK' /\ OptOK'
  BY <1>1 DEF MainInv, InputOK, OptOK, Ended, Dispatching
<1>3. ModeOK' /\ CreateOK'
  BY <1>1 DEF ModeOK, CreateOK, Creating, Dispatching
<1>4. CreatedMeansComplete' /\ MadeOK'
  BY <1>1 DEF MainInv, CreatedMeansComplete, MadeOK, ListOf
<1>5. ListsOK'
  BY <1>1 DEF ListsOK, Dispatching
<1> QED BY <1>2, <1>3, <1>4, <1>5 DEF MainInv

-----------------------------------------------------------------------------
(* Options and arguments.                                                  *)

LEMMA GetOptInv ==
  ASSUME MainInv, GetOpt
  PROVE  MainInv'
<1>1. /\ pc = "getopt" /\ UNCHANGED <<plan, input, args, fls, todo, file, made>>
  BY DEF GetOpt
<1>2. PICK o \in Given[Head(plan)] :
        IF Accepts(o.name, o.arg)
        THEN opt' = [opt EXCEPT ![o.name] = Value(o.name, o.arg)] /\ UNCHANGED pc
        ELSE pc' = (IF o.name = "x" THEN "exit0" ELSE "exit1") /\ UNCHANGED opt
  BY DEF GetOpt
<1>3. Head(plan) \in DOMAIN Given
  <2>1. plan \in Seq(DOMAIN Given) /\ plan # <<>>
    BY DEF MainInv, OptOK
  <2> QED BY <2>1
<1>4. o.arg \in Argument
  BY <1>2, <1>3, MainAssumption DEF Argument
<1>5. InRange(opt')
  <2>1. InRange(opt)
    BY DEF MainInv, OptOK
  <2>2. ASSUME Accepts(o.name, o.arg)
        PROVE  InRange([opt EXCEPT ![o.name] = Value(o.name, o.arg)])
    BY <1>4, <2>1, <2>2, ValueInRange
  <2> QED BY <1>2, <2>1, <2>2
<1>6. args = <<>> /\ input = <<>> /\ pc' \in {"getopt", "exit0", "exit1"} /\ fls = <<>>
  BY <1>1, <1>2, NoInput DEF MainInv, InputOK, ListsOK
<1>7. InputOK' /\ OptOK'
  BY <1>1, <1>5, <1>6 DEF MainInv, InputOK, OptOK, Ended, ToSet
<1>8. ModeOK' /\ CreateOK' /\ CreatedMeansComplete' /\ MadeOK'
  BY <1>1, <1>6 DEF MainInv, ModeOK, CreateOK, CreatedMeansComplete, MadeOK, Creating,
                    Dispatching, ListOf
<1>9. ListsOK'
  BY <1>1, <1>6 DEF ListsOK, Dispatching
<1> QED BY <1>7, <1>8, <1>9 DEF MainInv

LEMMA GetOptEndsInv ==
  ASSUME MainInv, GetOptEnds
  PROVE  MainInv'
<1>1. /\ pc = "getopt" /\ pc' = "args" /\ opt' = Adjusted(opt)
      /\ UNCHANGED <<plan, input, args, fls, todo, file, made>>
  BY DEF GetOptEnds
<1>2. args = <<>> /\ input = <<>> /\ fls = <<>>
  BY <1>1, NoInput DEF MainInv, InputOK, ListsOK
<1>3. InRange(opt') /\ IsAdjusted(opt')
  BY <1>1, AdjustedInRange DEF MainInv, OptOK
<1>4. InputOK' /\ OptOK'
  BY <1>1, <1>2, <1>3 DEF MainInv, InputOK, OptOK, ToSet
<1>5. ModeOK' /\ CreateOK' /\ CreatedMeansComplete' /\ MadeOK'
  BY <1>1 DEF MainInv, ModeOK, CreateOK, CreatedMeansComplete, MadeOK, Creating,
              Dispatching, ListOf
<1>6. ListsOK'
  BY <1>1, <1>2 DEF ListsOK, Dispatching
<1> QED BY <1>4, <1>5, <1>6 DEF MainInv

\* An argument more.
LEMMA OneMore ==
  ASSUME InputOK, NEW raw \in Accepted, opt.force \/ Len(AbsPath[raw]) >= 3,
         input' = Append(input, AbsPath[raw]), args' = Append(args, raw),
         UNCHANGED opt, pc' # "getopt"
  PROVE  InputOK'
<1>1. args \in Seq(Accepted) /\ Len(args) \in Nat /\ DOMAIN args = 1 .. Len(args)
  BY DEF InputOK
<1>2. /\ args' \in Seq(Accepted) /\ Len(args') = Len(args) + 1
      /\ \A i \in 1 .. Len(args) : args'[i] = args[i]
      /\ args'[Len(args) + 1] = raw
  BY <1>1
<1>3. /\ AbsPath' = AbsPath /\ Accepted' = Accepted
  BY DEF AbsPath, Accepted, AllArgs
<1>4. input' = [i \in 1 .. Len(args') |-> AbsPath[args'[i]]]
  <2>1. input \in Seq(Path) /\ Len(input) = Len(args)
    BY InputPaths
  <2>2. AbsPath[raw] \in Path
    BY AbsPathPath DEF Accepted, AbsPath
  <2>3. /\ input' \in Seq(Path) /\ Len(input') = Len(args) + 1
        /\ \A i \in 1 .. Len(args) : input'[i] = input[i]
        /\ input'[Len(args) + 1] = AbsPath[raw]
    BY <2>1, <2>2, LongerSequence
  <2>4. \A i \in 1 .. Len(args) : input[i] = AbsPath[args[i]]
    BY <1>1 DEF InputOK
  <2>5. \A i \in 1 .. Len(args) + 1 : input'[i] = AbsPath[args'[i]]
    BY <1>1, <1>2, <2>3, <2>4
  <2>6. input' = [i \in 1 .. Len(input') |-> input'[i]]
    BY <2>3
  <2> QED BY <1>2, <2>3, <2>5, <2>6
<1>5. \A i \in 1 .. Len(args) + 1 : opt.force \/ Len(AbsPath[args'[i]]) >= 3
  BY <1>1, <1>2 DEF InputOK
<1>6. DOMAIN args' = 1 .. Len(args) + 1
  BY <1>1, <1>2
<1> QED BY <1>2, <1>3, <1>4, <1>5, <1>6 DEF InputOK

LEMMA ThrowsInv ==
  ASSUME MainInv, NEW where, Throws(where)
  PROVE  MainInv'
BY GotoInv DEF Throws, Dispatching

LEMMA TakeArgInv ==
  ASSUME MainInv, TakeArg
  PROVE  MainInv'
<1>1. CASE Throws("args")
  BY <1>1, ThrowsInv
<1>2. CASE ~Throws("args")
  <2>1. pc = "args" /\ UNCHANGED <<plan, n, opt, fls, todo, file, made>>
    BY <1>2 DEF TakeArg
  <2>2. PICK raw \in RawArgs[Head(plan)] :
          IF raw \in Asserted THEN pc' = "abort" /\ UNCHANGED <<input, args>>
          ELSE IF raw \notin Accepted \/ (~opt.force /\ Shallow(AbsPath[raw]))
          THEN pc' = "exit1" /\ UNCHANGED <<input, args>>
          ELSE /\ input' = Append(input, AbsPath[raw]) /\ args' = Append(args, raw)
               /\ UNCHANGED pc
    BY <1>2 DEF TakeArg
  <2>3. CASE pc' \in {"abort", "exit1"} /\ UNCHANGED <<input, args>>
    <3>1. InputOK' /\ OptOK'
      BY <2>1, <2>3 DEF MainInv, InputOK, OptOK, Ended
    <3>2. ModeOK' /\ CreateOK' /\ CreatedMeansComplete' /\ MadeOK' /\ ListsOK'
      BY <2>1, <2>3 DEF MainInv, ModeOK, CreateOK, CreatedMeansComplete, MadeOK, ListOf,
                        Creating, Dispatching, ListsOK
    <3> QED BY <3>1, <3>2 DEF MainInv
  <2>4. CASE /\ raw \in Accepted /\ (opt.force \/ ~Shallow(AbsPath[raw])) /\ UNCHANGED pc
             /\ input' = Append(input, AbsPath[raw]) /\ args' = Append(args, raw)
    <3>1. opt.force \/ Len(AbsPath[raw]) >= 3
      <4>1. AbsPath[raw] \in Path
        BY <2>4, AbsPathPath DEF Accepted, AbsPath
      <4> QED BY <2>4, <4>1 DEF Shallow, Path
    <3>2. InputOK'
      BY <2>1, <2>4, <3>1, OneMore DEF MainInv
    <3>3. OptOK' /\ ModeOK' /\ CreateOK' /\ CreatedMeansComplete' /\ MadeOK' /\ ListsOK'
      BY <2>1, <2>4 DEF MainInv, OptOK, ModeOK, CreateOK, CreatedMeansComplete, MadeOK, ListOf,
                        Creating, Dispatching, ListsOK
    <3> QED BY <3>2, <3>3 DEF MainInv
  <2> QED BY <2>2, <2>3, <2>4
<1> QED BY <1>1, <1>2

LEMMA ArgsEndInv ==
  ASSUME MainInv, ArgsEnd
  PROVE  MainInv'
<1> DEFINE where == IF input = <<>> THEN "exit1"
                    ELSE IF opt.flist_file_create
                    THEN IF opt.flist_file = <<>> THEN "exit1" ELSE "create"
                    ELSE IF opt.clean_write_paths THEN "clean" ELSE "dispatch"
<1>1. pc = "args" /\ Goto(where)
  BY DEF ArgsEnd
<1>2. IsAdjusted(opt) /\ fls = <<>>
  BY <1>1 DEF MainInv, OptOK, Ended, ListsOK
<1>3. /\ where \in {"exit1", "create", "clean", "dispatch"}
      /\ where = "create" => opt.flist_file_create
      /\ where \in {"clean", "dispatch"} => ~opt.flist_file_create
      /\ where = "dispatch" => input # <<>>
  OBVIOUS
<1> HIDE DEF where
<1> QED BY <1>1, <1>2, <1>3, GotoInv DEF Dispatching

-----------------------------------------------------------------------------
(* create_flist_file.                                                      *)

LEMMA CreateCheckInv ==
  ASSUME MainInv, CreateCheck
  PROVE  MainInv'
<1> DEFINE where == IF file.kind = "none" THEN "scan"
                    ELSE IF opt.force /\ file.kind = "reg" THEN "remove" ELSE "exit1"
<1>1. pc = "create" /\ Goto(where)
  BY DEF CreateCheck
<1>2. opt.flist_file_create /\ IsAdjusted(opt)
  BY <1>1 DEF MainInv, ModeOK, OptOK, Creating, Ended
<1>3. /\ where \in {"scan", "remove", "exit1"}
      /\ where = "scan" => file.kind = "none"
      /\ where = "remove" => opt.force /\ file.kind = "reg"
  OBVIOUS
<1> HIDE DEF where
<1> QED BY <1>1, <1>2, <1>3, GotoInv DEF Dispatching

\* Steps of the creation: what they leave alone.
LEMMA CreatingInv ==
  ASSUME MainInv, pc \in Creating, UNCHANGED <<plan, opt, input, args, fls>>,
         pc' \in Creating \cup {"exit0", "exit1"},
         CreateOK', CreatedMeansComplete', MadeOK'
  PROVE  MainInv'
<1>1. InputOK' /\ OptOK'
  BY DEF MainInv, InputOK, OptOK, Creating, Ended
<1>2. ModeOK'
  BY DEF MainInv, ModeOK, Creating, Dispatching
<1>3. ListsOK'
  BY DEF ListsOK, Creating, Dispatching
<1> QED BY <1>1, <1>2, <1>3 DEF MainInv

LEMMA CreateRemoveInv ==
  ASSUME MainInv, CreateRemove
  PROVE  MainInv'
<1>1. pc = "remove" /\ UNCHANGED <<plan, opt, input, args, fls, todo>>
  BY DEF CreateRemove, procVars
<1>2. \/ pc' \in {"scan", "exit0"} /\ file' = [kind |-> "none", lines |-> {}] /\ made' = NotMade
      \/ pc' = "exit1" /\ UNCHANGED <<file, made>>
  BY DEF CreateRemove, SetFile
<1>3. CreateOK' /\ CreatedMeansComplete' /\ MadeOK'
  BY <1>1, <1>2 DEF MainInv, CreateOK, CreatedMeansComplete, MadeOK, NotMade, ListOf
<1> QED BY <1>1, <1>2, <1>3, CreatingInv DEF Creating

LEMMA CreateScanInv ==
  ASSUME MainInv, CreateScan
  PROVE  MainInv'
<1>1. CASE Throws("scan")
  BY <1>1, ThrowsInv
<1>2. CASE ~Throws("scan")
  <2>1. /\ pc = "scan" /\ todo' = Wanted(TreeNow) /\ pc' = "open"
        /\ UNCHANGED <<plan, opt, input, args, fls, file, made>>
    BY <1>2 DEF CreateScan, procVars
  <2>2. file.kind = "none" /\ TreeNow = Tree
    BY <2>1 DEF MainInv, CreateOK, TreeNow
  <2>3. CreateOK'
    BY <2>1, <2>2 DEF CreateOK, Wanted
  <2>4. CreatedMeansComplete' /\ MadeOK'
    BY <2>1 DEF MainInv, CreatedMeansComplete, MadeOK, ListOf
  <2> QED BY <2>1, <2>3, <2>4, CreatingInv DEF Creating
<1> QED BY <1>1, <1>2

LEMMA CreateOpenInv ==
  ASSUME MainInv, CreateOpen
  PROVE  MainInv'
<1>1. CASE Throws("open")
  BY <1>1, ThrowsInv
<1>2. CASE ~Throws("open")
  <2>1. /\ pc = "open" /\ pc' = "write"
        /\ file' = [kind |-> "reg", lines |-> {}] /\ made' = NotMade
        /\ UNCHANGED <<plan, opt, input, args, fls, todo>>
    BY <1>2 DEF CreateOpen, SetFile, procVars
  <2>2. CreateOK'
    BY <2>1 DEF MainInv, CreateOK, Wanted
  <2>3. CreatedMeansComplete' /\ MadeOK'
    BY <2>1 DEF CreatedMeansComplete, MadeOK, NotMade
  <2> QED BY <2>1, <2>2, <2>3, CreatingInv DEF Creating
<1> QED BY <1>1, <1>2

LEMMA CreateWriteInv ==
  ASSUME MainInv, CreateWrite
  PROVE  MainInv'
<1>1. CASE Throws("write")
  BY <1>1, ThrowsInv
<1>2. CASE ~Throws("write") /\ todo = {}
  <2>1. /\ pc = "write" /\ pc' = "exit0"
        /\ made' = [input |-> input, ignore_dot |-> opt.ignore_dot]
        /\ UNCHANGED <<plan, opt, input, args, fls, todo, file>>
    BY <1>2 DEF CreateWrite, procVars
  <2>2. file.kind = "reg" /\ file.lines = Wanted(Tree)
    BY <1>2, <2>1 DEF MainInv, CreateOK
  <2>3. CreateOK' /\ CreatedMeansComplete'
    BY <2>1, <2>2 DEF CreateOK, CreatedMeansComplete, Wanted
  <2>4. MadeOK'
    BY <2>1, <2>2 DEF MainInv, MadeOK, ListOf, Wanted
  <2> QED BY <2>1, <2>3, <2>4, CreatingInv DEF Creating
<1>3. CASE ~Throws("write") /\ todo # {}
  <2>1. /\ pc = "write" /\ UNCHANGED <<pc, plan, opt, input, args, fls, made>>
        /\ \E s \in todo : /\ file' = [file EXCEPT !.lines = @ \cup {s}]
                           /\ todo' = todo \ {s}
    BY <1>3 DEF CreateWrite, procVars
  <2>2. PICK s \in todo : /\ file' = [file EXCEPT !.lines = @ \cup {s}]
                          /\ todo' = todo \ {s}
    BY <2>1
  <2>3. made = NotMade /\ file.kind = "reg" /\ file.lines \cup todo = Wanted(Tree)
    BY <2>1 DEF MainInv, CreateOK
  <2>4. file'.kind = "reg" /\ file'.lines \cup todo' = Wanted(Tree)
    BY <2>2, <2>3 DEF MainInv, MadeOK
  <2>5. CreateOK'
    BY <2>1, <2>3, <2>4 DEF CreateOK, Wanted
  <2>6. CreatedMeansComplete' /\ MadeOK'
    BY <2>1, <2>2, <2>3 DEF MainInv, CreatedMeansComplete, MadeOK, NotMade
  <2> QED BY <2>1, <2>5, <2>6, CreatingInv DEF Creating
<1> QED BY <1>1, <1>2, <1>3

LEMMA CreateInv ==
  ASSUME MainInv, Create
  PROVE  MainInv'
BY CreateCheckInv, CreateRemoveInv, CreateScanInv, CreateOpenInv, CreateWriteInv DEF Create

-----------------------------------------------------------------------------
(* The other modes, and the environment.                                   *)

LEMMA StartDispatchInv ==
  ASSUME MainInv, StartDispatch
  PROVE  MainInv'
<1> DEFINE where == IF opt.num_set = 0 \/ (opt.num_reader = 0 /\ opt.num_writer = 0) THEN "exit0"
                    ELSE IF NumThread > LongMax THEN "exit1" ELSE "setup_flist"
<1>1. pc = "dispatch" /\ Goto(where) /\ where \in {"exit0", "exit1", "setup_flist"}
  BY DEF StartDispatch
<1> HIDE DEF where
<1>2. /\ IsAdjusted(opt) /\ ~opt.flist_file_create /\ input # <<>>
      /\ opt.path_iter = <<"walk">> => fls = <<>>
  BY <1>1 DEF MainInv, OptOK, ModeOK, ListsOK, Dispatching, Ended
<1> QED BY <1>1, <1>2, GotoInv DEF Dispatching

\* A list for every argument, or none.
LEMMA ListsLength ==
  ASSUME MainInv, Lists # <<>>
  PROVE  /\ Len(Lists) = Len(input)
         /\ opt.flist_file # <<>> =>
              ~LoadFails(file.lines, input) /\ Lists = LoadFlist(file.lines, input)
<1>1. DOMAIN input = 1 .. Len(input) /\ Len(input) \in Nat
  BY InputPaths DEF MainInv
<1>2. CASE opt.flist_file = <<>>
  <2>1. Lists = [i \in 1 .. Len(input) |->
                   InitFlist(TreeNow, input[i], Resolve(input[i]), opt.ignore_dot)]
    BY <1>1, <1>2 DEF Lists
  <2> HIDE DEF Lists
  <2>2. Len(Lists) = Len(input)
    BY <1>1, <2>1
  <2> QED BY <1>2, <2>2
<1>3. CASE opt.flist_file # <<>>
  <2>1. ~LoadFails(file.lines, input) /\ Lists = LoadFlist(file.lines, input)
    BY <1>3 DEF Lists
  <2>2. Lists = [i \in 1 .. Len(input) |-> {s \in file.lines : i \in Matches(s, input)}]
    BY <1>1, <2>1 DEF LoadFlist
  <2> HIDE DEF Lists
  <2>3. Len(Lists) = Len(input)
    BY <1>1, <2>2
  <2> QED BY <2>1, <2>3
<1> QED BY <1>2, <1>3

LEMMA SetupFlistInv ==
  ASSUME MainInv, SetupFlist
  PROVE  MainInv'
<1>1. pc = "setup_flist"
  BY DEF SetupFlist
<1>2. /\ IsAdjusted(opt) /\ ~opt.flist_file_create /\ input # <<>>
      /\ opt.path_iter = <<"walk">> => fls = <<>>
  BY <1>1 DEF MainInv, OptOK, ModeOK, ListsOK, Dispatching, Ended
<1>3. CASE Goto("exit1")
  BY <1>3, GotoInv DEF Dispatching
<1>4. CASE ~Goto("exit1")
  <2>1. /\ UNCHANGED <<plan, n, opt, input, args, todo, file, made>>
        /\ IF opt.path_iter = <<"walk">> THEN pc' = "workers" /\ UNCHANGED fls
           ELSE IF (opt.flist_file # <<>> /\ file.kind # "reg") \/ Lists = <<>>
                   \/ {} \in ToSet(Lists)
           THEN pc' = "exit1" /\ UNCHANGED fls
           ELSE pc' = "workers" /\ fls' = Lists
    BY <1>4 DEF SetupFlist, procVars
  <2>2. /\ pc' = "workers" /\ opt.path_iter = <<"walk">> => fls' = <<>>
        /\ pc' = "workers" /\ opt.path_iter # <<"walk">> =>
             fls' = Lists /\ Lists # <<>> /\ {} \notin ToSet(Lists)
        /\ pc' \in {"workers", "exit1"}
    BY <1>2, <2>1
  <2>3. InputOK' /\ OptOK'
    BY <1>1, <1>2, <2>1, <2>2 DEF MainInv, InputOK, OptOK, Ended
  <2>4. ModeOK' /\ CreateOK' /\ CreatedMeansComplete' /\ MadeOK'
    BY <1>2, <2>1, <2>2 DEF MainInv, ModeOK, CreateOK, CreatedMeansComplete, MadeOK, ListOf,
                            Creating, Dispatching
  <2>5. ListsOK'
    <3>1. CASE pc' = "exit1"
      BY <3>1 DEF ListsOK, Dispatching
    <3>2. CASE pc' = "workers" /\ opt.path_iter = <<"walk">>
      BY <2>1, <2>2, <3>2 DEF ListsOK
    <3>3. CASE pc' = "workers" /\ opt.path_iter # <<"walk">>
      BY <2>1, <2>2, <3>3, ListsLength DEF ListsOK
    <3> QED BY <2>2, <3>1, <3>2, <3>3
  <2> QED BY <2>3, <2>4, <2>5 DEF MainInv
<1> QED BY <1>3, <1>4

LEMMA WorkersEndInv ==
  ASSUME MainInv, WorkersEnd
  PROVE  MainInv'
<1>1. PICK next \in {"setup_flist", "exit0", "exit1", "abort"} : pc = "workers" /\ Goto(next)
  BY DEF WorkersEnd
<1>2. /\ IsAdjusted(opt) /\ ~opt.flist_file_create /\ input # <<>>
      /\ opt.path_iter = <<"walk">> => fls = <<>>
  BY <1>1 DEF MainInv, OptOK, ModeOK, ListsOK, Dispatching, Ended
<1> QED BY <1>1, <1>2, GotoInv DEF Dispatching

LEMMA CleanInv ==
  ASSUME MainInv, Clean
  PROVE  MainInv'
<1>1. PICK end \in {"exit0", "exit1", "abort"} : pc = "clean" /\ Goto(end)
  BY DEF Clean
<1>2. ~opt.flist_file_create
  BY <1>1 DEF MainInv, ModeOK
<1> QED BY <1>1, <1>2, GotoInv DEF Dispatching

LEMMA NextRunInv ==
  ASSUME MainInv, NextRun
  PROVE  MainInv'
<1>1. /\ Len(plan) > 1 /\ plan' = Tail(plan) /\ pc' = "getopt"
      /\ opt' = Default /\ input' = <<>> /\ args' = <<>> /\ fls' = <<>>
      /\ UNCHANGED <<file, made>>
  BY DEF NextRun
<1>2. plan' \in Seq(DOMAIN Given) \ {<<>>}
  <2>1. plan \in Seq(DOMAIN Given) /\ Len(plan) \in Nat /\ Len(plan) > 1
    BY <1>1 DEF MainInv, OptOK
  <2>2. /\ plan' \in Seq(DOMAIN Given)
        /\ Len(plan') = Len(plan) - 1 /\ Len(plan) - 1 \in Nat \ {0}
    BY <1>1, <2>1
  <2>3. plan' # <<>>
    <3>1. Len(plan') # 0
      BY <2>2
    <3>2. Len(<<>>) = 0
      OBVIOUS
    <3> QED BY <3>1, <3>2, Zenon
  <2> QED BY <2>2, <2>3
<1>3. InputOK' /\ OptOK'
  BY <1>1, <1>2, DefaultInRange DEF InputOK, OptOK, ToSet
<1>4. ModeOK' /\ CreateOK' /\ CreatedMeansComplete' /\ MadeOK'
  BY <1>1 DEF MainInv, ModeOK, CreateOK, CreatedMeansComplete, MadeOK, ListOf, Creating,
              Dispatching
<1>5. ListsOK'
  BY <1>1 DEF ListsOK, Dispatching
<1> QED BY <1>3, <1>4, <1>5 DEF MainInv

LEMMA SameInv ==
  ASSUME MainInv, UNCHANGED vars
  PROVE  MainInv'
<1>1. UNCHANGED <<plan, pc, n, opt, input, args, fls, todo, file, made>>
  BY DEF vars
<1>2. InputOK' /\ OptOK' /\ ModeOK' /\ CreateOK' /\ CreatedMeansComplete' /\ MadeOK' /\ ListsOK'
  BY <1>1 DEF MainInv, InputOK, OptOK, ModeOK, CreateOK, Wanted, CreatedMeansComplete, MadeOK,
              ListOf, ListsOK
<1> QED BY <1>2 DEF MainInv

LEMMA MainStep == MainInv /\ [Next]_vars => MainInv'
<1> SUFFICES ASSUME MainInv, [Next]_vars PROVE MainInv'
  OBVIOUS
<1>1. CASE Start
  BY <1>1, GetOptInv, GetOptEndsInv, TakeArgInv, ArgsEndInv DEF Start
<1>2. CASE Create
  BY <1>2, CreateInv
<1>3. CASE OtherModes
  BY <1>3, CleanInv, StartDispatchInv, SetupFlistInv, WorkersEndInv DEF OtherModes
<1>4. CASE Kill
  BY <1>4, GotoInv DEF Kill, Dispatching
<1>5. CASE NextRun
  BY <1>5, NextRunInv
<1>6. CASE Stopped \/ UNCHANGED vars
  BY <1>6, SameInv DEF Stopped
<1> QED BY <1>1, <1>2, <1>3, <1>4, <1>5, <1>6 DEF Next

\* What holds at each place of main, in every run of a sequence of them.
THEOREM MainInvariance == Spec => []MainInv
BY InitMain, MainStep, PTL DEF Spec

-----------------------------------------------------------------------------
(* The arguments and the flist file.                                       *)

\* No symlink and no .. of an argument that exists leads to a shallow directory without --force.
THEOREM ShallowIsForced == Spec => []ShallowNeedsForce
<1>1. MainInv => ShallowNeedsForce
  <2> SUFFICES ASSUME MainInv, NEW i \in DOMAIN input, IsThere(args[i])
               PROVE  /\ input[i] = Resolve(Names(args[i])) /\ IsDir(Tree, input[i])
                      /\ opt.force \/ Len(input[i]) >= 3
    BY DEF ShallowNeedsForce
  <2>1. args[i] \in Accepted /\ input[i] = GetAbsPath(args[i])
    BY InputPaths DEF MainInv
  <2>2. args[i] \in AllArgs /\ ~Refused(args[i]) /\ IsDirectory(GetAbsPath(args[i]))
    BY <2>1 DEF Accepted
  <2>3. /\ GetAbsPath(args[i]) = Resolve(Names(args[i]))
        /\ GetAbsPath(args[i]) \in CanonicalPath
    BY <2>2, AbsPathPath, ThereResolved
  <2>4. GetAbsPath(args[i]) # <<>>
    BY <2>2 DEF Refused
  <2>5. IsDir(Tree, GetAbsPath(args[i]))
    BY <2>2, <2>3, <2>4, DirectoryAt
  <2>6. opt.force \/ Len(input[i]) >= 3
    <3>1. i \in DOMAIN args
      BY InputPaths DEF MainInv
    <3>2. AbsPath[args[i]] = GetAbsPath(args[i])
      BY <2>2 DEF AbsPath
    <3> QED BY <2>1, <3>1, <3>2 DEF MainInv, InputOK
  <2> QED BY <2>1, <2>3, <2>5, <2>6
<1> QED BY <1>1, MainInvariance, PTL

\* Success means that the whole list is in the file, wherever the creation may fail.
THEOREM CreatedIsWhole == Spec => []CreatedMeansComplete
<1>1. MainInv => CreatedMeansComplete
  BY DEF MainInv
<1> QED BY <1>1, MainInvariance, PTL

\* A step that may change the flist file.
Keeps ==
  file' # file /\ file.kind # "none" /\ pc # "write" =>
    opt.flist_file_create /\ opt.force /\ file.kind = "reg"

LEMMA StepKeeps == MainInv /\ [Next]_vars => [Keeps]_vars
<1> SUFFICES ASSUME MainInv, [Next]_vars PROVE Keeps
  OBVIOUS
<1>1. CASE Create
  <2>1. CASE CreateRemove
    <3>1. pc = "remove"
      BY <2>1 DEF CreateRemove
    <3> QED BY <3>1 DEF MainInv, ModeOK, CreateOK, Creating, Keeps
  <2>2. CASE CreateOpen
    <3>1. pc = "open" \/ UNCHANGED file
      BY <2>2 DEF CreateOpen, Throws, Goto
    <3> QED BY <3>1 DEF MainInv, CreateOK, Keeps
  <2>3. CASE CreateWrite
    <3>1. pc = "write"
      BY <2>3 DEF CreateWrite, Throws
    <3> QED BY <3>1 DEF Keeps
  <2>4. CASE CreateCheck \/ CreateScan
    <3>1. UNCHANGED file
      BY <2>4 DEF CreateCheck, CreateScan, Throws, Goto
    <3> QED BY <3>1 DEF Keeps
  <2> QED BY <1>1, <2>1, <2>2, <2>3, <2>4 DEF Create
<1>2. CASE ~Create
  <2>1. UNCHANGED file
    <3>1. CASE Start
      BY <3>1 DEF Start, GetOpt, GetOptEnds, TakeArg, ArgsEnd, Throws, Goto
    <3>2. CASE OtherModes
      BY <3>2 DEF OtherModes, Clean, StartDispatch, SetupFlist, WorkersEnd, Goto
    <3>3. CASE Kill \/ NextRun \/ Stopped \/ UNCHANGED vars
      BY <3>3 DEF Kill, NextRun, Stopped, vars, Goto
    <3> QED BY <1>2, <3>1, <3>2, <3>3 DEF Next
  <2> QED BY <2>1 DEF Keeps
<1> QED BY <1>1, <1>2

\* Only a regular file is replaced, and only by force.
THEOREM FlistStays == Spec => FlistKept
<1>1. Spec => [][Keeps]_vars
  BY StepKeeps, MainInvariance, PTL DEF Spec
<1> QED BY <1>1 DEF FlistKept, Keeps

\* What is found below an argument begins with the argument.
LEMMA EntryBelow ==
  ASSUME NEW f \in Path, NEW p \in InitFlist(Tree, f, Resolve(f), FALSE)
  PROVE  StartsWith(p, f)
<1> DEFINE d == Resolve(f)
<1>1. PICK q \in Below(Tree, d) : p = Entry(f, d, q)
  BY DEF InitFlist
<1>2. q \in Path /\ Len(d) \in Nat /\ Len(d) <= Len(q)
  <2>1. q \in DOMAIN Tree /\ Len(d) <= Len(q)
    BY <1>1 DEF Below, IsStrictPrefix, IsPrefix
  <2>2. q \in Path
    BY <2>1, MainAssumption, StringPath
  <2>3. d \in Path
    BY ResolveCanonical DEF CanonicalPath
  <2> QED BY <2>1, <2>2, <2>3 DEF Path
<1> HIDE DEF d
<1>3. p = f \o SubSeq(q, Len(d) + 1, Len(q)) /\ SubSeq(q, Len(d) + 1, Len(q)) \in Path
  BY <1>1, <1>2 DEF Entry, Path
<1>4. PICK r \in Path : p = f \o r
  BY <1>3
<1>5. IsPrefix(f, p)
  <2>1. /\ p \in Path /\ Len(f) \in Nat /\ Len(r) \in Nat /\ Len(p) = Len(f) + Len(r)
        /\ \A k \in 1 .. Len(f) : p[k] = f[k]
    BY <1>4 DEF Path
  <2>2. Len(f) \in 0 .. Len(p) /\ Len(f) \in 0 .. Len(f)
    BY <2>1
  <2>3. /\ SubSeq(p, 1, Len(f)) \in Path /\ Len(SubSeq(p, 1, Len(f))) = Len(f)
        /\ \A k \in 1 .. Len(f) : SubSeq(p, 1, Len(f))[k] = p[k]
    BY <2>1, <2>2, FirstNames
  <2>4. /\ SubSeq(f, 1, Len(f)) \in Path /\ Len(SubSeq(f, 1, Len(f))) = Len(f)
        /\ \A k \in 1 .. Len(f) : SubSeq(f, 1, Len(f))[k] = f[k]
    BY <2>2, FirstNames
  <2>5. SubSeq(f, 1, Len(f)) = SubSeq(p, 1, Len(f))
    <3> DEFINE a == SubSeq(f, 1, Len(f))
               b == SubSeq(p, 1, Len(f))
    <3> HIDE DEF a, b
    <3>1. \A k \in 1 .. Len(a) : a[k] = b[k]
      BY <2>1, <2>3, <2>4 DEF a, b
    <3>2. a \in Seq(Name) /\ b \in Seq(Name) /\ Len(a) = Len(b)
      BY <2>3, <2>4 DEF a, b, Path
    <3>3. a = b
      BY <3>1, <3>2, SeqEqual
    <3> QED BY <3>3 DEF a, b
  <2> QED BY <2>1, <2>5 DEF IsPrefix
<1> QED BY <1>5 DEF StartsWith

\* A list that is loaded at all has its paths in one line each.
LEMMA WholeLines ==
  ASSUME NoEcho, InputOK, NEW lines, ~LoadFails(lines, input),
         NEW i \in DOMAIN input, NEW p \in InitFlist(Tree, input[i], Resolve(input[i]), FALSE),
         LinesOf(p) \subseteq lines
  PROVE  LinesOf(p) = {p}
<1>1. args[i] \in Accepted /\ input[i] = AbsPath[args[i]]
  BY InputPaths DEF Accepted, AbsPath
<1>2. p \in ScanAll(Tree, <<AbsPath[args[i]]>>, FALSE)
  <2>1. ToSet(<<input[i]>>) = {input[i]}
    BY DEF ToSet
  <2>2. p \in ScanAll(Tree, <<input[i]>>, FALSE)
    BY <2>1 DEF ScanAll
  <2> QED BY <1>1, <2>2
<1>3. \/ LinesOf(p) = {p}
      \/ \E s \in LinesOf(p) : \A other \in Accepted : ~StartsWith(s, AbsPath[other])
  BY <1>1, <1>2 DEF NoEcho
<1>4. ASSUME NEW s \in LinesOf(p), \A other \in Accepted : ~StartsWith(s, AbsPath[other])
      PROVE  FALSE
  <2>1. \A j \in DOMAIN input : ~StartsWith(s, input[j])
    BY <1>4, InputPaths DEF Accepted, AbsPath
  <2>2. Matches(s, input) = {}
    BY <2>1 DEF Matches
  <2> QED BY <2>2 DEF LoadFails
<1> QED BY <1>3, <1>4

LEMMA InvFaithful == NoEcho /\ MainInv => FlistFaithful
<1> SUFFICES ASSUME NoEcho, MainInv, pc = "workers", opt.flist_file # <<>>, made.input # <<>>,
                    input = made.input
             PROVE  /\ \A i \in DOMAIN input :
                         InitFlist(Tree, input[i], Resolve(input[i]), made.ignore_dot)
                           \subseteq fls[i]
                    /\ UNION ToSet(fls) \subseteq ScanAll(Tree, input, made.ignore_dot)
  BY DEF FlistFaithful
<1> DEFINE found == ScanAll(Tree, input, made.ignore_dot)
<1>1. opt.path_iter # <<"walk">>
  BY DEF MainInv, OptOK, IsAdjusted, Ended
<1>2. ~LoadFails(file.lines, input) /\ fls = LoadFlist(file.lines, input)
  BY <1>1 DEF MainInv, ListsOK
<1>3. file.lines = UNION {LinesOf(p) : p \in found}
  BY DEF MainInv, MadeOK, ListOf
<1>4. ASSUME NEW p \in found
      PROVE  \E i \in DOMAIN input : p \in InitFlist(Tree, input[i], Resolve(input[i]), FALSE)
  BY DEF ScanAll, InitFlist, ToSet
<1>5. \A p \in found : LinesOf(p) = {p}
  <2> TAKE p \in found
  <2>1. PICK i \in DOMAIN input : p \in InitFlist(Tree, input[i], Resolve(input[i]), FALSE)
    BY <1>4
  <2>2. LinesOf(p) \subseteq file.lines
    BY <1>3
  <2> HIDE DEF found
  <2> QED BY <1>2, <2>1, <2>2, WholeLines DEF MainInv
<1>6. file.lines = found
  BY <1>3, <1>5
<1>7. ASSUME NEW i \in DOMAIN input,
             NEW p \in InitFlist(Tree, input[i], Resolve(input[i]), made.ignore_dot)
      PROVE  p \in fls[i]
  <2>1. p \in file.lines
    BY <1>6 DEF ScanAll, ToSet
  <2>2. p \in InitFlist(Tree, input[i], Resolve(input[i]), FALSE)
    BY DEF InitFlist
  <2>3. input[i] \in Path
    BY InputPaths DEF MainInv
  <2>4. StartsWith(p, input[i])
    BY <2>2, <2>3, EntryBelow
  <2> QED BY <1>2, <2>1, <2>4 DEF LoadFlist, Matches
<1>8. UNION ToSet(fls) \subseteq file.lines
  BY <1>2 DEF LoadFlist, ToSet
<1> QED BY <1>6, <1>7, <1>8

\* A completed flist file loads as what a scan of the same arguments found, if no line
\* after a newline in a name passes for a path of its own.
THEOREM FlistLoads == NoEcho => (Spec => []FlistFaithful)
<1> SUFFICES ASSUME NoEcho PROVE Spec => []FlistFaithful
  OBVIOUS
<1>1. MainInv => FlistFaithful
  BY InvFaithful
<1> QED BY <1>1, MainInvariance, PTL

-----------------------------------------------------------------------------
(* What the workers rely on.                                               *)

LEMMA InvDispatch == MainInv => DispatchAssumptions
<1> SUFFICES ASSUME MainInv, pc = "workers" PROVE DispatchAssumptions
  BY DEF DispatchAssumptions
<1>1. InRange(opt) /\ IsAdjusted(opt) /\ input # <<>> /\ input \in Seq(Path)
  BY InputPaths DEF MainInv, OptOK, ModeOK, Dispatching, Ended
<1>2. /\ opt.num_reader \in Nat /\ opt.num_writer \in Nat /\ opt.num_set \in Nat
      /\ opt.time_second \in Long /\ opt.monitor_interval_second \in Long
      /\ opt.num_repeat \in Long /\ (opt.num_repeat = -1 \/ opt.num_repeat > 0)
      /\ opt.num_write_paths \in -1 .. LongMax
      /\ opt.write_paths_type # {} /\ opt.path_iter \in Iters
      /\ \A b \in BufferSizes : opt[b] \in 0 .. MaxBufferSize
      /\ \A b \in Sizes : opt[b] \in -1 .. MaxBufferSize
  BY <1>1 DEF InRange, Threads, Times
<1>3. opt.time_minute = 0 /\ opt.monitor_interval_minute = 0
  BY <1>1 DEF IsAdjusted
<1>4. D!GlobalAssumption
  <2>1. Head(opt.path_iter) \in {"walk", "ordered", "reverse", "random"}
    BY <1>2 DEF Iters
  <2>2. [i \in DOMAIN input |-> <<"reg">>] \in Seq(Seq(D!Kind))
    <3>1. <<"reg">> \in Seq(D!Kind)
      BY DEF D!Kind
    <3>2. DOMAIN input = 1 .. Len(input) /\ Len(input) \in Nat
      BY <1>1
    <3> QED BY <3>1, <3>2
  <2>3. [i \in DOMAIN input |-> <<"reg">>] # <<>>
    <3>1. 1 \in DOMAIN input
      BY <1>1
    <3> QED BY <3>1
  <2> QED BY <1>2, <2>1, <2>2, <2>3, Bounds DEF D!GlobalAssumption, Long
<1>5. IF opt.path_iter = <<"walk">> THEN opt.flist_file = <<>> /\ fls = <<>>
      ELSE Len(fls) = Len(input) /\ {} \notin ToSet(fls)
  BY <1>1 DEF MainInv, ListsOK, Dispatching, IsAdjusted
<1> QED BY <1>2, <1>3, <1>4, <1>5 DEF DispatchAssumptions

\* No options of the user lead the workers where Dispatch, WritePaths and FileIO do not go.
THEOREM WorkersCanRely == Spec => []DispatchAssumptions
BY InvDispatch, MainInvariance, PTL
=============================================================================
