-------------------------- MODULE WritePathsProofs --------------------------
(***************************************************************************)
(* Proofs about WritePaths, for every number of writers and sets, every    *)
(* tree, all options and all faults: types, and the implementation of      *)
(* WriteSet.  CleanUpProofs has what is left of a run.                     *)
(***************************************************************************)
EXTENDS WritePaths, FiniteSetTheorems, SequenceTheorems, TLAPS

-----------------------------------------------------------------------------
(* Paths.                                                                  *)

LEMMA PrefixDef ==
  ASSUME NEW p \in Path, NEW q \in Path
  PROVE  /\ Len(p) \in Nat /\ Len(q) \in Nat
         /\ IsStrictPrefix(p, q) <=>
              Len(p) < Len(q) /\ \A i \in 1 .. Len(p) : p[i] = q[i]
<1>1. Len(p) \in Nat /\ Len(q) \in Nat
  BY DEF Path
<1>2. ASSUME IsStrictPrefix(p, q)
      PROVE  Len(p) < Len(q) /\ \A i \in 1 .. Len(p) : p[i] = q[i]
  <2>1. Len(p) <= Len(q) /\ SubSeq(p, 1, Len(p)) = SubSeq(q, 1, Len(p)) /\ p # q
    BY <1>2 DEF IsStrictPrefix, IsPrefix
  <2>2. SubSeq(p, 1, Len(p)) = p
    BY SubSeqFull DEF Path
  <2>3. \A i \in 1 .. Len(p) : p[i] = q[i]
    BY <1>1, <2>1, <2>2 DEF Path
  <2>4. Len(p) = Len(q) => p = q
    BY <2>3, SeqEqual DEF Path
  <2> QED BY <1>1, <2>1, <2>3, <2>4
<1>3. ASSUME Len(p) < Len(q), \A i \in 1 .. Len(p) : p[i] = q[i]
      PROVE  IsStrictPrefix(p, q)
  <2>1. SubSeq(q, 1, Len(p)) \in Seq(Name) /\ Len(SubSeq(q, 1, Len(p))) = Len(p)
    BY <1>1, <1>3 DEF Path
  <2>2. \A i \in 1 .. Len(p) : SubSeq(q, 1, Len(p))[i] = p[i]
    BY <1>1, <1>3 DEF Path
  <2>3. SubSeq(q, 1, Len(p)) = p
    BY <2>1, <2>2, SeqEqual DEF Path
  <2>4. SubSeq(p, 1, Len(p)) = p
    BY SubSeqFull DEF Path
  <2> QED BY <1>1, <1>3, <2>3, <2>4 DEF IsStrictPrefix, IsPrefix
<1> QED BY <1>1, <1>2, <1>3

LEMMA PrefixIntro ==
  ASSUME NEW p \in Path, NEW q \in Path, NEW n \in Nat, Len(p) = n, n < Len(q),
         \A i \in 1 .. n : p[i] = q[i]
  PROVE  IsStrictPrefix(p, q)
BY PrefixDef

LEMMA PrefixTransitive ==
  ASSUME NEW p \in Path, NEW q \in Path, NEW r \in Path,
         IsStrictPrefix(p, q), IsStrictPrefix(q, r)
  PROVE  IsStrictPrefix(p, r)
BY PrefixDef

LEMMA PrefixIrreflexive ==
  ASSUME NEW p \in Path
  PROVE  ~IsStrictPrefix(p, p)
BY DEF IsStrictPrefix

\* Two paths that lead to a third one: one of them leads to the other.
LEMMA PrefixComparable ==
  ASSUME NEW p \in Path, NEW q \in Path, NEW r \in Path,
         IsStrictPrefix(p, r), IsStrictPrefix(q, r)
  PROVE  p = q \/ IsStrictPrefix(p, q) \/ IsStrictPrefix(q, p)
<1>1. CASE Len(p) = Len(q)
  <2>1. \A i \in 1 .. Len(p) : p[i] = q[i]
    BY <1>1, PrefixDef
  <2> QED BY <1>1, <2>1, SeqEqual DEF Path
<1>2. CASE Len(p) < Len(q)
  BY <1>2, PrefixDef
<1>3. CASE Len(q) < Len(p)
  BY <1>3, PrefixDef
<1> QED BY <1>1, <1>2, <1>3, PrefixDef

\* The path of a new name in a directory.
LEMMA AppendPath ==
  ASSUME NEW d \in Path, NEW x \in Name
  PROVE  /\ Append(d, x) \in Path \ {<<>>}
         /\ Len(Append(d, x)) = Len(d) + 1
         /\ Last(Append(d, x)) = x
         /\ Front(Append(d, x)) = d
         /\ IsStrictPrefix(d, Append(d, x))
<1>1. Append(d, x) \in Path /\ Len(Append(d, x)) = Len(d) + 1 /\ Len(d) \in Nat
  BY DEF Path
<1>2. /\ \A i \in 1 .. Len(d) : Append(d, x)[i] = d[i]
      /\ Append(d, x)[Len(d) + 1] = x
  BY DEF Path
<1>3. Append(d, x) # <<>> /\ Last(Append(d, x)) = x
  BY <1>1, <1>2 DEF Last
<1>4. IsStrictPrefix(d, Append(d, x))
  <2> DEFINE q == Append(d, x)
             n == Len(d)
  <2>1. q \in Path /\ n \in Nat /\ n < Len(q) /\ \A i \in 1 .. n : d[i] = q[i]
    BY <1>1, <1>2
  <2> HIDE DEF q, n
  <2>2. IsStrictPrefix(d, q) <=>
          Len(d) < Len(q) /\ \A i \in 1 .. Len(d) : d[i] = q[i]
    BY <2>1, PrefixDef
  <2> QED BY <2>1, <2>2 DEF n, q
<1>5. Front(Append(d, x)) = d
  <2> DEFINE r == SubSeq(Append(d, x), 1, Len(d))
  <2>1. Front(Append(d, x)) = r
    BY <1>1 DEF Front
  <2>2. r \in Seq(Name) /\ Len(r) = Len(d) /\ \A i \in 1 .. Len(d) : r[i] = d[i]
    BY <1>1, <1>2 DEF Path
  <2>3. r = d
    BY <2>2, SeqEqual DEF Path
  <2> QED BY <2>1, <2>3
<1> QED BY <1>1, <1>3, <1>4, <1>5

\* A part of a path leads to it.
LEMMA PartPath ==
  ASSUME NEW p \in Path, NEW k \in 1 .. Len(p) - 1
  PROVE  /\ SubSeq(p, 1, k) \in Path \ {<<>>}
         /\ Len(SubSeq(p, 1, k)) = k
         /\ IsStrictPrefix(SubSeq(p, 1, k), p)
<1>1. Len(p) \in Nat
  BY DEF Path
<1>2. /\ SubSeq(p, 1, k) \in Path /\ Len(SubSeq(p, 1, k)) = k
      /\ \A i \in 1 .. k : SubSeq(p, 1, k)[i] = p[i]
  BY <1>1 DEF Path
<1>3. k \in Nat /\ k < Len(p) /\ SubSeq(p, 1, k) # <<>>
  BY <1>1, <1>2
<1>4. IsStrictPrefix(SubSeq(p, 1, k), p)
  BY <1>2, <1>3, PrefixIntro
<1> QED BY <1>2, <1>3, <1>4

\* The directory of a path leads to it.
LEMMA FrontPath ==
  ASSUME NEW p \in Path, Len(p) > 1
  PROVE  /\ Front(p) \in Path \ {<<>>}
         /\ IsStrictPrefix(Front(p), p)
<1>1. Len(p) - 1 \in 1 .. Len(p) - 1
  BY DEF Path
<1> QED BY <1>1, PartPath DEF Front

\* What leads to a path of a tree is in the tree, a directory.
LEMMA TreeAbove ==
  ASSUME NEW tree, IsTree(tree), DOMAIN tree \subseteq Path,
         NEW q \in DOMAIN tree, NEW p \in Path \ {<<>>}, IsStrictPrefix(p, q)
  PROVE  p \in DOMAIN tree /\ tree[p].kind = "dir"
<1>1. /\ Len(p) \in 1 .. Len(q) - 1
      /\ \A i \in 1 .. Len(p) : p[i] = q[i]
  BY PrefixDef DEF Path
<1>2. SubSeq(q, 1, Len(p)) = p
  <2>1. SubSeq(q, 1, Len(p)) \in Seq(Name) /\ Len(SubSeq(q, 1, Len(p))) = Len(p)
    BY <1>1 DEF Path
  <2>2. \A i \in 1 .. Len(p) : SubSeq(q, 1, Len(p))[i] = p[i]
    BY <1>1 DEF Path
  <2> QED BY <2>1, <2>2, SeqEqual DEF Path
<1> QED BY <1>1, <1>2 DEF IsTree

\* A tree is one if every path's directory is in it with what leads there.
LEMMA TreeBelow ==
  ASSUME NEW tree, DOMAIN tree \subseteq Path,
         \A p \in DOMAIN tree, d \in Path \ {<<>>} :
           IsStrictPrefix(d, p) => d \in DOMAIN tree /\ tree[d].kind = "dir"
  PROVE  IsTree(tree)
BY PartPath DEF IsTree

\* A path below a directory is in it, or below a directory in it.
LEMMA PrefixFront ==
  ASSUME NEW p \in Path \ {<<>>}, NEW q \in Path, IsStrictPrefix(p, q)
  PROVE  /\ Len(q) > 1
         /\ p = Front(q) \/ IsStrictPrefix(p, Front(q))
<1>1. Len(p) > 0 /\ Len(q) > 1 /\ Len(p) < Len(q)
  BY PrefixDef DEF Path
<1>2. Front(q) \in Path \ {<<>>} /\ IsStrictPrefix(Front(q), q) /\ Len(Front(q)) = Len(q) - 1
  <2>1. Len(q) - 1 \in 1 .. Len(q) - 1
    BY <1>1, PrefixDef
  <2> QED BY <1>1, <2>1, PartPath, FrontPath DEF Front
<1>3. ~IsStrictPrefix(Front(q), p)
  BY <1>1, <1>2, PrefixDef
<1> QED BY <1>1, <1>2, <1>3, PrefixComparable

-----------------------------------------------------------------------------
(* What the proofs use of the assumption.                                  *)

LEMMA Given ==
  /\ NumWriter \in Nat /\ NumSet \in Nat \ {0} /\ NumWritePaths \in Nat \ {0}
  /\ Base \in STRING /\ MaxTick \in Nat
  /\ DOMAIN Tree \subseteq Path \ {<<>>} /\ IsFiniteSet(DOMAIN Tree)
  /\ Tree \in [DOMAIN Tree -> Node] /\ IsTree(Tree)
  /\ \A n \in DOMAIN Input : Input[n] \in DOMAIN Tree
  /\ Types \subseteq {"dir", "reg", "symlink", "link"}
  /\ \A x \in {Walk, Keep, Sync, Interferes, Crashes} : x \in BOOLEAN
BY WritePathsAssumption DEF WritePathsAssumption

LEMMA InputGiven ==
  ASSUME NEW t \in Writer
  PROVE  InputOf(t) \in Path \ {<<>>} /\ IsBelowInput(InputOf(t)) \in BOOLEAN
         /\ \E n \in DOMAIN Input : InputOf(t) = Input[n]
<1>1. Input \in Seq(DOMAIN Tree) /\ Len(Input) \in Nat \ {0}
  BY WritePathsAssumption, EmptySeq DEF WritePathsAssumption
<1>2. t \in Nat
  BY Given DEF Writer
<1>3. t % Len(Input) \in 0 .. Len(Input) - 1
  BY <1>1, <1>2
<1>4. (t % Len(Input)) + 1 \in DOMAIN Input
  BY <1>1, <1>3
<1> QED BY <1>4, Given DEF InputOf, IsBelowInput

LEMMA OwnNameIsName ==
  ASSUME NEW t \in Writer, NEW k \in Int, ts \in Int
  PROVE  <<Base, t, ts, k>> \in Name
BY Given DEF Name, Writer

-----------------------------------------------------------------------------
(* The inductive invariant: types, and what a writer has.                  *)

Pcs == {"idle", "create", "sync", "register", "data", "exited"}
WriterType ==
  [pc : Pcs, n : Nat, f : Path, newf : Path,
   type : {"dir", "reg", "symlink", "link"}, mine : Seq(Path)]

Entry == (Path \X Int \X Int) \cup (Path \X Int)

TreeOK ==
  /\ DOMAIN fs \subseteq Path \ {<<>>} /\ IsFiniteSet(DOMAIN fs)
  /\ fs \in [DOMAIN fs -> Node] /\ IsTree(fs)

ListOK ==
  /\ u \in [l : SUBSET Entry, n : Nat, pc : {"type", "assert", "exists", "remove"}]
  /\ IsFiniteSet(u.l) /\ u.n <= Cardinality(u.l)
  /\ u.pc # "type" => u.n > 0

ProcOK ==
  /\ data \subseteq DOMAIN Tree
  /\ mode \in {"dispatch", "clean"}
  /\ main \in {"run", "unlink", "report"} \cup Ended
  /\ main \in {"run", "report"} => mode = "dispatch"
  /\ set \in 0 .. NumSet - 1 /\ now \in 0 .. MaxTick /\ ts \in 0 .. now
  /\ hist \in [made : SUBSET Path, leaked : SUBSET Path]

\* The k-th path of writer t in this set.
OwnName(t, p, k) ==
  /\ p \in Path \ {<<>>} /\ Last(p) = <<Base, t, ts, k>>
  /\ IsStrictPrefix(InputOf(t), p)

\* n counts the paths that are registered and the one under way, which an error
\* leaves behind.
WriterOK(t) ==
  /\ w[t].n <= NumWritePaths
  /\ w[t].pc \in {"idle", "data"} => w[t].n = Len(w[t].mine)
  /\ w[t].pc \in {"create", "sync", "register"} => w[t].n = Len(w[t].mine) + 1
  /\ w[t].pc = "exited" => w[t].n \in {Len(w[t].mine), Len(w[t].mine) + 1}
  /\ w[t].pc \in {"create", "sync", "register", "data"} => OwnName(t, w[t].newf, w[t].n - 1)
  /\ \A i \in 1 .. Len(w[t].mine) : OwnName(t, w[t].mine[i], i - 1)

\* While a set runs nothing goes away: what a writer has picked, made and
\* registered is there.
InTree(t) ==
  /\ w[t].pc = "create" =>
       Exists(w[t].f) /\ Exists(Front(w[t].newf)) /\ Kind(Front(w[t].newf)) = "dir"
  /\ w[t].pc \in {"sync", "register", "data"} => Exists(w[t].newf)
  /\ \A i \in 1 .. Len(w[t].mine) : Exists(w[t].mine[i])

\* The list is empty during the set, and its writers have exited after it.
SetOK ==
  /\ main = "run" => u.l = {} /\ \A t \in Writer : InTree(t)
  /\ mode = "dispatch" /\ main \in {"unlink", "report"} =>
       \A t \in Writer : w[t].pc = "exited"

WritersOK == w \in [Writer -> WriterType] /\ \A t \in Writer : WriterOK(t)

BaseInv == TreeOK /\ ListOK /\ ProcOK /\ WritersOK /\ SetOK

-----------------------------------------------------------------------------
(* Updates of a writer.                                                    *)

LEMMA WriterUpdate ==
  ASSUME w \in [Writer -> WriterType], NEW t \in Writer,
         NEW r \in WriterType, w' = [w EXCEPT ![t] = r]
  PROVE  /\ w' \in [Writer -> WriterType]
         /\ w'[t] = r
         /\ \A s \in Writer : s # t => w'[s] = w[s]
OBVIOUS

\* What a writer is after a step.
WriterIs(t, pc, n, f, newf, ty, mine) ==
  /\ w' \in [Writer -> WriterType]
  /\ w'[t].pc = pc /\ w'[t].n = n /\ w'[t].f = f
  /\ w'[t].newf = newf /\ w'[t].type = ty /\ w'[t].mine = mine
  /\ \A s \in Writer : s # t => w'[s] = w[s]

LEMMA WriterFields ==
  ASSUME NEW r \in WriterType
  PROVE  /\ r.pc \in Pcs /\ r.n \in Nat /\ r.f \in Path /\ r.newf \in Path
         /\ r.type \in {"dir", "reg", "symlink", "link"} /\ r.mine \in Seq(Path)
BY DEF WriterType

LEMMA SetPc ==
  ASSUME w \in [Writer -> WriterType], NEW t \in Writer,
         NEW pc \in Pcs, w' = [w EXCEPT ![t].pc = pc]
  PROVE  WriterIs(t, pc, w[t].n, w[t].f, w[t].newf, w[t].type, w[t].mine)
<1> DEFINE r == [w[t] EXCEPT !.pc = pc]
<1>1. w[t] \in WriterType
  OBVIOUS
<1>2. r \in WriterType
  BY <1>1 DEF WriterType, Pcs
<1>3. /\ r.pc = pc /\ r.n = w[t].n /\ r.f = w[t].f
      /\ r.newf = w[t].newf /\ r.type = w[t].type /\ r.mine = w[t].mine
  BY <1>1 DEF WriterType
<1>4. w' = [w EXCEPT ![t] = r]
  OBVIOUS
<1> HIDE DEF r
<1> QED BY <1>2, <1>3, <1>4, WriterUpdate DEF WriterIs

LEMMA SetPcType ==
  ASSUME w \in [Writer -> WriterType], NEW t \in Writer,
         NEW pc \in Pcs, NEW ty \in {"dir", "reg", "symlink", "link"},
         w' = [w EXCEPT ![t].pc = pc, ![t].type = ty]
  PROVE  WriterIs(t, pc, w[t].n, w[t].f, w[t].newf, ty, w[t].mine)
<1> DEFINE r == [w[t] EXCEPT !.pc = pc, !.type = ty]
<1>1. w[t] \in WriterType
  OBVIOUS
<1>2. r \in WriterType
  BY <1>1 DEF WriterType, Pcs
<1>3. /\ r.pc = pc /\ r.n = w[t].n /\ r.f = w[t].f
      /\ r.newf = w[t].newf /\ r.type = ty /\ r.mine = w[t].mine
  BY <1>1 DEF WriterType
<1>4. w' = [w EXCEPT ![t] = r]
  OBVIOUS
<1> HIDE DEF r
<1> QED BY <1>2, <1>3, <1>4, WriterUpdate DEF WriterIs

LEMMA SetPcMine ==
  ASSUME w \in [Writer -> WriterType], NEW t \in Writer,
         NEW pc \in Pcs, NEW mine \in Seq(Path),
         w' = [w EXCEPT ![t].pc = pc, ![t].mine = mine]
  PROVE  WriterIs(t, pc, w[t].n, w[t].f, w[t].newf, w[t].type, mine)
<1> DEFINE r == [w[t] EXCEPT !.pc = pc, !.mine = mine]
<1>1. w[t] \in WriterType
  OBVIOUS
<1>2. r \in WriterType
  BY <1>1 DEF WriterType, Pcs
<1>3. /\ r.pc = pc /\ r.n = w[t].n /\ r.f = w[t].f
      /\ r.newf = w[t].newf /\ r.type = w[t].type /\ r.mine = mine
  BY <1>1 DEF WriterType
<1>4. w' = [w EXCEPT ![t] = r]
  OBVIOUS
<1> HIDE DEF r
<1> QED BY <1>2, <1>3, <1>4, WriterUpdate DEF WriterIs

LEMMA SetPicked ==
  ASSUME w \in [Writer -> WriterType], NEW t \in Writer,
         NEW f \in Path, NEW n \in Nat, NEW newf \in Path,
         w' = [w EXCEPT ![t].pc = "create", ![t].f = f, ![t].n = n, ![t].newf = newf]
  PROVE  WriterIs(t, "create", n, f, newf, w[t].type, w[t].mine)
<1> DEFINE r == [w[t] EXCEPT !.pc = "create", !.f = f, !.n = n, !.newf = newf]
<1>1. w[t] \in WriterType
  OBVIOUS
<1>2. r \in WriterType
  BY <1>1 DEF WriterType, Pcs
<1>3. /\ r.pc = "create" /\ r.n = n /\ r.f = f
      /\ r.newf = newf /\ r.type = w[t].type /\ r.mine = w[t].mine
  BY <1>1 DEF WriterType
<1>4. w' = [w EXCEPT ![t] = r]
  OBVIOUS
<1> HIDE DEF r
<1> QED BY <1>2, <1>3, <1>4, WriterUpdate DEF WriterIs

-----------------------------------------------------------------------------
(* Updates of the tree and of the list.                                    *)

\* A new name in a directory.
LEMMA TreeGrows ==
  ASSUME TreeOK, NEW d \in DOMAIN fs, fs[d].kind = "dir", NEW x \in Name,
         Append(d, x) \notin DOMAIN fs,
         NEW node \in Node, fs' = With(Append(d, x), node)
  PROVE  /\ TreeOK'
         /\ DOMAIN fs' = DOMAIN fs \cup {Append(d, x)}
         /\ fs'[Append(d, x)] = node
         /\ \A p \in DOMAIN fs : fs'[p] = fs[p]
<1> DEFINE new == Append(d, x)
<1>1. d \in Path \ {<<>>} /\ DOMAIN fs \subseteq Path
  BY DEF TreeOK
<1>2. new \in Path \ {<<>>} /\ Front(new) = d
  BY <1>1, AppendPath
<1>3. /\ fs' = [p \in DOMAIN fs \cup {new} |-> IF p = new THEN node ELSE fs[p]]
      /\ DOMAIN fs' = DOMAIN fs \cup {new}
  BY DEF With
<1>4. fs'[new] = node /\ \A p \in DOMAIN fs : fs'[p] = fs[p]
  BY <1>3
<1>5. /\ DOMAIN fs' \subseteq Path \ {<<>>} /\ IsFiniteSet(DOMAIN fs')
      /\ fs' \in [DOMAIN fs' -> Node]
  BY <1>2, <1>3, <1>4, FS_AddElement DEF TreeOK
<1>6. ASSUME NEW p \in DOMAIN fs', NEW q \in Path \ {<<>>}, IsStrictPrefix(q, p)
      PROVE  q \in DOMAIN fs' /\ fs'[q].kind = "dir"
  <2>1. CASE p = new
    <3>1. q = d \/ IsStrictPrefix(q, d)
      BY <1>2, <1>6, <2>1, PrefixFront
    <3>2. q \in DOMAIN fs /\ fs[q].kind = "dir"
      BY <1>1, <3>1, TreeAbove DEF TreeOK
    <3> QED BY <1>3, <1>4, <3>2
  <2>2. CASE p # new
    <3>1. q \in DOMAIN fs /\ fs[q].kind = "dir"
      BY <1>1, <1>3, <1>6, <2>2, TreeAbove DEF TreeOK
    <3> QED BY <1>3, <1>4, <3>1
  <2> QED BY <2>1, <2>2
<1>7. IsTree(fs')
  BY <1>5, <1>6, TreeBelow
<1> QED BY <1>3, <1>4, <1>5, <1>7 DEF TreeOK

\* A path with nothing below it goes.
LEMMA TreeShrinks ==
  ASSUME TreeOK, NEW f, Below(f) = {}, fs' = Without(f)
  PROVE  /\ TreeOK'
         /\ DOMAIN fs' = DOMAIN fs \ {f}
         /\ \A p \in DOMAIN fs' : fs'[p] = fs[p]
<1>1. /\ DOMAIN fs' = DOMAIN fs \ {f}
      /\ \A p \in DOMAIN fs' : fs'[p] = fs[p]
      /\ fs' = [p \in DOMAIN fs' |-> fs[p]]
  BY DEF Without
<1>2. /\ DOMAIN fs' \subseteq Path \ {<<>>} /\ IsFiniteSet(DOMAIN fs')
      /\ fs' \in [DOMAIN fs' -> Node]
  BY <1>1, FS_RemoveElement DEF TreeOK
<1>3. ASSUME NEW p \in DOMAIN fs', NEW q \in Path \ {<<>>}, IsStrictPrefix(q, p)
      PROVE  q \in DOMAIN fs' /\ fs'[q].kind = "dir"
  <2>1. q \in DOMAIN fs /\ fs[q].kind = "dir"
    BY <1>1, <1>3, TreeAbove DEF TreeOK
  <2>2. q # f
    BY <1>1, <1>3 DEF Below
  <2> QED BY <1>1, <2>1, <2>2
<1>4. IsTree(fs')
  BY <1>2, <1>3, TreeBelow
<1> QED BY <1>1, <1>2, <1>4 DEF TreeOK

LEMMA EntryPath ==
  ASSUME NEW e \in Entry
  PROVE  e[1] \in Path
BY DEF Entry

\* The back of a list is in it, and no other path of the list is below it.
LEMMA BackIs ==
  ASSUME NEW l \in SUBSET Entry, IsFiniteSet(l), l # {}
  PROVE  /\ Back(l) \in l
         /\ \A g \in l : ~IsStrictPrefix(Back(l)[1], g[1])
<1> DEFINE Up(e) == {g \in l : IsStrictPrefix(e[1], g[1])}
           Ups == {Up(e) : e \in l}
           R == StrictSubsetOrdering(l)
<1>1. IsWellFoundedOn(R, FiniteSubsetsOf(l))
  BY FS_StrictSubsetOrderingWellFounded
<1>2. Ups \subseteq FiniteSubsetsOf(l) /\ Ups # {}
  <2>1. ASSUME NEW e \in l PROVE Up(e) \in FiniteSubsetsOf(l)
    <3>1. Up(e) \in SUBSET l
      OBVIOUS
    <3>2. IsFiniteSet(Up(e))
      BY <3>1, FS_Subset
    <3> QED BY <3>1, <3>2 DEF FiniteSubsetsOf
  <2> QED BY <2>1
<1>3. PICK U \in Ups : \A V \in Ups : <<V, U>> \notin R
  BY <1>1, <1>2, WFMin
<1>4. PICK e \in l : U = Up(e)
  BY <1>3
<1>5. \A g \in l : ~IsStrictPrefix(e[1], g[1])
  <2> SUFFICES ASSUME NEW g \in l, IsStrictPrefix(e[1], g[1]) PROVE FALSE
    OBVIOUS
  <2>1. e[1] \in Path /\ g[1] \in Path /\ \A h \in l : h[1] \in Path
    BY EntryPath
  <2>2. Up(g) \subseteq Up(e)
    BY <2>1, PrefixTransitive
  <2>3. g \in Up(e) /\ g \notin Up(g)
    BY <2>1, PrefixIrreflexive
  <2>4. <<Up(g), Up(e)>> \in R
    BY <2>2, <2>3 DEF StrictSubsetOrdering
  <2> QED BY <1>3, <1>4, <2>4
<1>6. \E b \in l : \A g \in l : ~IsStrictPrefix(b[1], g[1])
  BY <1>5
<1> QED BY <1>6 DEF Back

-----------------------------------------------------------------------------
(* The steps of a writer.                                                  *)

Grown == DOMAIN fs \subseteq DOMAIN fs' /\ \A p \in DOMAIN fs : fs'[p] = fs[p]

HistType == [made : SUBSET Path, leaked : SUBSET Path]

\* What a step of writer t leaves in order, if nothing is amiss before.
StepOK(t) ==
  /\ TreeOK' /\ Grown
  /\ data' \subseteq DOMAIN Tree /\ hist' \in HistType
  /\ w' \in [Writer -> WriterType] /\ \A s \in Writer : s # t => w'[s] = w[s]
  /\ WriterOK(t)' /\ InTree(t)'

LEMMA Running ==
  ASSUME BaseInv, main = "run", NEW t \in Writer
  PROVE  /\ TreeOK /\ data \subseteq DOMAIN Tree /\ hist \in HistType
         /\ DOMAIN fs \subseteq Path \ {<<>>}
         /\ ts \in Int /\ ts >= 0
         /\ w \in [Writer -> WriterType] /\ w[t] \in WriterType
         /\ WriterOK(t) /\ InTree(t)
         /\ w[t].n \in Nat /\ Len(w[t].mine) \in Nat
<1>1. w \in [Writer -> WriterType] /\ ts \in Int /\ ts >= 0
  BY Given DEF BaseInv, WritersOK, ProcOK
<1>2. w[t] \in WriterType
  BY <1>1
<1>3. w[t].n \in Nat /\ Len(w[t].mine) \in Nat
  BY <1>2, WriterFields
<1> QED BY <1>1, <1>2, <1>3 DEF BaseInv, WritersOK, ProcOK, SetOK, TreeOK, HistType

\* The tree stays, and the writer goes on with what it has.
LEMMA GoesOn ==
  ASSUME BaseInv, main = "run", NEW t \in Writer,
         UNCHANGED <<fs, ts>>,
         data' \subseteq DOMAIN Tree, hist' \in HistType,
         w' \in [Writer -> WriterType], \A s \in Writer : s # t => w'[s] = w[s],
         w'[t].n = w[t].n, w'[t].f = w[t].f, w'[t].newf = w[t].newf,
         w'[t].mine = w[t].mine,
         \/ w'[t].pc = "exited"
         \/ w[t].pc \in {"create", "sync"} /\ w'[t].pc \in {"sync", "register"} /\ Exists(w[t].newf)
         \/ w[t].pc = "data" /\ w'[t].pc = "idle"
  PROVE  StepOK(t)
<1>0. /\ TreeOK /\ data \subseteq DOMAIN Tree /\ hist \in HistType
      /\ DOMAIN fs \subseteq Path \ {<<>>}
      /\ ts \in Int /\ ts >= 0
      /\ w \in [Writer -> WriterType] /\ w[t] \in WriterType
      /\ WriterOK(t) /\ InTree(t)
      /\ w[t].n \in Nat /\ Len(w[t].mine) \in Nat
  BY Running
<1> USE <1>0
<1>1. TreeOK' /\ Grown
  BY DEF TreeOK, Grown
<1>2. WriterOK(t)'
  <2>1. w[t].n \in {Len(w[t].mine), Len(w[t].mine) + 1}
    BY WriterFields DEF WriterOK, Pcs
  <2> QED BY <2>1 DEF WriterOK, OwnName
<1>3. InTree(t)'
  BY DEF InTree, Exists, Kind
<1> QED BY <1>1, <1>2, <1>3 DEF StepOK

\* A path is its directory and its name.
LEMMA FrontLast ==
  ASSUME NEW p \in Path \ {<<>>}
  PROVE  /\ Last(p) \in Name
         /\ Len(p) > 1 => p = Append(Front(p), Last(p))
<1>1. Len(p) \in Nat /\ Len(p) > 0
  BY DEF Path
<1>2. Last(p) \in Name
  BY <1>1 DEF Last, Path
<1>3. ASSUME Len(p) > 1 PROVE p = Append(Front(p), Last(p))
  <2>1. Len(p) - 1 \in 1 .. Len(p) - 1
    BY <1>1, <1>3
  <2>2. /\ Front(p) \in Seq(Name) /\ Len(Front(p)) = Len(p) - 1
        /\ \A i \in 1 .. Len(p) - 1 : Front(p)[i] = p[i]
    BY <1>1, <2>1 DEF Front, Path
  <2> DEFINE q == Append(Front(p), Last(p))
  <2>3. /\ q \in Seq(Name) /\ Len(q) = Len(p)
        /\ \A i \in 1 .. Len(p) - 1 : q[i] = p[i]
        /\ q[Len(p)] = p[Len(p)]
    BY <1>1, <1>2, <2>2 DEF Last
  <2> HIDE DEF q
  <2>4. \A i \in 1 .. Len(q) : q[i] = p[i]
    BY <1>1, <2>3
  <2>5. q = p
    BY <2>3, <2>4, SeqEqual DEF Path
  <2> QED BY <2>5 DEF q
<1> QED BY <1>2, <1>3

LEMMA PickStep ==
  ASSUME BaseInv, main = "run", NEW t \in Writer, Pick(t)
  PROVE  /\ StepOK(t) /\ UNCHANGED <<fs, data, hist>>
         /\ w[t].pc = "idle" /\ w'[t].pc = "create" /\ w'[t].n = w[t].n + 1
         /\ w'[t].mine = w[t].mine
<1>0. /\ TreeOK /\ data \subseteq DOMAIN Tree /\ hist \in HistType
      /\ DOMAIN fs \subseteq Path \ {<<>>}
      /\ ts \in Int /\ ts >= 0
      /\ w \in [Writer -> WriterType] /\ w[t] \in WriterType
      /\ WriterOK(t) /\ InTree(t)
      /\ w[t].n \in Nat /\ Len(w[t].mine) \in Nat
  BY Running
<1> USE <1>0
<1> DEFINE x == <<Base, t, ts, w[t].n>>
           dir(f) == IF Kind(f) = "dir" THEN f ELSE Front(f)
<1>1. /\ w[t].pc = "idle" /\ Len(w[t].mine) < NumWritePaths
      /\ UNCHANGED <<fs, data, hist, ts>>
  BY DEF Pick, procVars
<1>2. PICK f \in Entries(t) :
        /\ Kind(f) \in {"dir", "reg"}
        /\ w' = [w EXCEPT ![t].pc = "create", ![t].f = f, ![t].n = NextCounter(@),
                          ![t].newf = Append(dir(f), x)]
  BY DEF Pick
<1> DEFINE d == dir(f)
<1>3. f \in DOMAIN fs /\ IsStrictPrefix(InputOf(t), f)
  BY <1>2 DEF Entries, Below
<1>4. InputOf(t) \in Path \ {<<>>} /\ f \in Path
  BY <1>3, InputGiven
<1>5. d \in DOMAIN fs /\ fs[d].kind = "dir"
  <2>1. CASE Kind(f) = "dir"
    BY <1>3, <2>1 DEF Kind
  <2>2. CASE Kind(f) # "dir"
    <3>1. Front(f) \in Path \ {<<>>} /\ IsStrictPrefix(Front(f), f)
      BY <1>3, <1>4, PrefixFront, FrontPath
    <3> QED BY <1>3, <2>2, <3>1, TreeAbove DEF TreeOK
  <2> QED BY <2>1, <2>2
<1>6. InputOf(t) = d \/ IsStrictPrefix(InputOf(t), d)
  BY <1>3, <1>4, PrefixFront
<1>7. x \in Name
  BY OwnNameIsName
<1> HIDE DEF x, d
<1>8. /\ Append(d, x) \in Path \ {<<>>} /\ Last(Append(d, x)) = x
      /\ Front(Append(d, x)) = d /\ IsStrictPrefix(d, Append(d, x))
  BY <1>5, <1>7, AppendPath
<1>9. IsStrictPrefix(InputOf(t), Append(d, x))
  BY <1>4, <1>5, <1>6, <1>8, PrefixTransitive
<1>10. /\ w' \in [Writer -> WriterType] /\ \A s \in Writer : s # t => w'[s] = w[s]
       /\ w'[t].pc = "create" /\ w'[t].n = w[t].n + 1 /\ w'[t].f = f
       /\ w'[t].newf = Append(d, x) /\ w'[t].mine = w[t].mine
  <2>1. /\ w[t].n + 1 \in Nat
        /\ w' = [w EXCEPT ![t].pc = "create", ![t].f = f, ![t].n = w[t].n + 1,
                          ![t].newf = Append(d, x)]
    BY <1>2 DEF NextCounter, d, x
  <2>2. w \in [Writer -> WriterType] /\ f \in Path /\ Append(d, x) \in Path
    BY <1>4, <1>8
  <2>3. WriterIs(t, "create", w[t].n + 1, f, Append(d, x), w[t].type, w[t].mine)
    BY <2>1, <2>2, SetPicked, Zenon
  <2> QED BY <2>3 DEF WriterIs
<1>11. WriterOK(t)'
  <2>1. x = <<Base, t, ts', w'[t].n - 1>>
    BY <1>1, <1>10 DEF x
  <2>2. w'[t].n = Len(w[t].mine) + 1 /\ w'[t].n <= NumWritePaths
    BY <1>1, <1>10, Given DEF WriterOK
  <2> QED BY <1>1, <1>8, <1>9, <1>10, <2>1, <2>2 DEF WriterOK, OwnName
<1>12. InTree(t)'
  BY <1>1, <1>3, <1>5, <1>8, <1>10 DEF InTree, Exists, Kind
<1>13. TreeOK' /\ Grown
  BY <1>1 DEF TreeOK, Grown
<1> QED BY <1>1, <1>10, <1>11, <1>12, <1>13 DEF StepOK

LEMMA RegisterStep ==
  ASSUME BaseInv, main = "run", NEW t \in Writer, Register(t)
  PROVE  /\ StepOK(t) /\ UNCHANGED <<fs, data, hist>>
         /\ w[t].pc = "register" /\ w'[t].pc = AfterRegister(w[t].type)
         /\ w'[t].n = w[t].n /\ w'[t].newf = w[t].newf /\ w'[t].type = w[t].type
         /\ w'[t].mine = Append(w[t].mine, w[t].newf)
<1>0. /\ TreeOK /\ data \subseteq DOMAIN Tree /\ hist \in HistType
      /\ DOMAIN fs \subseteq Path \ {<<>>}
      /\ ts \in Int /\ ts >= 0
      /\ w \in [Writer -> WriterType] /\ w[t] \in WriterType
      /\ WriterOK(t) /\ InTree(t)
      /\ w[t].n \in Nat /\ Len(w[t].mine) \in Nat
  BY Running
<1> USE <1>0
<1> DEFINE mine == Append(w[t].mine, w[t].newf)
           pc == AfterRegister(w[t].type)
<1>1. w[t].pc = "register" /\ UNCHANGED <<fs, data, hist, ts>>
  BY DEF Register, procVars
<1>2. w[t].newf \in Path /\ w[t].mine \in Seq(Path)
  BY WriterFields
<1>3. pc \in {"data", "idle"} /\ pc \in Pcs
  BY DEF AfterRegister, Pcs
<1>4. /\ mine \in Seq(Path) /\ Len(mine) = Len(w[t].mine) + 1
      /\ \A i \in 1 .. Len(w[t].mine) : mine[i] = w[t].mine[i]
      /\ mine[Len(w[t].mine) + 1] = w[t].newf
  BY <1>2
<1>5. w' = [w EXCEPT ![t].pc = pc, ![t].mine = mine]
  BY DEF Register, Registered
<1> HIDE DEF mine, pc
<1>6. /\ w' \in [Writer -> WriterType] /\ \A s \in Writer : s # t => w'[s] = w[s]
      /\ w'[t].pc = pc /\ w'[t].n = w[t].n /\ w'[t].f = w[t].f
      /\ w'[t].newf = w[t].newf /\ w'[t].type = w[t].type /\ w'[t].mine = mine
  <2>1. w \in [Writer -> WriterType] /\ mine \in Seq(Path)
    BY <1>4
  <2>2. WriterIs(t, pc, w[t].n, w[t].f, w[t].newf, w[t].type, mine)
    BY <1>3, <1>5, <2>1, SetPcMine, Zenon
  <2> QED BY <2>2 DEF WriterIs
<1>7. w[t].n = Len(w[t].mine) + 1 /\ OwnName(t, w[t].newf, w[t].n - 1)
  BY <1>1 DEF WriterOK
<1>8. \A i \in 1 .. Len(mine) : OwnName(t, mine[i], i - 1) /\ Exists(mine[i])
  <2> SUFFICES ASSUME NEW i \in 1 .. Len(mine)
               PROVE  OwnName(t, mine[i], i - 1) /\ Exists(mine[i])
    OBVIOUS
  <2>1. CASE i \in 1 .. Len(w[t].mine)
    BY <1>4, <2>1 DEF WriterOK, InTree
  <2>2. CASE i = Len(w[t].mine) + 1
    <3>1. mine[i] = w[t].newf /\ i - 1 = w[t].n - 1
      BY <1>4, <1>7, <2>2
    <3> QED BY <1>1, <1>7, <3>1 DEF InTree
  <2> QED BY <1>4, <2>1, <2>2
<1>9. WriterOK(t)'
  BY <1>1, <1>3, <1>4, <1>6, <1>7, <1>8 DEF WriterOK, OwnName
<1>10. InTree(t)'
  BY <1>1, <1>3, <1>6, <1>8 DEF InTree, Exists
<1>11. TreeOK' /\ Grown
  BY <1>1 DEF TreeOK, Grown
<1> QED BY <1>1, <1>6, <1>9, <1>10, <1>11 DEF StepOK, mine, pc

\* The directory is extended by the name that the writer took.
LEMMA CreateNewStep ==
  ASSUME BaseInv, main = "run", NEW t \in Writer, w[t].pc = "create",
         NEW ty \in Types, CreateNew(t, ty), UNCHANGED procVars
  PROVE  /\ StepOK(t) /\ UNCHANGED data
         /\ w[t].newf \notin DOMAIN fs /\ DOMAIN fs' = DOMAIN fs \cup {w[t].newf}
         /\ fs'[w[t].newf] = NewNode(t, MadeType(t, ty))
         /\ hist' = [hist EXCEPT !.made = @ \cup {w[t].newf}]
         /\ w'[t].pc \in {"sync", "register"} /\ (w'[t].pc = "sync" => Sync)
         /\ w'[t].type = ty
         /\ w'[t].n = w[t].n /\ w'[t].newf = w[t].newf /\ w'[t].mine = w[t].mine
<1>0. /\ TreeOK /\ data \subseteq DOMAIN Tree /\ hist \in HistType
      /\ DOMAIN fs \subseteq Path \ {<<>>}
      /\ ts \in Int /\ ts >= 0
      /\ w \in [Writer -> WriterType] /\ w[t] \in WriterType
      /\ WriterOK(t) /\ InTree(t)
      /\ w[t].n \in Nat /\ Len(w[t].mine) \in Nat
  BY Running
<1> USE <1>0
<1> DEFINE f == w[t].f
           new == w[t].newf
           d == Front(new)
           x == Last(new)
           node == NewNode(t, MadeType(t, ty))
           pc == IF Sync THEN "sync" ELSE "register"
<1>1. /\ new \notin DOMAIN fs /\ fs' = With(new, node)
      /\ hist' = [hist EXCEPT !.made = @ \cup {new}]
      /\ w' = [w EXCEPT ![t].pc = pc, ![t].type = ty]
      /\ UNCHANGED <<data, ts>>
  BY DEF CreateNew, Created, Exists, procVars
<1>2. /\ f \in Path /\ new \in Path /\ w[t].mine \in Seq(Path)
      /\ f \in DOMAIN fs /\ d \in DOMAIN fs /\ fs[d].kind = "dir"
      /\ OwnName(t, new, w[t].n - 1)
  BY WriterFields DEF WriterOK, InTree, Exists, Kind
<1>3. ty \in {"dir", "reg", "symlink", "link"}
  BY Given
<1>4. node \in Node
  <2>1. fs[f] \in Node
    BY <1>2 DEF TreeOK
  <2>2. MadeType(t, ty) \in {"dir", "reg", "symlink", "link"}
    BY <1>3 DEF MadeType
  <2>3. CASE MadeType(t, ty) = "link"
    BY <2>1, <2>3 DEF NewNode
  <2>4. CASE MadeType(t, ty) = "symlink"
    <3>1. node = [kind |-> "symlink", of |-> f]
      BY <2>4 DEF NewNode
    <3> QED BY <1>2, <3>1 DEF Node
  <2>5. CASE MadeType(t, ty) \in {"dir", "reg"}
    <3>1. node = [kind |-> MadeType(t, ty), of |-> new]
      BY <2>5 DEF NewNode
    <3> QED BY <1>2, <2>5, <3>1 DEF Node
  <2> QED BY <2>2, <2>3, <2>4, <2>5
<1>5. new = Append(d, x) /\ x \in Name
  <2>1. new \in Path \ {<<>>} /\ IsStrictPrefix(InputOf(t), new)
    BY <1>2 DEF OwnName
  <2>2. Len(new) > 1
    BY <2>1, InputGiven, PrefixFront
  <2> QED BY <2>1, <2>2, FrontLast
<1>6. pc \in {"sync", "register"} /\ pc \in Pcs /\ (pc = "sync" => Sync)
  BY DEF Pcs
<1> HIDE DEF f, d, x, node, pc
<1>7. /\ TreeOK' /\ DOMAIN fs' = DOMAIN fs \cup {new} /\ fs'[new] = node
      /\ \A p \in DOMAIN fs : fs'[p] = fs[p]
  <2>1. Append(d, x) \notin DOMAIN fs /\ fs' = With(Append(d, x), node)
    BY <1>1, <1>5
  <2>2. d \in DOMAIN fs /\ fs[d].kind = "dir" /\ x \in Name
    BY <1>2, <1>5
  <2>3. /\ TreeOK' /\ DOMAIN fs' = DOMAIN fs \cup {Append(d, x)}
        /\ fs'[Append(d, x)] = node /\ \A p \in DOMAIN fs : fs'[p] = fs[p]
    BY <1>4, <2>1, <2>2, TreeGrows, Zenon
  <2> QED BY <1>5, <2>3
<1>8. /\ w' \in [Writer -> WriterType] /\ \A s \in Writer : s # t => w'[s] = w[s]
      /\ w'[t].pc = pc /\ w'[t].n = w[t].n /\ w'[t].f = w[t].f
      /\ w'[t].newf = new /\ w'[t].type = ty /\ w'[t].mine = w[t].mine
  <2>1. WriterIs(t, pc, w[t].n, w[t].f, w[t].newf, ty, w[t].mine)
    BY <1>1, <1>3, <1>6, SetPcType, Zenon
  <2> QED BY <2>1 DEF WriterIs
<1>9. hist' \in HistType
  BY <1>1, <1>2 DEF HistType
<1>10. WriterOK(t)'
  BY <1>1, <1>6, <1>8 DEF WriterOK, OwnName
<1>11. InTree(t)'
  BY <1>6, <1>7, <1>8 DEF InTree, Exists
<1>12. Grown
  BY <1>7 DEF Grown
<1>13. StepOK(t)
  BY <1>1, <1>7, <1>8, <1>9, <1>10, <1>11, <1>12 DEF StepOK
<1> QED BY <1>1, <1>6, <1>7, <1>8, <1>13 DEF node

\* The name exists, or the call fails.
LEMMA CreateOldStep ==
  ASSUME BaseInv, main = "run", NEW t \in Writer, w[t].pc = "create",
         NEW ty \in Types, CreateOver(t, ty) \/ CreateFault(t, ty), UNCHANGED procVars
  PROVE  /\ StepOK(t) /\ UNCHANGED <<fs, hist>>
         /\ data' = data \/ Exists(w[t].newf)
         /\ w'[t].pc = "exited" \/ (Exists(w[t].newf) /\ w'[t].pc \in {"sync", "register"})
         /\ w'[t].pc = "sync" => Sync
         /\ w'[t].n = w[t].n /\ w'[t].newf = w[t].newf /\ w'[t].mine = w[t].mine
<1>0. /\ TreeOK /\ data \subseteq DOMAIN Tree /\ hist \in HistType
      /\ DOMAIN fs \subseteq Path \ {<<>>}
      /\ ts \in Int /\ ts >= 0
      /\ w \in [Writer -> WriterType] /\ w[t] \in WriterType
      /\ WriterOK(t) /\ InTree(t)
      /\ w[t].n \in Nat /\ Len(w[t].mine) \in Nat
  BY Running
<1> USE <1>0
<1> DEFINE pc == IF Sync THEN "sync" ELSE "register"
<1>1. UNCHANGED <<fs, hist, ts>>
  BY DEF CreateOver, CreateFault, procVars
<1>2. data' \subseteq DOMAIN Tree /\ (data' = data \/ Exists(w[t].newf))
  BY DEF CreateOver, CreateFault, UserData
<1>3. \/ w' = [w EXCEPT ![t].pc = "exited"]
      \/ Exists(w[t].newf) /\ w' = [w EXCEPT ![t].pc = pc, ![t].type = ty]
  BY DEF CreateOver, CreateFault, Created, Fail
<1>4. pc \in {"sync", "register"} /\ pc \in Pcs /\ "exited" \in Pcs /\ (pc = "sync" => Sync)
  BY DEF Pcs
<1>5. ty \in {"dir", "reg", "symlink", "link"}
  BY Given
<1> HIDE DEF pc
<1>6. /\ w' \in [Writer -> WriterType] /\ \A s \in Writer : s # t => w'[s] = w[s]
      /\ w'[t].pc = "exited" \/ (Exists(w[t].newf) /\ w'[t].pc = pc)
      /\ w'[t].n = w[t].n /\ w'[t].f = w[t].f
      /\ w'[t].newf = w[t].newf /\ w'[t].mine = w[t].mine
  <2>1. CASE w' = [w EXCEPT ![t].pc = "exited"]
    <3>1. w' = [w EXCEPT ![t].pc = "exited"] /\ "exited" \in Pcs
      BY <2>1 DEF Pcs
    <3>2. WriterIs(t, "exited", w[t].n, w[t].f, w[t].newf, w[t].type, w[t].mine)
      BY <3>1, SetPc, Zenon
    <3> QED BY <3>2 DEF WriterIs
  <2>2. CASE Exists(w[t].newf) /\ w' = [w EXCEPT ![t].pc = pc, ![t].type = ty]
    <3>1. WriterIs(t, pc, w[t].n, w[t].f, w[t].newf, ty, w[t].mine)
      BY <1>4, <1>5, <2>2, SetPcType, Zenon
    <3> QED BY <2>2, <3>1 DEF WriterIs
  <2> QED BY <1>3, <2>1, <2>2
<1>7. StepOK(t)
  BY <1>1, <1>2, <1>4, <1>6, GoesOn
<1> QED BY <1>1, <1>2, <1>4, <1>6, <1>7

LEMMA SyncStep ==
  ASSUME BaseInv, main = "run", NEW t \in Writer, SyncPath(t)
  PROVE  /\ StepOK(t) /\ UNCHANGED <<fs, data>>
         /\ w[t].pc = "sync" /\ w'[t].pc \in {"register", "exited"}
         /\ w'[t].pc = "register" => hist' = hist
         /\ w'[t].pc = "exited" =>
              /\ "error" \in Faults
              /\ hist' = [hist EXCEPT !.leaked = @ \cup {w[t].newf}]
         /\ w'[t].n = w[t].n /\ w'[t].newf = w[t].newf
         /\ w'[t].type = w[t].type /\ w'[t].mine = w[t].mine
<1>0. /\ TreeOK /\ data \subseteq DOMAIN Tree /\ hist \in HistType
      /\ DOMAIN fs \subseteq Path \ {<<>>}
      /\ ts \in Int /\ ts >= 0
      /\ w \in [Writer -> WriterType] /\ w[t] \in WriterType
      /\ WriterOK(t) /\ InTree(t)
      /\ w[t].n \in Nat /\ Len(w[t].mine) \in Nat
  BY Running
<1> USE <1>0
<1>1. w[t].pc = "sync" /\ UNCHANGED <<fs, data, ts>> /\ Exists(w[t].newf)
  BY DEF SyncPath, procVars, InTree
<1>2. PICK pc \in {"register", "exited"} :
        /\ w' = [w EXCEPT ![t].pc = pc]
        /\ pc = "register" => hist' = hist
        /\ pc = "exited" =>
             "error" \in Faults /\ hist' = [hist EXCEPT !.leaked = @ \cup {w[t].newf}]
  BY DEF SyncPath, Fail
<1>3. pc \in Pcs
  BY DEF Pcs
<1>4. /\ w' \in [Writer -> WriterType] /\ \A s \in Writer : s # t => w'[s] = w[s]
      /\ w'[t].pc = pc /\ w'[t].n = w[t].n /\ w'[t].f = w[t].f
      /\ w'[t].newf = w[t].newf /\ w'[t].type = w[t].type /\ w'[t].mine = w[t].mine
  <2>1. WriterIs(t, pc, w[t].n, w[t].f, w[t].newf, w[t].type, w[t].mine)
    BY <1>2, <1>3, SetPc, Zenon
  <2> QED BY <2>1 DEF WriterIs
<1>5. hist' \in HistType
  <2>1. w[t].newf \in Path
    BY WriterFields
  <2> QED BY <1>2, <2>1 DEF HistType
<1>6. StepOK(t)
  BY <1>1, <1>2, <1>4, <1>5, GoesOn
<1> QED BY <1>1, <1>2, <1>4, <1>6

LEMMA DataStep ==
  ASSUME BaseInv, main = "run", NEW t \in Writer, WriteData(t)
  PROVE  /\ StepOK(t) /\ UNCHANGED <<fs, hist>>
         /\ data' \in {data, data \cup UserData(w[t].newf)}
         /\ w[t].pc = "data" /\ w'[t].pc \in {"idle", "exited"}
         /\ w'[t].n = w[t].n /\ w'[t].newf = w[t].newf
         /\ w'[t].type = w[t].type /\ w'[t].mine = w[t].mine
<1>0. /\ TreeOK /\ data \subseteq DOMAIN Tree /\ hist \in HistType
      /\ DOMAIN fs \subseteq Path \ {<<>>}
      /\ ts \in Int /\ ts >= 0
      /\ w \in [Writer -> WriterType] /\ w[t] \in WriterType
      /\ WriterOK(t) /\ InTree(t)
      /\ w[t].n \in Nat /\ Len(w[t].mine) \in Nat
  BY Running
<1> USE <1>0
<1>1. /\ w[t].pc = "data" /\ UNCHANGED <<fs, hist, ts>>
      /\ data' \in {data, data \cup UserData(w[t].newf)}
  BY DEF WriteData, procVars
<1>2. PICK pc \in {"idle", "exited"} : w' = [w EXCEPT ![t].pc = pc]
  BY DEF WriteData, Fail
<1>3. pc \in Pcs
  BY DEF Pcs
<1>4. /\ w' \in [Writer -> WriterType] /\ \A s \in Writer : s # t => w'[s] = w[s]
      /\ w'[t].pc = pc /\ w'[t].n = w[t].n /\ w'[t].f = w[t].f
      /\ w'[t].newf = w[t].newf /\ w'[t].type = w[t].type /\ w'[t].mine = w[t].mine
  <2>1. WriterIs(t, pc, w[t].n, w[t].f, w[t].newf, w[t].type, w[t].mine)
    BY <1>2, <1>3, SetPc, Zenon
  <2> QED BY <2>1 DEF WriterIs
<1>5. data' \subseteq DOMAIN Tree
  BY <1>1 DEF UserData
<1>6. StepOK(t)
  BY <1>1, <1>2, <1>4, <1>5, GoesOn
<1> QED BY <1>1, <1>2, <1>4, <1>6

LEMMA LeaveStep ==
  ASSUME BaseInv, main = "run", NEW t \in Writer, Leave(t)
  PROVE  /\ StepOK(t) /\ UNCHANGED <<fs, data, hist>>
         /\ w[t].pc = "idle" /\ w'[t].pc = "exited"
         /\ w'[t].n = w[t].n /\ w'[t].mine = w[t].mine
<1>0. /\ TreeOK /\ data \subseteq DOMAIN Tree /\ hist \in HistType
      /\ DOMAIN fs \subseteq Path \ {<<>>}
      /\ ts \in Int /\ ts >= 0
      /\ w \in [Writer -> WriterType] /\ w[t] \in WriterType
      /\ WriterOK(t) /\ InTree(t)
      /\ w[t].n \in Nat /\ Len(w[t].mine) \in Nat
  BY Running
<1> USE <1>0
<1>1. w[t].pc = "idle" /\ UNCHANGED <<fs, data, hist, ts>>
  BY DEF Leave, procVars
<1>2. /\ w' \in [Writer -> WriterType] /\ \A s \in Writer : s # t => w'[s] = w[s]
      /\ w'[t].pc = "exited" /\ w'[t].n = w[t].n /\ w'[t].f = w[t].f
      /\ w'[t].newf = w[t].newf /\ w'[t].mine = w[t].mine
  <2>1. w' = [w EXCEPT ![t].pc = "exited"] /\ "exited" \in Pcs
    BY DEF Leave, Pcs
  <2>2. WriterIs(t, "exited", w[t].n, w[t].f, w[t].newf, w[t].type, w[t].mine)
    BY <2>1, SetPc, Zenon
  <2> QED BY <2>2 DEF WriterIs
<1>3. StepOK(t)
  BY <1>1, <1>2, GoesOn
<1> QED BY <1>1, <1>2, <1>3

\* Every step of a writer is one of these, and keeps what the others rest on.
LEMMA WriterStepOK ==
  ASSUME BaseInv, main = "run", NEW t \in Writer, WriterStep(t)
  PROVE  StepOK(t) /\ UNCHANGED procVars
<1>1. CASE Pick(t)
  BY <1>1, PickStep DEF Pick
<1>2. CASE Create(t)
  <2>1. w[t].pc = "create" /\ UNCHANGED procVars
    BY <1>2 DEF Create
  <2>2. PICK ty \in Types : CreateNew(t, ty) \/ (CreateOver(t, ty) \/ CreateFault(t, ty))
    BY <1>2 DEF Create
  <2> QED BY <2>1, <2>2, CreateNewStep, CreateOldStep
<1>3. CASE SyncPath(t)
  BY <1>3, SyncStep DEF SyncPath
<1>4. CASE Register(t)
  BY <1>4, RegisterStep DEF Register
<1>5. CASE WriteData(t)
  BY <1>5, DataStep DEF WriteData
<1>6. CASE Leave(t)
  BY <1>6, LeaveStep DEF Leave
<1> QED BY <1>1, <1>2, <1>3, <1>4, <1>5, <1>6 DEF WriterStep

LEMMA WriterKeeps ==
  ASSUME BaseInv, main = "run", NEW t \in Writer, WriterStep(t)
  PROVE  BaseInv'
<1>1. /\ TreeOK' /\ Grown
      /\ data' \subseteq DOMAIN Tree /\ hist' \in HistType
      /\ w' \in [Writer -> WriterType] /\ \A s \in Writer : s # t => w'[s] = w[s]
      /\ WriterOK(t)' /\ InTree(t)'
  BY WriterStepOK DEF StepOK
<1>2. UNCHANGED <<main, mode, u, fl, set, ts, now>>
  BY WriterStepOK DEF procVars
<1>3. ListOK' /\ ProcOK'
  BY <1>1, <1>2 DEF BaseInv, ListOK, ProcOK, HistType
<1>4. ASSUME NEW s \in Writer, s # t PROVE WriterOK(s)' /\ InTree(s)'
  <2>1. w'[s] = w[s] /\ ts' = ts /\ WriterOK(s) /\ InTree(s)
    BY <1>1, <1>2, <1>4 DEF BaseInv, WritersOK, SetOK
  <2>2. WriterOK(s)'
    BY <2>1 DEF WriterOK, OwnName
  <2>3. InTree(s)'
    BY <1>1, <2>1 DEF InTree, Grown, Exists, Kind
  <2> QED BY <2>2, <2>3
<1>5. WritersOK'
  BY <1>1, <1>4 DEF WritersOK
<1>6. SetOK'
  BY <1>1, <1>2, <1>4 DEF SetOK, BaseInv
<1> QED BY <1>1, <1>3, <1>5, <1>6 DEF BaseInv

-----------------------------------------------------------------------------
(* The lists of unlink_write_paths.                                        *)

LEMMA SplicedIs ==
  ASSUME WritersOK
  PROVE  /\ Spliced \in SUBSET Entry /\ IsFiniteSet(Spliced)
         /\ \A e \in Spliced : \E t \in Writer : \E i \in 1 .. Len(w[t].mine) :
              e = <<w[t].mine[i], t, i>>
<1>1. ASSUME NEW t \in Writer, NEW i \in DOMAIN w[t].mine
      PROVE  /\ i \in 1 .. Len(w[t].mine) /\ i \in 1 .. NumWritePaths
             /\ w[t].mine[i] \in Path /\ t \in Int /\ i \in Int
  <2>1. w[t] \in WriterType /\ WriterOK(t) /\ t \in Int
    BY Given DEF WritersOK, Writer
  <2>2. w[t].mine \in Seq(Path) /\ w[t].n \in Nat /\ w[t].pc \in Pcs
    BY <2>1, WriterFields
  <2>3. Len(w[t].mine) <= NumWritePaths /\ Len(w[t].mine) \in Nat
    BY <2>1, <2>2, Given DEF WriterOK, Pcs
  <2> QED BY <2>1, <2>2, <2>3, Given
<1>2. \A e \in Spliced : \E t \in Writer : \E i \in DOMAIN w[t].mine :
        e = <<w[t].mine[i], t, i>>
  BY DEF Spliced
<1>3. Spliced \in SUBSET Entry
  BY <1>1, <1>2 DEF Entry
<1>4. IsFiniteSet(Spliced)
  <2> DEFINE T == Writer \X (1 .. NumWritePaths)
             g == [e \in Spliced |-> <<e[2], e[3]>>]
  <2>1. IsFiniteSet(T)
    <3>1. NumWriter - 1 \in Int /\ NumWritePaths \in Int
      BY Given
    <3>2. IsFiniteSet(0 .. NumWriter - 1) /\ IsFiniteSet(1 .. NumWritePaths)
      BY <3>1, FS_Interval
    <3> QED BY <3>2, FS_Product DEF Writer
  <2>2. g \in [Spliced -> T]
    BY <1>1, <1>2
  <2>3. \A a, b \in Spliced : g[a] = g[b] => a = b
    BY <1>2
  <2>4. g \in Injection(Spliced, T)
    BY <2>2, <2>3 DEF Injection, IsInjective
  <2> QED BY <2>1, <2>4, FS_Injection
<1> QED BY <1>1, <1>2, <1>3, <1>4

LEMMA CollectedIs ==
  ASSUME TreeOK
  PROVE  /\ Collected \in SUBSET Entry /\ IsFiniteSet(Collected)
         /\ \A p, n : <<p, n>> \in Collected <=>
              n \in DOMAIN Input /\ p \in Below(Input[n]) /\ IsCleanable(p)
         /\ \A e \in Collected : e = <<e[1], e[2]>>
<1>1. \A e : e \in Collected <=> \E n \in DOMAIN Input : \E p \in Below(Input[n]) :
        IsCleanable(p) /\ e = <<p, n>>
  <2> DEFINE At(n) == {<<p, n>> : p \in {q \in Below(Input[n]) : IsCleanable(q)}}
  <2>1. Collected = UNION {At(n) : n \in DOMAIN Input}
    BY DEF Collected
  <2>2. \A n, e : e \in At(n) <=> \E p \in Below(Input[n]) : IsCleanable(p) /\ e = <<p, n>>
    OBVIOUS
  <2> HIDE DEF At
  <2> QED BY <2>1, <2>2
<1>2. ASSUME NEW e \in Collected PROVE e \in (DOMAIN fs) \X (DOMAIN Input)
  <2>1. PICK n \in DOMAIN Input : \E p \in Below(Input[n]) : e = <<p, n>>
    BY <1>1
  <2>2. PICK p \in Below(Input[n]) : e = <<p, n>>
    BY <2>1
  <2>3. n \in DOMAIN Input /\ p \in DOMAIN fs /\ e = <<p, n>>
    BY <2>1, <2>2 DEF Below
  <2> QED BY <2>3
<1>3. DOMAIN Input = 1 .. Len(Input) /\ Len(Input) \in Nat
  BY WritePathsAssumption DEF WritePathsAssumption
<1>4. IsFiniteSet((DOMAIN fs) \X (DOMAIN Input))
  <2>1. IsFiniteSet(1 .. Len(Input))
    BY <1>3, FS_Interval
  <2>2. IsFiniteSet(DOMAIN fs)
    BY DEF TreeOK
  <2>3. IsFiniteSet(DOMAIN Input)
    BY <1>3, <2>1, Zenon
  <2> QED BY <2>2, <2>3, FS_Product, Zenon
<1>5. IsFiniteSet(Collected)
  <2>1. Collected \in SUBSET ((DOMAIN fs) \X (DOMAIN Input))
    BY <1>2
  <2> QED BY <1>4, <2>1, FS_Subset
<1>6. Collected \in SUBSET Entry
  <2>1. DOMAIN fs \subseteq Path /\ DOMAIN Input \subseteq Int
    BY <1>3 DEF TreeOK
  <2>2. ASSUME NEW e \in Collected PROVE e \in Path \X Int
    BY <1>2, <2>1
  <2> QED BY <2>2 DEF Entry
<1>7. ASSUME NEW e \in Collected PROVE e = <<e[1], e[2]>>
  BY <1>2
<1>8. ASSUME NEW p, NEW n
      PROVE  <<p, n>> \in Collected <=>
               n \in DOMAIN Input /\ p \in Below(Input[n]) /\ IsCleanable(p)
  <2>1. \A q, m : <<p, n>> = <<q, m>> <=> p = q /\ n = m
    OBVIOUS
  <2> QED BY <1>1, <2>1, Zenon
<1> QED BY <1>5, <1>6, <1>7, <1>8

LEMMA NewList ==
  ASSUME NEW l \in SUBSET Entry, IsFiniteSet(l), u' = StartUnlink(l)
  PROVE  ListOK' /\ u'.l = l /\ u'.n = Cardinality(l) /\ u'.pc = "type"
BY FS_CardinalityType DEF StartUnlink, ListOK

LEMMA NoList == {} \in SUBSET Entry /\ IsFiniteSet({}) /\ Cardinality({}) = 0
BY FS_EmptySet

\* The back of the list of a state, if n counts something.
LEMMA BackOfList ==
  ASSUME ListOK, u.n > 0
  PROVE  /\ Back(u.l) \in u.l /\ File \in Path /\ u.l # {}
         /\ \A g \in u.l : ~IsStrictPrefix(File, g[1])
         /\ IsFiniteSet(u.l \ {Back(u.l)})
         /\ Cardinality(u.l \ {Back(u.l)}) = Cardinality(u.l) - 1
<1>1. u.l \in SUBSET Entry /\ IsFiniteSet(u.l) /\ u.n \in Nat /\ u.n <= Cardinality(u.l)
  BY DEF ListOK
<1>2. u.l # {}
  BY <1>1, FS_EmptySet
<1>3. Back(u.l) \in u.l /\ \A g \in u.l : ~IsStrictPrefix(Back(u.l)[1], g[1])
  BY <1>1, <1>2, BackIs
<1>4. File \in Path
  BY <1>1, <1>3, EntryPath DEF File
<1> QED BY <1>1, <1>2, <1>3, <1>4, FS_RemoveElement DEF File

-----------------------------------------------------------------------------
(* The steps of main.                                                      *)

LEMMA InitBase ==
  ASSUME Init
  PROVE  BaseInv
<1>1. /\ fs = Tree /\ data = {} /\ w = [t \in Writer |-> NewWriter]
      /\ main = "run" /\ mode = "dispatch" /\ set = 0 /\ now = 0 /\ ts = 0
      /\ hist = [made |-> {}, leaked |-> {}]
      /\ u = [l |-> {}, n |-> Cardinality({}), pc |-> "type"]
  BY DEF Init, StartUnlink
<1>2. TreeOK
  BY <1>1, Given DEF TreeOK
<1>3. ListOK
  BY <1>1, FS_EmptySet DEF ListOK
<1>4. ProcOK
  BY <1>1, Given DEF ProcOK, Ended
<1>5. w \in [Writer -> WriterType] /\ \A t \in Writer : w[t] = NewWriter
  <2>1. <<>> \in Path /\ <<>> \in Seq(Path)
    BY DEF Path
  <2>2. NewWriter \in WriterType
    BY <2>1 DEF NewWriter, WriterType, Pcs
  <2> QED BY <1>1, <2>2
<1>6. \A t \in Writer : WriterOK(t) /\ InTree(t)
  <2>1. \A i \in 1 .. Len(<<>>) : FALSE
    OBVIOUS
  <2> QED BY <1>5, <2>1, Given DEF WriterOK, InTree, NewWriter
<1> QED BY <1>1, <1>2, <1>3, <1>4, <1>5, <1>6 DEF BaseInv, WritersOK, SetOK

LEMMA JoinKeeps ==
  ASSUME BaseInv, JoinWriters
  PROVE  BaseInv'
<1>1. /\ main = "run" /\ \A t \in Writer : w[t].pc = "exited"
      /\ u' = StartUnlink(Spliced) /\ main' \in {"report", "unlink"}
      /\ UNCHANGED <<fs, data, w, mode, fl, set, ts, now, hist>>
  BY DEF JoinWriters, worldVars
<1>2. Spliced \in SUBSET Entry /\ IsFiniteSet(Spliced)
  BY SplicedIs DEF BaseInv
<1>3. ListOK'
  BY <1>1, <1>2, NewList
<1>4. TreeOK' /\ ProcOK'
  BY <1>1 DEF BaseInv, TreeOK, ProcOK
<1>5. WritersOK'
  BY <1>1 DEF BaseInv, WritersOK, WriterOK, OwnName
<1>6. SetOK'
  BY <1>1 DEF SetOK
<1> QED BY <1>3, <1>4, <1>5, <1>6 DEF BaseInv

\* What the steps of unlink_write_paths do to the tree, the list and the process.
LEMMA TestTypeOK ==
  ASSUME BaseInv, main = "unlink", TestType
  PROVE  /\ UNCHANGED fs /\ u'.l = u.l /\ u'.n = u.n /\ ListOK'
         /\ \/ main' = main /\ Exists(File) /\ Kind(File) # "other"
            \/ UNCHANGED u /\ u.n = 0 /\ main' = Returned("ok", u.l)
            \/ /\ UNCHANGED u /\ u.n > 0 /\ main' = Returned("einval", u.l)
               /\ ~Exists(File) \/ Kind(File) = "other"
<1>1. ListOK /\ u.n \in Nat
  BY DEF BaseInv, ListOK
<1>2. CASE u.n = 0
  BY <1>1, <1>2 DEF TestType, ListOK
<1>3. CASE u.n # 0 /\ (~Exists(File) \/ Kind(File) = "other")
  BY <1>1, <1>3 DEF TestType, Gone, ListOK
<1>4. CASE u.n # 0 /\ Exists(File) /\ Kind(File) # "other"
  <2>1. PICK pc \in {"exists", "assert"} : u' = [u EXCEPT !.pc = pc]
    BY <1>4 DEF TestType, Goto
  <2>2. UNCHANGED <<fs, main>>
    BY <1>4 DEF TestType, Goto
  <2>3. u'.l = u.l /\ u'.n = u.n /\ ListOK'
    BY <1>1, <1>4, <2>1 DEF ListOK
  <2> QED BY <1>4, <2>2, <2>3
<1> QED BY <1>2, <1>3, <1>4

LEMMA AssertExistsOK ==
  ASSUME BaseInv, main = "unlink", AssertExists
  PROVE  /\ UNCHANGED fs /\ u'.l = u.l /\ u'.n = u.n /\ ListOK'
         /\ \/ main' = main
            \/ UNCHANGED u /\ ~Exists(File) /\ main' = "abort"
<1>1. ListOK /\ u.n \in Nat /\ u.n > 0
  BY DEF BaseInv, ListOK, AssertExists
<1>2. CASE Exists(File)
  <2>1. u' = [u EXCEPT !.pc = "exists"] /\ UNCHANGED <<fs, main>>
    BY <1>2 DEF AssertExists, Goto
  <2> QED BY <1>1, <2>1 DEF ListOK
<1>3. CASE ~Exists(File)
  BY <1>1, <1>3 DEF AssertExists, ListOK
<1> QED BY <1>2, <1>3

LEMMA TestExistsOK ==
  ASSUME BaseInv, main = "unlink", TestExists
  PROVE  UNCHANGED <<fs, main>> /\ u'.l = u.l /\ u'.n = u.n /\ ListOK'
<1>1. ListOK /\ u.n \in Nat /\ u.n > 0
  BY DEF BaseInv, ListOK, TestExists
<1>2. PICK pc \in {"remove", "type"} : u' = [u EXCEPT !.pc = pc]
  BY DEF TestExists, Goto
<1>3. UNCHANGED <<fs, main>>
  BY DEF TestExists, Goto
<1> QED BY <1>1, <1>2, <1>3 DEF ListOK

LEMMA RemovePathOK ==
  ASSUME BaseInv, main = "unlink", RemovePath
  PROVE  /\ TreeOK' /\ ListOK' /\ u.n > 0
         /\ \/ /\ Exists(File) /\ Below(File) = {} /\ fs' = Without(File)
               /\ u'.l = u.l \ {Back(u.l)} /\ u'.n = u.n - 1
               /\ u'.pc = "type" /\ main' = main
            \/ /\ UNCHANGED <<fs, main>> /\ ~Exists(File)
               /\ u'.l = u.l /\ u'.n = u.n - 1 /\ u'.pc = "type"
            \/ /\ UNCHANGED <<fs, u>> /\ Exists(File)
               /\ Below(File) # {} \/ "throw" \in Faults
               /\ main' = Thrown
<1>1. /\ TreeOK /\ ListOK /\ u.n \in Nat /\ u.n > 0 /\ Cardinality(u.l) \in Nat
      /\ u.n <= Cardinality(u.l)
  BY FS_CardinalityType DEF BaseInv, ListOK, RemovePath
<1>2. /\ Back(u.l) \in u.l /\ IsFiniteSet(u.l \ {Back(u.l)})
      /\ Cardinality(u.l \ {Back(u.l)}) = Cardinality(u.l) - 1
  BY <1>1, BackOfList
<1>3. CASE /\ Exists(File) /\ Below(File) = {}
           /\ fs' = Without(File)
           /\ u' = [l |-> u.l \ {Back(u.l)}, n |-> u.n - 1, pc |-> "type"]
           /\ UNCHANGED main
  <2>1. TreeOK'
    BY <1>1, <1>3, TreeShrinks
  <2>2. ListOK'
    BY <1>1, <1>2, <1>3 DEF ListOK
  <2> QED BY <1>1, <1>3, <2>1, <2>2
<1>4. CASE /\ ~Exists(File)
           /\ u' = [u EXCEPT !.n = @ - 1, !.pc = "type"]
           /\ UNCHANGED <<fs, main>>
  <2>1. TreeOK'
    BY <1>1, <1>4 DEF TreeOK
  <2>2. ListOK' /\ u'.l = u.l /\ u'.n = u.n - 1
    <3>1. u \in [l : SUBSET Entry, n : Nat, pc : {"type", "assert", "exists", "remove"}]
      BY <1>1 DEF ListOK
    <3>2. u' = [u EXCEPT !.n = u.n - 1, !.pc = "type"] /\ u.n - 1 \in Nat
      BY <1>1, <1>4
    <3>3. /\ u' \in [l : SUBSET Entry, n : Nat, pc : {"type", "assert", "exists", "remove"}]
          /\ u'.l = u.l /\ u'.n = u.n - 1 /\ u'.pc = "type"
      BY <3>1, <3>2
    <3> QED BY <1>1, <3>3 DEF ListOK
  <2> QED BY <1>1, <1>4, <2>1, <2>2
<1>5. CASE /\ Exists(File)
           /\ Below(File) # {} \/ "throw" \in Faults
           /\ main' = Thrown
           /\ UNCHANGED <<fs, u>>
  <2>1. TreeOK' /\ ListOK'
    BY <1>1, <1>5 DEF TreeOK, ListOK
  <2> QED BY <1>1, <1>5, <2>1
<1> QED BY <1>3, <1>4, <1>5 DEF RemovePath

LEMMA UnlinkKeeps ==
  ASSUME BaseInv, UnlinkStep
  PROVE  BaseInv'
<1>1. main = "unlink" /\ UNCHANGED <<mode, data, w, fl, set, ts, now, hist>>
  BY DEF UnlinkStep
<1>2. /\ \A ret : Returned(ret, u.l) \in {"report", "cleaned", "failed"}
      /\ \A ret : Returned(ret, u.l) = "report" => mode = "dispatch"
      /\ Thrown \in {"failed", "abort"}
  BY DEF Returned, Thrown
<1>3. /\ TreeOK' /\ ListOK'
      /\ main' \in {"unlink", "report", "cleaned", "failed", "abort"}
      /\ main' = "report" => mode = "dispatch"
  <2>1. CASE TestType
    BY <1>1, <1>2, <2>1, TestTypeOK DEF BaseInv, TreeOK
  <2>2. CASE AssertExists
    BY <1>1, <2>2, AssertExistsOK DEF BaseInv, TreeOK
  <2>3. CASE TestExists
    BY <1>1, <2>3, TestExistsOK DEF BaseInv, TreeOK
  <2>4. CASE RemovePath
    BY <1>1, <1>2, <2>4, RemovePathOK
  <2> QED BY <2>1, <2>2, <2>3, <2>4 DEF UnlinkStep
<1>4. ProcOK'
  BY <1>1, <1>3 DEF BaseInv, ProcOK, Ended
<1>5. WritersOK'
  BY <1>1 DEF BaseInv, WritersOK, WriterOK, OwnName
<1>6. SetOK'
  BY <1>1, <1>3 DEF BaseInv, SetOK
<1> QED BY <1>3, <1>4, <1>5, <1>6 DEF BaseInv

LEMMA StartSetKeeps ==
  ASSUME BaseInv, StartSet
  PROVE  BaseInv' /\ w' \in [Writer -> {NewWriter}]
<1>1. /\ main = "report" /\ main' = "run" /\ set' = set + 1 /\ set + 1 < NumSet
      /\ ts' = now /\ w' = [t \in Writer |-> NewWriter]
      /\ u' = [l |-> {}, n |-> Cardinality({}), pc |-> "type"]
      /\ hist' = [hist EXCEPT !.made = {}]
      /\ UNCHANGED <<fs, data, mode, now>>
  BY DEF StartSet, StartUnlink
<1>2. TreeOK'
  BY <1>1 DEF BaseInv, TreeOK
<1>3. ListOK'
  BY <1>1, FS_EmptySet DEF ListOK
<1>4. ProcOK'
  BY <1>1, Given DEF BaseInv, ProcOK
<1>5. w' \in [Writer -> WriterType] /\ \A t \in Writer : w'[t] = NewWriter
  <2>1. <<>> \in Path /\ <<>> \in Seq(Path)
    BY DEF Path
  <2>2. NewWriter \in WriterType
    BY <2>1 DEF NewWriter, WriterType, Pcs
  <2> QED BY <1>1, <2>2
<1>6. \A t \in Writer : WriterOK(t)' /\ InTree(t)'
  <2>1. \A i \in 1 .. Len(<<>>) : FALSE
    OBVIOUS
  <2> QED BY <1>5, <2>1, Given DEF WriterOK, InTree, NewWriter
<1> QED BY <1>1, <1>2, <1>3, <1>4, <1>5, <1>6 DEF BaseInv, WritersOK, SetOK

LEMMA OtherKeeps ==
  ASSUME BaseInv, Finish \/ Crash \/ CleanWritePaths \/ Interfere \/ Tick \/ UNCHANGED vars
  PROVE  BaseInv'
<1>1. CASE Finish \/ Crash
  <2>1. main' \in {"done", "crashed"} /\ UNCHANGED <<mode, u, fs, data, w, fl, set, ts, now, hist>>
    BY <1>1 DEF Finish, Crash, worldVars
  <2> QED BY <2>1 DEF BaseInv, TreeOK, ListOK, ProcOK, Ended, WritersOK, WriterOK, OwnName, SetOK
<1>2. CASE CleanWritePaths
  <2>1. /\ main' \in {"unlink", "abort"} /\ mode' = "clean" /\ u' = StartUnlink(Collected)
        /\ UNCHANGED <<fs, data, w, fl, set, ts, now, hist>>
    BY <1>2 DEF CleanWritePaths, worldVars
  <2>2. Collected \in SUBSET Entry /\ IsFiniteSet(Collected)
    BY CollectedIs DEF BaseInv
  <2>3. ListOK'
    BY <2>1, <2>2, NewList
  <2> QED BY <2>1, <2>3 DEF BaseInv, TreeOK, ProcOK, Ended, WritersOK, WriterOK, OwnName, SetOK
<1>3. CASE Interfere
  <2>1. /\ main = "unlink" /\ \E p \in DOMAIN fs : Below(p) = {} /\ fs' = Without(p)
        /\ UNCHANGED <<data, w, hist, main, mode, u, fl, set, ts, now>>
    BY <1>3 DEF Interfere, procVars
  <2>2. TreeOK'
    BY <2>1, TreeShrinks DEF BaseInv
  <2> QED BY <2>1, <2>2 DEF BaseInv, ListOK, ProcOK, WritersOK, WriterOK, OwnName, SetOK
<1>4. CASE Tick
  <2>1. now < MaxTick /\ now' = now + 1 /\ UNCHANGED <<fs, data, w, main, mode, u, fl, set, ts, hist>>
    BY <1>4 DEF Tick
  <2>2. ProcOK'
    BY <2>1, Given DEF BaseInv, ProcOK
  <2>3. TreeOK' /\ ListOK' /\ WritersOK'
    BY <2>1 DEF BaseInv, TreeOK, ListOK, WritersOK, WriterOK, OwnName
  <2>4. SetOK'
    BY <2>1 DEF BaseInv, SetOK, InTree, Exists, Kind
  <2> QED BY <2>2, <2>3, <2>4 DEF BaseInv
<1>5. CASE UNCHANGED vars
  <2>1. UNCHANGED <<fs, data, w, main, mode, u, fl, set, ts, now, hist>>
    BY <1>5 DEF vars
  <2>2. TreeOK' /\ ListOK' /\ WritersOK' /\ ProcOK'
    BY <2>1 DEF BaseInv, TreeOK, ListOK, WritersOK, WriterOK, OwnName, ProcOK
  <2>3. SetOK'
    BY <2>1 DEF BaseInv, SetOK, InTree, Exists, Kind
  <2> QED BY <2>2, <2>3 DEF BaseInv
<1> QED BY <1>1, <1>2, <1>3, <1>4, <1>5

LEMMA NextKeeps ==
  ASSUME BaseInv, [Next]_vars
  PROVE  BaseInv'
<1>1. ASSUME NEW t \in Writer, main = "run", WriterStep(t) PROVE BaseInv'
  BY <1>1, WriterKeeps
<1>2. CASE MainStep
  BY <1>2, JoinKeeps, UnlinkKeeps, StartSetKeeps, OtherKeeps DEF MainStep
<1> QED BY <1>1, <1>2, OtherKeeps DEF Next, Stopped

-----------------------------------------------------------------------------
(* Theorems.                                                               *)

\* Init, every step of a writer, of main and of the environment keep types, the
\* accounts of the writers and what they rest on in the tree.
THEOREM PathsInvariance == Spec => []BaseInv
<1>1. Init => BaseInv
  BY InitBase
<1>2. BaseInv /\ [Next]_vars => BaseInv'
  BY NextKeeps
<1> QED BY <1>1, <1>2, PTL DEF Spec

\* write_entry, cleanup_write_paths and unlink_write_paths: what leads to a path
\* is a directory, no list is longer than num_write_paths, and n indexes l.
THEOREM TypesKept == Spec => []TypeOK
<1>1. BaseInv => TypeOK
  <2> SUFFICES ASSUME BaseInv PROVE TypeOK
    OBVIOUS
  <2>1. ASSUME NEW t \in Writer
        PROVE  w[t].n \in 0 .. NumWritePaths /\ Len(w[t].mine) <= w[t].n
    <3>1. w[t] \in WriterType /\ WriterOK(t)
      BY DEF BaseInv, WritersOK
    <3>2. w[t].n \in Nat /\ w[t].pc \in Pcs /\ Len(w[t].mine) \in Nat
      BY <3>1, WriterFields
    <3> QED BY <3>1, <3>2, Given DEF WriterOK, Pcs
  <2>2. u.n \in 0 .. Cardinality(u.l) /\ u.pc \in {"type", "assert", "exists", "remove"}
    BY FS_CardinalityType DEF BaseInv, ListOK
  <2> QED BY <2>1, <2>2 DEF TypeOK, BaseInv, TreeOK, ProcOK
<1> QED BY <1>1, PathsInvariance, PTL

-----------------------------------------------------------------------------
(* The implementation of WriteSet.                                         *)

Num == [t \in Writer |-> Len(w[t].mine)]
LeftBy == {t \in Writer : w[t].pc = "exited"}

LEMMA WriteSetStutter ==
  ASSUME UNCHANGED w, Phase' = Phase
  PROVE  UNCHANGED S!vars
BY DEF S!vars

LEMMA WriteSetEnd ==
  ASSUME UNCHANGED w, Phase' = "ended"
  PROVE  S!End
BY DEF S!End

LEMMA WriteSetOver ==
  ASSUME UNCHANGED w, Phase = "run", Phase' = "over", \A t \in Writer : w[t].pc = "exited"
  PROVE  S!SetOver
<1>1. {t \in Writer : w[t].pc = "exited"} = Writer
  OBVIOUS
<1> QED BY <1>1 DEF S!SetOver

LEMMA WriteSetWriter ==
  ASSUME BaseInv, main = "run", NEW t \in Writer, WriterStep(t)
  PROVE  S!Register(t) \/ S!Leave(t) \/ UNCHANGED S!vars
<1>1. /\ w \in [Writer -> WriterType] /\ w' \in [Writer -> WriterType]
      /\ \A s \in Writer : s # t => w'[s] = w[s]
      /\ mode = "dispatch" /\ UNCHANGED <<main, mode>>
      /\ w[t].mine \in Seq(Path)
  <2>1. w \in [Writer -> WriterType] /\ mode = "dispatch"
    BY DEF BaseInv, WritersOK, ProcOK
  <2>2. w[t] \in WriterType
    BY <2>1
  <2> QED BY <2>1, <2>2, WriterStepOK, WriterFields DEF StepOK, procVars
<1>2. Phase = "run" /\ Phase' = "run"
  BY <1>1 DEF Phase
<1>3. CASE Register(t)
  <2>1. /\ w[t].pc = "register" /\ w'[t].pc \in {"data", "idle"}
        /\ w'[t].mine = Append(w[t].mine, w[t].newf)
    BY <1>3, RegisterStep DEF AfterRegister
  <2>2. LeftBy' = LeftBy /\ t \notin LeftBy
    BY <1>1, <2>1 DEF LeftBy
  <2>3. Len(w[t].mine) < NumWritePaths
    <3>1. w[t].n = Len(w[t].mine) + 1 /\ w[t].n <= NumWritePaths /\ w[t].n \in Nat
      BY <2>1, WriterFields DEF BaseInv, WritersOK, WriterOK
    <3> QED BY <1>1, <3>1, Given
  <2>4. Num' = [Num EXCEPT ![t] = @ + 1] /\ Num[t] = Len(w[t].mine)
    <3>1. Len(w'[t].mine) = Len(w[t].mine) + 1
      BY <1>1, <2>1, WriterFields
    <3> QED BY <1>1, <3>1 DEF Num
  <2>5. S!Register(t)
    BY <1>2, <2>2, <2>3, <2>4 DEF S!Register, Num, LeftBy
  <2> QED BY <2>5
<1>4. ASSUME w'[t].mine = w[t].mine, w[t].pc # "exited"
      PROVE  S!Leave(t) \/ UNCHANGED S!vars
  <2>1. Num' = Num
    BY <1>1, <1>4 DEF Num
  <2>2. CASE w'[t].pc = "exited"
    <3>1. LeftBy' = LeftBy \cup {t}
      BY <1>1, <2>2 DEF LeftBy
    <3> QED BY <1>2, <2>1, <3>1 DEF S!Leave, Num, LeftBy
  <2>3. CASE w'[t].pc # "exited"
    <3>1. LeftBy' = LeftBy
      BY <1>1, <1>4, <2>3 DEF LeftBy
    <3> QED BY <1>2, <2>1, <3>1 DEF S!vars, Num, LeftBy
  <2> QED BY <2>2, <2>3
<1>5. CASE ~Register(t)
  <2>1. w'[t].mine = w[t].mine /\ w[t].pc # "exited"
    <3>1. CASE Create(t)
      <4>1. w[t].pc = "create" /\ UNCHANGED procVars
        BY <3>1 DEF Create
      <4>2. PICK ty \in Types : CreateNew(t, ty) \/ (CreateOver(t, ty) \/ CreateFault(t, ty))
        BY <3>1 DEF Create
      <4> QED BY <4>1, <4>2, CreateNewStep, CreateOldStep
    <3>2. CASE Pick(t) \/ SyncPath(t) \/ WriteData(t) \/ Leave(t)
      BY <3>2, PickStep, SyncStep, DataStep, LeaveStep
    <3> QED BY <1>5, <3>1, <3>2 DEF WriterStep
  <2> QED BY <1>4, <2>1
<1> QED BY <1>3, <1>5

LEMMA WriteSetMain ==
  ASSUME BaseInv,
         MainStep \/ Crash \/ CleanWritePaths \/ Interfere \/ Tick \/ UNCHANGED vars
  PROVE  S!SetOver \/ S!NextSet \/ S!End \/ UNCHANGED S!vars
<1>1. CASE JoinWriters
  <2>1. /\ main = "run" /\ mode = "dispatch" /\ UNCHANGED <<w, mode>>
        /\ main' \in {"report", "unlink"} /\ \A t \in Writer : w[t].pc = "exited"
    BY <1>1 DEF JoinWriters, worldVars, BaseInv, ProcOK
  <2>2. Phase = "run" /\ Phase' \in {"run", "over"}
    BY <2>1 DEF Phase
  <2> QED BY <2>1, <2>2, WriteSetOver, WriteSetStutter
<1>2. CASE UnlinkStep
  <2>1. main = "unlink" /\ UNCHANGED <<w, mode>>
    BY <1>2 DEF UnlinkStep
  <2>2. mode \in {"dispatch", "clean"}
    BY DEF BaseInv, ProcOK
  <2>3. CASE mode = "dispatch"
    <3>1. Phase = "run" /\ Phase' \in {"run", "over", "ended"}
      BY <2>1, <2>3 DEF Phase
    <3>2. \A t \in Writer : w[t].pc = "exited"
      BY <2>1, <2>3 DEF BaseInv, SetOK
    <3> QED BY <2>1, <3>1, <3>2, WriteSetOver, WriteSetEnd, WriteSetStutter
  <2>4. CASE mode = "clean"
    <3>1. Phase' = "ended"
      BY <2>1, <2>4 DEF Phase
    <3> QED BY <2>1, <3>1, WriteSetEnd
  <2> QED BY <2>2, <2>3, <2>4
<1>3. CASE StartSet
  <2>1. /\ main = "report" /\ main' = "run" /\ mode = "dispatch" /\ mode' = "dispatch"
        /\ \A t \in Writer : w'[t] = NewWriter
    BY <1>3 DEF StartSet, BaseInv, ProcOK
  <2>2. Phase = "over" /\ Phase' = "run"
    BY <2>1 DEF Phase
  <2>3. Num' = [t \in Writer |-> 0] /\ LeftBy' = {}
    BY <2>1 DEF Num, LeftBy, NewWriter
  <2> QED BY <2>2, <2>3 DEF S!NextSet, S!NothingYet, Num, LeftBy
<1>4. CASE Finish \/ Crash \/ CleanWritePaths
  <2>1. UNCHANGED w /\ Phase' = "ended"
    BY <1>4 DEF Finish, Crash, CleanWritePaths, worldVars, Phase
  <2> QED BY <2>1, WriteSetEnd
<1>5. CASE Interfere \/ Tick \/ UNCHANGED vars
  <2>1. UNCHANGED <<w, main, mode>>
    BY <1>5 DEF Interfere, Tick, vars, procVars
  <2>2. Phase' = Phase
    BY <2>1 DEF Phase
  <2> QED BY <2>1, <2>2, WriteSetStutter
<1> QED BY <1>1, <1>2, <1>3, <1>4, <1>5 DEF MainStep

LEMMA WriteSetInit ==
  ASSUME Init
  PROVE  S!Init
<1>1. Phase = "run" /\ \A t \in Writer : w[t] = NewWriter
  BY DEF Init, Phase
<1>2. Num = [t \in Writer |-> 0] /\ LeftBy = {}
  BY <1>1 DEF Num, LeftBy, NewWriter
<1> QED BY <1>1, <1>2 DEF S!Init, S!NothingYet, Num, LeftBy

\* write_file registers one path at a time, within num_write_paths and before the
\* thread returns; cleanup_write_paths runs when all have returned, and the
\* ThreadDirs of the next set begin empty: a WriteSet.
THEOREM ImplementsWriteSet == Spec => WriteSetSpec
<1>1. Init => S!Init
  BY WriteSetInit
<1>2. BaseInv /\ [Next]_vars => [S!Next]_S!vars
  <2> SUFFICES ASSUME BaseInv, [Next]_vars PROVE [S!Next]_S!vars
    OBVIOUS
  <2>1. ASSUME NEW t \in Writer, main = "run", WriterStep(t) PROVE [S!Next]_S!vars
    BY <2>1, WriteSetWriter DEF S!Next
  <2>2. CASE MainStep \/ Crash \/ CleanWritePaths \/ Interfere \/ Tick \/ UNCHANGED vars
    BY <2>2, WriteSetMain DEF S!Next
  <2> QED BY <2>1, <2>2 DEF Next, Stopped
<1> QED BY <1>1, <1>2, PathsInvariance, PTL DEF Spec, WriteSetSpec, S!Spec
=============================================================================
