--------------------------- MODULE CleanUpProofs ---------------------------
(***************************************************************************)
(* Proofs about WritePaths: what a set leaves in the tree, what becomes of *)
(* the user's files, and what a later --clean_write_paths finds.  Each     *)
(* theorem names what it needs of the options and of the tree; a run of    *)
(* TLC with less is a counterexample.                                      *)
(***************************************************************************)
EXTENDS WritePathsProofs

-----------------------------------------------------------------------------
(* Steps, by what they do to the tree and to the lists.                    *)

\* collect_write_paths finds it, if it is there and no device.
Doomed(p) == IsWritePath(p) /\ IsBelowInput(p)

LEMMA OwnDoomed ==
  ASSUME NEW t \in Writer, NEW p, NEW k, OwnName(t, p, k)
  PROVE  Doomed(p)
BY InputGiven DEF OwnName, Doomed, IsWritePath, IsBelowInput

LEMMA WriterTree ==
  ASSUME BaseInv, main = "run", NEW t \in Writer, WriterStep(t)
  PROVE  /\ main' = "run" /\ UNCHANGED <<mode, u, set, ts, now>>
         /\ \A s \in Writer : s # t => w'[s] = w[s]
         /\ \A p \in DOMAIN fs : p \in DOMAIN fs' /\ fs'[p] = fs[p]
         /\ \/ DOMAIN fs' = DOMAIN fs
            \/ /\ w[t].pc = "create" /\ w[t].newf \notin DOMAIN fs
               /\ DOMAIN fs' = DOMAIN fs \cup {w[t].newf}
               /\ w'[t].pc \in {"sync", "register"}
               /\ w'[t].newf = w[t].newf /\ w'[t].mine = w[t].mine
<1>1. StepOK(t) /\ UNCHANGED procVars
  BY WriterStepOK
<1>2. CASE Create(t)
  <2>1. w[t].pc = "create"
    BY <1>2 DEF Create
  <2>2. PICK ty \in Types : CreateNew(t, ty) \/ (CreateOver(t, ty) \/ CreateFault(t, ty))
    BY <1>2 DEF Create
  <2>3. CASE CreateNew(t, ty)
    BY <1>1, <2>1, <2>3, CreateNewStep DEF StepOK, Grown, procVars
  <2>4. CASE CreateOver(t, ty) \/ CreateFault(t, ty)
    BY <1>1, <2>1, <2>4, CreateOldStep DEF StepOK, procVars
  <2> QED BY <2>2, <2>3, <2>4
<1>3. CASE ~Create(t)
  <2>1. UNCHANGED fs
    BY <1>3, PickStep, SyncStep, RegisterStep, DataStep, LeaveStep DEF WriterStep
  <2> QED BY <1>1, <2>1 DEF StepOK, procVars
<1> QED BY <1>2, <1>3

\* What unlink_write_paths may do in a step.
Removed ==
  /\ u.pc = "remove" /\ u'.pc = "type"
  /\ u.n > 0 /\ Exists(File) /\ Below(File) = {}
  /\ DOMAIN fs' = DOMAIN fs \ {File} /\ \A p \in DOMAIN fs' : fs'[p] = fs[p]
  /\ u'.l = u.l \ {Back(u.l)} /\ u'.n = u.n - 1
  /\ main' = main

Moved ==
  /\ UNCHANGED <<fs, main>> /\ u'.l = u.l /\ u'.n = u.n
  /\ u.pc = "type" => Exists(File) /\ Kind(File) # "other"

Missed ==
  /\ u.n > 0 /\ UNCHANGED fs /\ u'.l = u.l
  /\ ~Exists(File) \/ Kind(File) = "other"
  /\ main' = "unlink" => u'.pc = "type" /\ ~Exists(File)
  /\ mode = "dispatch" => main' # "failed"

Ends ==
  /\ UNCHANGED <<fs, u>>
  /\ \/ u.n = 0 /\ main' = Returned("ok", u.l)
     \/ /\ u.n > 0 /\ Exists(File) /\ main' = Thrown
        /\ Below(File) # {} \/ "throw" \in Faults

LEMMA UnlinkShape ==
  ASSUME BaseInv, UnlinkStep
  PROVE  /\ main = "unlink" /\ UNCHANGED <<mode, data, w, set, ts, now, hist>>
         /\ Removed \/ Moved \/ Missed \/ Ends
         /\ main' \in {"unlink", "report", "cleaned", "failed", "abort"}
<1>1. main = "unlink" /\ UNCHANGED <<mode, data, w, set, ts, now, hist>>
  BY DEF UnlinkStep
<1>2. /\ \A ret : Returned(ret, u.l) \in {"report", "cleaned", "failed"}
      /\ \A ret : mode = "dispatch" => Returned(ret, u.l) = "report"
      /\ Thrown \in {"failed", "abort"}
  BY DEF Returned, Thrown
<1>3. CASE TestType
  <2>1. /\ UNCHANGED fs /\ u'.l = u.l /\ u'.n = u.n
        /\ \/ main' = main
           \/ UNCHANGED u /\ u.n = 0 /\ main' = Returned("ok", u.l)
           \/ /\ UNCHANGED u /\ u.n > 0 /\ main' = Returned("einval", u.l)
              /\ ~Exists(File) \/ Kind(File) = "other"
        /\ main' = main => Exists(File) /\ Kind(File) # "other"
    <3>1. main \notin {"report", "cleaned", "failed"}
      BY <1>1
    <3> QED BY <1>1, <1>2, <1>3, <3>1, TestTypeOK
  <2> QED BY <1>1, <1>2, <2>1 DEF Moved, Missed, Ends
<1>4. CASE AssertExists
  <2>1. u.n > 0
    BY <1>4 DEF AssertExists, BaseInv, ListOK
  <2> QED BY <1>1, <1>4, <2>1, AssertExistsOK DEF Moved, Missed, AssertExists
<1>5. CASE TestExists
  BY <1>1, <1>5, TestExistsOK DEF Moved, TestExists
<1>6. CASE RemovePath
  <2>1. CASE /\ Exists(File) /\ Below(File) = {} /\ fs' = Without(File)
             /\ u'.l = u.l \ {Back(u.l)} /\ u'.n = u.n - 1
             /\ u'.pc = "type" /\ main' = main
    <3>1. DOMAIN fs' = DOMAIN fs \ {File} /\ \A p \in DOMAIN fs' : fs'[p] = fs[p]
      BY <2>1 DEF Without
    <3> QED BY <1>1, <1>6, <2>1, <3>1, RemovePathOK DEF Removed, RemovePath
  <2>2. CASE /\ UNCHANGED <<fs, main>> /\ ~Exists(File)
             /\ u'.l = u.l /\ u'.n = u.n - 1 /\ u'.pc = "type"
    BY <1>1, <1>6, <2>2, RemovePathOK DEF Missed
  <2>3. CASE /\ UNCHANGED <<fs, u>> /\ Exists(File)
             /\ Below(File) # {} \/ "throw" \in Faults
             /\ main' = Thrown
    BY <1>1, <1>2, <1>6, <2>3, RemovePathOK DEF Ends
  <2> QED BY <1>1, <1>6, <2>1, <2>2, <2>3, RemovePathOK
<1> QED BY <1>1, <1>3, <1>4, <1>5, <1>6 DEF UnlinkStep

\* The steps that touch neither the tree nor the lists.
Quiet ==
  /\ UNCHANGED <<fs, data, w, mode, u, set, ts, hist>>
  /\ \/ main' = main
     \/ mode = "dispatch" /\ main' \in {"done", "crashed"}

LEMMA Shapes ==
  ASSUME BaseInv, [Next]_vars
  PROVE  \/ \E t \in Writer : main = "run" /\ WriterStep(t)
         \/ JoinWriters \/ UnlinkStep \/ StartSet
         \/ CleanWritePaths \/ Interfere \/ Quiet
<1>1. ASSUME Finish \/ Crash PROVE Quiet
  BY <1>1 DEF Finish, Crash, worldVars, Quiet, BaseInv, ProcOK
<1>2. ASSUME Tick \/ UNCHANGED vars PROVE Quiet
  BY <1>2 DEF Tick, vars, Quiet
<1> QED BY <1>1, <1>2 DEF Next, MainStep, Stopped

\* Another process takes a path.
LEMMA InterfereShape ==
  ASSUME BaseInv, Interfere
  PROVE  /\ Interferes /\ main = "unlink" /\ UNCHANGED <<data, w, hist, main, mode, u, set, ts>>
         /\ DOMAIN fs' \subseteq DOMAIN fs /\ \A p \in DOMAIN fs' : fs'[p] = fs[p]
<1>1. PICK p \in DOMAIN fs : fs' = Without(p)
  BY DEF Interfere
<1> QED BY <1>1 DEF Interfere, procVars, Without

-----------------------------------------------------------------------------
(* The lists hold what this program has made, and so does the tree beside  *)
(* what was there before.                                                  *)

ListInv ==
  /\ mode = "dispatch" => u.l \subseteq Spliced
  /\ \A e \in u.l : Doomed(e[1])
  /\ \A p \in Left : Doomed(p)

\* What unlink_write_paths is about to remove, collect_write_paths would find.
LEMMA FileDoomed ==
  ASSUME BaseInv, ListInv, u.n > 0
  PROVE  Doomed(File)
BY BackOfList DEF BaseInv, ListInv, File

LEMMA SplicedDoomed ==
  ASSUME BaseInv, NEW e \in Spliced
  PROVE  Doomed(e[1])
<1>1. PICK t \in Writer : \E i \in 1 .. Len(w[t].mine) : e = <<w[t].mine[i], t, i>>
  BY SplicedIs DEF BaseInv
<1>2. PICK i \in 1 .. Len(w[t].mine) : e = <<w[t].mine[i], t, i>>
  BY <1>1
<1>3. OwnName(t, w[t].mine[i], i - 1)
  BY DEF BaseInv, WritersOK, WriterOK
<1> QED BY <1>2, <1>3, OwnDoomed

LEMMA CollectedDoomed ==
  ASSUME BaseInv, NEW e \in Collected
  PROVE  Doomed(e[1])
<1>1. e = <<e[1], e[2]>>
  BY CollectedIs DEF BaseInv
<1>2. e[2] \in DOMAIN Input /\ e[1] \in Below(Input[e[2]]) /\ IsWritePath(e[1])
  BY <1>1, CollectedIs DEF BaseInv, IsCleanable
<1> QED BY <1>2 DEF Doomed, IsBelowInput, Below

LEMMA ListInit ==
  ASSUME Init
  PROVE  ListInv
BY DEF Init, StartUnlink, ListInv, Left

LEMMA ListKeeps ==
  ASSUME BaseInv, ListInv, [Next]_vars
  PROVE  ListInv'
<1>1. ASSUME NEW t \in Writer, main = "run", WriterStep(t) PROVE ListInv'
  <2>1. u'.l = {}
    BY <1>1, WriterTree DEF BaseInv, SetOK
  <2>2. ASSUME NEW p \in Left' PROVE Doomed(p)
    <3>1. p \in Left \/ (w[t].pc = "create" /\ p = w[t].newf)
      <4>1. p \in DOMAIN fs' /\ p \notin DOMAIN Tree
        BY DEF Left
      <4>2. DOMAIN fs' = DOMAIN fs
              \/ (w[t].pc = "create" /\ DOMAIN fs' = DOMAIN fs \cup {w[t].newf})
        BY <1>1, WriterTree
      <4> QED BY <4>1, <4>2 DEF Left
    <3>2. CASE w[t].pc = "create" /\ p = w[t].newf
      <4>1. OwnName(t, w[t].newf, w[t].n - 1)
        BY <3>2 DEF BaseInv, WritersOK, WriterOK
      <4> QED BY <3>2, <4>1, OwnDoomed
    <3> QED BY <3>1, <3>2 DEF ListInv
  <2> QED BY <2>1, <2>2 DEF ListInv
<1>2. CASE JoinWriters
  <2>1. u'.l = Spliced /\ UNCHANGED <<fs, w, mode>>
    BY <1>2 DEF JoinWriters, StartUnlink, worldVars
  <2>2. Spliced' = Spliced /\ Left' = Left
    BY <2>1 DEF Spliced, Left
  <2> QED BY <2>1, <2>2, SplicedDoomed DEF ListInv
<1>3. ASSUME u'.l \subseteq u.l, DOMAIN fs' \subseteq DOMAIN fs, UNCHANGED <<w, mode>>
      PROVE  ListInv'
  <2>1. Spliced' = Spliced /\ Left' \subseteq Left
    BY <1>3 DEF Spliced, Left
  <2> QED BY <1>3, <2>1 DEF ListInv
<1>4. CASE UnlinkStep
  BY <1>3, <1>4, UnlinkShape DEF Removed, Moved, Missed, Ends
<1>5. CASE StartSet
  BY <1>5 DEF StartSet, StartUnlink, ListInv, Left
<1>6. CASE CleanWritePaths
  <2>1. u'.l = Collected /\ UNCHANGED fs /\ mode' = "clean"
    BY <1>6 DEF CleanWritePaths, StartUnlink, worldVars
  <2> QED BY <2>1, CollectedDoomed DEF ListInv, Left
<1>7. CASE Interfere
  BY <1>3, <1>7, InterfereShape
<1>8. CASE Quiet
  BY <1>3, <1>8 DEF Quiet
<1> QED BY <1>1, <1>2, <1>4, <1>5, <1>6, <1>7, <1>8, Shapes

-----------------------------------------------------------------------------
(* The user's files that collect_write_paths does not find stay.           *)

KeptInv ==
  ~Interferes => \A p \in DOMAIN Tree : ~Doomed(p) => Exists(p) /\ fs[p] = Tree[p]

LEMMA KeptKeeps ==
  ASSUME BaseInv, ListInv, KeptInv, [Next]_vars
  PROVE  KeptInv'
<1>1. SUFFICES ASSUME ~Interferes, NEW p \in DOMAIN fs, ~Doomed(p)
               PROVE  p \in DOMAIN fs' /\ fs'[p] = fs[p]
  BY DEF KeptInv, Exists
<1>2. ASSUME NEW t \in Writer, main = "run", WriterStep(t)
      PROVE  p \in DOMAIN fs' /\ fs'[p] = fs[p]
  BY <1>2, WriterTree
<1>3. CASE UnlinkStep
  <2>1. Removed => p # File
    BY <1>1, FileDoomed DEF Removed
  <2> QED BY <1>3, <2>1, UnlinkShape DEF Removed, Moved, Missed, Ends
<1>4. CASE JoinWriters \/ StartSet \/ CleanWritePaths \/ Quiet
  BY <1>4 DEF JoinWriters, StartSet, CleanWritePaths, Quiet, worldVars
<1>5. CASE Interfere
  BY <1>1, <1>5, InterfereShape
<1> QED BY <1>2, <1>3, <1>4, <1>5, Shapes

-----------------------------------------------------------------------------
(* Devices: the program makes none.                                        *)

KindInv ==
  \A p \in DOMAIN fs : Kind(p) = "other" => p \in DOMAIN Tree /\ Tree[p].kind = "other"

LEMMA NewKind ==
  ASSUME BaseInv, NEW t \in Writer
  PROVE  \A ty \in Types : NewNode(t, MadeType(t, ty)).kind # "other"
<1>1. SUFFICES ASSUME NEW ty \in Types PROVE NewNode(t, MadeType(t, ty)).kind # "other"
  OBVIOUS
<1>2. MadeType(t, ty) \in {"dir", "reg", "symlink", "link"}
  BY Given DEF MadeType
<1>3. MadeType(t, ty) = "link" => fs[w[t].f].kind = "reg"
  BY DEF MadeType, Kind
<1>4. CASE MadeType(t, ty) = "link"
  BY <1>3, <1>4 DEF NewNode
<1>5. CASE MadeType(t, ty) = "symlink"
  BY <1>5 DEF NewNode
<1>6. CASE MadeType(t, ty) \in {"dir", "reg"}
  BY <1>6 DEF NewNode
<1> QED BY <1>2, <1>4, <1>5, <1>6

LEMMA KindKeeps ==
  ASSUME BaseInv, KindInv, [Next]_vars
  PROVE  KindInv'
<1>1. ASSUME \A p \in DOMAIN fs' : p \in DOMAIN fs /\ fs'[p] = fs[p]
      PROVE  KindInv'
  BY <1>1 DEF KindInv, Kind
<1>2. ASSUME NEW t \in Writer, main = "run", WriterStep(t) PROVE KindInv'
  <2>1. \A p \in DOMAIN fs : fs'[p] = fs[p]
    BY <1>2, WriterTree
  <2>2. CASE DOMAIN fs' = DOMAIN fs
    BY <1>1, <2>1, <2>2
  <2>3. CASE DOMAIN fs' # DOMAIN fs
    <3>1. Create(t)
      BY <1>2, <2>3, PickStep, SyncStep, RegisterStep, DataStep, LeaveStep DEF WriterStep
    <3>2. w[t].pc = "create" /\ UNCHANGED procVars
      BY <3>1 DEF Create
    <3>3. PICK ty \in Types : CreateNew(t, ty) \/ (CreateOver(t, ty) \/ CreateFault(t, ty))
      BY <3>1 DEF Create
    <3>4. CreateNew(t, ty)
      BY <1>2, <2>3, <3>2, <3>3, CreateOldStep
    <3>5. /\ DOMAIN fs' = DOMAIN fs \cup {w[t].newf}
          /\ fs'[w[t].newf] = NewNode(t, MadeType(t, ty))
      BY <1>2, <3>2, <3>4, CreateNewStep
    <3> QED BY <2>1, <3>5, NewKind DEF KindInv, Kind
  <2> QED BY <2>2, <2>3
<1>3. CASE UnlinkStep
  BY <1>1, <1>3, UnlinkShape DEF Removed, Moved, Missed, Ends
<1>4. CASE JoinWriters \/ StartSet \/ CleanWritePaths \/ Quiet
  BY <1>1, <1>4 DEF JoinWriters, StartSet, CleanWritePaths, Quiet, worldVars
<1>5. CASE Interfere
  BY <1>1, <1>5, InterfereShape
<1> QED BY <1>2, <1>3, <1>4, <1>5, Shapes

-----------------------------------------------------------------------------
(* Names are new.                                                          *)

\* No file has the name that a writer is going to give: a name of ours in the
\* tree has the time of an earlier run.
FreshNames == \A p \in DOMAIN Tree : Last(p)[1] = Base => Last(p)[3] < 0

LEMMA OwnFresh ==
  ASSUME BaseInv, FreshNames, NEW t \in Writer, NEW p, NEW k, OwnName(t, p, k)
  PROVE  p \notin DOMAIN Tree
<1>1. ts \in Int /\ ts >= 0
  BY Given DEF BaseInv, ProcOK
<1>2. Last(p) = <<Base, t, ts, k>>
  BY DEF OwnName
<1> QED BY <1>1, <1>2 DEF FreshNames

\* What a set lists is no device, then.
LEMMA ListedPlain ==
  ASSUME BaseInv, ListInv, KindInv, FreshNames, mode = "dispatch", u.n > 0, Exists(File)
  PROVE  Kind(File) # "other"
<1>1. Back(u.l) \in Spliced
  BY BackOfList DEF BaseInv, ListInv
<1>2. PICK t \in Writer : \E i \in 1 .. Len(w[t].mine) : Back(u.l) = <<w[t].mine[i], t, i>>
  BY <1>1, SplicedIs DEF BaseInv
<1>3. PICK i \in 1 .. Len(w[t].mine) : Back(u.l) = <<w[t].mine[i], t, i>>
  BY <1>2
<1>4. OwnName(t, w[t].mine[i], i - 1)
  BY DEF BaseInv, WritersOK, WriterOK
<1>5. File \notin DOMAIN Tree
  BY <1>3, <1>4, OwnFresh DEF File
<1> QED BY <1>5 DEF KindInv, Exists

-----------------------------------------------------------------------------
(* Nobody interferes: what is listed is there, once.                       *)

\* No <path> argument is another one, or below another one.
NotNested ==
  \A m, n \in DOMAIN Input :
    m # n => Input[m] # Input[n] /\ ~IsStrictPrefix(Input[m], Input[n])

Exact ==
  /\ u.n = Cardinality(u.l)
  /\ \A e \in u.l : Exists(e[1])
  /\ \A e, g \in u.l : e[1] = g[1] => e = g

ExactInv ==
  ~Interferes =>
    /\ main = "unlink" /\ (mode = "dispatch" \/ NotNested) => Exact
    /\ main = "report" /\ ~Keep /\ FreshNames => u.l = {}

\* Two registered paths are two: their names tell writer and counter.
LEMMA SplicedExact ==
  ASSUME BaseInv, main = "run"
  PROVE  /\ \A e \in Spliced : Exists(e[1])
         /\ \A e, g \in Spliced : e[1] = g[1] => e = g
<1>1. ASSUME NEW e \in Spliced
      PROVE  \E t \in Writer : \E i \in 1 .. Len(w[t].mine) :
               /\ e = <<w[t].mine[i], t, i>> /\ i \in Int
               /\ Last(e[1]) = <<Base, t, ts, i - 1>> /\ Exists(e[1])
  <2>1. PICK t \in Writer : \E i \in 1 .. Len(w[t].mine) : e = <<w[t].mine[i], t, i>>
    BY SplicedIs DEF BaseInv
  <2>2. PICK i \in 1 .. Len(w[t].mine) : e = <<w[t].mine[i], t, i>>
    BY <2>1
  <2>3. OwnName(t, w[t].mine[i], i - 1) /\ Exists(w[t].mine[i])
    BY DEF BaseInv, WritersOK, WriterOK, SetOK, InTree
  <2> QED BY <2>2, <2>3 DEF OwnName
<1>2. ASSUME NEW e \in Spliced, NEW g \in Spliced, e[1] = g[1] PROVE e = g
  <2>1. PICK t \in Writer : \E i \in 1 .. Len(w[t].mine) :
          e = <<w[t].mine[i], t, i>> /\ i \in Int /\ Last(e[1]) = <<Base, t, ts, i - 1>>
    BY <1>1
  <2>2. PICK i \in 1 .. Len(w[t].mine) :
          e = <<w[t].mine[i], t, i>> /\ i \in Int /\ Last(e[1]) = <<Base, t, ts, i - 1>>
    BY <2>1
  <2>3. PICK s \in Writer : \E j \in 1 .. Len(w[s].mine) :
          g = <<w[s].mine[j], s, j>> /\ j \in Int /\ Last(g[1]) = <<Base, s, ts, j - 1>>
    BY <1>1
  <2>4. PICK j \in 1 .. Len(w[s].mine) :
          g = <<w[s].mine[j], s, j>> /\ j \in Int /\ Last(g[1]) = <<Base, s, ts, j - 1>>
    BY <2>3
  <2>5. <<Base, t, ts, i - 1>> = <<Base, s, ts, j - 1>>
    BY <1>2, <2>2, <2>4
  <2>6. t = s /\ i - 1 = j - 1
    BY <2>5
  <2> QED BY <2>2, <2>4, <2>6
<1> QED BY <1>1, <1>2

LEMMA CollectedExact ==
  ASSUME BaseInv, NotNested
  PROVE  /\ \A e \in Collected : Exists(e[1])
         /\ \A e, g \in Collected : e[1] = g[1] => e = g
<1>1. ASSUME NEW e \in Collected
      PROVE  /\ e = <<e[1], e[2]>> /\ e[2] \in DOMAIN Input /\ Exists(e[1])
             /\ e[1] \in Path /\ IsStrictPrefix(Input[e[2]], e[1])
  <2>1. e = <<e[1], e[2]>>
    BY CollectedIs DEF BaseInv
  <2>2. e[2] \in DOMAIN Input /\ e[1] \in Below(Input[e[2]])
    BY <2>1, CollectedIs DEF BaseInv
  <2> QED BY <2>1, <2>2 DEF Below, Exists, BaseInv, TreeOK
<1>2. ASSUME NEW e \in Collected, NEW g \in Collected, e[1] = g[1] PROVE e = g
  <2> DEFINE m == e[2]
             n == g[2]
  <2>1. m \in DOMAIN Input /\ n \in DOMAIN Input /\ Input[m] \in Path /\ Input[n] \in Path
    BY <1>1, Given
  <2>2. IsStrictPrefix(Input[m], e[1]) /\ IsStrictPrefix(Input[n], e[1]) /\ e[1] \in Path
    BY <1>1, <1>2
  <2>3. Input[m] = Input[n] \/ IsStrictPrefix(Input[m], Input[n])
          \/ IsStrictPrefix(Input[n], Input[m])
    BY <2>1, <2>2, PrefixComparable
  <2>4. m = n
    BY <2>1, <2>3 DEF NotNested
  <2> QED BY <1>1, <1>2, <2>4
<1> QED BY <1>1, <1>2

LEMMA ExactKeeps ==
  ASSUME BaseInv, ListInv, KindInv, ExactInv, [Next]_vars
  PROVE  ExactInv'
<1>1. SUFFICES ASSUME ~Interferes
               PROVE  /\ main' = "unlink" /\ (mode' = "dispatch" \/ NotNested) => Exact'
                      /\ main' = "report" /\ ~Keep /\ FreshNames => u'.l = {}
  BY DEF ExactInv
<1>2. ASSUME NEW t \in Writer, main = "run", WriterStep(t) PROVE main' = "run"
  BY <1>2, WriterTree
<1>3. CASE JoinWriters
  <2>1. main = "run" /\ UNCHANGED fs /\ u' = StartUnlink(Spliced) /\ (main' = "report" => Keep)
    BY <1>3 DEF JoinWriters, worldVars
  <2>2. Exact'
    BY <2>1, SplicedExact DEF Exact, StartUnlink, Exists
  <2> QED BY <2>1, <2>2
<1>4. CASE UnlinkStep
  <2>1. main = "unlink" /\ UNCHANGED mode
    BY <1>4, UnlinkShape
  <2>2. CASE mode = "dispatch" \/ NotNested
    <3>1. Exact
      BY <1>1, <2>1, <2>2 DEF ExactInv
    <3>2. u.n > 0 => Back(u.l) \in u.l /\ Exists(File)
      BY <3>1, BackOfList DEF BaseInv, Exact, File
    <3>3. CASE Removed
      <4>1. u'.n = Cardinality(u'.l)
        BY <3>1, <3>3, BackOfList DEF BaseInv, Removed, Exact
      <4>2. \A e \in u'.l : e[1] \in DOMAIN fs'
        BY <3>1, <3>2, <3>3 DEF Exact, Removed, File, Exists
      <4>3. Exact'
        BY <3>1, <3>3, <4>1, <4>2 DEF Exact, Removed, Exists
      <4> QED BY <2>1, <3>3, <4>3 DEF Removed
    <3>4. CASE Moved
      BY <2>1, <3>1, <3>4 DEF Moved, Exact, Exists
    <3>5. CASE Ends
      <4>1. main' # "unlink" /\ UNCHANGED u
        BY <3>5 DEF Ends, Returned, Thrown
      <4>2. main' = "report" => u.n = 0
        BY <3>5 DEF Ends, Thrown
      <4>3. u.n = 0 => u.l = {}
        BY <3>1, FS_EmptySet DEF Exact, BaseInv, ListOK
      <4> QED BY <4>1, <4>2, <4>3
    <3>6. CASE Missed
      <4>1. main' # "unlink"
        BY <3>2, <3>6 DEF Missed
      <4>2. main' = "report" => mode = "dispatch"
        BY <1>4, <2>1, UnlinkKeeps DEF BaseInv, ProcOK
      <4>3. mode = "dispatch" => ~FreshNames
        BY <3>2, <3>6, ListedPlain DEF Missed
      <4> QED BY <4>1, <4>2, <4>3
    <3> QED BY <1>4, <3>3, <3>4, <3>5, <3>6, UnlinkShape
  <2>3. CASE mode = "clean" /\ ~NotNested
    <3>1. main' # "report"
      BY <1>4, <2>1, <2>3, UnlinkKeeps DEF BaseInv, ProcOK
    <3> QED BY <2>1, <2>3, <3>1
  <2> QED BY <2>2, <2>3 DEF BaseInv, ProcOK
<1>5. CASE StartSet
  BY <1>5 DEF StartSet
<1>6. CASE CleanWritePaths
  <2>1. UNCHANGED fs /\ u' = StartUnlink(Collected) /\ mode' = "clean" /\ main' # "report"
    BY <1>6 DEF CleanWritePaths, worldVars
  <2>2. NotNested => Exact'
    BY <2>1, CollectedExact DEF Exact, StartUnlink, Exists
  <2> QED BY <2>1, <2>2
<1>7. CASE Interfere
  BY <1>1, <1>7, InterfereShape
<1>8. CASE Quiet
  BY <1>1, <1>8 DEF Quiet, ExactInv, Exact, Exists
<1> QED BY <1>2, <1>3, <1>4, <1>5, <1>6, <1>7, <1>8, Shapes

-----------------------------------------------------------------------------
(* What a set leaves is accounted for.                                     *)

\* Sets do not inherit: there is one, or each removes all that it registered.
Accounted == NumSet = 1 \/ (~Keep /\ ~Interferes /\ FreshNames)

\* A path that is there and was not before: its fsync failed, a writer has
\* registered it, or is about to.
Held(p) ==
  \/ p \in hist.leaked
  \/ \E t \in Writer : p \in ToSet(w[t].mine)
  \/ \E t \in Writer : w[t].pc \in {"sync", "register"} /\ p = w[t].newf

AccountInv ==
  /\ main = "run" => \A p \in Left : Held(p)
  /\ mode = "dispatch" /\ main \in {"unlink", "report"} =>
       Left \subseteq hist.leaked \cup {e[1] : e \in u.l}

LEMMA WriterLists ==
  ASSUME BaseInv, main = "run", NEW t \in Writer, WriterStep(t)
  PROVE  /\ hist.leaked \subseteq hist'.leaked /\ hist.made \subseteq hist'.made
         /\ ToSet(w[t].mine) \subseteq ToSet(w'[t].mine)
         /\ w[t].pc \in {"sync", "register"} =>
              \/ w'[t].pc = "register" /\ w'[t].newf = w[t].newf
              \/ w[t].newf \in hist'.leaked
              \/ w[t].newf \in ToSet(w'[t].mine)
<1>1. /\ hist \in [made : SUBSET Path, leaked : SUBSET Path]
      /\ w[t].mine \in Seq(Path) /\ w[t].newf \in Path
  BY WriterFields DEF BaseInv, ProcOK, WritersOK
<1>2. CASE Create(t)
  <2>1. w[t].pc = "create" /\ UNCHANGED procVars
    BY <1>2 DEF Create
  <2>2. PICK ty \in Types : CreateNew(t, ty) \/ (CreateOver(t, ty) \/ CreateFault(t, ty))
    BY <1>2 DEF Create
  <2>3. w'[t].mine = w[t].mine
    BY <2>1, <2>2, CreateNewStep, CreateOldStep
  <2>4. hist' = hist \/ hist' = [hist EXCEPT !.made = @ \cup {w[t].newf}]
    BY <2>1, <2>2, CreateNewStep, CreateOldStep
  <2>5. hist.leaked \subseteq hist'.leaked /\ hist.made \subseteq hist'.made
    BY <1>1, <2>4
  <2> QED BY <2>1, <2>3, <2>5
<1>3. CASE SyncPath(t)
  <2>1. /\ w[t].pc = "sync" /\ w'[t].pc \in {"register", "exited"}
        /\ w'[t].pc = "register" => hist' = hist
        /\ w'[t].pc = "exited" => hist' = [hist EXCEPT !.leaked = @ \cup {w[t].newf}]
        /\ w'[t].newf = w[t].newf /\ w'[t].mine = w[t].mine
    BY <1>3, SyncStep
  <2>2. CASE w'[t].pc = "register"
    BY <2>1, <2>2
  <2>3. CASE w'[t].pc = "exited"
    <3>1. /\ hist'.leaked = hist.leaked \cup {w[t].newf} /\ hist'.made = hist.made
      BY <1>1, <2>1, <2>3
    <3> QED BY <2>1, <3>1
  <2> QED BY <2>1, <2>2, <2>3
<1>4. CASE Register(t)
  <2>1. /\ w[t].pc = "register" /\ hist' = hist
        /\ w'[t].mine = Append(w[t].mine, w[t].newf)
    BY <1>4, RegisterStep
  <2>2. ToSet(w'[t].mine) = ToSet(w[t].mine) \cup {w[t].newf}
    <3>1. DOMAIN Append(w[t].mine, w[t].newf) = DOMAIN w[t].mine \cup {Len(w[t].mine) + 1}
      BY <1>1
    <3>2. /\ \A i \in DOMAIN w[t].mine : Append(w[t].mine, w[t].newf)[i] = w[t].mine[i]
          /\ Append(w[t].mine, w[t].newf)[Len(w[t].mine) + 1] = w[t].newf
      BY <1>1
    <3> QED BY <2>1, <3>1, <3>2 DEF ToSet
  <2> QED BY <2>1, <2>2
<1>5. CASE Pick(t)
  <2>1. w[t].pc = "idle" /\ hist' = hist /\ w'[t].mine = w[t].mine
    BY <1>5, PickStep
  <2> QED BY <2>1
<1>6. CASE WriteData(t)
  <2>1. w[t].pc = "data" /\ hist' = hist /\ w'[t].mine = w[t].mine
    BY <1>6, DataStep
  <2> QED BY <2>1
<1>7. CASE Leave(t)
  <2>1. w[t].pc = "idle" /\ hist' = hist /\ w'[t].mine = w[t].mine
    BY <1>7, LeaveStep
  <2> QED BY <2>1
<1> QED BY <1>2, <1>3, <1>4, <1>5, <1>6, <1>7 DEF WriterStep

\* Splicing loses no registered path.
LEMMA MineSpliced ==
  ASSUME NEW t \in Writer, NEW p \in ToSet(w[t].mine)
  PROVE  p \in {e[1] : e \in Spliced}
<1>1. PICK i \in DOMAIN w[t].mine : p = w[t].mine[i]
  BY DEF ToSet
<1>2. <<w[t].mine[i], t, i>> \in Spliced
  BY DEF Spliced
<1>3. p = <<w[t].mine[i], t, i>>[1]
  BY <1>1
<1> QED BY <1>2, <1>3

\* The paths that a set has made and that are still there.
Made == hist.made \cap DOMAIN fs

\* The same of one set, whatever the sets before it have left.
MadeInv ==
  /\ main = "run" => \A p \in hist.made : Held(p)
  /\ mode = "dispatch" /\ main \in {"unlink", "report"} =>
       Made \subseteq hist.leaked \cup {e[1] : e \in u.l}

\* A writer keeps hold of what it held, and of what it makes.
LEMMA HeldStays ==
  ASSUME BaseInv, main = "run", NEW t \in Writer, WriterStep(t), NEW p, Held(p)
  PROVE  Held(p)'
<1>1. CASE p \in hist.leaked
  BY <1>1, WriterLists DEF Held
<1>2. ASSUME NEW s \in Writer, p \in ToSet(w[s].mine) PROVE Held(p)'
  <2>1. p \in ToSet(w'[s].mine)
    BY <1>2, WriterLists, WriterTree
  <2> QED BY <2>1 DEF Held
<1>3. ASSUME NEW s \in Writer, w[s].pc \in {"sync", "register"}, p = w[s].newf
      PROVE  Held(p)'
  <2>1. CASE s = t
    BY <1>3, <2>1, WriterLists DEF Held
  <2>2. CASE s # t
    <3>1. w'[s] = w[s]
      BY <2>2, WriterTree
    <3> QED BY <1>3, <3>1 DEF Held
  <2> QED BY <2>1, <2>2
<1> QED BY <1>1, <1>2, <1>3 DEF Held

LEMMA MadeGrows ==
  ASSUME BaseInv, main = "run", NEW t \in Writer, WriterStep(t), NEW p \in hist'.made,
         p \notin hist.made
  PROVE  p = w[t].newf /\ w'[t].newf = w[t].newf /\ w'[t].pc \in {"sync", "register"}
<1>1. hist \in [made : SUBSET Path, leaked : SUBSET Path]
  BY DEF BaseInv, ProcOK
<1>2. Create(t)
  <2>1. hist' = hist \/ hist' = [hist EXCEPT !.leaked = @ \cup {w[t].newf}] \/ Create(t)
    BY PickStep, SyncStep, RegisterStep, DataStep, LeaveStep DEF WriterStep
  <2> QED BY <1>1, <2>1
<1>3. w[t].pc = "create" /\ UNCHANGED procVars
  BY <1>2 DEF Create
<1>4. PICK ty \in Types : CreateNew(t, ty) \/ (CreateOver(t, ty) \/ CreateFault(t, ty))
  BY <1>2 DEF Create
<1>5. CreateNew(t, ty)
  <2>1. hist' # hist
    OBVIOUS
  <2> QED BY <1>3, <1>4, <2>1, CreateOldStep
<1>6. /\ hist' = [hist EXCEPT !.made = @ \cup {w[t].newf}]
      /\ w'[t].newf = w[t].newf /\ w'[t].pc \in {"sync", "register"}
  BY <1>3, <1>5, CreateNewStep
<1> QED BY <1>1, <1>6

LEMMA MadeKeeps ==
  ASSUME BaseInv, MadeInv, [Next]_vars
  PROVE  MadeInv'
<1>1. ASSUME NEW t \in Writer, main = "run", WriterStep(t) PROVE MadeInv'
  <2>1. ASSUME NEW p \in hist'.made PROVE Held(p)'
    <3>1. CASE p \in hist.made
      BY <1>1, <3>1, HeldStays DEF MadeInv
    <3>2. CASE p \notin hist.made
      <4>1. p = w'[t].newf /\ w'[t].pc \in {"sync", "register"}
        BY <1>1, <2>1, <3>2, MadeGrows
      <4> QED BY <4>1 DEF Held
    <3> QED BY <3>1, <3>2
  <2>2. main' = "run"
    BY <1>1, WriterTree
  <2> QED BY <2>1, <2>2 DEF MadeInv
<1>2. CASE JoinWriters
  <2>1. /\ main = "run" /\ u'.l = Spliced /\ UNCHANGED <<fs, w, hist>>
        /\ \A t \in Writer : w[t].pc = "exited"
        /\ main' # "run"
    BY <1>2 DEF JoinWriters, StartUnlink, worldVars
  <2>2. \A p \in Made : p \in hist.leaked \cup {e[1] : e \in Spliced}
    BY <2>1, MineSpliced DEF MadeInv, Held, Made
  <2> QED BY <2>1, <2>2 DEF MadeInv, Made
<1>3. CASE UnlinkStep
  <2>1. main = "unlink" /\ main' # "run" /\ UNCHANGED <<mode, hist>>
    BY <1>3, UnlinkShape
  <2>2. SUFFICES ASSUME mode = "dispatch", NEW p \in Made', p \notin hist.leaked
                 PROVE  p \in {e[1] : e \in u'.l}
    BY <2>1 DEF MadeInv
  <2>3. p \in Made
    BY <1>3, <2>1, UnlinkShape DEF Made, Removed, Moved, Missed, Ends
  <2>4. PICK e \in u.l : p = e[1]
    BY <2>1, <2>2, <2>3 DEF MadeInv
  <2>5. e \in u'.l
    <3>1. CASE Removed
      <4>1. e # Back(u.l)
        BY <2>4, <3>1 DEF File, Made, Removed
      <4> QED BY <3>1, <4>1 DEF Removed
    <3> QED BY <1>3, <3>1, UnlinkShape DEF Moved, Missed, Ends
  <2> QED BY <2>4, <2>5
<1>4. CASE StartSet
  <2>1. main' = "run" /\ hist'.made = {}
    BY <1>4 DEF StartSet, BaseInv, ProcOK
  <2> QED BY <2>1 DEF MadeInv
<1>5. CASE CleanWritePaths
  BY <1>5 DEF CleanWritePaths, MadeInv
<1>6. CASE Interfere
  <2>1. Made' \subseteq Made
    BY <1>6, InterfereShape DEF Made
  <2> QED BY <1>6, <2>1, InterfereShape DEF MadeInv
<1>7. CASE Quiet
  <2>1. Made' = Made /\ \A p : Held(p)' = Held(p)
    BY <1>7 DEF Quiet, Made, Held
  <2> QED BY <1>7, <2>1 DEF Quiet, MadeInv
<1> QED BY <1>1, <1>2, <1>3, <1>4, <1>5, <1>6, <1>7, Shapes

LEMMA AccountInit ==
  ASSUME Init
  PROVE  AccountInv
BY DEF Init, AccountInv, Left

LEMMA AccountWriter ==
  ASSUME BaseInv, AccountInv, main = "run", NEW t \in Writer, WriterStep(t)
  PROVE  AccountInv'
<1>1. ASSUME NEW p \in Left, Held(p) PROVE Held(p)'
  BY <1>1, HeldStays
<1>2. ASSUME NEW p \in Left' PROVE Held(p)'
  <2>1. p \in DOMAIN fs' /\ p \notin DOMAIN Tree
    BY DEF Left
  <2>2. CASE p \in DOMAIN fs
    BY <1>1, <2>1, <2>2 DEF Left, AccountInv
  <2>3. CASE p \notin DOMAIN fs
    <3>1. p = w[t].newf /\ w'[t].newf = w[t].newf /\ w'[t].pc \in {"sync", "register"}
      <4>1. \/ DOMAIN fs' = DOMAIN fs
            \/ /\ DOMAIN fs' = DOMAIN fs \cup {w[t].newf}
               /\ w'[t].pc \in {"sync", "register"} /\ w'[t].newf = w[t].newf
        BY WriterTree
      <4> QED BY <2>1, <2>3, <4>1
    <3> QED BY <3>1 DEF Held
  <2> QED BY <2>2, <2>3
<1>3. main' = "run"
  BY WriterTree
<1> QED BY <1>2, <1>3 DEF AccountInv

\* Nothing is left of a set when the next one starts, but what an fsync error left.
LEMMA LeftAtStart ==
  ASSUME BaseInv, ExactInv, AccountInv, Accounted, StartSet
  PROVE  Left \subseteq hist.leaked
<1>1. main = "report" /\ mode = "dispatch" /\ NumSet # 1
  BY Given DEF StartSet, BaseInv, ProcOK
<1>2. u.l = {}
  BY <1>1 DEF Accounted, ExactInv
<1> QED BY <1>1, <1>2 DEF AccountInv

LEMMA AccountKeeps ==
  ASSUME BaseInv, ExactInv, AccountInv, Accounted, [Next]_vars
  PROVE  AccountInv'
<1>1. CASE JoinWriters
  <2>1. /\ main = "run" /\ u'.l = Spliced /\ UNCHANGED <<fs, w, hist>>
        /\ \A t \in Writer : w[t].pc = "exited"
        /\ main' # "run"
    BY <1>1 DEF JoinWriters, StartUnlink, worldVars
  <2>2. \A p \in Left : p \in hist.leaked \cup {e[1] : e \in Spliced}
    BY <2>1, MineSpliced DEF AccountInv, Held
  <2> QED BY <2>1, <2>2 DEF AccountInv, Left
<1>2. CASE UnlinkStep
  <2>1. main = "unlink" /\ main' # "run" /\ UNCHANGED <<mode, hist>>
    BY <1>2, UnlinkShape
  <2>2. SUFFICES ASSUME mode = "dispatch"
                 PROVE  Left' \subseteq hist.leaked \cup {e[1] : e \in u'.l}
    BY <2>1 DEF AccountInv
  <2>3. Left \subseteq hist.leaked \cup {e[1] : e \in u.l}
    BY <2>1, <2>2 DEF AccountInv
  <2>4. CASE Removed
    <3>1. ASSUME NEW p \in Left' PROVE p \in hist.leaked \/ p \in {e[1] : e \in u'.l}
      <4>1. p \in Left /\ p # File
        BY <2>4 DEF Left, Removed
      <4>2. CASE p \in hist.leaked
        BY <4>2
      <4>3. ASSUME NEW e \in u.l, p = e[1] PROVE p \in {g[1] : g \in u'.l}
        <5>1. e # Back(u.l)
          BY <4>1, <4>3 DEF File
        <5> QED BY <2>4, <4>3, <5>1 DEF Removed
      <4> QED BY <2>3, <4>1, <4>2, <4>3
    <3> QED BY <3>1
  <2>5. CASE Moved \/ Missed \/ Ends
    BY <2>3, <2>5 DEF Moved, Missed, Ends, Left
  <2> QED BY <1>2, <2>4, <2>5, UnlinkShape
<1>3. CASE StartSet
  <2>1. main' = "run" /\ UNCHANGED fs /\ hist'.leaked = hist.leaked
    BY <1>3 DEF StartSet, BaseInv, ProcOK
  <2>2. Left' \subseteq hist'.leaked
    BY <1>3, <2>1, LeftAtStart DEF Left
  <2> QED BY <2>1, <2>2 DEF AccountInv, Held
<1>4. CASE CleanWritePaths
  BY <1>4 DEF CleanWritePaths, AccountInv
<1>5. CASE Interfere
  <2>1. Left' \subseteq Left
    BY <1>5, InterfereShape DEF Left
  <2> QED BY <1>5, <2>1, InterfereShape DEF AccountInv
<1>6. CASE Quiet
  <2>1. Left' = Left /\ \A p : Held(p)' = Held(p)
    BY <1>6 DEF Quiet, Left, Held
  <2> QED BY <1>6, <2>1 DEF Quiet, AccountInv
<1> QED BY <1>1, <1>2, <1>3, <1>4, <1>5, <1>6, AccountWriter, Shapes

-----------------------------------------------------------------------------
(* Only an fsync error leaks.                                              *)

LeakInv ==
  /\ hist.leaked # {} => Sync /\ "error" \in Faults
  /\ \A t \in Writer : w[t].pc = "sync" => Sync

LEMMA LeakWriter ==
  ASSUME BaseInv, LeakInv, main = "run", NEW t \in Writer, WriterStep(t)
  PROVE  LeakInv'
<1>1. /\ hist \in [made : SUBSET Path, leaked : SUBSET Path]
      /\ \A s \in Writer : s # t => w'[s] = w[s]
  BY WriterTree DEF BaseInv, ProcOK
<1>2. /\ hist'.leaked = hist.leaked \/ (Sync /\ "error" \in Faults)
      /\ w'[t].pc = "sync" => Sync
  <2>1. CASE Create(t)
    <3>1. w[t].pc = "create" /\ UNCHANGED procVars
      BY <2>1 DEF Create
    <3>2. PICK ty \in Types : CreateNew(t, ty) \/ (CreateOver(t, ty) \/ CreateFault(t, ty))
      BY <2>1 DEF Create
    <3>3. hist' = hist \/ hist' = [hist EXCEPT !.made = @ \cup {w[t].newf}]
      BY <3>1, <3>2, CreateNewStep, CreateOldStep
    <3>4. w'[t].pc = "sync" => Sync
      BY <3>1, <3>2, CreateNewStep, CreateOldStep
    <3> QED BY <1>1, <3>3, <3>4
  <2>2. CASE SyncPath(t)
    BY <2>2, SyncStep DEF LeakInv
  <2>3. CASE Register(t)
    BY <2>3, RegisterStep DEF AfterRegister
  <2>4. CASE Pick(t) \/ WriteData(t) \/ Leave(t)
    BY <2>4, PickStep, DataStep, LeaveStep
  <2> QED BY <2>1, <2>2, <2>3, <2>4 DEF WriterStep
<1> QED BY <1>1, <1>2 DEF LeakInv

LEMMA LeakKeeps ==
  ASSUME BaseInv, LeakInv, [Next]_vars
  PROVE  LeakInv'
<1>1. CASE JoinWriters \/ UnlinkStep \/ CleanWritePaths \/ Interfere \/ Quiet
  <2>1. UNCHANGED <<w, hist>>
    BY <1>1, UnlinkShape, InterfereShape DEF JoinWriters, CleanWritePaths, Quiet, worldVars
  <2> QED BY <2>1 DEF LeakInv
<1>2. CASE StartSet
  <2>1. hist'.leaked = hist.leaked /\ \A t \in Writer : w'[t] = NewWriter
    BY <1>2 DEF StartSet, BaseInv, ProcOK
  <2> QED BY <2>1 DEF LeakInv, NewWriter
<1> QED BY <1>1, <1>2, LeakWriter, Shapes

-----------------------------------------------------------------------------
(* A set's names are new.                                                  *)

\* The counter of the next name of writer t.
Next4(t) == IF w[t].pc = "create" THEN w[t].n - 1 ELSE w[t].n

\* The names of a set that are in the tree are those its counters have passed.
Numbered ==
  \A p \in DOMAIN fs : Last(p)[1] = Base =>
    /\ Last(p)[3] <= ts
    /\ \A t \in Writer : Last(p)[2] = t /\ Last(p)[3] = ts => Last(p)[4] < Next4(t)

NewOK(t) ==
  main = "run" =>
    /\ w[t].pc \in {"sync", "register", "data"} =>
         /\ w[t].newf \in hist.made
         /\ w[t].type = "reg" => fs[w[t].newf] = [kind |-> "reg", of |-> w[t].newf]
    /\ w[t].pc = "data" => w[t].type = "reg"
    /\ ToSet(w[t].mine) \subseteq hist.made

FreshInv ==
  /\ Numbered /\ data = {}
  /\ \A t \in Writer : NewOK(t)
  /\ mode = "dispatch" /\ ~Interferes =>
       \A p \in DOMAIN Tree : Exists(p) /\ fs[p] = Tree[p]

\* The name of a writer that is about to create is not taken.
LEMMA NotTaken ==
  ASSUME BaseInv, Numbered, NEW t \in Writer, w[t].pc = "create"
  PROVE  ~Exists(w[t].newf)
<1>1. OwnName(t, w[t].newf, w[t].n - 1) /\ w[t].n \in Nat
  BY WriterFields DEF BaseInv, WritersOK, WriterOK
<1>2. Last(w[t].newf) = <<Base, t, ts, w[t].n - 1>>
  BY <1>1 DEF OwnName
<1> QED BY <1>1, <1>2 DEF Numbered, Exists, Next4

LEMMA FreshInit ==
  ASSUME Init, FreshNames
  PROVE  FreshInv
<1>1. /\ fs = Tree /\ data = {} /\ ts = 0 /\ \A t \in Writer : w[t] = NewWriter
  BY DEF Init
<1>2. Numbered
  <2>1. ASSUME NEW p \in DOMAIN Tree, Last(p)[1] = Base
        PROVE  Last(p)[3] \in Int /\ Last(p)[3] < 0
    BY <2>1, Given, FrontLast DEF Name, FreshNames
  <2> QED BY <1>1, <2>1 DEF Numbered
<1>3. \A t \in Writer : NewOK(t)
  <2>1. ToSet(<<>>) = {}
    BY DEF ToSet
  <2> QED BY <1>1, <2>1 DEF NewOK, NewWriter
<1> QED BY <1>1, <1>2, <1>3 DEF FreshInv, Exists

\* What a writer's step does to the next name, to data and to what it has made.
WriterFresh(t) ==
  /\ data' = {}
  /\ Next4(t) <= Next4(t)' /\ Next4(t) \in Int /\ Next4(t)' \in Int
  /\ DOMAIN fs' # DOMAIN fs =>
       /\ DOMAIN fs' = DOMAIN fs \cup {w[t].newf} /\ w[t].pc = "create"
       /\ Next4(t)' = w[t].n
  /\ w'[t].pc \in {"sync", "register", "data"} =>
       /\ w'[t].newf \in hist'.made
       /\ w'[t].type = "reg" => fs'[w'[t].newf] = [kind |-> "reg", of |-> w'[t].newf]
  /\ w'[t].pc = "data" => w'[t].type = "reg"
  /\ ToSet(w'[t].mine) \subseteq hist'.made

LEMMA FreshCreate ==
  ASSUME BaseInv, FreshInv, main = "run", NEW t \in Writer, Create(t)
  PROVE  WriterFresh(t)
<1>0. /\ hist \in [made : SUBSET Path, leaked : SUBSET Path] /\ w[t].n \in Nat
      /\ w[t].newf \in Path
  BY WriterFields DEF BaseInv, ProcOK, WritersOK
<1>1. w[t].pc = "create" /\ UNCHANGED procVars
  BY DEF Create
<1>2. ~Exists(w[t].newf)
  BY <1>1, NotTaken DEF FreshInv
<1>3. PICK ty \in Types : CreateNew(t, ty) \/ CreateFault(t, ty)
  BY <1>2 DEF Create, CreateOver
<1>4. ToSet(w[t].mine) \subseteq hist.made /\ data = {} /\ Next4(t) = w[t].n - 1
  BY <1>1 DEF FreshInv, NewOK, Next4
<1>5. CASE CreateNew(t, ty)
  <2>1. /\ UNCHANGED data
        /\ DOMAIN fs' = DOMAIN fs \cup {w[t].newf}
        /\ fs'[w[t].newf] = NewNode(t, MadeType(t, ty))
        /\ hist' = [hist EXCEPT !.made = @ \cup {w[t].newf}]
        /\ w'[t].pc \in {"sync", "register"} /\ w'[t].type = ty
        /\ w'[t].n = w[t].n /\ w'[t].newf = w[t].newf /\ w'[t].mine = w[t].mine
    BY <1>1, <1>5, CreateNewStep
  <2>2. hist'.made = hist.made \cup {w[t].newf}
    BY <1>0, <2>1
  <2>3. ty = "reg" => NewNode(t, MadeType(t, ty)) = [kind |-> "reg", of |-> w[t].newf]
    BY DEF NewNode, MadeType
  <2>4. Next4(t)' = w[t].n
    BY <2>1 DEF Next4
  <2> QED BY <1>0, <1>1, <1>4, <2>1, <2>2, <2>3, <2>4 DEF WriterFresh
<1>6. CASE CreateFault(t, ty)
  <2>1. /\ UNCHANGED <<fs, hist, data>> /\ w'[t].pc = "exited"
        /\ w'[t].n = w[t].n /\ w'[t].mine = w[t].mine
    <3>1. UNCHANGED data
      BY <1>6 DEF CreateFault
    <3> QED BY <1>1, <1>2, <1>6, <3>1, CreateOldStep
  <2>2. Next4(t)' = w[t].n
    BY <2>1 DEF Next4
  <2> QED BY <1>0, <1>4, <2>1, <2>2 DEF WriterFresh
<1> QED BY <1>3, <1>5, <1>6

LEMMA FreshOther ==
  ASSUME BaseInv, FreshNames, FreshInv, main = "run", NEW t \in Writer,
         WriterStep(t), ~Create(t)
  PROVE  WriterFresh(t)
<1>0. /\ hist \in [made : SUBSET Path, leaked : SUBSET Path] /\ w[t].n \in Nat
      /\ w[t].mine \in Seq(Path)
  BY WriterFields DEF BaseInv, ProcOK, WritersOK
<1>1. ToSet(w[t].mine) \subseteq hist.made /\ data = {} /\ NewOK(t)
  BY DEF FreshInv, NewOK
<1>2. CASE Pick(t)
  <2>1. /\ UNCHANGED <<fs, data, hist>>
        /\ w[t].pc = "idle" /\ w'[t].pc = "create" /\ w'[t].n = w[t].n + 1
        /\ w'[t].mine = w[t].mine
    BY <1>2, PickStep
  <2>2. Next4(t) = w[t].n /\ Next4(t)' = w[t].n
    BY <1>0, <2>1 DEF Next4
  <2> QED BY <1>0, <1>1, <2>1, <2>2 DEF WriterFresh
<1>3. CASE SyncPath(t)
  <2>1. /\ UNCHANGED <<fs, data>>
        /\ w[t].pc = "sync" /\ w'[t].pc \in {"register", "exited"}
        /\ w'[t].n = w[t].n /\ w'[t].newf = w[t].newf
        /\ w'[t].type = w[t].type /\ w'[t].mine = w[t].mine
    BY <1>3, SyncStep
  <2>2. hist.made \subseteq hist'.made
    BY WriterLists
  <2>3. Next4(t) = w[t].n /\ Next4(t)' = w[t].n
    BY <2>1 DEF Next4
  <2> QED BY <1>0, <1>1, <2>1, <2>2, <2>3 DEF WriterFresh, NewOK
<1>4. CASE Register(t)
  <2>1. /\ UNCHANGED <<fs, data, hist>>
        /\ w[t].pc = "register" /\ w'[t].pc = AfterRegister(w[t].type)
        /\ w'[t].n = w[t].n /\ w'[t].newf = w[t].newf /\ w'[t].type = w[t].type
        /\ w'[t].mine = Append(w[t].mine, w[t].newf)
    BY <1>4, RegisterStep
  <2>2. w[t].newf \in hist.made
        /\ (w[t].type = "reg" => fs[w[t].newf] = [kind |-> "reg", of |-> w[t].newf])
    BY <1>1, <2>1 DEF NewOK
  <2>3. ToSet(w'[t].mine) \subseteq hist.made
    <3>1. \A i \in DOMAIN Append(w[t].mine, w[t].newf) :
            \/ i \in DOMAIN w[t].mine /\ Append(w[t].mine, w[t].newf)[i] = w[t].mine[i]
            \/ Append(w[t].mine, w[t].newf)[i] = w[t].newf
      BY <1>0
    <3> QED BY <1>1, <2>1, <2>2, <3>1 DEF ToSet
  <2>4. w'[t].pc \in {"data", "idle"} /\ (w'[t].pc = "data" => w'[t].type = "reg")
    BY <2>1 DEF AfterRegister
  <2>5. Next4(t) = w[t].n /\ Next4(t)' = w[t].n
    BY <2>1, <2>4 DEF Next4
  <2> QED BY <1>0, <1>1, <2>1, <2>2, <2>3, <2>4, <2>5 DEF WriterFresh
<1>5. CASE WriteData(t)
  <2>1. /\ UNCHANGED <<fs, hist>>
        /\ data' \in {data, data \cup UserData(w[t].newf)}
        /\ w[t].pc = "data" /\ w'[t].pc \in {"idle", "exited"}
        /\ w'[t].n = w[t].n /\ w'[t].mine = w[t].mine
    BY <1>5, DataStep
  <2>2. fs[w[t].newf] = [kind |-> "reg", of |-> w[t].newf]
    BY <1>1, <2>1 DEF NewOK
  <2>3. w[t].newf \notin DOMAIN Tree
    <3>1. OwnName(t, w[t].newf, w[t].n - 1)
      BY <2>1 DEF BaseInv, WritersOK, WriterOK
    <3> QED BY <3>1, OwnFresh
  <2>4. UserData(w[t].newf) = {}
    <3>1. Kind(w[t].newf) = "reg" /\ Resolve(w[t].newf) = w[t].newf
      BY <2>2 DEF Kind, Resolve
    <3> QED BY <2>2, <2>3, <3>1 DEF UserData
  <2>5. Next4(t) = w[t].n /\ Next4(t)' = w[t].n
    BY <2>1 DEF Next4
  <2> QED BY <1>0, <1>1, <2>1, <2>4, <2>5 DEF WriterFresh
<1>6. CASE Leave(t)
  <2>1. /\ UNCHANGED <<fs, data, hist>>
        /\ w[t].pc = "idle" /\ w'[t].pc = "exited"
        /\ w'[t].n = w[t].n /\ w'[t].mine = w[t].mine
    BY <1>6, LeaveStep
  <2>2. Next4(t) = w[t].n /\ Next4(t)' = w[t].n
    BY <2>1 DEF Next4
  <2> QED BY <1>0, <1>1, <2>1, <2>2 DEF WriterFresh
<1> QED BY <1>2, <1>3, <1>4, <1>5, <1>6 DEF WriterStep

LEMMA FreshWriter ==
  ASSUME BaseInv, FreshNames, FreshInv, main = "run", NEW t \in Writer, WriterStep(t)
  PROVE  FreshInv'
<1>1. WriterFresh(t)
  BY FreshCreate, FreshOther
<1>2. /\ main' = "run" /\ UNCHANGED <<mode, ts>>
      /\ \A s \in Writer : s # t => w'[s] = w[s]
      /\ \A p \in DOMAIN fs : p \in DOMAIN fs' /\ fs'[p] = fs[p]
  BY WriterTree
<1>3. Numbered'
  <2> SUFFICES ASSUME NEW p \in DOMAIN fs', Last(p)[1] = Base
               PROVE  /\ Last(p)[3] <= ts
                      /\ \A s \in Writer : Last(p)[2] = s /\ Last(p)[3] = ts =>
                           Last(p)[4] < Next4(s)'
    BY <1>2 DEF Numbered
  <2>1. \A s \in Writer : s # t => Next4(s)' = Next4(s)
    BY <1>2 DEF Next4
  <2>2. CASE p \in DOMAIN fs
    <3>1. /\ Last(p)[3] <= ts
          /\ \A s \in Writer : Last(p)[2] = s /\ Last(p)[3] = ts => Last(p)[4] < Next4(s)
      BY <2>2 DEF FreshInv, Numbered
    <3>2. Last(p)[4] \in Int
      BY <2>2, FrontLast DEF BaseInv, TreeOK, Name
    <3>3. Last(p)[4] < Next4(t) => Last(p)[4] < Next4(t)'
      BY <1>1, <3>2 DEF WriterFresh
    <3> QED BY <2>1, <3>1, <3>3
  <2>3. CASE p \notin DOMAIN fs
    <3>1. p = w[t].newf /\ w[t].pc = "create" /\ Next4(t)' = w[t].n
      BY <1>1, <2>3 DEF WriterFresh
    <3>2. Last(p) = <<Base, t, ts, w[t].n - 1>> /\ w[t].n \in Nat
      BY <3>1, WriterFields DEF BaseInv, WritersOK, WriterOK, OwnName
    <3>3. ts \in Int
      BY Given DEF BaseInv, ProcOK
    <3> QED BY <3>1, <3>2, <3>3
  <2> QED BY <2>2, <2>3
<1>4. ASSUME NEW s \in Writer PROVE NewOK(s)'
  <2>1. CASE s = t
    BY <1>1, <2>1 DEF WriterFresh, NewOK
  <2>2. CASE s # t
    <3>1. w'[s] = w[s] /\ NewOK(s) /\ hist.made \subseteq hist'.made
      BY <1>2, <2>2, WriterLists DEF FreshInv
    <3>2. w[s].pc \in {"sync", "register", "data"} => fs'[w[s].newf] = fs[w[s].newf]
      <4>1. w[s].pc \in {"sync", "register", "data"} => w[s].newf \in DOMAIN fs
        BY DEF BaseInv, SetOK, InTree, Exists
      <4> QED BY <1>2, <4>1
    <3> QED BY <1>2, <3>1, <3>2 DEF NewOK
  <2> QED BY <2>1, <2>2
<1>5. data' = {}
  BY <1>1 DEF WriterFresh
<1>6. mode' = "dispatch" /\ ~Interferes =>
        \A p \in DOMAIN Tree : p \in DOMAIN fs' /\ fs'[p] = Tree[p]
  BY <1>2 DEF FreshInv, Exists
<1> QED BY <1>3, <1>4, <1>5, <1>6 DEF FreshInv, Exists

\* A path of the list of a set is no file of the user's.
LEMMA FileFresh ==
  ASSUME BaseInv, ListInv, FreshNames, mode = "dispatch", u.n > 0
  PROVE  File \notin DOMAIN Tree
<1>1. Back(u.l) \in Spliced
  BY BackOfList DEF BaseInv, ListInv
<1>2. PICK t \in Writer : \E i \in 1 .. Len(w[t].mine) : Back(u.l) = <<w[t].mine[i], t, i>>
  BY <1>1, SplicedIs DEF BaseInv
<1>3. PICK i \in 1 .. Len(w[t].mine) : Back(u.l) = <<w[t].mine[i], t, i>>
  BY <1>2
<1>4. OwnName(t, w[t].mine[i], i - 1)
  BY DEF BaseInv, WritersOK, WriterOK
<1> QED BY <1>3, <1>4, OwnFresh DEF File

\* Names stay new if each set begins with a clean tree, or in a second of its own.
LEMMA FreshKeeps ==
  ASSUME BaseInv, ListInv, FreshNames, FreshInv, [Next]_vars,
         StartSet => Left = {} \/ now > ts
  PROVE  FreshInv'
<1>1. ASSUME UNCHANGED <<w, ts, data>>, main' # "run" \/ UNCHANGED <<fs, hist, main>>,
             DOMAIN fs' \subseteq DOMAIN fs
      PROVE  Numbered' /\ data' = {} /\ \A t \in Writer : NewOK(t)'
  <2>1. \A t \in Writer : Next4(t)' = Next4(t)
    BY <1>1 DEF Next4
  <2>2. Numbered'
    BY <1>1, <2>1 DEF FreshInv, Numbered
  <2>3. \A t \in Writer : NewOK(t)'
    BY <1>1 DEF FreshInv, NewOK
  <2> QED BY <1>1, <2>2, <2>3 DEF FreshInv
<1>2. ASSUME UNCHANGED <<fs>>, mode' = "dispatch" => mode = "dispatch"
      PROVE  mode' = "dispatch" /\ ~Interferes =>
               \A p \in DOMAIN Tree : p \in DOMAIN fs' /\ fs'[p] = Tree[p]
  BY <1>2 DEF FreshInv, Exists
<1>3. CASE JoinWriters \/ CleanWritePaths \/ Quiet
  <2>1. /\ UNCHANGED <<w, ts, data, fs, hist>> /\ (main' # "run" \/ UNCHANGED main)
        /\ mode' = "dispatch" => mode = "dispatch"
    BY <1>3 DEF JoinWriters, CleanWritePaths, Quiet, worldVars
  <2> QED BY <1>1, <1>2, <2>1 DEF FreshInv, Exists
<1>4. CASE UnlinkStep
  <2>1. UNCHANGED <<w, ts, data, mode>> /\ main' # "run"
    BY <1>4, UnlinkShape
  <2>2. CASE Removed
    <3>1. mode = "dispatch" => File \notin DOMAIN Tree
      BY <2>2, FileFresh DEF Removed
    <3>2. mode' = "dispatch" /\ ~Interferes =>
            \A p \in DOMAIN Tree : p \in DOMAIN fs' /\ fs'[p] = Tree[p]
      BY <2>1, <2>2, <3>1 DEF Removed, FreshInv, Exists
    <3> QED BY <1>1, <2>1, <2>2, <3>2 DEF Removed, FreshInv, Exists
  <2>3. CASE Moved \/ Missed \/ Ends
    <3>1. UNCHANGED fs
      BY <2>3 DEF Moved, Missed, Ends
    <3> QED BY <1>1, <1>2, <2>1, <3>1 DEF FreshInv, Exists
  <2> QED BY <1>4, <2>2, <2>3, UnlinkShape
<1>5. CASE Interfere
  <2>1. /\ Interferes /\ main' # "run" /\ UNCHANGED <<w, ts, data>>
        /\ DOMAIN fs' \subseteq DOMAIN fs
    BY <1>5, InterfereShape
  <2> QED BY <1>1, <2>1 DEF FreshInv
<1>6. CASE StartSet
  <2>1. /\ UNCHANGED <<fs, data, mode>> /\ ts' = now /\ \A t \in Writer : w'[t] = NewWriter
    BY <1>6 DEF StartSet
  <2>2. ts \in Int /\ now \in Int /\ ts <= now /\ 0 <= now
    BY Given DEF BaseInv, ProcOK
  <2>3. ASSUME NEW p \in DOMAIN fs, Last(p)[1] = Base
        PROVE  Last(p)[3] < now
    <3>1. Last(p)[3] \in Int
      BY FrontLast DEF BaseInv, TreeOK, Name
    <3>2. CASE now > ts
      BY <2>2, <2>3, <3>1, <3>2 DEF FreshInv, Numbered
    <3>3. CASE Left = {}
      BY <2>2, <2>3, <3>1, <3>3 DEF Left, FreshNames
    <3> QED BY <1>6, <3>2, <3>3
  <2>4. \A p \in DOMAIN fs : Last(p)[1] = Base => Last(p)[3] \in Int
    BY FrontLast DEF BaseInv, TreeOK, Name
  <2>5. Numbered'
    BY <2>1, <2>2, <2>3, <2>4 DEF Numbered
  <2>6. \A t \in Writer : NewOK(t)'
    <3>1. ToSet(<<>>) = {}
      BY DEF ToSet
    <3> QED BY <2>1, <3>1 DEF NewOK, NewWriter
  <2> QED BY <2>1, <2>5, <2>6 DEF FreshInv, Exists
<1> QED BY <1>3, <1>4, <1>5, <1>6, FreshWriter, Shapes

-----------------------------------------------------------------------------
(* A set that fails has leaked.                                            *)

FailInv == mode = "dispatch" /\ main = "failed" => hist.leaked # {}

LEMMA FailKeeps ==
  ASSUME BaseInv, ListInv, AccountInv, FailInv, [Next]_vars,
         "throw" \notin Faults, FreshNames
  PROVE  FailInv'
<1>1. ASSUME NEW t \in Writer, main = "run", WriterStep(t) PROVE FailInv'
  BY <1>1, WriterTree DEF FailInv
<1>2. CASE JoinWriters \/ StartSet \/ CleanWritePaths
  BY <1>2 DEF JoinWriters, StartSet, CleanWritePaths, FailInv
<1>3. CASE Interfere \/ Quiet
  BY <1>3, InterfereShape DEF Quiet, FailInv
<1>4. CASE UnlinkStep
  <2>1. main = "unlink" /\ UNCHANGED <<mode, hist>>
    BY <1>4, UnlinkShape
  <2>2. SUFFICES ASSUME mode = "dispatch", main' = "failed" PROVE hist.leaked # {}
    BY <2>1 DEF FailInv
  <2>3. Ends /\ Below(File) # {} /\ u.n > 0
    BY <1>4, <2>1, <2>2, UnlinkShape DEF Removed, Moved, Missed, Ends, Returned
  <2>4. PICK q \in DOMAIN fs : IsStrictPrefix(File, q)
    BY <2>3 DEF Below
  <2>5. q \notin DOMAIN Tree
    <3>1. File \in Path \ {<<>>} /\ File \notin DOMAIN Tree
      <4>1. File \in DOMAIN fs
        BY <2>3 DEF Ends, Exists
      <4> QED BY <2>2, <2>3, <4>1, FileFresh DEF BaseInv, TreeOK
    <3>2. IsTree(Tree) /\ DOMAIN Tree \subseteq Path
      BY Given
    <3> QED BY <2>4, <3>1, <3>2, TreeAbove
  <2>6. q \notin {e[1] : e \in u.l}
    BY <2>3, <2>4, BackOfList DEF BaseInv
  <2>7. q \in hist.leaked
    BY <2>1, <2>2, <2>5, <2>6 DEF AccountInv, Left
  <2> QED BY <2>7
<1> QED BY <1>1, <1>2, <1>3, <1>4, Shapes

-----------------------------------------------------------------------------
(* Theorems on sets.                                                       *)

LEMMA ListInvariance ==
  Spec => [](BaseInv /\ ListInv /\ KindInv /\ KeptInv /\ ExactInv /\ LeakInv)
<1> DEFINE I == BaseInv /\ ListInv /\ KindInv /\ KeptInv /\ ExactInv /\ LeakInv
<1>1. Init => I
  <2> SUFFICES ASSUME Init PROVE I
    OBVIOUS
  <2>1. KindInv /\ KeptInv /\ ExactInv /\ LeakInv
    BY DEF Init, KindInv, Kind, KeptInv, ExactInv, LeakInv, Exists, NewWriter
  <2> QED BY <2>1, InitBase, ListInit
<1>2. I /\ [Next]_vars => I'
  BY NextKeeps, ListKeeps, KindKeeps, KeptKeeps, ExactKeeps, LeakKeeps
<1> QED BY <1>1, <1>2, PTL DEF Spec

LEMMA AccountInvariance == Accounted => (Spec => []AccountInv)
<1> SUFFICES ASSUME Accounted PROVE Spec => []AccountInv
  OBVIOUS
<1>1. Init => AccountInv
  BY AccountInit
<1>2. BaseInv /\ ExactInv /\ AccountInv /\ [Next]_vars => AccountInv'
  BY AccountKeeps
<1> QED BY <1>1, <1>2, ListInvariance, PTL DEF Spec

\* cleanup_write_paths: what a set leaves of its own when it reports are paths whose
\* fsync failed and paths that the report counts as remaining, whatever failed.
THEOREM SetsCleanUp == Spec => []SetCleansUp
<1>1. Init => MadeInv
  BY DEF Init, MadeInv
<1>2. BaseInv /\ MadeInv /\ [Next]_vars => MadeInv'
  BY MadeKeeps
<1>3. BaseInv /\ MadeInv => SetCleansUp
  BY DEF BaseInv, ProcOK, MadeInv, Made, SetCleansUp
<1> QED BY <1>1, <1>2, <1>3, ListInvariance, PTL DEF Spec

\* unlink_write_paths throws, and the set fails, only over a path that an error of
\* fsync has left unregistered: what is below a path goes before it.
THEOREM FailuresAreLeaks ==
  Accounted /\ FreshNames /\ "throw" \notin Faults => (Spec => []UnlinkFailsOnLeak)
<1> SUFFICES ASSUME Accounted, FreshNames, "throw" \notin Faults
             PROVE  Spec => []UnlinkFailsOnLeak
  OBVIOUS
<1>1. Init => FailInv
  BY DEF Init, FailInv
<1>2. BaseInv /\ ListInv /\ AccountInv /\ FailInv /\ [Next]_vars => FailInv'
  BY FailKeeps
<1>3. FailInv => UnlinkFailsOnLeak
  BY DEF FailInv, UnlinkFailsOnLeak
<1> QED BY <1>1, <1>2, <1>3, ListInvariance, AccountInvariance, PTL DEF Spec

\* Sets leave nothing behind: there is one, or no path is kept, taken by another
\* process or left by an error.
Tidy == NumSet = 1 \/ (~Keep /\ ~Interferes /\ ~(Sync /\ "error" \in Faults))

\* Each set begins in a later second than the one before.
SetsApart == [][StartSet => now > ts]_vars

LEMMA TidyStart ==
  ASSUME BaseInv, ExactInv, LeakInv, Accounted => AccountInv, FreshNames, Tidy, StartSet
  PROVE  Left = {}
<1>1. NumSet # 1
  BY Given DEF StartSet, BaseInv, ProcOK
<1>2. Accounted /\ hist.leaked = {}
  BY <1>1 DEF Tidy, Accounted, LeakInv
<1> QED BY <1>2, LeftAtStart

LEMMA TidyInvariance == FreshNames /\ Tidy => (Spec => []FreshInv)
<1> SUFFICES ASSUME FreshNames, Tidy PROVE Spec => []FreshInv
  OBVIOUS
<1>1. Accounted
  BY DEF Tidy, Accounted
<1>2. Init => FreshInv
  BY FreshInit
<1>3. /\ BaseInv /\ ListInv /\ ExactInv /\ LeakInv /\ AccountInv /\ FreshInv
      /\ [Next]_vars
      => FreshInv'
  BY TidyStart, FreshKeeps
<1> QED BY <1>1, <1>2, <1>3, ListInvariance, AccountInvariance, PTL DEF Spec

LEMMA ApartInvariance == FreshNames => (Spec /\ SetsApart => []FreshInv)
<1> SUFFICES ASSUME FreshNames PROVE Spec /\ SetsApart => []FreshInv
  OBVIOUS
<1>1. Init => FreshInv
  BY FreshInit
<1>2. BaseInv /\ ListInv /\ FreshInv /\ [Next]_vars /\ [StartSet => now > ts]_vars => FreshInv'
  <2>1. UNCHANGED vars => ~StartSet
    BY DEF StartSet, vars
  <2> QED BY <2>1, FreshKeeps
<1> QED BY <1>1, <1>2, ListInvariance, PTL DEF Spec, SetsApart

LEMMA FreshRegistered ==
  ASSUME FreshInv
  PROVE  RegisteredAreNew
BY DEF FreshInv, NewOK, RegisteredAreNew

LEMMA FreshKept ==
  ASSUME BaseInv, KeptInv, FreshInv, ~Interferes
  PROVE  UserTreeKept
<1>1. ASSUME NEW p \in DOMAIN Tree, ~(mode = "clean" /\ IsWritePath(p))
      PROVE  Exists(p) /\ fs[p] = Tree[p]
  <2>1. CASE mode = "dispatch"
    BY <2>1 DEF FreshInv
  <2>2. CASE mode = "clean"
    BY <1>1, <2>2 DEF KeptInv, Doomed
  <2> QED BY <2>1, <2>2 DEF BaseInv, ProcOK
<1> QED BY <1>1 DEF FreshInv, UserTreeKept

\* write_file: creating a path never opens one that exists, so every registered
\* path is one that its set has made, if sets leave nothing behind.
THEOREM PathsAreNew == FreshNames /\ Tidy => (Spec => []RegisteredAreNew)
<1> SUFFICES ASSUME FreshNames, Tidy PROVE Spec => []RegisteredAreNew
  OBVIOUS
<1>1. FreshInv => RegisteredAreNew
  BY FreshRegistered
<1> QED BY <1>1, TidyInvariance, PTL

\* The same, whatever the sets leave behind, if no two begin in the same second:
\* the name of a path has the time of its set.
THEOREM PathsAreNewApart == FreshNames => (Spec /\ SetsApart => []RegisteredAreNew)
<1> SUFFICES ASSUME FreshNames PROVE Spec /\ SetsApart => []RegisteredAreNew
  OBVIOUS
<1>1. FreshInv => RegisteredAreNew
  BY FreshRegistered
<1> QED BY <1>1, ApartInvariance, PTL

\* write_file, unlink_write_paths, collect_write_paths: no file of the user's is
\* written to or removed, but for the write paths of earlier runs in a cleaning.
THEOREM UserFilesKept == FreshNames /\ Tidy /\ ~Interferes => (Spec => []UserTreeKept)
<1> SUFFICES ASSUME FreshNames, Tidy, ~Interferes PROVE Spec => []UserTreeKept
  OBVIOUS
<1>1. BaseInv /\ KeptInv /\ FreshInv => UserTreeKept
  BY FreshKept
<1> QED BY <1>1, TidyInvariance, ListInvariance, PTL

\* The same, if no two sets begin in the same second.
THEOREM UserFilesKeptApart ==
  FreshNames /\ ~Interferes => (Spec /\ SetsApart => []UserTreeKept)
<1> SUFFICES ASSUME FreshNames, ~Interferes PROVE Spec /\ SetsApart => []UserTreeKept
  OBVIOUS
<1>1. BaseInv /\ KeptInv /\ FreshInv => UserTreeKept
  BY FreshKept
<1> QED BY <1>1, ApartInvariance, ListInvariance, PTL

-----------------------------------------------------------------------------
(* Cleaning.                                                               *)

\* The user's devices with a name like ours are not collected.
Device(p) == p \in DOMAIN Tree /\ Doomed(p) /\ Tree[p].kind = "other"

\* What is below a directory that is itself cleaned away is cleaned away, too.
NothingBelow ==
  \A p, q \in DOMAIN Tree :
    Doomed(p) /\ IsStrictPrefix(p, q) => IsWritePath(q) /\ Tree[q].kind # "other"

\* The program neither makes nor removes devices, and does not list them to clean.
\* A writer may come to register one that has its name: unlinking stops there.
PlainInv ==
  /\ \A p : Device(p) => Exists(p) /\ fs[p] = Tree[p]
  /\ mode = "clean" => \A e \in u.l : ~Device(e[1])
  /\ main = "unlink" /\ u.pc # "type" /\ Exists(File) => ~Device(File)

CleanInv ==
  mode = "clean" =>
    /\ main \in {"unlink", "cleaned"}
    /\ main = "cleaned" => u.l = {}
    /\ \A p \in DOMAIN fs : Doomed(p) /\ Kind(p) # "other" => p \in {e[1] : e \in u.l}

\* The back of the list is there and nothing is below it.
LEMMA CleanFile ==
  ASSUME BaseInv, ListInv, KindInv, ExactInv, PlainInv, CleanInv, ~Interferes, NotNested,
         NothingBelow, mode = "clean", main = "unlink", u.n > 0
  PROVE  Exists(File) /\ Below(File) = {} /\ Kind(File) # "other"
<1>1. Back(u.l) \in u.l /\ \A g \in u.l : ~IsStrictPrefix(File, g[1])
  BY BackOfList DEF BaseInv
<1>2. Exists(File)
  BY <1>1 DEF ExactInv, Exact, File
<1>3. Doomed(File) /\ File \in Path \ {<<>>}
  BY <1>2, FileDoomed DEF Exists, BaseInv, TreeOK
<1>0. ~Device(File)
  BY <1>1 DEF File, PlainInv
<1>4. SUFFICES ASSUME NEW q \in DOMAIN fs, IsStrictPrefix(File, q) PROVE FALSE
  BY <1>2, <1>3, <1>0 DEF Below, KindInv, Device, Exists
<1>5. q \in Path
  BY DEF BaseInv, TreeOK
<1>6. Doomed(q)
  <2>1. CASE q \in DOMAIN Tree
    <3>1. File \in DOMAIN Tree
      BY <1>3, <1>4, <2>1, Given, TreeAbove
    <3>2. IsWritePath(q)
      BY <1>3, <1>4, <2>1, <3>1 DEF NothingBelow
    <3>3. IsBelowInput(q)
      <4>1. PICK n \in DOMAIN Input : IsStrictPrefix(Input[n], File)
        BY <1>3 DEF Doomed, IsBelowInput
      <4>2. Input[n] \in Path
        BY Given
      <4>3. IsStrictPrefix(Input[n], q)
        BY <1>3, <1>4, <1>5, <4>1, <4>2, PrefixTransitive
      <4> QED BY <4>3 DEF IsBelowInput
    <3> QED BY <3>2, <3>3 DEF Doomed
  <2>2. CASE q \notin DOMAIN Tree
    BY <2>2 DEF ListInv, Left
  <2> QED BY <2>1, <2>2
<1>7. Kind(q) # "other"
  <2>1. SUFFICES ASSUME Device(q) PROVE FALSE
    BY <1>6 DEF KindInv, Device
  <2>2. File \in DOMAIN Tree
    BY <1>3, <1>4, <2>1, Given, TreeAbove DEF Device
  <2> QED BY <1>3, <1>4, <2>1, <2>2 DEF NothingBelow, Device
<1>8. q \in {e[1] : e \in u.l}
  BY <1>6, <1>7 DEF CleanInv
<1> QED BY <1>1, <1>4, <1>8

LEMMA CleanKeeps ==
  ASSUME BaseInv, ListInv, KindInv, ExactInv, PlainInv, CleanInv, [Next]_vars,
         ~Interferes, NotNested, NothingBelow, "throw" \notin Faults
  PROVE  CleanInv'
<1>1. ASSUME NEW t \in Writer, main = "run", WriterStep(t) PROVE CleanInv'
  BY <1>1, WriterTree DEF CleanInv, BaseInv, ProcOK
<1>2. CASE JoinWriters \/ StartSet
  <2>1. mode' = "dispatch"
    BY <1>2 DEF JoinWriters, StartSet, worldVars, BaseInv, ProcOK
  <2> QED BY <2>1 DEF CleanInv
<1>3. CASE CleanWritePaths
  <2>1. main' = "unlink" /\ u'.l = Collected /\ UNCHANGED fs
    BY <1>3 DEF CleanWritePaths, StartUnlink, worldVars
  <2>2. ASSUME NEW p \in DOMAIN fs, Doomed(p), Kind(p) # "other"
        PROVE  p \in {e[1] : e \in Collected}
    <3>1. PICK n \in DOMAIN Input : IsStrictPrefix(Input[n], p)
      BY <2>2 DEF Doomed, IsBelowInput
    <3>2. IsCleanable(p)
      <4>1. Kind(p) \in {"dir", "reg", "symlink", "other"} /\ Kind(p) # "other"
        BY <2>2 DEF BaseInv, TreeOK, Node, Kind
      <4> QED BY <2>2, <4>1 DEF IsCleanable, Doomed
    <3>4. <<p, n>> \in Collected
      BY <2>2, <3>1, <3>2, CollectedIs DEF BaseInv, Below
    <3>3. p = <<p, n>>[1]
      OBVIOUS
    <3> QED BY <3>3, <3>4
  <2> QED BY <2>1, <2>2 DEF CleanInv, Kind
<1>4. CASE Interfere
  BY <1>4, InterfereShape
<1>5. CASE Quiet
  BY <1>5 DEF Quiet, CleanInv, Kind
<1>6. CASE UnlinkStep
  <2>1. main = "unlink" /\ UNCHANGED mode
    BY <1>6, UnlinkShape
  <2>2. SUFFICES ASSUME mode = "clean" PROVE CleanInv'
    BY <2>1 DEF CleanInv
  <2>3. Exact
    BY <2>1, <2>2 DEF ExactInv
  <2>4. u.n > 0 => Exists(File) /\ Below(File) = {} /\ Kind(File) # "other"
    BY <2>1, <2>2, CleanFile
  <2>5. CASE Removed
    <3>1. ASSUME NEW p \in DOMAIN fs', Doomed(p), fs'[p].kind # "other"
          PROVE  p \in {e[1] : e \in u'.l}
      <4>1. p \in DOMAIN fs /\ p # File /\ Kind(p) # "other"
        BY <2>5, <3>1 DEF Removed, Kind
      <4>2. PICK e \in u.l : p = e[1]
        BY <2>2, <3>1, <4>1 DEF CleanInv
      <4>3. e # Back(u.l)
        BY <4>1, <4>2 DEF File
      <4> QED BY <2>5, <4>2, <4>3 DEF Removed
    <3> QED BY <2>1, <2>5, <3>1 DEF CleanInv, Removed, Kind
  <2>6. CASE Moved
    BY <2>1, <2>2, <2>6 DEF Moved, CleanInv, Kind
  <2>7. CASE Ends
    <3>1. UNCHANGED <<fs, u>> /\ u.n = 0 /\ main' = Returned("ok", u.l)
      BY <2>4, <2>7 DEF Ends
    <3>2. u.l = {}
      BY <2>3, <3>1, FS_EmptySet DEF Exact, BaseInv, ListOK
    <3>3. main' = "cleaned"
      BY <2>2, <3>1, <3>2 DEF Returned
    <3> QED BY <2>2, <3>1, <3>2, <3>3 DEF CleanInv, Kind
  <2> QED BY <1>6, <2>4, <2>5, <2>6, <2>7, UnlinkShape DEF Missed
<1> QED BY <1>1, <1>2, <1>3, <1>4, <1>5, <1>6, Shapes

LEMMA CollectedPlain ==
  ASSUME BaseInv, PlainInv, NEW e \in Collected
  PROVE  ~Device(e[1])
<1>1. e = <<e[1], e[2]>>
  BY CollectedIs DEF BaseInv
<1>2. IsCleanable(e[1])
  BY <1>1, CollectedIs DEF BaseInv
<1> QED BY <1>2 DEF IsCleanable, PlainInv, Device, Kind

LEMMA PlainKeeps ==
  ASSUME BaseInv, ListInv, PlainInv, [Next]_vars, ~Interferes
  PROVE  PlainInv'
<1>1. ASSUME /\ \A p \in DOMAIN fs' : p \in DOMAIN fs /\ fs'[p] = fs[p]
             /\ \A p : Device(p) => p \in DOMAIN fs'
             /\ mode' = "clean" => \A e \in u'.l : ~Device(e[1])
             /\ main' = "unlink" /\ u'.pc # "type" /\ Exists(File)' => ~Device(File')
      PROVE  PlainInv'
  BY <1>1 DEF PlainInv, Kind, Exists, Device
<1>2. ASSUME NEW t \in Writer, main = "run", WriterStep(t)
      PROVE  PlainInv'
  <2>1. /\ UNCHANGED <<u, mode>> /\ main' = "run"
        /\ \A p \in DOMAIN fs : p \in DOMAIN fs' /\ fs'[p] = fs[p]
    BY <1>2, WriterTree
  <2> QED BY <1>2, <2>1 DEF PlainInv, Exists
<1>3. CASE UnlinkStep
  <2>1. main = "unlink" /\ UNCHANGED mode
    BY <1>3, UnlinkShape
  <2>2. CASE Removed
    <3>1. ~Device(File)
      BY <2>1, <2>2 DEF PlainInv, Removed
    <3>2. /\ \A p \in DOMAIN fs' : p \in DOMAIN fs /\ fs'[p] = fs[p]
          /\ u'.l \subseteq u.l /\ u'.pc = "type"
      BY <2>2 DEF Removed
    <3>3. \A p : Device(p) => p \in DOMAIN fs'
      BY <2>2, <3>1 DEF Removed, PlainInv, Exists
    <3> QED BY <1>1, <2>1, <3>2, <3>3 DEF PlainInv
  <2>3. CASE Moved
    <3>1. UNCHANGED <<fs, main>> /\ File' = File /\ u'.l = u.l
      BY <2>3 DEF Moved, File, Back
    <3>2. u'.pc # "type" /\ Exists(File)' => ~Device(File')
      BY <2>1, <2>3, <3>1 DEF Moved, PlainInv, Exists, Device, Kind
    <3> QED BY <1>1, <2>1, <3>1, <3>2 DEF PlainInv, Exists
  <2>4. CASE Missed
    <3>1. UNCHANGED fs /\ u'.l = u.l
      BY <2>4 DEF Missed
    <3> QED BY <1>1, <2>1, <2>4, <3>1 DEF PlainInv, Exists, Missed
  <2>5. CASE Ends
    <3>1. UNCHANGED <<fs, u>> /\ main' # "unlink"
      BY <2>5 DEF Ends, Returned, Thrown
    <3> QED BY <1>1, <2>1, <3>1 DEF PlainInv, Exists
  <2> QED BY <1>3, <2>2, <2>3, <2>4, <2>5, UnlinkShape
<1>4. CASE Interfere
  BY <1>4, InterfereShape
<1>5. CASE JoinWriters
  <2>1. u'.pc = "type" /\ UNCHANGED fs /\ mode' # "clean"
    BY <1>5 DEF JoinWriters, StartUnlink, worldVars, BaseInv, ProcOK
  <2> QED BY <1>1, <2>1 DEF PlainInv, Exists
<1>6. CASE CleanWritePaths
  <2>1. u'.l = Collected /\ u'.pc = "type" /\ UNCHANGED fs
    BY <1>6 DEF CleanWritePaths, StartUnlink, worldVars
  <2> QED BY <1>1, <2>1, CollectedPlain DEF PlainInv, Exists
<1>7. CASE StartSet
  <2>1. u'.l = {} /\ u'.pc = "type" /\ UNCHANGED fs
    BY <1>7 DEF StartSet, StartUnlink
  <2> QED BY <1>1, <2>1 DEF PlainInv, Exists
<1>8. CASE Quiet
  <2>1. UNCHANGED <<fs, u, mode>> /\ (main' = main \/ main' # "unlink")
    BY <1>8 DEF Quiet
  <2>2. File' = File
    BY <2>1 DEF File, Back
  <2> QED BY <1>1, <2>1, <2>2 DEF PlainInv, Exists
<1> QED BY <1>2, <1>3, <1>4, <1>5, <1>6, <1>7, <1>8, Shapes

LEMMA CleanedTree ==
  ASSUME BaseInv, ListInv, KindInv, KeptInv, PlainInv, CleanInv, ~Interferes
  PROVE  CleanRecovers
<1> DEFINE Keeps(p) == ~Doomed(p) \/ Device(p)
<1>1. SUFFICES ASSUME mode = "clean", main # "unlink"
               PROVE  /\ main = "cleaned"
                      /\ fs = Restrict(Tree, {p \in DOMAIN Tree : Keeps(p)})
  <2>1. ASSUME NEW p \in DOMAIN Tree
        PROVE  Keeps(p) <=> ~(IsWritePath(p) /\ IsBelowInput(p) /\ Tree[p].kind # "other")
    BY DEF Doomed, Device
  <2>2. {p \in DOMAIN Tree : Keeps(p)} =
          {p \in DOMAIN Tree : ~(IsWritePath(p) /\ IsBelowInput(p) /\ Tree[p].kind # "other")}
    BY <2>1
  <2> HIDE DEF Keeps
  <2> QED BY <2>2 DEF CleanRecovers
<1>2. main = "cleaned" /\ \A p \in DOMAIN fs : Keeps(p)
  BY <1>1 DEF CleanInv, KindInv, Device
<1>3. ASSUME NEW p \in DOMAIN fs PROVE p \in DOMAIN Tree /\ fs[p] = Tree[p]
  <2>1. CASE Device(p)
    BY <2>1 DEF PlainInv, Device
  <2>2. CASE ~Doomed(p)
    BY <2>2 DEF ListInv, Left, KeptInv
  <2> QED BY <1>2, <2>1, <2>2
<1>4. \A p \in DOMAIN Tree : Keeps(p) => p \in DOMAIN fs
  BY DEF KeptInv, PlainInv, Exists
<1>5. DOMAIN fs = {p \in DOMAIN Tree : Keeps(p)}
  BY <1>2, <1>3, <1>4
<1>6. fs = [p \in DOMAIN fs |-> fs[p]]
  BY DEF BaseInv, TreeOK
<1> QED BY <1>2, <1>3, <1>5, <1>6 DEF Restrict

\* collect_write_paths finds every path that a run has left, wherever it ended,
\* and unlink_write_paths removes them, children first; the rest of the tree is
\* the user's, untouched.  The arguments are not nested (a path found twice is
\* missed the second time) and a directory that is cleaned holds nothing else.
THEOREM CleaningRecovers ==
  ~Interferes /\ NotNested /\ NothingBelow /\ "throw" \notin Faults
    => (Spec => []CleanRecovers)
<1> SUFFICES ASSUME ~Interferes, NotNested, NothingBelow, "throw" \notin Faults
             PROVE  Spec => []CleanRecovers
  OBVIOUS
<1>1. Init => PlainInv /\ CleanInv
  BY DEF Init, StartUnlink, PlainInv, CleanInv, Device, Kind, Exists
<1>2. /\ BaseInv /\ ListInv /\ KindInv /\ ExactInv /\ PlainInv /\ CleanInv /\ [Next]_vars
      => PlainInv' /\ CleanInv'
  BY PlainKeeps, CleanKeeps
<1>3. BaseInv /\ ListInv /\ KindInv /\ KeptInv /\ PlainInv /\ CleanInv => CleanRecovers
  BY CleanedTree
<1> QED BY <1>1, <1>2, <1>3, ListInvariance, PTL DEF Spec
=============================================================================
