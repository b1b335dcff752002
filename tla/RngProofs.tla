----------------------------- MODULE RngProofs ------------------------------
(***************************************************************************)
(* Proofs about Rng, for any number of threads, words and draws.           *)
(***************************************************************************)
EXTENDS Rng, TLAPS

Kinds == {"default", "seeded"}
Places == {"idle", "test", "assign", "set", "check", "draw", "store"}

TypeOK ==
  /\ random \in BOOLEAN /\ init \in BOOLEAN
  /\ word \in [0 .. N - 1 -> Kinds]
  /\ p \in Nat
  /\ th \in [Thread -> [pc : Places, i : Nat, n : Nat]]

AllSeeded == \A j \in 0 .. N - 1 : word[j] = "seeded"

\* A word that is seeded stays seeded: the words that a thread has gone past in
\* its assignment are, and all of them once one thread has come through.
Seeding ==
  /\ init => AllSeeded
  /\ \A t \in Thread :
       /\ th[t].pc \in {"set", "check", "draw", "store"} => AllSeeded
       /\ th[t].pc = "assign" => \A j \in 0 .. N - 1 : j < th[t].i => word[j] = "seeded"

\* Who is past the initialisation has set the flag or seen it set; a worker begins
\* its first call after the draws of main, if main has any.
Flag ==
  \A t \in Thread :
    /\ th[t].n > 0 \/ th[t].pc \in {"check", "draw", "store"} => init
    /\ th[t].pc \in {"assign", "set"} => th[t].n = 0
    /\ random /\ t # "main" /\ th[t].pc # "idle" => th["main"].n > 0
    /\ random /\ t # "main" => th[t].pc \notin {"assign", "set"}

IndInv == TypeOK /\ Seeding /\ Flag /\ NeverUnseeded

LEMMA RngInit == Init => IndInv
<1> SUFFICES ASSUME Init PROVE IndInv
  OBVIOUS
<1> USE RngAssumption DEF RngAssumption, Init
<1>1. TypeOK
  BY DEF TypeOK, Kinds, Places
<1>2. Seeding /\ Flag /\ NeverUnseeded
  BY DEF Seeding, Flag, NeverUnseeded
<1> QED BY <1>1, <1>2 DEF IndInv

\* What the actions do to the place of a thread.
LEMMA ThreadSteps ==
  ASSUME TypeOK, NEW t \in Thread,
         NEW a \in Places, NEW i \in Nat, NEW n \in Nat,
         \/ th' = [th EXCEPT ![t].pc = a] /\ i = th[t].i /\ n = th[t].n
         \/ th' = [th EXCEPT ![t].i = i] /\ a = th[t].pc /\ n = th[t].n
         \/ th' = [th EXCEPT ![t].pc = a, ![t].i = i] /\ n = th[t].n
         \/ th' = [th EXCEPT ![t].pc = a, ![t].n = n] /\ i = th[t].i
  PROVE  /\ th' = [th EXCEPT ![t] = [pc |-> a, i |-> i, n |-> n]]
         /\ th' \in [Thread -> [pc : Places, i : Nat, n : Nat]]
<1>1. th \in [Thread -> [pc : Places, i : Nat, n : Nat]]
  BY DEF TypeOK
<1>2. th' = [th EXCEPT ![t] = [pc |-> a, i |-> i, n |-> n]]
  BY <1>1
<1>3. [pc |-> a, i |-> i, n |-> n] \in [pc : Places, i : Nat, n : Nat]
  OBVIOUS
<1> QED BY <1>1, <1>2, <1>3

LEMMA RngTypes ==
  ASSUME TypeOK, NEW t \in Thread, Step(t)
  PROVE  TypeOK' /\ \A u \in Thread : u # t => th'[u] = th[u]
<1> DEFINE T == [Thread -> [pc : Places, i : Nat, n : Nat]]
<1> USE RngAssumption DEF RngAssumption
<1>1. /\ th \in T /\ th[t].pc \in Places /\ th[t].i \in Nat /\ th[t].n \in Nat
      /\ random \in BOOLEAN /\ init \in BOOLEAN
      /\ word \in [0 .. N - 1 -> Kinds] /\ p \in Nat
  BY DEF TypeOK
<1> SUFFICES /\ th' \in T
             /\ \A u \in Thread : u # t => th'[u] = th[u]
             /\ random' \in BOOLEAN /\ init' \in BOOLEAN
             /\ word' \in [0 .. N - 1 -> Kinds] /\ p' \in Nat
  BY DEF TypeOK
<1>2. CASE Call(t) \/ SetInit(t)
  <2>1. PICK a \in Places : th' = [th EXCEPT ![t].pc = a]
    BY <1>2 DEF Call, SetInit, Goto, Places
  <2>2. th' \in T
    BY <1>1, <2>1, ThreadSteps
  <2> QED BY <1>1, <1>2, <2>1, <2>2 DEF Call, SetInit
<1>3. CASE TestInit(t)
  <2>1. PICK a \in Places : th' = [th EXCEPT ![t].pc = a, ![t].i = 0]
    BY <1>3 DEF TestInit, Places
  <2>2. th' \in T
    BY <1>1, <2>1, ThreadSteps
  <2> QED BY <1>1, <1>3, <2>1, <2>2 DEF TestInit
<1>4. CASE Assign(t)
  <2>1. CASE th[t].i < N
    <3>1. th' = [th EXCEPT ![t].i = th[t].i + 1] /\ th[t].i + 1 \in Nat
      BY <1>1, <1>4, <2>1 DEF Assign
    <3>2. th' \in T
      BY <1>1, <3>1, ThreadSteps
    <3>3. word' \in [0 .. N - 1 -> Kinds] /\ UNCHANGED <<random, init, p>>
      BY <1>1, <1>4, <2>1 DEF Assign, Kinds
    <3> QED BY <1>1, <3>1, <3>2, <3>3
  <2>2. CASE ~(th[t].i < N)
    <3>1. /\ th' = [th EXCEPT ![t].pc = "set"] /\ "set" \in Places /\ p' = N
          /\ UNCHANGED <<random, init, word>>
      BY <1>1, <1>4, <2>2 DEF Assign, Goto, Places
    <3>2. th' \in T
      BY <1>1, <3>1, ThreadSteps
    <3> QED BY <1>1, <3>1, <3>2
  <2> QED BY <2>1, <2>2
<1>5. CASE Check(t)
  <2>1. p' \in Nat /\ th' = [th EXCEPT ![t].pc = "draw", ![t].i = p'] /\ "draw" \in Places
    BY <1>1, <1>5 DEF Check, Places
  <2>2. th' \in T
    BY <1>1, <2>1, ThreadSteps
  <2> QED BY <1>1, <1>5, <2>1, <2>2 DEF Check
<1>6. CASE Draw(t)
  <2>1. PICK i \in {th[t].i, p} : th' = [th EXCEPT ![t].pc = "store", ![t].i = i]
    BY <1>6 DEF Draw
  <2>2. i \in Nat /\ "store" \in Places
    BY <1>1, <2>1 DEF Places
  <2>3. th' \in T
    BY <1>1, <2>1, <2>2, ThreadSteps
  <2> QED BY <1>1, <1>6, <2>1, <2>3 DEF Draw
<1>7. CASE Store(t)
  <2>1. /\ th' = [th EXCEPT ![t].pc = "idle", ![t].n = th[t].n + 1]
        /\ "idle" \in Places /\ th[t].n + 1 \in Nat /\ p' \in Nat
    BY <1>1, <1>7 DEF Store, Places
  <2>2. th' \in T
    BY <1>1, <2>1, ThreadSteps
  <2> QED BY <1>1, <1>7, <2>1, <2>2 DEF Store
<1> QED BY <1>2, <1>3, <1>4, <1>5, <1>6, <1>7 DEF Step

\* No step takes a seed away.
LEMMA SeedsStay ==
  ASSUME TypeOK, NEW t \in Thread, Step(t)
  PROVE  /\ \A j \in 0 .. N - 1 : word[j] = "seeded" => word'[j] = "seeded"
         /\ AllSeeded => AllSeeded'
<1>1. \A j \in 0 .. N - 1 : word[j] = "seeded" => word'[j] = "seeded"
  BY DEF TypeOK, Step, Call, TestInit, Assign, SetInit, Check, Draw, Store
<1> QED BY <1>1 DEF AllSeeded

LEMMA SeedingStep ==
  ASSUME IndInv, NEW t \in Thread, Step(t)
  PROVE  Seeding' /\ NeverUnseeded'
<1> USE RngAssumption DEF RngAssumption
<1>1. /\ TypeOK /\ TypeOK' /\ Seeding /\ NeverUnseeded
      /\ \A u \in Thread : u # t => th'[u] = th[u]
      /\ \A j \in 0 .. N - 1 : word[j] = "seeded" => word'[j] = "seeded"
      /\ AllSeeded => AllSeeded'
  BY RngTypes, SeedsStay DEF IndInv
<1>2. init' => AllSeeded'
  BY <1>1 DEF Seeding, Step, Call, TestInit, Assign, SetInit, Check, Draw, Store
<1>3. ASSUME NEW u \in Thread, u # t
      PROVE  /\ th'[u].pc \in {"set", "check", "draw", "store"} => AllSeeded'
             /\ th'[u].pc = "assign" =>
                  \A j \in 0 .. N - 1 : j < th'[u].i => word'[j] = "seeded"
  BY <1>1, <1>3 DEF Seeding
<1>4. /\ th'[t].pc \in {"set", "check", "draw", "store"} => AllSeeded'
      /\ th'[t].pc = "assign" =>
           \A j \in 0 .. N - 1 : j < th'[t].i => word'[j] = "seeded"
  <2>1. CASE Call(t) \/ TestInit(t) \/ SetInit(t)
    BY <1>1, <2>1 DEF Seeding, TypeOK, Call, TestInit, SetInit, Goto
  <2>2. CASE Assign(t) /\ th[t].i < N
    <3>1. /\ th[t].pc = "assign" /\ th'[t].pc = "assign" /\ th'[t].i = th[t].i + 1
          /\ th[t].i \in 0 .. N - 1 /\ word'[th[t].i] = "seeded"
      BY <1>1, <2>2 DEF Assign, TypeOK
    <3>2. ASSUME NEW j \in 0 .. N - 1, j < th'[t].i
          PROVE  word'[j] = "seeded"
      <4>1. j = th[t].i \/ j < th[t].i
        BY <3>1, <3>2
      <4> QED BY <1>1, <3>1, <4>1 DEF Seeding
    <3> QED BY <3>1, <3>2
  <2>3. CASE Assign(t) /\ ~(th[t].i < N)
    <3>1. th[t].pc = "assign" /\ th'[t].pc = "set" /\ th[t].i \in Nat
      BY <1>1, <2>3 DEF Assign, Goto, TypeOK
    <3>2. AllSeeded
      BY <1>1, <2>3, <3>1 DEF Seeding, AllSeeded
    <3> QED BY <1>1, <3>1, <3>2
  <2>4. CASE Check(t) \/ Draw(t) \/ Store(t)
    BY <1>1, <2>4 DEF Seeding, TypeOK, Check, Draw, Store
  <2> QED BY <2>1, <2>2, <2>3, <2>4 DEF Step
<1>5. NeverUnseeded'
  <2>1. CASE Draw(t)
    <3>1. AllSeeded
      BY <1>1, <2>1 DEF Draw, Seeding
    <3>2. PICK i \in {th[t].i, p} : drawn' = drawn \cup {IF i < N THEN word[i] ELSE "behind"}
      BY <2>1 DEF Draw
    <3>3. i \in Nat
      BY <1>1, <3>2 DEF TypeOK
    <3> QED BY <1>1, <3>1, <3>2, <3>3 DEF NeverUnseeded, AllSeeded
  <2>2. CASE ~Draw(t)
    BY <1>1, <2>2 DEF NeverUnseeded, Step, Call, TestInit, Assign, SetInit, Check, Store
  <2> QED BY <2>1, <2>2
<1> QED BY <1>2, <1>3, <1>4, <1>5 DEF Seeding

LEMMA FlagStep ==
  ASSUME IndInv, NEW t \in Thread, Step(t)
  PROVE  Flag'
<1> USE RngAssumption DEF RngAssumption
<1>1. /\ TypeOK /\ TypeOK' /\ Flag
      /\ \A u \in Thread : u # t => th'[u] = th[u]
  BY RngTypes DEF IndInv
<1>2. init => init'
  BY <1>1 DEF TypeOK, Step, Call, TestInit, Assign, SetInit, Check, Draw, Store
<1>3. /\ random' = random /\ "main" \in Thread
      /\ th["main"].n > 0 => th'["main"].n > 0
  <2>1. \A u \in Thread : th[u].n > 0 => th'[u].n > 0
    <3>1. ASSUME th[t].n > 0 PROVE th'[t].n > 0
      <4>1. th[t].n \in Nat
        BY <1>1 DEF TypeOK
      <4>2. CASE Call(t) \/ TestInit(t) \/ SetInit(t) \/ Check(t)
        BY <1>1, <3>1, <4>2 DEF TypeOK, Call, TestInit, Goto, SetInit, Check
      <4>5. CASE Draw(t)
        <5>1. PICK i \in {th[t].i, p} : th' = [th EXCEPT ![t].pc = "store", ![t].i = i]
          BY <4>5 DEF Draw
        <5> QED BY <1>1, <3>1, <5>1 DEF TypeOK
      <4>3. CASE Assign(t)
        <5>1. \/ th' = [th EXCEPT ![t].i = @ + 1]
              \/ th' = [th EXCEPT ![t].pc = "set"]
          BY <4>3 DEF Assign, Goto
        <5> QED BY <1>1, <3>1, <5>1 DEF TypeOK
      <4>4. CASE Store(t)
        BY <1>1, <3>1, <4>1, <4>4 DEF TypeOK, Store
      <4> QED BY <4>2, <4>3, <4>4, <4>5 DEF Step
    <3> QED BY <1>1, <3>1
  <2> QED BY <2>1 DEF Thread, Step, Call, TestInit, Assign, SetInit, Check, Draw, Store
<1>4. ASSUME NEW u \in Thread, u # t
      PROVE  /\ th'[u].n > 0 \/ th'[u].pc \in {"check", "draw", "store"} => init'
             /\ th'[u].pc \in {"assign", "set"} => th'[u].n = 0
             /\ random' /\ u # "main" /\ th'[u].pc # "idle" => th'["main"].n > 0
             /\ random' /\ u # "main" => th'[u].pc \notin {"assign", "set"}
  BY <1>1, <1>2, <1>3, <1>4 DEF Flag
<1>5. /\ th'[t].n > 0 \/ th'[t].pc \in {"check", "draw", "store"} => init'
      /\ th'[t].pc \in {"assign", "set"} => th'[t].n = 0
      /\ random' /\ t # "main" /\ th'[t].pc # "idle" => th'["main"].n > 0
      /\ random' /\ t # "main" => th'[t].pc \notin {"assign", "set"}
  <2>1. CASE Call(t)
    <3>1. /\ th[t].pc = "idle" /\ th'[t].pc = "test" /\ th'[t].n = th[t].n
          /\ th[t].n \in Nat /\ th[t].n < MaxDraws
          /\ IF t = "main" THEN random ELSE MainDone
      BY <1>1, <2>1 DEF Call, Goto, TypeOK
    <3>2. random /\ t # "main" => th["main"].n > 0
      BY <3>1 DEF MainDone
    <3> QED BY <1>1, <1>2, <1>3, <3>1, <3>2 DEF Flag
  <2>2. CASE TestInit(t)
    <3>1. /\ th[t].pc = "test" /\ th'[t].pc = IF init THEN "check" ELSE "assign"
          /\ th'[t].n = th[t].n /\ th[t].n \in Nat
      BY <1>1, <2>2 DEF TestInit, TypeOK
    <3>2. init' = init
      BY <2>2 DEF TestInit
    <3>3. random /\ t # "main" => init
      BY <1>1, <1>3, <3>1 DEF Flag
    <3>4. ~init => th[t].n = 0
      BY <1>1, <3>1 DEF Flag
    <3> QED BY <1>1, <1>3, <3>1, <3>2, <3>3, <3>4 DEF Flag
  <2>3. CASE Assign(t)
    <3>1. /\ th[t].pc = "assign" /\ th'[t].pc \in {"assign", "set"}
          /\ th'[t].n = th[t].n /\ th[t].n \in Nat
      BY <1>1, <2>3 DEF Assign, Goto, TypeOK
    <3> QED BY <1>1, <1>2, <1>3, <3>1 DEF Flag
  <2>4. CASE SetInit(t)
    <3>1. th[t].pc = "set" /\ th'[t].pc = "check" /\ th'[t].n = th[t].n /\ init'
      BY <1>1, <2>4 DEF SetInit, Goto, TypeOK
    <3> QED BY <1>1, <1>3, <3>1 DEF Flag
  <2>5. CASE Check(t) \/ Draw(t)
    <3>1. /\ th[t].pc \in {"check", "draw"} /\ th'[t].pc \in {"draw", "store"}
          /\ th'[t].n = th[t].n
      BY <1>1, <2>5 DEF Check, Draw, TypeOK
    <3> QED BY <1>1, <1>2, <1>3, <3>1 DEF Flag
  <2>6. CASE Store(t)
    <3>1. th[t].pc = "store" /\ th'[t].pc = "idle"
      BY <1>1, <2>6 DEF Store, TypeOK
    <3> QED BY <1>1, <1>2, <1>3, <3>1 DEF Flag
  <2> QED BY <2>1, <2>2, <2>3, <2>4, <2>5, <2>6 DEF Step
<1> QED BY <1>4, <1>5 DEF Flag

\* Every state of the program satisfies the inductive invariant.
THEOREM RngInvariance == Spec => []IndInv
<1>1. IndInv /\ [Next]_vars => IndInv'
  <2> SUFFICES ASSUME IndInv, [Next]_vars PROVE IndInv'
    OBVIOUS
  <2>1. CASE UNCHANGED vars
    BY <2>1 DEF vars, IndInv, TypeOK, Seeding, AllSeeded, Flag, NeverUnseeded
  <2>2. ASSUME NEW t \in Thread, Step(t) PROVE IndInv'
    BY <2>2, RngTypes, SeedingStep, FlagStep DEF IndInv
  <2> QED BY <2>1, <2>2 DEF Next, Done
<1> QED BY <1>1, RngInit, PTL DEF Spec

\* No draw takes a word made from the default seed, however many threads come to
\* get_random_engine at once and wherever their first calls overlap.
THEOREM DrawsAreSeeded == Spec => []NeverUnseeded
<1>1. IndInv => NeverUnseeded
  BY DEF IndInv
<1> QED BY <1>1, RngInvariance, PTL

\* A thread seeds the engine in its first call or never, and a worker never does
\* when main draws first.
THEOREM SeedsInFirstCall == Spec => []SeededOnce
<1>1. IndInv => SeededOnce
  BY DEF IndInv, Flag, SeededOnce
<1> QED BY <1>1, RngInvariance, PTL
=============================================================================
