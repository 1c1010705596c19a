---------------------------- MODULE FlashProofs ----------------------------
(***************************************************************************)
(* Proofs about the flash Writer, for every size of a page and of the      *)
(* memory and every set of configurations in which preserveUnset comes     *)
(* with autoIncrement (FlashAssumption).                                   *)
(*                                                                         *)
(* One invariant, FlashInv, says at which stage of which method the Writer *)
(* stands and what the page buffer and the page hold there; both theorems  *)
(* follow from it.                                                         *)
(***************************************************************************)
EXTENDS FlashProps, SequenceTheorems, TLAPS

PageWords == WordOf(pageSize)
Word == Values \union {Blank, Garbage}

-----------------------------------------------------------------------------
(* Where a method stands. *)

Then(step, steps) == <<step>> \o steps

\* The words from k up to, not including, m are still to be preserved.
Ahead(k, m, steps) == [i \in 1..(m - k) |-> WordStep("preserve", 2 * (k + i - 1), Blank)] \o steps

\* The steps a method has left at each stage; n is empty or moves to the next page.
Open(n)    == Then(Step("enableRWW"), n)
Written(n) == Then(Step("wait"), Open(n))
Writes(n)  == Then(Step("write"), Written(n))
Erased(n)  == Then(Step("wait"), Writes(n))
Erases(n)  == Then(Step("erase"), Erased(n))
Clears     == Then(Step("erase"), Written(<<>>))
Advances   == Then(Step("advance"), <<>>)
Loaded3    == Then(Step("wait"), Advances)
Loads3     == Then(WordStep("load", writer.offset, pending[WordOf(writer.offset)]), Loaded3)
Moves      == Then(Step("nextPage"), <<>>)

Stages == {"idle", "load", "loaded", "advance", "clear", "erase", "erased", "write", "written", "open", "next"}
Steps(s, n) == CASE s = "idle" -> <<>> [] s = "load" -> Loads3 [] s = "loaded" -> Loaded3
                 [] s = "advance" -> Advances [] s = "clear" -> Clears [] s = "erase" -> Erases(n)
                 [] s = "erased" -> Erased(n) [] s = "write" -> Writes(n)
                 [] s = "written" -> Written(n) [] s = "open" -> Open(n) [] s = "next" -> Moves
Loading == {"load", "loaded", "advance"}
Writing == {"erase", "erased", "write"}
Ending  == {"written", "open"}

-----------------------------------------------------------------------------
(* The invariant. *)

WriterType ==
  /\ writer \in [page : Nat, offset : Nat]
  /\ 2 * WordOf(writer.offset) = writer.offset /\ writer.offset <= pageSize

FlashType ==
  /\ config \in Configs /\ WriterType
  /\ flash \in [Pages -> [Words -> Word]] /\ buffer \in [Words -> Word \union {Unset}]
  /\ busy \in {Idle, "erase", "write"}
  /\ rww \in BOOLEAN /\ placed \in BOOLEAN /\ sound \in BOOLEAN
  /\ DOMAIN pending \subseteq Words /\ pending = [w \in DOMAIN pending |-> pending[w]]
  /\ \A w \in DOMAIN pending : pending[w] \in Values
  /\ before = Closed \/ before \in [Words -> Word]

\* The page as the client knows it, and as it will be.
Old == IF before = Closed THEN flash[writer.page] ELSE before
Base == IF config.autoErase /\ ~config.preserveUnset THEN BlankPage ELSE before
Target == [w \in Words |-> IF w \in DOMAIN pending THEN pending[w] ELSE Base[w]]

\* What holds of a method at stage s, whatever commands were lost.
Working(s, k, m) ==
  /\ busy # Idle => s \in {"erased", "written"} /\ before # Closed
  /\ s = "erased" => busy # "write"
  /\ before # Closed => s \in {"erased", "write", "written", "open"} /\ k >= m
Shape(s, k, m) ==
  /\ (s \notin {"idle", "next"} \/ k < m) => writer.page \in Pages
  /\ s \in Loading => writer.offset < pageSize /\ WordOf(writer.offset) \in DOMAIN pending
  /\ s = "next" => pending = NoWords /\ ~placed
  /\ k < m => s \in {"idle", "erase", "write"} /\ config.preserveUnset
  /\ k < m /\ s = "idle" => placed /\ 2 * m <= writer.offset
  /\ s \in {"erase", "erased"} => config.autoErase
  /\ s = "clear" => pending = NoWords /\ ~(config.preserveUnset /\ placed)
  /\ \A w \in DOMAIN pending : ~(k <= w /\ w < m)
  /\ config.preserveUnset => \A w \in DOMAIN pending :
       (2 * w < writer.offset) \/ (s \in Loading /\ 2 * w = writer.offset)
Placed(s, k, m) == Working(s, k, m) /\ Shape(s, k, m)

\* While no command was lost: what the page buffer holds, and the page.
Kept(s, w) == /\ config.preserveUnset
              /\ s \in Writing \/ ((placed \/ pending # NoWords) /\ 2 * w < writer.offset)
Filled(s, k, m) == \A w \in Words :
  buffer[w] = IF (k <= w /\ w < m) \/ (s = "load" /\ w = WordOf(writer.offset)) THEN Unset
              ELSE IF w \in DOMAIN pending THEN pending[w]
              ELSE IF Kept(s, w) THEN Old[w] ELSE Unset
Prepared(s, k, m) ==
  /\ before = Closed => rww
  /\ s \notin Ending => Filled(s, k, m)
  /\ s \notin Ending /\ ~config.autoErase => \A w \in DOMAIN pending : flash[writer.page][w] = Blank
  /\ s \in {"erased", "write"} =>
       IF config.autoErase THEN before # Closed /\ (busy # "erase" => flash[writer.page] = BlankPage)
       ELSE before = Closed
  /\ s \in Ending =>
       /\ before # Closed
       /\ busy = "erase" => pending = NoWords
       /\ busy = "write" => \A w \in Words : Programmed(flash[writer.page][w], buffer[w]) = Target[w]
       /\ busy = Idle => \/ flash[writer.page] = Target
                         \/ pending = NoWords /\ flash[writer.page] = BlankPage

Stage(s, k, m, n) ==
  /\ Placed(s, k, m) /\ todo = Ahead(k, m, Steps(s, n)) /\ (sound => Prepared(s, k, m))

FlashInv ==
  /\ FlashType
  /\ \E s \in Stages, k \in 0..PageWords, m \in 0..PageWords, n \in {<<>>, Moves} : Stage(s, k, m, n)

-----------------------------------------------------------------------------
(* Lists of steps. *)

Kinds == {"load", "preserve", "erase", "write", "wait", "enableRWW", "advance", "nextPage"}
AnyStep == [do : Kinds] \union [do : Kinds, offset : Nat, value : Values \union {Blank}]

\* Steps are records of the two kinds, with the fields they were made with.
LEMMA StepTypes ==
  /\ \A d \in Kinds : Step(d) \in AnyStep /\ Step(d).do = d
  /\ \A d \in Kinds, o \in Nat, v \in Values \union {Blank} :
       /\ WordStep(d, o, v) \in AnyStep
       /\ WordStep(d, o, v).do = d /\ WordStep(d, o, v).offset = o /\ WordStep(d, o, v).value = v
BY DEF Step, WordStep, AnyStep

\* A step in front of a list is its head, the list its tail.
LEMMA ThenIsFirst ==
  ASSUME NEW x \in AnyStep, NEW t \in Seq(AnyStep)
  PROVE  /\ Then(x, t) \in Seq(AnyStep) /\ Then(x, t) # <<>>
         /\ Head(Then(x, t)) = x /\ Tail(Then(x, t)) = t
<1> DEFINE u == Then(x, t)
<1>1. /\ <<x>> \in Seq(AnyStep) /\ Len(<<x>>) = 1 /\ <<x>>[1] = x
      /\ t \in Seq(AnyStep) /\ Len(t) \in Nat
  OBVIOUS
<1>2. /\ u \in Seq(AnyStep) /\ Len(u) = 1 + Len(t)
      /\ \A i \in 1..Len(u) : u[i] = IF i <= 1 THEN x ELSE t[i - 1]
  BY <1>1, ConcatProperties DEF Then
<1> HIDE DEF u
<1>3. u # <<>> /\ Head(u) = u[1] /\ u[1] = x
  BY <1>1, <1>2
<1>4. /\ Tail(u) \in Seq(AnyStep) /\ Len(Tail(u)) = Len(t)
      /\ \A i \in 1..Len(t) : Tail(u)[i] = u[i + 1]
  BY <1>1, <1>2, <1>3, HeadTailProperties
<1>5. \A i \in 1..Len(t) : Tail(u)[i] = t[i]
  BY <1>1, <1>2, <1>4
<1>6. Tail(u) = t
  BY <1>1, <1>4, <1>5, SeqEqual
<1> QED BY <1>2, <1>3, <1>6 DEF u

\* Words still to be preserved come before the list, one by one.
LEMMA AheadIsFirst ==
  ASSUME NEW k \in Nat, NEW m \in Nat, NEW t \in Seq(AnyStep)
  PROVE  /\ Ahead(k, m, t) \in Seq(AnyStep)
         /\ k >= m => Ahead(k, m, t) = t
         /\ k < m => /\ Ahead(k, m, t) # <<>> /\ Head(Ahead(k, m, t)) = WordStep("preserve", 2 * k, Blank)
                     /\ Tail(Ahead(k, m, t)) = Ahead(k + 1, m, t)
<1> DEFINE step(i) == WordStep("preserve", 2 * i, Blank)
           list(j) == [i \in 1..(m - j) |-> step(j + i - 1)]
<1>1. \A i \in Nat : step(i) \in AnyStep
  BY StepTypes DEF Kinds
<1> HIDE DEF step
<1>2. ASSUME NEW j \in Nat, j <= m
      PROVE list(j) \in Seq(AnyStep) /\ Len(list(j)) = m - j /\ \A i \in 1..(m - j) : list(j)[i] = step(j + i - 1)
  <2>1. m - j \in Nat /\ \A i \in 1..(m - j) : j + i - 1 \in Nat
    BY <1>2
  <2> QED BY <1>1, <2>1
<1>3. \A j \in Nat : Ahead(j, m, t) = list(j) \o t
  BY DEF Ahead, step
<1>4. CASE k >= m
  <2>1. 1..(m - k) = 1..0
    BY <1>4
  <2>2. list(k) = <<>>
    BY <2>1
  <2>3. <<>> \o t = t
    BY ConcatEmptySeq
  <2> HIDE DEF list
  <2>4. Ahead(k, m, t) = t
    BY <1>3, <2>2, <2>3
  <2> QED BY <1>4, <2>4
<1>5. CASE k < m
  <2> DEFINE a == list(k)
             b == list(k + 1)
  <2>1. /\ a \in Seq(AnyStep) /\ Len(a) = m - k /\ \A i \in 1..(m - k) : a[i] = step(k + i - 1)
        /\ b \in Seq(AnyStep) /\ Len(b) = m - k - 1 /\ \A i \in 1..(m - k - 1) : b[i] = step(k + i)
    <3>1. k + 1 \in Nat /\ k + 1 <= m /\ k <= m
      BY <1>5
    <3>2. /\ b \in Seq(AnyStep) /\ Len(b) = m - (k + 1) /\ \A i \in 1..(m - (k + 1)) : b[i] = step((k + 1) + i - 1)
      BY <1>2, <3>1
    <3>3. m - (k + 1) = m - k - 1 /\ \A i \in 1..(m - k - 1) : (k + 1) + i - 1 = k + i
      BY <3>1
    <3> QED BY <1>2, <3>1, <3>2, <3>3
  <2> HIDE DEF list, a, b
  <2> DEFINE u == a \o t
             v == b \o t
  <2>2. /\ u \in Seq(AnyStep) /\ Len(u) = m - k + Len(t)
        /\ \A i \in 1..Len(u) : u[i] = IF i <= m - k THEN a[i] ELSE t[i - (m - k)]
        /\ v \in Seq(AnyStep) /\ Len(v) = m - k - 1 + Len(t)
        /\ \A i \in 1..Len(v) : v[i] = IF i <= m - k - 1 THEN b[i] ELSE t[i - (m - k - 1)]
    <3>1. /\ u \in Seq(AnyStep) /\ Len(u) = Len(a) + Len(t)
          /\ \A i \in 1..(Len(a) + Len(t)) : u[i] = IF i <= Len(a) THEN a[i] ELSE t[i - Len(a)]
      BY <2>1, ConcatProperties, Zenon
    <3>2. /\ v \in Seq(AnyStep) /\ Len(v) = Len(b) + Len(t)
          /\ \A i \in 1..(Len(b) + Len(t)) : v[i] = IF i <= Len(b) THEN b[i] ELSE t[i - Len(b)]
      BY <2>1, ConcatProperties, Zenon
    <3> HIDE DEF u, v
    <3> QED BY <2>1, <3>1, <3>2
  <2> HIDE DEF u, v
  <2>3. Len(t) \in Nat
    OBVIOUS
  <2>4. u # <<>> /\ Head(u) = u[1] /\ u[1] = step(k)
    <3>1. Len(u) >= 1 /\ 1 \in 1..(m - k) /\ k + 1 - 1 = k
      BY <1>5, <2>2, <2>3
    <3> QED BY <2>1, <2>2, <3>1
  <2>5. /\ Tail(u) \in Seq(AnyStep) /\ Len(Tail(u)) = Len(v)
        /\ \A i \in 1..Len(v) : Tail(u)[i] = u[i + 1]
    BY <2>2, <2>3, <2>4, HeadTailProperties
  <2>6. ASSUME NEW i \in 1..Len(v) PROVE u[i + 1] = v[i]
    <3>1. i \in Nat /\ i >= 1 /\ i + 1 \in 1..Len(u)
      BY <2>2, <2>3
    <3>2. CASE i <= m - k - 1
      <4>1. i \in 1..(m - k - 1) /\ i + 1 \in 1..(m - k) /\ k + (i + 1) - 1 = k + i
        BY <3>1, <3>2
      <4>2. a[i + 1] = step(k + i) /\ b[i] = step(k + i)
        BY <2>1, <4>1
      <4>3. u[i + 1] = a[i + 1] /\ v[i] = b[i]
        BY <2>2, <3>1, <3>2, <4>1
      <4> QED BY <4>2, <4>3
    <3>3. CASE ~(i <= m - k - 1)
      <4>1. ~(i + 1 <= m - k) /\ (i + 1) - (m - k) = i - (m - k - 1)
        BY <3>1, <3>3
      <4> QED BY <2>2, <3>1, <3>3, <4>1
    <3> QED BY <3>2, <3>3
  <2>7. Tail(u) = v
    BY <2>2, <2>5, <2>6, SeqEqual
  <2>8. Ahead(k, m, t) = u /\ Ahead(k + 1, m, t) = v
    <3>1. k + 1 \in Nat
      OBVIOUS
    <3>2. Ahead(k, m, t) = list(k) \o t /\ Ahead(k + 1, m, t) = list(k + 1) \o t
      BY <1>3, <3>1, Zenon
    <3> QED BY <3>2, Zenon DEF u, v, a, b
  <2> QED BY <1>5, <2>2, <2>4, <2>7, <2>8 DEF step
<1> QED BY <1>4, <1>5

\* Concatenation behind a step.
LEMMA ThenConcat ==
  ASSUME NEW x \in AnyStep, NEW t \in Seq(AnyStep), NEW u \in Seq(AnyStep)
  PROVE  Then(x, t) \o u = Then(x, t \o u)
<1>1. <<x>> \in Seq(AnyStep)
  OBVIOUS
<1> QED BY <1>1, ConcatAssociative DEF Then

\* Concatenation behind words to preserve.
LEMMA AheadConcat ==
  ASSUME NEW k \in Nat, NEW m \in Nat, NEW t \in Seq(AnyStep), NEW u \in Seq(AnyStep)
  PROVE  Ahead(k, m, t) \o u = Ahead(k, m, t \o u)
<1> DEFINE step(i) == WordStep("preserve", 2 * (k + i - 1), Blank)
           list == [i \in 1..(m - k) |-> step(i)]
<1>1. \A i \in 1..(m - k) : step(i) \in AnyStep
  BY StepTypes DEF Kinds
<1> HIDE DEF step
<1>2. list \in Seq(AnyStep)
  <2>1. CASE m >= k
    <3>1. m - k \in Nat
      BY <2>1
    <3> QED BY <1>1, <3>1
  <2>2. CASE m < k
    <3>1. 1..(m - k) = 1..0
      BY <2>2
    <3>2. list = <<>>
      BY <3>1
    <3> QED BY <3>2
  <2> QED BY <2>1, <2>2
<1>3. \A s \in Seq(AnyStep) : Ahead(k, m, s) = list \o s
  BY DEF Ahead, step
<1> HIDE DEF list
<1>4. t \o u \in Seq(AnyStep)
  BY ConcatProperties
<1>5. (list \o t) \o u = list \o (t \o u)
  BY <1>2, ConcatAssociative
<1> QED BY <1>3, <1>4, <1>5, Zenon

\* Short tuples, step by step.
LEMMA ShortLists ==
  ASSUME NEW x \in AnyStep, NEW y \in AnyStep, NEW z \in AnyStep
  PROVE  /\ <<x>> = Then(x, <<>>)
         /\ <<x, y>> = Then(x, Then(y, <<>>))
         /\ <<x, y, z>> = Then(x, Then(y, Then(z, <<>>)))
<1>0. /\ <<x>> \in Seq(AnyStep) /\ Len(<<x>>) = 1 /\ <<>> \in Seq(AnyStep)
      /\ <<y>> \in Seq(AnyStep) /\ Len(<<y>>) = 1
      /\ <<z>> \in Seq(AnyStep) /\ Len(<<z>>) = 1
      /\ <<x, y>> \in Seq(AnyStep) /\ Len(<<x, y>>) = 2
      /\ <<y, z>> \in Seq(AnyStep) /\ Len(<<y, z>>) = 2
      /\ <<x, y, z>> \in Seq(AnyStep) /\ Len(<<x, y, z>>) = 3
  OBVIOUS
<1>1. \A u \in AnyStep : <<u>> = Then(u, <<>>)
  <2> TAKE u \in AnyStep
  <2>1. <<u>> \in Seq(AnyStep)
    OBVIOUS
  <2> QED BY <2>1, ConcatEmptySeq DEF Then
<1>2. ASSUME NEW u \in AnyStep, NEW v \in AnyStep PROVE <<u, v>> = <<u>> \o <<v>>
  <2> DEFINE l == <<u>> \o <<v>>
  <2>1. /\ <<u>> \in Seq(AnyStep) /\ Len(<<u>>) = 1 /\ <<v>> \in Seq(AnyStep) /\ Len(<<v>>) = 1
        /\ <<u, v>> \in Seq(AnyStep) /\ Len(<<u, v>>) = 2
    OBVIOUS
  <2>2. l \in Seq(AnyStep) /\ Len(l) = 2 /\ \A i \in 1..2 : l[i] = IF i <= 1 THEN <<u>>[i] ELSE <<v>>[i - 1]
    BY <2>1, ConcatProperties
  <2> HIDE DEF l
  <2>3. l[1] = u /\ l[2] = v
    BY <2>2
  <2>4. \A i \in 1..2 : l[i] = <<u, v>>[i]
    BY <2>3
  <2> QED BY <2>1, <2>2, <2>4, SeqEqual DEF l
<1>3. <<x, y, z>> = <<x>> \o <<y, z>>
  <2> DEFINE l == <<x>> \o <<y, z>>
  <2>2. l \in Seq(AnyStep) /\ Len(l) = 3 /\ \A i \in 1..3 : l[i] = IF i <= 1 THEN <<x>>[i] ELSE <<y, z>>[i - 1]
    BY <1>0, ConcatProperties
  <2> HIDE DEF l
  <2>3. l[1] = x /\ l[2] = y /\ l[3] = z
    BY <2>2
  <2>4. \A i \in 1..3 : l[i] = <<x, y, z>>[i]
    BY <2>3
  <2> QED BY <1>0, <2>2, <2>4, SeqEqual DEF l
<1>4. \A u \in AnyStep, v \in AnyStep : <<u, v>> = Then(u, Then(v, <<>>))
  BY <1>1, <1>2 DEF Then
<1> QED BY <1>1, <1>3, <1>4 DEF Then

-----------------------------------------------------------------------------
(* The methods and what is left of them. *)

\* A page has at least one word, numbered from 0.
LEMMA PageWordsType == PageWords \in Nat /\ pageSize = 2 * PageWords /\ PageWords > 0 /\ Words = 0..(PageWords - 1)
BY FlashAssumption DEF PageWords, WordOf, Words

\* What is left at each stage.
LEMMA StageTypes ==
  ASSUME NEW n \in {<<>>, Moves}
  PROVE  /\ n \in Seq(AnyStep) /\ Moves \in Seq(AnyStep) /\ <<>> \in Seq(AnyStep)
         /\ Open(n) \in Seq(AnyStep) /\ Written(n) \in Seq(AnyStep) /\ Writes(n) \in Seq(AnyStep)
         /\ Erased(n) \in Seq(AnyStep) /\ Erases(n) \in Seq(AnyStep) /\ Clears \in Seq(AnyStep)
         /\ Written(<<>>) \in Seq(AnyStep)
         /\ Advances \in Seq(AnyStep) /\ Loaded3 \in Seq(AnyStep)
         /\ (FlashType /\ WordOf(writer.offset) \in DOMAIN pending => Loads3 \in Seq(AnyStep))
<1> USE StepTypes, ThenIsFirst DEF Kinds
<1>1. Moves \in Seq(AnyStep) /\ <<>> \in Seq(AnyStep) /\ n \in Seq(AnyStep)
  <2>1. <<>> \in Seq(AnyStep) /\ Step("nextPage") \in AnyStep
    OBVIOUS
  <2>2. Moves \in Seq(AnyStep)
    BY <2>1 DEF Moves
  <2> QED BY <2>1, <2>2
<1>2. Open(n) \in Seq(AnyStep) /\ Open(<<>>) \in Seq(AnyStep)
  BY <1>1 DEF Open
<1>3. Written(n) \in Seq(AnyStep) /\ Written(<<>>) \in Seq(AnyStep)
  BY <1>2 DEF Written
<1>4. Writes(n) \in Seq(AnyStep) /\ Clears \in Seq(AnyStep)
  BY <1>3 DEF Writes, Clears
<1>5. Erased(n) \in Seq(AnyStep)
  BY <1>4 DEF Erased
<1>6. Erases(n) \in Seq(AnyStep)
  BY <1>5 DEF Erases
<1>7. Advances \in Seq(AnyStep)
  BY <1>1 DEF Advances
<1>8. Loaded3 \in Seq(AnyStep)
  BY <1>7 DEF Loaded3
<1>9. FlashType /\ WordOf(writer.offset) \in DOMAIN pending => Loads3 \in Seq(AnyStep)
  BY <1>8 DEF Loads3, FlashType, WriterType
<1> QED BY <1>1, <1>2, <1>3, <1>4, <1>5, <1>6, <1>7, <1>8, <1>9

\* What is left at any stage is a list of steps.
LEMMA StepsAreMethods ==
  ASSUME FlashType, NEW s \in Stages, NEW n \in {<<>>, Moves},
         s = "load" => WordOf(writer.offset) \in DOMAIN pending
  PROVE  Steps(s, n) \in Seq(AnyStep)
BY StageTypes DEF Steps, Stages

\* The step at the head of a method, and the stage behind it.
LEMMA StageStep ==
  ASSUME FlashType, NEW s \in Stages, NEW k \in 0..PageWords, NEW m \in 0..PageWords, NEW n \in {<<>>, Moves},
         Placed(s, k, m), todo = Ahead(k, m, Steps(s, n)), NEW d, At(d)
  PROVE  \/ /\ k < m /\ d = "preserve" /\ Head(todo) = WordStep("preserve", 2 * k, Blank)
            /\ Tail(todo) = Ahead(k + 1, m, Steps(s, n))
         \/ /\ k >= m
            /\ \/ /\ s = "load" /\ d = "load" /\ Tail(todo) = Loaded3
                  /\ Head(todo) = WordStep("load", writer.offset, pending[WordOf(writer.offset)])
               \/ s = "loaded" /\ d = "wait" /\ Tail(todo) = Advances
               \/ s = "advance" /\ d = "advance" /\ Tail(todo) = <<>>
               \/ s = "clear" /\ d = "erase" /\ Tail(todo) = Written(<<>>)
               \/ s = "erase" /\ d = "erase" /\ Tail(todo) = Erased(n)
               \/ s = "erased" /\ d = "wait" /\ Tail(todo) = Writes(n)
               \/ s = "write" /\ d = "write" /\ Tail(todo) = Written(n)
               \/ s = "written" /\ d = "wait" /\ Tail(todo) = Open(n)
               \/ s = "open" /\ d = "enableRWW" /\ Tail(todo) = n
               \/ s = "next" /\ d = "nextPage" /\ Tail(todo) = <<>>
<1>0. s = "load" => WordOf(writer.offset) \in DOMAIN pending
  BY DEF Placed, Working, Shape, Loading
<1>1. Steps(s, n) \in Seq(AnyStep) /\ k \in Nat /\ m \in Nat
  BY <1>0, StepsAreMethods, PageWordsType
<1>2. CASE k < m
  <2>1. todo # <<>> /\ Head(todo) = WordStep("preserve", 2 * k, Blank) /\ Tail(todo) = Ahead(k + 1, m, Steps(s, n))
    BY <1>1, <1>2, AheadIsFirst
  <2>2. d = "preserve"
    <3>1. 2 * k \in Nat
      BY <1>1
    <3> QED BY <2>1, <3>1, StepTypes DEF At, Kinds
  <2> QED BY <1>2, <2>1, <2>2
<1>3. CASE k >= m
  <2>1. todo = Steps(s, n)
    BY <1>1, <1>3, AheadIsFirst
  <2>2. \A x \in AnyStep, t \in Seq(AnyStep) :
          Steps(s, n) = Then(x, t) => Head(todo) = x /\ Tail(todo) = t /\ d = x.do
    BY <2>1, ThenIsFirst DEF At
  <2>3. \A x \in Kinds : Step(x) \in AnyStep /\ Step(x).do = x
    BY StepTypes
  <2>4. todo # <<>>
    BY DEF At
  <2> USE <2>2, <2>3, StageTypes DEF Steps, Kinds
  <2>5. CASE s = "load"
    <3>1. WordStep("load", writer.offset, pending[WordOf(writer.offset)]) \in AnyStep
          /\ WordStep("load", writer.offset, pending[WordOf(writer.offset)]).do = "load"
      BY <1>0, <2>5, StepTypes DEF FlashType, WriterType
    <3>2. Steps(s, n) = Then(WordStep("load", writer.offset, pending[WordOf(writer.offset)]), Loaded3)
      BY <2>5 DEF Loads3
    <3> QED BY <1>3, <2>5, <3>1, <3>2
  <2>6. CASE s = "loaded"
    <3>1. Steps(s, n) = Then(Step("wait"), Advances)
      BY <2>6 DEF Loaded3
    <3> QED BY <1>3, <2>6, <3>1
  <2>7. CASE s = "advance"
    <3>1. Steps(s, n) = Then(Step("advance"), <<>>)
      BY <2>7 DEF Advances
    <3> QED BY <1>3, <2>7, <3>1
  <2>8. CASE s = "clear"
    <3>1. Steps(s, n) = Then(Step("erase"), Written(<<>>))
      BY <2>8 DEF Clears
    <3> QED BY <1>3, <2>8, <3>1
  <2>9. CASE s = "erase"
    <3>1. Steps(s, n) = Then(Step("erase"), Erased(n))
      BY <2>9 DEF Erases
    <3> QED BY <1>3, <2>9, <3>1
  <2>10. CASE s = "erased"
    <3>1. Steps(s, n) = Then(Step("wait"), Writes(n))
      BY <2>10 DEF Erased
    <3> QED BY <1>3, <2>10, <3>1
  <2>11. CASE s = "write"
    <3>1. Steps(s, n) = Then(Step("write"), Written(n))
      BY <2>11 DEF Writes
    <3> QED BY <1>3, <2>11, <3>1
  <2>12. CASE s = "written"
    <3>1. Steps(s, n) = Then(Step("wait"), Open(n))
      BY <2>12 DEF Written
    <3> QED BY <1>3, <2>12, <3>1
  <2>13. CASE s = "open"
    <3>1. Steps(s, n) = Then(Step("enableRWW"), n)
      BY <2>13 DEF Open
    <3> QED BY <1>3, <2>13, <3>1
  <2>14. CASE s = "next"
    <3>1. Steps(s, n) = Then(Step("nextPage"), <<>>)
      BY <2>14 DEF Moves
    <3> QED BY <1>3, <2>14, <3>1
  <2>15. s # "idle"
    BY <2>1, <2>4
  <2> QED BY <2>5, <2>6, <2>7, <2>8, <2>9, <2>10, <2>11, <2>12, <2>13, <2>14, <2>15 DEF Stages
<1> QED BY <1>1, <1>2, <1>3

\* The lists the methods are made of, in this form.
Started == IF config.autoErase THEN "erase" ELSE "write"
KeptFrom(k) == IF config.preserveUnset THEN k ELSE PageWords

\* preserveWord() for the words from k up to m.
LEMMA PreserveForm ==
  ASSUME NEW k \in Nat, NEW m \in Nat
  PROVE  Preserve(k, m - 1) = IF config.preserveUnset THEN Ahead(k, m, <<>>) ELSE <<>>
<1> DEFINE list == [i \in 1..(m - k) |-> WordStep("preserve", 2 * (k + i - 1), Blank)]
<1>1. (m - 1) - k + 1 = m - k
  OBVIOUS
<1>2. Preserve(k, m - 1) = IF config.preserveUnset THEN list ELSE <<>>
  BY <1>1 DEF Preserve
<1>3. list \o <<>> = list
  <2>1. CASE m >= k
    <3> DEFINE step(i) == WordStep("preserve", 2 * (k + i - 1), Blank)
    <3>1. \A i \in 1..(m - k) : step(i) \in AnyStep
      BY StepTypes DEF Kinds
    <3> HIDE DEF step
    <3>2. m - k \in Nat
      BY <2>1
    <3>3. [i \in 1..(m - k) |-> step(i)] \in Seq(AnyStep)
      BY <3>1, <3>2
    <3>4. [i \in 1..(m - k) |-> step(i)] \o <<>> = [i \in 1..(m - k) |-> step(i)]
      BY <3>3, ConcatEmptySeq
    <3> QED BY <3>4 DEF step
  <2>2. CASE m < k
    <3>1. 1..(m - k) = 1..0
      BY <2>2
    <3>2. list = <<>>
      BY <3>1
    <3> HIDE DEF list
    <3> QED BY <3>2, ConcatEmptySeq
  <2> QED BY <2>1, <2>2
<1> QED BY <1>2, <1>3, Zenon DEF Ahead

\* eraseCurrentPage()
LEMMA EraseForm == eraseCurrentPage = Clears
<1>1. Step("erase") \in AnyStep /\ Step("wait") \in AnyStep /\ Step("enableRWW") \in AnyStep
  BY StepTypes DEF Kinds
<1> QED BY <1>1, ShortLists DEF eraseCurrentPage, Clears, Written, Open

\* write()
LEMMA WriteForm ==
  ASSUME FlashType, NEW v \in Values
  PROVE  write(v) = Then(WordStep("load", writer.offset, v), Loaded3)
<1>1. Step("wait") \in AnyStep /\ Step("advance") \in AnyStep /\ WordStep("load", writer.offset, v) \in AnyStep
  BY StepTypes DEF Kinds, FlashType, WriterType
<1> QED BY <1>1, ShortLists DEF write, Loaded3, Advances

\* Lists and their concatenation, by their laws only.
List == Seq(AnyStep)
Cat(p, q) == p \o q

\* Concatenation, without a look into the lists.
LEMMA CatLaws ==
  /\ <<>> \in List
  /\ \A p \in List : Cat(<<>>, p) = p
  /\ \A x \in AnyStep : \A p \in List : Then(x, p) \in List
  /\ \A x \in AnyStep : \A p, q \in List : Cat(Then(x, p), q) = Then(x, Cat(p, q))
  /\ \A p, q, r \in List : Cat(Cat(p, q), r) = Cat(p, Cat(q, r))
  /\ \A p, q \in List : Cat(p, q) \in List
  /\ \A k, m \in Nat : \A p \in List : Ahead(k, m, p) \in List
  /\ \A k, m \in Nat : \A p, q \in List : Cat(Ahead(k, m, p), q) = Ahead(k, m, Cat(p, q))
<1>1. <<>> \in List /\ \A p \in List : Cat(<<>>, p) = p
  BY ConcatEmptySeq DEF List, Cat
<1>2. ASSUME NEW x \in AnyStep, NEW p \in List PROVE Then(x, p) \in List
  BY ThenIsFirst DEF List
<1>3. ASSUME NEW x \in AnyStep, NEW p \in List, NEW q \in List PROVE Cat(Then(x, p), q) = Then(x, Cat(p, q))
  BY ThenConcat DEF List, Cat
<1>4. ASSUME NEW p \in List, NEW q \in List, NEW r \in List PROVE Cat(Cat(p, q), r) = Cat(p, Cat(q, r))
  BY ConcatAssociative DEF List, Cat
<1>5. ASSUME NEW p \in List, NEW q \in List PROVE Cat(p, q) \in List
  BY ConcatProperties DEF List, Cat
<1>6. ASSUME NEW k \in Nat, NEW m \in Nat, NEW p \in List PROVE Ahead(k, m, p) \in List
  BY AheadIsFirst DEF List
<1>7. ASSUME NEW k \in Nat, NEW m \in Nat, NEW p \in List, NEW q \in List
      PROVE  Cat(Ahead(k, m, p), q) = Ahead(k, m, Cat(p, q))
  BY AheadConcat DEF List, Cat
<1> QED BY <1>1, <1>2, <1>3, <1>4, <1>5, <1>6, <1>7

\* A method that preserves words, then takes three or five steps, and one list behind it.
LEMMA FiveSteps ==
  ASSUME NEW k \in Nat, NEW m \in Nat, NEW u \in List
  PROVE  LET e == Step("erase")
             w == Step("wait")
             r == Step("write")
             o == Step("enableRWW")
         IN
         /\ Cat(Cat(Cat(Ahead(k, m, <<>>), Then(e, Then(w, <<>>))), Then(r, Then(w, <<>>))), Then(o, <<>>))
              = Ahead(k, m, Then(e, Then(w, Then(r, Then(w, Then(o, <<>>))))))
         /\ Cat(Cat(Cat(Ahead(k, m, <<>>), <<>>), Then(r, Then(w, <<>>))), Then(o, <<>>))
              = Ahead(k, m, Then(r, Then(w, Then(o, <<>>))))
         /\ Cat(Ahead(k, m, Then(e, Then(w, Then(r, Then(w, Then(o, <<>>)))))), u)
              = Ahead(k, m, Then(e, Then(w, Then(r, Then(w, Then(o, u))))))
         /\ Cat(Ahead(k, m, Then(r, Then(w, Then(o, <<>>)))), u)
              = Ahead(k, m, Then(r, Then(w, Then(o, u))))
<1> DEFINE e == Step("erase")
           w == Step("wait")
           r == Step("write")
           o == Step("enableRWW")
<1>0. e \in AnyStep /\ w \in AnyStep /\ r \in AnyStep /\ o \in AnyStep
  BY StepTypes DEF Kinds
<1> HIDE DEF e, w, r, o
<1>1. Then(o, <<>>) \in List /\ Then(o, u) \in List /\ Cat(Then(o, <<>>), u) = Then(o, u)
  BY <1>0, CatLaws
<1>2. /\ Then(w, <<>>) \in List /\ Then(r, Then(w, <<>>)) \in List /\ Then(e, Then(w, <<>>)) \in List
      /\ \A p \in List : Cat(Then(r, Then(w, <<>>)), p) = Then(r, Then(w, p))
      /\ \A p \in List : Cat(Then(e, Then(w, <<>>)), p) = Then(e, Then(w, p))
  <2>1. Then(w, <<>>) \in List /\ \A p \in List : Cat(Then(w, <<>>), p) = Then(w, p)
    BY <1>0, CatLaws
  <2>2. \A x \in AnyStep, p \in List : Then(x, p) \in List /\ \A q \in List : Cat(Then(x, p), q) = Then(x, Cat(p, q))
    BY <1>0, CatLaws
  <2> HIDE DEF Then
  <2>3. ASSUME NEW x \in AnyStep, NEW p \in List
        PROVE  Then(x, Then(w, <<>>)) \in List /\ Cat(Then(x, Then(w, <<>>)), p) = Then(x, Then(w, p))
    BY <1>0, <2>1, <2>2
  <2>4. <<>> \in List
    BY CatLaws
  <2> QED BY <1>0, <2>1, <2>3, <2>4
<1> DEFINE R(p) == Then(r, Then(w, Then(o, p)))
           E(p) == Then(e, Then(w, R(p)))
<1>3. /\ R(<<>>) \in List /\ R(u) \in List /\ Cat(R(<<>>), u) = R(u)
      /\ Cat(Then(r, Then(w, <<>>)), Then(o, <<>>)) = R(<<>>)
  <2>1. Then(w, Then(o, <<>>)) \in List /\ Cat(Then(w, Then(o, <<>>)), u) = Then(w, Then(o, u)) /\ Then(w, Then(o, u)) \in List
    BY <1>0, <1>1, CatLaws
  <2> QED BY <1>1, <1>0, <1>2, <2>1, CatLaws
<1> HIDE DEF R
<1>4. /\ E(<<>>) \in List /\ E(u) \in List /\ Cat(E(<<>>), u) = E(u)
      /\ Cat(Then(e, Then(w, <<>>)), R(<<>>)) = E(<<>>)
  <2>1. Then(w, R(<<>>)) \in List /\ Cat(Then(w, R(<<>>)), u) = Then(w, R(u)) /\ Then(w, R(u)) \in List
    BY <1>0, <1>3, CatLaws
  <2> QED BY <1>2, <1>0, <1>3, <2>1, CatLaws
<1> HIDE DEF E
<1> DEFINE EW == Then(e, Then(w, <<>>))
           RW == Then(r, Then(w, <<>>))
           O0 == Then(o, <<>>)
           P == Ahead(k, m, <<>>)
<1>5. EW \in List /\ RW \in List /\ O0 \in List /\ P \in List /\ <<>> \in List
      /\ Cat(RW, O0) = R(<<>>) /\ Cat(EW, R(<<>>)) = E(<<>>)
  BY <1>1, <1>2, <1>3, <1>4, CatLaws
<1> HIDE DEF EW, RW, O0, P
<1>6. \A q \in List : Cat(Cat(Cat(P, q), RW), O0) = Cat(P, Cat(q, R(<<>>)))
  <2> TAKE q \in List
  <2>1. Cat(P, q) \in List
    BY <1>5, CatLaws
  <2>2. Cat(Cat(Cat(P, q), RW), O0) = Cat(Cat(P, q), R(<<>>))
    BY <1>5, <2>1, CatLaws
  <2> QED BY <1>3, <1>5, <2>2, CatLaws
<1>7. \A q \in List : Cat(P, q) = Ahead(k, m, q)
  <2> TAKE q \in List
  <2>1. Cat(P, q) = Ahead(k, m, Cat(<<>>, q)) /\ Cat(<<>>, q) = q
    BY CatLaws DEF P
  <2> QED BY <2>1
<1>8. Cat(Cat(Cat(P, EW), RW), O0) = Ahead(k, m, E(<<>>)) /\ Cat(Cat(Cat(P, <<>>), RW), O0) = Ahead(k, m, R(<<>>))
  <2>1. Cat(<<>>, R(<<>>)) = R(<<>>)
    BY <1>3, CatLaws
  <2> QED BY <1>3, <1>4, <1>5, <1>6, <1>7, <2>1
<1>9. Cat(Ahead(k, m, E(<<>>)), u) = Ahead(k, m, E(u)) /\ Cat(Ahead(k, m, R(<<>>)), u) = Ahead(k, m, R(u))
  <2>1. \A p \in List : Cat(Ahead(k, m, p), u) = Ahead(k, m, Cat(p, u))
    BY <1>0, CatLaws
  <2> QED BY <1>3, <1>4, <2>1
<1> QED BY <1>8, <1>9, Zenon DEF e, w, r, o, EW, RW, O0, P, E, R

\* writeCurrentPage(), alone and with the move to the next page behind it.
LEMMA WritePageForm ==
  ASSUME NEW a, WordOf(a.offset) \in 0..PageWords
  PROVE  /\ writeCurrentPage(a) = Ahead(KeptFrom(WordOf(a.offset)), PageWords, Steps(Started, <<>>))
         /\ writeCurrentPage(a) \o <<Step("nextPage")>>
              = Ahead(KeptFrom(WordOf(a.offset)), PageWords, Steps(Started, Moves))
<1> DEFINE k == KeptFrom(WordOf(a.offset))
<1>0. k \in Nat /\ PageWords \in Nat /\ WordOf(a.offset) \in Nat
  BY PageWordsType DEF KeptFrom
<1>1. PreserveRest(a) = Ahead(k, PageWords, <<>>)
  <2>1. PageWords >= PageWords
    BY <1>0
  <2>2. <<>> \in Seq(AnyStep)
    OBVIOUS
  <2>3. Ahead(PageWords, PageWords, <<>>) = <<>>
    BY <1>0, <2>1, <2>2, AheadIsFirst
  <2> QED BY <1>0, <2>3, PreserveForm DEF PreserveRest, KeptFrom, PageWords
<1> HIDE DEF k
<1>2. /\ Step("erase") \in AnyStep /\ Step("wait") \in AnyStep /\ Step("write") \in AnyStep
      /\ Step("enableRWW") \in AnyStep /\ Step("nextPage") \in AnyStep
  BY StepTypes DEF Kinds
<1>3. <<Step("nextPage")>> = Moves /\ Moves \in Seq(AnyStep)
  <2>1. <<>> \in Seq(AnyStep)
    OBVIOUS
  <2>2. <<Step("nextPage")>> = Then(Step("nextPage"), <<>>)
    BY <1>2, ShortLists
  <2> QED BY <1>2, <2>1, <2>2, ThenIsFirst DEF Moves
<1>4. \A n \in {<<>>, Moves} : Steps(Started, n) =
        IF config.autoErase
        THEN Then(Step("erase"), Then(Step("wait"), Then(Step("write"), Then(Step("wait"), Then(Step("enableRWW"), n)))))
        ELSE Then(Step("write"), Then(Step("wait"), Then(Step("enableRWW"), n)))
  BY DEF Steps, Started, Erases, Erased, Writes, Written, Open
<1> DEFINE P == Ahead(k, PageWords, <<>>)
           e == Step("erase")
           w == Step("wait")
           r == Step("write")
           o == Step("enableRWW")
           R(n) == Then(r, Then(w, Then(o, n)))
           E(n) == Then(e, Then(w, R(n)))
<1>5. writeCurrentPage(a) =
        Cat(Cat(Cat(P, IF config.autoErase THEN Then(e, Then(w, <<>>)) ELSE <<>>), Then(r, Then(w, <<>>))), Then(o, <<>>))
  <2>1. /\ <<e, w>> = Then(e, Then(w, <<>>)) /\ <<r, w>> = Then(r, Then(w, <<>>)) /\ <<o>> = Then(o, <<>>)
    BY <1>2, ShortLists
  <2> HIDE DEF P
  <2> QED BY <1>1, <2>1, Zenon DEF P, writeCurrentPage, WriteAndWait, Cat
<1>6. e \in AnyStep /\ w \in AnyStep /\ r \in AnyStep /\ o \in AnyStep /\ Moves \in List
  BY <1>2, <1>3 DEF List
<1>7. \A n \in {<<>>, Moves} : Steps(Started, n) = IF config.autoErase THEN E(n) ELSE R(n)
  BY <1>4
<1> HIDE DEF e, w, r, o, P
<1>8. /\ Cat(Cat(Cat(P, Then(e, Then(w, <<>>))), Then(r, Then(w, <<>>))), Then(o, <<>>)) = Ahead(k, PageWords, E(<<>>))
      /\ Cat(Cat(Cat(P, <<>>), Then(r, Then(w, <<>>))), Then(o, <<>>)) = Ahead(k, PageWords, R(<<>>))
      /\ Cat(Ahead(k, PageWords, E(<<>>)), Moves) = Ahead(k, PageWords, E(Moves))
      /\ Cat(Ahead(k, PageWords, R(<<>>)), Moves) = Ahead(k, PageWords, R(Moves))
  <2> DEFINE M == Moves
             m == PageWords
  <2>1. M \in List /\ m \in Nat
    BY <1>0, <1>6
  <2> HIDE DEF M, m
  <2>2. /\ Cat(Cat(Cat(Ahead(k, m, <<>>), Then(e, Then(w, <<>>))), Then(r, Then(w, <<>>))), Then(o, <<>>))
             = Ahead(k, m, Then(e, Then(w, Then(r, Then(w, Then(o, <<>>))))))
        /\ Cat(Cat(Cat(Ahead(k, m, <<>>), <<>>), Then(r, Then(w, <<>>))), Then(o, <<>>))
             = Ahead(k, m, Then(r, Then(w, Then(o, <<>>))))
        /\ Cat(Ahead(k, m, Then(e, Then(w, Then(r, Then(w, Then(o, <<>>)))))), M)
             = Ahead(k, m, Then(e, Then(w, Then(r, Then(w, Then(o, M))))))
        /\ Cat(Ahead(k, m, Then(r, Then(w, Then(o, <<>>)))), M)
             = Ahead(k, m, Then(r, Then(w, Then(o, M))))
    BY <1>0, <2>1, FiveSteps DEF e, w, r, o
  <2> QED BY <2>2 DEF P, M, m
<1> HIDE DEF E, R
<1>9. writeCurrentPage(a) = Ahead(k, PageWords, Steps(Started, <<>>))
  BY <1>5, <1>7, <1>8
<1>10. Cat(Ahead(k, PageWords, Steps(Started, <<>>)), Moves) = Ahead(k, PageWords, Steps(Started, Moves))
  BY <1>7, <1>8
<1> QED BY <1>3, <1>9, <1>10, Zenon DEF k, Cat

-----------------------------------------------------------------------------
(* Facts about the data. *)

\* A loaded word is never taken for an unloaded one, a page never for a closed one.
LEMMA Distinct ==
  /\ Unset \notin Word /\ Blank \in Word /\ Garbage \in Word /\ Values \subseteq Word
  /\ \A f \in [Words -> Word] : f # Closed
  /\ BlankPage \in [Words -> Word] /\ EmptyBuffer \in [Words -> Word \union {Unset}]
  /\ DOMAIN NoWords = {} /\ DOMAIN Closed = {}
<1>1. \A f \in [Words -> Word] : f # Closed
  BY PageWordsType DEF Closed, NoWords
<1> QED BY <1>1, FlashAssumption DEF Word, BlankPage, EmptyBuffer, NoWords, Closed

\* Valid addresses lie on a page, at a word.
LEMMA AddressType ==
  /\ Address(0) = [page |-> 0, offset |-> 0] /\ 0 \in Pages /\ WordOf(0) = 0
  /\ \A linear \in Nat : isValid(Address(linear)) =>
       /\ Address(linear) \in [page : Nat, offset : Nat] /\ Address(linear).page \in Pages
       /\ 2 * WordOf(Address(linear).offset) = Address(linear).offset /\ Address(linear).offset < pageSize
<1>1. 0 \div pageSize = 0 /\ 0 % pageSize = 0
  BY FlashAssumption
<1>2. flashPageEnd \in Nat
  BY FlashAssumption DEF flashPageEnd
<1>3. \A linear \in Nat : linear \div pageSize \in Nat /\ linear % pageSize \in Nat
  BY FlashAssumption
<1> QED BY <1>1, <1>2, <1>3 DEF Address, Pages, WordOf, isValid

\* Stepping over a word stays in the page or ends at its end.
LEMMA NextOffset ==
  ASSUME WriterType, writer.offset < pageSize
  PROVE  /\ next(writer) = [page |-> writer.page, offset |-> writer.offset + 2]
         /\ writer.offset + 2 <= pageSize
         /\ 2 * WordOf(writer.offset + 2) = writer.offset + 2
         /\ WordOf(writer.offset + 2) = WordOf(writer.offset) + 1
<1>1. writer.offset + 2 <= pageSize /\ writer.offset + 2 < OffsetMod /\ writer.offset + 2 \in Nat /\ OffsetMod \in Nat
  BY FlashAssumption, PageWordsType DEF WriterType, WordOf
<1>2. \A x \in Nat, y \in Nat : x < y => x % y = x
  OBVIOUS
<1>3. (writer.offset + 2) % OffsetMod = writer.offset + 2
  BY <1>1, <1>2
<1> QED BY <1>1, <1>3 DEF next, WordOf, WriterType

\* The writer's word.
LEMMA WriterWord ==
  WriterType => /\ WordOf(writer.offset) \in 0..PageWords
                /\ writer.offset < pageSize => WordOf(writer.offset) \in Words
BY PageWordsType DEF WriterType, WordOf

\* A stage is reached with nothing to preserve.
LEMMA Arrive ==
  ASSUME FlashType', NEW s \in Stages \ {"load"}, NEW n \in {<<>>, Moves}, todo' = Steps(s, n),
         Placed(s, 0, 0)', (sound => Prepared(s, 0, 0))'
  PROVE  FlashInv'
<1>1. 0 \in 0..PageWords
  BY PageWordsType
<1>2. Steps(s, n)' = Steps(s, n)
  BY DEF Steps, Stages
<1>3. Steps(s, n) \in Seq(AnyStep)
  BY StageTypes DEF Steps, Stages
<1>4. Ahead(0, 0, Steps(s, n)) = Steps(s, n)
  <2>1. 0 \in Nat /\ 0 >= 0
    OBVIOUS
  <2> QED BY <1>3, <2>1, AheadIsFirst
<1>5. todo' = Ahead(0, 0, Steps(s, n))'
  BY <1>2, <1>4 DEF Ahead
<1>6. Stage(s, 0, 0, n)'
  BY <1>5 DEF Stage
<1> QED BY <1>1, <1>6 DEF FlashInv

\* Between two calls.
LEMMA Quiet ==
  ASSUME FlashType, NEW s \in Stages, NEW k \in 0..PageWords, NEW m \in 0..PageWords, NEW n \in {<<>>, Moves},
         Stage(s, k, m, n), todo = <<>>
  PROVE  s = "idle" /\ k >= m /\ busy = Idle /\ before = Closed
<1>1. (s = "load" => WordOf(writer.offset) \in DOMAIN pending) /\ k \in Nat /\ m \in Nat
  BY PageWordsType DEF Stage, Placed, Working, Shape, Loading
<1>2. Steps(s, n) \in Seq(AnyStep)
  BY <1>1, StepsAreMethods
<1>3. k >= m
  <2>1. k < m => Ahead(k, m, Steps(s, n)) # <<>>
    BY <1>1, <1>2, AheadIsFirst
  <2> QED BY <1>1, <2>1 DEF Stage
<1>4. Steps(s, n) = <<>>
  BY <1>1, <1>2, <1>3, AheadIsFirst DEF Stage
<1>5. \A x \in AnyStep, t \in Seq(AnyStep) : Then(x, t) # <<>>
  BY ThenIsFirst
<1>6. s = "load" => Loads3 # <<>>
  BY <1>1, <1>5, StepTypes, StageTypes DEF Loads3, FlashType, WriterType, Kinds
<1>7. /\ Loaded3 # <<>> /\ Advances # <<>> /\ Clears # <<>> /\ Erases(n) # <<>> /\ Erased(n) # <<>>
      /\ Writes(n) # <<>> /\ Written(n) # <<>> /\ Open(n) # <<>> /\ Moves # <<>>
  BY <1>5, StepTypes, StageTypes DEF Loaded3, Advances, Clears, Erases, Erased, Writes, Written, Open, Moves, Kinds
<1>8. s = "idle"
  BY <1>4, <1>6, <1>7 DEF Steps, Stages
<1> QED BY <1>3, <1>8 DEF Stage, Placed, Working, Shape

-----------------------------------------------------------------------------
(* The hardware. *)

\* The erase or the write that is under way ends.
LEMMA DoneKeeps == FlashInv /\ Done => FlashInv'
<1> SUFFICES ASSUME FlashInv, Done PROVE FlashInv'
  OBVIOUS
<1>1. PICK s \in Stages, k \in 0..PageWords, m \in 0..PageWords, n \in {<<>>, Moves} : Stage(s, k, m, n)
  BY DEF FlashInv
<1>2. s \in {"erased", "written"} /\ before # Closed /\ writer.page \in Pages
  BY <1>1 DEF Done, Stage, Placed, Working, Shape
<1>3. busy \in {"erase", "write"} /\ FlashType
  BY DEF Done, FlashInv, FlashType
<1> DEFINE page == flash[writer.page]
           new == IF busy = "erase" THEN BlankPage ELSE [w \in Words |-> Programmed(page[w], buffer[w])]
<1>4. flash' = [flash EXCEPT ![writer.page] = new]
  BY DEF Done
<1>5. new \in [Words -> Word]
  <2>1. page \in [Words -> Word]
    BY <1>2, <1>3 DEF FlashType
  <2>2. \A w \in Words : Programmed(page[w], buffer[w]) \in Word
    BY <1>3, <2>1, Distinct DEF FlashType, Programmed, Word
  <2> QED BY <2>2, Distinct
<1>6. flash' \in [Pages -> [Words -> Word]] /\ flash'[writer.page] = new
  <2> HIDE DEF new
  <2> QED BY <1>2, <1>3, <1>4, <1>5 DEF FlashType
<1>7. /\ busy' = Idle /\ buffer' = IF busy = "write" THEN EmptyBuffer ELSE buffer
      /\ UNCHANGED <<config, rww, writer, todo, pending, placed, before, sound>>
  BY DEF Done
<1>8. FlashType'
  BY <1>3, <1>6, <1>7, Distinct DEF FlashType, WriterType
<1>9. Placed(s, k, m)'
  <2>1. Placed(s, k, m)
    BY <1>1 DEF Stage
  <2>2. /\ busy' = Idle /\ before' = before /\ config' = config /\ writer' = writer
        /\ pending' = pending /\ placed' = placed
    BY <1>7
  <2>3. Shape(s, k, m)'
    BY <2>1, <2>2 DEF Placed, Shape
  <2>4. Working(s, k, m)'
    BY <1>2, <2>1, <2>2 DEF Placed, Working, Idle
  <2> QED BY <2>3, <2>4 DEF Placed
<1>10. todo' = Ahead(k, m, Steps(s, n))'
  BY <1>1, <1>2, <1>7 DEF Stage, Ahead, Steps
<1>11. ASSUME sound' PROVE Prepared(s, k, m)'
  <2>1. sound /\ Prepared(s, k, m)
    BY <1>1, <1>7, <1>11 DEF Stage
  <2>2. CASE s = "erased"
    <3>1. busy = "erase" /\ config.autoErase /\ buffer' = buffer /\ new = BlankPage
      BY <1>1, <1>3, <1>7, <2>2 DEF Stage, Placed, Working, Shape
    <3>2. Filled(s, k, m)'
      BY <1>2, <1>7, <2>1, <2>2, <3>1 DEF Prepared, Filled, Kept, Old, Ending
    <3> QED BY <1>2, <1>6, <1>7, <2>1, <2>2, <3>1, <3>2 DEF Prepared, Ending
  <2>3. CASE s = "written"
    <3>1. busy = "erase" => pending = NoWords /\ new = BlankPage
      BY <2>1, <2>3 DEF Prepared, Ending
    <3>2. busy = "write" => new = Target
      BY <2>1, <2>3 DEF Prepared, Ending, Target
    <3>3. Target' = Target
      BY <1>7 DEF Target, Base
    <3> HIDE DEF new
    <3>4. flash'[writer'.page] = Target' \/ (pending' = NoWords /\ flash'[writer'.page] = BlankPage)
      BY <1>3, <1>6, <1>7, <3>1, <3>2, <3>3
    <3> QED BY <1>2, <1>7, <2>3, <3>4 DEF Prepared, Ending, Idle
  <2> QED BY <1>2, <2>2, <2>3
<1> QED BY <1>8, <1>9, <1>10, <1>11 DEF FlashInv, Stage

\* After a power failure nothing is under way.
LEMMA PowerKeeps == FlashInv /\ PowerFails => FlashInv'
<1> SUFFICES ASSUME FlashInv, PowerFails PROVE FlashInv'
  OBVIOUS
<1>1. PICK s \in Stages, k \in 0..PageWords, m \in 0..PageWords, n \in {<<>>, Moves} : Stage(s, k, m, n)
  BY DEF FlashInv
<1>2. /\ buffer' = EmptyBuffer /\ busy' = Idle /\ rww' = TRUE /\ writer' = [page |-> 0, offset |-> 0] /\ todo' = <<>>
      /\ pending' = NoWords /\ placed' = FALSE /\ before' = Closed /\ sound' = TRUE /\ config' = config
  BY AddressType DEF PowerFails
<1>3. FlashType'
  <2>1. flash' \in [Pages -> [Words -> Word]]
    <3>1. [w \in Words |-> Garbage] \in [Words -> Word]
      BY Distinct
    <3> QED BY <3>1 DEF PowerFails, FlashInv, FlashType
  <2>2. WriterType'
    BY <1>2, AddressType, PageWordsType DEF WriterType
  <2> QED BY <1>2, <2>1, <2>2, Distinct DEF FlashInv, FlashType, NoWords
<1>4. Placed("idle", 0, 0)'
  BY <1>2, Distinct DEF Placed, Working, Shape, Loading
<1>5. Prepared("idle", 0, 0)'
  BY <1>2, Distinct DEF Prepared, Filled, Kept, Writing, Ending, EmptyBuffer
<1>6. todo' = Steps("idle", <<>>)
  BY <1>2 DEF Steps
<1> QED BY <1>3, <1>4, <1>5, <1>6, Arrive DEF Stages

-----------------------------------------------------------------------------
(* The processor. *)

\* Loading a word into the page buffer.
LEMMA LoadKeeps ==
  ASSUME FlashType, NEW s \in Stages, NEW k \in 0..PageWords, NEW m \in 0..PageWords, NEW n \in {<<>>, Moves},
         Stage(s, k, m, n), StepLoad
  PROVE  FlashInv'
<1>1. At("load") /\ UNCHANGED <<pending, placed, before>>
  BY DEF StepLoad
<1>2. /\ k >= m /\ s = "load" /\ Tail(todo) = Loaded3
      /\ Head(todo) = WordStep("load", writer.offset, pending[WordOf(writer.offset)])
  BY <1>1, StageStep DEF Stage
<1> DEFINE w0 == WordOf(writer.offset)
<1>3. busy = Idle /\ before = Closed /\ writer.page \in Pages /\ writer.offset < pageSize /\ w0 \in DOMAIN pending
  BY <1>2 DEF Stage, Placed, Working, Shape, Loading
<1>4. w0 \in Words /\ pending[w0] \in Values
  BY <1>3 DEF FlashType
<1>5. Head(todo).offset = writer.offset /\ Head(todo).value = pending[w0]
  BY <1>2, <1>4, StepTypes DEF Kinds, FlashType, WriterType
<1>6. Loads(Head(todo).value) <=>
        /\ buffer' = [buffer EXCEPT ![w0] = IF buffer[w0] = Unset THEN pending[w0] ELSE Garbage]
        /\ busy' = busy /\ rww' = rww
  BY <1>5 DEF Loads, Loaded
<1>7. /\ todo' = Loaded3 /\ config' = config /\ writer' = writer /\ flash' = flash /\ busy' = busy /\ rww' = rww
      /\ \/ /\ buffer' = [buffer EXCEPT ![w0] = IF buffer[w0] = Unset THEN pending[w0] ELSE Garbage]
            /\ sound' = sound
         \/ buffer' = buffer /\ sound' = FALSE
  <2>1. Command(Loads(Head(todo).value))
    BY DEF StepLoad
  <2> QED BY <1>2, <1>3, <1>6, <2>1 DEF Command
<1>8. FlashType'
  <2>1. buffer' \in [Words -> Word \union {Unset}]
    BY <1>4, <1>7, Distinct DEF FlashType
  <2> QED BY <1>1, <1>7, <2>1 DEF FlashType, WriterType
<1>9. Placed("loaded", 0, 0)'
  <2>1. Working("loaded", 0, 0)'
    BY <1>1, <1>3, <1>7 DEF Working
  <2>2. Shape("loaded", 0, 0)'
    BY <1>1, <1>2, <1>3, <1>7 DEF Stage, Placed, Shape, Loading
  <2> QED BY <2>1, <2>2 DEF Placed
<1>10. ASSUME sound' PROVE Prepared("loaded", 0, 0)'
  <2>1. /\ sound /\ Prepared(s, k, m) /\ Filled(s, k, m)
        /\ buffer' = [buffer EXCEPT ![w0] = IF buffer[w0] = Unset THEN pending[w0] ELSE Garbage]
    BY <1>2, <1>7, <1>10 DEF Stage, Prepared, Ending
  <2>2. buffer[w0] = Unset /\ buffer' = [buffer EXCEPT ![w0] = pending[w0]]
    BY <1>2, <1>4, <2>1 DEF Filled
  <2>3. ASSUME NEW w \in Words
        PROVE  buffer'[w] = IF w \in DOMAIN pending THEN pending[w] ELSE IF Kept(s, w) THEN Old[w] ELSE Unset
    <3>1. CASE w = w0
      BY <1>3, <1>4, <2>2, <3>1 DEF FlashType
    <3>2. CASE w # w0
      <4>1. buffer'[w] = buffer[w]
        BY <2>2, <3>2 DEF FlashType
      <4> QED BY <1>2, <2>1, <2>3, <3>2, <4>1, PageWordsType DEF Filled
    <3> QED BY <3>1, <3>2
  <2>4. Filled("loaded", 0, 0)'
    <3>1. \A w \in Words : Kept("loaded", w)' = Kept(s, w)
      BY <1>1, <1>2, <1>7 DEF Kept, Writing
    <3>2. Old' = Old
      BY <1>1, <1>7 DEF Old
    <3>3. \A w \in Words : ~(0 <= w /\ w < 0)
      BY PageWordsType
    <3> QED BY <1>1, <1>7, <2>3, <3>1, <3>2, <3>3 DEF Filled
  <2> QED BY <1>1, <1>2, <1>3, <1>7, <2>1, <2>4 DEF Prepared, Ending
<1>11. todo' = Steps("loaded", <<>>)
  BY <1>7 DEF Steps
<1> QED BY <1>8, <1>9, <1>10, <1>11, Arrive DEF Stages

\* Preserving a word.
LEMMA PreserveKeeps ==
  ASSUME FlashType, NEW s \in Stages, NEW k \in 0..PageWords, NEW m \in 0..PageWords, NEW n \in {<<>>, Moves},
         Stage(s, k, m, n), StepPreserve
  PROVE  FlashInv'
<1>1. At("preserve") /\ UNCHANGED <<pending, placed, before>>
  BY DEF StepPreserve
<1>2. k < m /\ Head(todo) = WordStep("preserve", 2 * k, Blank) /\ Tail(todo) = Ahead(k + 1, m, Steps(s, n))
  BY <1>1, StageStep DEF Stage
<1>3. /\ busy = Idle /\ before = Closed /\ writer.page \in Pages /\ s \in {"idle", "erase", "write"}
      /\ config.preserveUnset /\ k \in Words /\ k \notin DOMAIN pending /\ k \in Nat /\ m \in Nat /\ k + 1 \in 0..PageWords
  <2>1. k \in Nat /\ m \in Nat /\ k \in Words /\ k + 1 \in 0..PageWords
    BY <1>2, PageWordsType
  <2>2. k \notin DOMAIN pending
    BY <1>2, <2>1 DEF Stage, Placed, Shape
  <2> QED BY <1>2, <2>1, <2>2 DEF Stage, Placed, Working, Shape
<1>4. Head(todo).offset = 2 * k /\ WordOf(2 * k) = k
  BY <1>2, <1>3, StepTypes DEF Kinds, WordOf
<1> DEFINE v == ReadWord(writer.page, k)
<1>5. v \in Word /\ (rww => v = flash[writer.page][k])
  BY <1>3, Distinct DEF ReadWord, FlashType
<1>6. Loads(ReadWord(writer.page, WordOf(Head(todo).offset))) <=>
        /\ buffer' = [buffer EXCEPT ![k] = IF buffer[k] = Unset THEN v ELSE Garbage]
        /\ busy' = busy /\ rww' = rww
  BY <1>4 DEF Loads, Loaded
<1>7. /\ todo' = Tail(todo) /\ config' = config /\ writer' = writer /\ flash' = flash /\ busy' = busy /\ rww' = rww
      /\ \/ /\ buffer' = [buffer EXCEPT ![k] = IF buffer[k] = Unset THEN v ELSE Garbage]
            /\ sound' = sound
         \/ buffer' = buffer /\ sound' = FALSE
  <2>1. Command(Loads(ReadWord(writer.page, WordOf(Head(todo).offset))))
    BY DEF StepPreserve
  <2> HIDE DEF v
  <2> QED BY <1>2, <1>3, <1>6, <2>1 DEF Command
<1> HIDE DEF v
<1>8. FlashType'
  <2>1. buffer' \in [Words -> Word \union {Unset}]
    BY <1>5, <1>7, Distinct DEF FlashType
  <2> QED BY <1>1, <1>7, <2>1 DEF FlashType, WriterType
<1>9. Placed(s, k + 1, m)'
  <2>1. Working(s, k + 1, m)'
    BY <1>1, <1>3, <1>7 DEF Working
  <2>2. Shape(s, k + 1, m)
    <3>1. \A w \in DOMAIN pending : ~(k + 1 <= w /\ w < m)
      <4>1. \A w \in DOMAIN pending : w \in Nat
        BY PageWordsType DEF FlashType
      <4>2. \A w \in DOMAIN pending : ~(k <= w /\ w < m)
        BY DEF Stage, Placed, Shape
      <4> QED BY <1>3, <4>1, <4>2
    <3> QED BY <1>2, <1>3, <3>1 DEF Stage, Placed, Shape
  <2>3. Shape(s, k + 1, m)'
    BY <1>1, <1>7, <2>2 DEF Shape
  <2> QED BY <2>1, <2>3 DEF Placed
<1>10. ASSUME sound' PROVE Prepared(s, k + 1, m)'
  <2>1. /\ sound /\ Prepared(s, k, m) /\ Filled(s, k, m) /\ rww
        /\ buffer' = [buffer EXCEPT ![k] = IF buffer[k] = Unset THEN v ELSE Garbage]
    BY <1>3, <1>7, <1>10 DEF Stage, Prepared, Ending
  <2>2. buffer[k] = Unset /\ buffer' = [buffer EXCEPT ![k] = flash[writer.page][k]]
    <3>1. buffer[k] = Unset
      BY <1>2, <1>3, <2>1 DEF Filled
    <3>2. v = flash[writer.page][k]
      BY <1>5, <2>1
    <3> QED BY <2>1, <3>1, <3>2
  <2>3. Kept(s, k)
    BY <1>2, <1>3 DEF Kept, Writing, Stage, Placed, Shape, FlashType, WriterType
  <2>4. ASSUME NEW w \in Words
        PROVE  buffer'[w] = IF k + 1 <= w /\ w < m THEN Unset
                            ELSE IF w \in DOMAIN pending THEN pending[w] ELSE IF Kept(s, w) THEN Old[w] ELSE Unset
    <3>1. CASE w = k
      BY <1>3, <2>2, <2>3, <3>1 DEF FlashType, Old
    <3>2. CASE w # k
      <4>1. buffer'[w] = buffer[w]
        BY <2>2, <3>2 DEF FlashType
      <4>2. (k + 1 <= w /\ w < m) <=> (k <= w /\ w < m)
        BY <1>3, <3>2, PageWordsType
      <4> QED BY <1>3, <2>1, <4>1, <4>2 DEF Filled
    <3> QED BY <3>1, <3>2
  <2>5. Filled(s, k + 1, m)'
    <3>1. \A w \in Words : Kept(s, w)' = Kept(s, w)
      BY <1>1, <1>7 DEF Kept
    <3>2. Old' = Old
      BY <1>1, <1>7 DEF Old
    <3> QED BY <1>1, <1>3, <1>7, <2>4, <3>1, <3>2 DEF Filled
  <2> QED BY <1>1, <1>3, <1>7, <2>1, <2>5 DEF Prepared, Ending
<1>11. todo' = Ahead(k + 1, m, Steps(s, n))'
  <2>1. Steps(s, n)' = Steps(s, n)
    BY <1>3 DEF Steps
  <2> QED BY <1>2, <1>7, <2>1 DEF Ahead
<1>12. Stage(s, k + 1, m, n)'
  BY <1>9, <1>10, <1>11 DEF Stage
<1> QED BY <1>3, <1>8, <1>12 DEF FlashInv

\* Beginning to erase or to write a page.
LEMMA EraseOrWriteKeeps ==
  ASSUME FlashType, NEW s \in Stages, NEW k \in 0..PageWords, NEW m \in 0..PageWords, NEW n \in {<<>>, Moves},
         Stage(s, k, m, n), StepChange
  PROVE  FlashInv'
<1>1. PICK what \in {"erase", "write"} : At(what) /\ Command(Begins(what))
  BY DEF StepChange
<1>2. /\ k >= m
      /\ \/ what = "erase" /\ s = "clear" /\ Tail(todo) = Written(<<>>)
         \/ what = "erase" /\ s = "erase" /\ Tail(todo) = Erased(n)
         \/ what = "write" /\ s = "write" /\ Tail(todo) = Written(n)
  BY <1>1, StageStep DEF Stage
<1>3. busy = Idle /\ writer.page \in Pages
  BY <1>2 DEF Stage, Placed, Working, Shape
<1>4. /\ todo' = Tail(todo) /\ UNCHANGED <<config, writer, flash, buffer, pending, placed>> /\ before' = Old
      /\ \/ busy' = what /\ rww' = FALSE /\ sound' = sound
         \/ busy' = busy /\ rww' = rww /\ sound' = FALSE
  BY <1>1, <1>3 DEF Command, Begins, StepChange, Old
<1>5. Old \in [Words -> Word] /\ Old # Closed
  BY <1>3, Distinct DEF Old, FlashType
<1>6. FlashType'
  BY <1>3, <1>4, <1>5 DEF FlashType, WriterType
<1>7. ASSUME NEW t \in {"erased", "written"}, t = "erased" => what = "erase" /\ s = "erase"
      PROVE  Placed(t, 0, 0)'
  <2>1. Working(t, 0, 0)'
    BY <1>3, <1>4, <1>5, <1>7 DEF Working, Idle
  <2>2. Shape(t, 0, 0)
    BY <1>2, <1>3, <1>7, PageWordsType DEF Stage, Placed, Shape, Loading, FlashType
  <2>3. Shape(t, 0, 0)'
    BY <1>4, <2>2 DEF Shape
  <2> QED BY <2>1, <2>3 DEF Placed
<1>8. CASE s = "clear"
  <2>1. ASSUME sound' PROVE Prepared("written", 0, 0)'
    <3>1. pending' = NoWords /\ busy' = "erase"
      BY <1>2, <1>4, <1>8, <2>1 DEF Stage, Placed, Shape
    <3> QED BY <1>4, <1>5, <3>1 DEF Prepared, Ending, Idle
  <2>2. todo' = Steps("written", <<>>)
    BY <1>2, <1>4, <1>8 DEF Steps
  <2> QED BY <1>6, <1>7, <2>1, <2>2, Arrive DEF Stages
<1>9. CASE s = "erase"
  <2>1. ASSUME sound' PROVE Prepared("erased", 0, 0)'
    <3>1. /\ busy' = "erase" /\ sound /\ Filled(s, k, m) /\ before = Closed /\ config.autoErase
      BY <1>2, <1>4, <1>9, <2>1 DEF Stage, Placed, Working, Shape, Prepared, Ending
    <3>2. Filled("erased", 0, 0)
      <4>1. \A w \in Words : (Kept("erased", w) <=> Kept(s, w)) /\ ~(k <= w /\ w < m) /\ ~(0 <= w /\ w < 0)
        BY <1>2, <1>9, PageWordsType DEF Kept, Writing
      <4> QED BY <1>9, <3>1, <4>1 DEF Filled
    <3>3. Filled("erased", 0, 0)'
      <4>1. Old' = Old
        BY <1>4, <1>5 DEF Old
      <4>2. \A w : Kept("erased", w)' <=> Kept("erased", w)
        BY <1>4 DEF Kept
      <4> QED BY <1>4, <3>2, <4>1, <4>2 DEF Filled
    <3> QED BY <1>4, <1>5, <3>1, <3>3 DEF Prepared, Ending
  <2>2. todo' = Steps("erased", n)
    BY <1>2, <1>4, <1>9 DEF Steps
  <2> QED BY <1>2, <1>6, <1>7, <1>9, <2>1, <2>2, Arrive DEF Stages
<1>10. CASE s = "write"
  <2>1. ASSUME sound' PROVE Prepared("written", 0, 0)'
    <3>1. /\ busy' = "write" /\ sound /\ Filled(s, k, m)
          /\ IF config.autoErase THEN before # Closed /\ flash[writer.page] = BlankPage ELSE before = Closed
          /\ ~config.autoErase => \A w \in DOMAIN pending : flash[writer.page][w] = Blank
      BY <1>2, <1>3, <1>4, <1>10, <2>1 DEF Stage, Prepared, Ending, Idle
    <3>2. ASSUME NEW w \in Words PROVE Programmed(flash[writer.page][w], buffer[w]) = Target'[w]
      <4> DEFINE old == flash[writer.page][w]
                 base == IF config.autoErase /\ ~config.preserveUnset THEN Blank ELSE Old[w]
      <4>1. Target'[w] = IF w \in DOMAIN pending THEN pending[w] ELSE base
        BY <1>4 DEF Target, Base, BlankPage
      <4>2. buffer[w] = IF w \in DOMAIN pending THEN pending[w]
                        ELSE IF config.preserveUnset THEN Old[w] ELSE Unset
        <5>1. ~(k <= w /\ w < m)
          BY <1>2, PageWordsType
        <5>2. Kept(s, w) <=> config.preserveUnset
          BY <1>10 DEF Kept, Writing
        <5> QED BY <1>10, <3>1, <5>1, <5>2 DEF Filled
      <4>3. old = IF config.autoErase THEN Blank ELSE Old[w]
        BY <3>1 DEF Old, BlankPage
      <4>4. w \in DOMAIN pending => pending[w] # Unset /\ (~config.autoErase => old = Blank)
        BY <3>1, Distinct DEF FlashType
      <4>5. Old[w] # Unset /\ Blank # Unset
        BY <1>5, Distinct
      <4> HIDE DEF old
      <4>6. CASE w \in DOMAIN pending
        BY <4>1, <4>2, <4>3, <4>4, <4>6 DEF Programmed, old
      <4>7. CASE w \notin DOMAIN pending
        BY <4>1, <4>2, <4>3, <4>5, <4>7 DEF Programmed, old
      <4> QED BY <4>6, <4>7
    <3>3. \A w \in Words : Programmed(flash'[writer'.page][w], buffer'[w]) = Target'[w]
      BY <1>4, <3>2
    <3> QED BY <1>4, <1>5, <3>1, <3>3 DEF Prepared, Ending, Idle
  <2>2. todo' = Steps("written", n)
    BY <1>2, <1>4, <1>10 DEF Steps
  <2> QED BY <1>6, <1>7, <2>1, <2>2, Arrive DEF Stages
<1> QED BY <1>2, <1>8, <1>9, <1>10

\* Opening the section.
LEMMA EnableKeeps ==
  ASSUME FlashType, NEW s \in Stages, NEW k \in 0..PageWords, NEW m \in 0..PageWords, NEW n \in {<<>>, Moves},
         Stage(s, k, m, n), StepEnableRWW
  PROVE  FlashInv'
<1>1. At("enableRWW") /\ Command(Enables) /\ before' = Closed /\ pending' = NoWords /\ placed' = FALSE
  BY DEF StepEnableRWW
<1>0. At("enableRWW")
  BY <1>1
<1>2. k >= m /\ s = "open" /\ Tail(todo) = n
  <2>1. Placed(s, k, m) /\ todo = Ahead(k, m, Steps(s, n))
    BY DEF Stage
  <2>2. k >= m /\ s = "open"
    BY <1>0, <2>1, StageStep
  <2>3. todo = Then(Step("enableRWW"), n)
    <3>1. Open(n) \in Seq(AnyStep) /\ k \in Nat /\ m \in Nat
      BY StageTypes, PageWordsType
    <3> QED BY <2>1, <2>2, <3>1, AheadIsFirst DEF Steps, Open
  <2>4. Step("enableRWW") \in AnyStep /\ n \in Seq(AnyStep)
    BY StageTypes, StepTypes DEF Kinds
  <2> QED BY <2>2, <2>3, <2>4, ThenIsFirst
<1>3. busy = Idle
  BY <1>2 DEF Stage, Placed, Working
<1>4. /\ todo' = n /\ UNCHANGED <<config, writer, flash>> /\ busy' = Idle
      /\ \/ rww' = TRUE /\ buffer' = EmptyBuffer /\ sound' = sound
         \/ rww' = rww /\ buffer' = buffer /\ sound' = FALSE
  BY <1>1, <1>2, <1>3 DEF Command, Enables
<1>5. FlashType'
  BY <1>1, <1>3, <1>4, Distinct DEF FlashType, WriterType, NoWords
<1>6. ASSUME NEW t \in {"idle", "next"} PROVE Placed(t, 0, 0)' /\ (sound => Prepared(t, 0, 0))'
  <2>1. Working(t, 0, 0)'
    BY <1>1, <1>4 DEF Working
  <2>2. Shape(t, 0, 0)'
    BY <1>1, <1>6, Distinct DEF Shape, Loading
  <2>3. ASSUME sound' PROVE Prepared(t, 0, 0)'
    BY <1>1, <1>4, <1>6, <2>3, Distinct DEF Prepared, Filled, Kept, Writing, Ending, EmptyBuffer
  <2> QED BY <2>1, <2>2, <2>3 DEF Placed
<1>7. (n = <<>> => todo' = Steps("idle", n)) /\ (n = Moves => todo' = Steps("next", n))
  BY <1>4 DEF Steps
<1> QED BY <1>5, <1>6, <1>7, Arrive DEF Stages

\* Waiting for the hardware.
LEMMA WaitKeeps ==
  ASSUME FlashType, NEW s \in Stages, NEW k \in 0..PageWords, NEW m \in 0..PageWords, NEW n \in {<<>>, Moves},
         Stage(s, k, m, n), StepWait
  PROVE  FlashInv'
<1>1. /\ At("wait") /\ busy = Idle /\ todo' = Tail(todo)
      /\ UNCHANGED <<config, flash, buffer, busy, rww, writer, pending, placed, before, sound>>
  BY DEF StepWait, isDone
<1>2. /\ k >= m
      /\ \/ s = "loaded" /\ Tail(todo) = Advances
         \/ s = "erased" /\ Tail(todo) = Writes(n)
         \/ s = "written" /\ Tail(todo) = Open(n)
  BY <1>1, StageStep DEF Stage
<1>3. FlashType'
  BY <1>1 DEF FlashType, WriterType
<1> DEFINE t == IF s = "loaded" THEN "advance" ELSE IF s = "erased" THEN "write" ELSE "open"
<1>4. Placed(t, 0, 0)
  <2>1. Working(t, 0, 0)
    BY <1>1, <1>2 DEF Stage, Placed, Working
  <2>2. Shape(t, 0, 0)
    BY <1>2, PageWordsType DEF Stage, Placed, Shape, Loading, FlashType
  <2> QED BY <2>1, <2>2 DEF Placed
<1>5. ASSUME sound PROVE Prepared(t, 0, 0)
  <2>1. Prepared(s, k, m)
    BY <1>5 DEF Stage
  <2>2. s # "written" => Filled(t, 0, 0)
    <3>1. \A w \in Words : ~(k <= w /\ w < m) /\ ~(0 <= w /\ w < 0)
      BY <1>2, PageWordsType
    <3>2. \A w \in Words : s # "written" => (Kept(t, w) <=> Kept(s, w))
      BY <1>2 DEF Kept, Writing
    <3> QED BY <1>2, <2>1, <3>1, <3>2 DEF Prepared, Filled, Ending
  <2> QED BY <1>1, <1>2, <2>1, <2>2 DEF Prepared, Ending, Idle
<1>6. t \in Stages \ {"load"} /\ todo' = Steps(t, n)
  BY <1>1, <1>2 DEF Stages, Steps
<1> HIDE DEF t
<1>7. Placed(t, 0, 0)'
  BY <1>1, <1>4 DEF Placed, Working, Shape
<1>8. (sound => Prepared(t, 0, 0))'
  BY <1>1, <1>5 DEF Prepared, Filled, Kept, Old, Target, Base
<1> QED BY <1>3, <1>6, <1>7, <1>8, Arrive

\* After a word the writer moves on, and writes the page at its end.
LEMMA AdvanceKeeps ==
  ASSUME FlashType, NEW s \in Stages, NEW k \in 0..PageWords, NEW m \in 0..PageWords, NEW n \in {<<>>, Moves},
         Stage(s, k, m, n), StepAdvance
  PROVE  FlashInv'
<1>0. At("advance")
  BY DEF StepAdvance
<1>1. /\ writer' = IF config.autoIncrement THEN next(writer) ELSE writer
      /\ todo' = IF config.autoWritePage /\ endOfPage(writer')
                 THEN writeCurrentPage(writer') \o <<Step("nextPage")>> ELSE <<>>
      /\ UNCHANGED <<config, flash, buffer, busy, rww, pending, placed, before, sound>>
  BY DEF StepAdvance
<1>2. k >= m /\ s = "advance"
  BY <1>0, StageStep DEF Stage
<1> DEFINE w0 == WordOf(writer.offset)
<1>3. /\ busy = Idle /\ before = Closed /\ writer.page \in Pages /\ writer.offset < pageSize /\ w0 \in DOMAIN pending
      /\ pending # NoWords /\ w0 \in Words /\ WriterType
  <2>1. busy = Idle /\ before = Closed /\ writer.page \in Pages /\ writer.offset < pageSize /\ w0 \in DOMAIN pending
    BY <1>2 DEF Stage, Placed, Working, Shape, Loading
  <2> QED BY <2>1, Distinct DEF FlashType
<1>4. /\ \/ writer' = [page |-> writer.page, offset |-> writer.offset + 2]
         \/ writer' = writer /\ ~config.preserveUnset
      /\ WriterType' /\ writer'.page = writer.page /\ WordOf(writer'.offset) \in 0..PageWords
  <2>1. CASE config.autoIncrement
    <3>1. writer' = [page |-> writer.page, offset |-> writer.offset + 2]
      BY <1>1, <1>3, <2>1, NextOffset
    <3>2. writer'.page = writer.page /\ writer'.offset = writer.offset + 2
      BY <3>1
    <3>3. WriterType'
      BY <1>3, <3>1, <3>2, NextOffset DEF WriterType, WordOf
    <3> QED BY <3>1, <3>2, <3>3, PageWordsType DEF WriterType, WordOf
  <2>2. CASE ~config.autoIncrement
    <3>1. ~config.preserveUnset
      BY <2>2, FlashAssumption DEF FlashType
    <3> QED BY <1>1, <1>3, <2>2, <3>1, WriterWord DEF WriterType, WordOf
  <2> QED BY <2>1, <2>2
<1>5. FlashType'
  BY <1>1, <1>4 DEF FlashType
<1>6. ASSUME NEW t \in {"idle", "erase", "write"}, t = "erase" => config.autoErase,
             t = "write" => ~config.autoErase, t # "idle" => writer'.offset = pageSize
      PROVE  Placed(t, 0, 0)' /\ (sound => Prepared(t, 0, 0))'
  <2>1. Working(t, 0, 0)'
    BY <1>1, <1>3 DEF Working
  <2>2. Shape(t, 0, 0)'
    <3>1. ASSUME config.preserveUnset, NEW w \in DOMAIN pending PROVE 2 * w < writer'.offset
      <4>1. w \in Nat /\ writer'.offset = writer.offset + 2
        BY <1>4, <3>1, PageWordsType DEF FlashType
      <4>2. 2 * w <= writer.offset
        BY <1>3, <3>1, <4>1 DEF Stage, Placed, Shape, WriterType
      <4> QED BY <1>3, <4>1, <4>2 DEF WriterType
    <3>2. \A w \in DOMAIN pending : ~(0 <= w /\ w < 0)
      BY PageWordsType DEF FlashType
    <3> QED BY <1>1, <1>3, <1>4, <1>6, <3>1, <3>2 DEF Shape, Loading
  <2>3. ASSUME sound' PROVE Prepared(t, 0, 0)'
    <3>1. Prepared(s, k, m) /\ Filled(s, k, m)
      BY <1>1, <1>2, <2>3 DEF Stage, Prepared, Ending
    <3>2. ASSUME NEW w \in Words
          PROVE  buffer[w] = IF w \in DOMAIN pending THEN pending[w] ELSE IF Kept(t, w)' THEN Old[w] ELSE Unset
      <4>1. ~(k <= w /\ w < m)
        BY <1>2, PageWordsType
      <4>2. Kept(s, w) <=> config.preserveUnset /\ 2 * w < writer.offset
        BY <1>2, <1>3 DEF Kept, Writing
      <4>3. Kept(t, w)' <=> config.preserveUnset /\ (t # "idle" \/ 2 * w < writer'.offset)
        BY <1>1, <1>3, <1>6 DEF Kept, Writing
      <4>4. t # "idle" => 2 * w < writer'.offset
        BY <1>6, PageWordsType
      <4>5. config.preserveUnset /\ w # w0 => (2 * w < writer'.offset <=> 2 * w < writer.offset)
        BY <1>3, <1>4, PageWordsType DEF WriterType
      <4> QED BY <1>2, <1>3, <3>1, <4>1, <4>2, <4>3, <4>4, <4>5 DEF Filled
    <3>3. Filled(t, 0, 0)'
      <4>1. Old' = Old
        BY <1>1, <1>4 DEF Old
      <4>2. \A w \in Words : ~(0 <= w /\ w < 0)
        BY PageWordsType
      <4> QED BY <1>1, <1>6, <3>2, <4>1, <4>2 DEF Filled
    <3> QED BY <1>1, <1>2, <1>3, <1>4, <1>6, <3>1, <3>3 DEF Prepared, Ending
  <2> QED BY <2>1, <2>2, <2>3 DEF Placed
<1>7. CASE ~(config.autoWritePage /\ endOfPage(writer'))
  <2>1. todo' = Steps("idle", <<>>)
    BY <1>1, <1>7 DEF Steps
  <2> QED BY <1>5, <1>6, <2>1, Arrive DEF Stages
<1>8. CASE config.autoWritePage /\ endOfPage(writer')
  <2>1. writer'.offset = pageSize /\ WordOf(writer'.offset) = PageWords
    BY <1>8 DEF endOfPage, PageWords
  <2>2. KeptFrom(WordOf(writer'.offset)) = PageWords
    BY <2>1 DEF KeptFrom
  <2>3. todo' = Ahead(PageWords, PageWords, Steps(Started, Moves))
    <3>1. todo' = writeCurrentPage(writer') \o <<Step("nextPage")>>
      BY <1>1, <1>8
    <3> QED BY <1>4, <2>2, <3>1, WritePageForm
  <2>4. Started \in {"erase", "write"} /\ (Started = "erase" <=> config.autoErase)
    BY DEF Started
  <2>5. todo' = Steps(Started, Moves)
    <3>1. Steps(Started, Moves) \in Seq(AnyStep)
      BY <2>4, StageTypes DEF Steps
    <3>2. PageWords \in Nat /\ PageWords >= PageWords
      BY PageWordsType
    <3> QED BY <2>3, <3>1, <3>2, AheadIsFirst
  <2>6. \A t \in {"erase", "write"} : t = Started => Placed(t, 0, 0)' /\ (sound => Prepared(t, 0, 0))'
    BY <1>6, <2>1, <2>4
  <2>7. ASSUME NEW t \in {"erase", "write"}, t = Started PROVE FlashInv'
    <3>1. todo' = Steps(t, Moves)
      BY <2>5, <2>7
    <3>2. Placed(t, 0, 0)' /\ (sound => Prepared(t, 0, 0))'
      BY <2>6, <2>7
    <3> QED BY <1>5, <3>1, <3>2, Arrive DEF Stages
  <2> QED BY <2>4, <2>7
<1> QED BY <1>7, <1>8

\* The writer goes to the beginning of the next page.
LEMMA NextPageKeeps ==
  ASSUME FlashType, NEW s \in Stages, NEW k \in 0..PageWords, NEW m \in 0..PageWords, NEW n \in {<<>>, Moves},
         Stage(s, k, m, n), StepNextPage
  PROVE  FlashInv'
<1>0. At("nextPage")
  BY DEF StepNextPage
<1>1. /\ writer' = [page |-> writer.page + 1, offset |-> 0] /\ todo' = Tail(todo)
      /\ UNCHANGED <<config, flash, buffer, busy, rww, pending, placed, before, sound>>
  BY DEF StepNextPage, nextPage
<1>2. k >= m /\ s = "next" /\ Tail(todo) = <<>>
  BY <1>0, StageStep DEF Stage
<1>3. busy = Idle /\ before = Closed /\ pending = NoWords /\ ~placed
  BY <1>2 DEF Stage, Placed, Working, Shape
<1>4. FlashType'
  <2>1. WriterType'
    BY <1>1, AddressType, PageWordsType DEF FlashType, WriterType
  <2> QED BY <1>1, <2>1 DEF FlashType
<1>5. Placed("idle", 0, 0)'
  BY <1>1, <1>3, Distinct DEF Placed, Working, Shape, Loading
<1>6. ASSUME sound' PROVE Prepared("idle", 0, 0)'
  <2>1. Prepared(s, k, m) /\ Filled(s, k, m)
    BY <1>1, <1>2, <1>6 DEF Stage, Prepared, Ending
  <2>2. \A w \in Words : buffer[w] = Unset
    <3>1. \A w \in Words : ~(k <= w /\ w < m) /\ ~Kept(s, w) /\ w \notin DOMAIN pending
      BY <1>2, <1>3, Distinct, PageWordsType DEF Kept, Writing
    <3> QED BY <1>2, <2>1, <3>1 DEF Filled
  <2>3. Filled("idle", 0, 0)'
    <3>1. \A w \in Words : ~Kept("idle", w)' /\ w \notin DOMAIN pending'
      BY <1>1, <1>3, Distinct DEF Kept, Writing
    <3> QED BY <1>1, <2>2, <3>1 DEF Filled
  <2> QED BY <1>1, <1>3, <2>1, <2>3, Distinct DEF Prepared, Ending
<1>7. todo' = Steps("idle", <<>>)
  BY <1>1, <1>2 DEF Steps
<1> QED BY <1>4, <1>5, <1>6, <1>7, Arrive DEF Stages

-----------------------------------------------------------------------------
(* The client. *)

\* What the methods find.
LEMMA IdlePrepared ==
  ASSUME FlashType, NEW s \in Stages, NEW k \in 0..PageWords, NEW m \in 0..PageWords, NEW n \in {<<>>, Moves},
         Stage(s, k, m, n), todo = <<>>
  PROVE  /\ busy = Idle /\ before = Closed
         /\ config.preserveUnset => \A w \in DOMAIN pending : 2 * w < writer.offset
         /\ sound =>
              /\ rww /\ (~config.autoErase => \A w \in DOMAIN pending : flash[writer.page][w] = Blank)
              /\ \A w \in Words : buffer[w] = IF w \in DOMAIN pending THEN pending[w]
                                              ELSE IF Kept("idle", w) THEN flash[writer.page][w] ELSE Unset
<1>1. s = "idle" /\ k >= m /\ busy = Idle /\ before = Closed
  BY Quiet
<1>2. config.preserveUnset => \A w \in DOMAIN pending : 2 * w < writer.offset
  BY <1>1 DEF Stage, Placed, Shape, Loading
<1>3. \A w \in Words : ~(k <= w /\ w < m)
  BY <1>1, PageWordsType
<1> QED BY <1>1, <1>2, <1>3 DEF Stage, Prepared, Filled, Ending, Old

\* Setting the address, with the words in front of it to preserve.
LEMMA SetWriterKeeps ==
  ASSUME FlashType, NEW s \in Stages, NEW k \in 0..PageWords, NEW m \in 0..PageWords, NEW n \in {<<>>, Moves},
         Stage(s, k, m, n), SetWriter
  PROVE  FlashInv'
<1>1. PICK linear \in 0..(flashEnd + pageSize) :
        /\ Calls /\ isValid(Address(linear))
        /\ IF config.preserveUnset THEN pending = NoWords /\ ~placed
           ELSE pending = NoWords \/ Address(linear).page = writer.page
        /\ writer' = Address(linear)
        /\ todo' = Preserve(0, WordOf(writer'.offset) - 1)
        /\ placed' = TRUE /\ UNCHANGED <<pending>>
  BY DEF SetWriter
<1>2. todo = <<>> /\ UNCHANGED <<config, flash, buffer, busy, rww, before, sound, pending>>
  BY <1>1 DEF Calls
<1> USE <1>2, IdlePrepared
<1>3. /\ WriterType' /\ writer'.page \in Pages /\ WordOf(writer'.offset) \in 0..PageWords /\ WordOf(writer'.offset) \in Nat
  <2>1. linear \in Nat
    BY FlashAssumption
  <2> QED BY <1>1, <2>1, AddressType, PageWordsType DEF WriterType, WordOf
<1>4. FlashType'
  BY <1>1, <1>2, <1>3 DEF FlashType
<1>5. CASE ~config.preserveUnset
  <2>1. Placed("idle", 0, 0)'
    <3>1. \A w \in DOMAIN pending : ~(0 <= w /\ w < 0)
      BY PageWordsType DEF FlashType
    <3> QED BY <1>1, <1>2, <1>3, <1>5, <3>1 DEF Placed, Working, Shape, Loading
  <2>2. ASSUME sound' PROVE Prepared("idle", 0, 0)'
    <3>1. \A w \in Words : ~Kept("idle", w) /\ ~Kept("idle", w)' /\ ~(0 <= w /\ w < 0)
      BY <1>2, <1>5, PageWordsType DEF Kept
    <3>2. Filled("idle", 0, 0)'
      BY <1>2, <2>2, <3>1 DEF Filled
    <3> QED BY <1>1, <1>2, <1>5, <2>2, <3>2, Distinct DEF Prepared, Ending
  <2>3. todo' = Steps("idle", <<>>)
    <3>1. WordOf(writer'.offset) \in Nat /\ 0 \in Nat
      BY <1>3
    <3> QED BY <1>1, <1>5, <3>1, PreserveForm DEF Steps
  <2> QED BY <1>4, <2>1, <2>2, <2>3, Arrive DEF Stages
<1>6. CASE config.preserveUnset
  <2> DEFINE l == WordOf(writer'.offset)
  <2>1. pending = NoWords /\ ~placed /\ placed' = TRUE /\ 2 * l = writer'.offset
    BY <1>1, <1>3, <1>6 DEF WriterType
  <2>2. ASSUME NEW j \in 0..PageWords, j = l
        PROVE  Placed("idle", 0, j)' /\ (sound => Prepared("idle", 0, j))'
    <3>1. Placed("idle", 0, j)'
      BY <1>2, <1>3, <1>6, <2>1, <2>2, Distinct, PageWordsType DEF Placed, Working, Shape, Loading, WriterType
    <3>2. ASSUME sound' PROVE Prepared("idle", 0, j)'
      <4>1. \A w \in Words : buffer[w] = Unset
        BY <1>2, <2>1, <3>2, Distinct DEF Kept, Writing
      <4>2. ASSUME NEW w \in Words PROVE Kept("idle", w)' <=> 0 <= w /\ w < j
        BY <1>2, <1>6, <2>1, <2>2, PageWordsType DEF Kept, Writing, WriterType
      <4>3. Filled("idle", 0, j)'
        BY <1>2, <2>1, <4>1, <4>2, Distinct DEF Filled
      <4> QED BY <1>2, <2>1, <3>2, <4>3, Distinct DEF Prepared, Ending
    <3> QED BY <3>1, <3>2
  <2>3. todo' = Ahead(0, l, Steps("idle", <<>>))
    <3>1. l \in Nat /\ 0 \in Nat
      BY <1>3
    <3> QED BY <1>1, <1>6, <3>1, PreserveForm DEF Steps
  <2>4. ASSUME NEW j \in 0..PageWords, j = l PROVE FlashInv'
    <3>1. todo' = Ahead(0, j, Steps("idle", <<>>))'
      BY <2>3, <2>4 DEF Ahead, Steps
    <3>2. Stage("idle", 0, j, <<>>)'
      BY <2>2, <2>4, <3>1 DEF Stage
    <3> QED BY <1>4, <3>2, PageWordsType DEF FlashInv, Stages
  <2> QED BY <1>3, <2>4
<1> QED BY <1>5, <1>6

\* Beginning to put a word.
LEMMA WriteKeeps ==
  ASSUME FlashType, NEW s \in Stages, NEW k \in 0..PageWords, NEW m \in 0..PageWords, NEW n \in {<<>>, Moves},
         Stage(s, k, m, n), Write
  PROVE  FlashInv'
<1> DEFINE w0 == WordOf(writer.offset)
<1>1. PICK data \in Values :
        /\ Calls /\ OnPage /\ Ready /\ ~endOfPage(writer) /\ w0 \notin DOMAIN pending
        /\ ~config.autoErase /\ sound => flash[writer.page][w0] = Blank
        /\ todo' = write(data)
        /\ pending' = [w \in {w0} \union DOMAIN pending |-> IF w = w0 THEN data ELSE pending[w]]
        /\ UNCHANGED <<writer, placed>>
  BY DEF Write
<1>2. todo = <<>> /\ UNCHANGED <<config, flash, buffer, busy, rww, before, sound, writer, placed>>
  BY <1>1 DEF Calls
<1>3. /\ w0 \in Words /\ 2 * w0 = writer.offset /\ writer.offset < pageSize /\ writer.page \in Pages
  <2>1. writer.offset < pageSize
    BY <1>1, FlashAssumption DEF FlashType, WriterType, endOfPage
  <2> QED BY <1>1, <2>1, WriterWord DEF FlashType, WriterType, OnPage
<1>4. /\ DOMAIN pending' = {w0} \union DOMAIN pending /\ pending'[w0] = data
      /\ \A w \in DOMAIN pending : pending'[w] = pending[w]
      /\ pending' # NoWords
  <2>1. /\ DOMAIN pending' = {w0} \union DOMAIN pending /\ pending'[w0] = data
        /\ \A w \in DOMAIN pending : pending'[w] = pending[w]
    BY <1>1
  <2> QED BY <2>1, Distinct
<1>5. FlashType'
  <2>1. /\ DOMAIN pending' \subseteq Words /\ \A w \in DOMAIN pending' : pending'[w] \in Values
    BY <1>1, <1>3, <1>4 DEF FlashType
  <2>2. pending' = [w \in DOMAIN pending' |-> pending'[w]]
    <3>1. pending' = [w \in DOMAIN pending' |-> IF w = w0 THEN data ELSE pending[w]]
      BY <1>1, <1>4
    <3> QED BY <3>1
  <2> QED BY <1>2, <2>1, <2>2 DEF FlashType, WriterType
<1>6. Placed("load", 0, 0)'
  <2>1. Working("load", 0, 0)'
    BY <1>2, IdlePrepared DEF Working
  <2>2. \A w \in DOMAIN pending' : ~(0 <= w /\ w < 0)
    BY <1>5, PageWordsType DEF FlashType
  <2>3. config.preserveUnset => \A w \in DOMAIN pending' : 2 * w < writer.offset \/ 2 * w = writer.offset
    BY <1>2, <1>3, <1>4, IdlePrepared
  <2>4. Shape("load", 0, 0)'
    BY <1>2, <1>3, <1>4, <2>2, <2>3 DEF Shape, Loading
  <2> QED BY <2>1, <2>4 DEF Placed
<1>7. ASSUME sound' PROVE Prepared("load", 0, 0)'
  <2>1. /\ rww /\ before = Closed
        /\ ~config.autoErase => \A w \in DOMAIN pending : flash[writer.page][w] = Blank
        /\ \A w \in Words : buffer[w] = IF w \in DOMAIN pending THEN pending[w]
                                        ELSE IF Kept("idle", w) THEN flash[writer.page][w] ELSE Unset
    BY <1>2, <1>7, IdlePrepared
  <2>2. buffer[w0] = Unset
    BY <1>1, <1>3, <2>1 DEF Kept, Writing, FlashType, WriterType
  <2>3. ASSUME NEW w \in Words PROVE Kept("load", w)' <=> Kept("idle", w)
    <3>1. writer.offset = 0 => ~(2 * w < writer.offset)
      BY PageWordsType
    <3>2. Kept("load", w)' <=> config.preserveUnset /\ 2 * w < writer.offset
      BY <1>2, <1>4 DEF Kept, Writing
    <3> QED BY <1>1, <3>1, <3>2 DEF Kept, Writing, Ready
  <2>4. Filled("load", 0, 0)'
    <3>1. ASSUME NEW w \in Words
          PROVE  buffer[w] = IF w = w0 THEN Unset ELSE IF w \in DOMAIN pending' THEN pending'[w]
                             ELSE IF Kept("load", w)' THEN flash[writer.page][w] ELSE Unset
      BY <1>4, <2>1, <2>2, <2>3
    <3>2. Old' = flash[writer.page] /\ \A w \in Words : ~(0 <= w /\ w < 0)
      BY <1>2, <2>1, PageWordsType DEF Old
    <3> QED BY <1>2, <3>1, <3>2 DEF Filled
  <2> QED BY <1>1, <1>2, <1>3, <1>4, <1>7, <2>1, <2>4 DEF Prepared, Ending
<1>8. todo' = Ahead(0, 0, Steps("load", <<>>))'
  <2>1. todo' = Steps("load", <<>>)'
    BY <1>1, <1>2, <1>4, WriteForm DEF Steps, Loads3
  <2>2. write(data) \in Seq(AnyStep)
    <3>1. WordStep("load", writer.offset, data) \in AnyStep
      BY StepTypes DEF Kinds, FlashType, WriterType
    <3> QED BY <3>1, WriteForm, StageTypes, ThenIsFirst
  <2>3. Ahead(0, 0, write(data)) = write(data)
    <3>1. 0 \in Nat /\ 0 >= 0
      OBVIOUS
    <3> QED BY <2>2, <3>1, AheadIsFirst
  <2> QED BY <1>1, <2>1, <2>3 DEF Ahead
<1>9. Stage("load", 0, 0, <<>>)'
  BY <1>6, <1>7, <1>8 DEF Stage
<1> QED BY <1>5, <1>9, PageWordsType DEF FlashInv, Stages

\* Beginning to erase a page.
LEMMA ErasePageKeeps ==
  ASSUME FlashType, NEW s \in Stages, NEW k \in 0..PageWords, NEW m \in 0..PageWords, NEW n \in {<<>>, Moves},
         Stage(s, k, m, n), ErasePage
  PROVE  FlashInv'
<1>1. /\ Calls /\ OnPage /\ pending = NoWords /\ ~(config.preserveUnset /\ placed)
      /\ todo' = Clears /\ UNCHANGED <<writer, pending, placed>>
  BY EraseForm DEF ErasePage
<1>2. todo = <<>> /\ UNCHANGED <<config, flash, buffer, busy, rww, before, sound>>
  BY <1>1 DEF Calls
<1>3. FlashType'
  BY <1>1, <1>2 DEF FlashType, WriterType
<1>4. Placed("clear", 0, 0)'
  BY <1>1, <1>2, IdlePrepared, Distinct DEF Placed, Working, Shape, Loading, OnPage
<1>5. ASSUME sound' PROVE Prepared("clear", 0, 0)'
  <2>1. \A w \in Words : buffer[w] = Unset /\ ~Kept("clear", w)' /\ ~(0 <= w /\ w < 0)
    BY <1>1, <1>2, <1>5, IdlePrepared, Distinct, PageWordsType DEF Kept, Writing
  <2>2. Filled("clear", 0, 0)'
    BY <1>1, <1>2, <2>1, Distinct DEF Filled
  <2> QED BY <1>1, <1>2, <1>5, <2>2, IdlePrepared, Distinct DEF Prepared, Ending
<1>6. todo' = Steps("clear", <<>>)
  BY <1>1 DEF Steps
<1> QED BY <1>3, <1>4, <1>5, <1>6, Arrive DEF Stages

\* Beginning to write a page.
LEMMA WritePageKeeps ==
  ASSUME FlashType, NEW s \in Stages, NEW k \in 0..PageWords, NEW m \in 0..PageWords, NEW n \in {<<>>, Moves},
         Stage(s, k, m, n), WritePage
  PROVE  FlashInv'
<1> DEFINE w0 == WordOf(writer.offset)
           j == KeptFrom(w0)
<1>1. Calls /\ OnPage /\ Ready /\ todo' = writeCurrentPage(writer) /\ UNCHANGED <<writer, pending, placed>>
  BY DEF WritePage
<1>2. todo = <<>> /\ UNCHANGED <<config, flash, buffer, busy, rww, before, sound, writer, pending, placed>>
  BY <1>1 DEF Calls
<1>3. /\ w0 \in 0..PageWords /\ 2 * w0 = writer.offset /\ writer.page \in Pages /\ PageWords \in 0..PageWords
      /\ j \in 0..PageWords
  BY <1>1, WriterWord, PageWordsType DEF FlashType, WriterType, OnPage, KeptFrom
<1>4. FlashType'
  BY <1>2 DEF FlashType, WriterType
<1>5. ASSUME NEW t \in {"erase", "write"}, t = Started
      PROVE  Placed(t, j, PageWords)' /\ (sound => Prepared(t, j, PageWords))'
  <2>1. Working(t, j, PageWords)'
    BY <1>2, IdlePrepared DEF Working
  <2>2. Shape(t, j, PageWords)
    <3>1. ASSUME NEW w \in DOMAIN pending PROVE ~(j <= w /\ w < PageWords)
      <4>1. w \in Nat /\ w < PageWords
        BY PageWordsType DEF FlashType
      <4> QED BY <1>2, <1>3, <4>1, PageWordsType, IdlePrepared DEF KeptFrom
    <3>2. j < PageWords => config.preserveUnset
      BY <1>3, PageWordsType DEF KeptFrom
    <3> HIDE DEF j
    <3> QED BY <1>2, <1>3, <1>5, <3>1, <3>2, IdlePrepared DEF Shape, Loading, Started
  <2>3. Shape(t, j, PageWords)'
    BY <1>2, <2>2 DEF Shape, KeptFrom, PageWords
  <2>4. ASSUME sound' PROVE Prepared(t, j, PageWords)'
    <3>1. ASSUME NEW w \in Words
          PROVE  buffer[w] = IF j <= w /\ w < PageWords THEN Unset ELSE IF w \in DOMAIN pending THEN pending[w]
                             ELSE IF Kept(t, w) THEN flash[writer.page][w] ELSE Unset
      <4>1. /\ buffer[w] = IF w \in DOMAIN pending THEN pending[w]
                           ELSE IF Kept("idle", w) THEN flash[writer.page][w] ELSE Unset
            /\ config.preserveUnset /\ w \in DOMAIN pending => 2 * w < writer.offset
        BY <1>2, <2>4, IdlePrepared
      <4>2. w \in Nat /\ w < PageWords
        BY PageWordsType
      <4>3. Kept(t, w) <=> config.preserveUnset
        BY <1>5 DEF Kept, Writing
      <4>4. CASE config.preserveUnset
        <5>1. j = w0
          BY <4>4 DEF KeptFrom
        <5>2. j <= w <=> ~(2 * w < writer.offset)
          BY <1>3, <4>2, <5>1
        <5>3. Kept("idle", w) <=> 2 * w < writer.offset
          BY <1>1, <4>2, <4>4 DEF Kept, Writing, Ready
        <5> HIDE DEF j
        <5> QED BY <4>1, <4>2, <4>3, <4>4, <5>2, <5>3
      <4>5. CASE ~config.preserveUnset
        <5>1. ~(j <= w)
          BY <4>2, <4>5, PageWordsType DEF KeptFrom
        <5>2. ~Kept("idle", w)
          BY <4>5 DEF Kept
        <5> HIDE DEF j
        <5> QED BY <4>1, <4>3, <4>5, <5>1, <5>2
      <4> QED BY <4>4, <4>5
    <3>2. Filled(t, j, PageWords)
      <4>1. Old = flash[writer.page] /\ t # "load"
        BY <1>2, <1>5, IdlePrepared DEF Old
      <4> HIDE DEF j
      <4> QED BY <3>1, <4>1 DEF Filled
    <3>3. Prepared(t, j, PageWords)
      <4> HIDE DEF j
      <4> QED BY <1>2, <1>5, <2>4, <3>2, IdlePrepared DEF Prepared, Ending, Started
    <3> QED BY <1>2, <3>3 DEF Prepared, Filled, Kept, Old, Target, Base, KeptFrom, PageWords
  <2> QED BY <2>1, <2>3, <2>4 DEF Placed
<1>6. ASSUME NEW t \in {"erase", "write"}, t = Started PROVE FlashInv'
  <2>1. todo' = Ahead(j, PageWords, Steps(t, <<>>))
    BY <1>1, <1>3, <1>6, WritePageForm
  <2>2. (j = j' /\ PageWords = PageWords' /\ Steps(t, <<>>) = Steps(t, <<>>)')
    BY <1>2, <1>6 DEF KeptFrom, Steps
  <2>3. todo' = Ahead(j, PageWords, Steps(t, <<>>))'
    BY <2>1, <2>2 DEF Ahead
  <2>4. Stage(t, j, PageWords, <<>>)'
    BY <1>5, <1>6, <2>3 DEF Stage
  <2>5. \E jj \in 0..PageWords : Stage(t, jj, PageWords, <<>>)'
    BY <1>3, <2>2, <2>4
  <2> QED BY <1>3, <1>4, <1>6, <2>5 DEF FlashInv, Stages
<1> QED BY <1>6 DEF Started

-----------------------------------------------------------------------------
(* The invariant holds. *)

\* After a start nothing is under way.
LEMMA FlashStarts == Init => FlashInv
<1> SUFFICES ASSUME Init PROVE FlashInv
  OBVIOUS
<1>1. /\ busy = Idle /\ rww = TRUE /\ buffer = EmptyBuffer /\ writer = [page |-> 0, offset |-> 0] /\ todo = <<>>
      /\ pending = NoWords /\ placed = FALSE /\ before = Closed
  BY AddressType DEF Init
<1>2. FlashType
  <2>1. WriterType
    BY <1>1, AddressType, PageWordsType DEF WriterType
  <2> QED BY <1>1, <2>1, Distinct DEF Init, FlashType, NoWords
<1>3. Placed("idle", 0, 0)
  BY <1>1, Distinct DEF Placed, Working, Shape, Loading
<1>4. Prepared("idle", 0, 0)
  BY <1>1, Distinct DEF Prepared, Filled, Kept, Writing, Ending, EmptyBuffer
<1>5. todo = Ahead(0, 0, Steps("idle", <<>>))
  <2>1. <<>> \in Seq(AnyStep) /\ 0 \in Nat /\ 0 >= 0
    OBVIOUS
  <2> QED BY <1>1, <2>1, AheadIsFirst DEF Steps
<1>6. Stage("idle", 0, 0, <<>>)
  BY <1>3, <1>4, <1>5 DEF Stage
<1> QED BY <1>2, <1>6, PageWordsType DEF FlashInv, Stages

\* Every step leads to a stage again.
LEMMA FlashKeeps == FlashInv /\ [Next]_vars => FlashInv'
<1> SUFFICES ASSUME FlashInv, [Next]_vars PROVE FlashInv'
  OBVIOUS
<1>1. PICK s \in Stages, k \in 0..PageWords, m \in 0..PageWords, n \in {<<>>, Moves} : Stage(s, k, m, n)
  BY DEF FlashInv
<1>2. FlashType
  BY DEF FlashInv
<1>3. CASE Client
  BY <1>1, <1>2, <1>3, SetWriterKeeps, WriteKeeps, ErasePageKeeps, WritePageKeeps DEF Client
<1>4. CASE Cpu
  BY <1>1, <1>2, <1>4, LoadKeeps, PreserveKeeps, EraseOrWriteKeeps, EnableKeeps, WaitKeeps, AdvanceKeeps, NextPageKeeps DEF Cpu
<1>5. CASE Done
  BY <1>5, DoneKeeps
<1>6. CASE PowerFails
  BY <1>6, PowerKeeps
<1>7. CASE UNCHANGED vars
  <2>1. Stage(s, k, m, n)'
    BY <1>1, <1>7 DEF vars, Stage, Placed, Working, Shape, Prepared, Filled, Kept, Old, Target, Base, Ahead, Steps,
                     Loads3
  <2>2. FlashType'
    BY <1>2, <1>7 DEF vars, FlashType, WriterType
  <2> QED BY <2>1, <2>2 DEF FlashInv
<1> QED BY <1>3, <1>4, <1>5, <1>6, <1>7 DEF Next

\* In every behaviour the Writer stands at a stage of a method, with the page buffer and the page as
\* that stage needs them as long as no command was lost.
THEOREM StagesKept == Spec => []FlashInv
BY FlashStarts, FlashKeeps, PTL DEF Spec

\* Between two methods the application can be read, unless a command was lost.
THEOREM SectionOpen == Spec => []ReadableBetweenCalls
<1>1. FlashInv => ReadableBetweenCalls
  <2> SUFFICES ASSUME FlashInv, todo = <<>>, sound PROVE busy = Idle /\ rww
    BY DEF ReadableBetweenCalls
  <2>1. PICK s \in Stages, k \in 0..PageWords, m \in 0..PageWords, n \in {<<>>, Moves} : Stage(s, k, m, n)
    BY DEF FlashInv
  <2> QED BY <2>1, IdlePrepared DEF FlashInv
<1> QED BY <1>1, StagesKept, PTL

-----------------------------------------------------------------------------
(* The Writer implements the paged store. *)

\* The pages as the client knows them.
Mapped == IF before = Closed THEN flash ELSE [flash EXCEPT ![writer.page] = before]

\* What the invariant says about them.
LEMMA MappedPages ==
  ASSUME FlashInv
  PROVE  /\ busy # Idle => before # Closed
         /\ before # Closed => writer.page \in Pages
         /\ before = Closed => Mapped = flash
         /\ flash \in [Pages -> [Words -> Word]] /\ Mapped \in [Pages -> [Words -> Word]]
         /\ writer.page \in Pages => Mapped[writer.page] = Old
         /\ \A q \in Pages : q # writer.page => Mapped[q] = flash[q]
<1>1. PICK s \in Stages, k \in 0..PageWords, m \in 0..PageWords, n \in {<<>>, Moves} : Stage(s, k, m, n)
  BY DEF FlashInv
<1>2. /\ busy # Idle => before # Closed
      /\ before # Closed => writer.page \in Pages
  BY <1>1 DEF Stage, Placed, Working, Shape
<1>3. flash \in [Pages -> [Words -> Word]] /\ (before # Closed => before \in [Words -> Word])
  BY DEF FlashInv, FlashType
<1> QED BY <1>2, <1>3 DEF Mapped, Old

\* A change of one page.
LEMMA OnePage ==
  ASSUME NEW f \in [Pages -> [Words -> Word]], NEW g \in [Pages -> [Words -> Word]], NEW p \in Pages,
         \A q \in Pages : q # p => g[q] = f[q]
  PROVE  g = [f EXCEPT ![p] = g[p]]
OBVIOUS

\* A step that changes neither a page nor what was put.
LEMMA Stutters ==
  ASSUME config' = config, writer'.page = writer.page, pending' = pending, Mapped' = Mapped
  PROVE  /\ sound' = sound => UNCHANGED Store!svars
         /\ sound' = FALSE => Store!Drop
BY DEF Mapped, Store!svars, Store!Drop

\* The hardware.
LEMMA DoneMaps ==
  ASSUME FlashInv, Done
  PROVE  UNCHANGED Store!svars
<1>1. before # Closed /\ writer.page \in Pages
  BY MappedPages DEF Done
<1>2. PICK new : flash' = [flash EXCEPT ![writer.page] = new]
  BY DEF Done
<1>3. UNCHANGED <<config, writer, pending, before, sound>>
  BY DEF Done
<1>4. Mapped' = Mapped
  BY <1>1, <1>2, <1>3, MappedPages DEF Mapped
<1> QED BY <1>3, <1>4, Stutters

\* A power failure spoils at most the page that is being changed.
LEMMA PowerMaps ==
  ASSUME FlashInv, FlashInv', PowerFails
  PROVE  Store!PowerFails
<1>1. /\ writer'.page = 0 /\ pending' = NoWords /\ before' = Closed /\ sound' = TRUE /\ config' = config
  BY AddressType DEF PowerFails
<1>2. Mapped' = flash'
  BY <1>1 DEF Mapped
<1>3. CASE before = Closed
  <2>1. Mapped' = Mapped
    BY <1>2, <1>3, MappedPages DEF PowerFails
  <2> QED BY <1>1, <2>1 DEF Store!PowerFails, Store!Nothing, NoWords, Mapped
<1>4. CASE before # Closed
  <2>1. writer.page \in Pages
    BY <1>4, MappedPages
  <2>2. flash' \in [Pages -> [Words -> Word]]
    BY DEF FlashInv, FlashType
  <2>3. \A q \in Pages : q # writer.page => flash'[q] = flash[q]
    BY <2>1, MappedPages DEF PowerFails
  <2>4. Mapped' = [Mapped EXCEPT ![writer.page] = Mapped'[writer.page]]
    BY <1>2, <2>1, <2>2, <2>3, MappedPages, OnePage
  <2> QED BY <1>1, <2>1, <2>4 DEF Store!PowerFails, Store!OnlyPage, Store!Nothing, NoWords, Mapped
<1> QED BY <1>3, <1>4

\* The processor.
LEMMA LoadsMap ==
  ASSUME FlashInv, StepLoad \/ StepPreserve
  PROVE  UNCHANGED Store!svars \/ Store!Drop
<1>0. At("load") \/ At("preserve")
  BY DEF StepLoad, StepPreserve
<1>1. PICK s \in Stages, k \in 0..PageWords, m \in 0..PageWords, n \in {<<>>, Moves} : Stage(s, k, m, n)
  BY DEF FlashInv
<1>2. busy = Idle
  <2>1. s = "load" \/ k < m
    BY <1>0, <1>1, StageStep DEF Stage, FlashInv
  <2> QED BY <1>1, <2>1, PageWordsType DEF Stage, Placed, Working, Shape
<1>3. /\ config' = config /\ writer' = writer /\ pending' = pending /\ before' = before /\ flash' = flash
      /\ sound' = sound \/ sound' = FALSE
  BY <1>2 DEF StepLoad, StepPreserve, Command
<1>4. Mapped' = Mapped
  BY <1>3 DEF Mapped
<1> QED BY <1>3, <1>4, Stutters

\* Beginning to erase or write is not visible yet.
LEMMA ChangeMaps ==
  ASSUME FlashInv, StepChange
  PROVE  UNCHANGED Store!svars \/ Store!Drop
<1>1. PICK what \in {"erase", "write"} : At(what) /\ Command(Begins(what))
  BY DEF StepChange
<1>2. PICK s \in Stages, k \in 0..PageWords, m \in 0..PageWords, n \in {<<>>, Moves} : Stage(s, k, m, n)
  BY DEF FlashInv
<1>3. busy = Idle /\ writer.page \in Pages
  <2>1. k >= m /\ s \in {"clear", "erase", "write"}
    BY <1>1, <1>2, StageStep DEF Stage, FlashInv
  <2> QED BY <1>2, <2>1 DEF Stage, Placed, Working, Shape
<1>4. /\ config' = config /\ writer' = writer /\ pending' = pending /\ before' = Old /\ flash' = flash
      /\ sound' = sound \/ sound' = FALSE
  BY <1>1, <1>3 DEF StepChange, Command, Begins, Old
<1>5. Mapped' = Mapped
  <2>1. Old \in [Words -> Word] /\ Old # Closed
    BY <1>3, Distinct DEF Old, FlashInv, FlashType
  <2>2. Mapped' = [flash EXCEPT ![writer.page] = Old]
    BY <1>4, <2>1 DEF Mapped
  <2> QED BY <1>3, <2>2, MappedPages DEF Mapped, Old
<1> QED BY <1>4, <1>5, Stutters

\* The page changes for the client when the section is opened.
LEMMA EnableMaps ==
  ASSUME FlashInv, StepEnableRWW
  PROVE  Store!Flush \/ Store!Erase \/ Store!Drop
<1>0. At("enableRWW")
  BY DEF StepEnableRWW
<1>1. PICK s \in Stages, k \in 0..PageWords, m \in 0..PageWords, n \in {<<>>, Moves} : Stage(s, k, m, n)
  BY DEF FlashInv
<1>2. k >= m /\ s = "open"
  BY <1>0, <1>1, StageStep DEF Stage, FlashInv
<1>3. busy = Idle /\ writer.page \in Pages
  BY <1>1, <1>2 DEF Stage, Placed, Working, Shape
<1>4. /\ config' = config /\ writer' = writer /\ pending' = NoWords /\ before' = Closed /\ flash' = flash
      /\ sound' = sound \/ sound' = FALSE
  BY <1>3 DEF StepEnableRWW, Command
<1>5. Mapped' = flash
  BY <1>4 DEF Mapped
<1>6. Mapped' = [Mapped EXCEPT ![writer.page] = Mapped'[writer.page]]
  BY <1>3, <1>5, MappedPages, OnePage
<1>7. CASE sound' = FALSE
  BY <1>3, <1>4, <1>6, <1>7 DEF Store!Drop, Store!OnlyPage, Store!Nothing, NoWords, Mapped
<1>8. CASE sound' # FALSE
  <2>1. sound /\ sound' = sound /\ before # Closed
        /\ (flash[writer.page] = Target \/ (pending = NoWords /\ flash[writer.page] = BlankPage))
    <3>1. sound /\ sound' = sound
      BY <1>4, <1>8 DEF FlashInv, FlashType
    <3> QED BY <1>1, <1>2, <1>3, <3>1 DEF Stage, Prepared, Ending
  <2>2. CASE flash[writer.page] = Target
    <3>1. Target = [w \in Words |-> IF w \in DOMAIN pending THEN pending[w] ELSE Store!Base[w]]
      <4>1. Mapped[writer.page] = before
        BY <1>3, <2>1, MappedPages DEF Old
      <4>2. Base = Store!Base
        BY <4>1 DEF Base, Store!Base, BlankPage, Mapped
      <4> QED BY <4>2 DEF Target
    <3> QED BY <1>3, <1>4, <1>5, <1>6, <2>1, <2>2, <3>1 DEF Store!Flush, Store!OnlyPage, Store!Nothing, NoWords, Mapped
  <2>3. CASE pending = NoWords /\ flash[writer.page] = BlankPage
    BY <1>3, <1>4, <1>5, <1>6, <2>1, <2>3 DEF Store!Erase, Store!OnlyPage, Store!Nothing, NoWords, Mapped, BlankPage
  <2> QED BY <2>1, <2>2, <2>3
<1> QED BY <1>7, <1>8

\* Waiting and moving on.
LEMMA MovesMap ==
  ASSUME FlashInv, StepWait \/ StepAdvance \/ StepNextPage
  PROVE  UNCHANGED Store!svars \/ Store!Goto
<1>1. PICK s \in Stages, k \in 0..PageWords, m \in 0..PageWords, n \in {<<>>, Moves} : Stage(s, k, m, n)
  BY DEF FlashInv
<1>2. UNCHANGED <<config, flash, pending, before, sound>>
  BY DEF StepWait, StepAdvance, StepNextPage
<1>3. CASE StepWait \/ StepAdvance
  <2>1. writer'.page = writer.page
    BY <1>3 DEF StepWait, StepAdvance, next, FlashInv, FlashType, WriterType
  <2>2. Mapped' = Mapped
    BY <1>2, <2>1 DEF Mapped
  <2> QED BY <1>2, <2>1, <2>2, Stutters
<1>4. CASE StepNextPage
  <2>1. At("nextPage")
    BY <1>4 DEF StepNextPage
  <2>2. k >= m /\ s = "next"
    BY <1>1, <2>1, StageStep DEF Stage, FlashInv
  <2>3. pending = NoWords /\ before = Closed
    BY <1>1, <2>2 DEF Stage, Placed, Working, Shape
  <2> QED BY <1>2, <2>3 DEF Store!Goto, Store!Nothing, NoWords
<1> QED BY <1>3, <1>4

\* The client.
LEMMA ClientMaps ==
  ASSUME FlashInv, Client
  PROVE  UNCHANGED Store!svars \/ Store!Goto \/ Store!Put
<1>1. PICK s \in Stages, k \in 0..PageWords, m \in 0..PageWords, n \in {<<>>, Moves} : Stage(s, k, m, n)
  BY DEF FlashInv
<1>2. todo = <<>> /\ UNCHANGED <<config, flash, before, sound>>
  BY DEF Client, SetWriter, Write, ErasePage, WritePage, Calls
<1>3. before = Closed
  BY <1>1, <1>2, IdlePrepared DEF FlashInv
<1>4. Mapped = flash /\ Mapped' = flash
  BY <1>2, <1>3 DEF Mapped
<1>5. CASE SetWriter
  <2>1. pending' = pending /\ (pending = NoWords \/ writer'.page = writer.page)
    BY <1>5 DEF SetWriter
  <2>2. CASE pending = NoWords
    BY <1>2, <1>3, <2>1, <2>2 DEF Store!Goto, Store!Nothing, NoWords
  <2>3. CASE writer'.page = writer.page
    BY <1>2, <1>4, <2>1, <2>3, Stutters
  <2> QED BY <2>1, <2>2, <2>3
<1>6. CASE Write
  <2> DEFINE w0 == WordOf(writer.offset)
  <2>1. PICK data \in Values :
          /\ OnPage /\ ~endOfPage(writer) /\ w0 \notin DOMAIN pending
          /\ ~config.autoErase /\ sound => flash[writer.page][w0] = Blank
          /\ pending' = [w \in {w0} \union DOMAIN pending |-> IF w = w0 THEN data ELSE pending[w]]
          /\ writer' = writer
    BY <1>6 DEF Write
  <2>2. w0 \in Words \ DOMAIN pending
    <3>1. writer.offset < pageSize
      BY <2>1, FlashAssumption DEF FlashInv, FlashType, WriterType, endOfPage
    <3> QED BY <2>1, <3>1, WriterWord DEF FlashInv, FlashType
  <2> HIDE DEF w0
  <2> QED BY <1>2, <1>3, <2>1, <2>2 DEF Store!Put, OnPage
<1>7. CASE ErasePage \/ WritePage
  BY <1>2, <1>4, <1>7, Stutters DEF ErasePage, WritePage
<1> QED BY <1>5, <1>6, <1>7 DEF Client

\* The Writer over the hardware implements the paged store, for every size of page and memory, with
\* power failures and lost commands between any two steps; preserveUnset only together with
\* autoIncrement (FlashAssumption), which nothing in the driver enforces.
THEOREM PagesStored == Spec => StoreImplemented
<1>1. Init => Store!Init
  <2> SUFFICES ASSUME Init PROVE Store!Init
    OBVIOUS
  <2>1. [autoErase |-> config.autoErase, preserveUnset |-> config.preserveUnset]
          \in [autoErase : BOOLEAN, preserveUnset : BOOLEAN]
    BY FlashAssumption DEF Init
  <2>2. writer.page = 0 /\ before = Closed
    BY AddressType DEF Init
  <2> QED BY <2>1, <2>2 DEF Init, Store!Init, Store!Nothing, NoWords, BlankPage
<1>2. FlashInv /\ FlashInv' /\ [Next]_vars => [Store!Next]_(Store!svars)
  <2> SUFFICES ASSUME FlashInv, FlashInv', [Next]_vars PROVE Store!Next \/ UNCHANGED Store!svars
    OBVIOUS
  <2>1. CASE Client
    BY <2>1, ClientMaps DEF Store!Next
  <2>2. CASE Cpu
    BY <2>2, LoadsMap, ChangeMaps, EnableMaps, MovesMap DEF Cpu, Store!Next
  <2>3. CASE Done
    BY <2>3, DoneMaps
  <2>4. CASE PowerFails
    BY <2>4, PowerMaps DEF Store!Next
  <2>5. CASE UNCHANGED vars
    BY <2>5 DEF vars, Store!svars
  <2> QED BY <2>1, <2>2, <2>3, <2>4, <2>5 DEF Next
<1> QED BY <1>1, <1>2, StagesKept, PTL DEF Spec, StoreImplemented, Store!Spec
=============================================================================
