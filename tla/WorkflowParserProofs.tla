------------------------ MODULE WorkflowParserProofs ------------------------
(***************************************************************************)
(* What the workflow parser makes of two texts is the same tree only if    *)
(* the texts say line by line the same: for texts of any length.           *)
(*                                                                         *)
(* Facts about a recursive function are shown by taking the first place    *)
(* where they fail.                                                        *)
(***************************************************************************)
EXTENDS WorkflowParser, WellFoundedInduction, FiniteSetTheorems, TLAPS

-----------------------------------------------------------------------------
(* Induction *)

\* A nonempty set of numbers has a least one.
LEMMA HasLeast ==
    ASSUME NEW S, S \subseteq Nat, S # {}
    PROVE  \E n \in S : \A m \in S : n <= m
  <1> DEFINE R == OpToRel(<, Nat)
  <1>1. \E n \in S : \A m \in S : ~ (<<m, n>> \in R)
    <2>1. IsWellFoundedOn(R, Nat)
      BY NatLessThanWellFounded
    <2> HIDE DEF R
    <2> QED
      BY <2>1, WFMin
  <1>2. ASSUME NEW m \in Nat, NEW n \in Nat, <<m, n>> \notin R PROVE n <= m
    <2>1. ~(m < n)
      BY <1>2 DEF OpToRel
    <2> QED
      BY <2>1
  <1>3. PICK n \in S : \A m \in S : ~ (<<m, n>> \in R)
    BY <1>1
  <1>4. ASSUME NEW m \in S PROVE n <= m
    <2>1. m \in Nat /\ n \in Nat /\ <<m, n>> \notin R
      BY <1>3
    <2> HIDE DEF R
    <2> QED
      BY <2>1, <1>2
  <1> QED
    BY <1>4

\* What holds of 0, and of a number if of the one before, holds of all up to n.
LEMMA Upward ==
    ASSUME NEW n \in Nat, NEW S, 0 \in S, \A k \in 0..(n - 1) : k \in S => k + 1 \in S
    PROVE  \A k \in 0..n : k \in S
<1> DEFINE B == {k \in 0..n : k \notin S}
<1>1. SUFFICES ASSUME B # {} PROVE FALSE
  OBVIOUS
<1>2. PICK b \in B : \A m \in B : b <= m
  <2>1. B \subseteq Nat
    OBVIOUS
  <2> HIDE DEF B
  <2> QED  BY <1>1, <2>1, HasLeast
<1>3. b \in 1..n
  <2>1. b \in 0..n /\ b \notin S
    BY <1>2
  <2> QED  BY <2>1
<1>4. b - 1 \in 0..(n - 1) /\ b - 1 \in 0..n /\ ~(b <= b - 1)
  BY <1>3
<1>5. b - 1 \in S
  BY <1>2, <1>4
<1>6. b - 1 + 1 \in S
  BY <1>4, <1>5
<1>7. b - 1 + 1 = b
  BY <1>3
<1> QED  BY <1>2, <1>6, <1>7

\* What holds of a number if it holds of all from there to n holds of all up to n.
LEMMA Downward ==
    ASSUME NEW n \in Nat, NEW S,
           \A k \in 1..n : (\A j \in (k + 1)..n : j \in S) => k \in S
    PROVE  \A k \in 1..n : k \in S
<1> DEFINE B == {d \in 0..n : d < n /\ n - d \notin S}
<1>1. SUFFICES ASSUME NEW k \in 1..n, k \notin S PROVE FALSE
  OBVIOUS
<1>2. n - k \in B
  <2>1. n - k \in 0..n /\ n - k < n /\ n - (n - k) = k
    OBVIOUS
  <2> QED  BY <1>1, <2>1
<1>3. PICK d \in B : \A m \in B : d <= m
  <2>1. B \subseteq Nat
    OBVIOUS
  <2> HIDE DEF B
  <2> QED  BY <1>2, <2>1, HasLeast
<1>4. d \in 0..(n - 1) /\ n - d \notin S
  OBVIOUS
<1>5. ASSUME NEW j \in (n - d + 1)..n PROVE j \in S
  <2>1. n - j \in 0..n /\ n - j < n /\ n - (n - j) = j /\ ~(d <= n - j)
    BY <1>4
  <2> QED  BY <1>3, <2>1
<1>6. n - d \in 1..n
  BY <1>4
<1> QED  BY <1>4, <1>5, <1>6

\* Its first value is this, and the others what the steps make of the one before.
Recursive(f, n, base, step) == f[0] = base /\ \A i \in 1..n : f[i] = step[i][f[i - 1]]

\* There is such a function.
LEMMA Recursion ==
    ASSUME NEW n \in Nat, NEW T, NEW base \in T, NEW step \in [1..n -> [T -> T]]
    PROVE  \E f \in [0..n -> T] : Recursive(f, n, base, step)
<1> DEFINE Upto(m) == \E f \in [0..n -> T] :
                         f[0] = base /\ \A i \in 1..m : f[i] = step[i][f[i - 1]]
           S == {m \in 0..n : Upto(m)}
<1>1. 0 \in S
  <2> DEFINE g == [i \in 0..n |-> base]
  <2>1. g \in [0..n -> T] /\ g[0] = base
    OBVIOUS
  <2>2. \A i \in 1..0 : g[i] = step[i][g[i - 1]]
    OBVIOUS
  <2>3. Upto(0)
    <3> HIDE DEF g
    <3> QED  BY <2>1, <2>2
  <2> QED  BY <2>3
<1>2. ASSUME NEW m \in 0..(n - 1), m \in S PROVE m + 1 \in S
  <2>1. PICK f \in [0..n -> T] : f[0] = base /\ \A i \in 1..m : f[i] = step[i][f[i - 1]]
    BY <1>2
  <2> DEFINE g == [f EXCEPT ![m + 1] = step[m + 1][f[m]]]
  <2>2. m + 1 \in 1..n /\ m + 1 \in 0..n /\ m \in 0..n
    OBVIOUS
  <2>3. step[m + 1][f[m]] \in T
    BY <2>2
  <2>4. g \in [0..n -> T] /\ g[m + 1] = step[m + 1][f[m]]
    BY <2>2, <2>3
  <2>5. \A i \in 0..m : g[i] = f[i]
    OBVIOUS
  <2>6. g[0] = base
    BY <2>1, <2>5
  <2>7. ASSUME NEW i \in 1..(m + 1) PROVE g[i] = step[i][g[i - 1]]
    <3>1. CASE i = m + 1
      <4>1. g[i - 1] = f[m]
        BY <2>5, <3>1
      <4> HIDE DEF g
      <4> QED  BY <2>4, <3>1, <4>1
    <3>2. CASE i # m + 1
      <4>1. i \in 1..m /\ i \in 0..m /\ i - 1 \in 0..m
        BY <3>2
      <4>2. g[i] = f[i] /\ g[i - 1] = f[i - 1]
        BY <2>5, <4>1
      <4> HIDE DEF g
      <4> QED  BY <2>1, <4>1, <4>2
    <3> QED  BY <3>1, <3>2
  <2>8. Upto(m + 1)
    <3> HIDE DEF g
    <3> QED  BY <2>4, <2>6, <2>7
  <2> HIDE DEF Upto
  <2> QED  BY <2>2, <2>8
<1>3. n \in S
  <2> HIDE DEF S
  <2>1. n \in 0..n
    OBVIOUS
  <2> QED  BY <1>1, <1>2, <2>1, Upward
<1> QED  BY <1>3 DEF Recursive

-----------------------------------------------------------------------------
(* The lines *)

\* Skipping the blank lines leaves lines.
LEMMA LinesType ==
    ASSUME NEW L, NEW text \in Seq(L)
    PROVE  Lines(text) \in Seq(L)
<1> DEFINE n == Len(text)
           T == Seq(L)
           base == <<>>
           step == [i \in 1..n |-> [s \in T |->
                       IF Content(text[i]) = Blank THEN s ELSE Append(s, text[i])]]
           Kept(f) == [i \in 0..Len(text) |->
                         IF i = 0 THEN <<>>
                         ELSE IF Content(text[i]) = Blank THEN f[i - 1]
                         ELSE Append(f[i - 1], text[i])]
           kept == CHOOSE f : f = Kept(f)
<1>1. n \in Nat /\ base \in T
  OBVIOUS
<1>2. ASSUME NEW i \in 1..n, NEW s \in T
      PROVE  (IF Content(text[i]) = Blank THEN s ELSE Append(s, text[i])) \in T
  <2>1. text[i] \in L
    OBVIOUS
  <2> QED  BY <2>1
<1>3. step \in [1..n -> [T -> T]]
  <2> HIDE DEF T
  <2> QED  BY <1>2
<1>4. \E f : f = Kept(f)
  <2>1. PICK f \in [0..n -> T] : f[0] = base /\ \A i \in 1..n : f[i] = step[i][f[i - 1]]
    <3> HIDE DEF n, T, base, step
    <3>1. \E f \in [0..n -> T] : Recursive(f, n, base, step)
      BY <1>1, <1>3, Recursion
    <3> QED  BY <3>1 DEF Recursive
  <2>2. ASSUME NEW i \in 0..n PROVE f[i] = Kept(f)[i]
    <3>1. CASE i = 0
      BY <2>1, <3>1
    <3>2. CASE i # 0
      <4>1. i \in 1..n /\ i - 1 \in 0..n
        BY <1>1, <3>2
      <4>2. f[i - 1] \in T
        BY <2>1, <4>1
      <4>3. f[i] = IF Content(text[i]) = Blank THEN f[i - 1] ELSE Append(f[i - 1], text[i])
        <5> HIDE DEF n, T
        <5> QED  BY <2>1, <4>1, <4>2
      <4> QED  BY <4>1, <4>3
    <3> QED  BY <3>1, <3>2
  <2>3. f = Kept(f)
    BY <2>2
  <2> HIDE DEF Kept
  <2> QED  BY <2>3
<1>5. kept = Kept(kept)
  <2> HIDE DEF Kept
  <2> QED  BY <1>4
<1>6. Lines(text) = kept[n]
  BY DEF Lines
<1> HIDE DEF kept
<1>7. kept[0] = base
  <2>1. 0 \in 0..n
    BY <1>1
  <2> QED  BY <1>5, <2>1
<1>8. \A i \in 0..n : kept[i] \in T
  <2> DEFINE S == {i \in 0..n : kept[i] \in T}
  <2>1. 0 \in S
    <3>1. 0 \in 0..n
      BY <1>1
    <3>2. kept[0] \in T
      <4> HIDE DEF T, base
      <4> QED  BY <1>1, <1>7
    <3> QED  BY <3>1, <3>2
  <2>2. ASSUME NEW k \in 0..(n - 1), k \in S PROVE k + 1 \in S
    <3>1. k + 1 \in 1..n /\ k + 1 \in 0..n /\ (k + 1) - 1 = k /\ k + 1 # 0
      BY <1>1
    <3>2. kept[k + 1] = IF Content(text[k + 1]) = Blank THEN kept[k]
                        ELSE Append(kept[k], text[k + 1])
      BY <1>5, <3>1
    <3>3. kept[k] \in T
      BY <2>2
    <3>4. kept[k + 1] \in T
      <4> HIDE DEF n, T
      <4> QED  BY <1>2, <3>1, <3>2, <3>3
    <3> QED  BY <3>1, <3>4
  <2> HIDE DEF S, n
  <2>3. \A i \in 0..n : i \in S
    BY <1>1, <2>1, <2>2, Upward
  <2> QED  BY <2>3 DEF S
<1> QED  BY <1>1, <1>6, <1>8

-----------------------------------------------------------------------------
(* The parser goes forward *)

\* A literal block ends at the first line that is not deeper.
LEMMA EndOfType ==
    ASSUME NEW lines \in Seq(WorkflowLine), NEW i \in 1..Len(lines)
    PROVE  /\ EndOf(lines, i) \in (i + 1)..(Len(lines) + 1)
           /\ ~Deeper(lines, i, EndOf(lines, i))
           /\ \A k \in (i + 1)..(EndOf(lines, i) - 1) : Deeper(lines, i, k)
<1> DEFINE n == Len(lines)
           B == {j \in (i + 1)..(n + 1) : ~Deeper(lines, i, j)}
<1>1. n \in Nat /\ i \in Nat
  OBVIOUS
<1>2. n + 1 \in B
  <2>1. n + 1 \in (i + 1)..(n + 1) /\ ~(n + 1 <= n)
    BY <1>1
  <2> QED  BY <2>1 DEF Deeper
<1>3. PICK j \in B : \A m \in B : j <= m
  <2>1. B \subseteq Nat
    BY <1>1
  <2> HIDE DEF B
  <2> QED  BY <1>2, <2>1, HasLeast
<1>4. ASSUME NEW k \in (i + 1)..(j - 1) PROVE Deeper(lines, i, k)
  <2>1. k \in (i + 1)..(n + 1) /\ ~(j <= k)
    BY <1>1
  <2> HIDE DEF n
  <2> QED  BY <1>3, <2>1
<1>5. j \in (i + 1)..(n + 1) /\ ~Deeper(lines, i, j)
  OBVIOUS
<1> HIDE DEF B
<1> QED  BY <1>4, <1>5 DEF EndOf

\* A sequence of something.
IsSequence(s) == \E S : s \in Seq(S)

\* What a block yields: it ends further on, and has an entry or an item.
Sound(lines, i, result) ==
    result.ok =>
        /\ result.next \in (i + 1)..(Len(lines) + 1)
        /\ \E s : /\ IsSequence(s) /\ s # <<>>
                  /\ result.tree = IF lines[i].dash THEN List(s) ELSE Map(s)

SoundAfter(lines, block, i) == \A j \in (i + 1)..Len(lines) : Sound(lines, j, block[j])

LEMMA ValueForward ==
    ASSUME NEW lines \in Seq(WorkflowLine), NEW block, NEW i \in 1..Len(lines),
           SoundAfter(lines, block, i), ValueAt(lines, block, i).ok
    PROVE  ValueAt(lines, block, i).next \in (i + 1)..(Len(lines) + 1)
<1> DEFINE value == ValueAt(lines, block, i)
<1>1. value \in {Stop, TextAt(lines, i), ScalarAt(lines, i), Done(Map(<<>>), i + 1)}
      \/ (Deeper(lines, i, i + 1) /\ value = block[i + 1])
  BY Zenon DEF ValueAt
<1>2. value # Stop
  BY DEF Stop
<1>3. CASE value = TextAt(lines, i)
  <2>1. value.next = EndOf(lines, i)
    BY <1>2, <1>3 DEF TextAt, Done
  <2> QED  BY <2>1, EndOfType
<1>4. CASE value = ScalarAt(lines, i) \/ value = Done(Map(<<>>), i + 1)
  <2>1. value.next = i + 1
    BY <1>2, <1>4 DEF ScalarAt, Done
  <2>2. i + 1 \in (i + 1)..(Len(lines) + 1)
    OBVIOUS
  <2> QED  BY <2>1, <2>2
<1>5. CASE Deeper(lines, i, i + 1) /\ value = block[i + 1]
  <2>1. i + 1 \in (i + 1)..Len(lines)
    BY <1>5 DEF Deeper
  <2>2. Sound(lines, i + 1, value)
    BY <1>5, <2>1 DEF SoundAfter
  <2>3. value.next \in (i + 1 + 1)..(Len(lines) + 1)
    BY <2>2 DEF Sound
  <2>4. ASSUME NEW k \in (i + 1 + 1)..(Len(lines) + 1) PROVE k \in (i + 1)..(Len(lines) + 1)
    OBVIOUS
  <2> QED  BY <2>3, <2>4
<1> QED  BY <1>1, <1>2, <1>3, <1>4, <1>5

LEMMA EmptyIsSequence == IsSequence(<<>>)
<1>1. <<>> \in Seq({})
  OBVIOUS
<1> QED  BY <1>1 DEF IsSequence

\* A list item has the entries below its first line besides.
LEMMA BelowForward ==
    ASSUME NEW lines \in Seq(WorkflowLine), NEW block, NEW i \in 1..Len(lines),
           SoundAfter(lines, block, i),
           ValueAt(lines, block, i).ok, BelowAt(lines, block, i).ok
    PROVE  /\ BelowAt(lines, block, i).next \in
                  ValueAt(lines, block, i).next..(Len(lines) + 1)
           /\ \E s : IsSequence(s) /\ BelowAt(lines, block, i).tree = Map(s)
<1> DEFINE next == ValueAt(lines, block, i).next
           below == BelowAt(lines, block, i)
<1>1. next \in (i + 1)..(Len(lines) + 1)
  BY ValueForward
<1>2. CASE lines[i].dash /\ Deeper(lines, i, next) /\ ~lines[next].dash
  <2>1. next \in (i + 1)..Len(lines)
    BY <1>1, <1>2 DEF Deeper
  <2>2. below = block[next]
    BY <1>2 DEF BelowAt
  <2>3. Sound(lines, next, below)
    BY <2>1, <2>2 DEF SoundAfter
  <2>4. /\ below.next \in (next + 1)..(Len(lines) + 1)
        /\ \E s : IsSequence(s) /\ below.tree = Map(s)
    BY <1>2, <2>3 DEF Sound
  <2> HIDE DEF next, below
  <2>5. below.next \in next..(Len(lines) + 1)
    BY <1>1, <2>4
  <2> QED  BY <2>4, <2>5 DEF next, below
<1>3. CASE ~(lines[i].dash /\ Deeper(lines, i, next) /\ ~lines[next].dash)
  <2>1. below = Done(Map(<<>>), next)
    BY <1>3 DEF BelowAt
  <2>2. below.next = next /\ below.tree = Map(<<>>)
    BY <2>1 DEF Done
  <2> HIDE DEF next, below
  <2>3. below.next \in next..(Len(lines) + 1)
    BY <1>1, <2>2
  <2> QED  BY <2>2, <2>3, EmptyIsSequence DEF next, below
<1> QED  BY <1>2, <1>3

\* The rest of a block is of the same kind.
LEMMA RestForward ==
    ASSUME NEW lines \in Seq(WorkflowLine), NEW block, NEW i \in 1..Len(lines),
           SoundAfter(lines, block, i), ValueAt(lines, block, i).ok,
           BelowAt(lines, block, i).ok, RestAt(lines, block, i).ok
    PROVE  /\ RestAt(lines, block, i).next \in
                  BelowAt(lines, block, i).next..(Len(lines) + 1)
           /\ \E s : /\ IsSequence(s)
                     /\ RestAt(lines, block, i).tree =
                            IF lines[i].dash THEN List(s) ELSE Map(s)
<1> DEFINE next == BelowAt(lines, block, i).next
           rest == RestAt(lines, block, i)
<1>1. next \in (i + 1)..(Len(lines) + 1)
  <2>1. ValueAt(lines, block, i).next \in (i + 1)..(Len(lines) + 1)
    BY ValueForward
  <2>2. next \in ValueAt(lines, block, i).next..(Len(lines) + 1)
    BY BelowForward
  <2> HIDE DEF next
  <2> QED  BY <2>1, <2>2
<1>2. CASE GoesOn(lines, i, next)
  <2>1. next \in (i + 1)..Len(lines) /\ lines[next].dash = lines[i].dash
    BY <1>1, <1>2 DEF GoesOn
  <2>2. rest = block[next]
    BY <1>2 DEF RestAt
  <2>3. Sound(lines, next, rest)
    BY <2>1, <2>2 DEF SoundAfter
  <2>4. /\ rest.next \in (next + 1)..(Len(lines) + 1)
        /\ \E s : IsSequence(s) /\ rest.tree = IF lines[i].dash THEN List(s) ELSE Map(s)
    BY <2>1, <2>3 DEF Sound
  <2> HIDE DEF next, rest
  <2>5. rest.next \in next..(Len(lines) + 1)
    BY <1>1, <2>4
  <2> QED  BY <2>4, <2>5 DEF next, rest
<1>3. CASE ~GoesOn(lines, i, next)
  <2>1. rest = Done(IF lines[i].dash THEN List(<<>>) ELSE Map(<<>>), next)
    BY <1>3 DEF RestAt
  <2>2. rest.next = next /\ rest.tree = IF lines[i].dash THEN List(<<>>) ELSE Map(<<>>)
    BY <2>1 DEF Done
  <2> HIDE DEF next, rest
  <2>3. rest.next \in next..(Len(lines) + 1)
    BY <1>1, <2>2
  <2> QED  BY <2>2, <2>3, EmptyIsSequence DEF next, rest
<1> QED  BY <1>2, <1>3

\* Putting an element in front of a sequence.
LEMMA FrontIsSequence ==
    ASSUME NEW x, NEW s, IsSequence(s)
    PROVE  IsSequence(<<x>> \o s) /\ <<x>> \o s # <<>>
<1>1. PICK S : s \in Seq(S)
  BY DEF IsSequence
<1>2. <<x>> \in Seq(S \cup {x}) /\ s \in Seq(S \cup {x})
  BY <1>1
<1>3. <<x>> \o s \in Seq(S \cup {x}) /\ Len(<<x>> \o s) = 1 + Len(s)
  BY <1>2
<1>4. <<x>> \o s # <<>>
  <2>1. Len(s) \in Nat
    BY <1>1
  <2> QED  BY <1>3, <2>1
<1> QED  BY <1>3, <1>4 DEF IsSequence

LEMMA FrontIsOne ==
    ASSUME NEW x, NEW y, NEW s, NEW t, IsSequence(s), IsSequence(t),
           <<x>> \o s = <<y>> \o t
    PROVE  x = y /\ s = t
<1>1. PICK S : s \in Seq(S)
  BY DEF IsSequence
<1>2. PICK T : t \in Seq(T)
  BY DEF IsSequence
<1> DEFINE U == S \cup T \cup {x, y}
<1>3. s \in Seq(U) /\ t \in Seq(U) /\ x \in U /\ y \in U
  BY <1>1, <1>2
<1> HIDE DEF U
<1>4. /\ (<<x>> \o s)[1] = x /\ (<<y>> \o t)[1] = y
      /\ Len(<<x>> \o s) = Len(s) + 1 /\ Len(<<y>> \o t) = Len(t) + 1
  BY <1>3
<1>5. x = y /\ Len(s) = Len(t)
  <2>1. Len(s) \in Nat /\ Len(t) \in Nat
    BY <1>3
  <2> QED  BY <1>4, <2>1
<1>6. ASSUME NEW k \in 1..Len(s) PROVE s[k] = t[k]
  <2>1. (<<x>> \o s)[k + 1] = s[k] /\ (<<y>> \o t)[k + 1] = t[k]
    BY <1>3, <1>5
  <2> QED  BY <2>1
<1>7. s = t
  BY <1>3, <1>5, <1>6
<1> QED  BY <1>5, <1>7

\* What BlockAt makes of sound blocks further on.
LEMMA BlockParts ==
    ASSUME NEW lines \in Seq(WorkflowLine), NEW block, NEW i \in 1..Len(lines),
           BlockAt(lines, block, i).ok
    PROVE  /\ ValueAt(lines, block, i).ok /\ BelowAt(lines, block, i).ok
           /\ RestAt(lines, block, i).ok
           /\ BlockAt(lines, block, i).next = RestAt(lines, block, i).next
           /\ BlockAt(lines, block, i).tree =
                 IF lines[i].dash
                   THEN List(<<Map(<< <<lines[i].key, ValueAt(lines, block, i).tree>> >>
                                   \o BelowAt(lines, block, i).tree.map)>>
                             \o RestAt(lines, block, i).tree.list)
                   ELSE Map(<< <<lines[i].key, ValueAt(lines, block, i).tree>> >>
                            \o RestAt(lines, block, i).tree.map)
<1>1. BlockAt(lines, block, i) # Stop
  BY DEF Stop
<1> QED  BY <1>1 DEF BlockAt, Done

LEMMA BlockSound ==
    ASSUME NEW lines \in Seq(WorkflowLine), NEW block, NEW i \in 1..Len(lines),
           SoundAfter(lines, block, i)
    PROVE  Sound(lines, i, BlockAt(lines, block, i))
<1> SUFFICES ASSUME BlockAt(lines, block, i).ok
             PROVE  /\ BlockAt(lines, block, i).next \in (i + 1)..(Len(lines) + 1)
                    /\ \E s : /\ IsSequence(s) /\ s # <<>>
                              /\ BlockAt(lines, block, i).tree =
                                     IF lines[i].dash THEN List(s) ELSE Map(s)
  BY DEF Sound
<1> DEFINE value == ValueAt(lines, block, i)
           below == BelowAt(lines, block, i)
           rest == RestAt(lines, block, i)
<1>1. /\ value.ok /\ below.ok /\ rest.ok
      /\ BlockAt(lines, block, i).next = rest.next
  BY BlockParts
<1>2. rest.next \in (i + 1)..(Len(lines) + 1)
  <2>1. value.next \in (i + 1)..(Len(lines) + 1)
    BY <1>1, ValueForward
  <2>2. below.next \in value.next..(Len(lines) + 1)
    BY <1>1, BelowForward
  <2>3. rest.next \in below.next..(Len(lines) + 1)
    BY <1>1, RestForward
  <2> HIDE DEF value, below, rest
  <2> QED  BY <2>1, <2>2, <2>3
<1>3. PICK r : /\ IsSequence(r)
               /\ rest.tree = IF lines[i].dash THEN List(r) ELSE Map(r)
  BY <1>1, RestForward
<1>4. CASE lines[i].dash
  <2> DEFINE item == Map(<< <<lines[i].key, value.tree>> >> \o below.tree.map)
  <2>1. rest.tree.list = r
    BY <1>3, <1>4 DEF List
  <2>2. BlockAt(lines, block, i).tree = List(<<item>> \o r)
    BY <1>4, <2>1, BlockParts
  <2> HIDE DEF item
  <2>3. IsSequence(<<item>> \o r) /\ <<item>> \o r # <<>>
    BY <1>3, FrontIsSequence
  <2> QED  BY <1>1, <1>2, <1>4, <2>2, <2>3
<1>5. CASE ~lines[i].dash
  <2> DEFINE entry == <<lines[i].key, value.tree>>
  <2>1. rest.tree.map = r
    BY <1>3, <1>5 DEF Map
  <2>2. BlockAt(lines, block, i).tree = Map(<<entry>> \o r)
    BY <1>5, <2>1, BlockParts
  <2> HIDE DEF entry
  <2>3. IsSequence(<<entry>> \o r) /\ <<entry>> \o r # <<>>
    BY <1>3, FrontIsSequence
  <2> QED  BY <1>1, <1>2, <1>5, <2>2, <2>3
<1> QED  BY <1>4, <1>5

\* A block depends on those further on only.
LEMMA BlockLocal ==
    ASSUME NEW lines \in Seq(WorkflowLine), NEW block, NEW other, NEW i \in 1..Len(lines),
           SoundAfter(lines, block, i), \A j \in (i + 1)..Len(lines) : block[j] = other[j]
    PROVE  BlockAt(lines, block, i) = BlockAt(lines, other, i)
<1>1. ValueAt(lines, block, i) = ValueAt(lines, other, i)
  <2>1. CASE Deeper(lines, i, i + 1)
    <3>1. i + 1 \in (i + 1)..Len(lines)
      BY <2>1 DEF Deeper
    <3>2. block[i + 1] = other[i + 1]
      BY <3>1
    <3> QED  BY <3>2 DEF ValueAt
  <2>2. CASE ~Deeper(lines, i, i + 1)
    BY <2>2 DEF ValueAt
  <2> QED  BY <2>1, <2>2
<1>2. CASE ~ValueAt(lines, block, i).ok
  BY <1>1, <1>2 DEF BlockAt
<1>3. CASE ValueAt(lines, block, i).ok
  <2> DEFINE next == ValueAt(lines, block, i).next
             last == BelowAt(lines, block, i).next
  <2>1. next \in (i + 1)..(Len(lines) + 1)
    BY <1>3, ValueForward
  <2>2. BelowAt(lines, block, i) = BelowAt(lines, other, i)
    <3>1. CASE Deeper(lines, i, next)
      <4>1. next \in (i + 1)..Len(lines)
        BY <2>1, <3>1 DEF Deeper
      <4>2. block[next] = other[next]
        BY <4>1
      <4> QED  BY <1>1, <4>2 DEF BelowAt
    <3>2. CASE ~Deeper(lines, i, next)
      BY <1>1, <3>2 DEF BelowAt
    <3> QED  BY <3>1, <3>2
  <2>3. CASE ~BelowAt(lines, block, i).ok
    BY <1>1, <2>2, <2>3 DEF BlockAt
  <2>4. CASE BelowAt(lines, block, i).ok
    <3>1. last \in (i + 1)..(Len(lines) + 1)
      <4>1. last \in next..(Len(lines) + 1)
        BY <1>3, <2>4, BelowForward
      <4> HIDE DEF next, last
      <4> QED  BY <2>1, <4>1
    <3>2. RestAt(lines, block, i) = RestAt(lines, other, i)
      <4>1. CASE GoesOn(lines, i, last)
        <5>1. last \in (i + 1)..Len(lines)
          BY <3>1, <4>1 DEF GoesOn
        <5>2. block[last] = other[last]
          BY <5>1
        <5> QED  BY <2>2, <5>2 DEF RestAt
      <4>2. CASE ~GoesOn(lines, i, last)
        BY <2>2, <4>2 DEF RestAt
      <4> QED  BY <4>1, <4>2
    <3> QED  BY <1>1, <2>2, <3>2 DEF BlockAt
  <2> QED  BY <2>3, <2>4
<1> QED  BY <1>2, <1>3

\* The recursive function of Parse.
IsBlock(lines, block) == block = [i \in DOMAIN lines |-> BlockAt(lines, block, i)]

\* Of such a function every value is sound.
LEMMA BlocksSound ==
    ASSUME NEW lines \in Seq(WorkflowLine), NEW block,
           NEW m \in 0..Len(lines),
           \A i \in (m + 1)..Len(lines) : block[i] = BlockAt(lines, block, i)
    PROVE  \A i \in (m + 1)..Len(lines) : Sound(lines, i, block[i])
<1> DEFINE n == Len(lines)
           S == {i \in 1..n : i > m => Sound(lines, i, block[i])}
<1>1. n \in Nat /\ m \in Nat
  OBVIOUS
<1>2. ASSUME NEW k \in 1..n, \A j \in (k + 1)..n : j \in S PROVE k \in S
  <2>1. CASE k > m
    <3>1. SoundAfter(lines, block, k)
      <4> SUFFICES ASSUME NEW j \in (k + 1)..n PROVE Sound(lines, j, block[j])
        BY DEF SoundAfter
      <4>1. j \in S /\ j > m
        BY <1>1, <1>2, <2>1
      <4> HIDE DEF n
      <4> QED  BY <4>1
    <3>2. block[k] = BlockAt(lines, block, k)
      <4>1. k \in (m + 1)..n
        BY <1>1, <2>1
      <4> QED  BY <4>1
    <3> QED  BY <3>1, <3>2, BlockSound
  <2>2. CASE ~(k > m)
    BY <2>2
  <2> QED  BY <2>1, <2>2
<1>3. \A k \in 1..n : k \in S
  <2> HIDE DEF S, n
  <2> QED  BY <1>1, <1>2, Downward
<1>4. \A i \in (m + 1)..n : i \in 1..n /\ i > m
  BY <1>1
<1> HIDE DEF n
<1>5. \A i \in (m + 1)..n : Sound(lines, i, block[i])
  BY <1>3, <1>4
<1> QED  BY <1>5 DEF n

\* There is one: a function that is right from some line on is made right at the
\* line before.
LEMMA BlockExists ==
    ASSUME NEW lines \in Seq(WorkflowLine)
    PROVE  \E block : IsBlock(lines, block)
<1> DEFINE n == Len(lines)
           Right(block, m) == \A i \in (m + 1)..n : block[i] = BlockAt(lines, block, i)
           S == {d \in 0..n : \E block : /\ block = [i \in 1..n |-> block[i]]
                                         /\ Right(block, n - d)}
<1>1. n \in Nat
  OBVIOUS
<1>2. 0 \in S
  <2> DEFINE block == [i \in 1..n |-> Stop]
  <2>1. block = [i \in 1..n |-> block[i]]
    OBVIOUS
  <2>2. Right(block, n - 0)
    BY <1>1
  <2> HIDE DEF block, Right
  <2> QED  BY <1>1, <2>1, <2>2
<1>3. ASSUME NEW d \in 0..(n - 1), d \in S PROVE d + 1 \in S
  <2>1. PICK block : block = [i \in 1..n |-> block[i]] /\ Right(block, n - d)
    BY <1>3
  <2> DEFINE k == n - d
             other == [block EXCEPT ![k] = BlockAt(lines, block, k)]
  <2>2. k \in 1..n /\ n - (d + 1) = k - 1 /\ d + 1 \in 0..n
    BY <1>1
  <2>3. other = [i \in 1..n |-> other[i]]
    BY <2>1
  <2>4. /\ other[k] = BlockAt(lines, block, k)
        /\ \A j \in (k + 1)..n : block[j] = other[j]
    <3>1. \A j \in (k + 1)..n : j \in 1..n /\ j # k
      <4> HIDE DEF n, k, other
      <4> QED  BY <1>1, <2>2
    <3> HIDE DEF n, k
    <3> QED  BY <2>1, <2>2, <3>1
  <2> HIDE DEF other
  <2>5. \A i \in (k + 1)..n : Sound(lines, i, block[i])
    <3>1. k \in 0..n
      BY <2>2
    <3>2. \A i \in (k + 1)..n : block[i] = BlockAt(lines, block, i)
      BY <2>1
    <3> HIDE DEF k
    <3> QED  BY <3>1, <3>2, BlocksSound
  <2>6. ASSUME NEW i \in (k - 1 + 1)..n PROVE other[i] = BlockAt(lines, other, i)
    <3>1. i \in 1..n /\ (i = k \/ i \in (k + 1)..n)
      <4> HIDE DEF n, k
      <4> QED  BY <1>1, <2>2
    <3>2. \A j \in (i + 1)..n : j \in (k + 1)..n
      <4> HIDE DEF n, k
      <4> QED  BY <1>1, <2>2, <3>1
    <3>3. SoundAfter(lines, block, i)
      BY <2>5, <3>2 DEF SoundAfter
    <3>4. \A j \in (i + 1)..n : block[j] = other[j]
      BY <2>4, <3>2
    <3>5. BlockAt(lines, block, i) = BlockAt(lines, other, i)
      BY <3>1, <3>3, <3>4, BlockLocal
    <3>6. other[i] = BlockAt(lines, block, i)
      BY <2>1, <2>4, <3>1
    <3> QED  BY <3>5, <3>6
  <2>7. Right(other, n - (d + 1))
    BY <2>2, <2>6
  <2> HIDE DEF Right, n, k
  <2> QED  BY <2>2, <2>3, <2>7
<1>4. n \in S
  <2> HIDE DEF S
  <2>1. n \in 0..n
    BY <1>1
  <2> HIDE DEF n
  <2> QED  BY <1>1, <1>2, <1>3, <2>1, Upward
<1>5. PICK block : block = [i \in 1..n |-> block[i]] /\ Right(block, n - n)
  BY <1>4
<1>6. \A i \in 1..n : block[i] = BlockAt(lines, block, i)
  <2>1. n - n + 1 = 1
    BY <1>1
  <2> QED  BY <1>5, <2>1
<1>7. block = [i \in 1..n |-> BlockAt(lines, block, i)]
  <2> HIDE DEF n, Right
  <2> QED  BY <1>5, <1>6
<1>8. DOMAIN lines = 1..n
  OBVIOUS
<1> QED  BY <1>7, <1>8 DEF IsBlock

\* What Parse yields, and that it has read something.
LEMMA ParseIsBlock ==
    ASSUME NEW lines \in Seq(WorkflowLine)
    PROVE  \E block : /\ Parse(lines) = block[1]
                     /\ \A i \in 1..Len(lines) : /\ block[i] = BlockAt(lines, block, i)
                                                 /\ Sound(lines, i, block[i])
<1> DEFINE block == CHOOSE b : b = [i \in DOMAIN lines |-> BlockAt(lines, b, i)]
<1>1. Parse(lines) = block[1]
  BY DEF Parse
<1>2. block = [i \in DOMAIN lines |-> BlockAt(lines, block, i)]
  BY BlockExists DEF IsBlock
<1> HIDE DEF block
<1>3. \A i \in 1..Len(lines) : block[i] = BlockAt(lines, block, i)
  BY <1>2
<1>4. \A i \in 1..Len(lines) : Sound(lines, i, block[i])
  <2>1. 0 \in 0..Len(lines) /\ 0 + 1 = 1
    OBVIOUS
  <2> QED  BY <1>3, <2>1, BlocksSound
<1> QED  BY <1>1, <1>3, <1>4

-----------------------------------------------------------------------------
(* Lines that are alike *)

\* Line k is directly below line j.
IsParent(lines, j, k) ==
    /\ lines[j].indent < lines[k].indent
    /\ \A l \in (j + 1)..(k - 1) : lines[l].indent >= lines[k].indent

SameLine(a, b, k) ==
    a[k].dash = b[k].dash /\ a[k].key = b[k].key /\ SameValue(a[k].value, b[k].value)

\* The lines from i up to e, and who is below whom among them.
Alike(a, b, i, e) ==
    \A k \in i..(e - 1) :
        /\ SameLine(a, b, k)
        /\ \A j \in i..(k - 1) :
              /\ IsParent(a, j, k) <=> IsParent(b, j, k)
              /\ IsParent(b, j, k) /\ b[j].value \in Literal => Content(a[k]) = Content(b[k])

\* None of the lines from i up to e is indented less than line i.
NotOut(lines, i, e) == \A k \in i..(e - 1) : lines[k].indent >= lines[i].indent

\* The lines after i and up to e are below line i.
AllBelow(lines, i, e) == \A k \in (i + 1)..(e - 1) : lines[k].indent > lines[i].indent

LEMMA IndentType ==
    ASSUME NEW lines \in Seq(WorkflowLine)
    PROVE  \A k \in 1..Len(lines) : lines[k].indent \in Nat
<1>1. SUFFICES ASSUME NEW k \in 1..Len(lines) PROVE lines[k].indent \in Nat
  OBVIOUS
<1>2. lines[k] \in WorkflowLine
  OBVIOUS
<1> QED  BY <1>2 DEF WorkflowLine

\* If some line from s on is indented less than line k, the last of them is its parent.
LEMMA HasParent ==
    ASSUME NEW lines \in Seq(WorkflowLine), NEW k \in 1..Len(lines), NEW s \in 1..k,
           NEW m \in s..(k - 1), lines[m].indent < lines[k].indent
    PROVE  \E j \in s..(k - 1) : IsParent(lines, j, k)
<1> DEFINE B == {d \in 1..(k - s) : lines[k - d].indent < lines[k].indent}
<1>1. k - m \in B
  <2>1. k \in Int /\ s \in Int /\ m \in Int /\ s <= m /\ m <= k - 1
    OBVIOUS
  <2>2. k - m \in 1..(k - s) /\ k - (k - m) = m
    BY ONLY <2>1
  <2> QED  BY <2>2
<1>2. PICK d \in B : \A x \in B : d <= x
  <2>1. B \subseteq Nat
    OBVIOUS
  <2> HIDE DEF B
  <2> QED  BY <1>1, <2>1, HasLeast
<1>3. d \in 1..(k - s) /\ lines[k - d].indent < lines[k].indent
  OBVIOUS
<1>4. k - d \in s..(k - 1)
  BY <1>3
<1>5. ASSUME NEW l \in (k - d + 1)..(k - 1) PROVE lines[l].indent >= lines[k].indent
  <2>1. k - l \in 1..(k - s) /\ ~(d <= k - l) /\ k - (k - l) = l /\ l \in 1..Len(lines)
    <3>1. /\ k \in Int /\ s \in Int /\ l \in Int /\ d \in Int /\ Len(lines) \in Int
          /\ 1 <= s /\ k <= Len(lines) /\ 1 <= d /\ d <= k - s
          /\ k - d + 1 <= l /\ l <= k - 1
      BY <1>3
    <3> QED  BY ONLY <3>1
  <2>2. ~(lines[l].indent < lines[k].indent)
    BY <1>2, <2>1
  <2>3. lines[l].indent \in Nat /\ lines[k].indent \in Nat
    BY <2>1, IndentType
  <2> QED  BY <2>2, <2>3
<1> QED  BY <1>3, <1>4, <1>5 DEF IsParent

\* Line i is the parent of a line below it if there is no other from there on.
LEMMA OutermostParent ==
    ASSUME NEW lines \in Seq(WorkflowLine), NEW i \in 1..Len(lines),
           NEW k \in (i + 1)..Len(lines), lines[k].indent > lines[i].indent
    PROVE  IsParent(lines, i, k) <=> ~\E j \in (i + 1)..(k - 1) : IsParent(lines, j, k)
<1>1. \A l \in i..k : lines[l].indent \in Nat
  <2> SUFFICES ASSUME NEW l \in i..k PROVE lines[l].indent \in Nat
    OBVIOUS
  <2>1. l \in 1..Len(lines)
    OBVIOUS
  <2> QED  BY <2>1, IndentType
<1>2. ASSUME IsParent(lines, i, k), NEW j \in (i + 1)..(k - 1), IsParent(lines, j, k)
      PROVE  FALSE
  <2>1. lines[j].indent >= lines[k].indent /\ lines[j].indent < lines[k].indent
    BY <1>2 DEF IsParent
  <2>2. j \in i..k /\ k \in i..k
    OBVIOUS
  <2> QED  BY <1>1, <2>1, <2>2
<1>3. ASSUME ~IsParent(lines, i, k) PROVE \E j \in (i + 1)..(k - 1) : IsParent(lines, j, k)
  <2>1. lines[i].indent < lines[k].indent
    <3>1. i \in i..k /\ k \in i..k
      OBVIOUS
    <3> QED  BY <1>1, <3>1
  <2>2. PICK m \in (i + 1)..(k - 1) : ~(lines[m].indent >= lines[k].indent)
    BY <1>3, <2>1 DEF IsParent
  <2>3. lines[m].indent < lines[k].indent
    <3>1. m \in i..k /\ k \in i..k
      OBVIOUS
    <3> QED  BY <1>1, <2>2, <3>1
  <2>4. i + 1 \in 1..k /\ k \in 1..Len(lines)
    OBVIOUS
  <2> QED  BY <2>3, <2>4, HasParent
<1> QED  BY <1>2, <1>3

\* A line in front of lines that are below it.
LEMMA FrontAlike ==
    ASSUME NEW a \in Seq(WorkflowLine), NEW b \in Seq(WorkflowLine),
           NEW i \in 1..Len(a), i <= Len(b),
           NEW e \in (i + 1)..(Len(a) + 1), e <= Len(b) + 1,
           SameLine(a, b, i), Alike(a, b, i + 1, e), AllBelow(a, i, e), AllBelow(b, i, e),
           b[i].value \in Literal => \A k \in (i + 1)..(e - 1) : Content(a[k]) = Content(b[k])
    PROVE  Alike(a, b, i, e)
<1> SUFFICES ASSUME NEW k \in i..(e - 1)
             PROVE  /\ SameLine(a, b, k)
                    /\ \A j \in i..(k - 1) :
                          /\ IsParent(a, j, k) <=> IsParent(b, j, k)
                          /\ IsParent(b, j, k) /\ b[j].value \in Literal
                                => Content(a[k]) = Content(b[k])
  BY DEF Alike
<1>1. CASE k = i
  <2>1. \A j \in i..(k - 1) : FALSE
    BY <1>1
  <2> QED  BY <1>1, <2>1
<1>2. CASE k # i
  <2>1. k \in (i + 1)..(e - 1) /\ k \in (i + 1)..Len(a) /\ k \in (i + 1)..Len(b)
    BY <1>2
  <2>2. SameLine(a, b, k)
    BY <2>1 DEF Alike
  <2>3. ASSUME NEW j \in (i + 1)..(k - 1)
        PROVE  /\ IsParent(a, j, k) <=> IsParent(b, j, k)
               /\ IsParent(b, j, k) /\ b[j].value \in Literal => Content(a[k]) = Content(b[k])
    BY <2>1 DEF Alike
  <2>4. IsParent(a, i, k) <=> IsParent(b, i, k)
    <3>1. a[k].indent > a[i].indent /\ b[k].indent > b[i].indent
      BY <2>1 DEF AllBelow
    <3>2. i \in 1..Len(b)
      OBVIOUS
    <3>3. IsParent(a, i, k) <=> ~\E j \in (i + 1)..(k - 1) : IsParent(a, j, k)
      BY <2>1, <3>1, OutermostParent
    <3>4. IsParent(b, i, k) <=> ~\E j \in (i + 1)..(k - 1) : IsParent(b, j, k)
      BY <2>1, <3>1, <3>2, OutermostParent
    <3> QED  BY <2>3, <3>3, <3>4
  <2>5. b[i].value \in Literal => Content(a[k]) = Content(b[k])
    BY <2>1
  <2>6. \A j \in i..(k - 1) : j = i \/ j \in (i + 1)..(k - 1)
    OBVIOUS
  <2> QED  BY <2>2, <2>3, <2>4, <2>5, <2>6
<1> QED  BY <1>1, <1>2

\* No line of a part is below a line of the part before, if both start at the same
\* indentation and none is indented less.
LEMMA PartsApart ==
    ASSUME NEW lines \in Seq(WorkflowLine), NEW i \in 1..Len(lines),
           NEW m \in (i + 1)..Len(lines), NEW e \in m..(Len(lines) + 1),
           NotOut(lines, i, m), NotOut(lines, m, e), lines[m].indent = lines[i].indent,
           NEW j \in i..(m - 1), NEW k \in m..(e - 1)
    PROVE  ~IsParent(lines, j, k)
<1> SUFFICES ASSUME IsParent(lines, j, k) PROVE FALSE
  OBVIOUS
<1>1. j \in 1..Len(lines) /\ k \in 1..Len(lines) /\ m \in 1..Len(lines)
  OBVIOUS
<1>2. /\ lines[i].indent \in Nat /\ lines[j].indent \in Nat
      /\ lines[k].indent \in Nat /\ lines[m].indent \in Nat
  BY <1>1, IndentType
<1>3. lines[j].indent >= lines[i].indent /\ lines[j].indent < lines[k].indent
  BY DEF NotOut, IsParent
<1>4. k # m
  BY <1>2, <1>3
<1>5. m \in (j + 1)..(k - 1)
  BY <1>4
<1>6. lines[m].indent >= lines[k].indent
  BY <1>5 DEF IsParent
<1> QED  BY <1>2, <1>3, <1>6

LEMMA PartsAlike ==
    ASSUME NEW a \in Seq(WorkflowLine), NEW b \in Seq(WorkflowLine),
           NEW i \in 1..Len(a), i \in 1..Len(b),
           NEW m \in (i + 1)..Len(a), m <= Len(b),
           NEW e \in m..(Len(a) + 1), e <= Len(b) + 1,
           Alike(a, b, i, m), Alike(a, b, m, e),
           NotOut(a, i, m), NotOut(a, m, e), a[m].indent = a[i].indent,
           NotOut(b, i, m), NotOut(b, m, e), b[m].indent = b[i].indent
    PROVE  Alike(a, b, i, e) /\ NotOut(a, i, e) /\ NotOut(b, i, e)
<1>1. NotOut(a, i, e) /\ NotOut(b, i, e)
  <2>1. \A k \in i..(e - 1) : k \in i..(m - 1) \/ k \in m..(e - 1)
    OBVIOUS
  <2> QED  BY <2>1 DEF NotOut
<1>2. m \in (i + 1)..Len(b) /\ e \in m..(Len(b) + 1)
  OBVIOUS
<1>3. ASSUME NEW k \in i..(e - 1), NEW j \in i..(k - 1)
      PROVE  /\ IsParent(a, j, k) <=> IsParent(b, j, k)
             /\ IsParent(b, j, k) /\ b[j].value \in Literal => Content(a[k]) = Content(b[k])
  <2>1. CASE k < m
    <3>1. k \in i..(m - 1)
      BY <2>1
    <3> QED  BY <3>1 DEF Alike
  <2>2. CASE j >= m
    <3>1. k \in m..(e - 1) /\ j \in m..(k - 1)
      BY <2>2
    <3> QED  BY <3>1 DEF Alike
  <2>3. CASE j < m /\ k >= m
    <3>1. j \in i..(m - 1) /\ k \in m..(e - 1)
      BY <2>3
    <3>2. ~IsParent(a, j, k)
      BY <3>1, PartsApart
    <3>3. ~IsParent(b, j, k)
      BY <1>2, <3>1, PartsApart
    <3> QED  BY <3>2, <3>3
  <2> QED  BY <2>1, <2>2, <2>3
<1>4. ASSUME NEW k \in i..(e - 1) PROVE SameLine(a, b, k)
  <2>1. k \in i..(m - 1) \/ k \in m..(e - 1)
    OBVIOUS
  <2> QED  BY <2>1 DEF Alike
<1> QED  BY <1>1, <1>3, <1>4 DEF Alike

-----------------------------------------------------------------------------
(* The same tree comes from lines that are alike *)

\* Trees of different kinds differ.
LEMMA TreeKinds ==
    ASSUME NEW x, NEW y
    PROVE  /\ Map(x) # List(y) /\ Map(x) # Text(y) /\ Map(x) # Scalar(y)
           /\ List(x) # Text(y) /\ List(x) # Scalar(y) /\ Text(x) # Scalar(y)
           /\ Map(x) = Map(y) => x = y
           /\ List(x) = List(y) => x = y
           /\ Text(x) = Text(y) => x = y
           /\ Scalar(x) = Scalar(y) => x = y
<1>1. /\ DOMAIN Map(x) = {"map"} /\ DOMAIN List(x) = {"list"}
      /\ DOMAIN Text(x) = {"text"} /\ DOMAIN List(y) = {"list"}
      /\ DOMAIN Text(y) = {"text"} /\ DOMAIN Scalar(y) = {"scalar"}
  BY DEF Map, List, Text, Scalar
<1>2. /\ {"map"} # {"list"} /\ {"map"} # {"text"} /\ {"map"} # {"scalar"}
      /\ {"list"} # {"text"} /\ {"list"} # {"scalar"} /\ {"text"} # {"scalar"}
  OBVIOUS
<1>3. /\ Map(x).map = x /\ Map(y).map = y /\ List(x).list = x /\ List(y).list = y
      /\ Text(x).text = x /\ Text(y).text = y
      /\ Scalar(x).scalar = x /\ Scalar(y).scalar = y
  BY DEF Map, List, Text, Scalar
<1>4. /\ Map(x) # List(y) /\ Map(x) # Text(y) /\ Map(x) # Scalar(y)
      /\ List(x) # Text(y) /\ List(x) # Scalar(y) /\ Text(x) # Scalar(y)
  BY <1>1, <1>2, Zenon
<1>5. /\ Map(x) = Map(y) => x = y
      /\ List(x) = List(y) => x = y
      /\ Text(x) = Text(y) => x = y
      /\ Scalar(x) = Scalar(y) => x = y
  BY <1>3, Zenon
<1> QED  BY <1>4, <1>5

\* What has been parsed: every block comes from the blocks further on.
Parsing(lines, block) ==
    /\ lines \in Seq(WorkflowLine)
    /\ \A i \in 1..Len(lines) : block[i] = BlockAt(lines, block, i) /\ Sound(lines, i, block[i])

\* The same tree from line i on comes from as many lines that are alike.
Agree(a, b, blockA, blockB, i) ==
    i <= Len(b) /\ blockA[i].ok /\ blockB[i].ok /\ blockA[i].tree = blockB[i].tree =>
        /\ blockA[i].next = blockB[i].next
        /\ Alike(a, b, i, blockA[i].next)
        /\ NotOut(a, i, blockA[i].next) /\ NotOut(b, i, blockA[i].next)

AgreeAfter(a, b, blockA, blockB, i) ==
    \A j \in (i + 1)..Len(a) : Agree(a, b, blockA, blockB, j)

\* Every list item starts with a scalar.
ScalarItems(lines) == \A i \in DOMAIN lines : lines[i].dash => lines[i].value # ""

LEMMA ParsingType ==
    ASSUME NEW lines, NEW block, Parsing(lines, block)
    PROVE  lines \in Seq(WorkflowLine) /\ Len(lines) \in Nat /\ DOMAIN lines = 1..Len(lines)
<1>1. lines \in Seq(WorkflowLine)
  BY DEF Parsing
<1> QED  BY <1>1

LEMMA ParsingSound ==
    ASSUME NEW lines, NEW block, Parsing(lines, block), NEW i \in 1..Len(lines)
    PROVE  SoundAfter(lines, block, i) /\ Len(lines) \in Nat /\ lines \in Seq(WorkflowLine)
<1>1. Len(lines) \in Nat /\ lines \in Seq(WorkflowLine)
  BY DEF Parsing
<1>2. \A j \in (i + 1)..Len(lines) : j \in 1..Len(lines)
  BY <1>1
<1> QED  BY <1>1, <1>2 DEF Parsing, SoundAfter

\* What a block that follows yields is not empty.
LEMMA NestedSound ==
    ASSUME NEW lines, NEW block, Parsing(lines, block), NEW i \in 1..Len(lines), block[i].ok
    PROVE  /\ block[i].next \in (i + 1)..(Len(lines) + 1)
           /\ \E s : /\ s # <<>>
                     /\ block[i].tree = IF lines[i].dash THEN List(s) ELSE Map(s)
  BY DEF Parsing, Sound

\* The four kinds of value the key of line i has.
HasText(lines, block, i) ==
    /\ lines[i].value \in Literal /\ ~lines[i].dash
    /\ ValueAt(lines, block, i) = TextAt(lines, i)
HasScalar(lines, block, i) ==
    /\ lines[i].value # "" /\ lines[i].value \notin Literal
    /\ lines[i].value \in DOMAIN ScalarOf
    /\ ValueAt(lines, block, i) = Done(Scalar(ScalarOf[lines[i].value]), i + 1)
HasNested(lines, block, i) ==
    /\ lines[i].value = "" /\ Deeper(lines, i, i + 1)
    /\ ValueAt(lines, block, i) = block[i + 1]
HasNothing(lines, block, i) ==
    /\ lines[i].value = "" /\ ~Deeper(lines, i, i + 1)
    /\ ValueAt(lines, block, i) = Done(Map(<<>>), i + 1)

LEMMA ValueKinds ==
    ASSUME NEW lines, NEW block, NEW i, ValueAt(lines, block, i).ok
    PROVE  \/ HasText(lines, block, i) \/ HasScalar(lines, block, i)
           \/ HasNested(lines, block, i) \/ HasNothing(lines, block, i)
<1>1. ValueAt(lines, block, i) # Stop
  BY DEF Stop
<1>2. CASE lines[i].value \in Literal
  BY <1>1, <1>2 DEF ValueAt, HasText
<1>3. CASE lines[i].value \notin Literal /\ lines[i].value # ""
  <2>1. ValueAt(lines, block, i) = ScalarAt(lines, i)
    BY <1>1, <1>3 DEF ValueAt
  <2> QED  BY <1>1, <1>3, <2>1 DEF ScalarAt, HasScalar
<1>4. CASE lines[i].value = ""
  <2>1. lines[i].value \notin Literal
    BY <1>4 DEF Literal
  <2> QED  BY <1>1, <1>4, <2>1 DEF ValueAt, HasNested, HasNothing
<1> QED  BY <1>2, <1>3, <1>4

LEMMA DoneFields ==
    ASSUME NEW tree, NEW next
    PROVE  /\ Done(tree, next).ok /\ Done(tree, next).tree = tree
           /\ Done(tree, next).next = next
  BY DEF Done

\* What kind of tree each has.
LEMMA KindTrees ==
    ASSUME NEW lines, NEW block, Parsing(lines, block), NEW i \in 1..Len(lines),
           ValueAt(lines, block, i).ok
    PROVE  /\ HasText(lines, block, i) => \E x : ValueAt(lines, block, i).tree = Text(x)
           /\ HasScalar(lines, block, i) =>
                 /\ ValueAt(lines, block, i).tree = Scalar(ScalarOf[lines[i].value])
                 /\ ValueAt(lines, block, i).next = i + 1
           /\ HasNested(lines, block, i) =>
                 \E x : x # <<>> /\ \/ ValueAt(lines, block, i).tree = Map(x)
                                    \/ ValueAt(lines, block, i).tree = List(x)
           /\ HasNothing(lines, block, i) =>
                 /\ ValueAt(lines, block, i).tree = Map(<<>>)
                 /\ ValueAt(lines, block, i).next = i + 1
<1> DEFINE value == ValueAt(lines, block, i)
<1>1. ASSUME HasText(lines, block, i) PROVE \E x : value.tree = Text(x)
  <2>1. TextAt(lines, i).ok /\ value = TextAt(lines, i)
    BY <1>1 DEF HasText
  <2>2. TextAt(lines, i) # Stop
    BY <2>1 DEF Stop
  <2>3. \E x : TextAt(lines, i).tree = Text(x)
    BY <2>2 DEF TextAt, Done
  <2> QED  BY <2>1, <2>3
<1>2. ASSUME HasScalar(lines, block, i)
      PROVE  value.tree = Scalar(ScalarOf[lines[i].value]) /\ value.next = i + 1
  <2> DEFINE tree == Scalar(ScalarOf[lines[i].value])
  <2>1. value = Done(tree, i + 1)
    BY <1>2 DEF HasScalar
  <2> HIDE DEF tree, value
  <2>2. value.tree = tree /\ value.next = i + 1
    BY <2>1, DoneFields
  <2> QED  BY <2>2 DEF tree
<1>3. ASSUME HasNested(lines, block, i)
      PROVE  \E x : x # <<>> /\ (value.tree = Map(x) \/ value.tree = List(x))
  <2>1. value = block[i + 1] /\ i + 1 <= Len(lines)
    BY <1>3 DEF HasNested, Deeper
  <2>2. Len(lines) \in Nat
    BY ParsingSound
  <2>3. i + 1 \in 1..Len(lines)
    BY <2>1, <2>2
  <2>4. block[i + 1].ok
    BY <2>1
  <2>5. \E s : s # <<>> /\ block[i + 1].tree = IF lines[i + 1].dash THEN List(s) ELSE Map(s)
    BY <2>3, <2>4, NestedSound
  <2> QED  BY <2>1, <2>5
<1>4. ASSUME HasNothing(lines, block, i)
      PROVE  value.tree = Map(<<>>) /\ value.next = i + 1
  <2> DEFINE tree == Map(<<>>)
  <2>1. value = Done(tree, i + 1)
    BY <1>4 DEF HasNothing
  <2> HIDE DEF tree, value
  <2>2. value.tree = tree /\ value.next = i + 1
    BY <2>1, DoneFields
  <2> QED  BY <2>2 DEF tree
<1> QED  BY <1>1, <1>2, <1>3, <1>4

\* Of the same tree comes the same kind.
LEMMA SameKind ==
    ASSUME NEW a, NEW b, NEW blockA, NEW blockB, Parsing(a, blockA), Parsing(b, blockB),
           NEW i \in 1..Len(a), i \in 1..Len(b),
           ValueAt(a, blockA, i).ok, ValueAt(b, blockB, i).ok,
           ValueAt(a, blockA, i).tree = ValueAt(b, blockB, i).tree
    PROVE  /\ HasText(a, blockA, i) => HasText(b, blockB, i)
           /\ HasScalar(a, blockA, i) =>
                 HasScalar(b, blockB, i) /\ ScalarOf[a[i].value] = ScalarOf[b[i].value]
           /\ HasNested(a, blockA, i) => HasNested(b, blockB, i)
           /\ HasNothing(a, blockA, i) => HasNothing(b, blockB, i)
<1> DEFINE t == ValueAt(a, blockA, i).tree
<1>1. /\ HasText(a, blockA, i) => \E x : t = Text(x)
      /\ HasScalar(a, blockA, i) => t = Scalar(ScalarOf[a[i].value])
      /\ HasNested(a, blockA, i) => \E x : x # <<>> /\ (t = Map(x) \/ t = List(x))
      /\ HasNothing(a, blockA, i) => t = Map(<<>>)
  BY KindTrees
<1>2. /\ HasText(b, blockB, i) => \E x : t = Text(x)
      /\ HasScalar(b, blockB, i) => t = Scalar(ScalarOf[b[i].value])
      /\ HasNested(b, blockB, i) => \E x : x # <<>> /\ (t = Map(x) \/ t = List(x))
      /\ HasNothing(b, blockB, i) => t = Map(<<>>)
  BY KindTrees
<1>3. \/ HasText(b, blockB, i) \/ HasScalar(b, blockB, i)
      \/ HasNested(b, blockB, i) \/ HasNothing(b, blockB, i)
  BY ValueKinds
<1> HIDE DEF t
<1>4. HasText(a, blockA, i) => HasText(b, blockB, i)
  BY <1>1, <1>2, <1>3, TreeKinds
<1>5. HasScalar(a, blockA, i) =>
         HasScalar(b, blockB, i) /\ ScalarOf[a[i].value] = ScalarOf[b[i].value]
  BY <1>1, <1>2, <1>3, TreeKinds
<1>6. HasNested(a, blockA, i) => HasNested(b, blockB, i)
  BY <1>1, <1>2, <1>3, TreeKinds
<1>7. HasNothing(a, blockA, i) => HasNothing(b, blockB, i)
  BY <1>1, <1>2, <1>3, TreeKinds
<1> QED  BY <1>4, <1>5, <1>6, <1>7

LEMMA SameLength ==
    ASSUME NEW x \in Nat, NEW y \in Nat, 1..x = 1..y
    PROVE  x = y
<1>1. x < y => y \in 1..y /\ y \notin 1..x
  OBVIOUS
<1>2. y < x => x \in 1..x /\ x \notin 1..y
  OBVIOUS
<1> QED  BY <1>1, <1>2

\* A literal block: as many lines, and the same.
LEMMA TextAlike ==
    ASSUME NEW a \in Seq(WorkflowLine), NEW b \in Seq(WorkflowLine),
           NEW i \in 1..Len(a), i <= Len(b),
           TextAt(a, i).ok, TextAt(b, i).ok, TextAt(a, i).tree = TextAt(b, i).tree,
           SameLine(a, b, i)
    PROVE  /\ TextAt(a, i).next = TextAt(b, i).next
           /\ Alike(a, b, i, TextAt(a, i).next)
           /\ AllBelow(a, i, TextAt(a, i).next) /\ AllBelow(b, i, TextAt(a, i).next)
<1> DEFINE endA == EndOf(a, i)
           endB == EndOf(b, i)
           textA == [k \in 1..(endA - i - 1) |-> Content(a[i + k])]
           textB == [k \in 1..(endB - i - 1) |-> Content(b[i + k])]
<1>1. i \in 1..Len(b)
  OBVIOUS
<1>2. endA \in (i + 1)..(Len(a) + 1) /\ endB \in (i + 1)..(Len(b) + 1)
  BY <1>1, EndOfType
<1>3. /\ TextAt(a, i) = Done(Text(textA), endA)
      /\ \A k \in (i + 1)..(endA - 1) : a[k].indent = a[i].indent + 2
  BY DEF TextAt, Stop
<1>4. /\ TextAt(b, i) = Done(Text(textB), endB)
      /\ \A k \in (i + 1)..(endB - 1) : b[k].indent = b[i].indent + 2
  BY DEF TextAt, Stop
<1>5. textA = textB
  <2>1. TextAt(a, i).tree = Text(textA) /\ TextAt(b, i).tree = Text(textB)
    BY <1>3, <1>4 DEF Done
  <2> HIDE DEF textA, textB
  <2> QED  BY <2>1, TreeKinds
<1>6. endA = endB
  <2>1. DOMAIN textA = 1..(endA - i - 1) /\ DOMAIN textB = 1..(endB - i - 1)
    OBVIOUS
  <2>2. 1..(endA - i - 1) = 1..(endB - i - 1)
    <3> HIDE DEF textA, textB
    <3> QED  BY <1>5, <2>1
  <2>3. endA - i - 1 \in Nat /\ endB - i - 1 \in Nat
    BY <1>2
  <2>4. endA - i - 1 = endB - i - 1
    <3> DEFINE x == endA - i - 1
               y == endB - i - 1
    <3> HIDE DEF x, y
    <3>1. x \in Nat /\ y \in Nat /\ 1..x = 1..y
      BY <2>2, <2>3 DEF x, y
    <3>2. x = y
      BY <3>1, SameLength
    <3> QED  BY <3>2 DEF x, y
  <2> QED  BY <1>2, <2>4
<1>7. \A k \in (i + 1)..(endA - 1) : Content(a[k]) = Content(b[k])
  <2> SUFFICES ASSUME NEW k \in (i + 1)..(endA - 1) PROVE Content(a[k]) = Content(b[k])
    OBVIOUS
  <2>1. k - i \in 1..(endA - i - 1) /\ i + (k - i) = k
    BY <1>2
  <2>2. textA[k - i] = Content(a[k]) /\ textB[k - i] = Content(b[k])
    BY <1>6, <2>1
  <2> HIDE DEF textA, textB
  <2> QED  BY <1>5, <2>2
<1>8. \A k \in (i + 1)..(endA - 1) :
          a[k].dash = b[k].dash /\ a[k].key = b[k].key /\ a[k].value = b[k].value
  <2> SUFFICES ASSUME NEW k \in (i + 1)..(endA - 1)
               PROVE  a[k].dash = b[k].dash /\ a[k].key = b[k].key /\ a[k].value = b[k].value
    OBVIOUS
  <2>1. a[k] \in WorkflowLine /\ b[k] \in WorkflowLine
    BY <1>2, <1>6
  <2>2. /\ Content(a[k]).dash = a[k].dash /\ Content(b[k]).dash = b[k].dash
        /\ Content(a[k]).key = a[k].key /\ Content(b[k]).key = b[k].key
        /\ Content(a[k]).value = a[k].value /\ Content(b[k]).value = b[k].value
    BY <2>1 DEF Content, WorkflowLine
  <2> QED  BY <1>7, <2>2
<1>9. AllBelow(a, i, endA) /\ AllBelow(b, i, endA)
  <2>1. a[i].indent \in Nat /\ b[i].indent \in Nat
    BY <1>1, IndentType
  <2> SUFFICES ASSUME NEW k \in (i + 1)..(endA - 1)
               PROVE  a[k].indent > a[i].indent /\ b[k].indent > b[i].indent
    BY DEF AllBelow
  <2>2. a[k].indent = a[i].indent + 2
    BY <1>3
  <2>3. b[k].indent = b[i].indent + 2
    BY <1>4, <1>6
  <2> QED  BY ONLY <2>1, <2>2, <2>3
<1>10. Alike(a, b, i + 1, endA)
  <2> SUFFICES ASSUME NEW k \in (i + 1)..(endA - 1)
               PROVE  /\ SameLine(a, b, k)
                      /\ \A j \in (i + 1)..(k - 1) : ~IsParent(a, j, k) /\ ~IsParent(b, j, k)
    BY DEF Alike
  <2>1. SameLine(a, b, k)
    BY <1>8 DEF SameLine, SameValue
  <2>2. ASSUME NEW j \in (i + 1)..(k - 1) PROVE ~IsParent(a, j, k) /\ ~IsParent(b, j, k)
    <3>1. j \in (i + 1)..(endA - 1)
      BY <1>2
    <3>2. a[j].indent = a[k].indent /\ b[j].indent = b[k].indent
      BY <1>3, <1>4, <1>6, <3>1
    <3>3. a[k].indent \in Nat /\ b[k].indent \in Nat
      <4>1. k \in 1..Len(a) /\ k \in 1..Len(b)
        BY <1>2, <1>6
      <4> QED  BY <4>1, IndentType
    <3> QED  BY <3>2, <3>3 DEF IsParent
  <2> QED  BY <2>1, <2>2
<1>11. Alike(a, b, i, endA)
  <2>1. endA \in (i + 1)..(Len(a) + 1) /\ endA <= Len(b) + 1
    BY <1>2, <1>6
  <2> HIDE DEF endA
  <2> QED  BY <1>7, <1>9, <1>10, <2>1, FrontAlike
<1>12. TextAt(a, i).next = endA /\ TextAt(b, i).next = endB
  BY <1>3, <1>4 DEF Done
<1> QED  BY <1>6, <1>9, <1>11, <1>12

\* A line alone.
LEMMA LineAlike ==
    ASSUME NEW a, NEW b, NEW i \in Nat, SameLine(a, b, i)
    PROVE  Alike(a, b, i, i + 1) /\ AllBelow(a, i, i + 1) /\ AllBelow(b, i, i + 1)
<1>1. \A k \in i..(i + 1 - 1) : k = i /\ \A j \in i..(k - 1) : FALSE
  OBVIOUS
<1>2. \A k \in (i + 1)..(i + 1 - 1) : FALSE
  OBVIOUS
<1> QED  BY <1>1, <1>2 DEF Alike, AllBelow

\* Two facts of order, for numbers that are parts of lines.
LEMMA AtLeastAbove ==
    ASSUME NEW x \in Nat, NEW y \in Nat, NEW z \in Nat, x >= y, y > z
    PROVE  x > z
  OBVIOUS
LEMMA AboveIsAtLeast == ASSUME NEW x \in Nat, NEW y \in Nat, x > y PROVE x >= y
  OBVIOUS

\* The block from the next line on, which is deeper.
LEMMA NestedAlike ==
    ASSUME NEW a, NEW b, NEW blockA, NEW blockB, Parsing(a, blockA), Parsing(b, blockB),
           NEW i \in 1..Len(a), i <= Len(b),
           AgreeAfter(a, b, blockA, blockB, i),
           Deeper(a, i, i + 1), Deeper(b, i, i + 1), blockA[i + 1].ok, blockB[i + 1].ok,
           blockA[i + 1].tree = blockB[i + 1].tree,
           SameLine(a, b, i), b[i].value \notin Literal
    PROVE  /\ blockA[i + 1].next = blockB[i + 1].next
           /\ Alike(a, b, i, blockA[i + 1].next)
           /\ AllBelow(a, i, blockA[i + 1].next) /\ AllBelow(b, i, blockA[i + 1].next)
<1> DEFINE e == blockA[i + 1].next
<1>1. /\ a \in Seq(WorkflowLine) /\ b \in Seq(WorkflowLine)
      /\ Len(a) \in Nat /\ Len(b) \in Nat
  BY DEF Parsing
<1>2. /\ i + 1 \in (i + 1)..Len(a) /\ i + 1 \in 1..Len(a)
      /\ i + 1 <= Len(b) /\ i + 1 \in 1..Len(b) /\ i \in 1..Len(b)
  BY <1>1 DEF Deeper
<1>3. /\ blockB[i + 1].next = e
      /\ Alike(a, b, i + 1, e) /\ NotOut(a, i + 1, e) /\ NotOut(b, i + 1, e)
  BY <1>2 DEF Agree, AgreeAfter
<1>4. e \in (i + 2)..(Len(a) + 1) /\ e \in (i + 2)..(Len(b) + 1)
  <2>1. e \in (i + 1 + 1)..(Len(a) + 1)
    BY <1>2, NestedSound
  <2>2. blockB[i + 1].next \in (i + 1 + 1)..(Len(b) + 1)
    BY <1>2, NestedSound
  <2>3. i + 1 + 1 = i + 2
    BY <1>1
  <2> HIDE DEF e
  <2> QED  BY <1>3, <2>1, <2>2, <2>3
<1>5. AllBelow(a, i, e) /\ AllBelow(b, i, e)
  <2> SUFFICES ASSUME NEW k \in (i + 1)..(e - 1)
               PROVE  a[k].indent > a[i].indent /\ b[k].indent > b[i].indent
    BY DEF AllBelow
  <2> HIDE DEF e
  <2>1. k \in 1..Len(a) /\ k \in 1..Len(b)
    BY <1>1, <1>4
  <2>2. a[k].indent >= a[i + 1].indent /\ b[k].indent >= b[i + 1].indent
    BY <1>3 DEF NotOut
  <2>3. a[i + 1].indent > a[i].indent /\ b[i + 1].indent > b[i].indent
    BY DEF Deeper
  <2>4. /\ a[k].indent \in Nat /\ a[i].indent \in Nat /\ a[i + 1].indent \in Nat
        /\ b[k].indent \in Nat /\ b[i].indent \in Nat /\ b[i + 1].indent \in Nat
    BY <1>1, <1>2, <2>1, IndentType
  <2>5. a[k].indent > a[i].indent
    BY ONLY <2>2, <2>3, <2>4, AtLeastAbove
  <2>6. b[k].indent > b[i].indent
    BY ONLY <2>2, <2>3, <2>4, AtLeastAbove
  <2> QED  BY <2>5, <2>6
<1>6. Alike(a, b, i, e)
  <2>1. e \in (i + 1)..(Len(a) + 1) /\ e <= Len(b) + 1
    <3> HIDE DEF e
    <3> QED  BY <1>1, <1>4
  <2> HIDE DEF e
  <2> QED  BY <1>1, <1>3, <1>5, <2>1, FrontAlike
<1> QED  BY <1>3, <1>5, <1>6

\* The same value of the same key comes from as many lines that are alike; in a list
\* item whose first key has a scalar it is that line alone.
LEMMA ValueAlike ==
    ASSUME NEW a, NEW b, NEW blockA, NEW blockB, Parsing(a, blockA), Parsing(b, blockB),
           NEW i \in 1..Len(a), i <= Len(b),
           AgreeAfter(a, b, blockA, blockB, i),
           ValueAt(a, blockA, i).ok, ValueAt(b, blockB, i).ok,
           ValueAt(a, blockA, i).tree = ValueAt(b, blockB, i).tree,
           a[i].dash = b[i].dash, a[i].key = b[i].key
    PROVE  /\ ValueAt(a, blockA, i).next = ValueAt(b, blockB, i).next
           /\ SameLine(a, b, i)
           /\ Alike(a, b, i, ValueAt(a, blockA, i).next)
           /\ AllBelow(a, i, ValueAt(a, blockA, i).next)
           /\ AllBelow(b, i, ValueAt(a, blockA, i).next)
           /\ b[i].dash /\ b[i].value # "" =>
                 ValueAt(a, blockA, i).next = i + 1 /\ b[i].value \notin Literal
<1> DEFINE va == ValueAt(a, blockA, i)
           vb == ValueAt(b, blockB, i)
           Goal == /\ va.next = vb.next /\ SameLine(a, b, i)
                   /\ Alike(a, b, i, va.next)
                   /\ AllBelow(a, i, va.next) /\ AllBelow(b, i, va.next)
                   /\ b[i].dash /\ b[i].value # "" =>
                         va.next = i + 1 /\ b[i].value \notin Literal
<1>1. /\ a \in Seq(WorkflowLine) /\ b \in Seq(WorkflowLine)
      /\ Len(a) \in Nat /\ Len(b) \in Nat /\ i \in 1..Len(b) /\ i \in Nat
  BY DEF Parsing
<1>2. \/ HasText(a, blockA, i) \/ HasScalar(a, blockA, i)
      \/ HasNested(a, blockA, i) \/ HasNothing(a, blockA, i)
  BY ValueKinds
<1>3. CASE HasText(a, blockA, i)
  <2>1. HasText(b, blockB, i)
    BY <1>1, <1>3, SameKind
  <2>2. /\ va = TextAt(a, i) /\ vb = TextAt(b, i) /\ ~b[i].dash
        /\ a[i].value \in Literal /\ b[i].value \in Literal
    BY <1>3, <2>1 DEF HasText
  <2>3. SameLine(a, b, i)
    BY <2>2 DEF SameLine, SameValue
  <2>4. TextAt(a, i).ok /\ TextAt(b, i).ok /\ TextAt(a, i).tree = TextAt(b, i).tree
    BY <2>2
  <2>5. /\ TextAt(a, i).next = TextAt(b, i).next
        /\ Alike(a, b, i, TextAt(a, i).next)
        /\ AllBelow(a, i, TextAt(a, i).next) /\ AllBelow(b, i, TextAt(a, i).next)
    BY <1>1, <2>3, <2>4, TextAlike
  <2>6. Goal
    BY <2>2, <2>3, <2>5
  <2> QED  BY <2>6
<1>4. CASE HasScalar(a, blockA, i)
  <2>1. HasScalar(b, blockB, i) /\ ScalarOf[a[i].value] = ScalarOf[b[i].value]
    BY <1>1, <1>4, SameKind
  <2>2. va.next = i + 1 /\ vb.next = i + 1
    BY <1>1, <1>4, <2>1, KindTrees
  <2>3. SameLine(a, b, i) /\ b[i].value \notin Literal
    BY <1>4, <2>1 DEF HasScalar, SameLine, SameValue
  <2>4. Alike(a, b, i, i + 1) /\ AllBelow(a, i, i + 1) /\ AllBelow(b, i, i + 1)
    BY <1>1, <2>3, LineAlike
  <2>5. Goal
    BY <2>2, <2>3, <2>4
  <2> QED  BY <2>5
<1>5. CASE HasNested(a, blockA, i)
  <2>1. HasNested(b, blockB, i)
    BY <1>1, <1>5, SameKind
  <2>2. /\ va = blockA[i + 1] /\ vb = blockB[i + 1] /\ a[i].value = "" /\ b[i].value = ""
        /\ Deeper(a, i, i + 1) /\ Deeper(b, i, i + 1)
    BY <1>5, <2>1 DEF HasNested
  <2>3. SameLine(a, b, i) /\ b[i].value \notin Literal
    BY <2>2 DEF SameLine, SameValue, Literal
  <2>4. blockA[i + 1].ok /\ blockB[i + 1].ok /\ blockA[i + 1].tree = blockB[i + 1].tree
    BY <2>2
  <2>5. /\ blockA[i + 1].next = blockB[i + 1].next
        /\ Alike(a, b, i, blockA[i + 1].next)
        /\ AllBelow(a, i, blockA[i + 1].next) /\ AllBelow(b, i, blockA[i + 1].next)
    BY <2>2, <2>3, <2>4, NestedAlike
  <2>6. Goal
    BY <2>2, <2>3, <2>5
  <2> QED  BY <2>6
<1>6. CASE HasNothing(a, blockA, i)
  <2>1. HasNothing(b, blockB, i)
    BY <1>1, <1>6, SameKind
  <2>2. va.next = i + 1 /\ vb.next = i + 1
    BY <1>1, <1>6, <2>1, KindTrees
  <2>3. SameLine(a, b, i) /\ b[i].value = ""
    BY <1>6, <2>1 DEF HasNothing, SameLine, SameValue
  <2>4. Alike(a, b, i, i + 1) /\ AllBelow(a, i, i + 1) /\ AllBelow(b, i, i + 1)
    BY <1>1, <2>3, LineAlike
  <2>5. Goal
    BY <2>2, <2>3, <2>4
  <2> QED  BY <2>5
<1> QED  BY <1>2, <1>3, <1>4, <1>5, <1>6

\* The entries of a list item below its first line: the same come from as many lines
\* that are alike, if the first key has a scalar.
LEMMA BelowAlike ==
    ASSUME NEW a, NEW b, NEW blockA, NEW blockB, Parsing(a, blockA), Parsing(b, blockB),
           NEW i \in 1..Len(a), i <= Len(b),
           AgreeAfter(a, b, blockA, blockB, i),
           a[i].dash, b[i].dash,
           ValueAt(a, blockA, i).next = i + 1, ValueAt(b, blockB, i).next = i + 1,
           BelowAt(a, blockA, i).ok, BelowAt(b, blockB, i).ok,
           BelowAt(a, blockA, i).tree = BelowAt(b, blockB, i).tree,
           SameLine(a, b, i), b[i].value \notin Literal
    PROVE  /\ BelowAt(a, blockA, i).next = BelowAt(b, blockB, i).next
           /\ Alike(a, b, i, BelowAt(a, blockA, i).next)
           /\ AllBelow(a, i, BelowAt(a, blockA, i).next)
           /\ AllBelow(b, i, BelowAt(a, blockA, i).next)
<1> DEFINE HasMore(lines) == Deeper(lines, i, i + 1) /\ ~lines[i + 1].dash
<1>1. i \in Nat /\ Len(a) \in Nat /\ Len(b) \in Nat
  BY DEF Parsing
<1>2. BelowAt(a, blockA, i) =
         IF HasMore(a) THEN blockA[i + 1] ELSE Done(Map(<<>>), i + 1)
  BY DEF BelowAt
<1>3. BelowAt(b, blockB, i) =
         IF HasMore(b) THEN blockB[i + 1] ELSE Done(Map(<<>>), i + 1)
  BY DEF BelowAt
<1>4. HasMore(a) => \E x : x # <<>> /\ BelowAt(a, blockA, i).tree = Map(x)
  <2> SUFFICES ASSUME HasMore(a)
               PROVE  \E x : x # <<>> /\ BelowAt(a, blockA, i).tree = Map(x)
    OBVIOUS
  <2>1. i + 1 \in 1..Len(a)
    BY <1>1 DEF Deeper
  <2>2. BelowAt(a, blockA, i) = blockA[i + 1] /\ ~a[i + 1].dash
    BY <1>2
  <2> HIDE DEF HasMore
  <2> QED  BY <2>1, <2>2, NestedSound
<1>5. HasMore(b) => \E x : x # <<>> /\ BelowAt(b, blockB, i).tree = Map(x)
  <2> SUFFICES ASSUME HasMore(b)
               PROVE  \E x : x # <<>> /\ BelowAt(b, blockB, i).tree = Map(x)
    OBVIOUS
  <2>1. i + 1 \in 1..Len(b)
    BY <1>1 DEF Deeper
  <2>2. BelowAt(b, blockB, i) = blockB[i + 1] /\ ~b[i + 1].dash
    BY <1>3
  <2> HIDE DEF HasMore
  <2> QED  BY <2>1, <2>2, NestedSound
<1>6. ~HasMore(a) => BelowAt(a, blockA, i).tree = Map(<<>>) /\ BelowAt(a, blockA, i).next = i + 1
  <2> HIDE DEF HasMore
  <2> QED  BY <1>2, DoneFields
<1>7. ~HasMore(b) => BelowAt(b, blockB, i).tree = Map(<<>>) /\ BelowAt(b, blockB, i).next = i + 1
  <2> HIDE DEF HasMore
  <2> QED  BY <1>3, DoneFields
<1>8. HasMore(a) <=> HasMore(b)
  <2> HIDE DEF HasMore
  <2> QED  BY <1>4, <1>5, <1>6, <1>7, TreeKinds
<1>9. CASE HasMore(a)
  <2>1. Deeper(a, i, i + 1) /\ Deeper(b, i, i + 1)
    BY <1>8, <1>9
  <2>2. BelowAt(a, blockA, i) = blockA[i + 1] /\ BelowAt(b, blockB, i) = blockB[i + 1]
    BY <1>2, <1>3, <1>8, <1>9
  <2> HIDE DEF HasMore
  <2> QED  BY <2>1, <2>2, NestedAlike
<1>10. CASE ~HasMore(a)
  <2>1. BelowAt(a, blockA, i).next = i + 1 /\ BelowAt(b, blockB, i).next = i + 1
    BY <1>6, <1>7, <1>8, <1>10
  <2> HIDE DEF HasMore
  <2> QED  BY <1>1, <2>1, LineAlike
<1> QED  BY <1>9, <1>10

\* The rest of a block, which starts in both at the same line.
LEMMA RestAlike ==
    ASSUME NEW a, NEW b, NEW blockA, NEW blockB, Parsing(a, blockA), Parsing(b, blockB),
           NEW i \in 1..Len(a), i <= Len(b),
           AgreeAfter(a, b, blockA, blockB, i),
           a[i].dash = b[i].dash,
           NEW m \in (i + 1)..(Len(a) + 1), m <= Len(b) + 1,
           BelowAt(a, blockA, i).next = m, BelowAt(b, blockB, i).next = m,
           Alike(a, b, i, m), AllBelow(a, i, m), AllBelow(b, i, m),
           RestAt(a, blockA, i).ok, RestAt(b, blockB, i).ok,
           RestAt(a, blockA, i).tree = RestAt(b, blockB, i).tree
    PROVE  /\ RestAt(a, blockA, i).next = RestAt(b, blockB, i).next
           /\ Alike(a, b, i, RestAt(a, blockA, i).next)
           /\ NotOut(a, i, RestAt(a, blockA, i).next)
           /\ NotOut(b, i, RestAt(a, blockA, i).next)
<1> DEFINE empty == IF a[i].dash THEN List(<<>>) ELSE Map(<<>>)
<1>1. /\ a \in Seq(WorkflowLine) /\ b \in Seq(WorkflowLine)
      /\ Len(a) \in Nat /\ Len(b) \in Nat /\ i \in 1..Len(b) /\ i \in Nat
  BY DEF Parsing
<1>2. NotOut(a, i, m) /\ NotOut(b, i, m)
  <2> SUFFICES ASSUME NEW k \in i..(m - 1)
               PROVE  a[k].indent >= a[i].indent /\ b[k].indent >= b[i].indent
    BY DEF NotOut
  <2>1. k \in 1..Len(a) /\ k \in 1..Len(b)
    BY <1>1
  <2>2. /\ a[k].indent \in Nat /\ a[i].indent \in Nat
        /\ b[k].indent \in Nat /\ b[i].indent \in Nat
    BY <1>1, <2>1, IndentType
  <2>3. CASE k = i
    BY <2>2, <2>3
  <2>4. CASE k # i
    <3>1. k \in (i + 1)..(m - 1)
      BY <1>1, <2>4
    <3>2. a[k].indent > a[i].indent /\ b[k].indent > b[i].indent
      BY <3>1 DEF AllBelow
    <3> QED  BY ONLY <2>2, <3>2, AboveIsAtLeast
  <2> QED  BY <2>3, <2>4
<1>3. RestAt(a, blockA, i) = IF GoesOn(a, i, m) THEN blockA[m] ELSE Done(empty, m)
  BY DEF RestAt
<1>4. RestAt(b, blockB, i) = IF GoesOn(b, i, m) THEN blockB[m] ELSE Done(empty, m)
  BY DEF RestAt
<1>5. GoesOn(a, i, m) =>
         \E x : x # <<>> /\ RestAt(a, blockA, i).tree = IF a[i].dash THEN List(x) ELSE Map(x)
  <2> SUFFICES ASSUME GoesOn(a, i, m)
               PROVE  \E x : /\ x # <<>>
                            /\ RestAt(a, blockA, i).tree = IF a[i].dash THEN List(x) ELSE Map(x)
    OBVIOUS
  <2>1. m \in 1..Len(a) /\ a[m].dash = a[i].dash
    BY <1>1 DEF GoesOn
  <2>2. RestAt(a, blockA, i) = blockA[m]
    BY <1>3
  <2>3. \E x : x # <<>> /\ blockA[m].tree = IF a[m].dash THEN List(x) ELSE Map(x)
    BY <2>1, <2>2, NestedSound
  <2> QED  BY <2>1, <2>2, <2>3
<1>6. GoesOn(b, i, m) =>
         \E x : x # <<>> /\ RestAt(b, blockB, i).tree = IF a[i].dash THEN List(x) ELSE Map(x)
  <2> SUFFICES ASSUME GoesOn(b, i, m)
               PROVE  \E x : /\ x # <<>>
                            /\ RestAt(b, blockB, i).tree = IF a[i].dash THEN List(x) ELSE Map(x)
    OBVIOUS
  <2>1. m \in 1..Len(b) /\ b[m].dash = a[i].dash
    BY <1>1 DEF GoesOn
  <2>2. RestAt(b, blockB, i) = blockB[m]
    BY <1>4
  <2>3. \E x : x # <<>> /\ blockB[m].tree = IF b[m].dash THEN List(x) ELSE Map(x)
    BY <2>1, <2>2, NestedSound
  <2> QED  BY <2>1, <2>2, <2>3
<1>7. ~GoesOn(a, i, m) => RestAt(a, blockA, i).tree = empty /\ RestAt(a, blockA, i).next = m
  <2> HIDE DEF empty
  <2> QED  BY <1>3, DoneFields
<1>8. ~GoesOn(b, i, m) => RestAt(b, blockB, i).tree = empty /\ RestAt(b, blockB, i).next = m
  <2> HIDE DEF empty
  <2> QED  BY <1>4, DoneFields
<1>9. GoesOn(a, i, m) <=> GoesOn(b, i, m)
  <2>1. \A x : x # <<>> => empty # IF a[i].dash THEN List(x) ELSE Map(x)
    BY TreeKinds
  <2> HIDE DEF empty
  <2> QED  BY <1>5, <1>6, <1>7, <1>8, <2>1
<1>10. CASE GoesOn(a, i, m)
  <2> DEFINE e == blockA[m].next
  <2>1. /\ RestAt(a, blockA, i) = blockA[m] /\ RestAt(b, blockB, i) = blockB[m]
        /\ m \in (i + 1)..Len(a) /\ m <= Len(b) /\ m \in 1..Len(a) /\ m \in 1..Len(b)
        /\ a[m].indent = a[i].indent /\ b[m].indent = b[i].indent
    BY <1>1, <1>3, <1>4, <1>9, <1>10 DEF GoesOn
  <2>2. /\ blockB[m].next = e
        /\ Alike(a, b, m, e) /\ NotOut(a, m, e) /\ NotOut(b, m, e)
    BY <2>1 DEF Agree, AgreeAfter
  <2>3. e \in m..(Len(a) + 1) /\ e <= Len(b) + 1
    <3>1. e \in (m + 1)..(Len(a) + 1)
      BY <2>1, NestedSound
    <3>2. blockB[m].next \in (m + 1)..(Len(b) + 1)
      BY <2>1, NestedSound
    <3> HIDE DEF e
    <3> QED  BY <1>1, <2>2, <3>1, <3>2
  <2> HIDE DEF e
  <2>4. Alike(a, b, i, e) /\ NotOut(a, i, e) /\ NotOut(b, i, e)
    BY <1>1, <1>2, <2>1, <2>2, <2>3, PartsAlike
  <2> QED  BY <2>1, <2>2, <2>4 DEF e
<1>11. CASE ~GoesOn(a, i, m)
  BY <1>2, <1>7, <1>8, <1>9, <1>11
<1> QED  BY <1>10, <1>11

\* The entries below the first line of an item, and the rest of a block.
LEMMA PartTrees ==
    ASSUME NEW lines, NEW block, Parsing(lines, block), NEW i \in 1..Len(lines), block[i].ok
    PROVE  \E s, r :
              /\ IsSequence(s) /\ IsSequence(r)
              /\ BelowAt(lines, block, i).tree = Map(s)
              /\ RestAt(lines, block, i).tree = IF lines[i].dash THEN List(r) ELSE Map(r)
              /\ block[i].tree =
                    IF lines[i].dash
                      THEN List(<<Map(<< <<lines[i].key, ValueAt(lines, block, i).tree>> >>
                                      \o s)>> \o r)
                      ELSE Map(<< <<lines[i].key, ValueAt(lines, block, i).tree>> >> \o r)
<1>1. block[i] = BlockAt(lines, block, i) /\ lines \in Seq(WorkflowLine)
  BY DEF Parsing
<1>2. /\ ValueAt(lines, block, i).ok /\ BelowAt(lines, block, i).ok
      /\ RestAt(lines, block, i).ok
  BY <1>1, BlockParts
<1>3. SoundAfter(lines, block, i)
  BY ParsingSound
<1>4. PICK s : IsSequence(s) /\ BelowAt(lines, block, i).tree = Map(s)
  BY <1>1, <1>2, <1>3, BelowForward
<1>5. PICK r : /\ IsSequence(r)
               /\ RestAt(lines, block, i).tree = IF lines[i].dash THEN List(r) ELSE Map(r)
  BY <1>1, <1>2, <1>3, RestForward
<1>6. BelowAt(lines, block, i).tree.map = s
  BY <1>4 DEF Map
<1>7. /\ lines[i].dash => RestAt(lines, block, i).tree.list = r
      /\ ~lines[i].dash => RestAt(lines, block, i).tree.map = r
  BY <1>5 DEF Map, List
<1>8. block[i].tree =
         IF lines[i].dash
           THEN List(<<Map(<< <<lines[i].key, ValueAt(lines, block, i).tree>> >>
                           \o BelowAt(lines, block, i).tree.map)>>
                     \o RestAt(lines, block, i).tree.list)
           ELSE Map(<< <<lines[i].key, ValueAt(lines, block, i).tree>> >>
                    \o RestAt(lines, block, i).tree.map)
  BY <1>1, BlockParts
<1>9. block[i].tree =
         IF lines[i].dash
           THEN List(<<Map(<< <<lines[i].key, ValueAt(lines, block, i).tree>> >> \o s)>> \o r)
           ELSE Map(<< <<lines[i].key, ValueAt(lines, block, i).tree>> >> \o r)
  <2>1. CASE lines[i].dash
    BY <1>6, <1>7, <1>8, <2>1, Zenon
  <2>2. CASE ~lines[i].dash
    BY <1>7, <1>8, <2>2, Zenon
  <2> QED  BY <2>1, <2>2
<1> QED  BY <1>4, <1>5, <1>9

\* Two blocks of the same tree are of the same kind, and so are their parts.
LEMMA PartsSame ==
    ASSUME NEW a, NEW b, NEW blockA, NEW blockB, Parsing(a, blockA), Parsing(b, blockB),
           NEW i \in 1..Len(a), i \in 1..Len(b),
           blockA[i].ok, blockB[i].ok, blockA[i].tree = blockB[i].tree
    PROVE  /\ a[i].dash <=> b[i].dash
           /\ a[i].key = b[i].key
           /\ ValueAt(a, blockA, i).tree = ValueAt(b, blockB, i).tree
           /\ a[i].dash => BelowAt(a, blockA, i).tree = BelowAt(b, blockB, i).tree
           /\ RestAt(a, blockA, i).tree = RestAt(b, blockB, i).tree
<1> DEFINE entryA == <<a[i].key, ValueAt(a, blockA, i).tree>>
           entryB == <<b[i].key, ValueAt(b, blockB, i).tree>>
<1>1. PICK sA, rA :
         /\ IsSequence(sA) /\ IsSequence(rA)
         /\ BelowAt(a, blockA, i).tree = Map(sA)
         /\ RestAt(a, blockA, i).tree = IF a[i].dash THEN List(rA) ELSE Map(rA)
         /\ blockA[i].tree = IF a[i].dash THEN List(<<Map(<<entryA>> \o sA)>> \o rA)
                             ELSE Map(<<entryA>> \o rA)
  BY PartTrees
<1>2. PICK sB, rB :
         /\ IsSequence(sB) /\ IsSequence(rB)
         /\ BelowAt(b, blockB, i).tree = Map(sB)
         /\ RestAt(b, blockB, i).tree = IF b[i].dash THEN List(rB) ELSE Map(rB)
         /\ blockB[i].tree = IF b[i].dash THEN List(<<Map(<<entryB>> \o sB)>> \o rB)
                             ELSE Map(<<entryB>> \o rB)
  BY PartTrees
<1> HIDE DEF entryA, entryB
<1>3. a[i].dash <=> b[i].dash
  <2>1. PICK x : blockA[i].tree = IF a[i].dash THEN List(x) ELSE Map(x)
    BY NestedSound
  <2>2. PICK y : blockB[i].tree = IF b[i].dash THEN List(y) ELSE Map(y)
    BY NestedSound
  <2>3. Map(x) # List(y) /\ Map(y) # List(x)
    BY TreeKinds
  <2> QED  BY <2>1, <2>2, <2>3
<1>10. IsSequence(sA) /\ IsSequence(sB)
  BY <1>1, <1>2
<1>11. IsSequence(rA) /\ IsSequence(rB)
  BY <1>1, <1>2
<1>4. /\ entryA = entryB
      /\ a[i].dash => sA = sB
      /\ rA = rB
  <2>1. CASE a[i].dash
    <3> DEFINE itemA == Map(<<entryA>> \o sA)
               itemB == Map(<<entryB>> \o sB)
    <3>1. List(<<itemA>> \o rA) = List(<<itemB>> \o rB)
      BY <1>1, <1>2, <1>3, <2>1
    <3> HIDE DEF itemA, itemB
    <3>2. <<itemA>> \o rA = <<itemB>> \o rB
      BY <3>1, TreeKinds
    <3>3. itemA = itemB /\ rA = rB
      BY ONLY <1>11, <3>2, FrontIsOne, Zenon
    <3>4. <<entryA>> \o sA = <<entryB>> \o sB
      BY <3>3, TreeKinds DEF itemA, itemB
    <3>5. entryA = entryB /\ sA = sB
      BY ONLY <1>10, <3>4, FrontIsOne, Zenon
    <3> QED  BY <3>3, <3>5
  <2>2. CASE ~a[i].dash
    <3>1. Map(<<entryA>> \o rA) = Map(<<entryB>> \o rB)
      BY <1>1, <1>2, <1>3, <2>2
    <3>2. <<entryA>> \o rA = <<entryB>> \o rB
      BY <3>1, TreeKinds
    <3>3. entryA = entryB /\ rA = rB
      BY ONLY <1>11, <3>2, FrontIsOne, Zenon
    <3> QED  BY <2>2, <3>3
  <2> QED  BY <2>1, <2>2
<1>5. a[i].key = b[i].key /\ ValueAt(a, blockA, i).tree = ValueAt(b, blockB, i).tree
  BY <1>4 DEF entryA, entryB
<1>6. a[i].dash => BelowAt(a, blockA, i).tree = BelowAt(b, blockB, i).tree
  BY <1>1, <1>2, <1>4
<1>7. RestAt(a, blockA, i).tree = RestAt(b, blockB, i).tree
  BY <1>1, <1>2, <1>3, <1>4
<1> QED  BY <1>3, <1>5, <1>6, <1>7

\* A list item of the reviewed workflow starts with a scalar: the entries below it
\* could otherwise be deeper than the block of its first key.
LEMMA BlockAgrees ==
    ASSUME NEW a, NEW b, NEW blockA, NEW blockB, Parsing(a, blockA), Parsing(b, blockB),
           NEW i \in 1..Len(a),
           ScalarItems(b), AgreeAfter(a, b, blockA, blockB, i)
    PROVE  Agree(a, b, blockA, blockB, i)
<1> SUFFICES ASSUME i <= Len(b), blockA[i].ok, blockB[i].ok, blockA[i].tree = blockB[i].tree
             PROVE  /\ blockA[i].next = blockB[i].next
                    /\ Alike(a, b, i, blockA[i].next)
                    /\ NotOut(a, i, blockA[i].next) /\ NotOut(b, i, blockA[i].next)
  BY DEF Agree
<1> DEFINE va == ValueAt(a, blockA, i)
           vb == ValueAt(b, blockB, i)
           wa == BelowAt(a, blockA, i)
           wb == BelowAt(b, blockB, i)
           ra == RestAt(a, blockA, i)
           rb == RestAt(b, blockB, i)
           m == wa.next
<1>1. /\ a \in Seq(WorkflowLine) /\ b \in Seq(WorkflowLine)
      /\ Len(a) \in Nat /\ Len(b) \in Nat /\ DOMAIN b = 1..Len(b) /\ i \in 1..Len(b)
  <2>1. /\ a \in Seq(WorkflowLine) /\ b \in Seq(WorkflowLine)
        /\ Len(a) \in Nat /\ Len(b) \in Nat /\ DOMAIN b = 1..Len(b)
    BY ParsingType
  <2>2. i \in 1..Len(b)
    BY <2>1
  <2> QED  BY <2>1, <2>2
<1>2. /\ va.ok /\ wa.ok /\ ra.ok /\ blockA[i].next = ra.next
      /\ vb.ok /\ wb.ok /\ rb.ok /\ blockB[i].next = rb.next
  <2>1. blockA[i] = BlockAt(a, blockA, i) /\ blockB[i] = BlockAt(b, blockB, i)
    BY <1>1 DEF Parsing
  <2>2. BlockAt(a, blockA, i).ok /\ BlockAt(b, blockB, i).ok
    BY <2>1
  <2>3. va.ok /\ wa.ok /\ ra.ok /\ BlockAt(a, blockA, i).next = ra.next
    BY <1>1, <2>2, BlockParts
  <2>4. vb.ok /\ wb.ok /\ rb.ok /\ BlockAt(b, blockB, i).next = rb.next
    BY <1>1, <2>2, BlockParts
  <2> QED  BY <2>1, <2>3, <2>4
<1>3. /\ a[i].dash <=> b[i].dash
      /\ a[i].key = b[i].key /\ va.tree = vb.tree
      /\ a[i].dash => wa.tree = wb.tree
      /\ ra.tree = rb.tree
  BY <1>1, PartsSame
<1>4. a[i].dash = b[i].dash
  <2>1. a[i] \in WorkflowLine /\ b[i] \in WorkflowLine
    BY <1>1
  <2>2. a[i].dash \in BOOLEAN /\ b[i].dash \in BOOLEAN
    BY <2>1 DEF WorkflowLine
  <2> QED  BY <1>3, <2>2
<1>5. /\ va.next = vb.next /\ SameLine(a, b, i) /\ Alike(a, b, i, va.next)
      /\ AllBelow(a, i, va.next) /\ AllBelow(b, i, va.next)
      /\ b[i].dash /\ b[i].value # "" => va.next = i + 1 /\ b[i].value \notin Literal
  <2>1. /\ ValueAt(a, blockA, i).ok /\ ValueAt(b, blockB, i).ok
        /\ ValueAt(a, blockA, i).tree = ValueAt(b, blockB, i).tree
        /\ a[i].dash = b[i].dash /\ a[i].key = b[i].key
    BY <1>2, <1>3, <1>4
  <2>2. /\ i \in 1..Len(a) /\ i <= Len(b) /\ AgreeAfter(a, b, blockA, blockB, i)
        /\ Parsing(a, blockA) /\ Parsing(b, blockB)
    BY <1>1
  <2>3. /\ ValueAt(a, blockA, i).next = ValueAt(b, blockB, i).next
        /\ SameLine(a, b, i) /\ Alike(a, b, i, ValueAt(a, blockA, i).next)
        /\ AllBelow(a, i, ValueAt(a, blockA, i).next)
        /\ AllBelow(b, i, ValueAt(a, blockA, i).next)
        /\ b[i].dash /\ b[i].value # "" =>
              ValueAt(a, blockA, i).next = i + 1 /\ b[i].value \notin Literal
    BY ONLY i \in 1..Len(a), <2>1, <2>2, ValueAlike
  <2> QED  BY <2>3
<1>6. /\ wb.next = m /\ Alike(a, b, i, m) /\ AllBelow(a, i, m) /\ AllBelow(b, i, m)
  <2>1. CASE a[i].dash
    <3>1. b[i].dash /\ va.next = i + 1 /\ vb.next = i + 1 /\ b[i].value \notin Literal
      BY <1>1, <1>3, <1>5, <2>1 DEF ScalarItems
    <3>2. /\ BelowAt(a, blockA, i).ok /\ BelowAt(b, blockB, i).ok
          /\ BelowAt(a, blockA, i).tree = BelowAt(b, blockB, i).tree
      BY <1>2, <1>3, <2>1
    <3>3. /\ ValueAt(a, blockA, i).next = i + 1 /\ ValueAt(b, blockB, i).next = i + 1
          /\ SameLine(a, b, i) /\ i <= Len(b)
      BY <1>1, <1>5, <3>1
    <3>4. /\ BelowAt(a, blockA, i).next = BelowAt(b, blockB, i).next
          /\ Alike(a, b, i, BelowAt(a, blockA, i).next)
          /\ AllBelow(a, i, BelowAt(a, blockA, i).next)
          /\ AllBelow(b, i, BelowAt(a, blockA, i).next)
      BY ONLY Parsing(a, blockA), Parsing(b, blockB), i \in 1..Len(a),
              AgreeAfter(a, b, blockA, blockB, i), <2>1, <3>1, <3>2, <3>3, BelowAlike
    <3> QED  BY <3>4
  <2>2. CASE ~a[i].dash
    <3>1. wa = Done(Map(<<>>), va.next) /\ wb = Done(Map(<<>>), vb.next)
      BY <1>3, <2>2 DEF BelowAt
    <3>2. m = va.next /\ wb.next = vb.next
      <4> DEFINE empty == Map(<<>>)
      <4>1. wa = Done(empty, va.next) /\ wb = Done(empty, vb.next)
        BY <3>1
      <4>2. wa.next = va.next /\ wb.next = vb.next
        <5> HIDE DEF empty, va, vb, wa, wb
        <5> QED  BY <4>1, DoneFields
      <4> QED  BY <4>2
    <3> HIDE DEF va, vb, wa, wb
    <3> QED  BY <1>5, <3>2
  <2> QED  BY <2>1, <2>2
<1>7. m \in (i + 1)..(Len(a) + 1) /\ m <= Len(b) + 1
  <2>1. SoundAfter(a, blockA, i) /\ SoundAfter(b, blockB, i)
    BY <1>1, ParsingSound
  <2>2. va.next \in (i + 1)..(Len(a) + 1) /\ m \in va.next..(Len(a) + 1)
    BY <1>1, <1>2, <2>1, ValueForward, BelowForward
  <2>3. vb.next \in (i + 1)..(Len(b) + 1) /\ wb.next \in vb.next..(Len(b) + 1)
    BY <1>1, <1>2, <2>1, ValueForward, BelowForward
  <2>4. m \in (i + 1)..(Len(a) + 1)
    <3> HIDE DEF va, m
    <3> QED  BY <1>1, <2>2
  <2>5. wb.next <= Len(b) + 1
    <3> HIDE DEF vb, wb
    <3> QED  BY <1>1, <2>3
  <2> HIDE DEF va, vb, wa, wb, m
  <2> QED  BY <1>6, <2>4, <2>5
<1>8. /\ ra.next = rb.next /\ Alike(a, b, i, ra.next)
      /\ NotOut(a, i, ra.next) /\ NotOut(b, i, ra.next)
  <2>1. wa.next = m
    OBVIOUS
  <2> HIDE DEF m
  <2> QED  BY <1>1, <1>2, <1>3, <1>4, <1>6, <1>7, <2>1, RestAlike
<1> QED  BY <1>2, <1>8

LEMMA BlocksAgree ==
    ASSUME NEW a, NEW b, NEW blockA, NEW blockB, Parsing(a, blockA), Parsing(b, blockB),
           ScalarItems(b)
    PROVE  \A i \in 1..Len(a) : Agree(a, b, blockA, blockB, i)
<1> DEFINE n == Len(a)
           S == {i \in 1..n : Agree(a, b, blockA, blockB, i)}
<1>1. n \in Nat
  BY ParsingType
<1>2. ASSUME NEW k \in 1..n, \A j \in (k + 1)..n : j \in S PROVE k \in S
  <2>1. AgreeAfter(a, b, blockA, blockB, k)
    BY <1>2 DEF AgreeAfter
  <2>2. Agree(a, b, blockA, blockB, k)
    BY <2>1, BlockAgrees
  <2> QED  BY <2>2
<1>3. \A k \in 1..n : k \in S
  <2> HIDE DEF S, n
  <2> QED  BY <1>1, <1>2, Downward
<1> QED  BY <1>3

-----------------------------------------------------------------------------
(* The same tree, the same workflow *)

\* The lines that are kept are lines of the text.
LEMMA LinesOfText ==
    ASSUME NEW text \in Seq(WorkflowLine), ScalarItems(text)
    PROVE  ScalarItems(Lines(text))
<1> DEFINE L == {line \in WorkflowLine : line.dash => line.value # ""}
<1>1. \A i \in DOMAIN text : text[i] \in L
  <2>1. \A i \in DOMAIN text : text[i] \in WorkflowLine
    OBVIOUS
  <2> QED  BY <2>1 DEF ScalarItems
<1> HIDE DEF L
<1>2. text \in Seq(L)
  BY <1>1
<1>3. Lines(text) \in Seq(L)
  BY <1>2, LinesType
<1>4. \A i \in DOMAIN Lines(text) : Lines(text)[i] \in L
  <2> DEFINE lines == Lines(text)
  <2> HIDE DEF lines
  <2>1. lines \in Seq(L)
    BY <1>3 DEF lines
  <2>2. \A i \in DOMAIN lines : lines[i] \in L
    BY <2>1
  <2> QED  BY <2>2 DEF lines
<1> QED  BY <1>4 DEF ScalarItems, L

\* The line a line is below is the last one that is indented less.
LEMMA ParentFound ==
    ASSUME NEW lines \in Seq(WorkflowLine), NEW i \in 1..Len(lines)
    PROVE  \/ ParentOf(lines, i) \in 1..(i - 1) /\ IsParent(lines, ParentOf(lines, i), i)
           \/ ParentOf(lines, i) = 0 /\ \A j \in 1..(i - 1) : ~IsParent(lines, j, i)
<1> DEFINE outer == {j \in 1..(i - 1) : lines[j].indent < lines[i].indent}
<1>1. CASE outer = {}
  BY <1>1 DEF ParentOf, IsParent
<1>2. CASE outer # {}
  <2>1. PICK m \in 1..(i - 1) : lines[m].indent < lines[i].indent
    BY <1>2
  <2>2. 1 \in 1..i
    OBVIOUS
  <2>3. PICK j \in 1..(i - 1) : IsParent(lines, j, i)
    BY <2>1, <2>2, HasParent
  <2>4. j \in outer /\ \A k \in outer : k <= j
    <3>1. \A k \in (j + 1)..(i - 1) : ~(lines[k].indent < lines[i].indent)
      <4>1. ASSUME NEW k \in (j + 1)..(i - 1)
            PROVE  ~(lines[k].indent < lines[i].indent)
        <5>1. k \in 1..Len(lines)
          OBVIOUS
        <5>2. lines[k].indent \in Nat /\ lines[i].indent \in Nat
          BY <5>1, IndentType
        <5> QED  BY <2>3, <5>2 DEF IsParent
      <4> QED  BY <4>1
    <3>2. lines[j].indent < lines[i].indent
      BY <2>3 DEF IsParent
    <3> QED  BY <3>1, <3>2
  <2>5. ParentOf(lines, i) = CHOOSE k \in outer : \A l \in outer : l <= k
    BY <1>2 DEF ParentOf
  <2>6. ParentOf(lines, i) \in outer /\ \A l \in outer : l <= ParentOf(lines, i)
    <3> HIDE DEF outer
    <3> QED  BY <2>4, <2>5
  <2>7. ParentOf(lines, i) = j
    BY <2>4, <2>6
  <2> QED  BY <2>3, <2>7
<1> QED  BY <1>1, <1>2

\* Two parents of one line are the same.
LEMMA OneParent ==
    ASSUME NEW lines \in Seq(WorkflowLine), NEW i \in 1..Len(lines),
           NEW j \in 1..(i - 1), NEW k \in 1..(i - 1),
           IsParent(lines, j, i), IsParent(lines, k, i)
    PROVE  j = k
<1>1. lines[j].indent \in Nat /\ lines[k].indent \in Nat /\ lines[i].indent \in Nat
  <2>1. j \in 1..Len(lines) /\ k \in 1..Len(lines)
    OBVIOUS
  <2> QED  BY <2>1, IndentType
<1>2. ~(j < k) /\ ~(k < j)
  BY <1>1 DEF IsParent
<1> QED  BY <1>2

\* Two texts the parser takes for the reviewed workflow say line by line the same,
\* whatever mappings, lists and blocks they are made of: it loses nothing of what
\* the lines say and of how they are nested (_Parser, _assert_exact).
THEOREM ExactTextsAgree ==
    ASSUME NEW text \in Seq(WorkflowLine), NEW reviewed \in Seq(WorkflowLine),
           Exact(text), Exact(reviewed), ScalarItems(reviewed)
    PROVE  SameWorkflow(text, reviewed)
<1> DEFINE a == Lines(text)
           b == Lines(reviewed)
<1>1. a \in Seq(WorkflowLine) /\ b \in Seq(WorkflowLine)
  BY LinesType
<1>2. ScalarItems(b)
  BY LinesOfText
<1>3. a # <<>> /\ b # <<>> /\ Complete(Parse(a), a) /\ Complete(Parse(b), b)
      /\ Parse(a).tree = Parse(b).tree
  BY DEF Exact, Readable
<1> HIDE DEF a, b
<1>4. PICK blockA : Parsing(a, blockA) /\ Parse(a) = blockA[1]
  BY <1>1, ParseIsBlock DEF Parsing
<1>5. PICK blockB : Parsing(b, blockB) /\ Parse(b) = blockB[1]
  BY <1>1, ParseIsBlock DEF Parsing
<1>6. Len(a) \in Nat /\ Len(b) \in Nat /\ 1 \in 1..Len(a) /\ 1 <= Len(b)
      /\ DOMAIN a = 1..Len(a)
  <2>1. Len(a) \in Nat /\ Len(b) \in Nat /\ DOMAIN a = 1..Len(a)
    BY <1>1
  <2>2. Len(a) # 0 /\ Len(b) # 0
    BY <1>1, <1>3
  <2> QED  BY <2>1, <2>2
<1>7. Agree(a, b, blockA, blockB, 1)
  BY <1>2, <1>4, <1>5, <1>6, BlocksAgree
<1>8. Len(a) = Len(b) /\ Alike(a, b, 1, Len(a) + 1)
  <2>1. blockA[1].ok /\ blockB[1].ok /\ blockA[1].tree = blockB[1].tree
        /\ blockA[1].next = Len(a) + 1 /\ blockB[1].next = Len(b) + 1
    BY <1>3, <1>4, <1>5 DEF Complete
  <2>2. blockA[1].next = blockB[1].next /\ Alike(a, b, 1, blockA[1].next)
    BY <1>6, <1>7, <2>1 DEF Agree
  <2>3. Len(a) + 1 = Len(b) + 1
    BY <2>1, <2>2
  <2>4. Len(a) = Len(b)
    BY ONLY <1>6, <2>3
  <2> QED  BY <2>1, <2>2, <2>4
<1>9. ASSUME NEW i \in 1..Len(a)
      PROVE  /\ a[i].dash = b[i].dash /\ a[i].key = b[i].key
             /\ SameValue(a[i].value, b[i].value)
             /\ ParentOf(a, i) = ParentOf(b, i)
             /\ ParentOf(a, i) # 0 /\ b[ParentOf(a, i)].value \in Literal
                   => Content(a[i]) = Content(b[i])
  <2>1. i \in 1..((Len(a) + 1) - 1) /\ i \in 1..Len(b)
    BY ONLY <1>6, <1>8, i \in 1..Len(a)
  <2>2. /\ SameLine(a, b, i)
        /\ \A j \in 1..(i - 1) :
              /\ IsParent(a, j, i) <=> IsParent(b, j, i)
              /\ IsParent(b, j, i) /\ b[j].value \in Literal => Content(a[i]) = Content(b[i])
    BY <1>8, <2>1 DEF Alike
  <2>3. ParentOf(a, i) = ParentOf(b, i)
    <3> DEFINE p == ParentOf(a, i)
               q == ParentOf(b, i)
    <3>1. \/ p \in 1..(i - 1) /\ IsParent(a, p, i)
          \/ p = 0 /\ \A j \in 1..(i - 1) : ~IsParent(a, j, i)
      BY <1>1, ParentFound
    <3>2. \/ q \in 1..(i - 1) /\ IsParent(b, q, i)
          \/ q = 0 /\ \A j \in 1..(i - 1) : ~IsParent(b, j, i)
      BY <1>1, <2>1, ParentFound
    <3> HIDE DEF p, q
    <3>3. CASE p = 0 /\ q = 0
      BY <3>3 DEF p, q
    <3>4. CASE p \in 1..(i - 1) /\ q \in 1..(i - 1) /\ IsParent(a, p, i) /\ IsParent(b, q, i)
      <4>1. IsParent(a, q, i)
        BY <2>2, <3>4
      <4>2. p = q
        BY <1>1, <3>4, <4>1, OneParent
      <4> QED  BY <4>2 DEF p, q
    <3>5. CASE \/ p = 0 /\ (\A j \in 1..(i - 1) : ~IsParent(a, j, i)) /\ q # 0
               \/ q = 0 /\ (\A j \in 1..(i - 1) : ~IsParent(b, j, i)) /\ p # 0
      BY <2>2, <3>1, <3>2, <3>5
    <3> QED  BY <3>1, <3>2, <3>3, <3>4, <3>5
  <2>4. ParentOf(a, i) # 0 => ParentOf(a, i) \in 1..(i - 1) /\ IsParent(a, ParentOf(a, i), i)
    BY <1>1, ParentFound
  <2> QED  BY <2>2, <2>3, <2>4 DEF SameLine
<1> QED  BY <1>6, <1>8, <1>9 DEF SameWorkflow, a, b

=============================================================================
