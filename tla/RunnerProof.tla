---------------------------- MODULE RunnerProof ----------------------------
(***************************************************************************)
(* Proofs about buildJob and the runner script.  First what the helpers     *)
(* return: the last entry of a variable in layered environments, the refs   *)
(* that rendering leaves, the parts of a Job's name.  Then the script, from *)
(* one inductive invariant with a part per promise.                         *)
(***************************************************************************)
EXTENDS Runner, SequenceTheorems, WellFoundedInduction, TLAPS

-----------------------------------------------------------------------------
(* Numbers.                                                                  *)

\* A set of numbers that is not empty has a least one.
LEMMA LeastNumber ==
    ASSUME NEW T, T \subseteq Nat, T # {}
    PROVE  \E x \in T : \A y \in T : x <= y
<1>1. PICK x \in T : \A y \in T : <<y, x>> \notin OpToRel(<, Nat)
    BY NatLessThanWellFounded, WFMin
<1>2. \A y \in T : ~(y < x)
    BY <1>1 DEF OpToRel
<1> QED  BY <1>2

\* A set of positions of a sequence has a last one.
LEMMA LastPosition ==
    ASSUME NEW n \in Nat, NEW T, T \subseteq 1..n, T # {}
    PROVE  \E i \in T : \A j \in T : j <= i
<1> DEFINE D == {m \in Nat : n - m \in T}
<1>1. D # {} /\ D \subseteq Nat
  <2>1. PICK i \in T : TRUE  OBVIOUS
  <2>2. n - i \in D  BY <2>1
  <2> QED  BY <2>2
<1> HIDE DEF D
<1>2. PICK m \in D : \A y \in D : m <= y
    BY <1>1, LeastNumber
<1> USE DEF D
<1>3. n - m \in T  BY <1>2
<1>4. ASSUME NEW j \in T PROVE j <= n - m
  <2>1. j \in Nat /\ n - j \in Nat /\ n - (n - j) = j  OBVIOUS
  <2>2. n - j \in D  BY <2>1
  <2> QED  BY <1>2, <2>1, <2>2
<1> QED  BY <1>3, <1>4

-----------------------------------------------------------------------------
(* Environments.                                                             *)

\* What CHOOSE picks: the value of the last entry with the name.
LEMMA GetenvLast ==
    ASSUME NEW E, NEW s \in Seq(E), NEW name, NEW i \in Sets(s, name),
           \A j \in Sets(s, name) : j <= i
    PROVE  Getenv(s, name) = s[i].value
<1>1. DOMAIN s = 1..Len(s) /\ Len(s) \in Nat  BY LenProperties
<1>2. \A k \in Sets(s, name) : k \in Nat  BY <1>1 DEF Sets
<1>3. \A k \in Sets(s, name) : (\A j \in Sets(s, name) : j <= k) => k = i
    BY <1>2
<1>4. (CHOOSE k \in Sets(s, name) : \A j \in Sets(s, name) : j <= k) = i
    BY <1>3
<1> QED  BY <1>4 DEF Getenv

LEMMA LastEntry ==
    ASSUME NEW E, NEW s \in Seq(E), NEW name, Sets(s, name) # {}
    PROVE  \E i \in Sets(s, name) : \A j \in Sets(s, name) : j <= i
<1>1. DOMAIN s = 1..Len(s) /\ Len(s) \in Nat  BY LenProperties
<1>2. Sets(s, name) \subseteq 1..Len(s)  BY <1>1 DEF Sets
<1> QED  BY <1>1, <1>2, LastPosition

\* A layer behind another decides every variable it sets.
LEMMA LayerOver ==
    ASSUME NEW E, NEW s \in Seq(E), NEW t \in Seq(E), NEW name
    PROVE  /\ Sets(t, name) # {} => Sets(s \o t, name) # {} /\ Getenv(s \o t, name) = Getenv(t, name)
           /\ Sets(t, name) = {} /\ Sets(s, name) # {} =>
                  Sets(s \o t, name) # {} /\ Getenv(s \o t, name) = Getenv(s, name)
<1>1. /\ DOMAIN s = 1..Len(s) /\ Len(s) \in Nat
      /\ DOMAIN t = 1..Len(t) /\ Len(t) \in Nat
    BY LenProperties
<1>2. /\ s \o t \in Seq(E) /\ Len(s \o t) = Len(s) + Len(t)
      /\ \A i \in 1..(Len(s) + Len(t)) :
            (s \o t)[i] = IF i <= Len(s) THEN s[i] ELSE t[i - Len(s)]
    BY ConcatProperties
<1>3. DOMAIN (s \o t) = 1..(Len(s) + Len(t))  BY <1>2, LenProperties
<1>4. ASSUME NEW i \in Sets(t, name), \A j \in Sets(t, name) : j <= i
      PROVE  /\ Len(s) + i \in Sets(s \o t, name)
             /\ \A j \in Sets(s \o t, name) : j <= Len(s) + i
             /\ (s \o t)[Len(s) + i] = t[i]
  <2>1. i \in 1..Len(t) /\ t[i].name = name  BY <1>1 DEF Sets
  <2>2. (s \o t)[Len(s) + i] = t[i]
    <3>1. Len(s) + i \in 1..(Len(s) + Len(t))  BY <1>1, <2>1
    <3>2. ~(Len(s) + i <= Len(s)) /\ (Len(s) + i) - Len(s) = i  BY <1>1, <2>1
    <3> QED  BY <1>2, <3>1, <3>2
  <2>3. Len(s) + i \in Sets(s \o t, name)  BY <1>1, <1>3, <2>1, <2>2 DEF Sets
  <2>4. ASSUME NEW j \in Sets(s \o t, name) PROVE j <= Len(s) + i
    <3>1. j \in 1..(Len(s) + Len(t)) /\ (s \o t)[j].name = name  BY <1>3 DEF Sets
    <3>2. CASE j <= Len(s)  BY <1>1, <2>1, <3>1, <3>2
    <3>3. CASE ~(j <= Len(s))
      <4>1. j - Len(s) \in 1..Len(t) /\ t[j - Len(s)].name = name
          BY <1>1, <1>2, <3>1, <3>3
      <4>2. j - Len(s) \in Sets(t, name)  BY <1>1, <4>1 DEF Sets
      <4> QED  BY <1>1, <1>4, <2>1, <3>1, <4>2
    <3> QED  BY <3>2, <3>3
  <2> QED  BY <2>2, <2>3, <2>4
<1>5. ASSUME Sets(t, name) = {}, NEW i \in Sets(s, name),
             \A j \in Sets(s, name) : j <= i
      PROVE  /\ i \in Sets(s \o t, name)
             /\ \A j \in Sets(s \o t, name) : j <= i
             /\ (s \o t)[i] = s[i]
  <2>1. i \in 1..Len(s) /\ s[i].name = name  BY <1>1 DEF Sets
  <2>2. (s \o t)[i] = s[i] /\ i \in 1..(Len(s) + Len(t))  BY <1>1, <1>2, <2>1
  <2>3. i \in Sets(s \o t, name)  BY <1>3, <2>1, <2>2 DEF Sets
  <2>4. ASSUME NEW j \in Sets(s \o t, name) PROVE j <= i
    <3>1. j \in 1..(Len(s) + Len(t)) /\ (s \o t)[j].name = name  BY <1>3 DEF Sets
    <3>2. CASE j <= Len(s)
      <4>1. j \in Sets(s, name)  BY <1>1, <1>2, <3>1, <3>2 DEF Sets
      <4> QED  BY <1>5, <4>1
    <3>3. CASE ~(j <= Len(s))
      <4>1. j - Len(s) \in 1..Len(t) /\ t[j - Len(s)].name = name
          BY <1>1, <1>2, <3>1, <3>3
      <4>2. j - Len(s) \in Sets(t, name)  BY <1>1, <4>1 DEF Sets
      <4> QED  BY <1>5, <4>2
    <3> QED  BY <3>2, <3>3
  <2> QED  BY <2>2, <2>3, <2>4
<1>6. ASSUME Sets(t, name) # {}
      PROVE  Sets(s \o t, name) # {} /\ Getenv(s \o t, name) = Getenv(t, name)
  <2>1. PICK i \in Sets(t, name) : \A j \in Sets(t, name) : j <= i
      BY <1>6, LastEntry
  <2>2. Getenv(t, name) = t[i].value  BY <2>1, GetenvLast
  <2>3. Getenv(s \o t, name) = (s \o t)[Len(s) + i].value
      BY <1>2, <1>4, <2>1, GetenvLast
  <2> QED  BY <1>4, <2>1, <2>2, <2>3
<1>7. ASSUME Sets(t, name) = {}, Sets(s, name) # {}
      PROVE  Sets(s \o t, name) # {} /\ Getenv(s \o t, name) = Getenv(s, name)
  <2>1. PICK i \in Sets(s, name) : \A j \in Sets(s, name) : j <= i
      BY <1>7, LastEntry
  <2>2. Getenv(s, name) = s[i].value  BY <2>1, GetenvLast
  <2>3. Getenv(s \o t, name) = (s \o t)[i].value
      BY <1>2, <1>5, <1>7, <2>1, GetenvLast
  <2> QED  BY <1>5, <1>7, <2>1, <2>2, <2>3
<1> QED  BY <1>6, <1>7

-----------------------------------------------------------------------------
(* Refs.                                                                     *)

Names == {Rendered[t] : t \in DOMAIN Rendered} \ {Blank}

\* One turn of the loop of renderRefFallbacks.
Turn(out, template) ==
    IF Rendered[template] = Blank THEN out ELSE Append(out, Rendered[template])

Loop(f, templates, n) ==
    f = [i \in 0..n |-> IF i = 0 THEN <<>> ELSE Turn(f[i - 1], templates[i])]

\* The loop's function is there: each turn extends that of the turns before.
LEMMA LoopRuns ==
    ASSUME NEW templates, NEW n \in Nat
    PROVE  \E f : Loop(f, templates, n)
<1> DEFINE T == {m \in Nat : ~ \E f : Loop(f, templates, m)}
<1>1. SUFFICES ASSUME T # {} PROVE FALSE
    OBVIOUS
<1>2. PICK m \in T : \A k \in T : m <= k
  <2> HIDE DEF T
  <2>1. T \subseteq Nat  BY DEF T
  <2> QED  BY <1>1, <2>1, LeastNumber
<1>3. m \in Nat /\ ~ \E f : Loop(f, templates, m)
    OBVIOUS
<1>4. CASE m = 0
  <2> DEFINE f == [i \in 0..0 |-> <<>>]
  <2>1. f = [i \in 0..0 |-> IF i = 0 THEN <<>> ELSE Turn(f[i - 1], templates[i])]
      OBVIOUS
  <2> QED  BY <1>3, <1>4, <2>1 DEF Loop
<1>5. CASE m # 0
  <2>1. m - 1 \in Nat /\ m - 1 \notin T  BY <1>2, <1>3, <1>5
  <2>2. PICK g : Loop(g, templates, m - 1)  BY <2>1
  <2> DEFINE f == [i \in 0..m |-> IF i = m THEN Turn(g[m - 1], templates[m]) ELSE g[i]]
  <2>3. \A i \in 0..(m - 1) : f[i] = g[i]  BY <1>3
  <2>4. ASSUME NEW i \in 0..m
        PROVE  f[i] = IF i = 0 THEN <<>> ELSE Turn(f[i - 1], templates[i])
    <3>1. CASE i = m
      <4>1. f[i] = Turn(g[m - 1], templates[m])  BY <3>1
      <4>2. f[m - 1] = g[m - 1]  BY <1>3, <1>5, <2>3
      <4> QED  BY <1>5, <3>1, <4>1, <4>2
    <3>2. CASE i # m /\ i # 0
      <4>1. i \in 0..(m - 1) /\ i - 1 \in 0..(m - 1)  BY <1>3, <3>2
      <4>2. f[i] = g[i] /\ f[i - 1] = g[i - 1]  BY <2>3, <4>1
      <4>3. g[i] = Turn(g[i - 1], templates[i])
        <5> HIDE DEF f
        <5> QED  BY <2>2, <3>2, <4>1 DEF Loop
      <4> HIDE DEF f
      <4> QED  BY <3>2, <4>2, <4>3
    <3>3. CASE i = 0
      <4>1. 0 \in 0..(m - 1) /\ f[0] = g[0]  BY <1>3, <1>5, <2>3
      <4>2. g[0] = <<>>
        <5> HIDE DEF f
        <5> QED  BY <2>2, <4>1 DEF Loop
      <4> HIDE DEF f
      <4> QED  BY <3>3, <4>1, <4>2
    <3> QED  BY <3>1, <3>2, <3>3
  <2>5. f = [i \in 0..m |-> IF i = 0 THEN <<>> ELSE Turn(f[i - 1], templates[i])]
    <3>1. f = [i \in 0..m |-> f[i]]  OBVIOUS
    <3> HIDE DEF f
    <3> QED  BY <2>4, <3>1
  <2>6. Loop(f, templates, m)
    <3> HIDE DEF f
    <3> QED  BY <2>5 DEF Loop
  <2> QED  BY <1>3, <2>6
<1> QED  BY <1>4, <1>5

\* What the loop has after k turns: names only; each of the first k templates is
\* blank or there; and what comes before an entry's template comes before the
\* entry.
InOrder(out, templates, k) ==
    /\ out \in Seq(Names)
    /\ \A j \in 1..k : \/ Rendered[templates[j]] = Blank
                       \/ \E l \in 1..Len(out) : out[l] = Rendered[templates[j]]
    /\ \A l \in 1..Len(out) : \E i \in 1..k :
          /\ out[l] = Rendered[templates[i]]
          /\ \A j \in 1..(i - 1) : \/ Rendered[templates[j]] = Blank
                                   \/ \E e \in 1..(l - 1) : out[e] = Rendered[templates[j]]

LEMMA TurnKeepsOrder ==
    ASSUME NEW templates \in Seq(DOMAIN Rendered), NEW k \in 1..Len(templates),
           NEW out, InOrder(out, templates, k - 1)
    PROVE  InOrder(Turn(out, templates[k]), templates, k)
<1>1. out \in Seq(Names) /\ Len(out) \in Nat  BY DEF InOrder
<1>2. templates[k] \in DOMAIN Rendered  BY ElementOfSeq
<1>3. k \in Nat /\ Len(templates) \in Nat  OBVIOUS
<1>4. CASE Rendered[templates[k]] = Blank
  <2>1. Turn(out, templates[k]) = out  BY <1>4 DEF Turn
  <2>2. \A j \in 1..k : j = k \/ j \in 1..(k - 1)  BY <1>3
  <2>3. 1..(k - 1) \subseteq 1..k  BY <1>3
  <2>4. \A j \in 1..k : \/ Rendered[templates[j]] = Blank
                       \/ \E l \in 1..Len(out) : out[l] = Rendered[templates[j]]
      BY <1>4, <2>2 DEF InOrder
  <2> QED  BY <2>1, <2>3, <2>4 DEF InOrder
<1>5. CASE Rendered[templates[k]] # Blank
  <2> DEFINE e == Rendered[templates[k]]
             new == Append(out, e)
  <2>1. e \in Names  BY <1>2, <1>5 DEF Names
  <2>2. Turn(out, templates[k]) = new  BY <1>5 DEF Turn
  <2> HIDE DEF e
  <2>3. /\ new \in Seq(Names) /\ Len(new) = Len(out) + 1
        /\ \A i \in 1..Len(out) : new[i] = out[i]
        /\ new[Len(out) + 1] = e
      BY <1>1, <2>1, AppendProperties
  <2> HIDE DEF new
  <2>4. ASSUME NEW j \in 1..k
        PROVE  \/ Rendered[templates[j]] = Blank
               \/ \E l \in 1..Len(new) : new[l] = Rendered[templates[j]]
    <3>1. CASE j = k
      <4>1. Len(out) + 1 \in 1..Len(new)  BY <1>1, <2>3
      <4> QED  BY <2>3, <3>1, <4>1 DEF e
    <3>2. CASE j # k
      <4>1. j \in 1..(k - 1)  BY <1>3, <3>2
      <4>2. CASE Rendered[templates[j]] # Blank
        <5>1. PICK l \in 1..Len(out) : out[l] = Rendered[templates[j]]
            BY <4>1, <4>2 DEF InOrder
        <5>2. l \in 1..Len(new) /\ new[l] = out[l]  BY <1>1, <2>3
        <5> QED  BY <5>1, <5>2
      <4> QED  BY <4>2
    <3> QED  BY <3>1, <3>2
  <2>5. ASSUME NEW l \in 1..Len(new)
        PROVE  \E i \in 1..k :
                  /\ new[l] = Rendered[templates[i]]
                  /\ \A j \in 1..(i - 1) :
                        \/ Rendered[templates[j]] = Blank
                        \/ \E d \in 1..(l - 1) : new[d] = Rendered[templates[j]]
    <3>1. CASE l \in 1..Len(out)
      <4>1. PICK i \in 1..(k - 1) :
              /\ out[l] = Rendered[templates[i]]
              /\ \A j \in 1..(i - 1) :
                    \/ Rendered[templates[j]] = Blank
                    \/ \E d \in 1..(l - 1) : out[d] = Rendered[templates[j]]
          BY <3>1 DEF InOrder
      <4>2. i \in 1..k /\ new[l] = out[l] /\ \A d \in 1..(l - 1) : new[d] = out[d]
          BY <1>1, <1>3, <2>3, <3>1
      <4> QED  BY <4>1, <4>2
    <3>2. CASE l \notin 1..Len(out)
      <4>1. l = Len(out) + 1 /\ l - 1 = Len(out)  BY <1>1, <2>3, <3>2
      <4>2. new[l] = Rendered[templates[k]]  BY <2>3, <4>1 DEF e
      <4>3. ASSUME NEW j \in 1..(k - 1), Rendered[templates[j]] # Blank
            PROVE  \E d \in 1..(l - 1) : new[d] = Rendered[templates[j]]
        <5>1. PICK d \in 1..Len(out) : out[d] = Rendered[templates[j]]
            BY <4>3 DEF InOrder
        <5> QED  BY <2>3, <4>1, <5>1
      <4>4. k \in 1..k  BY <1>3
      <4> QED  BY <4>2, <4>3, <4>4
    <3> QED  BY <3>1, <3>2
  <2>6. new \in Seq(Names)  BY <2>3
  <2>7. InOrder(new, templates, k)  BY ONLY <2>4, <2>5, <2>6 DEF InOrder
  <2> QED  BY <2>2, <2>7
<1> QED  BY <1>4, <1>5

\* renderRefFallbacks: names only, in the order of their templates.
LEMMA RenderInOrder ==
    ASSUME NEW templates \in Seq(DOMAIN Rendered)
    PROVE  InOrder(RenderRefFallbacks(templates), templates, Len(templates))
<1> DEFINE n == Len(templates)
           F == CHOOSE f : Loop(f, templates, n)
<1>1. n \in Nat  OBVIOUS
<1>2. Loop(F, templates, n)  BY <1>1, LoopRuns
<1>3. RenderRefFallbacks(templates) = F[n]
    BY DEF RenderRefFallbacks, Loop, Turn
<1> HIDE DEF F, n
<1>4. F[0] = <<>> /\ \A i \in 1..n : F[i] = Turn(F[i - 1], templates[i])
  <2>1. 0 \in 0..n  BY <1>1
  <2>2. F[0] = <<>>  BY <1>2, <2>1 DEF Loop
  <2>3. ASSUME NEW i \in 1..n PROVE F[i] = Turn(F[i - 1], templates[i])
    <3>1. i \in 0..n /\ i # 0  BY <1>1
    <3> QED  BY <1>2, <3>1 DEF Loop
  <2> QED  BY <2>2, <2>3
<1> DEFINE T == {m \in 0..n : ~InOrder(F[m], templates, m)}
<1>5. T = {}
  <2>1. SUFFICES ASSUME T # {} PROVE FALSE  OBVIOUS
  <2>2. PICK m \in T : \A k \in T : m <= k
    <3>1. T \subseteq Nat  BY <1>1
    <3> HIDE DEF T
    <3> QED  BY <2>1, <3>1, LeastNumber
  <2>3. CASE m = 0
    <3>1. F[0] \in Seq(Names) /\ Len(F[0]) = 0  BY <1>4, EmptySeq
    <3> QED  BY <2>3, <3>1 DEF InOrder
  <2>4. CASE m # 0
    <3>1. m \in 1..n /\ m - 1 \in 0..n /\ m - 1 \notin T  BY <1>1, <2>2, <2>4
    <3>2. InOrder(F[m - 1], templates, m - 1)  BY <3>1
    <3> QED  BY <1>4, <3>1, <3>2, TurnKeepsOrder DEF n
  <2> QED  BY <2>3, <2>4
<1> QED  BY <1>1, <1>3, <1>5 DEF n

-----------------------------------------------------------------------------
(* Names.                                                                    *)

LEMMA NumbersOfNames ==
    /\ HashLen \in Nat /\ NameMax \in Nat /\ MaxPack \in Nat
    /\ NameMax = MaxPack + HashLen + 4
<1>1. HashLen \in Nat /\ NameMax \in Nat /\ NameMax > HashLen + 4
    BY JobSpecAssumption
<1> QED  BY <1>1 DEF MaxPack

LEMMA NormalIsName ==
    ASSUME NEW name \in Seq(Chars)
    PROVE  Normal(name) \in Seq(Chars)
<1>1. Fold \in [Chars -> Chars]  BY JobSpecAssumption
<1>2. DOMAIN name = 1..Len(name) /\ Len(name) \in Nat  BY LenProperties
<1>3. \A i \in 1..Len(name) : Fold[name[i]] \in Chars  BY <1>1, ElementOfSeq
<1>4. Normal(name) \in [1..Len(name) -> Chars]  BY <1>2, <1>3 DEF Normal
<1> QED  BY <1>2, <1>4, SeqDef

\* Where the parts of a name stand.
LEMMA PartsOfName ==
    ASSUME NEW front \in Seq(Chars), NEW pack \in Seq(Chars)
    PROVE  /\ Joined(front, pack) \in Seq(Chars)
           /\ Len(Joined(front, pack)) = Len(front) + Len(pack) + 4
           /\ \A i \in 1..Len(front) : Joined(front, pack)[i + 3] = front[i]
           /\ Joined(front, pack)[Len(front) + 4] = "-"
           /\ \A i \in 1..Len(pack) : Joined(front, pack)[Len(front) + 4 + i] = pack[i]
<1> DEFINE A == Prefix \o front
           B == A \o <<"-">>
<1>1. /\ Prefix \in Seq(Chars) /\ Len(Prefix) = 3
      /\ <<"-">> \in Seq(Chars) /\ Len(<<"-">>) = 1 /\ <<"-">>[1] = "-"
    BY JobSpecAssumption DEF Prefix
<1>2. Len(front) \in Nat /\ Len(pack) \in Nat  OBVIOUS
<1>3. /\ A \in Seq(Chars) /\ Len(A) = 3 + Len(front)
      /\ \A i \in 1..(3 + Len(front)) :
            A[i] = IF i <= 3 THEN Prefix[i] ELSE front[i - 3]
  <2>1. Prefix \in Seq(Chars) /\ front \in Seq(Chars)  BY <1>1
  <2>2. /\ A \in Seq(Chars) /\ Len(A) = Len(Prefix) + Len(front)
        /\ \A i \in 1..(Len(Prefix) + Len(front)) :
              A[i] = IF i <= Len(Prefix) THEN Prefix[i] ELSE front[i - Len(Prefix)]
      BY ONLY <2>1, ConcatProperties
  <2> HIDE DEF A
  <2>3. Len(Prefix) = 3  BY <1>1
  <2> QED  BY ONLY <2>2, <2>3
<1> HIDE DEF A
<1>4. /\ B \in Seq(Chars) /\ Len(B) = Len(A) + 1
      /\ \A i \in 1..(Len(A) + 1) :
            B[i] = IF i <= Len(A) THEN A[i] ELSE <<"-">>[i - Len(A)]
    BY <1>1, <1>3, ConcatProperties
<1> HIDE DEF B
<1>5. Joined(front, pack) = B \o pack  BY DEF Joined, A, B
<1>6. /\ B \o pack \in Seq(Chars) /\ Len(B \o pack) = Len(B) + Len(pack)
      /\ \A i \in 1..(Len(B) + Len(pack)) :
            (B \o pack)[i] = IF i <= Len(B) THEN B[i] ELSE pack[i - Len(B)]
  <2>1. B \in Seq(Chars) /\ pack \in Seq(Chars)  BY <1>4
  <2> QED  BY ONLY <2>1, ConcatProperties
<1>7. ASSUME NEW i \in 1..Len(front) PROVE (B \o pack)[i + 3] = front[i]
  <2>1. /\ i + 3 \in 1..(3 + Len(front)) /\ i + 3 \in 1..(Len(A) + 1)
        /\ i + 3 \in 1..(Len(B) + Len(pack)) /\ i + 3 <= Len(A) /\ i + 3 <= Len(B)
        /\ ~(i + 3 <= 3) /\ i + 3 - 3 = i
      BY <1>2, <1>3, <1>4
  <2>2. A[i + 3] = front[i]  BY <1>3, <2>1
  <2>3. B[i + 3] = A[i + 3]  BY <1>4, <2>1
  <2>4. (B \o pack)[i + 3] = B[i + 3]  BY <1>6, <2>1
  <2> QED  BY <2>2, <2>3, <2>4
<1>8. (B \o pack)[Len(front) + 4] = "-"
  <2>1. /\ Len(front) + 4 \in 1..(Len(A) + 1) /\ Len(front) + 4 - Len(A) = 1
        /\ ~(Len(front) + 4 <= Len(A))
        /\ Len(front) + 4 \in 1..(Len(B) + Len(pack)) /\ Len(front) + 4 <= Len(B)
      BY <1>2, <1>3, <1>4
  <2>2. B[Len(front) + 4] = <<"-">>[1]  BY <1>4, <2>1
  <2>3. (B \o pack)[Len(front) + 4] = B[Len(front) + 4]  BY <1>6, <2>1
  <2> QED  BY <1>1, <2>2, <2>3
<1>9. ASSUME NEW i \in 1..Len(pack) PROVE (B \o pack)[Len(front) + 4 + i] = pack[i]
  <2>1. /\ Len(front) + 4 + i \in 1..(Len(B) + Len(pack))
        /\ ~(Len(front) + 4 + i <= Len(B)) /\ Len(front) + 4 + i - Len(B) = i
      BY <1>2, <1>3, <1>4
  <2> QED  BY <1>6, <2>1
<1> QED  BY <1>2, <1>3, <1>4, <1>5, <1>6, <1>7, <1>8, <1>9

\* Behind the same front, the packs are as equal as the names.
LEMMA SameFront ==
    ASSUME NEW front \in Seq(Chars), NEW p \in Seq(Chars), NEW q \in Seq(Chars),
           Joined(front, p) = Joined(front, q)
    PROVE  p = q
<1> DEFINE J == Joined(front, p)
<1>1. /\ Len(J) = Len(front) + Len(p) + 4 /\ Len(J) = Len(front) + Len(q) + 4
      /\ \A i \in 1..Len(p) : J[Len(front) + 4 + i] = p[i]
      /\ \A i \in 1..Len(q) : J[Len(front) + 4 + i] = q[i]
  <2>1. /\ Len(J) = Len(front) + Len(p) + 4
        /\ \A i \in 1..Len(p) : J[Len(front) + 4 + i] = p[i]
      BY PartsOfName
  <2>2. /\ Len(Joined(front, q)) = Len(front) + Len(q) + 4
        /\ \A i \in 1..Len(q) : Joined(front, q)[Len(front) + 4 + i] = q[i]
      BY PartsOfName
  <2>3. J = Joined(front, q)  OBVIOUS
  <2> HIDE DEF J
  <2> QED  BY <2>1, <2>2, <2>3
<1> HIDE DEF J
<1>2. Len(p) = Len(q)
  <2>1. Len(front) \in Nat /\ Len(p) \in Nat /\ Len(q) \in Nat  OBVIOUS
  <2> QED  BY <1>1, <2>1
<1>3. \A i \in 1..Len(p) : p[i] = q[i]  BY <1>1, <1>2
<1> QED  BY <1>2, <1>3, SeqEqual

\* A name with the Arrival's own name and one with its digest differ: the
\* digest has no dash where a shorter name is followed by one, and no name
\* begins with its own.
LEMMA HashedApart ==
    ASSUME NEW a \in ArrivalNames, NEW p \in Seq(Chars), NEW q \in Seq(Chars)
    PROVE  Joined(Normal(a), p) # Joined(Digest(Normal(a)), q)
<1> DEFINE N == Normal(a)
           D == Digest(N)
<1>1. N \in Seq(Chars)  BY JobSpecAssumption, NormalIsName
<1>2. D \in Seq(Chars \ {"-"}) /\ Len(D) = HashLen /\ SubSeq(N, 1, HashLen) # D
    BY DigestAssumption
<1> HIDE DEF N, D
<1>3. D \in Seq(Chars)  BY <1>2, SeqMonotonic
<1>4. SUFFICES ASSUME Joined(N, p) = Joined(D, q) PROVE FALSE
    BY DEF N, D
<1> DEFINE J == Joined(N, p)
<1>5. /\ \A i \in 1..Len(N) : J[i + 3] = N[i]
      /\ J[Len(N) + 4] = "-"
      /\ \A i \in 1..Len(D) : J[i + 3] = D[i]
  <2>1. /\ \A i \in 1..Len(N) : J[i + 3] = N[i]
        /\ J[Len(N) + 4] = "-"
      BY <1>1, PartsOfName
  <2>2. \A i \in 1..Len(D) : Joined(D, q)[i + 3] = D[i]
      BY <1>3, PartsOfName
  <2>3. J = Joined(D, q)  BY <1>4
  <2> HIDE DEF J
  <2> QED  BY <2>1, <2>2, <2>3
<1> HIDE DEF J
<1>6. Len(N) \in Nat /\ HashLen \in Nat  BY <1>1, NumbersOfNames
<1>7. CASE Len(N) < HashLen
  <2>1. Len(N) + 1 \in 1..Len(D)  BY <1>2, <1>6, <1>7
  <2>2. D[Len(N) + 1] \in Chars \ {"-"}  BY <1>2, <2>1, ElementOfSeq
  <2>3. J[(Len(N) + 1) + 3] = D[Len(N) + 1]  BY <1>5, <2>1
  <2>4. (Len(N) + 1) + 3 = Len(N) + 4  BY <1>6
  <2> QED  BY <1>5, <2>2, <2>3, <2>4
<1>8. CASE ~(Len(N) < HashLen)
  <2> DEFINE S == SubSeq(N, 1, HashLen)
  <2>1. \A i \in 1..HashLen : i \in 1..Len(N) /\ i \in 1..Len(D)
      BY <1>2, <1>6, <1>8
  <2>2. \A i \in 1..HashLen : N[i] \in Chars  BY <1>1, <2>1, ElementOfSeq
  <2>3. /\ S \in Seq(Chars) /\ Len(S) = HashLen
        /\ \A i \in 1..HashLen : S[i] = N[i]
    <3>1. 1 \in Int /\ HashLen \in Int  BY <1>6
    <3>2. /\ S \in Seq(Chars)
          /\ Len(S) = IF 1 <= HashLen THEN HashLen - 1 + 1 ELSE 0
          /\ \A i \in 1..(HashLen - 1 + 1) : S[i] = N[1 + i - 1]
        BY <2>2, <3>1, SubSeqProperties
    <3>3. HashLen - 1 + 1 = HashLen /\ \A i \in 1..HashLen : 1 + i - 1 = i  BY <1>6
    <3>4. Len(S) = HashLen
      <4> HIDE DEF S
      <4> QED  BY <1>6, <3>2
    <3> HIDE DEF S
    <3> QED  BY <3>2, <3>3, <3>4
  <2> HIDE DEF S
  <2>4. \A i \in 1..HashLen : N[i] = D[i]  BY <1>5, <2>1
  <2>5. S = D  BY <1>2, <1>3, <2>3, <2>4, SeqEqual
  <2> QED  BY <1>2, <2>5 DEF S
<1> QED  BY <1>7, <1>8

\* TrimRight gives a beginning of the name.
LEMMA TrimmedIsShorter ==
    ASSUME NEW name \in Seq(Chars)
    PROVE  TrimRight(name) \in Seq(Chars) /\ Len(TrimRight(name)) <= Len(name)
<1> DEFINE solid == {i \in DOMAIN name : name[i] # "-"}
           last == CHOOSE i \in solid : \A j \in solid : j <= i
<1>1. DOMAIN name = 1..Len(name) /\ Len(name) \in Nat  BY LenProperties
<1>2. CASE solid = {}
  <2>1. TrimRight(name) = <<>>  BY <1>2 DEF TrimRight
  <2> QED  BY <1>1, <2>1, EmptySeq
<1>3. CASE solid # {}
  <2>1. TrimRight(name) = SubSeq(name, 1, last)  BY <1>3 DEF TrimRight
  <2>2. \E i \in solid : \A j \in solid : j <= i
    <3>1. solid \subseteq 1..Len(name)  BY <1>1
    <3> HIDE DEF solid
    <3> QED  BY <1>1, <1>3, <3>1, LastPosition
  <2>3. last \in solid  BY <2>2
  <2>4. last \in 1..Len(name)  BY <1>1, <2>3
  <2> HIDE DEF last
  <2>5. \A i \in 1..last : name[i] \in Chars  BY <2>4, ElementOfSeq
  <2>6. /\ SubSeq(name, 1, last) \in Seq(Chars)
        /\ Len(SubSeq(name, 1, last)) = IF 1 <= last THEN last - 1 + 1 ELSE 0
      BY <2>4, <2>5, SubSeqProperties
  <2> QED  BY <1>1, <2>1, <2>4, <2>6
<1> QED  BY <1>2, <1>3

LEMMA CutFits ==
    ASSUME NEW pack \in Seq(Chars)
    PROVE  CutPack(pack) \in Seq(Chars) /\ Len(CutPack(pack)) <= MaxPack
<1>1. MaxPack \in Nat /\ Len(pack) \in Nat  BY NumbersOfNames
<1>2. CASE ~(Len(pack) > MaxPack)  BY <1>1, <1>2 DEF CutPack
<1>3. CASE Len(pack) > MaxPack
  <2> DEFINE S == SubSeq(pack, 1, MaxPack)
  <2>1. \A i \in 1..MaxPack : pack[i] \in Chars  BY <1>1, <1>3, ElementOfSeq
  <2>2. S \in Seq(Chars) /\ Len(S) = IF 1 <= MaxPack THEN MaxPack - 1 + 1 ELSE 0
      BY <1>1, <2>1, SubSeqProperties
  <2>3. CutPack(pack) = TrimRight(S)  BY <1>3 DEF CutPack
  <2> HIDE DEF S
  <2>4. Len(S) = MaxPack  BY <1>1, <2>2
  <2> QED  BY <2>2, <2>3, <2>4, TrimmedIsShorter
<1> QED  BY <1>2, <1>3

\* jobNameFor: a name fits ...
LEMMA JobNameFits ==
    ASSUME NEW a \in ArrivalNames, NEW p \in PackNames
    PROVE  Len(JobNameFor(a, p)) <= NameMax
<1>1. /\ Normal(a) \in Seq(Chars) /\ Normal(p) \in Seq(Chars)
    BY JobSpecAssumption, NormalIsName
<1>2. CASE Len(Joined(Normal(a), Normal(p))) <= NameMax  BY <1>2 DEF JobNameFor
<1>3. CASE ~(Len(Joined(Normal(a), Normal(p))) <= NameMax)
  <2>1. JobNameFor(a, p) = Joined(Digest(Normal(a)), CutPack(Normal(p)))
      BY <1>3 DEF JobNameFor
  <2>2. Digest(Normal(a)) \in Seq(Chars) /\ Len(Digest(Normal(a))) = HashLen
      BY DigestAssumption, SeqMonotonic
  <2>3. CutPack(Normal(p)) \in Seq(Chars) /\ Len(CutPack(Normal(p))) <= MaxPack
      BY <1>1, CutFits
  <2>4. Len(CutPack(Normal(p))) \in Nat  BY <2>3
  <2>5. Len(JobNameFor(a, p)) = HashLen + Len(CutPack(Normal(p))) + 4
      BY <2>1, <2>2, <2>3, PartsOfName
  <2> QED  BY <2>3, <2>4, <2>5, NumbersOfNames
<1> QED  BY <1>2, <1>3

\* ... and tells packs apart that fold to different names and fit their share.
LEMMA JobNamesApart ==
    ASSUME NEW a \in ArrivalNames, NEW p \in PackNames, NEW q \in PackNames,
           Normal(p) # Normal(q), Fits(p), Fits(q)
    PROVE  JobNameFor(a, p) # JobNameFor(a, q)
<1> DEFINE N == Normal(a)
           D == Digest(Normal(a))
           P == Normal(p)
           Q == Normal(q)
<1>1. N \in Seq(Chars) /\ P \in Seq(Chars) /\ Q \in Seq(Chars)
    BY JobSpecAssumption, NormalIsName
<1>2. D \in Seq(Chars)  BY DigestAssumption, SeqMonotonic
<1>3. CutPack(P) = P /\ CutPack(Q) = Q
  <2>1. MaxPack \in Nat /\ Len(P) \in Nat /\ Len(Q) \in Nat  BY <1>1, NumbersOfNames
  <2>2. Len(P) <= MaxPack /\ Len(Q) <= MaxPack  BY DEF Fits
  <2> HIDE DEF P, Q
  <2> QED  BY <2>1, <2>2 DEF CutPack
<1>4. JobNameFor(a, p) \in {Joined(N, P), Joined(D, P)}  BY <1>3 DEF JobNameFor
<1>5. JobNameFor(a, q) \in {Joined(N, Q), Joined(D, Q)}  BY <1>3 DEF JobNameFor
<1>6. Joined(N, P) # Joined(N, Q) /\ Joined(D, P) # Joined(D, Q)
    BY <1>1, <1>2, SameFront
<1>7. Joined(N, P) # Joined(D, Q) /\ Joined(N, Q) # Joined(D, P)
    BY <1>1, HashedApart
<1> QED  BY <1>4, <1>5, <1>6, <1>7
-----------------------------------------------------------------------------
(* The script's inductive invariant, one part per promise.                   *)

\* The Job is what buildJob made of the choices.
Built == args \in ArgsSet /\ test \in Tests /\ job = BuildJob(Config, args, test)

Ran == {"upload", "translate", "done", "log"}

\* What has not happened yet, and which packs get this far.
Course ==
    /\ pc \in {"clone", "probe", "enter", "install", "suite"} =>
           suite = "not run" /\ report = "none" /\ testExit = 0
    /\ pc \in Ran => suite \in {"ok", "bad"}
    /\ pc \in {"install", "suite"} \cup Ran => Type \in {"end2end", "end2end-ui"}

\* HEALTH counts the last answers in a row, and nobody gets past the probes
\* without enough of them.
Probed ==
    /\ health = streak
    /\ pc = "clone" => streak = 0
    /\ pc = "probe" => streak = 0 \/ streak < Threshold
    /\ pc \in {"enter", "install", "suite"} \cup Ran \/ suite # "not run" =>
           streak >= Threshold

\* The refs tried so far are not there, unless a clone failed, and the one that
\* was cloned is the first that is.
Tried ==
    /\ \E k \in 0..Len(job.refs) :
          /\ todo = SubSeq(job.refs, k + 1, Len(job.refs))
          /\ pc = "clone" /\ "clone" \notin faults =>
                 \A j \in 1..k : job.refs[j] \notin repo
    /\ pc = "clone" => ref = Blank
    /\ ref # Blank /\ "clone" \notin faults =>
           \E k \in 1..Len(job.refs) :
              /\ ref = job.refs[k]
              /\ \A j \in 1..(k - 1) : job.refs[j] \notin repo

\* What TEST_EXIT says of the tests: before the translation what the pack says,
\* and after it the truth but for what nobody could read.
Judged ==
    /\ pc \in {"upload", "translate"} => Reported(suite, testExit, report)
    /\ pc \in {"done", "log"} =>
           /\ testExit = 0 => \/ suite = "ok"
                              \/ suite = "bad" /\ Type = "end2end" /\ report \in {"none", "garbled"}
           /\ testExit = 1 /\ suite = "ok" => ~image.jq /\ report \in {"mixed", "garbled"}

Deposited ==
    pc \in {"translate", "done", "log"} /\ "upload" \notin faults /\ report # "none" =>
        bucket.of = run /\ bucket.results = report

KilledFairly ==
    exit = "oom" => job.resources.limit # None /\ image.size > job.resources.limit

BucketOf(b, last) == b \in [results : Reports, of : 0..last, log : 0..last]

\* TypeOK but for the refs left, which Tried describes.
Types ==
    /\ Built /\ repo \in Repos
    /\ image \in [jq : BOOLEAN, complete : BOOLEAN, size : Sizes]
    /\ pc \in {"clone", "probe", "enter", "install", "suite", "upload",
               "translate", "done", "log", "ended"}
    /\ ref = Blank \/ ref \in repo
    /\ health \in 0..Threshold \cup {1} /\ streak \in 0..Threshold \cup {1}
    /\ testExit \in {0, 1}
    /\ report \in Reports
    /\ BucketOf(bucket, run)
    /\ run \in 1..MaxRuns
    /\ exit \in {"", "0", "1", "killed", "oom"} /\ (exit = "" <=> pc # "ended")
    /\ suite \in {"not run", "ok", "bad"}
    /\ faults \subseteq {"clone", "npm", "upload", "disk"}

RunInv ==
    /\ Types /\ Course /\ Probed /\ Tried /\ Judged /\ Deposited /\ KilledFairly
    /\ PassedMeansPassed /\ UploadsNeverMask /\ EvidenceLands

-----------------------------------------------------------------------------
(* What was built.                                                           *)


LEMMA BuiltJob ==
    ASSUME Built
    PROVE  /\ job.name = JobNameFor(args.arrival, test.name)
           /\ job.env = ResolveEnv(Config.env \o <<[name |-> "TEST_PACK_TYPE", value |-> test.type]>>,
                                   args.env, test.env)
           /\ job.refs = RenderRefFallbacks(Config.refs)
           /\ job.resources = ResolveResources(test.resources, args.resources, Config.resources)
    BY DEF Built, BuildJob

LEMMA BuiltRefs ==
    ASSUME Built
    PROVE  InOrder(job.refs, Config.refs, Len(Config.refs)) /\ Len(Config.refs) \in Nat
<1>1. Config.refs \in Seq(DOMAIN Rendered)  BY RunnerAssumption
<1>2. job.refs = RenderRefFallbacks(Config.refs)  BY BuiltJob
<1> QED  BY <1>1, <1>2, RenderInOrder

\* The chart's threshold, under a service's, under a pack's.
LEMMA ThresholdIsWanted ==
    ASSUME Built
    PROVE  Threshold = Wanted("HEALTH_SUCCESS_THRESHOLD") /\ Threshold \in Nat
<1> DEFINE n == "HEALTH_SUCCESS_THRESHOLD"
           type == [name |-> "TEST_PACK_TYPE", value |-> test.type]
           E == EnvVars \cup {type}
           C == Config.env
           A == args.env
           T == test.env
<1>1. C \in Seq(E) /\ A \in Seq(E) /\ T \in Seq(E) /\ <<type>> \in Seq(E)
  <2>1. C \in Seq(EnvVars) /\ A \in Seq(EnvVars) /\ T \in Seq(EnvVars)
      BY RunnerAssumption DEF Built
  <2>2. EnvVars \subseteq E /\ type \in E  OBVIOUS
  <2> HIDE DEF type, E, A, C, T
  <2>3. C \in Seq(E) /\ A \in Seq(E) /\ T \in Seq(E)  BY <2>1, <2>2, SeqMonotonic
  <2>4. <<type>> \in Seq(E)  BY <2>2
  <2> QED  BY <2>3, <2>4
<1>2. Sets(C, n) # {}  BY RunnerAssumption
<1>3. Sets(<<type>>, n) = {}
  <2>1. type.name = "TEST_PACK_TYPE"  OBVIOUS
  <2> HIDE DEF type
  <2>2. DOMAIN <<type>> = {1} /\ <<type>>[1] = type  OBVIOUS
  <2> QED  BY <2>1, <2>2 DEF Sets
<1>4. Threshold = Getenv(((C \o <<type>>) \o A) \o T, n)
    BY BuiltJob DEF Threshold, ResolveEnv
<1>5. \A layer \in {C, A, T} : Sets(layer, n) # {} => Getenv(layer, n) \in Nat
  <2>1. ASSUME NEW layer \in {C, A, T}, Sets(layer, n) # {}
        PROVE  Getenv(layer, n) \in Nat
    <3>1. layer \in Seq(EnvVars)  BY RunnerAssumption DEF Built
    <3> HIDE DEF C, A, T
    <3>2. PICK i \in Sets(layer, n) : \A j \in Sets(layer, n) : j <= i
        BY <2>1, <3>1, LastEntry
    <3>3. Getenv(layer, n) = layer[i].value  BY <3>1, <3>2, GetenvLast
    <3>4. i \in 1..Len(layer) /\ layer[i].name = n  BY <3>1, <3>2, LenProperties DEF Sets
    <3>5. layer[i] \in EnvVars  BY <3>1, <3>4, ElementOfSeq
    <3> QED  BY <3>3, <3>4, <3>5, RunnerAssumption
  <2> QED  BY <2>1
<1>6. Wanted(n) = IF Sets(T, n) # {} THEN Getenv(T, n)
                  ELSE IF Sets(A, n) # {} THEN Getenv(A, n)
                  ELSE Getenv(C, n)
    BY DEF Wanted
<1> HIDE DEF C, A, T, E, type, n
<1> DEFINE C1 == C \o <<type>>
           C2 == C1 \o A
<1>7. C1 \in Seq(E) /\ Sets(C1, n) # {} /\ Getenv(C1, n) = Getenv(C, n)
    BY <1>1, <1>2, <1>3, LayerOver, ConcatProperties
<1> HIDE DEF C1
<1>8. /\ C2 \in Seq(E) /\ Sets(C2, n) # {}
      /\ Getenv(C2, n) = IF Sets(A, n) # {} THEN Getenv(A, n) ELSE Getenv(C, n)
  <2>1. C2 \in Seq(E)  BY <1>1, <1>7, ConcatProperties
  <2>2. CASE Sets(A, n) # {}  BY <1>1, <1>7, <2>1, <2>2, LayerOver
  <2>3. CASE Sets(A, n) = {}  BY <1>1, <1>7, <2>1, <2>3, LayerOver
  <2> QED  BY <2>2, <2>3
<1> HIDE DEF C2
<1>9. Getenv(C2 \o T, n) = IF Sets(T, n) # {} THEN Getenv(T, n) ELSE Getenv(C2, n)
    BY <1>1, <1>8, LayerOver
<1>10. Threshold = Getenv(C2 \o T, n)  BY <1>4 DEF C1, C2
<1>11. Threshold = Wanted(n)  BY <1>6, <1>8, <1>9, <1>10
<1>12. Threshold \in Nat  BY <1>2, <1>5, <1>6, <1>11
<1> QED  BY <1>11, <1>12 DEF n

-----------------------------------------------------------------------------
(* The invariant holds at first, and every step keeps it, part by part.      *)

LEMMA Numbers ==
    ASSUME Types
    PROVE  /\ Threshold \in Nat /\ health \in Nat /\ streak \in Nat
           /\ run \in Nat /\ MaxRuns \in Nat \ {0}
<1>1. Threshold \in Nat
  <2>1. Built  BY DEF Types
  <2> QED  BY <2>1, ThresholdIsWanted
<1>2. MaxRuns \in Nat \ {0}  BY RunnerAssumption
<1>3. /\ health \in 0..Threshold \cup {1} /\ streak \in 0..Threshold \cup {1}
      /\ run \in 1..MaxRuns
    BY DEF Types
<1> QED  BY ONLY <1>1, <1>2, <1>3

\* A result or a log of this run keeps the bucket's shape, and a bucket keeps it
\* in the next run.
LEMMA BucketKept ==
    ASSUME NEW b, NEW last \in Nat, BucketOf(b, last)
    PROVE  /\ \A r \in Reports : BucketOf([b EXCEPT !.results = r, !.of = last], last)
           /\ BucketOf([b EXCEPT !.log = last], last)
           /\ BucketOf(b, last + 1)
<1>1. 0..last \subseteq 0..(last + 1) /\ last \in 0..last  OBVIOUS
<1>2. b \in [results : Reports, of : 0..last, log : 0..last]  BY DEF BucketOf
<1>3. ASSUME NEW r \in Reports
      PROVE  BucketOf([b EXCEPT !.results = r, !.of = last], last)
    BY ONLY <1>1, <1>2, r \in Reports DEF BucketOf
<1>4. BucketOf([b EXCEPT !.log = last], last)  BY ONLY <1>1, <1>2 DEF BucketOf
<1>5. BucketOf(b, last + 1)
  <2> DEFINE S == 0..last
             L == 0..(last + 1)
  <2>1. S \subseteq L /\ b \in [results : Reports, of : S, log : S]  BY <1>1, <1>2
  <2> HIDE DEF S, L
  <2>2. b \in [results : Reports, of : L, log : L]  BY ONLY <2>1
  <2> QED  BY <2>2 DEF BucketOf, L
<1> QED  BY <1>3, <1>4, <1>5

LEMMA InitRunInv == Init => RunInv
<1> SUFFICES ASSUME Init PROVE RunInv  OBVIOUS
<1>1. Built  BY DEF Init, Built
<1>2. Threshold \in Nat  BY <1>1, ThresholdIsWanted
<1>3. Types
  <2>1. 1 \in 1..MaxRuns
    <3>1. MaxRuns \in Nat \ {0}  BY RunnerAssumption
    <3> QED  BY ONLY <3>1
  <2>2. BucketOf(bucket, run)
    <3>1. "none" \in Reports  BY DEF Reports
    <3>2. bucket = [results |-> "none", of |-> 0, log |-> 0] /\ run = 1  BY DEF Init
    <3> QED  BY ONLY <3>1, <3>2 DEF BucketOf
  <2>3. health \in 0..Threshold \cup {1} /\ streak \in 0..Threshold \cup {1}
    <3>1. health = 0 /\ streak = 0  BY DEF Init
    <3> QED  BY ONLY <1>2, <3>1
  <2> QED  BY <1>1, <2>1, <2>2, <2>3 DEF Init, Types, Reports
<1>4. Course  BY DEF Init, Course, Ran
<1>5. Probed  BY DEF Init, Probed, Ran
<1>6. Tried
  <2>1. job.refs \in Seq(Names)  BY <1>1, BuiltRefs DEF InOrder
  <2>2. SubSeq(job.refs, 1, Len(job.refs)) = job.refs  BY <2>1, SubSeqFull
  <2>3. 0 \in 0..Len(job.refs) /\ 0 + 1 = 1 /\ 1..0 = {}  BY <2>1
  <2>4. todo = SubSeq(job.refs, 0 + 1, Len(job.refs))  BY <2>2, <2>3 DEF Init
  <2>5. ref = Blank  BY DEF Init
  <2> QED  BY ONLY <2>3, <2>4, <2>5 DEF Tried
<1> QED  BY <1>3, <1>4, <1>5, <1>6
         DEF Init, RunInv, Judged, Deposited, KilledFairly, PassedMeansPassed,
             UploadsNeverMask, EvidenceLands, Ran

LEMMA NextTypes ==
    ASSUME RunInv, [Next]_vars
    PROVE  Types'
<1>1. Types /\ Probed  BY DEF RunInv
<1>2. /\ Threshold \in Nat /\ health \in Nat /\ streak \in Nat
      /\ run \in Nat /\ MaxRuns \in Nat \ {0}
    BY <1>1, Numbers
<1>3. CASE UNCHANGED vars
    BY <1>1, <1>3 DEF Types, Built, vars, Threshold
<1>4. CASE CloneRef \/ NoRefCloned \/ TimeUp \/ Enter \/ Install \/ LogDone
    BY <1>1, <1>4 DEF Types, Built, Threshold, CloneRef, NoRefCloned, TimeUp,
       Enter, Install, LogDone, End, Continue, Fault, chosen
<1>5. CASE Probe
  <2>1. health' \in 0..Threshold \cup {1} /\ streak' = health'
    <3>1. health' \in {0, health + 1} /\ streak' \in {0, streak + 1}
          /\ (health' = 0 <=> streak' = 0)
        BY <1>2, <1>5 DEF Probe
    <3>2. health = streak /\ (streak = 0 \/ streak < Threshold)
        BY <1>1, <1>5 DEF Probed, Probe
    <3> QED  BY ONLY <1>2, <3>1, <3>2
  <2> QED  BY <1>1, <1>5, <2>1 DEF Types, Built, Threshold, Probe, Continue, chosen
<1>6. CASE Suite
    BY <1>1, <1>6 DEF Types, Built, Threshold, Suite, Continue, Reports, chosen
<1>7. CASE UploadResults
  <2>1. BucketOf(bucket, run) /\ report \in Reports  BY <1>1 DEF Types
  <2>2. \/ bucket' = bucket
        \/ bucket' = [bucket EXCEPT !.results = report, !.of = run]
      BY <1>7 DEF UploadResults
  <2>3. BucketOf([bucket EXCEPT !.results = report, !.of = run], run)
      BY <1>2, <2>1, BucketKept
  <2>4. BucketOf(bucket', run)  BY <2>1, <2>2, <2>3
  <2> QED  BY <1>1, <1>7, <2>4
           DEF Types, Built, Threshold, UploadResults, Continue, Fault, chosen
<1>8. CASE Translate
    BY <1>1, <1>8 DEF Types, Built, Threshold, Translate, Continue, chosen
<1>9. CASE UploadLog
  <2>1. BucketOf(bucket, run)  BY <1>1 DEF Types
  <2>2. bucket' = bucket \/ bucket' = [bucket EXCEPT !.log = run]
      BY <1>9 DEF UploadLog
  <2>3. BucketOf(bucket', run)  BY <1>2, <2>1, <2>2, BucketKept
  <2> QED  BY <1>1, <1>9, <2>3
           DEF Types, Built, Threshold, UploadLog, End, Fault, chosen
<1>10. CASE Killed \/ OutOfMemory
    BY <1>1, <1>10 DEF Types, Built, Threshold, Killed, OutOfMemory, End, chosen
<1>11. CASE Rerun
  <2>1. run' \in 1..MaxRuns /\ run' = run + 1
    <3>1. run < MaxRuns /\ run' = run + 1  BY <1>11 DEF Rerun
    <3> QED  BY ONLY <1>2, <3>1
  <2>2. BucketOf(bucket', run')
    <3>1. BucketOf(bucket, run) /\ bucket' = bucket  BY <1>1, <1>11 DEF Types, Rerun
    <3> QED  BY <1>2, <2>1, <3>1, BucketKept
  <2>3. 0 \in 0..Threshold \cup {1}  BY <1>2
  <2> QED  BY <1>1, <1>11, <2>1, <2>2, <2>3
           DEF Types, Built, Threshold, Rerun, Reports, chosen
<1> QED  BY <1>3, <1>4, <1>5, <1>6, <1>7, <1>8, <1>9, <1>10, <1>11 DEF Next, Script

LEMMA NextCourse ==
    ASSUME RunInv, [Next]_vars
    PROVE  Course'
<1>1. Types /\ Course  BY DEF RunInv
<1>2. CASE UNCHANGED vars  BY <1>1, <1>2 DEF Course, Ran, Type, vars
<1>3. CASE CloneRef \/ NoRefCloned \/ Probe \/ TimeUp
    BY <1>1, <1>3 DEF Course, Ran, Type, CloneRef, NoRefCloned, Probe, TimeUp,
       End, Continue, chosen
<1>4. CASE Enter \/ Install
    BY <1>1, <1>4 DEF Course, Ran, Type, Enter, Install, End, Continue, chosen
<1>5. CASE Suite \/ UploadResults \/ Translate
    BY <1>1, <1>5 DEF Course, Ran, Type, Suite, UploadResults, Translate, Continue, chosen
<1>6. CASE LogDone \/ UploadLog \/ Killed \/ OutOfMemory
    BY <1>1, <1>6 DEF Course, Ran, Type, LogDone, UploadLog, Killed, OutOfMemory,
       End, Continue, chosen
<1>7. CASE Rerun  BY <1>7 DEF Course, Ran, Rerun
<1> QED  BY <1>2, <1>3, <1>4, <1>5, <1>6, <1>7 DEF Next, Script

LEMMA NextProbed ==
    ASSUME RunInv, [Next]_vars
    PROVE  Probed'
<1>1. Types /\ Course /\ Probed  BY DEF RunInv
<1>2. Threshold \in Nat /\ health \in Nat /\ streak \in Nat
    BY <1>1, Numbers
<1>3. CASE UNCHANGED vars  BY <1>1, <1>3 DEF Probed, Ran, Threshold, vars
<1>4. CASE CloneRef \/ NoRefCloned
    BY <1>1, <1>4 DEF Course, Probed, Ran, Threshold, CloneRef, NoRefCloned, End,
       Continue, chosen
<1>5. CASE Probe
  <2>1. /\ suite' = suite /\ suite = "not run" /\ Threshold' = Threshold
        /\ pc' \in {"probe", "enter"}
      BY <1>1, <1>5 DEF Course, Probe, Continue, Threshold, chosen
  <2>2. health = streak  BY <1>1 DEF Probed
  <2>3. CASE /\ streak' = streak + 1 /\ health' = health + 1
             /\ Continue(IF health' >= Threshold THEN "enter" ELSE "probe")
    <3>1. health' = streak' /\ health' \in Nat  BY ONLY <1>2, <2>2, <2>3
    <3>2. CASE health' >= Threshold
      <4>1. pc' = "enter"  BY <2>3, <3>2 DEF Continue
      <4>2. streak' >= Threshold'  BY <2>1, <3>1, <3>2
      <4> QED  BY <3>1, <4>1, <4>2 DEF Probed, Ran
    <3>3. CASE ~(health' >= Threshold)
      <4>1. pc' = "probe"  BY <2>3, <3>3 DEF Continue
      <4>2. streak' < Threshold'
        <5>1. health' < Threshold  BY ONLY <1>2, <3>1, <3>3
        <5> QED  BY <2>1, <3>1, <5>1
      <4> QED  BY <2>1, <3>1, <4>1, <4>2 DEF Probed, Ran
    <3> QED  BY <3>2, <3>3
  <2>4. CASE streak' = 0 /\ health' = 0 /\ Continue("probe")
      BY <2>1, <2>4 DEF Probed, Ran, Continue
  <2> QED  BY <1>5, <2>3, <2>4 DEF Probe
<1>6. CASE TimeUp
    BY <1>1, <1>2, <1>6 DEF Course, Probed, Ran, Threshold, TimeUp, End, Continue, chosen
<1>7. CASE Enter \/ Install \/ Suite \/ UploadResults \/ Translate
    BY <1>1, <1>7 DEF Course, Probed, Ran, Threshold, Enter, Install, Suite,
       UploadResults, Translate, End, Continue, chosen
<1>8. CASE LogDone \/ UploadLog \/ Killed \/ OutOfMemory
    BY <1>1, <1>8 DEF Course, Probed, Ran, Threshold, LogDone, UploadLog, Killed,
       OutOfMemory, End, Continue, chosen
<1>9. CASE Rerun  BY <1>9 DEF Probed, Ran, Rerun
<1> QED  BY <1>3, <1>4, <1>5, <1>6, <1>7, <1>8, <1>9 DEF Next, Script

\* git clone tries one ref more, finds it or does not.
LEMMA CloneTried ==
    ASSUME RunInv, CloneRef
    PROVE  Tried'
<1> DEFINE R == job.refs
           n == Len(R)
<1>1. Types /\ Tried  BY DEF RunInv
<1>2. R \in Seq(Names) /\ n \in Nat
  <2>1. Built  BY <1>1 DEF Types
  <2> QED  BY <2>1, BuiltRefs DEF InOrder
<1>3. /\ pc = "clone" /\ todo # <<>> /\ todo' = Tail(todo) /\ job' = job /\ repo' = repo
      /\ \/ /\ Head(todo) \in repo /\ ref' = Head(todo) /\ pc' = "probe" /\ faults' = faults
         \/ /\ Head(todo) \notin repo /\ ref' = ref /\ pc' = "clone" /\ faults' = faults
         \/ /\ Head(todo) \in repo /\ ref' = ref /\ pc' = "clone"
            /\ faults' = faults \cup {"clone"}
    BY DEF CloneRef, Continue, Fault, chosen
<1>4. ref = Blank  BY <1>1, <1>3 DEF Tried
<1> HIDE DEF R, n
<1>5. PICK k \in 0..n :
        /\ todo = SubSeq(R, k + 1, n)
        /\ pc = "clone" /\ "clone" \notin faults => \A j \in 1..k : R[j] \notin repo
    BY <1>1 DEF Tried, R, n
<1>6. k + 1 \in 1..n /\ k + 1 \in 0..n /\ n \in (k + 1)..n
  <2>1. CASE k = n
    <3>1. k + 1 \in Int /\ n \in Int /\ n < k + 1  BY <1>2, <2>1
    <3>2. todo = <<>>  BY <1>5, <3>1, SubSeqEmpty
    <3> QED  BY <1>3, <3>2
  <2> QED  BY <1>2, <2>1
<1>7. Head(todo) = R[k + 1] /\ Tail(todo) = SubSeq(R, (k + 1) + 1, n)
    BY <1>2, <1>5, <1>6, HeadTailOfSubSeq DEF n
<1>8. R' = R /\ n' = n  BY <1>3 DEF R, n
<1>9. todo' = SubSeq(R, (k + 1) + 1, n)  BY <1>3, <1>7
<1>10. "clone" \notin faults => \A j \in 1..k : R[j] \notin repo  BY <1>3, <1>5
<1>11. CASE Head(todo) \in repo /\ ref' = Head(todo) /\ pc' = "probe" /\ faults' = faults
  <2>1. \E i \in 0..n : todo' = SubSeq(R, i + 1, n)  BY <1>6, <1>9
  <2>2. "clone" \notin faults' =>
            \E i \in 1..n : ref' = R[i] /\ \A j \in 1..(i - 1) : R[j] \notin repo
    <3>1. (k + 1) - 1 = k  BY <1>5
    <3> QED  BY <1>6, <1>7, <1>10, <1>11, <3>1
  <2> QED  BY <1>3, <1>8, <1>11, <2>1, <2>2 DEF Tried, R, n
<1>12. CASE Head(todo) \notin repo /\ ref' = ref /\ pc' = "clone" /\ faults' = faults
  <2>1. \E i \in 0..n :
            /\ todo' = SubSeq(R, i + 1, n)
            /\ "clone" \notin faults' => \A j \in 1..i : R[j] \notin repo
    <3>1. \A j \in 1..(k + 1) : j = k + 1 \/ j \in 1..k  BY <1>5
    <3>2. "clone" \notin faults => \A j \in 1..(k + 1) : R[j] \notin repo
        BY <1>7, <1>10, <1>12, <3>1
    <3> QED  BY <1>6, <1>9, <1>12, <3>2
  <2> QED  BY <1>3, <1>4, <1>8, <1>12, <2>1 DEF Tried, R, n
<1>13. CASE /\ Head(todo) \in repo /\ ref' = ref /\ pc' = "clone"
            /\ faults' = faults \cup {"clone"}
  <2>1. \E i \in 0..n : todo' = SubSeq(R, i + 1, n)  BY <1>6, <1>9
  <2>2. "clone" \in faults'  BY <1>13
  <2> QED  BY <1>4, <1>8, <1>13, <2>1, <2>2 DEF Tried, R, n
<1> QED  BY <1>3, <1>11, <1>12, <1>13

LEMMA NextTried ==
    ASSUME RunInv, [Next]_vars
    PROVE  Tried'
<1>1. Types /\ Tried  BY DEF RunInv
<1>2. CASE UNCHANGED vars  BY <1>1, <1>2 DEF Tried, vars
<1>3. CASE CloneRef  BY <1>3, CloneTried
<1>4. ASSUME /\ pc' # "clone" /\ todo' = todo /\ ref' = ref /\ job' = job /\ repo' = repo
             /\ faults \subseteq faults'
      PROVE  Tried'
  <2>1. "clone" \notin faults' => "clone" \notin faults  BY <1>4
  <2>2. \E k \in 0..Len(job.refs) : todo = SubSeq(job.refs, k + 1, Len(job.refs))
      BY <1>1 DEF Tried
  <2>3. ref # Blank /\ "clone" \notin faults =>
           \E k \in 1..Len(job.refs) :
              /\ ref = job.refs[k]
              /\ \A j \in 1..(k - 1) : job.refs[j] \notin repo
      BY <1>1 DEF Tried
  <2> QED  BY <1>4, <2>1, <2>2, <2>3 DEF Tried
<1>5. CASE NoRefCloned \/ Probe \/ TimeUp \/ Enter \/ Install
    BY <1>4, <1>5 DEF NoRefCloned, Probe, TimeUp, Enter, Install, End, Continue,
       Fault, chosen
<1>6. CASE Suite \/ UploadResults \/ Translate \/ LogDone
    BY <1>4, <1>6 DEF Suite, UploadResults, Translate, LogDone, End, Continue, Fault,
       chosen
<1>7. CASE UploadLog \/ Killed \/ OutOfMemory
    BY <1>4, <1>7 DEF UploadLog, Killed, OutOfMemory, End, Fault, chosen
<1>8. CASE Rerun
  <2>1. job.refs \in Seq(Names)
    <3>1. Built  BY <1>1 DEF Types
    <3> QED  BY <3>1, BuiltRefs DEF InOrder
  <2>2. SubSeq(job.refs, 1, Len(job.refs)) = job.refs  BY <2>1, SubSeqFull
  <2>3. 0 \in 0..Len(job.refs) /\ 0 + 1 = 1 /\ 1..0 = {}  BY <2>1
  <2>4. job' = job /\ todo' = SubSeq(job.refs, 0 + 1, Len(job.refs)) /\ ref' = Blank
      BY <1>8, <2>2, <2>3 DEF Rerun, chosen
  <2> QED  BY ONLY <2>3, <2>4 DEF Tried
<1> QED  BY <1>2, <1>3, <1>5, <1>6, <1>7, <1>8 DEF Next, Script

LEMMA NextJudged ==
    ASSUME RunInv, [Next]_vars
    PROVE  Judged' /\ Deposited'
<1>1. Types /\ Course /\ Judged /\ Deposited  BY DEF RunInv
<1>2. CASE UNCHANGED vars
    BY <1>1, <1>2 DEF Judged, Deposited, Reported, Type, vars
<1>3. CASE CloneRef \/ NoRefCloned \/ Probe \/ TimeUp \/ Enter \/ Install
    BY <1>3 DEF Judged, Deposited, CloneRef, NoRefCloned, Probe, TimeUp, Enter, Install,
       End, Continue
<1>4. CASE Suite
    BY <1>4 DEF Judged, Deposited, Suite, Reported, Type, Continue, chosen
<1>5. CASE UploadResults
  <2>1. Judged'
      BY <1>1, <1>5 DEF Judged, UploadResults, Reported, Type, Continue, chosen
  <2>2. ASSUME report # "none", "upload" \notin faults'
        PROVE  bucket'.of = run /\ bucket'.results = report
    <3>1. bucket' = [bucket EXCEPT !.results = report, !.of = run]
        BY <1>5, <2>2 DEF UploadResults, Fault
    <3>2. BucketOf(bucket, run)  BY <1>1 DEF Types
    <3> QED  BY ONLY <3>1, <3>2 DEF BucketOf
  <2> QED  BY <1>5, <2>1, <2>2 DEF Deposited, UploadResults
<1>6. CASE Translate
  <2>1. PICK failure \in ReadsFailure :
          testExit' = IF Type = "end2end" /\ testExit = 0 /\ failure THEN 1 ELSE testExit
      BY <1>6 DEF Translate
  <2>2. /\ pc = "translate" /\ pc' = "done" /\ suite' = suite /\ report' = report
        /\ image' = image /\ Type' = Type /\ faults' = faults /\ bucket' = bucket
        /\ run' = run
      BY <1>6 DEF Translate, Continue, chosen, Type
  <2>3. /\ Reported(suite, testExit, report)
        /\ testExit \in {0, 1} /\ report \in Reports /\ suite \in {"ok", "bad"}
        /\ Type \in {"end2end", "end2end-ui"}
      BY <1>1, <2>2 DEF Types, Course, Judged, Ran
  <2>4. report = "failure" => failure  BY <2>1 DEF ReadsFailure
  <2>5. failure => report = "failure" \/ (~image.jq /\ report \in {"mixed", "garbled"})
      BY <2>1 DEF ReadsFailure
  <2>6. Type = "end2end" /\ testExit = 0 /\ report = "failure" => testExit' = 1
      BY <2>1, <2>4
  <2>7. testExit' # testExit =>
            /\ testExit' = 1 /\ Type = "end2end"
            /\ report = "failure" \/ (~image.jq /\ report \in {"mixed", "garbled"})
      BY <2>1, <2>5
  <2>8. testExit' = 0 =>
           \/ suite = "ok"
           \/ suite = "bad" /\ Type = "end2end" /\ report \in {"none", "garbled"}
      BY ONLY <2>3, <2>6, <2>7 DEF Reported, Reports
  <2>9. testExit' = 1 /\ suite = "ok" => ~image.jq /\ report \in {"mixed", "garbled"}
      BY ONLY <2>3, <2>7 DEF Reported, Reports
  <2> QED  BY <1>1, <2>2, <2>8, <2>9 DEF Judged, Deposited
<1>7. CASE LogDone
    BY <1>1, <1>7 DEF Judged, Deposited, LogDone, Type, End, Continue, Fault, chosen
<1>8. CASE UploadLog \/ Killed \/ OutOfMemory \/ Rerun
    BY <1>8 DEF Judged, Deposited, UploadLog, Killed, OutOfMemory, Rerun, End
<1> QED  BY <1>2, <1>3, <1>4, <1>5, <1>6, <1>7, <1>8 DEF Next, Script

\* Every way to end keeps what is promised of it.
LEMMA NextEnded ==
    ASSUME RunInv, [Next]_vars
    PROVE  PassedMeansPassed' /\ UploadsNeverMask' /\ EvidenceLands' /\ KilledFairly'
<1>1. /\ Types /\ Course /\ Judged /\ Deposited /\ KilledFairly
      /\ PassedMeansPassed /\ UploadsNeverMask /\ EvidenceLands
    BY DEF RunInv
<1>2. CASE UNCHANGED vars
    BY <1>1, <1>2 DEF PassedMeansPassed, UploadsNeverMask, EvidenceLands, KilledFairly,
       Type, vars
<1>3. ASSUME exit' \in {"", "killed"}
      PROVE  PassedMeansPassed' /\ UploadsNeverMask' /\ EvidenceLands' /\ KilledFairly'
    BY <1>3 DEF PassedMeansPassed, UploadsNeverMask, EvidenceLands, KilledFairly
<1>4. ASSUME exit' = "1", suite' = "not run"
      PROVE  PassedMeansPassed' /\ UploadsNeverMask' /\ EvidenceLands' /\ KilledFairly'
    BY <1>4 DEF PassedMeansPassed, UploadsNeverMask, EvidenceLands, KilledFairly
<1>5. CASE CloneRef \/ NoRefCloned \/ Probe \/ TimeUp \/ Enter \/ Install
  <2>1. exit' \in {"", "1"} /\ (exit' = "1" => suite' = "not run")
      BY <1>1, <1>5 DEF Types, Course, CloneRef, NoRefCloned, Probe, TimeUp, Enter, Install,
         End, Continue
  <2> QED  BY <1>3, <1>4, <2>1
<1>6. CASE Suite \/ UploadResults \/ Translate
  <2>1. exit' = ""
      BY <1>1, <1>6 DEF Types, Suite, UploadResults, Translate, Continue
  <2> QED  BY <1>3, <2>1
<1>7. CASE LogDone
  <2>1. CASE Continue("log")
    <3>1. exit' = ""  BY <1>1, <1>7, <2>1 DEF Types, LogDone, Continue
    <3> QED  BY <1>3, <3>1
  <2>2. CASE Fault("disk") /\ End("1")
      BY <2>2 DEF Fault, End, PassedMeansPassed, UploadsNeverMask, EvidenceLands,
         KilledFairly
  <2> QED  BY <1>7, <2>1, <2>2 DEF LogDone
<1>8. CASE UploadLog
  <2>1. /\ pc = "log" /\ suite' = suite /\ report' = report /\ run' = run
        /\ image' = image /\ Type' = Type /\ testExit \in {0, 1}
        /\ suite \in {"ok", "bad"} /\ faults \subseteq faults'
        /\ exit' = IF testExit = 0 THEN "0" ELSE "1"
      BY <1>1, <1>8 DEF Types, Course, Ran, UploadLog, End, Fault, Type, chosen
  <2>2. PassedMeansPassed'
      BY <1>1, <2>1 DEF Judged, PassedMeansPassed
  <2>3. UploadsNeverMask'
      BY <1>1, <2>1 DEF Judged, UploadsNeverMask
  <2>4. ASSUME "upload" \notin faults'
        PROVE  /\ bucket'.log = run
               /\ report # "none" => bucket'.of = run /\ bucket'.results = report
    <3>1. bucket' = [bucket EXCEPT !.log = run]  BY <1>8, <2>4 DEF UploadLog, Fault
    <3>2. BucketOf(bucket, run)  BY <1>1 DEF Types
    <3>3. /\ bucket'.log = run
          /\ bucket'.of = bucket.of /\ bucket'.results = bucket.results
        BY ONLY <3>1, <3>2 DEF BucketOf
    <3>4. report # "none" => bucket.of = run /\ bucket.results = report
        BY <1>1, <2>1, <2>4 DEF Deposited
    <3> QED  BY <3>3, <3>4
  <2>5. EvidenceLands'  BY <2>1, <2>4 DEF EvidenceLands
  <2>6. KilledFairly'  BY <2>1 DEF KilledFairly
  <2> QED  BY <2>2, <2>3, <2>5, <2>6
<1>9. CASE Killed  BY <1>3, <1>9 DEF Killed, End
<1>10. CASE OutOfMemory
    BY <1>10 DEF OutOfMemory, End, PassedMeansPassed, UploadsNeverMask, EvidenceLands,
       KilledFairly, chosen
<1>11. CASE Rerun  BY <1>3, <1>11 DEF Rerun
<1> QED  BY <1>2, <1>5, <1>6, <1>7, <1>8, <1>9, <1>10, <1>11 DEF Next, Script

LEMMA NextRunInv ==
    ASSUME RunInv, [Next]_vars
    PROVE  RunInv'
<1>1. Types' /\ Course' /\ Probed' /\ Tried'
    BY NextTypes, NextCourse, NextProbed, NextTried
<1>2. /\ Judged' /\ Deposited' /\ KilledFairly'
      /\ PassedMeansPassed' /\ UploadsNeverMask' /\ EvidenceLands'
    BY NextJudged, NextEnded
<1> QED  BY <1>1, <1>2 DEF RunInv

-----------------------------------------------------------------------------
(* What the invariant says of a Job.                                         *)

LEMMA RunInvTypes == RunInv => TypeOK
    BY DEF RunInv, Types, Built, Tried, TypeOK, BucketOf

LEMMA RunInvHealthy == RunInv => HealthyBeforeTests
<1> SUFFICES ASSUME RunInv PROVE HealthyBeforeTests  OBVIOUS
<1>1. Built /\ Probed  BY DEF RunInv, Types
<1>2. Threshold = Wanted("HEALTH_SUCCESS_THRESHOLD")  BY <1>1, ThresholdIsWanted
<1> QED  BY <1>1, <1>2 DEF Probed, HealthyBeforeTests

LEMMA RunInvMostSpecific == RunInv => MostSpecificRef
<1> SUFFICES ASSUME RunInv, ref # Blank, "clone" \notin faults
             PROVE  \E i \in DOMAIN Config.refs :
                       /\ ref = Rendered[Config.refs[i]]
                       /\ \A j \in 1..(i - 1) : Rendered[Config.refs[j]] \notin repo
    BY DEF MostSpecificRef
<1> DEFINE C == Config.refs
           R == job.refs
<1>1. Built /\ Tried /\ repo \in Repos  BY DEF RunInv, Types
<1>2. InOrder(R, C, Len(C))  BY <1>1, BuiltRefs
<1>3. C \in Seq(DOMAIN Rendered) /\ Blank \notin repo
    BY <1>1, RunnerAssumption
<1>4. PICK k \in 1..Len(R) : ref = R[k] /\ \A j \in 1..(k - 1) : R[j] \notin repo
    BY <1>1 DEF Tried
<1> HIDE DEF C, R
<1>5. PICK i \in 1..Len(C) :
         /\ R[k] = Rendered[C[i]]
         /\ \A j \in 1..(i - 1) : \/ Rendered[C[j]] = Blank
                                  \/ \E e \in 1..(k - 1) : R[e] = Rendered[C[j]]
    BY <1>2, <1>4 DEF InOrder
<1>6. \A j \in 1..(i - 1) : Rendered[C[j]] \notin repo
    BY <1>3, <1>4, <1>5
<1>7. DOMAIN C = 1..Len(C)  BY <1>3, LenProperties
<1> QED  BY <1>4, <1>5, <1>6, <1>7 DEF C

LEMMA RunInvOwnJob == RunInv => OwnJob
<1> SUFFICES ASSUME RunInv PROVE OwnJob  OBVIOUS
<1>1. Built /\ KilledFairly  BY DEF RunInv, Types
<1>2. args.arrival \in ArrivalNames /\ \A t \in Tests : t.name \in PackNames
    BY <1>1, RunnerAssumption DEF Built
<1>3. test \in Tests /\ job.name = JobNameFor(args.arrival, test.name)
    BY <1>1, BuiltJob DEF Built
<1>4. Len(job.name) <= NameMax  BY <1>2, <1>3, JobNameFits
<1>5. ASSUME NEW t \in Tests, Normal(t.name) # Normal(test.name), Fits(t.name), Fits(test.name)
      PROVE  JobNameFor(args.arrival, t.name) # job.name
    BY <1>2, <1>3, <1>5, JobNamesApart
<1>6. ~Empty(test.resources) => job.resources = test.resources
    BY <1>1, BuiltJob DEF ResolveResources
<1> QED  BY <1>1, <1>4, <1>5, <1>6 DEF OwnJob, KilledFairly

LEMMA RunInvAlways == Spec => []RunInv
<1>1. Init => RunInv  BY InitRunInv
<1>2. RunInv /\ [Next]_vars => RunInv'  BY NextRunInv
<1> QED  BY <1>1, <1>2, PTL DEF Spec

\* Types of the script's variables, of the bucket and of the Job.
THEOREM RunnerTypes == Spec => []TypeOK
    BY RunInvAlways, RunInvTypes, PTL

\* A Job that succeeds has run tests that passed, except where run.sh exits with 0
\* and leaves nothing readable.
THEOREM VerdictsOfTests == Spec => []PassedMeansPassed
<1>1. RunInv => PassedMeansPassed  BY DEF RunInv
<1> QED  BY <1>1, RunInvAlways, PTL

\* Tests that passed fail the Job only for a full disk or for grep.
THEOREM UploadsAreBestEffort == Spec => []UploadsNeverMask
<1>1. RunInv => UploadsNeverMask  BY DEF RunInv
<1> QED  BY <1>1, RunInvAlways, PTL

\* A script that ran the tests and ends by itself leaves this run's evidence.
THEOREM EvidenceOfThisRun == Spec => []EvidenceLands
<1>1. RunInv => EvidenceLands  BY DEF RunInv
<1> QED  BY <1>1, RunInvAlways, PTL

\* Tests run only after as many good answers in a row as the most specific layer
\* of the environment asks.
THEOREM HealthAsWanted == Spec => []HealthyBeforeTests
    BY RunInvAlways, RunInvHealthy, PTL

\* The tests are those of the first ref of the chart's list that there is.
THEOREM FirstRefThere == Spec => []MostSpecificRef
    BY RunInvAlways, RunInvMostSpecific, PTL

\* A Job's name fits and is its pack's own, and so is the limit it dies by.
THEOREM JobsAreOwn == Spec => []OwnJob
    BY RunInvAlways, RunInvOwnJob, PTL
=============================================================================
