--------------------------- MODULE CommandProofs ---------------------------
(***************************************************************************)
(* Proofs about Command: whatever commands are put together, they produce  *)
(* what the combinators promise, and then is monadic.                      *)
(*                                                                         *)
(* What flat_map makes of a sequence is a recursive function in Command    *)
(* (FlattenSeq), so the proofs go by induction on sequences, which is      *)
(* stated about sets: a set with the empty sequence and whatever is        *)
(* appended to a sequence in it has all sequences.  Bind, of a sequence    *)
(* and a function to sequences, is the operator that then, the items of a  *)
(* stream and the events that are left out all come down to.               *)
(***************************************************************************)
EXTENDS Command, SequenceTheorems, FiniteSetTheorems, WellFoundedInduction, TLAPS

-----------------------------------------------------------------------------
(* Induction                                                               *)

\* A set of numbers with 0 and every successor has all: its complement would
\* have a least element.
LEMMA NatSets ==
    ASSUME NEW T, 0 \in T, \A n \in Nat : n \in T => n + 1 \in T
    PROVE  Nat \subseteq T
  <1> DEFINE less == OpToRel(<, Nat)
             rest == Nat \ T
  <1>1. less = {p \in Nat \X Nat : p[1] < p[2]} /\ IsWellFoundedOn(less, Nat)
    BY NatLessThanWellFounded DEF OpToRel
  <1> HIDE DEF less
  <1> SUFFICES ASSUME rest # {} PROVE FALSE
    OBVIOUS
  <1>2. PICK x \in rest : \A y \in rest : <<y, x>> \notin less
    BY <1>1, WFMin
  <1>3. x \in Nat /\ x # 0 /\ x - 1 \in Nat /\ x - 1 < x
    OBVIOUS
  <1>4. x - 1 \in T
    BY <1>1, <1>2, <1>3
  <1> QED
    BY <1>3, <1>4

\* A set with the empty sequence and whatever is appended has all sequences.
LEMMA SeqSets ==
    ASSUME NEW A, NEW T, <<>> \in T,
           \A s \in Seq(A), x \in A : s \in T => Append(s, x) \in T
    PROVE  Seq(A) \subseteq T
  <1> DEFINE N == {n \in Nat : \A s \in Seq(A) : Len(s) = n => s \in T}
  <1>1. 0 \in N
    BY EmptySeq
  <1>2. ASSUME NEW n \in Nat, n \in N PROVE n + 1 \in N
    <2> SUFFICES ASSUME NEW s \in Seq(A), Len(s) = n + 1 PROVE s \in T
      OBVIOUS
    <2>1. PICK t \in Seq(A), x \in A : s = Append(t, x)
      BY SequenceEmptyOrAppend, EmptySeq
    <2>2. Len(t) = n
      BY <2>1, AppendProperties, LenProperties
    <2> QED
      BY <1>2, <2>1, <2>2
  <1>3. Nat \subseteq N
    <2> HIDE DEF N
    <2> QED
      BY <1>1, <1>2, NatSets
  <1> QED
    BY <1>3, LenProperties

-----------------------------------------------------------------------------
(* Flattening                                                              *)

\* The function that FlattenSeq defines by recursion.
IsFlattening(f, ss, n) ==
    /\ f = [i \in 1..n |-> f[i]]
    /\ \A i \in 1..n : f[i] = IF i = 1 THEN ss[i] ELSE f[i - 1] \o ss[i]

\* There is such a function, for sequences of any length.
LEMMA FlatteningExists ==
    ASSUME NEW ss, NEW n \in Nat
    PROVE  \E f : IsFlattening(f, ss, n)
  <1> DEFINE N == {m \in Nat : \E f : IsFlattening(f, ss, m)}
  <1>1. 0 \in N
    <2>1. IsFlattening([i \in 1..0 |-> i], ss, 0)
      BY DEF IsFlattening
    <2> QED
      BY <2>1
  <1>2. ASSUME NEW m \in Nat, m \in N PROVE m + 1 \in N
    <2>1. PICK f : IsFlattening(f, ss, m)
      BY <1>2
    <2> DEFINE last == IF m = 0 THEN ss[1] ELSE f[m] \o ss[m + 1]
               g == [i \in 1..(m + 1) |-> IF i = m + 1 THEN last ELSE f[i]]
    <2>2. ASSUME NEW i \in 1..(m + 1)
          PROVE  g[i] = IF i = 1 THEN ss[i] ELSE g[i - 1] \o ss[i]
      <3>1. CASE i = m + 1
        BY <3>1
      <3>2. CASE i # m + 1
        <4>1. i \in 1..m /\ (i # 1 => i - 1 \in 1..m)
          BY <3>2
        <4>2. f[i] = IF i = 1 THEN ss[i] ELSE f[i - 1] \o ss[i]
          BY <2>1, <4>1 DEF IsFlattening
        <4>3. g[i] = f[i] /\ (i # 1 => g[i - 1] = f[i - 1])
          <5> HIDE DEF last
          <5> QED
            BY <3>2, <4>1
        <4> QED
          BY <4>2, <4>3
      <3> QED
        BY <3>1, <3>2
    <2>3. IsFlattening(g, ss, m + 1)
      <3> HIDE DEF last
      <3> QED
        BY <2>2 DEF IsFlattening
    <2> QED
      BY <2>3
  <1>3. Nat \subseteq N
    <2> HIDE DEF N
    <2> QED
      BY <1>1, <1>2, NatSets
  <1> QED
    BY <1>3

\* f and g have the same values up to m.
Agree(f, g, m) == \A i \in 1..m : f[i] = g[i]

\* And only one, as far as the sequences flattened agree.
LEMMA FlatteningUnique ==
    ASSUME NEW ss, NEW tt, NEW n \in Nat, NEW m \in Nat, m <= n, Agree(ss, tt, m),
           NEW f, IsFlattening(f, ss, n), NEW g, IsFlattening(g, tt, m)
    PROVE  Agree(f, g, m)
  <1> DEFINE N == {k \in Nat : \A i \in 1..k : i <= m => f[i] = g[i]}
  <1>1. 0 \in N
    OBVIOUS
  <1>2. ASSUME NEW k \in Nat, k \in N PROVE k + 1 \in N
    <2>1. ASSUME k + 1 <= m PROVE f[k + 1] = g[k + 1]
      <3>1. /\ f[k + 1] = IF k + 1 = 1 THEN ss[k + 1] ELSE f[k] \o ss[k + 1]
            /\ g[k + 1] = IF k + 1 = 1 THEN tt[k + 1] ELSE g[k] \o tt[k + 1]
        <4>1. k + 1 \in 1..n /\ k + 1 \in 1..m /\ (k + 1) - 1 = k
          BY <2>1
        <4> QED
          BY <4>1 DEF IsFlattening
      <3>2. ss[k + 1] = tt[k + 1] /\ (k # 0 => f[k] = g[k])
        BY <1>2, <2>1 DEF Agree
      <3> QED
        BY <3>1, <3>2
    <2> QED
      BY <1>2, <2>1
  <1>3. Nat \subseteq N
    <2> HIDE DEF N
    <2> QED
      BY <1>1, <1>2, NatSets
  <1> QED
    BY <1>3 DEF Agree

\* FlattenSeq chooses that function.
LEMMA FlattenIs ==
    ASSUME NEW ss, Len(ss) \in Nat, Len(ss) # 0
    PROVE  \E f : IsFlattening(f, ss, Len(ss)) /\ FlattenSeq(ss) = f[Len(ss)]
  <1> DEFINE n == Len(ss)
             step(g) == [i \in 1..n |-> IF i = 1 THEN ss[i] ELSE g[i - 1] \o ss[i]]
             f == CHOOSE g : g = step(g)
  <1>1. FlattenSeq(ss) = f[n]
    BY DEF FlattenSeq
  <1>2. PICK g : IsFlattening(g, ss, n)
    BY FlatteningExists
  <1>3. \A i \in 1..n : g[i] = step(g)[i]
    BY <1>2 DEF IsFlattening
  <1>4. g = [i \in 1..n |-> g[i]] /\ step(g) = [i \in 1..n |-> step(g)[i]]
    BY <1>2 DEF IsFlattening
  <1>5. g = step(g)
    <2> HIDE DEF step
    <2> QED
      BY <1>3, <1>4
  <1>6. f = step(f)
    <2> HIDE DEF step
    <2> QED
      BY <1>5
  <1>7. \A i \in 1..n : step(f)[i] = IF i = 1 THEN ss[i] ELSE f[i - 1] \o ss[i]
    <2> HIDE DEF f
    <2> QED
      OBVIOUS
  <1>8. step(f) = [i \in 1..n |-> step(f)[i]]
    <2> HIDE DEF f
    <2> QED
      OBVIOUS
  <1>9. IsFlattening(f, ss, n)
    <2> HIDE DEF f, step
    <2>1. f = [i \in 1..n |-> f[i]]
      BY <1>6, <1>8
    <2>2. \A i \in 1..n : f[i] = IF i = 1 THEN ss[i] ELSE f[i - 1] \o ss[i]
      BY <1>6, <1>7
    <2> QED
      BY <2>1, <2>2 DEF IsFlattening
  <1> QED
    BY <1>1, <1>9

\* Nothing to flatten, and one sequence.
LEMMA FlattenFew ==
    /\ FlattenSeq(<<>>) = <<>>
    /\ \A x : FlattenSeq(<<x>>) = x
  <1>1. FlattenSeq(<<>>) = <<>>
    BY DEF FlattenSeq
  <1>2. ASSUME NEW x PROVE FlattenSeq(<<x>>) = x
    <2> DEFINE one == <<x>>
    <2>1. Len(one) = 1 /\ one[1] = x
      OBVIOUS
    <2> HIDE DEF one
    <2>2. PICK f : IsFlattening(f, one, Len(one)) /\ FlattenSeq(one) = f[Len(one)]
      <3>1. Len(one) \in Nat /\ Len(one) # 0
        BY <2>1
      <3> QED
        BY <3>1, FlattenIs
    <2>3. FlattenSeq(one) = x
      BY <2>1, <2>2 DEF IsFlattening
    <2> QED
      BY <2>3 DEF one
  <1> QED
    BY <1>1, <1>2

\* One sequence more is appended to what the others flatten to.
LEMMA FlattenAppend ==
    ASSUME NEW A, NEW ss \in Seq(Seq(A)), NEW x \in Seq(A)
    PROVE  FlattenSeq(Append(ss, x)) = FlattenSeq(ss) \o x
  <1> DEFINE n == Len(ss)
             tt == Append(ss, x)
  <1>1. /\ n \in Nat /\ tt \in Seq(Seq(A)) /\ Len(tt) = n + 1
        /\ \A i \in 1..n : tt[i] = ss[i]
        /\ tt[n + 1] = x
    BY AppendProperties, LenProperties
  <1>2. CASE n = 0
    <2>1. ss = <<>> /\ tt = <<x>>
      BY <1>2, EmptySeq
    <2>2. FlattenSeq(ss) = <<>> /\ FlattenSeq(tt) = x
      BY <2>1, FlattenFew
    <2> QED
      BY <2>2, ConcatEmptySeq
  <1>3. CASE n # 0
    <2> HIDE DEF tt
    <2>1. PICK f : IsFlattening(f, ss, n) /\ FlattenSeq(ss) = f[n]
      BY <1>1, <1>3, FlattenIs
    <2>2. \E g : IsFlattening(g, tt, n + 1) /\ FlattenSeq(tt) = g[n + 1]
      <3>1. Len(tt) \in Nat /\ Len(tt) # 0
        BY <1>1
      <3>2. \E g : IsFlattening(g, tt, Len(tt)) /\ FlattenSeq(tt) = g[Len(tt)]
        BY <3>1, FlattenIs
      <3> QED
        BY <1>1, <3>2
    <2> PICK g : IsFlattening(g, tt, n + 1) /\ FlattenSeq(tt) = g[n + 1]
      BY <2>2
    <2>3. g[n + 1] = g[n] \o tt[n + 1]
      <3>1. n + 1 \in 1..(n + 1) /\ n + 1 # 1 /\ (n + 1) - 1 = n
        BY <1>1, <1>3
      <3> QED
        BY <3>1 DEF IsFlattening
    <2>4. g[n] = f[n]
      <3>1. \A i \in 1..n : g[i] = f[i]
        <4>1. n \in Nat /\ n + 1 \in Nat /\ n <= n + 1 /\ Agree(tt, ss, n)
          BY <1>1 DEF Agree
        <4> HIDE DEF n
        <4>2. Agree(g, f, n)
          BY <2>1, <4>1, FlatteningUnique
        <4> QED
          BY <4>2 DEF Agree
      <3> QED
        BY <1>1, <1>3, <3>1
    <2> QED
      BY <1>1, <2>1, <2>3, <2>4 DEF tt
  <1> QED
    BY <1>2, <1>3

\* What sequences of elements flatten to is a sequence of those elements.
LEMMA FlattenType ==
    ASSUME NEW A
    PROVE  \A ss \in Seq(Seq(A)) : FlattenSeq(ss) \in Seq(A)
  <1> DEFINE T == {ss \in Seq(Seq(A)) : FlattenSeq(ss) \in Seq(A)}
  <1>1. <<>> \in T
    BY FlattenFew, EmptySeq
  <1>2. ASSUME NEW ss \in Seq(Seq(A)), NEW x \in Seq(A), ss \in T
        PROVE  Append(ss, x) \in T
    BY <1>2, FlattenAppend, ConcatProperties, AppendProperties
  <1>3. Seq(Seq(A)) \subseteq T
    <2> HIDE DEF T
    <2> QED
      BY <1>1, <1>2, SeqSets
  <1> QED
    BY <1>3

-----------------------------------------------------------------------------
(* Binding: what a function makes of each element, one after the other     *)

\* The sequence of what F makes of each element.
Image(s, F) == [n \in DOMAIN s |-> F[s[n]]]
Bind(s, F) == FlattenSeq(Image(s, F))

\* As many sequences as there are elements.
LEMMA ImageLen ==
    ASSUME NEW A, NEW s \in Seq(A)
    PROVE  \A F : /\ Len(Image(s, F)) = Len(s)
                  /\ DOMAIN Image(s, F) = 1..Len(s)
                  /\ \A i \in 1..Len(s) : Image(s, F)[i] = F[s[i]]
  BY DEF Image

\* Of the type that FlattenSeq takes.
LEMMA ImageSeq ==
    ASSUME NEW A, NEW B, NEW F \in [A -> Seq(B)], NEW s \in Seq(A)
    PROVE  Image(s, F) \in Seq(Seq(B))
  <1> DEFINE T == Seq(B)
  <1>1. \A i \in 1..Len(s) : F[s[i]] \in T
    OBVIOUS
  <1> HIDE DEF T
  <1>2. Image(s, F) \in Seq(T)
    BY <1>1 DEF Image
  <1> QED
    BY <1>2 DEF T

\* Nothing is made of nothing.
LEMMA BindEmpty == \A F : Bind(<<>>, F) = <<>>
  <1>1. \A F : [n \in DOMAIN <<>> |-> F[<<>>[n]]] = <<>>
    OBVIOUS
  <1> QED
    BY <1>1, FlattenFew DEF Bind, Image

\* Of one element, what the function makes of it.
LEMMA BindOne == \A F, x : Bind(<<x>>, F) = F[x]
  <1>1. \A F, x : [n \in DOMAIN <<x>> |-> F[<<x>>[n]]] = <<F[x]>>
    OBVIOUS
  <1> QED
    BY <1>1, FlattenFew DEF Bind, Image

\* What is made of one element more comes last.
LEMMA BindAppend ==
    ASSUME NEW A, NEW B, NEW F \in [A -> Seq(B)], NEW s \in Seq(A), NEW x \in A
    PROVE  Bind(Append(s, x), F) = Bind(s, F) \o F[x]
  <1>1. Image(s, F) \in Seq(Seq(B)) /\ Len(Image(s, F)) = Len(s)
    BY ImageSeq, ImageLen
  <1>2. Append(s, x) \in Seq(A) /\ Len(Append(s, x)) = Len(s) + 1
    BY AppendProperties
  <1>3. /\ Image(Append(s, x), F) \in Seq(Seq(B))
        /\ Len(Image(Append(s, x), F)) = Len(s) + 1
    <2> DEFINE r == Append(s, x)
    <2>1. r \in Seq(A) /\ Len(r) = Len(s) + 1
      BY <1>2
    <2> HIDE DEF r
    <2>2. Image(r, F) \in Seq(Seq(B)) /\ Len(Image(r, F)) = Len(s) + 1
      BY <2>1, ImageSeq, ImageLen
    <2> QED
      BY <2>2 DEF r
  <1>4. Image(Append(s, x), F) = Append(Image(s, F), F[x])
    <2> DEFINE ss == Image(s, F)
               tt == Image(Append(s, x), F)
    <2>1. \A i \in 1..(Len(s) + 1) : tt[i] = Append(ss, F[x])[i]
      BY <1>1 DEF Image
    <2>2. tt \in Seq(Seq(B)) /\ Append(ss, F[x]) \in Seq(Seq(B))
      BY <1>1, <1>3
    <2>3. Len(tt) = Len(s) + 1 /\ Len(Append(ss, F[x])) = Len(s) + 1
      BY <1>1, <1>3
    <2> HIDE DEF ss, tt
    <2>4. tt = Append(ss, F[x])
      BY <2>1, <2>2, <2>3, SeqEqual
    <2> QED
      BY <2>4 DEF ss, tt
  <1>5. FlattenSeq(Append(Image(s, F), F[x])) = FlattenSeq(Image(s, F)) \o F[x]
    BY <1>1, FlattenAppend
  <1> QED
    BY <1>4, <1>5 DEF Bind

\* The result is of what the function makes.
LEMMA BindType ==
    ASSUME NEW A, NEW B, NEW F \in [A -> Seq(B)], NEW s \in Seq(A)
    PROVE  Bind(s, F) \in Seq(B)
  <1>1. Image(s, F) \in Seq(Seq(B))
    BY ImageSeq
  <1> QED
    BY <1>1, FlattenType DEF Bind

\* What is made of two sequences is one after the other, too.
LEMMA BindConcat ==
    ASSUME NEW A, NEW B, NEW F \in [A -> Seq(B)], NEW s \in Seq(A)
    PROVE  \A t \in Seq(A) : Bind(s \o t, F) = Bind(s, F) \o Bind(t, F)
  <1> DEFINE T == {t \in Seq(A) : Bind(s \o t, F) = Bind(s, F) \o Bind(t, F)}
  <1>1. <<>> \in T
    <2>1. Bind(s, F) \in Seq(B)
      BY BindType
    <2>2. s \o <<>> = s /\ Bind(s, F) \o <<>> = Bind(s, F)
      BY <2>1, ConcatEmptySeq
    <2>3. Bind(<<>>, F) = <<>> /\ <<>> \in Seq(A)
      BY BindEmpty, EmptySeq
    <2> QED
      BY <2>2, <2>3
  <1>2. ASSUME NEW t \in Seq(A), NEW x \in A, t \in T
        PROVE  Append(t, x) \in T
    <2>1. s \o t \in Seq(A) /\ Append(t, x) \in Seq(A) /\ s \o Append(t, x) = Append(s \o t, x)
      OBVIOUS
    <2>2. /\ Bind(s, F) \in Seq(B) /\ Bind(t, F) \in Seq(B) /\ F[x] \in Seq(B)
      BY BindType
    <2>3. Bind(s \o Append(t, x), F) = Bind(s \o t, F) \o F[x]
      BY <2>1, BindAppend
    <2>4. Bind(s \o t, F) = Bind(s, F) \o Bind(t, F)
      BY <1>2
    <2>5. (Bind(s, F) \o Bind(t, F)) \o F[x] = Bind(s, F) \o (Bind(t, F) \o F[x])
      BY <2>2, ConcatAssociative
    <2>6. Bind(t, F) \o F[x] = Bind(Append(t, x), F)
      BY BindAppend
    <2> QED
      BY <2>1, <2>3, <2>4, <2>5, <2>6
  <1>3. Seq(A) \subseteq T
    <2> HIDE DEF T
    <2> QED
      BY <1>1, <1>2, SeqSets
  <1> QED
    BY <1>3

\* F makes of every A a sequence of B.
Maps(F, A, B) == F \in [A -> Seq(B)]

\* Binding is associative.
LEMMA BindBind ==
    ASSUME NEW A, NEW B, NEW C, NEW F, NEW G, Maps(F, A, B), Maps(G, B, C)
    PROVE  \A s \in Seq(A) : Bind(Bind(s, F), G) = Bind(s, [x \in A |-> Bind(F[x], G)])
  <1> DEFINE H == [x \in A |-> Bind(F[x], G)]
             T == {s \in Seq(A) : Bind(Bind(s, F), G) = Bind(s, H)}
  <1> USE DEF Maps
  <1>1. H \in [A -> Seq(C)]
    BY BindType
  <1>2. \A x \in A : H[x] = Bind(F[x], G)
    OBVIOUS
  <1> HIDE DEF H
  <1>3. <<>> \in T
    BY BindEmpty
  <1>4. ASSUME NEW s \in Seq(A), NEW x \in A, s \in T
        PROVE  Append(s, x) \in T
    <2>1. Bind(Append(s, x), F) = Bind(s, F) \o F[x]
      BY BindAppend
    <2>2. Bind(s, F) \in Seq(B) /\ F[x] \in Seq(B)
      BY BindType
    <2>3. Bind(Bind(s, F) \o F[x], G) = Bind(Bind(s, F), G) \o Bind(F[x], G)
      BY <2>2, BindConcat
    <2>4. Bind(Append(s, x), H) = Bind(s, H) \o H[x]
      BY <1>1, BindAppend
    <2>5. Append(s, x) \in Seq(A)
      OBVIOUS
    <2> QED
      BY <1>2, <1>4, <2>1, <2>3, <2>4, <2>5
  <1>5. Seq(A) \subseteq T
    <2> HIDE DEF T
    <2> QED
      BY <1>3, <1>4, SeqSets
  <1> QED
    BY <1>5 DEF H

\* A function that makes of each element itself changes nothing.
LEMMA BindUnit ==
    ASSUME NEW A, NEW F \in [A -> Seq(A)], \A x \in A : F[x] = <<x>>
    PROVE  \A s \in Seq(A) : Bind(s, F) = s
  <1> DEFINE T == {s \in Seq(A) : Bind(s, F) = s}
  <1>1. <<>> \in T
    BY BindEmpty
  <1>2. ASSUME NEW s \in Seq(A), NEW x \in A, s \in T
        PROVE  Append(s, x) \in T
    <2>1. Bind(Append(s, x), F) = s \o <<x>>
      BY <1>2, BindAppend
    <2> QED
      BY <2>1, AppendIsConcat
  <1>3. Seq(A) \subseteq T
    <2> HIDE DEF T
    <2> QED
      BY <1>1, <1>2, SeqSets
  <1> QED
    BY <1>3

-----------------------------------------------------------------------------
(* Events and the values they produce                                      *)

Calls == [kind : {"call"}, of : Nat]
Yields == [kind : {"yield"}, of : Nat]
ItemsOf(V) == [kind : {"item"}, of : Nat, value : V]
Events(V) == Calls \cup Yields \cup ItemsOf(V)

\* Expand is Bind of the function with the same values.
LEMMA ExpandIsBind ==
    ASSUME NEW A, NEW s \in Seq(A), NEW t, DOMAIN t = DOMAIN s,
           NEW F, \A n \in DOMAIN s : t[n] = F[s[n]],
           t = [n \in DOMAIN t |-> t[n]]
    PROVE  FlattenSeq(t) = Bind(s, F)
  <1>1. t = Image(s, F)
    BY DEF Image
  <1> QED
    BY <1>1 DEF Bind

ValueFn(V) == [e \in Events(V) |-> ValueOf(e)]

\* Of which kind the events are, and the values that they have.
LEMMA EventValues ==
    ASSUME NEW V
    PROVE  /\ ValueFn(V) \in [Events(V) -> Seq(V)]
           /\ \A i \in Nat : /\ Call(i) \in Calls /\ ~IsItem(Call(i))
                             /\ Yield(i) \in Yields /\ ~IsItem(Yield(i))
                             /\ \A v \in V : /\ Item(i, v) \in ItemsOf(V)
                                             /\ IsItem(Item(i, v)) /\ ValueOf(Item(i, v)) = <<v>>
           /\ \A e \in Events(V) : IsItem(e) => e.value \in V
           /\ \A e \in Events(V) : ~IsItem(e) => e \in Events({})
           /\ \A e \in Events(V) : e.of \in Nat
  <1>1. \A e \in Events(V) : ValueOf(e) \in Seq(V)
    BY DEF Events, Calls, Yields, ItemsOf, ValueOf, IsItem
  <1>2. ValueFn(V) \in [Events(V) -> Seq(V)]
    BY <1>1 DEF ValueFn
  <1>3. \A i \in Nat : /\ Call(i) \in Calls /\ ~IsItem(Call(i))
                       /\ Yield(i) \in Yields /\ ~IsItem(Yield(i))
                       /\ \A v \in V : /\ Item(i, v) \in ItemsOf(V)
                                       /\ IsItem(Item(i, v)) /\ ValueOf(Item(i, v)) = <<v>>
    BY DEF Call, Yield, Item, Calls, Yields, ItemsOf, IsItem, ValueOf
  <1>4. \A e \in Events(V) : IsItem(e) => e.value \in V
    BY DEF Events, Calls, Yields, ItemsOf, IsItem
  <1>5. \A e \in Events(V) : ~IsItem(e) => e \in Events({})
    BY DEF Events, Calls, Yields, ItemsOf, IsItem
  <1>6. \A e \in Events(V) : e.of \in Nat
    BY DEF Events, Calls, Yields, ItemsOf
  <1> QED
    BY <1>2, <1>3, <1>4, <1>5, <1>6

\* The values of events are bound to them.
LEMMA ValuesIs ==
    ASSUME NEW V, NEW s \in Seq(Events(V))
    PROVE  ValuesOf(s) = Bind(s, ValueFn(V)) /\ ValuesOf(s) \in Seq(V)
  <1> DEFINE t == [n \in DOMAIN s |-> ValueOf(s[n])]
  <1>1. \A n \in DOMAIN s : t[n] = ValueFn(V)[s[n]]
    BY DEF ValueFn
  <1>2. DOMAIN t = DOMAIN s /\ t = [n \in DOMAIN t |-> t[n]]
    OBVIOUS
  <1>3. ValuesOf(s) = FlattenSeq(t)
    BY DEF ValuesOf, Expand
  <1>4. FlattenSeq(t) = Bind(s, ValueFn(V))
    <2> HIDE DEF t
    <2> QED
      BY <1>1, <1>2, ExpandIsBind
  <1>5. Bind(s, ValueFn(V)) \in Seq(V)
    BY EventValues, BindType
  <1> QED
    BY <1>3, <1>4, <1>5

\* The values of no event, and of one.
LEMMA ValuesFew ==
    /\ ValuesOf(<<>>) = <<>>
    /\ \A V : \A e \in Events(V) : ValuesOf(<<e>>) = ValueOf(e)
  <1>1. ValuesOf(<<>>) = <<>>
    <2>1. <<>> \in Seq(Events({}))
      OBVIOUS
    <2> QED
      BY <2>1, ValuesIs, BindEmpty
  <1>2. ASSUME NEW V, NEW e \in Events(V) PROVE ValuesOf(<<e>>) = ValueOf(e)
    <2>1. <<e>> \in Seq(Events(V))
      OBVIOUS
    <2>2. ValuesOf(<<e>>) = ValueFn(V)[e]
      BY <2>1, ValuesIs, BindOne
    <2> QED
      BY <2>2 DEF ValueFn
  <1> QED
    BY <1>1, <1>2

\* The values of events one after the other.
LEMMA ValuesConcat ==
    ASSUME NEW V, NEW s \in Seq(Events(V)), NEW t \in Seq(Events(V))
    PROVE  ValuesOf(s \o t) = ValuesOf(s) \o ValuesOf(t)
  <1>1. s \o t \in Seq(Events(V))
    BY ConcatProperties
  <1>2. Bind(s \o t, ValueFn(V)) = Bind(s, ValueFn(V)) \o Bind(t, ValueFn(V))
    <2> DEFINE A == Events(V)
               F == ValueFn(V)
    <2>1. F \in [A -> Seq(V)] /\ s \in Seq(A) /\ t \in Seq(A)
      BY EventValues
    <2> HIDE DEF A, F
    <2>2. Bind(s \o t, F) = Bind(s, F) \o Bind(t, F)
      BY <2>1, BindConcat
    <2> QED
      BY <2>2 DEF F
  <1> QED
    BY <1>1, <1>2, ValuesIs

\* The value of an event more comes last.
LEMMA ValuesAppend ==
    ASSUME NEW V, NEW s \in Seq(Events(V)), NEW e \in Events(V)
    PROVE  ValuesOf(Append(s, e)) = ValuesOf(s) \o ValueOf(e)
  <1>1. <<e>> \in Seq(Events(V)) /\ Append(s, e) = s \o <<e>>
    BY AppendIsConcat
  <1>2. ValuesOf(<<e>>) = ValueOf(e)
    BY ValuesFew
  <1> QED
    BY <1>1, <1>2, ValuesConcat

\* The items of a sequence produce it.
LEMMA ValuesItems ==
    ASSUME NEW V, NEW i \in Nat
    PROVE  \A s \in Seq(V) : Items(i, s) \in Seq(Events(V)) /\ ValuesOf(Items(i, s)) = s
  <1> DEFINE T == {s \in Seq(V) : Items(i, s) \in Seq(Events(V)) /\ ValuesOf(Items(i, s)) = s}
  <1>1. <<>> \in T
    <2>1. Items(i, <<>>) = <<>>
      BY DEF Items
    <2>2. <<>> \in Seq(V) /\ <<>> \in Seq(Events(V))
      OBVIOUS
    <2> QED
      BY <2>1, <2>2, ValuesFew
  <1>2. ASSUME NEW s \in Seq(V), NEW x \in V, s \in T
        PROVE  Append(s, x) \in T
    <2>1. Item(i, x) \in Events(V)
      BY EventValues DEF Events
    <2>2. Items(i, s) \in Seq(Events(V))
      BY <1>2
    <2>3. Items(i, Append(s, x)) = Append(Items(i, s), Item(i, x))
      <3>2. Append(s, x) \in Seq(V) /\ Len(Append(s, x)) = Len(s) + 1
        BY AppendProperties
      <3>3. /\ Len(Items(i, Append(s, x))) = Len(s) + 1
            /\ DOMAIN Items(i, Append(s, x)) = 1..(Len(s) + 1)
            /\ \A n \in 1..(Len(s) + 1) : Items(i, Append(s, x))[n] = Item(i, Append(s, x)[n])
        BY <3>2 DEF Items
      <3>4. /\ Len(Items(i, s)) = Len(s)
            /\ \A n \in 1..Len(s) : Items(i, s)[n] = Item(i, s[n])
        BY DEF Items
      <3>5. Items(i, Append(s, x)) = [n \in 1..(Len(s) + 1) |-> Items(i, Append(s, x))[n]]
        BY <3>2 DEF Items
      <3> DEFINE t == Append(Items(i, s), Item(i, x))
      <3>6. t = [n \in 1..(Len(s) + 1) |-> t[n]]
        <4>1. Items(i, s) \in Seq(Events(V)) /\ Len(Items(i, s)) = Len(s)
          BY <2>2, <3>4
        <4>2. t \in Seq(Events(V)) /\ Len(t) = Len(s) + 1
          BY <2>1, <4>1, AppendProperties
        <4> HIDE DEF t
        <4> QED
          BY <4>2
      <3>7. \A n \in 1..(Len(s) + 1) : Items(i, Append(s, x))[n] = t[n]
        BY <2>1, <2>2, <3>3, <3>4
      <3> HIDE DEF t
      <3>8. Items(i, Append(s, x)) = t
        BY <3>5, <3>6, <3>7
      <3> QED
        BY <3>8 DEF t
    <2>4. ValuesOf(Items(i, Append(s, x))) = s \o <<x>>
      <3>1. ValuesOf(Append(Items(i, s), Item(i, x))) = ValuesOf(Items(i, s)) \o ValueOf(Item(i, x))
        BY <2>1, <2>2, ValuesAppend
      <3>2. ValueOf(Item(i, x)) = <<x>>
        BY EventValues
      <3> QED
        BY <1>2, <2>3, <3>1, <3>2
    <2>5. Append(Items(i, s), Item(i, x)) \in Seq(Events(V)) /\ Append(s, x) \in Seq(V)
      BY <2>1, <2>2, AppendProperties
    <2> QED
      BY <2>3, <2>4, <2>5, AppendIsConcat
  <1>3. Seq(V) \subseteq T
    <2> HIDE DEF T
    <2> QED
      BY <1>1, <1>2, SeqSets
  <1> QED
    BY <1>3

\* Every item is among the values.
LEMMA ItemsProduced ==
    ASSUME NEW V
    PROVE  \A s \in Seq(Events(V)) : s \in Seq(Events(ToSet(ValuesOf(s))))
  <1> DEFINE Produced(s) == \A n \in DOMAIN s : IsItem(s[n]) => s[n].value \in ToSet(ValuesOf(s))
             T == {s \in Seq(Events(V)) : Produced(s)}
  <1>1. <<>> \in T
    OBVIOUS
  <1>2. ASSUME NEW s \in Seq(Events(V)), NEW e \in Events(V), s \in T
        PROVE  Append(s, e) \in T
    <2> DEFINE t == Append(s, e)
               u == ValuesOf(s)
               w == ValueOf(e)
    <2>1. /\ t \in Seq(Events(V)) /\ Len(t) = Len(s) + 1 /\ DOMAIN t = 1..(Len(s) + 1)
          /\ \A n \in 1..Len(s) : t[n] = s[n]
          /\ t[Len(s) + 1] = e
      BY AppendProperties
    <2>2. ValuesOf(t) = u \o w /\ u \in Seq(V) /\ w \in Seq(V)
      BY ValuesAppend, ValuesIs, EventValues DEF ValueFn
    <2>3. ToSet(ValuesOf(t)) = ToSet(u) \cup ToSet(w)
      <3> HIDE DEF t, u, w
      <3>1. ToSet(u \o w) = ToSet(u) \cup ToSet(w)
        <4>1. Len(u) \in Nat /\ Len(w) \in Nat /\ DOMAIN u = 1..Len(u) /\ DOMAIN w = 1..Len(w)
          BY <2>2
        <4>2. /\ DOMAIN (u \o w) = 1..(Len(u) + Len(w))
              /\ \A n \in 1..Len(u) : (u \o w)[n] = u[n]
              /\ \A n \in 1..Len(w) : (u \o w)[Len(u) + n] = w[n]
          BY <2>2, ConcatProperties
        <4>3. \A x \in ToSet(u \o w) : x \in ToSet(u) \cup ToSet(w)
          <5> SUFFICES ASSUME NEW n \in 1..(Len(u) + Len(w))
                       PROVE  (u \o w)[n] \in ToSet(u) \cup ToSet(w)
            BY <4>2 DEF ToSet
          <5>1. CASE n <= Len(u)
            BY <4>1, <4>2, <5>1 DEF ToSet
          <5>2. CASE ~(n <= Len(u))
            <6>1. n - Len(u) \in 1..Len(w) /\ Len(u) + (n - Len(u)) = n
              BY <4>1, <5>2
            <6>2. (u \o w)[n] = w[n - Len(u)]
              BY <4>2, <6>1
            <6> QED
              BY <4>1, <6>1, <6>2 DEF ToSet
          <5> QED
            BY <5>1, <5>2
        <4>4. \A x \in ToSet(u) \cup ToSet(w) : x \in ToSet(u \o w)
          <5>1. \A n \in 1..Len(u) : n \in 1..(Len(u) + Len(w)) /\ (u \o w)[n] = u[n]
            BY <4>1, <4>2
          <5>2. \A n \in 1..Len(w) : Len(u) + n \in 1..(Len(u) + Len(w)) /\ (u \o w)[Len(u) + n] = w[n]
            BY <4>1, <4>2
          <5>3. \A x \in ToSet(u) : x \in ToSet(u \o w)
            BY <4>1, <4>2, <5>1 DEF ToSet
          <5>4. \A x \in ToSet(w) : x \in ToSet(u \o w)
            BY <4>1, <4>2, <5>2 DEF ToSet
          <5> QED
            BY <5>3, <5>4
        <4> QED
          BY <4>3, <4>4
      <3> QED
        BY <2>2, <3>1
    <2>4. IsItem(e) => e.value \in ToSet(w)
      BY DEF ValueOf, ToSet
    <2>5. ASSUME NEW n \in DOMAIN t, IsItem(t[n])
          PROVE  t[n].value \in ToSet(ValuesOf(t))
      <3>1. n \in 1..Len(s) \/ n = Len(s) + 1
        BY <2>1
      <3>2. CASE n \in 1..Len(s)
        <4>1. t[n] = s[n] /\ n \in DOMAIN s
          BY <2>1, <3>2
        <4>2. s[n].value \in ToSet(u)
          BY <1>2, <2>5, <4>1
        <4> QED
          BY <2>3, <4>1, <4>2
      <3>3. CASE n = Len(s) + 1
        BY <2>1, <2>3, <2>4, <2>5, <3>3
      <3> QED
        BY <3>1, <3>2, <3>3
    <2> QED
      BY <2>1, <2>5
  <1>3. Seq(Events(V)) \subseteq T
    <2> HIDE DEF T
    <2> QED
      BY <1>1, <1>2, SeqSets
  <1>4. ASSUME NEW s \in Seq(Events(V))
        PROVE  s \in Seq(Events(ToSet(ValuesOf(s))))
    <2> DEFINE W == ToSet(ValuesOf(s))
    <2>1. Produced(s)
      BY <1>3
    <2>2. ASSUME NEW n \in 1..Len(s) PROVE s[n] \in Events(W)
      <3>1. s[n] \in Events(V) /\ n \in DOMAIN s
        OBVIOUS
      <3>2. CASE IsItem(s[n])
        <4>1. s[n].value \in W
          BY <2>1, <3>1, <3>2
        <4> HIDE DEF W
        <4> QED
          BY <3>1, <3>2, <4>1 DEF Events, Calls, Yields, ItemsOf, IsItem
      <3>3. CASE ~IsItem(s[n])
        <4> HIDE DEF W
        <4> QED
          BY <3>1, <3>3 DEF Events, Calls, Yields, ItemsOf, IsItem
      <3> QED
        BY <3>2, <3>3
    <2> HIDE DEF W
    <2>3. s \in Seq(Events(W))
      BY <2>2
    <2> QED
      BY <2>3 DEF W
  <1> QED
    BY <1>4

\* On behalf of another, the same values.
LEMMA BehalfValues ==
    ASSUME NEW V, NEW i \in Nat, NEW s \in Seq(Events(V))
    PROVE  OnBehalfOf(i, s) \in Seq(Events(V)) /\ ValuesOf(OnBehalfOf(i, s)) = ValuesOf(s)
  <1> DEFINE b == OnBehalfOf(i, s)
  <1>1. ASSUME NEW e \in Events(V)
        PROVE  [e EXCEPT !.of = i] \in Events(V) /\ ValueOf([e EXCEPT !.of = i]) = ValueOf(e)
    <2>1. CASE e \in Calls
      BY <2>1 DEF Events, Calls, ValueOf, IsItem
    <2>2. CASE e \in Yields
      BY <2>2 DEF Events, Yields, ValueOf, IsItem
    <2>3. CASE e \in ItemsOf(V)
      BY <2>3 DEF Events, ItemsOf, ValueOf, IsItem
    <2> QED
      BY <2>1, <2>2, <2>3 DEF Events
  <1>2. /\ b = [n \in 1..Len(s) |-> [s[n] EXCEPT !.of = i]]
        /\ \A n \in 1..Len(s) : s[n] \in Events(V)
    BY DEF OnBehalfOf
  <1> HIDE DEF b
  <1>3. \A n \in 1..Len(s) : b[n] \in Events(V) /\ ValueOf(b[n]) = ValueOf(s[n])
    BY <1>1, <1>2
  <1>4. b \in Seq(Events(V)) /\ DOMAIN b = 1..Len(s)
    BY <1>2, <1>3
  <1>5. [n \in DOMAIN b |-> ValueOf(b[n])] = [n \in DOMAIN s |-> ValueOf(s[n])]
    BY <1>3, <1>4
  <1>6. ValuesOf(b) = ValuesOf(s)
    BY <1>5 DEF ValuesOf, Expand
  <1> QED
    BY <1>4, <1>6 DEF b

\* Without the items, no values.
LEMMA NoItemValues ==
    ASSUME NEW V, NEW s \in Seq(Events(V))
    PROVE  Expand(s, NoItem) \in Seq(Events({})) /\ ValuesOf(Expand(s, NoItem)) = <<>>
  <1> DEFINE F == [e \in Events(V) |-> NoItem(e)]
             t == [n \in DOMAIN s |-> NoItem(s[n])]
  <1>1. \A e \in Events(V) : NoItem(e) \in Seq(Events({}))
    BY EventValues DEF NoItem
  <1>2. F \in [Events(V) -> Seq(Events({}))]
    BY <1>1
  <1>3. /\ \A n \in DOMAIN s : t[n] = F[s[n]]
        /\ DOMAIN t = DOMAIN s /\ t = [n \in DOMAIN t |-> t[n]]
    OBVIOUS
  <1>4. Expand(s, NoItem) = FlattenSeq(t)
    BY DEF Expand
  <1> HIDE DEF F, t
  <1>5. Expand(s, NoItem) = Bind(s, F)
    BY <1>3, <1>4, ExpandIsBind
  <1>6. Bind(s, F) \in Seq(Events({}))
    BY <1>2, BindType
  <1>7. ValuesOf(Bind(s, F)) \in Seq({})
    BY <1>6, ValuesIs
  <1>8. ValuesOf(Bind(s, F)) = <<>>
    BY <1>7
  <1> QED
    BY <1>5, <1>6, <1>7, <1>8

-----------------------------------------------------------------------------
(* Commands and what they produce                                          *)

Commands(V) ==
    {NoCommand} \cup {Some(call, poll) : call \in Seq(Calls), poll \in Seq(Events(V))}

\* A command first calls, which produces nothing, and then produces what its
\* polls do.
LEMMA CommandRuns ==
    ASSUME NEW V, NEW c \in Commands(V)
    PROVE  /\ c.call \in Seq(Calls) /\ c.poll \in Seq(Events(V))
           /\ Run(c) \in Seq(Events(V))
           /\ Produces(c) = ValuesOf(c.poll) /\ Produces(c) \in Seq(V)
           /\ c \in Commands(ToSet(Produces(c)))
           /\ c = NoCommand \/ c = Some(c.call, c.poll)
           /\ c = NoCommand => Produces(c) = <<>>
  <1>1. c = NoCommand \/ \E call \in Seq(Calls), poll \in Seq(Events(V)) : c = Some(call, poll)
    BY DEF Commands
  <1>2. c.call \in Seq(Calls) /\ c.poll \in Seq(Events(V)) /\ (c = NoCommand \/ c = Some(c.call, c.poll))
    <2>1. CASE c = NoCommand
      BY <2>1 DEF NoCommand
    <2>2. CASE \E call \in Seq(Calls), poll \in Seq(Events(V)) : c = Some(call, poll)
      BY <2>2 DEF Some
    <2> QED
      BY <1>1, <2>1, <2>2
  <1>3. c.call \in Seq(Events({})) /\ c.call \in Seq(Events(V))
    BY <1>2 DEF Events
  <1>4. ValuesOf(c.call) = <<>>
    <2>1. ValuesOf(c.call) \in Seq({})
      BY <1>3, ValuesIs
    <2> QED
      BY <2>1
  <1>5. Run(c) \in Seq(Events(V))
    BY <1>2, <1>3, ConcatProperties DEF Run
  <1>6. ValuesOf(c.poll) \in Seq(V)
    BY <1>2, ValuesIs
  <1>7. Produces(c) = ValuesOf(c.poll)
    <2>1. ValuesOf(c.call \o c.poll) = ValuesOf(c.call) \o ValuesOf(c.poll)
      BY <1>2, <1>3, ValuesConcat
    <2> QED
      BY <1>4, <1>6, <2>1, ConcatEmptySeq DEF Produces, Run
  <1>8. c.poll \in Seq(Events(ToSet(Produces(c))))
    BY <1>2, <1>7, ItemsProduced
  <1>9. c \in Commands(ToSet(Produces(c)))
    BY <1>2, <1>8 DEF Commands
  <1>10. c = NoCommand => Produces(c) = <<>>
    BY <1>7, ValuesFew DEF NoCommand
  <1> QED
    BY <1>2, <1>5, <1>6, <1>7, <1>9, <1>10

\* The events polled are what a command produces.
LEMMA SomeCommand ==
    ASSUME NEW V, NEW call \in Seq(Calls), NEW poll \in Seq(Events(V))
    PROVE  /\ Some(call, poll) \in Commands(V)
           /\ Produces(Some(call, poll)) = ValuesOf(poll)
  <1>1. Some(call, poll) \in Commands(V)
    BY DEF Commands
  <1>2. Some(call, poll).poll = poll
    BY DEF Some
  <1> QED
    BY <1>1, <1>2, CommandRuns

\* flat_map, and so then: what the function's command produces for each value.
LEMMA ThenProduces ==
    ASSUME NEW V, NEW W, NEW c \in Commands(V), NEW k \in [V -> Commands(W)]
    PROVE  /\ Then(c, k) \in Commands(W)
           /\ Produces(Then(c, k)) = Bind(Produces(c), [v \in V |-> Produces(k[v])])
           /\ [v \in V |-> Produces(k[v])] \in [V -> Seq(W)]
  <1> DEFINE G == [v \in V |-> Produces(k[v])]
             E == [e \in Events(V) |-> IF IsItem(e) THEN OnBehalfOf(e.of, Run(k[e.value])) ELSE <<e>>]
             p == c.poll
  <1>1. G \in [V -> Seq(W)] /\ \A v \in V : G[v] = Produces(k[v])
    BY CommandRuns
  <1>2. /\ p \in Seq(Events(V)) /\ c.call \in Seq(Calls) /\ Produces(c) = ValuesOf(p)
        /\ Produces(c) = Bind(p, ValueFn(V))
    BY CommandRuns, ValuesIs
  <1>3. ASSUME NEW e \in Events(V)
        PROVE  E[e] \in Seq(Events(W)) /\ ValuesOf(E[e]) = Bind(ValueOf(e), G)
    <2> HIDE DEF G
    <2>1. CASE IsItem(e)
      <3>1. e.value \in V /\ e.of \in Nat /\ k[e.value] \in Commands(W)
        BY <2>1, EventValues
      <3> DEFINE r == Run(k[e.value])
      <3>2. r \in Seq(Events(W)) /\ ValuesOf(r) = Produces(k[e.value])
        BY <3>1, CommandRuns DEF Produces
      <3>3. E[e] = OnBehalfOf(e.of, r)
        BY <2>1
      <3> HIDE DEF r, E
      <3>4. E[e] \in Seq(Events(W)) /\ ValuesOf(E[e]) = ValuesOf(r)
        BY <3>1, <3>2, <3>3, BehalfValues
      <3>5. Bind(ValueOf(e), G) = G[e.value]
        BY <2>1, BindOne DEF ValueOf
      <3> QED
        BY <1>1, <3>1, <3>2, <3>4, <3>5
    <2>2. CASE ~IsItem(e)
      <3>1. e \in Events({}) /\ e \in Events(W)
        <4>1. e \in Events({})
          BY <2>2, EventValues
        <4>2. Events({}) \subseteq Events(W)
          BY DEF Events, ItemsOf
        <4> QED
          BY <4>1, <4>2
      <3>2. E[e] = <<e>> /\ ValueOf(e) = <<>>
        BY <2>2 DEF ValueOf
      <3>3. <<e>> \in Seq(Events(W)) /\ ValuesOf(<<e>>) = ValueOf(e)
        BY <3>1, ValuesFew
      <3> HIDE DEF E
      <3> QED
        BY <3>2, <3>3, BindEmpty
    <2> QED
      BY <2>1, <2>2
  <1>4. E \in [Events(V) -> Seq(Events(W))]
    BY <1>3
  <1>5. FlatMap(p, k) = Bind(p, E)
    <2> DEFINE t == [n \in DOMAIN p |-> IF IsItem(p[n]) THEN OnBehalfOf(p[n].of, Run(k[p[n].value])) ELSE <<p[n]>>]
    <2>1. FlatMap(p, k) = FlattenSeq(t)
      BY DEF FlatMap, Expand
    <2>2. \A n \in DOMAIN p : t[n] = E[p[n]]
      BY <1>2
    <2>3. DOMAIN t = DOMAIN p /\ t = [n \in DOMAIN t |-> t[n]]
      OBVIOUS
    <2> HIDE DEF t, E, p
    <2> QED
      BY <1>2, <2>1, <2>2, <2>3, ExpandIsBind
  <1>6. Bind(p, E) \in Seq(Events(W))
    <2> HIDE DEF E, p
    <2> QED
      BY <1>2, <1>4, BindType
  <1>7. ValuesOf(Bind(p, E)) = Bind(Produces(c), G)
    <2> DEFINE A == Events(V)
               B == Events(W)
               Fv == ValueFn(V)
               Fw == ValueFn(W)
    <2>1. Fv \in [A -> Seq(V)] /\ Fw \in [B -> Seq(W)] /\ E \in [A -> Seq(B)] /\ p \in Seq(A)
      BY <1>2, <1>4, EventValues
    <2>2. ValuesOf(Bind(p, E)) = Bind(Bind(p, E), Fw)
      BY <1>6, ValuesIs
    <2>3. \A e \in A : Bind(E[e], Fw) = Bind(Fv[e], G)
      <3> SUFFICES ASSUME NEW e \in A PROVE Bind(E[e], Fw) = Bind(Fv[e], G)
        OBVIOUS
      <3>1. E[e] \in Seq(Events(W)) /\ ValuesOf(E[e]) = Bind(ValueOf(e), G)
        BY <1>3
      <3>2. ValuesOf(E[e]) = Bind(E[e], Fw)
        <4> HIDE DEF E, p
        <4> QED
          BY <3>1, ValuesIs
      <3>3. Fv[e] = ValueOf(e)
        BY DEF ValueFn
      <3> QED
        BY <3>1, <3>2, <3>3
    <2> HIDE DEF A, B, Fv, Fw, E, G, p
    <2>0. Maps(Fv, A, V) /\ Maps(Fw, B, W) /\ Maps(E, A, B) /\ Maps(G, V, W)
      BY <1>1, <2>1 DEF Maps
    <2>4. Bind(Bind(p, E), Fw) = Bind(p, [e \in A |-> Bind(E[e], Fw)])
      BY <2>0, <2>1, BindBind
    <2>5. Bind(Bind(p, Fv), G) = Bind(p, [e \in A |-> Bind(Fv[e], G)])
      BY <2>0, <2>1, BindBind
    <2>6. [e \in A |-> Bind(E[e], Fw)] = [e \in A |-> Bind(Fv[e], G)]
      BY <2>3
    <2> QED
      BY <1>2, <2>2, <2>4, <2>5, <2>6 DEF Fv
  <1>8. CASE c = NoCommand
    <2>1. Then(c, k) = NoCommand /\ NoCommand \in Commands(W)
      BY <1>8 DEF Then, Commands
    <2>2. Produces(c) = <<>>
      BY <1>8, CommandRuns
    <2> HIDE DEF G
    <2> QED
      BY <1>1, <1>8, <2>1, <2>2, BindEmpty DEF G
  <1>9. CASE c # NoCommand
    <2> HIDE DEF E
    <2>1. Then(c, k) = Some(c.call, Bind(p, E))
      BY <1>5, <1>9 DEF Then
    <2>2. Then(c, k) \in Commands(W)
      BY <1>2, <1>6, <2>1 DEF Commands
    <2>3. Then(c, k).poll = Bind(p, E)
      BY <2>1 DEF Some
    <2>4. Produces(Then(c, k)) = Bind(Produces(c), G)
      BY <1>7, <2>2, <2>3, CommandRuns
    <2> QED
      BY <1>1, <2>2, <2>4
  <1> QED
    BY <1>8, <1>9

\* chain appends, and none is its unit.
LEMMA ChainProduces ==
    ASSUME NEW V, NEW c \in Commands(V), NEW d \in Commands(V)
    PROVE  Chain(c, d) \in Commands(V) /\ Produces(Chain(c, d)) = Produces(c) \o Produces(d)
  <1>1. Produces(c) \in Seq(V) /\ Produces(d) \in Seq(V)
    BY CommandRuns
  <1>2. CASE c = NoCommand
    BY <1>1, <1>2, CommandRuns, ConcatEmptySeq DEF Chain
  <1>3. CASE c # NoCommand /\ d = NoCommand
    BY <1>1, <1>3, CommandRuns, ConcatEmptySeq DEF Chain
  <1>4. CASE c # NoCommand /\ d # NoCommand
    <2>1. /\ c.call \in Seq(Calls) /\ c.poll \in Seq(Events(V))
          /\ d.call \in Seq(Calls) /\ d.poll \in Seq(Events(V))
      BY CommandRuns
    <2>2. c.call \o d.call \in Seq(Calls) /\ c.poll \o d.poll \in Seq(Events(V))
      BY <2>1, ConcatProperties
    <2>3. Chain(c, d) = Some(c.call \o d.call, c.poll \o d.poll)
      BY <1>4 DEF Chain
    <2>6. Chain(c, d) \in Commands(V) /\ Produces(Chain(c, d)) = ValuesOf(c.poll \o d.poll)
      BY <2>2, <2>3, SomeCommand
    <2>7. ValuesOf(c.poll \o d.poll) = ValuesOf(c.poll) \o ValuesOf(d.poll)
      BY <2>1, ValuesConcat
    <2>8. Produces(c) = ValuesOf(c.poll) /\ Produces(d) = ValuesOf(d.poll)
      BY CommandRuns
    <2> QED
      BY <2>6, <2>7, <2>8
  <1> QED
    BY <1>2, <1>3, <1>4

\* The commands that basic ones are made of.
LEMMA SomeProduces ==
    ASSUME NEW V, NEW i \in Nat, NEW s \in Seq(V)
    PROVE  /\ Stream(i, s) \in Commands(V) /\ Produces(Stream(i, s)) = s
           /\ \A r \in V : /\ Oneshot(i, r, s) \in Commands(V)
                           /\ Produces(Oneshot(i, r, s)) = <<r>> \o s
  <1>1. Items(i, s) \in Seq(Events(V)) /\ ValuesOf(Items(i, s)) = s
    BY ValuesItems
  <1>2. ASSUME NEW e \in Events(V)
        PROVE  /\ Some(<<Call(i)>>, <<e>> \o Items(i, s)) \in Commands(V)
               /\ Produces(Some(<<Call(i)>>, <<e>> \o Items(i, s))) = ValueOf(e) \o s
    <2> DEFINE p == <<e>> \o Items(i, s)
               c == Some(<<Call(i)>>, p)
    <2>1. <<e>> \in Seq(Events(V))
      OBVIOUS
    <2>2. p \in Seq(Events(V)) /\ ValuesOf(p) = ValuesOf(<<e>>) \o ValuesOf(Items(i, s))
      BY <1>1, <2>1, ConcatProperties, ValuesConcat
    <2>3. ValuesOf(<<e>>) = ValueOf(e)
      BY ValuesFew
    <2>4. Call(i) \in Calls
      BY EventValues
    <2>5. <<Call(i)>> \in Seq(Calls)
      BY <2>4
    <2> HIDE DEF p
    <2>6. c \in Commands(V) /\ Produces(c) = ValuesOf(p)
      BY <2>2, <2>5, SomeCommand
    <2> HIDE DEF c
    <2> QED
      BY <1>1, <2>2, <2>3, <2>6 DEF c, p
  <1>3. Yield(i) \in Events(V) /\ ValueOf(Yield(i)) = <<>>
    BY EventValues DEF Events, ValueOf
  <1>4. \A r \in V : Item(i, r) \in Events(V) /\ ValueOf(Item(i, r)) = <<r>>
    BY EventValues DEF Events
  <1>5. Stream(i, s) \in Commands(V) /\ Produces(Stream(i, s)) = s
    BY <1>2, <1>3, ConcatEmptySeq DEF Stream
  <1>6. ASSUME NEW r \in V
        PROVE  Oneshot(i, r, s) \in Commands(V) /\ Produces(Oneshot(i, r, s)) = <<r>> \o s
    BY <1>2, <1>4 DEF Oneshot
  <1> QED
    BY <1>5, <1>6

\* collect produces one value, and of none the empty vector.
LEMMA CollectProduces ==
    ASSUME NEW V, NEW c \in Commands(V)
    PROVE  Collect(c) \in Commands(Seq(V)) /\ Produces(Collect(c)) = <<Produces(c)>>
  <1>1. Produces(c) \in Seq(V)
    BY CommandRuns
  <1>2. CASE c = NoCommand
    <2>1. Produces(c) = <<>>
      BY <1>2, CommandRuns
    <2> DEFINE W == Seq(V)
               one == << <<>> >>
    <2>2. <<>> \in W
      OBVIOUS
    <2> HIDE DEF W
    <2>3. one \in Seq(W) /\ 0 \in Nat
      BY <2>2
    <2>4. Collect(c) = Stream(0, one)
      BY <1>2 DEF Collect, Done, Future
    <2> HIDE DEF one
    <2>5. Collect(c) \in Commands(W) /\ Produces(Collect(c)) = one
      BY <2>3, <2>4, SomeProduces
    <2> QED
      BY <2>1, <2>5 DEF W, one
  <1>3. CASE c # NoCommand
    <2> DEFINE W == Seq(V)
               v == Produces(c)
               quiet == Expand(c.poll, NoItem)
               one == <<Item(0, v)>>
               p == <<Yield(0)>> \o quiet \o one
    <2>1. c.call \in Seq(Calls) /\ c.poll \in Seq(Events(V))
      BY CommandRuns
    <2>2. quiet \in Seq(Events({})) /\ ValuesOf(quiet) = <<>>
      BY <2>1, NoItemValues
    <2>3. Collect(c) = Some(c.call, p)
      BY <1>3 DEF Collect
    <2>4. v \in W
      BY <1>1
    <2> HIDE DEF W, v, quiet
    <2>5. Events({}) \subseteq Events(W)
      BY DEF Events, ItemsOf
    <2>6. /\ Yield(0) \in Events(W) /\ ValueOf(Yield(0)) = <<>>
          /\ Item(0, v) \in Events(W) /\ ValueOf(Item(0, v)) = <<v>>
      BY <2>4, EventValues DEF Events, ValueOf
    <2>7. quiet \in Seq(Events(W)) /\ <<Yield(0)>> \in Seq(Events(W)) /\ one \in Seq(Events(W))
      BY <2>2, <2>5, <2>6
    <2>8. <<Yield(0)>> \o quiet \in Seq(Events(W)) /\ p \in Seq(Events(W))
      BY <2>7, ConcatProperties
    <2>9. ValuesOf(<<Yield(0)>>) = <<>> /\ ValuesOf(one) = <<v>>
      BY <2>6, ValuesFew
    <2> DEFINE start == <<Yield(0)>>
    <2> HIDE DEF p, one, start
    <2>10. ValuesOf(start \o quiet) = <<>> \o <<>>
      BY <2>2, <2>7, <2>9, ValuesConcat DEF start
    <2>11. ValuesOf(p) = (<<>> \o <<>>) \o <<v>>
      <3>1. p = (start \o quiet) \o one
        BY DEF p, start
      <3>2. ValuesOf(p) = ValuesOf(start \o quiet) \o ValuesOf(one)
        BY <2>7, <2>8, <3>1, ValuesConcat DEF start
      <3> QED
        BY <2>9, <2>10, <3>2
    <2>12. Collect(c) \in Commands(W) /\ Produces(Collect(c)) = ValuesOf(p)
      BY <2>1, <2>3, <2>8, SomeCommand
    <2> QED
      BY <2>11, <2>12 DEF W, v
  <1> QED
    BY <1>2, <1>3

-----------------------------------------------------------------------------
(* then is monadic                                                         *)

\* What functions that agree on the elements make of them is the same.
LEMMA BindSame ==
    ASSUME NEW A, NEW s \in Seq(A), NEW F, NEW G, \A x \in A : F[x] = G[x]
    PROVE  Bind(s, F) = Bind(s, G)
  <1>1. \A n \in DOMAIN s : F[s[n]] = G[s[n]]
    OBVIOUS
  <1>2. Image(s, F) = Image(s, G)
    BY <1>1 DEF Image
  <1> QED
    BY <1>2 DEF Bind

\* What the function given to then produces, as DoThen promises.
Out(k, v) ==
    CASE k = "drop" -> <<>>
      [] k = "keep" -> <<v>>
      [] k = "twice" -> <<v, v>>
      [] k = "something" -> IF v = Nothing THEN <<>> ELSE <<v>>
      [] k = "wrap" -> << <<v>> >>

Wide(V) == V \cup Seq(V)
OutFn(k, V) == [v \in V |-> Out(k, v)]

\* The functions given to then produce what DoThen promises.
LEMMA ContinueProduces ==
    ASSUME NEW V, NEW v \in V, NEW k \in Continuations
    PROVE  Continue(k, v) \in Commands(Wide(V)) /\ Produces(Continue(k, v)) = Out(k, v)
  <1> DEFINE W == Wide(V)
             w == <<v>>
  <1>1. v \in W /\ w \in W
    BY DEF Wide
  <1> HIDE DEF W, w
  <1>2. NoCommand \in Commands(W) /\ Produces(NoCommand) = <<>>
    <2>1. NoCommand \in Commands(W)
      BY DEF Commands
    <2> QED
      BY <2>1, CommandRuns
  <1>3. \A s \in Seq(W) : Stream(0, s) \in Commands(W) /\ Produces(Stream(0, s)) = s
    <2>1. 0 \in Nat
      OBVIOUS
    <2> QED
      BY <2>1, SomeProduces
  <1>4. <<v>> \in Seq(W) /\ <<v, v>> \in Seq(W) /\ <<w>> \in Seq(W)
    BY <1>1
  <1>5. k \in {"drop", "keep", "twice", "something", "wrap"}
    BY DEF Continuations
  <1>6. CASE k = "drop"
    BY <1>2, <1>6 DEF Continue, Out, W
  <1>7. CASE k = "keep"
    BY <1>3, <1>4, <1>7 DEF Continue, Out, Done, Future, W
  <1>8. CASE k = "twice"
    BY <1>3, <1>4, <1>8 DEF Continue, Out, W
  <1>9. CASE k = "something"
    BY <1>2, <1>3, <1>4, <1>9 DEF Continue, Out, Done, Future, W
  <1>10. CASE k = "wrap"
    BY <1>3, <1>4, <1>10 DEF Continue, Out, Done, Future, W, w
  <1> QED
    BY <1>5, <1>6, <1>7, <1>8, <1>9, <1>10

\* So they make sequences.
LEMMA OutMaps ==
    ASSUME NEW V, NEW k \in Continuations
    PROVE  Maps(OutFn(k, V), V, Wide(V))
  <1>1. ASSUME NEW v \in V PROVE Out(k, v) \in Seq(Wide(V))
    <2>1. Continue(k, v) \in Commands(Wide(V)) /\ Produces(Continue(k, v)) = Out(k, v)
      BY ContinueProduces
    <2> QED
      BY <2>1, CommandRuns
  <1> QED
    BY <1>1 DEF Maps, OutFn

Bound(c, k) == Then(c, Continuation(k, c))

\* then with one of them.
LEMMA BoundProduces ==
    ASSUME NEW V, NEW c \in Commands(V), NEW k \in Continuations
    PROVE  /\ Bound(c, k) \in Commands(Wide(V))
           /\ Produces(Bound(c, k)) = Bind(Produces(c), OutFn(k, V))
  <1> DEFINE U == ToSet(Produces(c))
             K == Continuation(k, c)
             G == [v \in U |-> Produces(K[v])]
  <1>1. Produces(c) \in Seq(V) /\ c \in Commands(U)
    BY CommandRuns
  <1>2. Produces(c) \in Seq(U) /\ U \subseteq V
    BY <1>1 DEF ToSet
  <1>3. /\ K \in [U -> Commands(Wide(V))]
        /\ \A v \in U : Produces(K[v]) = Out(k, v)
    <2>1. \A v \in U : /\ Continue(k, v) \in Commands(Wide(V))
                       /\ Produces(Continue(k, v)) = Out(k, v)
      <3> HIDE DEF U
      <3> QED
        BY <1>2, ContinueProduces
    <2> QED
      BY <2>1 DEF Continuation
  <1> HIDE DEF K, U
  <1>4. Then(c, K) \in Commands(Wide(V)) /\ Produces(Then(c, K)) = Bind(Produces(c), G)
    BY <1>1, <1>3, ThenProduces
  <1>5. \A v \in U : G[v] = OutFn(k, V)[v]
    BY <1>2, <1>3 DEF OutFn
  <1>6. Bind(Produces(c), G) = Bind(Produces(c), OutFn(k, V))
    <2> HIDE DEF G
    <2> QED
      BY <1>2, <1>5, BindSame
  <1> QED
    BY <1>4, <1>6 DEF Bound, K

\* then with two of them, one after the other or as one, and with done.
LEMMA MonadLaws ==
    ASSUME NEW V, NEW c \in Commands(V)
    PROVE  /\ Produces(Bound(c, "keep")) = Produces(c)
           /\ \A j, k \in Continuations :
                Produces(Bound(Bound(c, j), k)) =
                Produces(Then(c, [v \in ToSet(Produces(c)) |-> Bound(Continue(j, v), k)]))
  <1> DEFINE U == ToSet(Produces(c))
             p == Produces(c)
  <1>1. c \in Commands(U) /\ p \in Seq(U)
    <2>1. p \in Seq(V) /\ c \in Commands(U)
      BY CommandRuns
    <2> QED
      BY <2>1 DEF ToSet
  <1> HIDE DEF U
  <1>2. Produces(Bound(c, "keep")) = p
    <2> DEFINE F == [v \in U |-> <<v>>]
    <2>1. F \in [U -> Seq(U)] /\ \A v \in U : F[v] = <<v>>
      OBVIOUS
    <2>2. \A v \in U : OutFn("keep", U)[v] = F[v]
      BY DEF OutFn, Out
    <2>3. Produces(Bound(c, "keep")) = Bind(p, OutFn("keep", U))
      BY <1>1, BoundProduces DEF Continuations
    <2> HIDE DEF F, p
    <2>4. Bind(p, OutFn("keep", U)) = Bind(p, F)
      BY <1>1, <2>2, BindSame
    <2>5. Bind(p, F) = p
      BY <1>1, <2>1, BindUnit
    <2> QED
      BY <2>3, <2>4, <2>5
  <1>3. ASSUME NEW j \in Continuations, NEW k \in Continuations
        PROVE  Produces(Bound(Bound(c, j), k)) =
               Produces(Then(c, [v \in U |-> Bound(Continue(j, v), k)]))
    <2> DEFINE W == Wide(U)
               Fj == OutFn(j, U)
               Fk == OutFn(k, W)
               K == [v \in U |-> Bound(Continue(j, v), k)]
               G == [v \in U |-> Produces(K[v])]
               H == [v \in U |-> Bind(Fj[v], Fk)]
    <2>1. Maps(Fj, U, W) /\ Maps(Fk, W, Wide(W))
      BY OutMaps
    <2>2. Bound(c, j) \in Commands(W) /\ Produces(Bound(c, j)) = Bind(p, Fj)
      BY <1>1, BoundProduces
    <2>3. Produces(Bound(Bound(c, j), k)) = Bind(Bind(p, Fj), Fk)
      <3> HIDE DEF W, Fj, p
      <3> QED
        BY <2>2, BoundProduces
    <2>4. Bind(Bind(p, Fj), Fk) = Bind(p, H)
      <3> HIDE DEF W, Fj, Fk, p
      <3> QED
        BY <1>1, <2>1, BindBind
    <2>5. ASSUME NEW v \in U
          PROVE  K[v] \in Commands(Wide(W)) /\ Produces(K[v]) = Bind(Fj[v], Fk)
      <3>1. Continue(j, v) \in Commands(W) /\ Produces(Continue(j, v)) = Out(j, v)
        BY ContinueProduces
      <3>2. /\ Bound(Continue(j, v), k) \in Commands(Wide(W))
            /\ Produces(Bound(Continue(j, v), k)) = Bind(Out(j, v), Fk)
        <4> HIDE DEF W
        <4> QED
          BY <3>1, BoundProduces
      <3>3. Fj[v] = Out(j, v) /\ K[v] = Bound(Continue(j, v), k)
        BY DEF OutFn
      <3> QED
        BY <3>2, <3>3
    <2>6. K \in [U -> Commands(Wide(W))]
      BY <2>5
    <2>7. Produces(Then(c, K)) = Bind(p, G)
      <3> HIDE DEF W, K
      <3> QED
        BY <1>1, <2>6, ThenProduces
    <2>8. \A v \in U : G[v] = H[v]
      BY <2>5
    <2>9. Bind(p, G) = Bind(p, H)
      <3> HIDE DEF G, H, p
      <3> QED
        BY <1>1, <2>8, BindSame
    <2> QED
      BY <2>3, <2>4, <2>7, <2>9
  <1> QED
    BY <1>2, <1>3 DEF U

-----------------------------------------------------------------------------
(* Merging                                                                 *)

\* Which places of a merge are from s.
Picks(s, t) == {ofS \in SUBSET (1..(Len(s) + Len(t))) : Cardinality(ofS) = Len(s)}

Before(ofS, i) == Cardinality(ofS \cap 1..i)
Merged(s, t, ofS) ==
    [i \in 1..(Len(s) + Len(t)) |->
        IF i \in ofS THEN s[Before(ofS, i)] ELSE t[i - Before(ofS, i)]]

\* What the places picked make of s and t.
LEMMA MergesAre ==
    \A s, t : Merges(s, t) = {Merged(s, t, ofS) : ofS \in Picks(s, t)}
  BY DEF Merges, Picks, Merged, Before, kSubset

\* A part of an interval is finite.
LEMMA PartFinite ==
    ASSUME NEW n \in Nat, NEW o \in SUBSET (1..n)
    PROVE  IsFiniteSet(o) /\ Cardinality(o) \in Nat /\ Cardinality(o) <= n
  <1>1. IsFiniteSet(1..n) /\ Cardinality(1..n) = n
    BY FS_Interval
  <1>2. IsFiniteSet(o) /\ Cardinality(o) <= Cardinality(1..n)
    BY <1>1, FS_Subset
  <1> QED
    BY <1>1, <1>2, FS_CardinalityType

\* The next element of a part is where its count is.
LEMMA BeforeRange ==
    ASSUME NEW a \in Nat, NEW b \in Nat, NEW o \in SUBSET (1..(a + b)), Cardinality(o) = a,
           NEW i \in 1..(a + b)
    PROVE  /\ Before(o, i) \in Nat
           /\ i \in o => Before(o, i) \in 1..a
           /\ i \notin o => i - Before(o, i) \in 1..b
  <1> DEFINE l == o \cap 1..i
             r == (1..i) \ o
             z == (1..(a + b)) \ o
  <1>1. i \in Nat /\ i <= a + b /\ a + b \in Nat /\ l \in SUBSET (1..i) /\ r \in SUBSET (1..i)
        /\ z \in SUBSET (1..(a + b)) /\ l \in SUBSET o /\ r \in SUBSET z
    OBVIOUS
  <1>2. IsFiniteSet(o) /\ IsFiniteSet(z) /\ IsFiniteSet(l) /\ IsFiniteSet(r)
    <2>1. IsFiniteSet(1..i) /\ IsFiniteSet(1..(a + b))
      BY <1>1, FS_Interval
    <2> QED
      BY <1>1, <2>1, FS_Subset
  <1>3. /\ Cardinality(l) \in Nat /\ Cardinality(r) \in Nat /\ Cardinality(z) \in Nat
        /\ Cardinality(l) <= a /\ Cardinality(r) <= Cardinality(z)
    BY <1>1, <1>2, FS_CardinalityType, FS_Subset
  <1>4. Cardinality(1..i) = i /\ Cardinality(1..(a + b)) = a + b
    BY <1>1, FS_Interval
  <1>5. Cardinality(l) + Cardinality(r) = i
    <2>1. IsFiniteSet(1..i) /\ IsFiniteSet(o)
      BY <1>1, <1>2, FS_Interval
    <2>2. Cardinality(r) = Cardinality(1..i) - Cardinality((1..i) \cap o)
      BY <2>1, FS_Difference
    <2>3. Cardinality((1..i) \cap o) = Cardinality(l)
      <3>1. (1..i) \cap o = l
        OBVIOUS
      <3> QED
        BY <3>1
    <2>4. Cardinality(r) = i - Cardinality(l)
      BY <1>4, <2>2, <2>3
    <2> HIDE DEF l, r
    <2> QED
      BY <1>1, <1>3, <2>4
  <1>6. Cardinality(z) = b
    <2>1. IsFiniteSet(1..(a + b)) /\ IsFiniteSet(o)
      BY <1>1, <1>2, FS_Interval
    <2>2. Cardinality((1..(a + b)) \ o) = Cardinality(1..(a + b)) - Cardinality((1..(a + b)) \cap o)
      BY <2>1, FS_Difference
    <2>3. (1..(a + b)) \cap o = o
      OBVIOUS
    <2>4. Cardinality(z) = (a + b) - a
      BY <1>4, <2>2, <2>3
    <2> QED
      BY <2>4
  <1>7. i \in o => Cardinality(l) # 0
    <2>1. i \in o => i \in l
      BY <1>1
    <2> QED
      BY <1>2, <2>1, FS_EmptySet
  <1>8. i \notin o => Cardinality(r) # 0
    <2>1. i \notin o => i \in r
      BY <1>1
    <2> QED
      BY <1>2, <2>1, FS_EmptySet
  <1>9. Before(o, i) = Cardinality(l)
    BY DEF Before
  <1> HIDE DEF l, r, z
  <1>10. i - Before(o, i) = Cardinality(r)
    BY <1>1, <1>3, <1>5, <1>9
  <1> QED
    BY <1>3, <1>6, <1>7, <1>8, <1>9, <1>10

\* What is appended to either part can come last.
LEMMA MergeLonger ==
    ASSUME NEW A, NEW s \in Seq(A), NEW t \in Seq(A), NEW x \in A, NEW o \in Picks(s, t)
    PROVE  LET n == Len(s) + Len(t) IN
           /\ o \cup {n + 1} \in Picks(Append(s, x), t)
           /\ Merged(Append(s, x), t, o \cup {n + 1}) = Append(Merged(s, t, o), x)
           /\ o \in Picks(s, Append(t, x))
           /\ Merged(s, Append(t, x), o) = Append(Merged(s, t, o), x)
           /\ Merged(s, t, o) \in Seq(A)
  <1> DEFINE n == Len(s) + Len(t)
             m == Merged(s, t, o)
             q == o \cup {n + 1}
             sx == Append(s, x)
             tx == Append(t, x)
  <1>1. Len(s) \in Nat /\ Len(t) \in Nat /\ n \in Nat /\ n = Len(s) + Len(t)
    OBVIOUS
  <1>2. o \in SUBSET (1..n) /\ Cardinality(o) = Len(s) /\ IsFiniteSet(o)
    BY <1>1, PartFinite DEF Picks
  <1>3. \A i \in 1..n : /\ Before(o, i) \in Nat
                        /\ i \in o => Before(o, i) \in 1..Len(s)
                        /\ i \notin o => i - Before(o, i) \in 1..Len(t)
    BY <1>1, <1>2, BeforeRange
  <1>4. /\ Len(sx) = Len(s) + 1 /\ \A i \in 1..Len(s) : sx[i] = s[i]
        /\ sx[Len(s) + 1] = x
        /\ Len(tx) = Len(t) + 1 /\ \A i \in 1..Len(t) : tx[i] = t[i]
        /\ tx[Len(t) + 1] = x
    BY AppendProperties
  <1>5. /\ m = [i \in 1..n |-> m[i]]
        /\ \A i \in 1..n : m[i] = IF i \in o THEN s[Before(o, i)] ELSE t[i - Before(o, i)]
    BY DEF Merged
  <1>6. /\ Len(sx) + Len(t) = n + 1
        /\ Len(s) + Len(tx) = n + 1
    BY <1>1, <1>4
  <1> HIDE DEF n, m
  <1>7. m \in Seq(A) /\ Len(m) = n
    <2>1. \A i \in 1..n : m[i] \in A
      BY <1>3, <1>5
    <2> QED
      BY <1>1, <1>5, <2>1
  <1>8. /\ Append(m, x) = [i \in 1..(n + 1) |-> Append(m, x)[i]]
        /\ \A i \in 1..n : Append(m, x)[i] = m[i]
        /\ Append(m, x)[n + 1] = x
    <2> DEFINE mx == Append(m, x)
    <2>1. /\ mx \in Seq(A) /\ Len(mx) = n + 1
          /\ \A i \in 1..n : mx[i] = m[i]
          /\ mx[n + 1] = x
      BY <1>7, AppendProperties
    <2> HIDE DEF mx
    <2>2. mx = [i \in 1..(n + 1) |-> mx[i]]
      BY <2>1
    <2> QED
      BY <2>1, <2>2 DEF mx
  <1>9. n + 1 \notin o
    BY <1>1, <1>2
  <1>10. q \in SUBSET (1..(n + 1)) /\ Cardinality(q) = Len(s) + 1
    <2>1. q \in SUBSET (1..(n + 1))
      <3>1. o \subseteq 1..n /\ 1..n \subseteq 1..(n + 1) /\ n + 1 \in 1..(n + 1)
        BY <1>1, <1>2
      <3> QED
        BY <3>1
    <2>2. Cardinality(q) = Cardinality(o) + 1
      BY <1>2, <1>9, FS_AddElement
    <2> QED
      BY <1>2, <2>1, <2>2
  <1>11. q \in Picks(sx, t)
    <2> HIDE DEF q, sx
    <2> QED
      BY <1>4, <1>6, <1>10 DEF Picks
  <1>12. o \in Picks(s, tx)
    <2>1. o \in SUBSET (1..(n + 1))
      BY <1>1, <1>2
    <2> HIDE DEF tx
    <2> QED
      BY <1>2, <1>6, <2>1 DEF Picks
  <1>13. Merged(sx, t, q) = Append(m, x)
    <2> DEFINE mq == Merged(sx, t, q)
    <2>1. /\ mq = [i \in 1..(n + 1) |-> mq[i]]
          /\ \A i \in 1..(n + 1) : mq[i] = IF i \in q THEN sx[Before(q, i)] ELSE t[i - Before(q, i)]
      <3> HIDE DEF q, sx
      <3> QED
        BY <1>6 DEF Merged
    <2>2. ASSUME NEW i \in 1..n PROVE mq[i] = Append(m, x)[i]
      <3>1. i \in 1..(n + 1) /\ i # n + 1 /\ (i \in q <=> i \in o)
        BY <1>1
      <3>2. q \cap 1..i = o \cap 1..i
        BY <1>1
      <3>3. Before(q, i) = Before(o, i)
        BY <3>2 DEF Before
      <3>4. mq[i] = IF i \in o THEN sx[Before(o, i)] ELSE t[i - Before(o, i)]
        <4> HIDE DEF mq, q, sx
        <4> QED
          BY <2>1, <3>1, <3>3
      <3> HIDE DEF mq, q, sx
      <3>5. i \in o => sx[Before(o, i)] = s[Before(o, i)]
        BY <1>3, <1>4
      <3> QED
        BY <1>5, <1>8, <3>4, <3>5
    <2>3. mq[n + 1] = x
      <3>1. n + 1 \in 1..(n + 1) /\ n + 1 \in q
        BY <1>1
      <3>2. q \cap 1..(n + 1) = q
        BY <1>10
      <3>3. Before(q, n + 1) = Len(s) + 1
        BY <1>10, <3>2 DEF Before
      <3> HIDE DEF mq, q, sx
      <3> QED
        BY <1>4, <2>1, <3>1, <3>3
    <2> HIDE DEF mq
    <2>4. \A i \in 1..(n + 1) : mq[i] = Append(m, x)[i]
      <3>1. \A i \in 1..(n + 1) : i \in 1..n \/ i = n + 1
        BY <1>1
      <3> QED
        BY <1>8, <2>2, <2>3, <3>1
    <2>5. mq = Append(m, x)
      BY <1>8, <2>1, <2>4
    <2> QED
      BY <2>5 DEF mq
  <1>14. Merged(s, tx, o) = Append(m, x)
    <2> DEFINE mq == Merged(s, tx, o)
    <2>1. /\ mq = [i \in 1..(n + 1) |-> mq[i]]
          /\ \A i \in 1..(n + 1) : mq[i] = IF i \in o THEN s[Before(o, i)] ELSE tx[i - Before(o, i)]
      <3> HIDE DEF tx
      <3> QED
        BY <1>6 DEF Merged
    <2> HIDE DEF mq, tx
    <2>2. ASSUME NEW i \in 1..n PROVE mq[i] = Append(m, x)[i]
      <3>1. i \in 1..(n + 1)
        BY <1>1
      <3>2. i \notin o => tx[i - Before(o, i)] = t[i - Before(o, i)]
        BY <1>3, <1>4
      <3> QED
        BY <1>5, <1>8, <2>1, <3>1, <3>2
    <2>3. mq[n + 1] = x
      <3>1. n + 1 \in 1..(n + 1)
        BY <1>1
      <3>2. o \cap 1..(n + 1) = o
        <4>1. o \subseteq 1..n /\ 1..n \subseteq 1..(n + 1)
          BY <1>1, <1>2
        <4> QED
          BY <4>1
      <3>3. Before(o, n + 1) = Len(s)
        BY <1>2, <3>2 DEF Before
      <3>4. (n + 1) - Len(s) = Len(t) + 1
        BY <1>1
      <3> QED
        BY <1>4, <1>9, <2>1, <3>1, <3>3, <3>4
    <2>4. \A i \in 1..(n + 1) : mq[i] = Append(m, x)[i]
      <3>1. \A i \in 1..(n + 1) : i \in 1..n \/ i = n + 1
        BY <1>1
      <3> QED
        BY <1>8, <2>2, <2>3, <3>1
    <2>5. mq = Append(m, x)
      BY <1>8, <2>1, <2>4
    <2> QED
      BY <2>5 DEF mq
  <1> QED
    BY <1>7, <1>11, <1>12, <1>13, <1>14 DEF n, m

\* The part of MergeLonger about t, for every merge.
LEMMA MergeLongerT ==
    ASSUME NEW A, NEW s \in Seq(A), NEW t \in Seq(A), NEW x \in A
    PROVE  \A o \in Picks(s, t) : /\ o \in Picks(s, Append(t, x))
                                  /\ Merged(s, Append(t, x), o) = Append(Merged(s, t, o), x)
  <1> SUFFICES ASSUME NEW o \in Picks(s, t)
               PROVE  /\ o \in Picks(s, Append(t, x))
                      /\ Merged(s, Append(t, x), o) = Append(Merged(s, t, o), x)
    OBVIOUS
  <1> DEFINE n == Len(s) + Len(t)
  <1>1. /\ o \cup {n + 1} \in Picks(Append(s, x), t)
        /\ Merged(Append(s, x), t, o \cup {n + 1}) = Append(Merged(s, t, o), x)
        /\ o \in Picks(s, Append(t, x))
        /\ Merged(s, Append(t, x), o) = Append(Merged(s, t, o), x)
        /\ Merged(s, t, o) \in Seq(A)
    BY MergeLonger
  <1> QED
    BY <1>1

\* A merge goes on with what either part goes on with.
LEMMA MergesLonger ==
    ASSUME NEW A, NEW s \in Seq(A), NEW t \in Seq(A), NEW x \in A
    PROVE  \A m \in Merges(s, t) : /\ m \in Seq(A)
                                   /\ Append(m, x) \in Merges(Append(s, x), t)
                                   /\ Append(m, x) \in Merges(s, Append(t, x))
  <1> SUFFICES ASSUME NEW m \in Merges(s, t)
               PROVE  /\ m \in Seq(A)
                      /\ Append(m, x) \in Merges(Append(s, x), t)
                      /\ Append(m, x) \in Merges(s, Append(t, x))
    OBVIOUS
  <1> DEFINE n == Len(s) + Len(t)
  <1>1. PICK o \in Picks(s, t) : m = Merged(s, t, o)
    BY MergesAre
  <1>2. /\ o \cup {n + 1} \in Picks(Append(s, x), t)
        /\ Merged(Append(s, x), t, o \cup {n + 1}) = Append(Merged(s, t, o), x)
        /\ o \in Picks(s, Append(t, x))
        /\ Merged(s, Append(t, x), o) = Append(Merged(s, t, o), x)
        /\ Merged(s, t, o) \in Seq(A)
    BY MergeLonger
  <1> DEFINE q == o \cup {n + 1}
             sx == Append(s, x)
             tx == Append(t, x)
             mx == Append(m, x)
  <1>3. /\ q \in Picks(sx, t) /\ Merged(sx, t, q) = mx
        /\ o \in Picks(s, tx) /\ Merged(s, tx, o) = mx
    BY <1>1, <1>2
  <1> HIDE DEF q, sx, tx, mx
  <1>4. mx \in Merges(sx, t) /\ mx \in Merges(s, tx)
    BY <1>3, MergesAre
  <1> QED
    BY <1>1, <1>2, <1>4 DEF sx, tx, mx

\* A merge of something ends in the last of one of its parts.
LEMMA MergeLast ==
    ASSUME NEW A, NEW s \in Seq(A), NEW t \in Seq(A), NEW o \in Picks(s, t),
           Len(s) + Len(t) # 0
    PROVE  \/ \E r \in Seq(A), x \in A : \E p \in Picks(r, t) :
                 s = Append(r, x) /\ Merged(s, t, o) = Append(Merged(r, t, p), x)
           \/ \E r \in Seq(A), x \in A : \E p \in Picks(s, r) :
                 t = Append(r, x) /\ Merged(s, t, o) = Append(Merged(s, r, p), x)
  <1> DEFINE n == Len(s) + Len(t)
  <1>1. /\ Len(s) \in Nat /\ Len(t) \in Nat /\ n \in Nat /\ n = Len(s) + Len(t)
        /\ n # 0 /\ n \in 1..n /\ n - 1 \in Nat
    OBVIOUS
  <1> HIDE DEF n
  <1>2. o \in SUBSET (1..n) /\ Cardinality(o) = Len(s) /\ IsFiniteSet(o)
    BY <1>1, PartFinite DEF Picks, n
  <1>3. CASE n \in o
    <2>1. s # <<>>
      BY <1>2, <1>3, FS_EmptySet
    <2>2. PICK r \in Seq(A), x \in A : s = Append(r, x)
      BY <2>1, SequenceEmptyOrAppend
    <2>3. Len(s) = Len(r) + 1 /\ Len(r) \in Nat
      BY <2>2, AppendProperties, LenProperties
    <2> DEFINE p == o \ {n}
    <2>4. Cardinality(p) = Len(r)
      <3>1. Cardinality(p) = Cardinality(o) - 1
        BY <1>2, <1>3, FS_RemoveElement
      <3> HIDE DEF p
      <3> QED
        BY <1>2, <2>3, <3>1
    <2>5. p \in SUBSET (1..(Len(r) + Len(t)))
      <3>1. Len(r) + Len(t) = n - 1
        BY <1>1, <2>3
      <3>2. \A y \in 1..n : y # n => y \in 1..(n - 1)
        BY <1>1
      <3>3. \A y \in p : y \in 1..(n - 1)
        BY <1>2, <3>2
      <3> QED
        BY <3>1, <3>3
    <2>6. p \in Picks(r, t)
      BY <2>4, <2>5 DEF Picks
    <2>7. p \cup {Len(r) + Len(t) + 1} = o
      <3>1. Len(r) + Len(t) + 1 = n
        BY <1>1, <2>3
      <3> QED
        BY <1>3, <3>1
    <2> HIDE DEF p
    <2>8. Merged(Append(r, x), t, o) = Append(Merged(r, t, p), x)
      <3>1. Merged(Append(r, x), t, p \cup {Len(r) + Len(t) + 1}) = Append(Merged(r, t, p), x)
        BY <2>6, MergeLonger
      <3> QED
        BY <2>7, <3>1
    <2> QED
      BY <2>2, <2>6, <2>8
  <1>4. CASE n \notin o
    <2>1. o \in SUBSET (1..(n - 1)) /\ Cardinality(o) <= n - 1
      <3>1. \A y \in 1..n : y # n => y \in 1..(n - 1)
        BY <1>1
      <3>2. \A y \in o : y \in 1..(n - 1)
        BY <1>2, <1>4, <3>1
      <3>3. o \in SUBSET (1..(n - 1))
        BY <3>2
      <3> QED
        BY <1>1, <3>3, PartFinite
    <2>2. t # <<>>
      <3>1. Len(t) # 0
        BY <1>1, <1>2, <2>1
      <3> QED
        BY <3>1
    <2>3. PICK r \in Seq(A), x \in A : t = Append(r, x)
      BY <2>2, SequenceEmptyOrAppend
    <2>4. Len(t) = Len(r) + 1 /\ Len(r) \in Nat
      BY <2>3, AppendProperties, LenProperties
    <2>5. o \in Picks(s, r)
      <3>1. Len(s) + Len(r) = n - 1
        BY <1>1, <2>4
      <3> QED
        BY <1>2, <2>1, <3>1 DEF Picks
    <2>6. Merged(s, Append(r, x), o) = Append(Merged(s, r, o), x)
      BY <2>5, MergeLongerT
    <2> QED
      BY <2>3, <2>5, <2>6
  <1> QED
    BY <1>3, <1>4

\* Nothing to merge.
LEMMA MergeNone ==
    ASSUME NEW A, NEW s \in Seq(A)
    PROVE  s \in Merges(s, <<>>) /\ s \in Merges(<<>>, s)
  <1> DEFINE n == Len(s)
             none == <<>>
             all == 1..n
  <1>1. n \in Nat /\ n = Len(s) /\ s = [i \in 1..n |-> s[i]] /\ Len(none) = 0
    OBVIOUS
  <1> HIDE DEF none, n, all
  <1>2. s \in Merges(s, none)
    <2>1. Len(s) + Len(none) = n
      BY <1>1
    <2>2. all \in Picks(s, none)
      <3>1. Cardinality(1..n) = n
        BY <1>1, FS_Interval
      <3> QED
        BY <1>1, <2>1, <3>1 DEF Picks, all
    <2>3. \A i \in 1..n : i \in all /\ Before(all, i) = i
      <3> SUFFICES ASSUME NEW i \in 1..n PROVE i \in all /\ Before(all, i) = i
        OBVIOUS
      <3>1. all \cap 1..i = 1..i /\ i \in all
        BY <1>1 DEF all
      <3>2. Cardinality(1..i) = i
        BY <1>1, FS_Interval
      <3> QED
        BY <3>1, <3>2 DEF Before
    <2>4. Merged(s, none, all) = [i \in 1..n |-> s[i]]
      BY <2>1, <2>3 DEF Merged
    <2> QED
      BY <1>1, <2>2, <2>4, MergesAre
  <1>3. s \in Merges(none, s)
    <2>1. Len(none) + Len(s) = n
      BY <1>1
    <2>2. {} \in Picks(none, s)
      BY <1>1, FS_EmptySet DEF Picks
    <2>3. \A i \in 1..n : i - Before({}, i) = i
      <3>1. \A i : {} \cap 1..i = {}
        OBVIOUS
      <3>2. \A i : Before({}, i) = 0
        BY <3>1, FS_EmptySet DEF Before
      <3> QED
        BY <1>1, <3>2
    <2>4. Merged(none, s, {}) = [i \in 1..n |-> s[i]]
      BY <2>1, <2>3 DEF Merged
    <2> QED
      BY <1>1, <2>2, <2>4, MergesAre
  <1> QED
    BY <1>2, <1>3 DEF none

\* A merge of events produces a merge of what they produce.
LEMMA MergeProduces ==
    ASSUME NEW V
    PROVE  \A s, t \in Seq(Events(V)) : \A m \in Merges(s, t) :
              m \in Seq(Events(V)) /\ ValuesOf(m) \in Merges(ValuesOf(s), ValuesOf(t))
  <1> DEFINE E == Events(V)
             Good(s, t, m) == m \in Seq(E) /\ ValuesOf(m) \in Merges(ValuesOf(s), ValuesOf(t))
             T == {n \in Nat : \A s, t \in Seq(E) : Len(s) + Len(t) = n =>
                                 \A o \in Picks(s, t) : Good(s, t, Merged(s, t, o))}
  <1>1. 0 \in T
    <2> SUFFICES ASSUME NEW s \in Seq(E), NEW t \in Seq(E), Len(s) + Len(t) = 0,
                        NEW o \in Picks(s, t)
                 PROVE  Good(s, t, Merged(s, t, o))
      OBVIOUS
    <2>1. s = <<>> /\ t = <<>>
      <3>1. Len(s) \in Nat /\ Len(t) \in Nat /\ Len(s) = 0 /\ Len(t) = 0
        OBVIOUS
      <3> QED
        BY <3>1, EmptySeq
    <2>2. Merged(s, t, o) = <<>>
      <3>1. Len(s) + Len(t) = 0
        OBVIOUS
      <3>2. Merged(s, t, o) = [i \in 1..0 |-> IF i \in o THEN s[Before(o, i)] ELSE t[i - Before(o, i)]]
        BY <3>1 DEF Merged
      <3> QED
        BY <3>2
    <2>3. <<>> \in Seq(E) /\ <<>> \in Seq(V) /\ ValuesOf(<<>>) = <<>>
      BY ValuesFew
    <2>4. <<>> \in Merges(<<>>, <<>>)
      BY <2>3, MergeNone
    <2> QED
      BY <2>1, <2>2, <2>3, <2>4
  <1>2. ASSUME NEW n \in Nat, n \in T PROVE n + 1 \in T
    <2> SUFFICES ASSUME NEW s \in Seq(E), NEW t \in Seq(E), Len(s) + Len(t) = n + 1,
                        NEW o \in Picks(s, t)
                 PROVE  Good(s, t, Merged(s, t, o))
      OBVIOUS
    <2>1. Len(s) \in Nat /\ Len(t) \in Nat /\ Len(s) + Len(t) # 0
      OBVIOUS
    <2>2. ASSUME NEW r \in Seq(E), NEW x \in E, NEW p \in Picks(r, t),
                 s = Append(r, x), Merged(s, t, o) = Append(Merged(r, t, p), x)
          PROVE  Good(s, t, Merged(s, t, o))
      <3> DEFINE m == Merged(r, t, p)
                 u == ValuesOf(r)
                 w == ValuesOf(t)
      <3>1. Len(r) + Len(t) = n
        <4>1. Len(s) = Len(r) + 1 /\ Len(r) \in Nat
          BY <2>2, AppendProperties, LenProperties
        <4> QED
          BY <2>1, <4>1
      <3>2. m \in Seq(E) /\ ValuesOf(m) \in Merges(u, w)
        BY <1>2, <3>1
      <3>3. ValuesOf(s) = u \o ValueOf(x) /\ u \in Seq(V) /\ w \in Seq(V)
        BY <2>2, ValuesAppend, ValuesIs
      <3>4. ValuesOf(Append(m, x)) = ValuesOf(m) \o ValueOf(x)
        <4> HIDE DEF m
        <4> QED
          BY <3>2, ValuesAppend
      <3>5. Append(m, x) \in Seq(E)
        BY <3>2, AppendProperties
      <3>6. ValuesOf(m) \in Seq(V)
        <4> HIDE DEF m
        <4> QED
          BY <3>2, ValuesIs
      <3> HIDE DEF m, u, w
      <3>7. ValuesOf(m) \o ValueOf(x) \in Merges(u \o ValueOf(x), w)
        <4>1. CASE ~IsItem(x)
          <5>1. ValueOf(x) = <<>>
            BY <4>1 DEF ValueOf
          <5>2. ValuesOf(m) \o <<>> = ValuesOf(m) /\ u \o <<>> = u
            BY <3>3, <3>6, ConcatEmptySeq
          <5> QED
            BY <3>2, <5>1, <5>2
        <4>2. CASE IsItem(x)
          <5> DEFINE v == x.value
          <5>1. v \in V /\ ValueOf(x) = <<v>>
            BY <4>2, EventValues DEF ValueOf
          <5> HIDE DEF v
          <5>4. Append(ValuesOf(m), v) \in Merges(Append(u, v), w)
            BY <3>2, <3>3, <5>1, MergesLonger
          <5>5. Append(ValuesOf(m), v) = ValuesOf(m) \o <<v>> /\ Append(u, v) = u \o <<v>>
            BY <3>3, <3>6, <5>1, AppendIsConcat
          <5> QED
            BY <5>1, <5>4, <5>5
        <4> QED
          BY <4>1, <4>2
      <3> QED
        BY <2>2, <3>3, <3>4, <3>5, <3>7 DEF m, u, w
    <2>3. ASSUME NEW r \in Seq(E), NEW x \in E, NEW p \in Picks(s, r),
                 t = Append(r, x), Merged(s, t, o) = Append(Merged(s, r, p), x)
          PROVE  Good(s, t, Merged(s, t, o))
      <3> DEFINE m == Merged(s, r, p)
                 u == ValuesOf(s)
                 w == ValuesOf(r)
      <3>1. Len(s) + Len(r) = n
        <4>1. Len(t) = Len(r) + 1 /\ Len(r) \in Nat
          BY <2>3, AppendProperties, LenProperties
        <4> QED
          BY <2>1, <4>1
      <3>2. m \in Seq(E) /\ ValuesOf(m) \in Merges(u, w)
        BY <1>2, <3>1
      <3>3. ValuesOf(t) = w \o ValueOf(x) /\ u \in Seq(V) /\ w \in Seq(V)
        BY <2>3, ValuesAppend, ValuesIs
      <3>4. ValuesOf(Append(m, x)) = ValuesOf(m) \o ValueOf(x)
        <4> HIDE DEF m
        <4> QED
          BY <3>2, ValuesAppend
      <3>5. Append(m, x) \in Seq(E)
        BY <3>2, AppendProperties
      <3>6. ValuesOf(m) \in Seq(V)
        <4> HIDE DEF m
        <4> QED
          BY <3>2, ValuesIs
      <3> HIDE DEF m, u, w
      <3>7. ValuesOf(m) \o ValueOf(x) \in Merges(u, w \o ValueOf(x))
        <4>1. CASE ~IsItem(x)
          <5>1. ValueOf(x) = <<>>
            BY <4>1 DEF ValueOf
          <5>2. ValuesOf(m) \o <<>> = ValuesOf(m) /\ w \o <<>> = w
            BY <3>3, <3>6, ConcatEmptySeq
          <5> QED
            BY <3>2, <5>1, <5>2
        <4>2. CASE IsItem(x)
          <5> DEFINE v == x.value
          <5>1. v \in V /\ ValueOf(x) = <<v>>
            BY <4>2, EventValues DEF ValueOf
          <5> HIDE DEF v
          <5>4. Append(ValuesOf(m), v) \in Merges(u, Append(w, v))
            BY <3>2, <3>3, <5>1, MergesLonger
          <5>5. Append(ValuesOf(m), v) = ValuesOf(m) \o <<v>> /\ Append(w, v) = w \o <<v>>
            BY <3>3, <3>6, <5>1, AppendIsConcat
          <5> QED
            BY <5>1, <5>4, <5>5
        <4> QED
          BY <4>1, <4>2
      <3> QED
        BY <2>3, <3>3, <3>4, <3>5, <3>7 DEF m, u, w
    <2> HIDE DEF Good
    <2> QED
      BY <2>1, <2>2, <2>3, MergeLast
  <1>3. Nat \subseteq T
    <2> HIDE DEF T
    <2> QED
      BY <1>1, <1>2, NatSets
  <1>4. ASSUME NEW s \in Seq(E), NEW t \in Seq(E), NEW m \in Merges(s, t)
        PROVE  Good(s, t, m)
    <2>1. PICK o \in Picks(s, t) : m = Merged(s, t, o)
      BY MergesAre
    <2>2. Len(s) + Len(t) \in Nat
      OBVIOUS
    <2> QED
      BY <1>3, <2>1, <2>2
  <1> QED
    BY <1>4

\* batch keeps the order of what either command produces.
LEMMA BatchProduces ==
    ASSUME NEW V, NEW c \in Commands(V), NEW d \in Commands(V), NEW b \in Batch(c, d)
    PROVE  b \in Commands(V) /\ Produces(b) \in Merges(Produces(c), Produces(d))
  <1>1. Produces(c) \in Seq(V) /\ Produces(d) \in Seq(V)
    BY CommandRuns
  <1>2. CASE c = NoCommand /\ d = NoCommand
    <2>1. b = Some(<<>>, <<>>)
      BY <1>2 DEF Batch
    <2>2. <<>> \in Seq(Calls) /\ <<>> \in Seq(Events(V))
      OBVIOUS
    <2>3. b \in Commands(V) /\ Produces(b) = <<>>
      BY <2>1, <2>2, SomeCommand, ValuesFew
    <2>4. Produces(c) = <<>> /\ Produces(d) = <<>>
      BY <1>2, CommandRuns
    <2>5. <<>> \in Merges(<<>>, <<>>)
      <3>1. Produces(c) \in Merges(<<>>, Produces(c))
        BY <1>1, MergeNone
      <3> QED
        BY <2>4, <3>1
    <2> QED
      BY <2>3, <2>4, <2>5
  <1>3. CASE c = NoCommand /\ d # NoCommand
    <2>1. b = d /\ Produces(c) = <<>>
      BY <1>3, CommandRuns DEF Batch
    <2> QED
      BY <1>1, <2>1, MergeNone
  <1>4. CASE c # NoCommand /\ d = NoCommand
    <2>1. b = c /\ Produces(d) = <<>>
      BY <1>4, CommandRuns DEF Batch
    <2> QED
      BY <1>1, <2>1, MergeNone
  <1>5. CASE c # NoCommand /\ d # NoCommand
    <2>1. PICK poll \in Merges(c.poll, d.poll) : b = Some(c.call \o d.call, poll)
      BY <1>5 DEF Batch
    <2>2. /\ c.call \in Seq(Calls) /\ c.poll \in Seq(Events(V))
          /\ d.call \in Seq(Calls) /\ d.poll \in Seq(Events(V))
          /\ Produces(c) = ValuesOf(c.poll) /\ Produces(d) = ValuesOf(d.poll)
      BY CommandRuns
    <2>3. c.call \o d.call \in Seq(Calls)
      BY <2>2, ConcatProperties
    <2>4. /\ poll \in Seq(Events(V))
          /\ ValuesOf(poll) \in Merges(ValuesOf(c.poll), ValuesOf(d.poll))
      BY <2>2, MergeProduces
    <2> DEFINE call == c.call \o d.call
    <2> HIDE DEF call
    <2>5. Some(call, poll) \in Commands(V) /\ Produces(Some(call, poll)) = ValuesOf(poll)
      BY <2>3, <2>4, SomeCommand DEF call
    <2> QED
      BY <2>1, <2>2, <2>4, <2>5 DEF call
  <1> QED
    BY <1>2, <1>3, <1>4, <1>5

-----------------------------------------------------------------------------
(* The commands built                                                      *)

\* A command is one of more values.
LEMMA CommandsOfMore ==
    ASSUME NEW V, NEW W, V \subseteq W
    PROVE  Commands(V) \subseteq Commands(W)
  <1>1. Events(V) \subseteq Events(W)
    BY DEF Events, ItemsOf
  <1>2. ASSUME NEW c \in Commands(V) PROVE c \in Commands(W)
    <2>1. c.call \in Seq(Calls) /\ c.poll \in Seq(Events(V)) /\ (c = NoCommand \/ c = Some(c.call, c.poll))
      BY CommandRuns
    <2>2. c.poll \in Seq(Events(W))
      BY <1>1, <2>1
    <2> QED
      BY <2>1, <2>2 DEF Commands
  <1> QED
    BY <1>2

\* The basic commands produce what their stream does.
LEMMA BasicProduces ==
    ASSUME NEW i \in Nat, NEW b \in Basic(i)
    PROVE  b.cmd \in Commands(Values) /\ Produces(b.cmd) = b.out
  <1>1. \A s \in Streams : s \in Seq(Values)
    BY StreamsAssumption
  <1>2. CASE b = [cmd |-> NoCommand, out |-> <<>>]
    <2>1. NoCommand \in Commands(Values)
      BY DEF Commands
    <2>2. Produces(NoCommand) = <<>>
      BY <2>1, CommandRuns
    <2> QED
      BY <1>2, <2>1, <2>2
  <1>3. ASSUME NEW s \in Streams, b = [cmd |-> Stream(i, s), out |-> s]
        PROVE  b.cmd \in Commands(Values) /\ Produces(b.cmd) = b.out
    BY <1>1, <1>3, SomeProduces
  <1>4. ASSUME NEW s \in Streams, s # <<>>
        PROVE  /\ Head(s) \in Values /\ Tail(s) \in Seq(Values)
               /\ <<Head(s)>> \o Tail(s) = s
    <2>1. s \in Seq(Values)
      BY <1>1
    <2> QED
      BY <1>4, <2>1, HeadTailProperties
  <1>5. ASSUME NEW s \in {t \in Streams : Len(t) \in 1..2},
               b = [cmd |-> Oneshot(i, Head(s), Tail(s)), out |-> <<Head(s)>> \o Tail(s)]
        PROVE  b.cmd \in Commands(Values) /\ Produces(b.cmd) = b.out
    <2>1. s \in Streams /\ s # <<>>
      <3>1. s \in Seq(Values) /\ Len(s) \in 1..2
        BY <1>1
      <3> QED
        BY <3>1
    <2>2. /\ Oneshot(i, Head(s), Tail(s)) \in Commands(Values)
          /\ Produces(Oneshot(i, Head(s), Tail(s))) = <<Head(s)>> \o Tail(s)
      <3> DEFINE r == Head(s)
                 fed == Tail(s)
      <3>1. r \in Values /\ fed \in Seq(Values)
        BY <1>4, <2>1
      <3> HIDE DEF r, fed
      <3>2. Oneshot(i, r, fed) \in Commands(Values) /\ Produces(Oneshot(i, r, fed)) = <<r>> \o fed
        BY <3>1, SomeProduces
      <3> QED
        BY <3>2 DEF r, fed
    <2> QED
      BY <1>4, <1>5, <2>1, <2>2
  <1>6. ASSUME NEW s \in Streams \ {<<>>},
               b = [cmd |-> Channel(i, Head(s), Tail(s)), out |-> <<Head(s)>> \o Tail(s)]
        PROVE  b.cmd \in Commands(Values) /\ Produces(b.cmd) = b.out
    <2>1. s \in Seq(Values) /\ Channel(i, Head(s), Tail(s)) = Stream(i, s)
      BY <1>1, <1>4 DEF Channel
    <2> QED
      BY <1>6, <2>1, SomeProduces
  <1> QED
    BY <1>2, <1>3, <1>5, <1>6 DEF Basic

\* What the commands built are: of calls, then of events whose items are the
\* values produced.
Made == size \in Nat /\ cmd \in Commands(ToSet(Produces(cmd)))

\* At first there is no command, and nothing promised.
LEMMA MadeInit == Init => Made /\ OutputsAsPromised
  <1> SUFFICES ASSUME Init PROVE Made /\ OutputsAsPromised
    OBVIOUS
  <1>1. NoCommand \in Commands({})
    BY DEF Commands
  <1>2. Produces(NoCommand) = <<>> /\ NoCommand \in Commands(ToSet(Produces(NoCommand)))
    BY <1>1, CommandRuns
  <1> QED
    BY <1>2 DEF Init, Made, OutputsAsPromised

\* Whatever combinator is applied, the command is made of events, and produces
\* what is promised.
LEMMA MadeNext ==
    Made /\ OutputsAsPromised /\ [Next]_vars => Made' /\ OutputsAsPromised'
  <1> SUFFICES ASSUME Made, OutputsAsPromised, [Next]_vars
               PROVE  Made' /\ OutputsAsPromised'
    OBVIOUS
  <1> DEFINE U == ToSet(Produces(cmd))
             W == U \cup Values
  <1>1. cmd \in Commands(U) /\ size \in Nat /\ Produces(cmd) \in promised
    BY DEF Made, OutputsAsPromised
  <1> HIDE DEF U
  <1>2. cmd \in Commands(W)
    BY <1>1, CommandsOfMore
  <1>3. ASSUME NEW X, cmd' \in Commands(X), size' = size + 1 PROVE Made'
    <2>1. cmd' \in Commands(ToSet(Produces(cmd')))
      BY <1>3, CommandRuns
    <2>2. size' \in Nat
      BY <1>1, <1>3
    <2>3. Produces(cmd)' = Produces(cmd')
      BY DEF Produces, Run, ValuesOf, Expand
    <2> QED
      BY <2>1, <2>2, <2>3 DEF Made
  <1>4. (Produces(cmd') \in promised') => OutputsAsPromised'
    BY DEF OutputsAsPromised
  <1>5. ASSUME NEW k \in Continuations, DoThen(k), size' = size + 1
        PROVE  Made' /\ OutputsAsPromised'
    <2> DEFINE p == Produces(cmd)
               t == [n \in DOMAIN p |-> Out(k, p[n])]
    <2>1. cmd' = Bound(cmd, k)
      BY <1>5 DEF DoThen, Bound
    <2>2. cmd' \in Commands(Wide(U)) /\ Produces(cmd') = Bind(p, OutFn(k, U))
      BY <1>1, <2>1, BoundProduces
    <2>3. p \in Seq(U)
      BY <1>1, CommandRuns
    <2>4. FlattenSeq(t) \in promised'
      <3>1. promised' = {FlattenSeq([n \in DOMAIN s |-> Out(k, s[n])]) : s \in promised}
        BY <1>5 DEF DoThen, Expand, Out
      <3>2. p \in promised
        BY <1>1
      <3> HIDE DEF p
      <3> QED
        BY <3>1, <3>2
    <2>5. FlattenSeq(t) = Bind(p, OutFn(k, U))
      <3>1. DOMAIN t = DOMAIN p /\ t = [n \in DOMAIN t |-> t[n]]
        OBVIOUS
      <3>2. \A n \in DOMAIN p : t[n] = OutFn(k, U)[p[n]]
        BY <2>3 DEF OutFn
      <3> HIDE DEF t, p
      <3> QED
        BY <2>3, <3>1, <3>2, ExpandIsBind
    <2> QED
      BY <1>3, <1>4, <1>5, <2>2, <2>4, <2>5
  <1>6. ASSUME NEW b \in Basic(size + 1), DoChain(b), size' = size + 1
        PROVE  Made' /\ OutputsAsPromised'
    <2>1. b.cmd \in Commands(W) /\ Produces(b.cmd) = b.out
      BY <1>1, BasicProduces, CommandsOfMore
    <2>2. cmd' = Chain(cmd, b.cmd) /\ Produces(cmd) \o b.out \in promised'
      BY <1>1, <1>6 DEF DoChain
    <2>3. cmd' \in Commands(W) /\ Produces(cmd') = Produces(cmd) \o b.out
      BY <1>2, <2>1, <2>2, ChainProduces
    <2> QED
      BY <1>3, <1>4, <1>6, <2>2, <2>3
  <1>7. ASSUME NEW b \in Basic(size + 1), DoChainTo(b), size' = size + 1
        PROVE  Made' /\ OutputsAsPromised'
    <2>1. b.cmd \in Commands(W) /\ Produces(b.cmd) = b.out
      BY <1>1, BasicProduces, CommandsOfMore
    <2>2. cmd' = Chain(b.cmd, cmd) /\ b.out \o Produces(cmd) \in promised'
      BY <1>1, <1>7 DEF DoChainTo
    <2>3. cmd' \in Commands(W) /\ Produces(cmd') = b.out \o Produces(cmd)
      BY <1>2, <2>1, <2>2, ChainProduces
    <2> QED
      BY <1>3, <1>4, <1>7, <2>2, <2>3
  <1>8. ASSUME NEW b \in Basic(size + 1), DoBatch(b), size' = size + 1
        PROVE  Made' /\ OutputsAsPromised'
    <2>1. b.cmd \in Commands(W) /\ Produces(b.cmd) = b.out
      BY <1>1, BasicProduces, CommandsOfMore
    <2>2. cmd' \in Batch(cmd, b.cmd) /\ promised' = UNION {Merges(s, b.out) : s \in promised}
      BY <1>8 DEF DoBatch
    <2>3. cmd' \in Commands(W) /\ Produces(cmd') \in Merges(Produces(cmd), b.out)
      BY <1>2, <2>1, <2>2, BatchProduces
    <2>4. Produces(cmd') \in promised'
      BY <1>1, <2>2, <2>3
    <2> QED
      BY <1>3, <1>4, <1>8, <2>3, <2>4
  <1>9. ASSUME DoCollect, size' = size + 1
        PROVE  Made' /\ OutputsAsPromised'
    <2>1. cmd' = Collect(cmd) /\ <<Produces(cmd)>> \in promised'
      BY <1>1, <1>9 DEF DoCollect
    <2>2. cmd' \in Commands(Seq(W)) /\ Produces(cmd') = <<Produces(cmd)>>
      BY <1>2, <2>1, CollectProduces
    <2> QED
      BY <1>3, <1>4, <1>9, <2>1, <2>2
  <1>10. CASE UNCHANGED vars
    BY <1>1, <1>10 DEF vars, Made, OutputsAsPromised, Produces, Run, ValuesOf, Expand
  <1> QED
    BY <1>5, <1>6, <1>7, <1>8, <1>9, <1>10 DEF Next

\* So it is for every command built.
LEMMA SpecMade == Spec => [](Made /\ OutputsAsPromised)
  BY MadeInit, MadeNext, PTL DEF Spec

\* Whatever commands are put together, what they produce is among what the
\* documentation of the combinators (command.rs) makes of what their parts produce.
THEOREM CommandOutputsAsPromised == Spec => []OutputsAsPromised
  BY SpecMade, PTL

\* For every command built, then is associative, and with a function that
\* returns done(v) it changes nothing of what is produced (command.rs:112).
THEOREM CommandMonadicThen == Spec => []MonadicThen
  <1>1. Made => MonadicThen
    <2> SUFFICES ASSUME Made PROVE MonadicThen
      OBVIOUS
    <2>1. cmd \in Commands(ToSet(Produces(cmd)))
      BY DEF Made
    <2>2. /\ Produces(Bound(cmd, "keep")) = Produces(cmd)
          /\ \A j, k \in Continuations :
               Produces(Bound(Bound(cmd, j), k)) =
               Produces(Then(cmd, [v \in ToSet(Produces(cmd)) |-> Bound(Continue(j, v), k)]))
      BY <2>1, MonadLaws
    <2> QED
      BY <2>2 DEF MonadicThen, Bound
  <1> QED
    BY <1>1, SpecMade, PTL
=============================================================================
