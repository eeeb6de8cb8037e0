-------------------------- MODULE SelectionProofs --------------------------
(***************************************************************************)
(* What Selected yields of an empty, an extended, a joined and a shortened *)
(* sequence.  The prover has no induction over data; here it is the least  *)
(* counterexample that a set of naturals would have.                       *)
(***************************************************************************)
EXTENDS Selection, SequenceTheorems, WellFoundedInduction, TLAPS

Below == {p \in Nat \X Nat : p[1] < p[2]}

\* A set of naturals has a least element.
LEMMA LeastNat ==
    ASSUME NEW T \in SUBSET Nat, T # {}
    PROVE  \E x \in T : \A y \in T : x <= y
<1>1. OpToRel(<, Nat) = Below
    BY DEF OpToRel, Below
<1>2. IsWellFoundedOn(Below, Nat)
    BY <1>1, NatLessThanWellFounded
<1>3. PICK x \in T : \A y \in T : <<y, x>> \notin Below
    BY <1>2, WFMin
<1>4. ASSUME NEW y \in T PROVE x <= y
    <2>1. x \in Nat /\ y \in Nat /\ <<y, x>> \notin Below
        BY <1>3
    <2>2. <<y, x>> \in Nat \X Nat /\ <<y, x>>[1] = y /\ <<y, x>>[2] = x
        BY <2>1
    <2>3. ~(y < x)
        BY <2>1, <2>2, Zenon DEF Below
    <2> QED BY <2>1, <2>3
<1> QED BY <1>4

\* Induction, of a set: it has every natural number if it has zero and each
\* successor.
LEMMA SetInduction ==
    ASSUME NEW T, 0 \in T, \A n \in Nat : n \in T => n + 1 \in T
    PROVE  \A n \in Nat : n \in T
<1> SUFFICES ASSUME Nat \ T # {} PROVE FALSE
    OBVIOUS
<1>1. PICK x \in Nat \ T : \A y \in Nat \ T : x <= y
    BY LeastNat
<1>2. x # 0 /\ x - 1 \in Nat /\ (x - 1) + 1 = x
    BY <1>1
<1>3. x - 1 \in T
    BY <1>1, <1>2
<1> QED BY <1>1, <1>2, <1>3

-----------------------------------------------------------------------------
(* Selected as a recursion that has exactly one solution *)

\* f gives the selection from every prefix of s up to n.
IsSelection(f, s, S, n) ==
    f = [k \in 0..n |-> IF k = 0 THEN <<>>
                        ELSE IF s[k] \in S THEN Append(f[k - 1], s[k]) ELSE f[k - 1]]

\* There is such a function ...
LEMMA SelectionExists ==
    ASSUME NEW s, NEW S
    PROVE  \A n \in Nat : \E f : IsSelection(f, s, S, n)
<1> DEFINE T == {n \in Nat : \E f : IsSelection(f, s, S, n)}
<1>1. 0 \in T
    <2>1. IsSelection([k \in 0..0 |-> <<>>], s, S, 0)
        BY DEF IsSelection
    <2> QED BY <2>1
<1>2. ASSUME NEW n \in Nat, n \in T PROVE n + 1 \in T
    <2>1. PICK f : IsSelection(f, s, S, n)
        BY <1>2
    <2> DEFINE last == IF s[n + 1] \in S THEN Append(f[n], s[n + 1]) ELSE f[n]
               g == [k \in 0..(n + 1) |-> IF k = n + 1 THEN last ELSE f[k]]
    <2>2. \A k \in 0..(n + 1) :
            g[k] = IF k = 0 THEN <<>>
                   ELSE IF s[k] \in S THEN Append(g[k - 1], s[k]) ELSE g[k - 1]
        <3> SUFFICES ASSUME NEW k \in 0..(n + 1)
                     PROVE  g[k] = IF k = 0 THEN <<>>
                                   ELSE IF s[k] \in S THEN Append(g[k - 1], s[k]) ELSE g[k - 1]
            OBVIOUS
        <3>1. CASE k = n + 1
            BY <3>1
        <3>2. CASE k # n + 1
            <4>1. k \in 0..n /\ g[k] = f[k]
                BY <3>2
            <4>2. f[k] = IF k = 0 THEN <<>>
                         ELSE IF s[k] \in S THEN Append(f[k - 1], s[k]) ELSE f[k - 1]
                BY <2>1, <4>1 DEF IsSelection
            <4>3. k # 0 => k - 1 \in 0..n /\ g[k - 1] = f[k - 1]
                BY <4>1
            <4> HIDE DEF g
            <4> QED BY <4>1, <4>2, <4>3
        <3> QED BY <3>1, <3>2
    <2>3. g = [k \in 0..(n + 1) |-> g[k]]
        OBVIOUS
    <2> HIDE DEF g
    <2>4. IsSelection(g, s, S, n + 1)
        BY <2>2, <2>3 DEF IsSelection
    <2> QED BY <2>4
<1> HIDE DEF T
<1>3. \A n \in Nat : n \in T
    BY <1>1, <1>2, SetInduction
<1> QED BY <1>3 DEF T

\* ... and two of them agree as far as both sequences do.
LEMMA SelectionAgrees ==
    ASSUME NEW s, NEW t, NEW S, NEW m \in Nat, NEW n \in Nat, NEW f, NEW g,
           IsSelection(f, s, S, m), IsSelection(g, t, S, n),
           NEW k \in Nat, k <= m, k <= n, \A i \in 1..k : s[i] = t[i]
    PROVE  f[k] = g[k]
<1> DEFINE T == {i \in Nat : i <= k => f[i] = g[i]}
<1>1. 0 \in T
    BY DEF IsSelection
<1>2. ASSUME NEW i \in Nat, i \in T PROVE i + 1 \in T
    <2> SUFFICES ASSUME i + 1 <= k PROVE f[i + 1] = g[i + 1]
        OBVIOUS
    <2>1. f[i] = g[i] /\ s[i + 1] = t[i + 1]
        BY <1>2
    <2>2. i + 1 \in 0..m /\ i + 1 \in 0..n /\ i + 1 # 0 /\ (i + 1) - 1 = i
        OBVIOUS
    <2>3. f[i + 1] = IF s[i + 1] \in S THEN Append(f[i], s[i + 1]) ELSE f[i]
        BY <2>2 DEF IsSelection
    <2>4. g[i + 1] = IF t[i + 1] \in S THEN Append(g[i], t[i + 1]) ELSE g[i]
        BY <2>2 DEF IsSelection
    <2> QED BY <2>1, <2>3, <2>4
<1> HIDE DEF T
<1>3. k \in T
    BY <1>1, <1>2, SetInduction
<1> QED BY <1>3 DEF T

\* Selected is the last value of such a function.
LEMMA SelectedIs ==
    ASSUME NEW s, NEW S, Len(s) \in Nat
    PROVE  \E f : IsSelection(f, s, S, Len(s)) /\ Selected(s, S) = f[Len(s)]
<1> DEFINE f == CHOOSE h : h = [k \in 0..Len(s) |->
                    IF k = 0 THEN <<>>
                    ELSE IF s[k] \in S THEN Append(h[k - 1], s[k]) ELSE h[k - 1]]
<1>1. Selected(s, S) = f[Len(s)]
    BY DEF Selected
<1>2. PICK g : IsSelection(g, s, S, Len(s))
    BY SelectionExists
<1>3. IsSelection(f, s, S, Len(s))
    BY <1>2, Zenon DEF IsSelection
<1> QED BY <1>1, <1>3

-----------------------------------------------------------------------------
(* The laws of Selected *)

\* Nothing is selected from nothing.
LEMMA SelectedEmpty == \A S : Selected(<<>>, S) = <<>>
<1> SUFFICES ASSUME NEW S PROVE Selected(<<>>, S) = <<>>
    OBVIOUS
<1>1. Len(<<>>) = 0
    OBVIOUS
<1>2. PICK f : IsSelection(f, <<>>, S, 0) /\ Selected(<<>>, S) = f[0]
    BY <1>1, SelectedIs
<1> QED BY <1>2 DEF IsSelection

\* One more element is selected or not.
LEMMA SelectedAppend ==
    ASSUME NEW E, NEW S, NEW s \in Seq(E), NEW e \in E
    PROVE  Selected(Append(s, e), S) =
             IF e \in S THEN Append(Selected(s, S), e) ELSE Selected(s, S)
<1> DEFINE t == Append(s, e)
           n == Len(s)
<1>1. n \in Nat /\ Len(t) = n + 1 /\ t[n + 1] = e /\ \A i \in 1..n : s[i] = t[i]
    OBVIOUS
<1> HIDE DEF t, n
<1>2. PICK f : IsSelection(f, s, S, n) /\ Selected(s, S) = f[n]
    BY <1>1, SelectedIs DEF n
<1>3. PICK g : IsSelection(g, t, S, n + 1) /\ Selected(t, S) = g[n + 1]
    BY <1>1, SelectedIs
<1>4. f[n] = g[n]
    <2>1. n \in Nat /\ n + 1 \in Nat /\ n <= n /\ n <= n + 1
        BY <1>1
    <2>2. IsSelection(f, s, S, n) /\ IsSelection(g, t, S, n + 1)
        BY <1>2, <1>3
    <2>3. \A i \in 1..n : s[i] = t[i]
        BY <1>1
    <2> QED BY <2>1, <2>2, <2>3, SelectionAgrees
<1>5. n + 1 \in 0..(n + 1) /\ n + 1 # 0 /\ (n + 1) - 1 = n
    BY <1>1
<1>6. g[n + 1] = IF t[n + 1] \in S THEN Append(g[n], t[n + 1]) ELSE g[n]
    BY <1>3, <1>5 DEF IsSelection
<1>7. Selected(t, S) = IF e \in S THEN Append(Selected(s, S), e) ELSE Selected(s, S)
    BY <1>1, <1>2, <1>3, <1>4, <1>6
<1> QED BY <1>7 DEF t

\* What is selected from a sequence are elements of it.
LEMMA SelectedType ==
    ASSUME NEW E, NEW S, NEW s \in Seq(E)
    PROVE  Selected(s, S) \in Seq(E \intersect S)
<1> DEFINE T == {n \in Nat : \A t \in Seq(E) : Len(t) = n => Selected(t, S) \in Seq(E \intersect S)}
<1>1. 0 \in T
    <2>1. \A t \in Seq(E) : Len(t) = 0 => t = <<>>
        BY EmptySeq
    <2> QED BY <2>1, SelectedEmpty
<1>2. ASSUME NEW n \in Nat, n \in T PROVE n + 1 \in T
    <2> SUFFICES ASSUME NEW t \in Seq(E), Len(t) = n + 1
                 PROVE  Selected(t, S) \in Seq(E \intersect S)
        OBVIOUS
    <2>1. PICK u \in Seq(E), e \in E : t = Append(u, e)
        <3>1. t # <<>>
            OBVIOUS
        <3> QED BY <3>1, SequenceEmptyOrAppend
    <2>2. Len(u) = n
        BY <2>1
    <2>3. Selected(u, S) \in Seq(E \intersect S)
        BY <1>2, <2>2
    <2> QED BY <2>1, <2>3, SelectedAppend, AppendProperties
<1> HIDE DEF T
<1>3. Len(s) \in T
    BY <1>1, <1>2, SetInduction
<1> QED BY <1>3 DEF T

\* What is selected from two sequences after each other.
LEMMA SelectedConcat ==
    ASSUME NEW E, NEW S, NEW s \in Seq(E), NEW t \in Seq(E)
    PROVE  Selected(s \o t, S) = Selected(s, S) \o Selected(t, S)
<1> DEFINE T == {n \in Nat : \A u \in Seq(E) : Len(u) = n =>
                                Selected(s \o u, S) = Selected(s, S) \o Selected(u, S)}
<1>1. 0 \in T
    <2>1. \A u \in Seq(E) : Len(u) = 0 => u = <<>>
        BY EmptySeq
    <2>2. s \o <<>> = s /\ Selected(s, S) \o <<>> = Selected(s, S)
        BY SelectedType, ConcatEmptySeq
    <2> QED BY <2>1, <2>2, SelectedEmpty
<1>2. ASSUME NEW n \in Nat, n \in T PROVE n + 1 \in T
    <2> SUFFICES ASSUME NEW u \in Seq(E), Len(u) = n + 1
                 PROVE  Selected(s \o u, S) = Selected(s, S) \o Selected(u, S)
        OBVIOUS
    <2>1. PICK v \in Seq(E), e \in E : u = Append(v, e)
        <3>1. u # <<>>
            OBVIOUS
        <3> QED BY <3>1, SequenceEmptyOrAppend
    <2>2. Len(v) = n
        BY <2>1
    <2>3. Selected(s \o v, S) = Selected(s, S) \o Selected(v, S)
        BY <1>2, <2>2
    <2>4. s \o u = Append(s \o v, e) /\ s \o v \in Seq(E)
        BY <2>1
    <2>5. Selected(s, S) \in Seq(E) /\ Selected(v, S) \in Seq(E)
        <3>1. Selected(s, S) \in Seq(E \intersect S) /\ Selected(v, S) \in Seq(E \intersect S)
            BY SelectedType
        <3> QED BY <3>1, SeqMonotonic
    <2>6. Selected(s, S) \o Append(Selected(v, S), e) = Append(Selected(s, S) \o Selected(v, S), e)
        BY <2>5
    <2>7. Selected(s \o u, S) = IF e \in S THEN Append(Selected(s \o v, S), e)
                                          ELSE Selected(s \o v, S)
        <3> DEFINE w == s \o v
        <3>1. w \in Seq(E) /\ s \o u = Append(w, e)
            BY <2>4
        <3> HIDE DEF w
        <3>2. Selected(Append(w, e), S) = IF e \in S THEN Append(Selected(w, S), e) ELSE Selected(w, S)
            BY <3>1, SelectedAppend
        <3> QED BY <3>1, <3>2 DEF w
    <2>8. Selected(u, S) = IF e \in S THEN Append(Selected(v, S), e) ELSE Selected(v, S)
        BY <2>1, SelectedAppend
    <2> QED BY <2>3, <2>6, <2>7, <2>8
<1> HIDE DEF T
<1>3. Len(t) \in T
    BY <1>1, <1>2, SetInduction
<1> QED BY <1>3 DEF T

\* The head of a sequence is the first that is selected, or is left out.
LEMMA SelectedHead ==
    ASSUME NEW E, NEW S, NEW s \in Seq(E), s # <<>>
    PROVE  IF Head(s) \in S
           THEN /\ Selected(s, S) # <<>> /\ Head(Selected(s, S)) = Head(s)
                /\ Tail(Selected(s, S)) = Selected(Tail(s), S)
           ELSE Selected(s, S) = Selected(Tail(s), S)
<1>1. Head(s) \in E /\ Tail(s) \in Seq(E) /\ <<Head(s)>> \in Seq(E) /\ s = <<Head(s)>> \o Tail(s)
    OBVIOUS
<1>2. Selected(s, S) = Selected(<<Head(s)>>, S) \o Selected(Tail(s), S)
    BY <1>1, SelectedConcat
<1>3. Selected(<<Head(s)>>, S) = IF Head(s) \in S THEN <<Head(s)>> ELSE <<>>
    <2>1. \A e : <<e>> = Append(<<>>, e)
        OBVIOUS
    <2>2. <<>> \in Seq(E)
        OBVIOUS
    <2>3. \A r \in Seq(E), e \in E :
            Selected(Append(r, e), S) = IF e \in S THEN Append(Selected(r, S), e) ELSE Selected(r, S)
        BY SelectedAppend
    <2>4. \A e \in E : Selected(<<e>>, S) = IF e \in S THEN <<e>> ELSE <<>>
        BY <2>1, <2>2, <2>3, SelectedEmpty, Zenon
    <2> QED BY <1>1, <2>4, Zenon
<1>4. Selected(Tail(s), S) \in Seq(E)
    <2>1. Selected(Tail(s), S) \in Seq(E \intersect S)
        BY <1>1, SelectedType
    <2> QED BY <2>1, SeqMonotonic
<1>5. CASE Head(s) \in S
    <2>1. \A r \in Seq(E), e \in E : /\ <<e>> \o r # <<>> /\ Head(<<e>> \o r) = e
                                    /\ Tail(<<e>> \o r) = r
        OBVIOUS
    <2>2. Selected(s, S) = <<Head(s)>> \o Selected(Tail(s), S)
        BY <1>2, <1>3, <1>5
    <2> DEFINE r == Selected(Tail(s), S)
               e == Head(s)
    <2>3. /\ <<e>> \o r # <<>> /\ Head(<<e>> \o r) = e /\ Tail(<<e>> \o r) = r
        BY <1>1, <1>4, <2>1, Zenon
    <2>4. Selected(s, S) = <<e>> \o r
        BY <2>2
    <2> QED BY <1>5, <2>3, <2>4, Zenon
<1>6. CASE Head(s) \notin S
    BY <1>2, <1>3, <1>4, <1>6
<1> QED BY <1>5, <1>6

=============================================================================
