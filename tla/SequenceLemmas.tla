--------------------------- MODULE SequenceLemmas ---------------------------
(***************************************************************************)
(* Lemmas about the queues and lists of the models that the proofs of      *)
(* several of them need.  They are about any sequence, and name no         *)
(* definition of a model.                                                  *)
(***************************************************************************)
EXTENDS Lists, SequencesExt, FiniteSetTheorems, SequenceTheorems, TLAPS

\* A sequence has an element in S, and its last one in S is in G.
Has(s, S) == \E j \in 1 .. Len(s) : s[j] \in S

LastGood(s, S, G) ==
    \A j \in 1 .. Len(s) :
        s[j] \in S /\ (\A k \in j + 1 .. Len(s) : s[k] \notin S) => s[j] \in G

(***************************************************************************)
(* What an element at the end and the loss of the first one do to Has and  *)
(* LastGood.                                                               *)
(***************************************************************************)
LEMMA HasAppend ==
    ASSUME NEW T, NEW s \in Seq(T), NEW e \in T, NEW S
    PROVE  Has(Append(s, e), S) <=> Has(s, S) \/ e \in S
<1>1. /\ Len(Append(s, e)) = Len(s) + 1 /\ Append(s, e)[Len(s) + 1] = e
      /\ \A i \in 1 .. Len(s) : Append(s, e)[i] = s[i]
      /\ Len(s) \in Nat
  OBVIOUS
<1>2. ASSUME Has(Append(s, e), S) PROVE Has(s, S) \/ e \in S
  BY <1>1, <1>2 DEF Has
<1>3. ASSUME Has(s, S) PROVE Has(Append(s, e), S)
  BY <1>1, <1>3 DEF Has
<1>4. ASSUME e \in S PROVE Has(Append(s, e), S)
  <2>1. Len(s) + 1 \in 1 .. Len(Append(s, e))
    BY <1>1
  <2> QED
    BY <1>1, <1>4, <2>1 DEF Has
<1> QED
  BY <1>2, <1>3, <1>4

LEMMA HasTail ==
    ASSUME NEW T, NEW s \in Seq(T), s # << >>, NEW S
    PROVE  Has(s, S) <=> Head(s) \in S \/ Has(Tail(s), S)
<1>1. /\ Len(s) \in Nat \ {0} /\ Head(s) = s[1] /\ Len(Tail(s)) = Len(s) - 1
      /\ \A i \in 1 .. Len(s) - 1 : Tail(s)[i] = s[i + 1]
  OBVIOUS
<1>2. ASSUME NEW j \in 1 .. Len(s), s[j] \in S PROVE Head(s) \in S \/ Has(Tail(s), S)
  <2>1. CASE j = 1
    BY <1>1, <1>2, <2>1
  <2>2. CASE j # 1
    <3>1. j - 1 \in 1 .. Len(Tail(s)) /\ Tail(s)[j - 1] = s[j]
      BY <1>1, <2>2
    <3> QED
      BY <1>2, <3>1 DEF Has
  <2> QED
    BY <2>1, <2>2
<1>3. ASSUME NEW j \in 1 .. Len(Tail(s)), Tail(s)[j] \in S PROVE Has(s, S)
  <2>1. j + 1 \in 1 .. Len(s) /\ s[j + 1] \in S
    BY <1>1, <1>3
  <2> QED
    BY <2>1 DEF Has
<1>4. Head(s) \in S => Has(s, S)
  BY <1>1 DEF Has
<1> QED
  BY <1>2, <1>3, <1>4 DEF Has

LEMMA HasConcat ==
    ASSUME NEW T, NEW s \in Seq(T), NEW t \in Seq(T), NEW S, Has(s, S) \/ Has(t, S)
    PROVE  Has(s \o t, S)
<1>1. /\ Len(s) \in Nat /\ Len(t) \in Nat /\ Len(s \o t) = Len(s) + Len(t)
      /\ \A i \in 1 .. Len(s) + Len(t) :
            (s \o t)[i] = IF i <= Len(s) THEN s[i] ELSE t[i - Len(s)]
  BY ConcatProperties
<1>2. ASSUME NEW j \in 1 .. Len(s), s[j] \in S PROVE Has(s \o t, S)
  <2>1. j \in 1 .. Len(s \o t) /\ (s \o t)[j] = s[j]
    BY <1>1
  <2> QED
    BY <1>2, <2>1 DEF Has
<1>3. ASSUME NEW j \in 1 .. Len(t), t[j] \in S PROVE Has(s \o t, S)
  <2>1. Len(s) + j \in 1 .. Len(s \o t) /\ (s \o t)[Len(s) + j] = t[j]
    BY <1>1
  <2> QED
    BY <1>3, <2>1 DEF Has
<1> QED
  BY <1>2, <1>3 DEF Has

LEMMA GoodAppend ==
    ASSUME NEW T, NEW s \in Seq(T), NEW e \in T, NEW S, NEW G,
           e \in S => e \in G, e \in S \/ LastGood(s, S, G)
    PROVE  LastGood(Append(s, e), S, G)
<1> DEFINE t == Append(s, e)
<1>1. /\ Len(t) = Len(s) + 1 /\ t[Len(s) + 1] = e /\ Len(s) \in Nat
      /\ \A i \in 1 .. Len(s) : t[i] = s[i]
  OBVIOUS
<1> HIDE DEF t
<1> SUFFICES ASSUME NEW j \in 1 .. Len(t), t[j] \in S,
                    \A k \in j + 1 .. Len(t) : t[k] \notin S
             PROVE  t[j] \in G
  BY DEF LastGood, t
<1>2. CASE j = Len(s) + 1
  BY <1>1, <1>2
<1>3. CASE j # Len(s) + 1
  <2>1. j \in 1 .. Len(s) /\ Len(s) + 1 \in j + 1 .. Len(t) /\ t[j] = s[j]
    BY <1>1, <1>3
  <2>2. e \notin S
    BY <1>1, <2>1
  <2>3. \A k \in j + 1 .. Len(s) : s[k] \notin S
    BY <1>1, <2>1
  <2> QED
    BY <2>1, <2>2, <2>3 DEF LastGood
<1> QED
  BY <1>2, <1>3

LEMMA GoodTail ==
    ASSUME NEW T, NEW s \in Seq(T), s # << >>, NEW S, NEW G, LastGood(s, S, G)
    PROVE  /\ LastGood(Tail(s), S, G)
           /\ Head(s) \in S /\ ~Has(Tail(s), S) => Head(s) \in G
<1> DEFINE t == Tail(s)
<1>1. /\ Len(s) \in Nat \ {0} /\ Head(s) = s[1] /\ Len(t) = Len(s) - 1
      /\ \A i \in 1 .. Len(s) - 1 : t[i] = s[i + 1]
  OBVIOUS
<1> HIDE DEF t
<1>2. ASSUME NEW j \in 1 .. Len(t), t[j] \in S, \A k \in j + 1 .. Len(t) : t[k] \notin S
      PROVE  t[j] \in G
  <2>1. j + 1 \in 1 .. Len(s) /\ s[j + 1] = t[j]
    BY <1>1
  <2>2. ASSUME NEW k \in (j + 1) + 1 .. Len(s) PROVE s[k] \notin S
    <3>1. k - 1 \in j + 1 .. Len(t) /\ s[k] = t[k - 1]
      BY <1>1
    <3> QED
      BY <1>2, <3>1
  <2> QED
    BY <1>2, <2>1, <2>2 DEF LastGood
<1>3. ASSUME Head(s) \in S, ~Has(t, S) PROVE Head(s) \in G
  <2>1. ASSUME NEW k \in 1 + 1 .. Len(s) PROVE s[k] \notin S
    <3>1. k - 1 \in 1 .. Len(t) /\ s[k] = t[k - 1]
      BY <1>1
    <3> QED
      BY <1>3, <3>1 DEF Has
  <2>2. 1 \in 1 .. Len(s)
    BY <1>1
  <2> QED
    BY <1>1, <1>3, <2>1, <2>2 DEF LastGood
<1> QED
  BY <1>2, <1>3 DEF LastGood, t

(***************************************************************************)
(* Induction, without a predicate as a parameter: a nonempty set of natural*)
(* numbers has a least one, because strict inclusion of finite sets is     *)
(* well-founded.                                                           *)
(***************************************************************************)
LEMMA LeastNat ==
  ASSUME NEW T \in SUBSET Nat, T # {}
  PROVE  \E m \in T : \A n \in T : m <= n
<1> DEFINE Below == {0 .. n : n \in T}
           Order == StrictSubsetOrdering(Nat)
           Finite == FiniteSubsetsOf(Nat)
<1>1. \A n \in Nat : 0..n \in Finite
  <2> TAKE n \in Nat
  <2>1. IsFiniteSet(0..n)
    BY FS_Interval
  <2>2. 0..n \subseteq Nat
    OBVIOUS
  <2> QED
    BY <2>1, <2>2 DEF FiniteSubsetsOf
<1>2. IsWellFoundedOn(Order, Finite)
  BY FS_StrictSubsetOrderingWellFounded
<1>3. \A A, B \in SUBSET Nat : A \subseteq B /\ A # B => <<A, B>> \in Order
  <2> TAKE A, B \in SUBSET Nat
  <2> DEFINE p == <<A, B>>
  <2>1. p \in (SUBSET Nat) \X (SUBSET Nat) /\ p[1] = A /\ p[2] = B
    OBVIOUS
  <2> HIDE DEF p
  <2>2. A \subseteq B /\ A # B => p \in Order
    BY <2>1 DEF StrictSubsetOrdering
  <2> QED
    BY <2>2 DEF p
<1>4. Below \subseteq Finite /\ Below # {}
  BY <1>1
<1>5. \A B \in Below : \E n \in T : B = 0..n
  OBVIOUS
<1>6. \A n \in T : 0..n \in Below
  OBVIOUS
<1> HIDE DEF Below, Order, Finite
<1>7. \E B \in Below : \A C \in Below : ~(<<C, B>> \in Order)
  BY <1>2, <1>4, WFMin
<1>8. PICK B \in Below : \A C \in Below : ~(<<C, B>> \in Order)
  BY <1>7
<1>9. PICK m \in T : B = 0..m
  BY <1>5
<1>10. ASSUME NEW n \in T PROVE m <= n
  <2> SUFFICES ASSUME n < m PROVE FALSE
    OBVIOUS
  <2>1. 0..n \in SUBSET Nat /\ 0..m \in SUBSET Nat
    OBVIOUS
  <2>2. 0..n \subseteq 0..m /\ m \in 0..m /\ m \notin 0..n
    OBVIOUS
  <2>3. <<0..n, 0..m>> \in Order
    BY <1>3, <2>1, <2>2
  <2> QED
    BY <1>6, <1>8, <1>9, <2>3
<1> QED
  BY <1>10

\* Induction over the numbers, as a statement about a set of them: P is the set
\* of the numbers of which something holds.
LEMMA Induction ==
  ASSUME NEW P \in SUBSET Nat, 0 \in P, \A n \in P : n + 1 \in P
  PROVE  P = Nat
<1> SUFFICES ASSUME Nat \ P # {} PROVE FALSE
  OBVIOUS
<1>1. PICK m \in Nat \ P : \A n \in Nat \ P : m <= n
  BY LeastNat
<1>2. m - 1 \in Nat
  BY <1>1
<1>3. m - 1 \in P
  BY <1>1, <1>2
<1> QED
  BY <1>1, <1>3

\* The same for lists that grow at their end.
LEMMA ListInduction ==
  ASSUME NEW T, NEW P \in SUBSET Seq(T), << >> \in P,
         \A s \in P, e \in T : Append(s, e) \in P
  PROVE  P = Seq(T)
<1> DEFINE Q == {n \in Nat : \A s \in Seq(T) : Len(s) = n => s \in P}
<1>1. Q = Nat
  <2>1. 0 \in Q
    OBVIOUS
  <2>2. ASSUME NEW n \in Q PROVE n + 1 \in Q
    <3> SUFFICES ASSUME NEW s \in Seq(T), Len(s) = n + 1 PROVE s \in P
      OBVIOUS
    <3>1. s # << >>
      OBVIOUS
    <3>2. PICK f \in Seq(T), e \in T : s = Append(f, e)
      BY <3>1, SequenceEmptyOrAppend
    <3>3. Len(f) = n
      BY <3>2, AppendProperties
    <3>4. f \in P
      BY <3>3
    <3> QED
      BY <3>2, <3>4
  <2> HIDE DEF Q
  <2>3. Q \in SUBSET Nat
    BY DEF Q
  <2> QED
    BY <2>1, <2>2, <2>3, Induction
<1>2. \A s \in Seq(T) : Len(s) \in Nat
  OBVIOUS
<1> QED
  BY <1>1, <1>2

(***************************************************************************)
(* Keep, by the equations of its recursive function: what it does to the   *)
(* empty list and to a list that grows.                                    *)
(***************************************************************************)
KeptStep(g, s, S, n) ==
  [i \in 0 .. n |-> IF i = 0 THEN << >>
                    ELSE IF s[i] \in S THEN Append(g[i - 1], s[i])
                    ELSE g[i - 1]]

LEMMA KeepIs ==
  ASSUME NEW s, NEW S
  PROVE  Keep(s, S) = (CHOOSE g : g = KeptStep(g, s, S, Len(s)))[Len(s)]
BY DEF Keep, KeptStep


\* The recursive definition defines something.
LEMMA KeptStepExists ==
  ASSUME NEW s, NEW S, NEW n \in Nat
  PROVE  \E g : g = KeptStep(g, s, S, n)
<1> DEFINE P == {k \in Nat : \E g : g = KeptStep(g, s, S, k)}
<1>1. 0 \in P
  <2> DEFINE g == [i \in 0 .. 0 |-> << >>]
  <2>1. g = KeptStep(g, s, S, 0)
    BY DEF KeptStep
  <2> QED
    BY <2>1
<1>2. ASSUME NEW k \in P PROVE k + 1 \in P
  <2>1. PICK g : g = KeptStep(g, s, S, k)
    OBVIOUS
  <2> DEFINE last == IF s[k + 1] \in S THEN Append(g[k], s[k + 1]) ELSE g[k]
             h == [i \in 0 .. k + 1 |-> IF i <= k THEN g[i] ELSE last]
  <2>2. \A i \in 0 .. k : g[i] = IF i = 0 THEN << >>
                                 ELSE IF s[i] \in S THEN Append(g[i - 1], s[i]) ELSE g[i - 1]
    BY <2>1 DEF KeptStep
  <2>3. \A i \in 0 .. k + 1 : h[i] = IF i <= k THEN g[i] ELSE last
    OBVIOUS
  <2>4. \A i \in 0 .. k + 1 : h[i] = IF i = 0 THEN << >>
                                 ELSE IF s[i] \in S THEN Append(h[i - 1], s[i]) ELSE h[i - 1]
    <3> HIDE DEF h
    <3> TAKE i \in 0 .. k + 1
    <3>1. CASE i \in 0 .. k
      <4>1. h[i] = g[i] /\ (i # 0 => i - 1 \in 0 .. k + 1 /\ h[i - 1] = g[i - 1])
        BY <2>3, <3>1
      <4> QED
        BY <2>2, <3>1, <4>1
    <3>2. CASE i = k + 1
      <4>1. h[i] = last /\ i # 0 /\ h[i - 1] = g[k]
        BY <2>3, <3>2
      <4> QED
        BY <3>2, <4>1
    <3> QED
      BY <3>1, <3>2
  <2>5. h = KeptStep(h, s, S, k + 1)
    <3>1. h = [i \in 0 .. k + 1 |-> h[i]]
      OBVIOUS
    <3> HIDE DEF h
    <3> QED
      BY <2>4, <3>1 DEF KeptStep
  <2> HIDE DEF h
  <2> QED
    BY <2>5
<1> HIDE DEF P
<1>3. P = Nat
  <2>1. P \in SUBSET Nat
    BY DEF P
  <2> QED
    BY <1>1, <1>2, <2>1, Induction
<1> QED
  BY <1>3 DEF P

\* It looks at the first n elements only.
LEMMA KeptStepsAgree ==
  ASSUME NEW s, NEW t, NEW S, NEW n \in Nat, NEW m \in Nat, n <= m,
         \A i \in 1 .. n : s[i] = t[i],
         NEW g, NEW h, g = KeptStep(g, s, S, n), h = KeptStep(h, t, S, m)
  PROVE  g[n] = h[n]
<1> DEFINE P == {k \in Nat : k <= n => g[k] = h[k]}
<1>1. \A i \in 0 .. n : g[i] = IF i = 0 THEN << >>
                               ELSE IF s[i] \in S THEN Append(g[i - 1], s[i]) ELSE g[i - 1]
  BY DEF KeptStep
<1>2. \A i \in 0 .. m : h[i] = IF i = 0 THEN << >>
                               ELSE IF t[i] \in S THEN Append(h[i - 1], t[i]) ELSE h[i - 1]
  BY DEF KeptStep
<1>3. 0 \in P
  BY <1>1, <1>2
<1>4. ASSUME NEW k \in P PROVE k + 1 \in P
  <2> SUFFICES ASSUME k + 1 <= n PROVE g[k + 1] = h[k + 1]
    OBVIOUS
  <2>1. g[k] = h[k] /\ s[k + 1] = t[k + 1]
    OBVIOUS
  <2>2. k + 1 \in 0 .. n /\ k + 1 \in 0 .. m /\ k + 1 # 0 /\ (k + 1) - 1 = k
    OBVIOUS
  <2> QED
    BY <1>1, <1>2, <2>1, <2>2
<1> HIDE DEF P
<1>5. P = Nat
  <2>1. P \in SUBSET Nat
    BY DEF P
  <2> QED
    BY <1>3, <1>4, <2>1, Induction
<1> QED
  BY <1>5 DEF P

LEMMA KeepSteps ==
  ASSUME NEW T, NEW s \in Seq(T), NEW S
  PROVE  \E g : g = KeptStep(g, s, S, Len(s)) /\ Keep(s, S) = g[Len(s)]
<1>1. Len(s) \in Nat
  OBVIOUS
<1>2. \E g : g = KeptStep(g, s, S, Len(s))
  BY <1>1, KeptStepExists
<1> DEFINE g == CHOOSE g : g = KeptStep(g, s, S, Len(s))
<1>3. g = KeptStep(g, s, S, Len(s))
  BY <1>2
<1>4. Keep(s, S) = g[Len(s)]
  BY KeepIs
<1> QED
  BY <1>3, <1>4

LEMMA KeepEmpty == \A S : Keep(<< >>, S) = << >>
<1> TAKE S
<1>1. << >> \in Seq({}) /\ Len(<< >>) = 0
  OBVIOUS
<1>2. PICK g : g = KeptStep(g, << >>, S, 0) /\ Keep(<< >>, S) = g[0]
  BY <1>1, KeepSteps
<1> QED
  BY <1>2 DEF KeptStep

LEMMA KeepAppend ==
  ASSUME NEW T, NEW s \in Seq(T), NEW e \in T, NEW S
  PROVE  Keep(Append(s, e), S) = IF e \in S THEN Append(Keep(s, S), e) ELSE Keep(s, S)
<1> DEFINE t == Append(s, e)
           n == Len(s)
<1>1. /\ t \in Seq(T) /\ n \in Nat /\ Len(t) = n + 1 /\ t[n + 1] = e
      /\ \A i \in 1 .. n : s[i] = t[i]
  BY AppendProperties
<1> HIDE DEF t, n
<1>2. PICK g : g = KeptStep(g, s, S, n) /\ Keep(s, S) = g[n]
  BY KeepSteps DEF n
<1>3. PICK h : h = KeptStep(h, t, S, n + 1) /\ Keep(t, S) = h[n + 1]
  BY <1>1, KeepSteps
<1>4. g[n] = h[n]
  BY <1>1, <1>2, <1>3, KeptStepsAgree
<1>5. h[n + 1] = IF t[n + 1] \in S THEN Append(h[n], t[n + 1]) ELSE h[n]
  <2>1. n + 1 \in 0 .. n + 1 /\ n + 1 # 0 /\ (n + 1) - 1 = n
    BY <1>1
  <2> QED
    BY <1>3, <2>1 DEF KeptStep
<1> QED
  BY <1>1, <1>2, <1>3, <1>4, <1>5 DEF t


(***************************************************************************)
(* What the lists of the models are made of, and what Keep leaves of it.   *)
(***************************************************************************)
LEMMA ListAppend ==
  ASSUME NEW T, NEW s \in Seq(T), NEW e \in T
  PROVE  /\ Append(s, e) \in Seq(T) /\ Append(s, e) # << >>
         /\ ToSet(Append(s, e)) = ToSet(s) \cup {e}
         /\ Last(Append(s, e)) = e
         /\ IsInjective(Append(s, e)) <=> IsInjective(s) /\ e \notin ToSet(s)
<1> DEFINE t == Append(s, e)
<1>1. /\ t \in Seq(T) /\ t # << >> /\ Len(s) \in Nat /\ Len(t) = Len(s) + 1 /\ t[Len(s) + 1] = e
      /\ \A i \in 1 .. Len(s) : t[i] = s[i]
  BY AppendProperties
<1>2. DOMAIN s = 1 .. Len(s) /\ DOMAIN t = 1 .. Len(t)
  BY <1>1, LenProperties
<1> HIDE DEF t
<1>3. ToSet(t) = ToSet(s) \cup {e}
  BY <1>1, <1>2 DEF ToSet
<1>4. Last(t) = e
  BY <1>1 DEF Last
<1>5. ASSUME IsInjective(t) PROVE IsInjective(s) /\ e \notin ToSet(s)
  BY <1>1, <1>2, <1>5 DEF IsInjective, ToSet
<1>6. ASSUME IsInjective(s), e \notin ToSet(s) PROVE IsInjective(t)
  <2> SUFFICES ASSUME NEW i \in 1 .. Len(t), NEW j \in 1 .. Len(t), t[i] = t[j]
               PROVE  i = j
    BY <1>2 DEF IsInjective
  <2>1. \A k \in 1 .. Len(s) : s[k] # e
    BY <1>2, <1>6 DEF ToSet
  <2>2. CASE i \in 1 .. Len(s) /\ j \in 1 .. Len(s)
    BY <1>1, <1>2, <1>6, <2>2 DEF IsInjective
  <2>3. CASE i = Len(s) + 1 \/ j = Len(s) + 1
    BY <1>1, <2>1, <2>3
  <2> QED
    BY <1>1, <2>2, <2>3
<1> QED
  BY <1>1, <1>3, <1>4, <1>5, <1>6 DEF t

LEMMA ListEmpty ==
  /\ \A T : << >> \in Seq(T)
  /\ ToSet(<< >>) = {} /\ IsInjective(<< >>) /\ Len(<< >>) = 0
  /\ \A T : \A s \in Seq(T) : /\ ToSet(s) \subseteq T
                              /\ s \in Seq(ToSet(s))
                              /\ s = << >> <=> ToSet(s) = {}
<1>1. ToSet(<< >>) = {} /\ IsInjective(<< >>) /\ Len(<< >>) = 0
  BY DEF ToSet, IsInjective
<1>2. ASSUME NEW T, NEW s \in Seq(T)
      PROVE  ToSet(s) \subseteq T /\ s \in Seq(ToSet(s)) /\ (s = << >> <=> ToSet(s) = {})
  <2>1. Len(s) \in Nat /\ DOMAIN s = 1 .. Len(s) /\ s \in [1 .. Len(s) -> T]
    BY LenProperties
  <2>2. ToSet(s) \subseteq T
    BY <2>1 DEF ToSet
  <2>3. s \in [1 .. Len(s) -> ToSet(s)]
    BY <2>1 DEF ToSet
  <2>4. s \in Seq(ToSet(s))
    BY <2>1, <2>3, SeqDef
  <2>5. s # << >> => 1 \in DOMAIN s
    BY <2>1
  <2> QED
    BY <1>1, <2>2, <2>4, <2>5 DEF ToSet
<1> QED
  BY <1>1, <1>2

LEMMA ListLast ==
  ASSUME NEW T, NEW s \in Seq(T), s # << >>
  PROVE  Last(s) \in ToSet(s)
<1>1. Len(s) \in Nat \ {0} /\ DOMAIN s = 1 .. Len(s)
  BY LenProperties, EmptySeq
<1> QED
  BY <1>1 DEF Last, ToSet

LEMMA ListTail ==
  ASSUME NEW T, NEW s \in Seq(T), s # << >>
  PROVE  Tail(s) \in Seq(T) /\ Head(s) \in T /\ ToSet(s) = {Head(s)} \cup ToSet(Tail(s))
<1> DEFINE t == Tail(s)
<1>1. /\ Len(s) \in Nat \ {0} /\ Head(s) = s[1] /\ Len(t) = Len(s) - 1 /\ t \in Seq(T)
      /\ \A i \in 1 .. Len(s) - 1 : t[i] = s[i + 1]
  OBVIOUS
<1>2. DOMAIN s = 1 .. Len(s) /\ DOMAIN t = 1 .. Len(t)
  BY <1>1, LenProperties
<1> HIDE DEF t
<1>3. ASSUME NEW x \in ToSet(s) PROVE x = Head(s) \/ x \in ToSet(t)
  <2>1. PICK i \in 1 .. Len(s) : x = s[i]
    BY <1>2 DEF ToSet
  <2>2. CASE i = 1
    BY <1>1, <2>1, <2>2
  <2>3. CASE i # 1
    <3>1. i - 1 \in 1 .. Len(t) /\ t[i - 1] = x
      BY <1>1, <2>1, <2>3
    <3> QED
      BY <1>2, <3>1 DEF ToSet
  <2> QED
    BY <2>2, <2>3
<1>4. ASSUME NEW x \in ToSet(t) PROVE x \in ToSet(s)
  <2>1. PICK i \in 1 .. Len(t) : x = t[i]
    BY <1>2 DEF ToSet
  <2>2. i + 1 \in 1 .. Len(s) /\ s[i + 1] = x
    BY <1>1, <2>1
  <2> QED
    BY <1>2, <2>2 DEF ToSet
<1>5. Head(s) \in ToSet(s) /\ Head(s) \in T
  <2>1. 1 \in DOMAIN s
    BY <1>1, <1>2
  <2> QED
    BY <1>1, <2>1 DEF ToSet
<1> QED
  BY <1>1, <1>3, <1>4, <1>5 DEF t

LEMMA ListConcat ==
  ASSUME NEW T, NEW s \in Seq(T), NEW t \in Seq(T)
  PROVE  s \o t \in Seq(T) /\ ToSet(s \o t) = ToSet(s) \cup ToSet(t)
<1>1. /\ Len(s) \in Nat /\ Len(t) \in Nat /\ Len(s \o t) = Len(s) + Len(t) /\ s \o t \in Seq(T)
      /\ \A i \in 1 .. Len(s) + Len(t) :
            (s \o t)[i] = IF i <= Len(s) THEN s[i] ELSE t[i - Len(s)]
  BY ConcatProperties
<1> DEFINE u == s \o t
<1>2. DOMAIN s = 1 .. Len(s) /\ DOMAIN t = 1 .. Len(t) /\ DOMAIN u = 1 .. Len(u)
  BY <1>1, LenProperties
<1> HIDE DEF u
<1>3. ASSUME NEW x \in ToSet(u) PROVE x \in ToSet(s) \cup ToSet(t)
  <2>1. PICK i \in 1 .. Len(s) + Len(t) : x = u[i]
    BY <1>1, <1>2 DEF ToSet, u
  <2>2. CASE i <= Len(s)
    BY <1>1, <1>2, <2>1, <2>2 DEF ToSet, u
  <2>3. CASE i > Len(s)
    <3>1. i - Len(s) \in 1 .. Len(t) /\ x = t[i - Len(s)]
      BY <1>1, <2>1, <2>3 DEF u
    <3> QED
      BY <1>2, <3>1 DEF ToSet
  <2> QED
    BY <1>1, <2>2, <2>3
<1>4. ASSUME NEW x \in ToSet(s) PROVE x \in ToSet(u)
  <2>1. PICK i \in 1 .. Len(s) : x = s[i]
    BY <1>2 DEF ToSet
  <2>2. i \in 1 .. Len(u) /\ u[i] = x
    BY <1>1, <2>1 DEF u
  <2> QED
    BY <1>2, <2>2 DEF ToSet
<1>5. ASSUME NEW x \in ToSet(t) PROVE x \in ToSet(u)
  <2>1. PICK i \in 1 .. Len(t) : x = t[i]
    BY <1>2 DEF ToSet
  <2>2. Len(s) + i \in 1 .. Len(u) /\ u[Len(s) + i] = x
    BY <1>1, <2>1 DEF u
  <2> QED
    BY <1>2, <2>2 DEF ToSet
<1> QED
  BY <1>1, <1>3, <1>4, <1>5 DEF u

LEMMA KeepElements ==
  ASSUME NEW T, NEW s \in Seq(T), NEW S
  PROVE  /\ Keep(s, S) \in Seq(T)
         /\ ToSet(Keep(s, S)) = ToSet(s) \cap S
         /\ IsInjective(s) => IsInjective(Keep(s, S))
         /\ ToSet(s) \subseteq S => Keep(s, S) = s
<1> DEFINE Kept(q) == /\ Keep(q, S) \in Seq(T)
                      /\ ToSet(Keep(q, S)) = ToSet(q) \cap S
                      /\ IsInjective(q) => IsInjective(Keep(q, S))
                      /\ ToSet(q) \subseteq S => Keep(q, S) = q
           P == {q \in Seq(T) : Kept(q)}
<1>1. << >> \in P
  BY KeepEmpty, ListEmpty
<1>2. ASSUME NEW q \in P, NEW e \in T PROVE Append(q, e) \in P
  <2> DEFINE k == Keep(q, S)
  <2>1. q \in Seq(T) /\ Kept(q)
    OBVIOUS
  <2>2. /\ Append(q, e) \in Seq(T)
        /\ ToSet(Append(q, e)) = ToSet(q) \cup {e}
        /\ IsInjective(Append(q, e)) <=> IsInjective(q) /\ e \notin ToSet(q)
    BY <2>1, ListAppend
  <2>3. /\ Append(k, e) \in Seq(T)
        /\ ToSet(Append(k, e)) = ToSet(k) \cup {e}
        /\ IsInjective(Append(k, e)) <=> IsInjective(k) /\ e \notin ToSet(k)
    BY <2>1, ListAppend
  <2>4. Keep(Append(q, e), S) = IF e \in S THEN Append(k, e) ELSE k
    BY <2>1, KeepAppend
  <2>5. CASE e \in S
    BY <2>1, <2>2, <2>3, <2>4, <2>5
  <2>6. CASE e \notin S
    BY <2>1, <2>2, <2>4, <2>6
  <2> QED
    BY <2>5, <2>6
<1> HIDE DEF P
<1>3. P = Seq(T)
  <2>1. P \in SUBSET Seq(T)
    BY DEF P
  <2> QED
    BY <1>1, <1>2, <2>1, ListInduction
<1> QED
  BY <1>3 DEF P

\* Only the elements of the list matter.
LEMMA KeepSame ==
  ASSUME NEW T, NEW s \in Seq(T), NEW R, NEW S, \A x \in ToSet(s) : x \in R <=> x \in S
  PROVE  Keep(s, R) = Keep(s, S)
<1> DEFINE P == {q \in Seq(T) : (\A x \in ToSet(q) : x \in R <=> x \in S) => Keep(q, R) = Keep(q, S)}
<1>1. << >> \in P
  BY KeepEmpty, ListEmpty
<1>2. ASSUME NEW q \in P, NEW e \in T PROVE Append(q, e) \in P
  <2>1. q \in Seq(T)
    OBVIOUS
  <2>2. Append(q, e) \in Seq(T) /\ ToSet(Append(q, e)) = ToSet(q) \cup {e}
    BY <2>1, ListAppend
  <2>3. /\ Keep(Append(q, e), R) = IF e \in R THEN Append(Keep(q, R), e) ELSE Keep(q, R)
        /\ Keep(Append(q, e), S) = IF e \in S THEN Append(Keep(q, S), e) ELSE Keep(q, S)
    BY <2>1, KeepAppend
  <2> SUFFICES ASSUME \A x \in ToSet(Append(q, e)) : x \in R <=> x \in S
               PROVE  Keep(Append(q, e), R) = Keep(Append(q, e), S)
    BY <2>2
  <2>4. (e \in R <=> e \in S) /\ Keep(q, R) = Keep(q, S)
    BY <2>2
  <2> QED
    BY <2>3, <2>4
<1> HIDE DEF P
<1>3. P = Seq(T)
  <2>1. P \in SUBSET Seq(T)
    BY DEF P
  <2> QED
    BY <1>1, <1>2, <2>1, ListInduction
<1> QED
  BY <1>3 DEF P

\* Taking the first element of a list without repetition.
LEMMA ListTailInjective ==
  ASSUME NEW T, NEW s \in Seq(T), s # << >>, IsInjective(s)
  PROVE  IsInjective(Tail(s)) /\ Head(s) \notin ToSet(Tail(s))
<1> DEFINE t == Tail(s)
<1>1. /\ Len(s) \in Nat /\ Len(s) # 0 /\ t \in Seq(T) /\ Len(t) = Len(s) - 1 /\ Head(s) = s[1]
      /\ DOMAIN s = 1 .. Len(s) /\ DOMAIN t = 1 .. Len(s) - 1
      /\ \A i \in 1 .. Len(s) - 1 : t[i] = s[i + 1]
  OBVIOUS
<1> HIDE DEF t
<1>2. \A i, j \in 1 .. Len(s) : s[i] = s[j] => i = j
  BY <1>1 DEF IsInjective
<1>3. \A i, j \in 1 .. Len(s) - 1 : t[i] = t[j] => i = j
  <2> TAKE i, j \in 1 .. Len(s) - 1
  <2>1. t[i] = s[i + 1] /\ t[j] = s[j + 1] /\ i + 1 \in 1 .. Len(s) /\ j + 1 \in 1 .. Len(s)
    BY <1>1
  <2>2. i + 1 = j + 1 => i = j
    BY <1>1
  <2> QED
    BY <1>2, <2>1, <2>2
<1>4. \A i \in 1 .. Len(s) - 1 : t[i] # s[1]
  <2> TAKE i \in 1 .. Len(s) - 1
  <2>1. t[i] = s[i + 1] /\ i + 1 \in 1 .. Len(s) /\ 1 \in 1 .. Len(s) /\ i + 1 # 1
    BY <1>1
  <2> QED
    BY <1>2, <2>1
<1>5. IsInjective(t)
  BY <1>1, <1>3 DEF IsInjective
<1>6. Head(s) \notin ToSet(t)
  BY <1>1, <1>4 DEF ToSet
<1> QED
  BY <1>5, <1>6 DEF t

\* Two elements at the end are one after the other.
LEMMA ListConcatTwo ==
  ASSUME NEW T, NEW s \in Seq(T), NEW x \in T, NEW y \in T
  PROVE  s \o <<x, y>> = Append(Append(s, x), y)
OBVIOUS

\* A list has finitely many elements.
LEMMA ListFinite ==
  ASSUME NEW T, NEW s \in Seq(T)
  PROVE  IsFiniteSet(ToSet(s))
<1> DEFINE P == {q \in Seq(T) : IsFiniteSet(ToSet(q))}
<1>1. << >> \in P
  BY ListEmpty, FS_EmptySet
<1>2. ASSUME NEW q \in P, NEW e \in T PROVE Append(q, e) \in P
  <2>1. q \in Seq(T) /\ IsFiniteSet(ToSet(q))
    OBVIOUS
  <2>2. Append(q, e) \in Seq(T) /\ ToSet(Append(q, e)) = ToSet(q) \cup {e}
    BY <2>1, ListAppend
  <2> QED
    BY <2>1, <2>2, FS_AddElement
<1>3. P \in SUBSET Seq(T)
  OBVIOUS
<1> HIDE DEF P
<1>4. P = Seq(T)
  BY <1>1, <1>2, <1>3, ListInduction
<1> QED
  BY <1>4 DEF P

(***************************************************************************)
(* FlattenSeq, by the equations of its recursive function.                 *)
(***************************************************************************)
FlatStep(g, s, n) == [i \in 1 .. n |-> IF i = 1 THEN s[i] ELSE g[i - 1] \o s[i]]

LEMMA FlattenIs ==
  ASSUME NEW s, Len(s) # 0
  PROVE  FlattenSeq(s) = (CHOOSE g : g = FlatStep(g, s, Len(s)))[Len(s)]
BY DEF FlattenSeq, FlatStep

\* The recursive definition defines something.
LEMMA FlatStepExists ==
  ASSUME NEW s, NEW n \in Nat
  PROVE  \E g : g = FlatStep(g, s, n + 1)
<1> DEFINE P == {k \in Nat : \E g : g = FlatStep(g, s, k + 1)}
<1>1. 0 \in P
  <2> DEFINE g == [i \in 1 .. 1 |-> s[1]]
  <2>1. g = FlatStep(g, s, 0 + 1)
    BY DEF FlatStep
  <2> QED
    BY <2>1
<1>2. ASSUME NEW k \in P PROVE k + 1 \in P
  <2>1. PICK g : g = FlatStep(g, s, k + 1)
    OBVIOUS
  <2> DEFINE last == g[k + 1] \o s[k + 2]
             h == [i \in 1 .. k + 2 |-> IF i <= k + 1 THEN g[i] ELSE last]
  <2>2. \A i \in 1 .. k + 1 : g[i] = IF i = 1 THEN s[i] ELSE g[i - 1] \o s[i]
    BY <2>1 DEF FlatStep
  <2>3. \A i \in 1 .. k + 2 : h[i] = IF i <= k + 1 THEN g[i] ELSE last
    OBVIOUS
  <2>4. \A i \in 1 .. k + 2 : h[i] = IF i = 1 THEN s[i] ELSE h[i - 1] \o s[i]
    <3> HIDE DEF h
    <3> TAKE i \in 1 .. k + 2
    <3>1. CASE i \in 1 .. k + 1
      <4>1. h[i] = g[i] /\ (i # 1 => i - 1 \in 1 .. k + 2 /\ h[i - 1] = g[i - 1])
        BY <2>3, <3>1
      <4> QED
        BY <2>2, <3>1, <4>1
    <3>2. CASE i = k + 2
      <4>0. k \in Nat /\ i # 1 /\ i - 1 = k + 1 /\ k + 1 \in 1 .. k + 2 /\ ~(i <= k + 1) /\ k + 1 <= k + 1
        BY <3>2
      <4>1. h[i] = last
        BY <2>3, <4>0
      <4>2. h[i - 1] = g[k + 1]
        BY <2>3, <4>0
      <4> QED
        BY <3>2, <4>0, <4>1, <4>2
    <3> QED
      BY <3>1, <3>2
  <2>5. h = FlatStep(h, s, k + 2)
    <3>1. h = [i \in 1 .. k + 2 |-> h[i]]
      OBVIOUS
    <3> HIDE DEF h
    <3> QED
      BY <2>4, <3>1 DEF FlatStep
  <2> HIDE DEF h
  <2> QED
    BY <2>5
<1> HIDE DEF P
<1>3. P = Nat
  <2>1. P \in SUBSET Nat
    BY DEF P
  <2> QED
    BY <1>1, <1>2, <2>1, Induction
<1> QED
  BY <1>3 DEF P

\* It looks at the first n elements only.
LEMMA FlatStepsAgree ==
  ASSUME NEW s, NEW t, NEW n \in Nat, NEW m \in Nat, n <= m,
         \A i \in 1 .. n : s[i] = t[i],
         NEW g, NEW h, g = FlatStep(g, s, n), h = FlatStep(h, t, m), n # 0
  PROVE  g[n] = h[n]
<1> DEFINE P == {k \in Nat : k \in 1 .. n => g[k] = h[k]}
<1>1. \A i \in 1 .. n : g[i] = IF i = 1 THEN s[i] ELSE g[i - 1] \o s[i]
  BY DEF FlatStep
<1>2. \A i \in 1 .. m : h[i] = IF i = 1 THEN t[i] ELSE h[i - 1] \o t[i]
  BY DEF FlatStep
<1>3. 0 \in P
  OBVIOUS
<1>4. ASSUME NEW k \in P PROVE k + 1 \in P
  <2> SUFFICES ASSUME k + 1 <= n PROVE g[k + 1] = h[k + 1]
    OBVIOUS
  <2>1. k + 1 \in 1 .. n /\ k + 1 \in 1 .. m /\ (k + 1) - 1 = k /\ s[k + 1] = t[k + 1]
    OBVIOUS
  <2>2. CASE k = 0
    <3>1. k + 1 = 1
      BY <2>2
    <3> QED
      BY <1>1, <1>2, <2>1, <3>1
  <2>3. CASE k # 0
    <3>1. k \in 1 .. n /\ k + 1 # 1
      BY <2>3
    <3>2. g[k] = h[k]
      BY <3>1
    <3> QED
      BY <1>1, <1>2, <2>1, <3>1, <3>2
  <2> QED
    BY <2>2, <2>3
<1> HIDE DEF P
<1>5. P = Nat
  <2>1. P \in SUBSET Nat
    BY DEF P
  <2> QED
    BY <1>3, <1>4, <2>1, Induction
<1> QED
  BY <1>5 DEF P

LEMMA FlattenSteps ==
  ASSUME NEW s, NEW n \in Nat, Len(s) = n + 1
  PROVE  \E g : g = FlatStep(g, s, n + 1) /\ FlattenSeq(s) = g[n + 1]
<1>1. \E g : g = FlatStep(g, s, n + 1)
  BY FlatStepExists
<1> DEFINE g == CHOOSE g : g = FlatStep(g, s, n + 1)
<1>2. g = FlatStep(g, s, n + 1)
  BY <1>1
<1>3. FlattenSeq(s) = g[n + 1]
  <2>1. Len(s) # 0
    OBVIOUS
  <2> QED
    BY <2>1, FlattenIs
<1> QED
  BY <1>2, <1>3

\* A list more is put at the end.
LEMMA FlattenMore ==
  ASSUME NEW s, NEW t, NEW n \in Nat, n # 0, Len(s) = n, Len(t) = n + 1,
         \A i \in 1 .. n : s[i] = t[i]
  PROVE  FlattenSeq(t) = FlattenSeq(s) \o t[n + 1]
<1>1. PICK h : h = FlatStep(h, t, n + 1) /\ FlattenSeq(t) = h[n + 1]
  BY FlattenSteps
<1>2. \E g : g = FlatStep(g, s, n) /\ FlattenSeq(s) = g[n]
  <2> DEFINE m == n - 1
  <2>1. m \in Nat /\ Len(s) = m + 1 /\ m + 1 = n
    OBVIOUS
  <2> HIDE DEF m
  <2>2. \E g : g = FlatStep(g, s, m + 1) /\ FlattenSeq(s) = g[m + 1]
    BY <2>1, FlattenSteps
  <2> QED
    BY <2>1, <2>2
<1>3. PICK g : g = FlatStep(g, s, n) /\ FlattenSeq(s) = g[n]
  BY <1>2
<1>4. g[n] = h[n]
  <2> DEFINE m == n + 1
  <2>1. n <= m /\ m \in Nat
    OBVIOUS
  <2>2. g = FlatStep(g, s, n) /\ h = FlatStep(h, t, m)
    BY <1>1, <1>3
  <2> HIDE DEF m
  <2> QED
    BY <2>1, <2>2, FlatStepsAgree
<1>5. h[n + 1] = IF n + 1 = 1 THEN t[n + 1] ELSE h[n] \o t[n + 1]
  <2>1. n + 1 \in 1 .. n + 1 /\ (n + 1) - 1 = n
    OBVIOUS
  <2> QED
    BY <1>1, <2>1 DEF FlatStep
<1>6. n + 1 # 1
  OBVIOUS
<1> QED
  BY <1>1, <1>3, <1>4, <1>5, <1>6

LEMMA FlattenAppend ==
  ASSUME NEW T, NEW s \in Seq(Seq(T)), NEW e \in Seq(T)
  PROVE  FlattenSeq(Append(s, e)) = IF s = << >> THEN e ELSE FlattenSeq(s) \o e
<1> DEFINE t == Append(s, e)
           n == Len(s)
<1>1. /\ n \in Nat /\ Len(t) = n + 1 /\ t[n + 1] = e
      /\ \A i \in 1 .. n : s[i] = t[i]
      /\ s = << >> <=> n = 0
  BY AppendProperties, EmptySeq
<1>2. CASE n = 0
  <2>1. t[1] = e /\ Len(t) = 1 /\ Len(t) = 0 + 1
    BY <1>1, <1>2
  <2> HIDE DEF t, n
  <2>2. PICK h : h = FlatStep(h, t, 0 + 1) /\ FlattenSeq(t) = h[0 + 1]
    BY <2>1, FlattenSteps
  <2>3. h[0 + 1] = t[1]
    BY <2>2 DEF FlatStep
  <2> QED
    BY <1>1, <1>2, <2>1, <2>2, <2>3 DEF t
<1>3. CASE n # 0
  <2> HIDE DEF t
  <2>1. FlattenSeq(t) = FlattenSeq(s) \o t[n + 1]
    BY <1>1, <1>3, FlattenMore
  <2> QED
    BY <1>1, <1>3, <2>1 DEF t
<1> QED
  BY <1>2, <1>3

(***************************************************************************)
(* Lists whose elements are pairwise related, the earlier to the later.    *)
(***************************************************************************)
InOrder(s, R) == \A i, j \in 1 .. Len(s) : i < j => <<s[i], s[j]>> \in R

LEMMA OrderConcat ==
  ASSUME NEW T, NEW s \in Seq(T), NEW t \in Seq(T), NEW R
  PROVE  InOrder(s \o t, R) <=> /\ InOrder(s, R) /\ InOrder(t, R)
                               /\ \A x \in ToSet(s), y \in ToSet(t) : <<x, y>> \in R
<1> DEFINE u == s \o t
           n == Len(s)
<1>1. /\ n \in Nat /\ Len(t) \in Nat /\ Len(u) = n + Len(t)
      /\ \A i \in 1 .. n : u[i] = s[i] /\ i \in 1 .. Len(u)
      /\ \A i \in 1 .. Len(t) : u[n + i] = t[i] /\ n + i \in 1 .. Len(u)
      /\ DOMAIN s = 1 .. n /\ DOMAIN t = 1 .. Len(t)
  BY ConcatProperties, LenProperties
<1>2. \A i \in 1 .. Len(u) : i > n => i - n \in 1 .. Len(t) /\ u[i] = t[i - n]
  <2> SUFFICES ASSUME NEW i \in 1 .. Len(u), i > n
               PROVE  i - n \in 1 .. Len(t) /\ u[i] = t[i - n]
    OBVIOUS
  <2>1. i - n \in 1 .. Len(t) /\ n + (i - n) = i
    BY <1>1
  <2> QED
    BY <1>1, <2>1
<1> HIDE DEF u, n
<1>3. ASSUME InOrder(u, R)
      PROVE  InOrder(s, R) /\ InOrder(t, R) /\ \A x \in ToSet(s), y \in ToSet(t) : <<x, y>> \in R
  <2>1. InOrder(s, R)
    <3> SUFFICES ASSUME NEW i \in 1 .. n, NEW j \in 1 .. n, i < j PROVE <<s[i], s[j]>> \in R
      BY DEF InOrder, n
    <3> QED
      BY <1>1, <1>3 DEF InOrder
  <2>2. InOrder(t, R)
    <3> SUFFICES ASSUME NEW i \in 1 .. Len(t), NEW j \in 1 .. Len(t), i < j PROVE <<t[i], t[j]>> \in R
      BY DEF InOrder
    <3>1. n + i < n + j
      BY <1>1
    <3> QED
      BY <1>1, <1>3, <3>1 DEF InOrder
  <2>3. ASSUME NEW x \in ToSet(s), NEW y \in ToSet(t) PROVE <<x, y>> \in R
    <3>1. PICK i \in 1 .. n : s[i] = x
      BY <1>1 DEF ToSet
    <3>2. PICK j \in 1 .. Len(t) : t[j] = y
      BY <1>1 DEF ToSet
    <3>3. i < n + j
      BY <1>1
    <3> QED
      BY <1>1, <1>3, <3>1, <3>2, <3>3 DEF InOrder
  <2> QED
    BY <2>1, <2>2, <2>3
<1>4. ASSUME InOrder(s, R), InOrder(t, R), \A x \in ToSet(s), y \in ToSet(t) : <<x, y>> \in R
      PROVE  InOrder(u, R)
  <2> SUFFICES ASSUME NEW i \in 1 .. Len(u), NEW j \in 1 .. Len(u), i < j PROVE <<u[i], u[j]>> \in R
    BY DEF InOrder
  <2>1. CASE j <= n
    <3>1. i \in 1 .. n /\ j \in 1 .. n
      BY <1>1, <2>1
    <3> QED
      BY <1>1, <1>4, <3>1 DEF InOrder, n
  <2>2. CASE i > n
    <3>1. i - n \in 1 .. Len(t) /\ j - n \in 1 .. Len(t) /\ i - n < j - n
      BY <1>1, <1>2, <2>2
    <3>2. u[i] = t[i - n] /\ u[j] = t[j - n]
      BY <1>1, <1>2, <2>2
    <3> QED
      BY <1>4, <3>1, <3>2 DEF InOrder
  <2>3. CASE i <= n /\ j > n
    <3>1. i \in 1 .. n /\ u[i] = s[i] /\ j - n \in 1 .. Len(t) /\ u[j] = t[j - n]
      BY <1>1, <1>2, <2>3
    <3>2. u[i] \in ToSet(s) /\ u[j] \in ToSet(t)
      BY <1>1, <3>1 DEF ToSet
    <3> QED
      BY <1>4, <3>2
  <2> QED
    BY <1>1, <2>1, <2>2, <2>3
<1> QED
  BY <1>3, <1>4 DEF u

LEMMA OneElement ==
  ASSUME NEW T, NEW e \in T
  PROVE  <<e>> \in Seq(T) /\ Len(<<e>>) = 1 /\ ToSet(<<e>>) = {e} /\ \A R : InOrder(<<e>>, R)
<1>1. <<e>> \in Seq(T) /\ Len(<<e>>) = 1 /\ <<e>>[1] = e
  OBVIOUS
<1>2. DOMAIN <<e>> = {1}
  OBVIOUS
<1> DEFINE t == <<e>>
<1> HIDE DEF t
<1>3. ToSet(t) = {e}
  BY <1>1, <1>2 DEF ToSet, t
<1>4. \A R : InOrder(t, R)
  <2>1. \A i, j \in 1 .. Len(t) : ~(i < j)
    BY <1>1 DEF t
  <2> QED
    BY <2>1 DEF InOrder
<1> QED
  BY <1>1, <1>3, <1>4 DEF t

\* A list is two parts.
LEMMA ListParts ==
  ASSUME NEW T, NEW s \in Seq(T), NEW n \in 0 .. Len(s)
  PROVE  /\ SubSeq(s, 1, n) \in Seq(T) /\ SubSeq(s, n + 1, Len(s)) \in Seq(T)
         /\ s = SubSeq(s, 1, n) \o SubSeq(s, n + 1, Len(s))
         /\ Len(SubSeq(s, 1, n)) = n /\ Len(SubSeq(s, n + 1, Len(s))) = Len(s) - n
         /\ \A x \in ToSet(SubSeq(s, 1, n)) : \E i \in 1 .. Len(s) : i <= n /\ x = s[i]
         /\ \A x \in ToSet(SubSeq(s, n + 1, Len(s))) : \E i \in 1 .. Len(s) : i > n /\ x = s[i]
<1> DEFINE a == SubSeq(s, 1, n)
           b == SubSeq(s, n + 1, Len(s))
<1>1. Len(s) \in Nat /\ n \in Nat /\ n <= Len(s) /\ \A i \in 1 .. Len(s) : s[i] \in T
  BY LenProperties, ElementOfSeq
<1>2. /\ a \in Seq(T) /\ Len(a) = n /\ \A i \in 1 .. n : a[i] = s[i]
  <2>1. \A i \in 1 .. n : s[i] \in T
    BY <1>1
  <2>2. /\ a \in Seq(T) /\ Len(a) = IF 1 <= n THEN n - 1 + 1 ELSE 0
        /\ \A i \in 1 .. n - 1 + 1 : a[i] = s[1 + i - 1]
    BY <1>1, <2>1, SubSeqProperties
  <2> HIDE DEF a
  <2> QED
    BY <1>1, <2>2
<1>3. /\ b \in Seq(T) /\ Len(b) = Len(s) - n /\ \A i \in 1 .. Len(s) - n : b[i] = s[n + i]
  <2>1. \A i \in n + 1 .. Len(s) : s[i] \in T
    BY <1>1
  <2>2. /\ b \in Seq(T) /\ Len(b) = IF n + 1 <= Len(s) THEN Len(s) - (n + 1) + 1 ELSE 0
        /\ \A i \in 1 .. Len(s) - (n + 1) + 1 : b[i] = s[(n + 1) + i - 1]
    BY <1>1, <2>1, SubSeqProperties
  <2> HIDE DEF b
  <2> QED
    BY <1>1, <2>2
<1>4. s = a \o b
  <2>1. 1 \in 1 .. Len(s) + 1 /\ n \in 1 - 1 .. Len(s) /\ Len(s) \in n .. Len(s)
    BY <1>1
  <2>2. a \o b = SubSeq(s, 1, Len(s))
    BY <2>1, ConcatAdjacentSubSeq
  <2> QED
    BY <2>2, SubSeqFull
<1> HIDE DEF a, b
<1>5. DOMAIN a = 1 .. n /\ DOMAIN b = 1 .. Len(s) - n
  BY <1>2, <1>3, LenProperties
<1>6. ASSUME NEW x \in ToSet(a) PROVE \E i \in 1 .. Len(s) : i <= n /\ x = s[i]
  <2>1. PICK i \in 1 .. n : x = a[i]
    BY <1>5 DEF ToSet
  <2> QED
    BY <1>1, <1>2, <2>1
<1>7. ASSUME NEW x \in ToSet(b) PROVE \E i \in 1 .. Len(s) : i > n /\ x = s[i]
  <2>1. PICK i \in 1 .. Len(s) - n : x = b[i]
    BY <1>5 DEF ToSet
  <2>2. n + i \in 1 .. Len(s) /\ n + i > n /\ x = s[n + i]
    BY <1>1, <1>3, <2>1
  <2> QED
    BY <2>2
<1> QED
  BY <1>2, <1>3, <1>4, <1>6, <1>7 DEF a, b

\* An element is inserted after the n-th.
LEMMA ListInsert ==
  ASSUME NEW T, NEW s \in Seq(T), NEW e \in T, NEW n \in 0 .. Len(s), NEW R, InOrder(s, R),
         \A i \in 1 .. Len(s) : i <= n => <<s[i], e>> \in R,
         \A i \in 1 .. Len(s) : i > n => <<e, s[i]>> \in R
  PROVE  LET t == InsertAt(s, n + 1, e)
         IN  t \in Seq(T) /\ ToSet(t) = ToSet(s) \cup {e} /\ InOrder(t, R)
<1> DEFINE a == SubSeq(s, 1, n)
           b == SubSeq(s, n + 1, Len(s))
           one == <<e>>
<1>1. /\ a \in Seq(T) /\ b \in Seq(T) /\ s = a \o b
      /\ \A x \in ToSet(a) : <<x, e>> \in R
      /\ \A x \in ToSet(b) : <<e, x>> \in R
  <2>1. /\ a \in Seq(T) /\ b \in Seq(T) /\ s = a \o b
        /\ \A x \in ToSet(a) : \E i \in 1 .. Len(s) : i <= n /\ x = s[i]
        /\ \A x \in ToSet(b) : \E i \in 1 .. Len(s) : i > n /\ x = s[i]
    BY ListParts
  <2> HIDE DEF a, b
  <2>2. ASSUME NEW x \in ToSet(a) PROVE <<x, e>> \in R
    <3>1. PICK i \in 1 .. Len(s) : i <= n /\ x = s[i]
      BY <2>1
    <3> QED
      BY <3>1
  <2>3. ASSUME NEW x \in ToSet(b) PROVE <<e, x>> \in R
    <3>1. PICK i \in 1 .. Len(s) : i > n /\ x = s[i]
      BY <2>1
    <3> QED
      BY <3>1
  <2> QED
    BY <2>1, <2>2, <2>3
<1>2. InsertAt(s, n + 1, e) = a \o one \o b
  <2>1. (n + 1) - 1 = n
    BY LenProperties
  <2> QED
    BY <2>1 DEF InsertAt
<1>3. one \in Seq(T) /\ ToSet(one) = {e} /\ InOrder(one, R)
  BY OneElement
<1> HIDE DEF a, b, one
<1>4. ToSet(s) = ToSet(a) \cup ToSet(b)
  BY <1>1, ListConcat
<1>5. InOrder(a, R) /\ InOrder(b, R) /\ \A x \in ToSet(a), y \in ToSet(b) : <<x, y>> \in R
  BY <1>1, OrderConcat
<1>6. a \o one \in Seq(T) /\ ToSet(a \o one) = ToSet(a) \cup {e} /\ InOrder(a \o one, R)
  <2>1. a \o one \in Seq(T) /\ ToSet(a \o one) = ToSet(a) \cup {e}
    BY <1>1, <1>3, ListConcat
  <2>2. \A x \in ToSet(a), y \in ToSet(one) : <<x, y>> \in R
    BY <1>1, <1>3
  <2> QED
    BY <1>1, <1>3, <1>5, <2>1, <2>2, OrderConcat
<1> DEFINE c == a \o one
<1> HIDE DEF c
<1>7. c \o b \in Seq(T) /\ ToSet(c \o b) = ToSet(a) \cup {e} \cup ToSet(b) /\ InOrder(c \o b, R)
  <2>1. c \in Seq(T) /\ ToSet(c) = ToSet(a) \cup {e} /\ InOrder(c, R)
    BY <1>6 DEF c
  <2>2. c \o b \in Seq(T) /\ ToSet(c \o b) = ToSet(c) \cup ToSet(b)
    BY <1>1, <2>1, ListConcat
  <2>3. \A x \in ToSet(c), y \in ToSet(b) : <<x, y>> \in R
    BY <1>1, <1>5, <2>1
  <2> QED
    BY <1>1, <1>5, <2>1, <2>2, <2>3, OrderConcat
<1> QED
  BY <1>2, <1>4, <1>7 DEF c

\* The first occurrence of an element is removed.
LEMMA RemoveFirstIs ==
  ASSUME NEW T, NEW s \in Seq(T), NEW e \in ToSet(s)
  PROVE  \E i \in 1 .. Len(s) :
            /\ s[i] = e /\ \A j \in 1 .. Len(s) : s[j] = e => i <= j
            /\ RemoveFirst(s, e) = SubSeq(s, 1, i - 1) \o SubSeq(s, i + 1, Len(s))
<1> DEFINE I == {i \in 1 .. Len(s) : s[i] = e}
<1>1. \E i \in 1 .. Len(s) : s[i] = e
  BY LenProperties DEF ToSet
<1>2. I \in SUBSET Nat /\ I # {}
  BY <1>1
<1>3. \E m \in I : \A n \in I : m <= n
  BY <1>2, LeastNat
<1>4. Min(I) \in I /\ \A n \in I : Min(I) <= n
  BY <1>3 DEF Min
<1>5. RemoveFirst(s, e) = RemoveAt(s, Min(I))
  BY <1>1 DEF RemoveFirst, SelectInSeq
<1> DEFINE k == Min(I)
<1>6. k \in 1 .. Len(s) /\ s[k] = e /\ \A j \in 1 .. Len(s) : s[j] = e => k <= j
  BY <1>4
<1> HIDE DEF I, k
<1> QED
  BY <1>5, <1>6 DEF RemoveAt, k

\* What is left of a list whose elements are in order and different.
LEMMA ListRemove ==
  ASSUME NEW T, NEW s \in Seq(T), NEW e \in ToSet(s), NEW R, InOrder(s, R),
         \A x : <<x, x>> \notin R
  PROVE  /\ RemoveFirst(s, e) \in Seq(T) /\ ToSet(RemoveFirst(s, e)) = ToSet(s) \ {e}
         /\ InOrder(RemoveFirst(s, e), R)
<1>1. PICK k \in 1 .. Len(s) :
        s[k] = e /\ RemoveFirst(s, e) = SubSeq(s, 1, k - 1) \o SubSeq(s, k + 1, Len(s))
  BY RemoveFirstIs
<1>2. Len(s) \in Nat /\ k - 1 \in 0 .. Len(s) /\ k \in 0 .. Len(s) /\ (k - 1) + 1 = k
  BY LenProperties
<1> DEFINE a == SubSeq(s, 1, k - 1)
           b == SubSeq(s, k + 1, Len(s))
<1>3. /\ a \in Seq(T) /\ b \in Seq(T)
      /\ \A x \in ToSet(a) : \E i \in 1 .. Len(s) : i <= k - 1 /\ x = s[i]
      /\ \A x \in ToSet(b) : \E i \in 1 .. Len(s) : i > k /\ x = s[i]
  BY <1>2, ListParts
<1>4. /\ Len(a) = k - 1 /\ Len(b) = Len(s) - k
      /\ \A i \in 1 .. k - 1 : a[i] = s[i]
      /\ \A i \in 1 .. Len(s) - k : b[i] = s[k + i]
  <2>1. \A i \in 1 .. Len(s) : s[i] \in T
    BY ElementOfSeq
  <2>2. /\ Len(a) = IF 1 <= k - 1 THEN (k - 1) - 1 + 1 ELSE 0
        /\ \A i \in 1 .. (k - 1) - 1 + 1 : a[i] = s[1 + i - 1]
    <3>1. \A i \in 1 .. k - 1 : s[i] \in T
      BY <1>2, <2>1
    <3> QED
      BY <1>2, <3>1, SubSeqProperties
  <2>3. /\ Len(b) = IF k + 1 <= Len(s) THEN Len(s) - (k + 1) + 1 ELSE 0
        /\ \A i \in 1 .. Len(s) - (k + 1) + 1 : b[i] = s[(k + 1) + i - 1]
    <3>1. \A i \in k + 1 .. Len(s) : s[i] \in T
      BY <1>2, <2>1
    <3> QED
      BY <1>2, <3>1, SubSeqProperties
  <2> HIDE DEF a, b
  <2> QED
    BY <1>2, <2>2, <2>3
<1>5. \A i, j \in 1 .. Len(s) : i < j => <<s[i], s[j]>> \in R
  BY DEF InOrder
<1>6. \A i, j \in 1 .. Len(s) : s[i] = s[j] => i = j
  <2> SUFFICES ASSUME NEW i \in 1 .. Len(s), NEW j \in 1 .. Len(s), s[i] = s[j], i # j PROVE FALSE
    OBVIOUS
  <2>1. i < j \/ j < i
    BY <1>2
  <2> QED
    BY <1>5, <2>1
<1> HIDE DEF a, b
<1>7. InOrder(a, R) /\ InOrder(b, R) /\ \A x \in ToSet(a), y \in ToSet(b) : <<x, y>> \in R
  <2>1. InOrder(a, R)
    <3> SUFFICES ASSUME NEW i \in 1 .. Len(a), NEW j \in 1 .. Len(a), i < j PROVE <<a[i], a[j]>> \in R
      BY DEF InOrder
    <3>1. i \in 1 .. Len(s) /\ j \in 1 .. Len(s) /\ a[i] = s[i] /\ a[j] = s[j]
      BY <1>2, <1>4
    <3> QED
      BY <1>5, <3>1
  <2>2. InOrder(b, R)
    <3> SUFFICES ASSUME NEW i \in 1 .. Len(b), NEW j \in 1 .. Len(b), i < j PROVE <<b[i], b[j]>> \in R
      BY DEF InOrder
    <3>1. k + i \in 1 .. Len(s) /\ k + j \in 1 .. Len(s) /\ k + i < k + j /\ b[i] = s[k + i] /\ b[j] = s[k + j]
      BY <1>2, <1>4
    <3> QED
      BY <1>5, <3>1
  <2>3. ASSUME NEW x \in ToSet(a), NEW y \in ToSet(b) PROVE <<x, y>> \in R
    <3>1. PICK i \in 1 .. Len(s) : i <= k - 1 /\ x = s[i]
      BY <1>3
    <3>2. PICK j \in 1 .. Len(s) : j > k /\ y = s[j]
      BY <1>3
    <3>3. i < j
      BY <1>2, <3>1, <3>2
    <3> QED
      BY <1>5, <3>1, <3>2, <3>3
  <2> QED
    BY <2>1, <2>2, <2>3
<1>8. a \o b \in Seq(T) /\ ToSet(a \o b) = ToSet(a) \cup ToSet(b) /\ InOrder(a \o b, R)
  BY <1>3, <1>7, ListConcat, OrderConcat
<1>9. ToSet(a) \cup ToSet(b) = ToSet(s) \ {e}
  <2>1. DOMAIN s = 1 .. Len(s) /\ DOMAIN a = 1 .. Len(a) /\ DOMAIN b = 1 .. Len(b)
    BY <1>3, LenProperties
  <2>2. ASSUME NEW x \in ToSet(a) \cup ToSet(b) PROVE x \in ToSet(s) \ {e}
    <3>1. PICK i \in 1 .. Len(s) : i # k /\ x = s[i]
      BY <1>2, <1>3
    <3> QED
      BY <1>1, <1>6, <2>1, <3>1 DEF ToSet
  <2>3. ASSUME NEW x \in ToSet(s) \ {e} PROVE x \in ToSet(a) \cup ToSet(b)
    <3>1. PICK i \in 1 .. Len(s) : x = s[i]
      BY <2>1 DEF ToSet
    <3>2. i # k
      BY <1>1, <3>1
    <3>3. CASE i < k
      <4>1. i \in 1 .. Len(a) /\ a[i] = x
        BY <1>2, <1>4, <3>1, <3>3
      <4> QED
        BY <2>1, <4>1 DEF ToSet
    <3>4. CASE i > k
      <4>1. i - k \in 1 .. Len(b) /\ k + (i - k) = i
        BY <1>2, <1>4, <3>4
      <4>2. b[i - k] = x
        BY <1>4, <3>1, <4>1
      <4> QED
        BY <2>1, <4>1, <4>2 DEF ToSet
    <3> QED
      BY <1>2, <3>2, <3>3, <3>4
  <2> QED
    BY <2>2, <2>3
<1> QED
  BY <1>1, <1>8, <1>9 DEF a, b

\* Keep does not change the order.
LEMMA KeepOrder ==
  ASSUME NEW T, NEW s \in Seq(T), NEW S, NEW R, InOrder(s, R)
  PROVE  InOrder(Keep(s, S), R)
<1> DEFINE P == {q \in Seq(T) : InOrder(q, R) => InOrder(Keep(q, S), R)}
<1>1. << >> \in P
  BY KeepEmpty, ListEmpty
<1>2. ASSUME NEW q \in P, NEW e \in T PROVE Append(q, e) \in P
  <2> SUFFICES ASSUME InOrder(Append(q, e), R) PROVE InOrder(Keep(Append(q, e), S), R)
    BY ListAppend
  <2> DEFINE one == <<e>>
             k == Keep(q, S)
  <2>1. q \in Seq(T) /\ one \in Seq(T) /\ ToSet(one) = {e} /\ InOrder(one, R)
    BY OneElement
  <2>2. k \in Seq(T) /\ ToSet(k) = ToSet(q) \cap S
    BY <2>1, KeepElements
  <2>3. Keep(Append(q, e), S) = IF e \in S THEN Append(k, e) ELSE k
    BY <2>1, KeepAppend
  <2>4. Append(q, e) = q \o one
    BY <2>1, AppendIsConcat
  <2> HIDE DEF k
  <2>5. Append(k, e) = k \o one
    BY <2>2, AppendIsConcat
  <2> HIDE DEF one
  <2>6. InOrder(q, R) /\ \A x \in ToSet(q), y \in ToSet(one) : <<x, y>> \in R
    BY <2>1, <2>4, OrderConcat
  <2>7. InOrder(k, R)
    BY <2>6 DEF k
  <2>8. InOrder(k \o one, R)
    <3>1. \A x \in ToSet(k), y \in ToSet(one) : <<x, y>> \in R
      BY <2>2, <2>6
    <3> QED
      BY <2>1, <2>2, <2>7, <3>1, OrderConcat
  <2> QED
    BY <2>3, <2>5, <2>7, <2>8
<1>3. P = Seq(T)
  <2> HIDE DEF P
  <2>1. P \in SUBSET Seq(T)
    BY DEF P
  <2> QED
    BY <1>1, <1>2, <2>1, ListInduction
<1> QED
  BY <1>3 DEF P

(***************************************************************************)
(* The sum of a list.                                                      *)
(***************************************************************************)
TotalStep(g, s, n) == [i \in 0 .. n |-> IF i = 0 THEN 0 ELSE g[i - 1] + s[i]]

LEMMA TotalIs ==
  ASSUME NEW s
  PROVE  Total(s) = (CHOOSE g : g = TotalStep(g, s, Len(s)))[Len(s)]
BY DEF Total, TotalStep

LEMMA TotalStepExists ==
  ASSUME NEW s, NEW n \in Nat
  PROVE  \E g : g = TotalStep(g, s, n)
<1> DEFINE P == {k \in Nat : \E g : g = TotalStep(g, s, k)}
<1>1. 0 \in P
  <2> DEFINE g == [i \in 0 .. 0 |-> 0]
  <2>1. g = TotalStep(g, s, 0)
    BY DEF TotalStep
  <2> QED
    BY <2>1
<1>2. ASSUME NEW k \in P PROVE k + 1 \in P
  <2>1. PICK g : g = TotalStep(g, s, k)
    OBVIOUS
  <2> DEFINE last == g[k] + s[k + 1]
             h == [i \in 0 .. k + 1 |-> IF i <= k THEN g[i] ELSE last]
  <2>2. \A i \in 0 .. k : g[i] = IF i = 0 THEN 0 ELSE g[i - 1] + s[i]
    BY <2>1 DEF TotalStep
  <2>3. \A i \in 0 .. k + 1 : h[i] = IF i <= k THEN g[i] ELSE last
    OBVIOUS
  <2>4. \A i \in 0 .. k + 1 : h[i] = IF i = 0 THEN 0 ELSE h[i - 1] + s[i]
    <3> HIDE DEF h
    <3> TAKE i \in 0 .. k + 1
    <3>1. CASE i \in 0 .. k
      <4>1. h[i] = g[i] /\ (i # 0 => i - 1 \in 0 .. k + 1 /\ h[i - 1] = g[i - 1])
        BY <2>3, <3>1
      <4> QED
        BY <2>2, <3>1, <4>1
    <3>2. CASE i = k + 1
      <4>1. h[i] = last /\ i # 0 /\ h[i - 1] = g[k]
        BY <2>3, <3>2
      <4> QED
        BY <3>2, <4>1
    <3> QED
      BY <3>1, <3>2
  <2>5. h = TotalStep(h, s, k + 1)
    <3>1. h = [i \in 0 .. k + 1 |-> h[i]]
      OBVIOUS
    <3> HIDE DEF h
    <3> QED
      BY <2>4, <3>1 DEF TotalStep
  <2> HIDE DEF h
  <2> QED
    BY <2>5
<1> HIDE DEF P
<1>3. P = Nat
  <2>1. P \in SUBSET Nat
    BY DEF P
  <2> QED
    BY <1>1, <1>2, <2>1, Induction
<1> QED
  BY <1>3 DEF P

LEMMA TotalSteps ==
  ASSUME NEW s, Len(s) \in Nat
  PROVE  \E g : g = TotalStep(g, s, Len(s)) /\ Total(s) = g[Len(s)]
<1>1. \E g : g = TotalStep(g, s, Len(s))
  BY TotalStepExists
<1> DEFINE g == CHOOSE g : g = TotalStep(g, s, Len(s))
<1>2. g = TotalStep(g, s, Len(s))
  BY <1>1
<1>3. Total(s) = g[Len(s)]
  BY TotalIs
<1> QED
  BY <1>2, <1>3

LEMMA TotalEmpty == Total(<< >>) = 0
<1>1. Len(<< >>) = 0
  OBVIOUS
<1>2. PICK g : g = TotalStep(g, << >>, 0) /\ Total(<< >>) = g[0]
  BY <1>1, TotalSteps
<1> QED
  BY <1>2 DEF TotalStep

LEMMA TotalAppend ==
  ASSUME NEW T, NEW s \in Seq(T), NEW e \in T
  PROVE  Total(Append(s, e)) = Total(s) + e
<1> DEFINE t == Append(s, e)
           n == Len(s)
<1>1. /\ t \in Seq(T) /\ n \in Nat /\ Len(t) = n + 1 /\ t[n + 1] = e
      /\ \A i \in 1 .. n : s[i] = t[i]
  BY AppendProperties
<1>2. PICK g : g = TotalStep(g, s, n) /\ Total(s) = g[n]
  BY <1>1, TotalSteps
<1> HIDE DEF t, n
<1>3. PICK h : h = TotalStep(h, t, n + 1) /\ Total(t) = h[n + 1]
  BY <1>1, TotalSteps
<1>4. \A i \in 0 .. n : g[i] = IF i = 0 THEN 0 ELSE g[i - 1] + s[i]
  BY <1>2 DEF TotalStep
<1>5. \A i \in 0 .. n + 1 : h[i] = IF i = 0 THEN 0 ELSE h[i - 1] + t[i]
  BY <1>3 DEF TotalStep
<1> DEFINE P == {k \in Nat : k <= n => g[k] = h[k]}
<1>6. 0 \in P
  BY <1>1, <1>4, <1>5
<1>7. ASSUME NEW k \in P PROVE k + 1 \in P
  <2> SUFFICES ASSUME k + 1 <= n PROVE g[k + 1] = h[k + 1]
    OBVIOUS
  <2>1. k + 1 \in 0 .. n /\ k + 1 \in 0 .. n + 1 /\ k + 1 \in 1 .. n /\ k + 1 # 0 /\ (k + 1) - 1 = k
    BY <1>1
  <2>2. g[k] = h[k]
    BY <1>1, <2>1
  <2>3. g[k + 1] = g[k] + s[k + 1]
    BY <1>4, <2>1
  <2>4. h[k + 1] = h[k] + t[k + 1]
    BY <1>5, <2>1
  <2> QED
    BY <1>1, <2>1, <2>2, <2>3, <2>4
<1>8. P = Nat
  <2> HIDE DEF P
  <2>1. P \in SUBSET Nat
    BY DEF P
  <2> QED
    BY <1>6, <1>7, <2>1, Induction
<1>9. g[n] = h[n]
  BY <1>1, <1>8
<1>10. h[n + 1] = h[n] + t[n + 1]
  <2>1. n + 1 \in 0 .. n + 1 /\ n + 1 # 0 /\ (n + 1) - 1 = n
    BY <1>1
  <2> QED
    BY <1>5, <2>1
<1> QED
  BY <1>1, <1>2, <1>3, <1>9, <1>10 DEF t

LEMMA TotalType ==
  ASSUME NEW s \in Seq(Nat)
  PROVE  Total(s) \in Nat
<1> DEFINE P == {q \in Seq(Nat) : Total(q) \in Nat}
<1>1. << >> \in P
  BY TotalEmpty, ListEmpty
<1>2. ASSUME NEW q \in P, NEW e \in Nat PROVE Append(q, e) \in P
  <2>1. q \in Seq(Nat) /\ Total(q) \in Nat /\ Append(q, e) \in Seq(Nat)
    OBVIOUS
  <2>2. Total(Append(q, e)) = Total(q) + e
    BY <2>1, TotalAppend
  <2> QED
    BY <2>1, <2>2
<1>3. P = Seq(Nat)
  <2> HIDE DEF P
  <2>1. P \in SUBSET Seq(Nat)
    BY DEF P
  <2> QED
    BY <1>1, <1>2, <2>1, ListInduction
<1> QED
  BY <1>3

LEMMA TotalConcat ==
  ASSUME NEW s \in Seq(Nat), NEW t \in Seq(Nat)
  PROVE  Total(s \o t) = Total(s) + Total(t)
<1> DEFINE P == {q \in Seq(Nat) : Total(s \o q) = Total(s) + Total(q)}
<1>1. << >> \in P
  <2>1. s \o << >> = s /\ Total(s) \in Nat
    BY TotalType
  <2> QED
    BY <2>1, TotalEmpty, ListEmpty
<1>2. ASSUME NEW q \in P, NEW e \in Nat PROVE Append(q, e) \in P
  <2>1. q \in Seq(Nat) /\ Append(q, e) \in Seq(Nat) /\ s \o q \in Seq(Nat)
    OBVIOUS
  <2>2. s \o Append(q, e) = Append(s \o q, e)
    BY <2>1
  <2>3. Total(Append(s \o q, e)) = Total(s \o q) + e /\ Total(Append(q, e)) = Total(q) + e
    BY <2>1, TotalAppend
  <2>4. Total(s) \in Nat /\ Total(q) \in Nat /\ Total(s \o q) = Total(s) + Total(q)
    BY <2>1, TotalType
  <2>5. Total(s \o Append(q, e)) = Total(s) + Total(Append(q, e))
    <3> DEFINE one == Total(s)
               two == Total(q)
    <3>1. one \in Nat /\ two \in Nat /\ (one + two) + e = one + (two + e)
      BY <2>4
    <3> HIDE DEF one, two
    <3>2. Total(s \o Append(q, e)) = (one + two) + e
      BY <2>2, <2>3, <2>4 DEF one, two
    <3>3. Total(Append(q, e)) = two + e
      BY <2>3 DEF two
    <3> QED
      BY <3>1, <3>2, <3>3 DEF one
  <2> QED
    BY <2>1, <2>5
<1>3. P = Seq(Nat)
  <2> HIDE DEF P
  <2>1. P \in SUBSET Seq(Nat)
    BY DEF P
  <2> QED
    BY <1>1, <1>2, <2>1, ListInduction
<1> QED
  BY <1>3

\* The i-th element is removed.
LEMMA ListRemoveAt ==
  ASSUME NEW T, NEW s \in Seq(T), NEW i \in 1 .. Len(s)
  PROVE  /\ RemoveAt(s, i) \in Seq(T) /\ Len(RemoveAt(s, i)) = Len(s) - 1
         /\ \A j \in 1 .. Len(s) - 1 : RemoveAt(s, i)[j] = IF j < i THEN s[j] ELSE s[j + 1]
<1>1. Len(s) \in Nat /\ \A j \in 1 .. Len(s) : s[j] \in T
  BY LenProperties, ElementOfSeq
<1> DEFINE a == SubSeq(s, 1, i - 1)
           b == SubSeq(s, i + 1, Len(s))
<1>2. a \in Seq(T) /\ Len(a) = i - 1 /\ \A j \in 1 .. i - 1 : a[j] = s[j]
  <2>1. \A j \in 1 .. i - 1 : s[j] \in T
    BY <1>1
  <2>2. /\ a \in Seq(T) /\ Len(a) = IF 1 <= i - 1 THEN (i - 1) - 1 + 1 ELSE 0
        /\ \A j \in 1 .. (i - 1) - 1 + 1 : a[j] = s[1 + j - 1]
    BY <1>1, <2>1, SubSeqProperties
  <2> HIDE DEF a
  <2> QED
    BY <1>1, <2>2
<1>3. b \in Seq(T) /\ Len(b) = Len(s) - i /\ \A j \in 1 .. Len(s) - i : b[j] = s[i + j]
  <2>1. \A j \in i + 1 .. Len(s) : s[j] \in T
    BY <1>1
  <2>2. /\ b \in Seq(T) /\ Len(b) = IF i + 1 <= Len(s) THEN Len(s) - (i + 1) + 1 ELSE 0
        /\ \A j \in 1 .. Len(s) - (i + 1) + 1 : b[j] = s[(i + 1) + j - 1]
    BY <1>1, <2>1, SubSeqProperties
  <2> HIDE DEF b
  <2> QED
    BY <1>1, <2>2
<1>4. RemoveAt(s, i) = a \o b
  BY DEF RemoveAt
<1> HIDE DEF a, b
<1>5. /\ a \o b \in Seq(T) /\ Len(a \o b) = Len(a) + Len(b)
      /\ \A j \in 1 .. Len(a) + Len(b) : (a \o b)[j] = IF j <= Len(a) THEN a[j] ELSE b[j - Len(a)]
  BY <1>2, <1>3, ConcatProperties
<1>6. \A j \in 1 .. Len(s) - 1 : (a \o b)[j] = IF j < i THEN s[j] ELSE s[j + 1]
  <2> TAKE j \in 1 .. Len(s) - 1
  <2>1. CASE j < i
    BY <1>1, <1>2, <1>3, <1>5, <2>1
  <2>2. CASE ~(j < i)
    <3>1. j - (i - 1) \in 1 .. Len(s) - i /\ i + (j - (i - 1)) = j + 1 /\ ~(j <= i - 1)
      BY <1>1, <2>2
    <3>2. j \in 1 .. Len(a) + Len(b)
      BY <1>1, <1>2, <1>3
    <3>3. (a \o b)[j] = b[j - (i - 1)]
      BY <1>2, <1>5, <3>1, <3>2
    <3>4. b[j - (i - 1)] = s[j + 1]
      BY <1>3, <3>1
    <3> QED
      BY <2>2, <3>3, <3>4
  <2> QED
    BY <2>1, <2>2
<1> QED
  BY <1>1, <1>2, <1>3, <1>4, <1>5, <1>6

LEMMA TotalRemove ==
  ASSUME NEW s \in Seq(Nat), NEW i \in 1 .. Len(s)
  PROVE  Total(RemoveAt(s, i)) + s[i] = Total(s)
<1> DEFINE a == SubSeq(s, 1, i - 1)
           b == SubSeq(s, i + 1, Len(s))
           c == SubSeq(s, 1, i)
<1>1. Len(s) \in Nat /\ s[i] \in Nat /\ i - 1 \in 0 .. Len(s) /\ i \in 0 .. Len(s)
  BY LenProperties, ElementOfSeq
<1>2. c \in Seq(Nat) /\ b \in Seq(Nat) /\ s = c \o b
  BY <1>1, ListParts
<1>3. a \in Seq(Nat)
  BY <1>1, ListParts
<1>4. c = Append(a, s[i])
  OBVIOUS
<1>5. RemoveAt(s, i) = a \o b
  BY DEF RemoveAt
<1> HIDE DEF a, b, c
<1>6. Total(s) = Total(c) + Total(b) /\ Total(RemoveAt(s, i)) = Total(a) + Total(b)
  BY <1>2, <1>3, <1>5, TotalConcat
<1>7. Total(c) = Total(a) + s[i]
  BY <1>1, <1>3, <1>4, TotalAppend
<1>8. Total(a) \in Nat /\ Total(b) \in Nat
  BY <1>2, <1>3, TotalType
<1> QED
  BY <1>1, <1>6, <1>7, <1>8
=============================================================================
