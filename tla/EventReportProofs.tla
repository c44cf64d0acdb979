-------------------------- MODULE EventReportProofs --------------------------
(***************************************************************************)
(* Proof that frames and reports arrive, that the list of a channel holds  *)
(* each of them once and stays sorted, and that a summary counts what its  *)
(* user sent.                                                              *)
(*                                                                         *)
(* The fold over the lines of a frame, over those of a body and over the   *)
(* events of a summary is a CHOOSE of a function on sets of indices; it is *)
(* shown to exist and then to go step by step (HeaderSteps, ReadSteps,     *)
(* CountSteps).  The parsers are then followed along what the writers      *)
(* write: the headers (Writes), the parts of a frame (Framed), the body of *)
(* a report (Describes), and what the constructor has read after each of   *)
(* its lines (InFields, InGeneral, InDescription).                         *)
(*                                                                         *)
(* The library's theorems about finite sets and sequences come by LOCAL    *)
(* INSTANCE: tlapm does not recognise their operators when they come by    *)
(* EXTENDS beside EventReport.                                             *)
(***************************************************************************)
EXTENDS EventReport, TLAPS
LOCAL INSTANCE SequencesExt
LOCAL INSTANCE Folds
LOCAL INSTANCE FiniteSetTheorems
LOCAL INSTANCE WellFoundedInduction
LOCAL INSTANCE SequenceTheorems

(* Of finite sets, one is minimal with respect to inclusion.                *)
LEMMA SmallestSet ==
  ASSUME NEW K, NEW S, S \subseteq FiniteSubsetsOf(K), S # {}
  PROVE  \E x \in S : \A y \in S : ~(<<y, x>> \in StrictSubsetOrdering(K))
<1>1. IsWellFoundedOn(StrictSubsetOrdering(K), FiniteSubsetsOf(K))
  BY FS_StrictSubsetOrderingWellFounded
<1> QED  BY <1>1, WFMin

(* A set of natural numbers that is not empty has a least element (the one  *)
(* that Min chooses): 0 .. m is minimal among the 0 .. x.                   *)
LEMMA LeastIndex ==
  ASSUME NEW T, T \subseteq Nat, NEW k \in T
  PROVE  \E m \in T : \A x \in T : m <= x
<1> DEFINE below == {0 .. x : x \in T \cap (0 .. k)}
<1>1. below \subseteq FiniteSubsetsOf(0 .. k)
  <2> SUFFICES ASSUME NEW x \in T \cap (0 .. k)
               PROVE  0 .. x \in FiniteSubsetsOf(0 .. k)
    OBVIOUS
  <2> QED  BY FS_Interval DEF FiniteSubsetsOf
<1>2. below # {}
  OBVIOUS
<1> HIDE DEF below
<1>3. PICK b \in below :
        \A c \in below : ~(<<c, b>> \in StrictSubsetOrdering(0 .. k))
  BY <1>1, <1>2, SmallestSet
<1> USE DEF below
<1>4. PICK m \in T \cap (0 .. k) : b = 0 .. m
  OBVIOUS
<1>5. ASSUME NEW x \in T, x < m
      PROVE  FALSE
  <2>1. 0 .. x \in below
    BY <1>5
  <2>2. <<0 .. x, 0 .. m>> \in StrictSubsetOrdering(0 .. k)
    BY <1>5 DEF StrictSubsetOrdering
  <2> QED  BY <2>1, <2>2, <1>3, <1>4
<1> QED  BY <1>5

LEMMA MinIsLeast ==
  ASSUME NEW T, T \subseteq Nat, T # {}
  PROVE  Min(T) \in T /\ \A x \in T : Min(T) <= x
<1> QED  BY LeastIndex DEF Min

(* The induction that the proofs below go by.                               *)
LEMMA LastGoodIndex ==
  ASSUME NEW n \in Nat, NEW T, 0 \in T, \A i \in 1 .. n : i - 1 \in T => i \in T
  PROVE  0 .. n \subseteq T
<1> DEFINE bad == {i \in 0 .. n : i \notin T}
<1> SUFFICES ASSUME bad # {} PROVE FALSE
  OBVIOUS
<1>1. bad \subseteq Nat
  OBVIOUS
<1> HIDE DEF bad
<1>2. PICK m \in bad : \A x \in bad : m <= x
  BY <1>1, LeastIndex
<1> USE DEF bad
<1>3. m \in 1 .. n /\ m - 1 \in 0 .. n /\ m - 1 \notin bad
  BY <1>2
<1> QED
  BY <1>2, <1>3

(* The greatest of a few numbers (what Max chooses).                        *)
LEMMA MaxIsGreatest ==
  ASSUME NEW n \in Nat, NEW s, s \subseteq 1 .. n, s # {}
  PROVE  Max(s) \in s /\ \A x \in s : x <= Max(s)
<1> DEFINE T == {n - x : x \in s}
<1>0. \A x \in s : n - x \in Nat
  OBVIOUS
<1>1. T \subseteq Nat /\ T # {}
  BY <1>0
<1> HIDE DEF T
<1>2. PICK m \in T : \A x \in T : m <= x
  BY <1>1, LeastIndex
<1> USE DEF T
<1>3. PICK y \in s : m = n - y
  OBVIOUS
<1>4. \A x \in s : y >= x
  BY <1>2, <1>3
<1> HIDE DEF T
<1>5. \E g \in s : \A x \in s : g >= x
  BY <1>4
<1>6. Max(s) \in s /\ \A x \in s : Max(s) >= x
  BY <1>5 DEF Max
<1> QED
  BY <1>6

LEMMA MaxOfInterval ==
  ASSUME NEW n \in Nat, NEW i \in 1 .. n
  PROVE  Max(1 .. i) = i
<1>1. i \in 1 .. i /\ 1 .. i \subseteq 1 .. n
  OBVIOUS
<1>2. Max(1 .. i) \in 1 .. i /\ i <= Max(1 .. i)
  BY <1>1, MaxIsGreatest
<1> QED
  BY <1>2

(* it[s] is the fold, with F and from base, over the indices in s.          *)
IsFold(it, F, base, V, n) ==
  /\ it \in [SUBSET (1 .. n) -> V]
  /\ \A s \in SUBSET (1 .. n) :
       it[s] = IF s = {} THEN base ELSE F[Max(s)][it[s \ {Max(s)}]]

(* A fold takes its values from F: it is defined on every set of indices.   *)
LEMMA Folding ==
  ASSUME NEW V, NEW base \in V, NEW n \in Nat, NEW F,
         \A i \in 1 .. n, v \in V : F[i][v] \in V
  PROVE  \E it : IsFold(it, F, base, V, n)
<1> DEFINE T == {k \in 0 .. n : \E it : IsFold(it, F, base, V, k)}
<1>1. 0 \in T
  <2> DEFINE it == [s \in SUBSET (1 .. 0) |-> base]
  <2>1. \A s \in SUBSET (1 .. 0) : s = {}
    OBVIOUS
  <2>2. IsFold(it, F, base, V, 0)
    BY <2>1 DEF IsFold
  <2> HIDE DEF it
  <2> QED
    BY <2>2
<1>2. ASSUME NEW k \in 1 .. n, k - 1 \in T
      PROVE  k \in T
  <2>1. PICK old : IsFold(old, F, base, V, k - 1)
    BY <1>2
  <2> DEFINE it == [s \in SUBSET (1 .. k) |->
                      IF k \in s THEN F[k][old[s \ {k}]] ELSE old[s]]
  <2>2. \A s \in SUBSET (1 .. k) :
          /\ s \ {k} \in SUBSET (1 .. k - 1)
          /\ k \notin s => s \in SUBSET (1 .. k - 1)
    OBVIOUS
  <2>3. \A s \in SUBSET (1 .. k) : old[s \ {k}] \in V
    BY <2>1, <2>2 DEF IsFold
  <2>4. it \in [SUBSET (1 .. k) -> V]
    BY <2>1, <2>2, <2>3 DEF IsFold
  <2>5. ASSUME NEW s \in SUBSET (1 .. k)
        PROVE  it[s] = IF s = {} THEN base ELSE F[Max(s)][it[s \ {Max(s)}]]
    <3>1. CASE k \in s
      <4>1. Max(s) = k
        <5>1. s \subseteq 1 .. k /\ k \in Nat
          OBVIOUS
        <5> HIDE DEF it, T
        <5>2. Max(s) \in s /\ k <= Max(s)
          BY <3>1, <5>1, MaxIsGreatest
        <5>3. Max(s) \in 1 .. k
          BY ONLY <5>1, <5>2
        <5> QED
          BY ONLY <5>1, <5>2, <5>3
      <4>2. it[s] = F[k][old[s \ {k}]] /\ it[s \ {k}] = old[s \ {k}]
        BY <3>1
      <4> QED
        BY <3>1, <4>1, <4>2
    <3>2. CASE k \notin s
      <4>1. s \in SUBSET (1 .. k - 1) /\ it[s] = old[s]
        BY <2>2, <3>2
      <4>2. it[s \ {Max(s)}] = old[s \ {Max(s)}]
        BY <3>2
      <4> HIDE DEF it
      <4> QED
        BY <2>1, <4>1, <4>2 DEF IsFold
    <3> QED
      BY <3>1, <3>2
  <2>6. IsFold(it, F, base, V, k)
    BY <2>4, <2>5 DEF IsFold
  <2> HIDE DEF it
  <2> QED
    BY <1>2, <2>6
<1>3. n \in T
  <2> HIDE DEF T
  <2>1. \A k \in 1 .. n : k - 1 \in T => k \in T
    BY <1>2
  <2> QED
    BY <1>1, <2>1, LastGoodIndex
<1>4. PICK it : IsFold(it, F, base, V, n)
  BY <1>3
<1> QED
  BY <1>4

-----------------------------------------------------------------------------
(* G goes through the fold of the headers step by step.                     *)
HeaderSteps(G, lines, n) ==
  /\ G[0] = NoHeaders
  /\ \A i \in 1 .. n : G[i] = PutHeader(G[i - 1], lines[i])
  /\ FoldLeft(PutHeader, NoHeaders, lines) = G[n]

LEMMA FoldOfHeaders ==
  ASSUME NEW V, NoHeaders \in V, NEW n \in Nat,
         NEW lines, DOMAIN lines = 1 .. n,
         \A v \in V, i \in 1 .. n : PutHeader(v, lines[i]) \in V
  PROVE  \E G \in [0 .. n -> V] : HeaderSteps(G, lines, n)
<1> DEFINE F == [i \in 1 .. n |-> [v \in V |-> PutHeader(v, lines[i])]]
<1> DEFINE Folds(it) ==
      it = [s \in SUBSET (1 .. n) |-> IF s = {} THEN NoHeaders
              ELSE PutHeader(it[s \ {Max(s)}], lines[Max(s)])]
<1> DEFINE fold == CHOOSE it : Folds(it)
<1>1. \E it : Folds(it)
  <2>1. \A i \in 1 .. n, v \in V : F[i][v] \in V
    OBVIOUS
  <2> HIDE DEF F
  <2>2. PICK it : IsFold(it, F, NoHeaders, V, n)
    BY <2>1, Folding
  <2>3. ASSUME NEW s \in SUBSET (1 .. n), s # {}
        PROVE  F[Max(s)][it[s \ {Max(s)}]]
                 = PutHeader(it[s \ {Max(s)}], lines[Max(s)])
    <3>1. Max(s) \in 1 .. n
      BY <2>3, MaxIsGreatest
    <3>2. it[s \ {Max(s)}] \in V
      BY <2>2 DEF IsFold
    <3> QED
      BY <3>1, <3>2 DEF F
  <2>4. Folds(it)
    BY <2>2, <2>3 DEF IsFold
  <2> QED
    BY <2>4
<1>2. Folds(fold)
  <2> HIDE DEF Folds
  <2> QED
    BY <1>1
<1>3. FoldLeft(PutHeader, NoHeaders, lines) = fold[1 .. n]
  BY DEF FoldLeft, MapThenFoldSet
<1> HIDE DEF fold
<1> DEFINE G == [i \in 0 .. n |-> fold[1 .. i]]
<1>4. G[0] = NoHeaders
  <2>1. 1 .. 0 = {} /\ {} \in SUBSET (1 .. n)
    OBVIOUS
  <2> QED
    BY <1>2, <2>1
<1>5. ASSUME NEW i \in 1 .. n
      PROVE  G[i] = PutHeader(G[i - 1], lines[i])
  <2>1. 1 .. i \subseteq 1 .. n /\ i \in 1 .. i
    OBVIOUS
  <2>2. Max(1 .. i) = i
    BY MaxOfInterval
  <2>3. (1 .. i) \ {i} = 1 .. i - 1
    OBVIOUS
  <2>4. fold[1 .. i] = PutHeader(fold[1 .. i - 1], lines[i])
    BY <1>2, <2>1, <2>2, <2>3
  <2> QED
    BY <2>4
<1> DEFINE T == {i \in 0 .. n : G[i] \in V}
<1> HIDE DEF G
<1>6. 0 \in T /\ \A i \in 1 .. n : i - 1 \in T => i \in T
  BY <1>4, <1>5
<1>7. 0 .. n \subseteq T
  <2> HIDE DEF T
  <2> QED
    BY <1>6, LastGoodIndex
<1>8. G \in [0 .. n -> V] /\ G[n] = fold[1 .. n]
  BY <1>7 DEF G
<1>9. HeaderSteps(G, lines, n)
  BY <1>3, <1>4, <1>5, <1>8 DEF HeaderSteps
<1> QED
  BY <1>8, <1>9

-----------------------------------------------------------------------------
(* Parts of lines, and lines.  The provers do not know of the strings in    *)
(* quotes that they are in STRING.                                          *)
Commands == {"CONNECT", "SEND", "MESSAGE", "RECEIPT", "ERROR"}
Words == {"", "null", "channel", "escription"}
           \cup {Digit[i] : i \in 1 .. 10}
Word == STRING \cup Commands \cup HeaderNames \cup Fields \cup Words
Line == Seq(Word) \ {<<>>}

LEMMA BlankIsLine == Blank \in Line
<1>1. <<"">> \in Seq(Word) /\ <<"">> # <<>>
  BY DEF Word, Words
<1> QED
  BY <1>1 DEF Blank, Line

(* What a part of a sequence is.                                            *)
LEMMA PartOf ==
  ASSUME NEW S, NEW s \in Seq(S), NEW a \in 1 .. Len(s) + 1,
         NEW b \in a - 1 .. Len(s)
  PROVE  /\ SubSeq(s, a, b) \in Seq(S) /\ Len(SubSeq(s, a, b)) = b - a + 1
         /\ \A i \in 1 .. b - a + 1 : SubSeq(s, a, b)[i] = s[a + i - 1]
<1>1. \A i \in a .. b : s[i] \in S
  OBVIOUS
<1>2. a \in Int /\ b \in Int
  OBVIOUS
<1>3. /\ SubSeq(s, a, b) \in Seq(S)
      /\ Len(SubSeq(s, a, b)) = IF a <= b THEN b - a + 1 ELSE 0
      /\ \A i \in 1 .. b - a + 1 : SubSeq(s, a, b)[i] = s[a + i - 1]
  BY <1>1, <1>2, SubSeqProperties
<1>4. Len(SubSeq(s, a, b)) = b - a + 1
  BY <1>2, <1>3
<1> QED
  BY <1>3, <1>4

(* The first blank line of a sequence.                                      *)
LEMMA FirstBlank ==
  ASSUME NEW s \in Seq(Line), NEW k \in Nat,
         \A i \in 1 .. Len(s) : i < k => s[i] # Blank,
         k <= Len(s) => s[k] = Blank
  PROVE  LET first == SelectInSeq(s, LAMBDA l : l = Blank) IN
         /\ k \in 1 .. Len(s) => first = k
         /\ k > Len(s) => first = 0
<1> DEFINE I == {i \in 1 .. Len(s) : s[i] = Blank}
<1>1. SelectInSeq(s, LAMBDA l : l = Blank) = IF I # {} THEN Min(I) ELSE 0
  BY DEF SelectInSeq
<1>2. CASE k \in 1 .. Len(s)
  <2>1. k \in I /\ I \subseteq Nat /\ \A i \in I : k <= i
    BY <1>2
  <2>2. Min(I) \in I /\ \A x \in I : Min(I) <= x
    <3> HIDE DEF I
    <3>1. I # {}
      BY <2>1
    <3> QED
      BY <2>1, <3>1, MinIsLeast
  <2>3. Min(I) = k
    <3> HIDE DEF I
    <3>1. Min(I) \in Nat /\ Min(I) <= k /\ k <= Min(I)
      BY <2>1, <2>2
    <3> QED
      BY <3>1
  <2> QED
    BY <1>1, <1>2, <2>1, <2>3
<1>3. CASE k > Len(s)
  <2>1. I = {}
    BY <1>3
  <2> QED
    BY <1>1, <1>3, <2>1
<1> QED
  BY <1>2, <1>3

-----------------------------------------------------------------------------
(* Where the head and the body of a frame are.                              *)
LEMMA Layout ==
  ASSUME NEW n \in Nat, NEW H \in Seq(Line), n = Len(H),
         NEW m \in Nat, NEW B \in Seq(Line), m = Len(B),
         \A i \in 1 .. n : H[i] # Blank,
         NEW raw \in Seq(Line), Len(raw) = n + 2 + m, raw[n + 2] = Blank,
         \A i \in 1 .. n : raw[i + 1] = H[i],
         \A i \in 1 .. m : raw[n + 2 + i] = B[i]
  PROVE  HeadOf(raw) = H /\ BodyOf(raw) = B
<1>1. EndOfHeaders(raw) = n + 2
  <2> DEFINE s == SubSeq(raw, 2, Len(raw) - 1)
  <2>1. s \in Seq(Line) /\ Len(s) = n + m
        /\ \A i \in 1 .. n + m : s[i] = raw[i + 1]
    <3>1. 2 \in 1 .. Len(raw) + 1 /\ Len(raw) - 1 \in 1 .. Len(raw)
      OBVIOUS
    <3>2. /\ s \in Seq(Line) /\ Len(s) = Len(raw) - 1 - 2 + 1
          /\ \A i \in 1 .. Len(raw) - 1 - 2 + 1 : s[i] = raw[2 + i - 1]
      BY <3>1, PartOf
    <3> HIDE DEF s
    <3> QED
      BY <3>2
  <2> HIDE DEF s
  <2>2. \A i \in 1 .. Len(s) : i < n + 1 => s[i] # Blank
    <3>1. \A i \in 1 .. Len(s) : i < n + 1 => i \in 1 .. n /\ i \in 1 .. n + m
      BY <2>1
    <3> QED
      BY <2>1, <3>1, ZenonT(30)
  <2>3. n + 1 <= Len(s) => s[n + 1] = Blank
    BY <2>1
  <2> DEFINE k == SelectInSeq(s, LAMBDA l : l = Blank)
  <2>4. /\ n + 1 \in 1 .. Len(s) => k = n + 1
        /\ n + 1 > Len(s) => k = 0
    <3>1. n + 1 \in Nat
      OBVIOUS
    <3> QED
      BY <2>1, <2>2, <2>3, <3>1, FirstBlank
  <2>5. EndOfHeaders(raw) = IF k = 0 THEN Len(raw) ELSE k + 1
    BY DEF EndOfHeaders, s
  <2> HIDE DEF k
  <2> QED
    BY <2>1, <2>4, <2>5
<1>2. HeadOf(raw) = H
  <2> DEFINE h == SubSeq(raw, 2, n + 1)
  <2>1. HeadOf(raw) = h
    BY <1>1 DEF HeadOf
  <2>2. h \in Seq(Line) /\ Len(h) = n /\ \A i \in 1 .. n : h[i] = raw[i + 1]
    <3>1. 2 \in 1 .. Len(raw) + 1 /\ n + 1 \in 1 .. Len(raw)
      OBVIOUS
    <3>2. /\ h \in Seq(Line) /\ Len(h) = n + 1 - 2 + 1
          /\ \A i \in 1 .. n + 1 - 2 + 1 : h[i] = raw[2 + i - 1]
      BY <3>1, PartOf
    <3> HIDE DEF h
    <3> QED
      BY <3>2
  <2> HIDE DEF h
  <2>3. h = H
    BY <2>2, SeqEqual
  <2> QED
    BY <2>1, <2>3
<1>3. BodyOf(raw) = B
  <2> DEFINE b == SubSeq(raw, n + 3, Len(raw))
  <2>1. BodyOf(raw) = b
    BY <1>1 DEF BodyOf
  <2>2. b \in Seq(Line) /\ Len(b) = m /\ \A i \in 1 .. m : b[i] = raw[n + 2 + i]
    <3>1. n + 3 \in 1 .. Len(raw) + 1 /\ Len(raw) \in n + 2 .. Len(raw)
      OBVIOUS
    <3>2. /\ b \in Seq(Line) /\ Len(b) = Len(raw) - (n + 3) + 1
          /\ \A i \in 1 .. Len(raw) - (n + 3) + 1 : b[i] = raw[n + 3 + i - 1]
      BY <3>1, PartOf
    <3> HIDE DEF b
    <3>3. /\ Len(raw) - (n + 3) + 1 = m
          /\ \A i \in 1 .. m : n + 3 + i - 1 = n + 2 + i
      OBVIOUS
    <3> DEFINE k == Len(raw) - (n + 3) + 1
    <3>4. k = m /\ Len(b) = k /\ \A i \in 1 .. k : b[i] = raw[n + 3 + i - 1]
      BY <3>2, <3>3
    <3> HIDE DEF k
    <3>5. Len(b) = m /\ \A i \in 1 .. m : b[i] = raw[n + 3 + i - 1]
      BY <3>4
    <3> QED
      BY <3>2, <3>3, <3>5
  <2> HIDE DEF b
  <2>3. b = B
    BY <2>2, SeqEqual
  <2> QED
    BY <2>1, <2>3
<1> QED
  BY <1>2, <1>3

-----------------------------------------------------------------------------
(* The order in which a map is written (what SetToSeq chooses).             *)
LEMMA NamesInOrder ==
  ASSUME NEW S, IsFiniteSet(S)
  PROVE  \E n \in Nat : /\ SetToSeq(S) \in [1 .. n -> S]
                        /\ \A i, j \in 1 .. n :
                             SetToSeq(S)[i] = SetToSeq(S)[j] => i = j
                        /\ \A x \in S : \E i \in 1 .. n : SetToSeq(S)[i] = x
<1> DEFINE n == Cardinality(S)
<1> DEFINE q == SetToSeq(S)
<1>1. n \in Nat /\ ExistsBijection(1 .. n, S)
  BY FS_CardinalityType
<1> HIDE DEF n
<1>2. \E f \in [1 .. n -> S] : IsInjective(f)
  BY <1>1 DEF ExistsBijection, Bijection, Injection
<1>3. q = CHOOSE f \in [1 .. n -> S] : IsInjective(f)
  BY DEF SetToSeq, n
<1> HIDE DEF q
<1>4. q \in [1 .. n -> S] /\ IsInjective(q)
  BY <1>2, <1>3
<1>5. q \in Injection(1 .. n, S)
  BY <1>4 DEF Injection
<1>6. Cardinality(1 .. n) = n
  BY <1>1, FS_Interval
<1>7. q \in Surjection(1 .. n, S)
  BY <1>5, <1>6, FS_Injection DEF n
<1>8. \A x \in S : \E i \in 1 .. n : q[i] = x
  BY <1>7 DEF Surjection
<1>9. \A i, j \in 1 .. n : q[i] = q[j] => i = j
  BY <1>4 DEF IsInjective
<1> QED
  BY <1>1, <1>4, <1>8, <1>9 DEF q

(* A map of texts.                                                          *)
IsMap(h) ==
  /\ IsFiniteSet(DOMAIN h) /\ DOMAIN h \subseteq Word
  /\ h \in [DOMAIN h -> Line]

(* A line with a colon: w comes before it, and t after it.                  *)
Splits(l, w, t) ==
  /\ l \in Line /\ l # Blank /\ Len(l) # 1 /\ Len(l) = Len(t) + 1
  /\ l[1] = w /\ Tail(l) = t /\ \A i \in 1 .. Len(t) : l[i + 1] = t[i]

LEMMA HeadedLine ==
  ASSUME NEW w \in Word, NEW t \in Line
  PROVE  Splits(<<w>> \o t, w, t)
<1> DEFINE l == <<w>> \o t
<1>1. t \in Seq(Word) /\ t # <<>> /\ Len(t) \in Nat /\ Len(t) >= 1
  BY DEF Line
<1>2. /\ l \in Seq(Word) /\ Len(l) = Len(t) + 1 /\ l[1] = w
      /\ \A i \in 1 .. Len(t) : l[i + 1] = t[i]
  BY <1>1
<1> HIDE DEF l
<1>3. l \in Line /\ l # <<>>
  BY <1>1, <1>2 DEF Line
<1>4. l # Blank
  <2>1. Len(Blank) = 1
    BY DEF Blank
  <2> QED
    BY <1>1, <1>2, <2>1
<1>5. Tail(l) = t
  <2>1. Tail(l) \in Seq(Word) /\ Len(Tail(l)) = Len(t)
        /\ \A i \in 1 .. Len(t) : Tail(l)[i] = l[i + 1]
    BY <1>1, <1>2, <1>3
  <2> QED
    BY <1>1, <1>2, <2>1, SeqEqual
<1> QED
  BY <1>1, <1>2, <1>3, <1>4, <1>5 DEF l, Splits

(* H has one line for each entry of h.                                      *)
Writes(H, h, n, names) ==
  /\ H \in Seq(Line) /\ Len(H) = n /\ names \in [1 .. n -> DOMAIN h]
  /\ \A x \in DOMAIN h : \E i \in 1 .. n : names[i] = x
  /\ \A i \in 1 .. n : /\ H[i] # Blank /\ Len(H[i]) # 1
                       /\ H[i][1] = names[i] /\ Tail(H[i]) = h[names[i]]

LEMMA HeaderLinesAre ==
  ASSUME NEW h, IsMap(h)
  PROVE  \E n \in Nat : \E names : Writes(HeaderLines(h), h, n, names)
<1> DEFINE names == SetToSeq(DOMAIN h)
<1> DEFINE H == HeaderLines(h)
<1>1. PICK n \in Nat : /\ names \in [1 .. n -> DOMAIN h]
                       /\ \A x \in DOMAIN h : \E i \in 1 .. n : names[i] = x
  BY NamesInOrder DEF IsMap
<1>2. H = [i \in 1 .. n |-> <<names[i]>> \o h[names[i]]]
  BY <1>1 DEF HeaderLines
<1> HIDE DEF H, names
<1>3. \A i \in 1 .. n :
        H[i] \in Line /\ H[i] # Blank /\ Len(H[i]) # 1
        /\ H[i][1] = names[i] /\ Tail(H[i]) = h[names[i]]
  <2> SUFFICES ASSUME NEW i \in 1 .. n
               PROVE  H[i] \in Line /\ H[i] # Blank /\ Len(H[i]) # 1
                      /\ H[i][1] = names[i] /\ Tail(H[i]) = h[names[i]]
    OBVIOUS
  <2>1. names[i] \in Word /\ h[names[i]] \in Line
    BY <1>1 DEF IsMap
  <2>2. H[i] = <<names[i]>> \o h[names[i]]
    BY <1>2
  <2> QED
    <3>1. Splits(H[i], names[i], h[names[i]])
      BY <2>1, <2>2, HeadedLine
    <3> QED
      BY <3>1 DEF Splits
<1>4. H \in Seq(Line) /\ Len(H) = n
  <2>1. H \in [1 .. n -> Line]
    BY <1>2, <1>3
  <2> QED
    BY <2>1
<1> QED
  <2>1. Writes(H, h, n, names)
    BY <1>1, <1>3, <1>4 DEF Writes
  <2> QED
    BY <2>1 DEF H

(* The two parsers differ in lines without a colon only.                    *)
LEMMA SameFold ==
  ASSUME NEW raw, NEW n \in Nat, DOMAIN raw = 1 .. n,
         \A i \in 1 .. n : Len(raw[i]) # 1
  PROVE  FoldLeft(PutWhole, NoHeaders, raw)
           = FoldLeft(PutHeader, NoHeaders, raw)
<1> DEFINE P(it) == it = [s \in SUBSET (1 .. n) |-> IF s = {} THEN NoHeaders
                           ELSE PutWhole(it[s \ {Max(s)}], raw[Max(s)])]
<1> DEFINE Q(it) == it = [s \in SUBSET (1 .. n) |-> IF s = {} THEN NoHeaders
                           ELSE PutHeader(it[s \ {Max(s)}], raw[Max(s)])]
<1>1. \A it : P(it) <=> Q(it)
  <2>1. ASSUME NEW s \in SUBSET (1 .. n), s # {}
        PROVE  Len(raw[Max(s)]) # 1
    BY <2>1, MaxIsGreatest
  <2> QED
    BY <2>1 DEF PutWhole
<1>2. FoldLeft(PutWhole, NoHeaders, raw) = (CHOOSE it : P(it))[1 .. n]
  BY DEF FoldLeft, MapThenFoldSet
<1>3. FoldLeft(PutHeader, NoHeaders, raw) = (CHOOSE it : Q(it))[1 .. n]
  BY DEF FoldLeft, MapThenFoldSet
<1>4. (CHOOSE it : P(it)) = (CHOOSE it : Q(it))
  <2> HIDE DEF P, Q
  <2> QED
    BY <1>1, Zenon
<1> QED
  BY <1>2, <1>3, <1>4

(* The lines L say what is in h.                                            *)
Says(L, h, D, R, n, names) ==
  /\ h \in [D -> R] /\ names \in [1 .. n -> D] /\ DOMAIN L = 1 .. n
  /\ \A x \in D : \E i \in 1 .. n : names[i] = x
  /\ \A i \in 1 .. n : L[i][1] = names[i] /\ Tail(L[i]) = h[names[i]]

LEMMA LinesRead ==
  ASSUME NEW L, NEW h, NEW D, NEW R, NEW n \in Nat, NEW names,
         Says(L, h, D, R, n, names)
  PROVE  FoldLeft(PutHeader, NoHeaders, L) = h
<1>0. /\ h \in [D -> R] /\ names \in [1 .. n -> D] /\ DOMAIN L = 1 .. n
      /\ \A x \in D : \E i \in 1 .. n : names[i] = x
      /\ \A i \in 1 .. n : L[i][1] = names[i] /\ Tail(L[i]) = h[names[i]]
  BY DEF Says
<1> DEFINE V == UNION {[S -> R] : S \in SUBSET D}
<1>1. \A i \in 1 .. n : \A v :
        PutHeader(v, L[i]) = With(v, names[i], h[names[i]])
  BY <1>0 DEF PutHeader, ValueOf
<1>2. NoHeaders \in V
  <2>1. NoHeaders \in [{} -> R]
    BY DEF NoHeaders
  <2>2. {} \in SUBSET D
    OBVIOUS
  <2> QED
    BY <2>1, <2>2
<1>3. ASSUME NEW v \in V, NEW i \in 1 .. n
      PROVE  PutHeader(v, L[i]) \in V
  <2>1. PICK S \in SUBSET D : v \in [S -> R]
    OBVIOUS
  <2>2. names[i] \in D /\ h[names[i]] \in R
    BY <1>0
  <2> DEFINE w == With(v, names[i], h[names[i]])
  <2>3. w \in [{names[i]} \cup S -> R]
    BY <2>1, <2>2 DEF With
  <2>4. {names[i]} \cup S \in SUBSET D
    BY <2>2
  <2>5. PutHeader(v, L[i]) = w
    BY <1>1
  <2> HIDE DEF w
  <2> QED
    BY <2>3, <2>4, <2>5
<1> HIDE DEF V
<1>5. PICK G \in [0 .. n -> V] : HeaderSteps(G, L, n)
  <2>1. \A v \in V, i \in 1 .. n : PutHeader(v, L[i]) \in V
    BY <1>3
  <2> QED
    BY <1>0, <1>2, <2>1, FoldOfHeaders
<1> DEFINE Upto(i) == {names[k] : k \in 1 .. i}
<1> DEFINE T == {i \in 0 .. n : G[i] = [x \in Upto(i) |-> h[x]]}
<1>6. 0 \in T
  <2>1. Upto(0) = {}
    OBVIOUS
  <2>2. G[0] = [x \in {} |-> Blank]
    BY <1>5 DEF NoHeaders, HeaderSteps
  <2>3. [x \in {} |-> Blank] = [x \in {} |-> h[x]]
    OBVIOUS
  <2>4. G[0] = [x \in Upto(0) |-> h[x]]
    BY ONLY <2>1, <2>2, <2>3
  <2> QED
    BY <2>4
<1>7. ASSUME NEW i \in 1 .. n, i - 1 \in T
      PROVE  i \in T
  <2>1. G[i] = With(G[i - 1], names[i], h[names[i]])
    <3>1. G[i] = PutHeader(G[i - 1], L[i])
      BY <1>5, ZenonT(30) DEF HeaderSteps
    <3> QED
      BY <1>1, <3>1
  <2>2. Upto(i) = {names[i]} \cup Upto(i - 1)
    <3>1. 1 .. i = (1 .. i - 1) \cup {i}
      OBVIOUS
    <3> QED
      BY <3>1
  <2> HIDE DEF Upto
  <2>3. G[i - 1] = [x \in Upto(i - 1) |-> h[x]]
    BY <1>7
  <2>4. DOMAIN G[i - 1] = Upto(i - 1)
    BY <2>3
  <2>5. G[i] = [x \in Upto(i) |-> IF x = names[i] THEN h[names[i]]
                                 ELSE G[i - 1][x]]
    BY <2>1, <2>2, <2>4 DEF With
  <2>6. \A x \in Upto(i) : x # names[i] => G[i - 1][x] = h[x]
    BY <2>2, <2>3
  <2>7. G[i] = [x \in Upto(i) |-> h[x]]
    BY <2>5, <2>6
  <2> QED
    BY <2>7
<1>8. G[n] = [x \in Upto(n) |-> h[x]]
  <2> HIDE DEF T
  <2>1. \A i \in 1 .. n : i - 1 \in T => i \in T
    BY <1>7
  <2>2. n \in T
    BY ONLY n \in Nat, <1>6, <2>1, LastGoodIndex
  <2> QED
    BY <2>2 DEF T
<1>9. G[n] = h
  <2>1. \A x \in D : x \in Upto(n)
    BY <1>0
  <2>2. \A x \in Upto(n) : x \in D
    BY <1>0
  <2>3. Upto(n) = D
    BY <2>1, <2>2
  <2> HIDE DEF Upto
  <2> QED
    BY <1>0, <1>8, <2>3
<1> QED
  BY <1>5, <1>9 DEF HeaderSteps

(* The lines as the server trims them.                                      *)
TrimmedLines(lines) == [i \in DOMAIN lines |-> TrimmedLine(lines[i])]

LEMMA TextKeepsLength ==
  ASSUME NEW S, NEW t \in Seq(S), t # <<>>
  PROVE  /\ TrimText(t) = [i \in 1 .. Len(t) |-> TrimText(t)[i]]
         /\ TrimText(t) \in Seq({TrimText(t)[i] : i \in 1 .. Len(t)})
<1>1. DOMAIN t = 1 .. Len(t) /\ Len(t) \in Nat
  OBVIOUS
<1> DEFINE led == LeadOff(t)
<1>2. led = [i \in 1 .. Len(t) |-> led[i]] /\ Len(led) = Len(t)
  <2>1. led = [i \in 1 .. Len(t) |-> IF i = 1 THEN LTrim(t[1]) ELSE t[i]]
    BY <1>1 DEF LeadOff
  <2> HIDE DEF led
  <2>2. led \in [1 .. Len(t) -> {led[i] : i \in 1 .. Len(t)}]
    BY <2>1
  <2>3. Len(led) = Len(t)
    BY <1>1, <2>2
  <2> QED
    BY <2>1, <2>3
<1> HIDE DEF led
<1> DEFINE u == TrimText(t)
<1>3. u = [i \in 1 .. Len(t) |-> u[i]]
  BY <1>2 DEF TrimText, TrailOff, led
<1> HIDE DEF u
<1>4. u \in [1 .. Len(t) -> {u[i] : i \in 1 .. Len(t)}]
  BY <1>3
<1>5. u \in Seq({u[i] : i \in 1 .. Len(t)})
  BY <1>1, <1>4
<1> QED
  BY <1>3, <1>5 DEF u

LEMMA TrimmedLineIs ==
  ASSUME NEW l, NEW t \in Line, Tail(l) = t, NEW w, l[1] = w, RTrim(LTrim(w)) = w
  PROVE  TrimmedLine(l)[1] = w /\ Tail(TrimmedLine(l)) = TrimText(t)
<1> DEFINE u == TrimText(t)
<1>1. TrimmedLine(l) = <<w>> \o u
  BY DEF TrimmedLine
<1>2. PICK S : u \in Seq(S)
  BY TextKeepsLength DEF Line
<1> HIDE DEF u
<1> DEFINE r == <<w>> \o u
<1>3. /\ r \in Seq({w} \cup S) /\ Len(r) = Len(u) + 1 /\ r[1] = w
      /\ \A i \in 1 .. Len(u) : r[i + 1] = u[i]
  <2>1. u \in Seq({w} \cup S) /\ <<w>> \in Seq({w} \cup S)
    BY <1>2
  <2> QED
    BY <2>1
<1> HIDE DEF r
<1>4. Tail(r) = u
  <2>1. /\ Tail(r) \in Seq({w} \cup S) /\ Len(Tail(r)) = Len(u)
        /\ \A i \in 1 .. Len(u) : Tail(r)[i] = r[i + 1]
    BY <1>2, <1>3
  <2> QED
    BY <1>2, <1>3, <2>1, SeqEqual
<1> QED
  BY <1>1, <1>3, <1>4 DEF r, u

(* No name of a header begins or ends with a blank.                         *)
NamesAreTrim(h) == \A x \in DOMAIN h : RTrim(LTrim(x)) = x

(* What the two parsers make of these lines.                                *)
LEMMA HeadersRead ==
  ASSUME NEW h, IsMap(h)
  PROVE  /\ FoldLeft(PutWhole, NoHeaders, HeaderLines(h)) = h
         /\ NamesAreTrim(h)
              => FoldLeft(PutHeader, NoHeaders, TrimmedLines(HeaderLines(h)))
                   = Trimmed(h)
<1> DEFINE H == HeaderLines(h)
<1>n. PICK n \in Nat : \E names :
        Writes(H, h, n, names)
  BY HeaderLinesAre
<1>0. PICK names :
        Writes(H, h, n, names)
  BY <1>n
<1>1. /\ H \in Seq(Line) /\ Len(H) = n /\ names \in [1 .. n -> DOMAIN h]
      /\ \A x \in DOMAIN h : \E i \in 1 .. n : names[i] = x
      /\ \A i \in 1 .. n : /\ H[i] # Blank /\ Len(H[i]) # 1
                           /\ H[i][1] = names[i] /\ Tail(H[i]) = h[names[i]]
  BY <1>0 DEF Writes
<1> HIDE DEF H
<1>2. DOMAIN H = 1 .. n
  BY <1>1
<1>4. FoldLeft(PutHeader, NoHeaders, H) = h
  <2>1. h \in [DOMAIN h -> Line]
    BY DEF IsMap
  <2>2. \A i \in 1 .. n : H[i][1] = names[i] /\ Tail(H[i]) = h[names[i]]
    BY <1>1
  <2>3. Says(H, h, DOMAIN h, Line, n, names)
    BY <1>1, <1>2, <2>1, <2>2 DEF Says
  <2> QED
    BY <2>3, LinesRead
<1>5. FoldLeft(PutWhole, NoHeaders, H) = FoldLeft(PutHeader, NoHeaders, H)
  <2>1. \A i \in 1 .. n : Len(H[i]) # 1
    BY <1>1
  <2> QED
    BY <1>2, <2>1, SameFold
<1>6. ASSUME NamesAreTrim(h)
      PROVE  FoldLeft(PutHeader, NoHeaders, TrimmedLines(H)) = Trimmed(h)
  <2> DEFINE L == TrimmedLines(H)
  <2> DEFINE g == Trimmed(h)
  <2>1. /\ DOMAIN L = 1 .. n
        /\ \A i \in 1 .. n : L[i] = TrimmedLine(H[i])
    BY <1>2 DEF TrimmedLines
  <2>2. /\ DOMAIN g = DOMAIN h /\ g = [x \in DOMAIN h |-> g[x]]
        /\ \A x \in DOMAIN h : g[x] = TrimText(h[x])
    BY DEF Trimmed
  <2> HIDE DEF L, g
  <2>3. ASSUME NEW i \in 1 .. n
        PROVE  L[i][1] = names[i] /\ Tail(L[i]) = g[names[i]]
    <3>1. names[i] \in DOMAIN h /\ h[names[i]] \in Line
      BY <1>1 DEF IsMap
    <3>2. RTrim(LTrim(names[i])) = names[i]
      BY <1>6, <3>1 DEF NamesAreTrim
    <3>3. H[i][1] = names[i] /\ Tail(H[i]) = h[names[i]]
      BY <1>1
    <3>4. /\ TrimmedLine(H[i])[1] = names[i]
          /\ Tail(TrimmedLine(H[i])) = TrimText(h[names[i]])
      BY <3>1, <3>2, <3>3, TrimmedLineIs
    <3> QED
      BY <2>1, <2>2, <3>1, <3>4
  <2>4. FoldLeft(PutHeader, NoHeaders, L) = g
    <3>1. \A i \in 1 .. n : L[i][1] = names[i] /\ Tail(L[i]) = g[names[i]]
      BY <2>3
    <3> DEFINE R == {g[x] : x \in DOMAIN h}
    <3>2. g \in [DOMAIN h -> R]
      BY <2>2
    <3> HIDE DEF R
    <3>3. Says(L, g, DOMAIN h, R, n, names)
      BY <1>1, <2>1, <3>1, <3>2 DEF Says
    <3> QED
      BY <3>3, LinesRead
  <2> QED
    BY <2>4 DEF L, g
<1> QED
  BY <1>4, <1>5, <1>6 DEF H

-----------------------------------------------------------------------------
(* The first and the last line of s that are not blank are a and b.         *)
Ends(s, a, b) ==
  /\ a \in 1 .. Len(s) /\ b \in 1 .. Len(s) /\ a <= b
  /\ ~IsBlank(s[a]) /\ \A i \in 1 .. Len(s) : i < a => IsBlank(s[i])
  /\ ~IsBlank(s[b]) /\ \A i \in 1 .. Len(s) : i > b => IsBlank(s[i])

LEMMA EndsExist ==
  ASSUME NEW s \in Seq(Line), NEW k \in 1 .. Len(s), ~IsBlank(s[k])
  PROVE  \E a, b : /\ Ends(s, a, b)
                   /\ SelectInSeq(s, LAMBDA l : ~IsBlank(l)) = a
                   /\ SelectLastInSeq(s, LAMBDA l : ~IsBlank(l)) = b
<1> DEFINE I == {i \in 1 .. Len(s) : ~IsBlank(s[i])}
<1>1. k \in I /\ I \subseteq 1 .. Len(s) /\ I \subseteq Nat /\ Len(s) \in Nat
  OBVIOUS
<1>2. /\ SelectInSeq(s, LAMBDA l : ~IsBlank(l)) = IF I # {} THEN Min(I) ELSE 0
      /\ SelectLastInSeq(s, LAMBDA l : ~IsBlank(l)) = IF I # {} THEN Max(I) ELSE 0
  BY DEF SelectInSeq, SelectLastInSeq
<1>3. /\ Min(I) \in I /\ \A x \in I : Min(I) <= x
      /\ Max(I) \in I /\ \A x \in I : x <= Max(I)
  <2> HIDE DEF I
  <2>1. I # {}
    BY <1>1
  <2> QED
    BY <1>1, <2>1, MinIsLeast, MaxIsGreatest
<1>4. PICK a \in I, b \in I : a = Min(I) /\ b = Max(I)
  BY <1>3
<1>5. Ends(s, a, b)
  <2>1. a <= b
    BY <1>3, <1>4
  <2>2. \A i \in 1 .. Len(s) : i < a \/ i > b => i \notin I
    <3> HIDE DEF I
    <3> QED
      BY <1>1, <1>3, <1>4
  <2> QED
    BY <2>1, <2>2 DEF Ends
<1> HIDE DEF I
<1> QED
  BY <1>1, <1>2, <1>4, <1>5

LEMMA EndsAreUnique ==
  ASSUME NEW s \in Seq(Line), NEW a, NEW b, Ends(s, a, b),
         NEW c, NEW d, Ends(s, c, d)
  PROVE  a = c /\ b = d
<1>1. a \in Nat /\ b \in Nat /\ c \in Nat /\ d \in Nat
  BY DEF Ends
<1>2. ~(a < c) /\ ~(c < a) /\ ~(b > d) /\ ~(d > b)
  BY DEF Ends
<1> QED
  BY <1>1, <1>2

LEMMA TrimIs ==
  ASSUME NEW s \in Seq(Line), NEW a, NEW b, Ends(s, a, b)
  PROVE  /\ Core(s) = SubSeq(s, a, b)
         /\ SelectLastInSeq(s, LAMBDA l : ~IsBlank(l)) = b
<1>1. a \in 1 .. Len(s) /\ ~IsBlank(s[a]) /\ DOMAIN s = 1 .. Len(s)
  BY DEF Ends
<1>2. PICK c, d : /\ Ends(s, c, d)
                  /\ SelectInSeq(s, LAMBDA l : ~IsBlank(l)) = c
                  /\ SelectLastInSeq(s, LAMBDA l : ~IsBlank(l)) = d
  BY <1>1, EndsExist
<1>3. a = c /\ b = d
  BY <1>2, EndsAreUnique
<1>4. Core(s) = SubSeq(s, SelectInSeq(s, LAMBDA l : ~IsBlank(l)),
                          SelectLastInSeq(s, LAMBDA l : ~IsBlank(l)))
  BY <1>1 DEF Core
<1> QED
  BY <1>2, <1>3, <1>4

(* Blank lines at the end make no difference.                               *)
LEMMA TrimExtended ==
  ASSUME NEW s \in Seq(Line), NEW t \in Seq(Line), Len(s) <= Len(t),
         \A i \in 1 .. Len(s) : t[i] = s[i],
         \A i \in 1 .. Len(t) : i > Len(s) => IsBlank(t[i])
  PROVE  Core(t) = Core(s)
<1>0. /\ Len(s) \in Nat /\ Len(t) \in Nat
      /\ DOMAIN s = 1 .. Len(s) /\ DOMAIN t = 1 .. Len(t)
  OBVIOUS
<1>1. CASE \A i \in 1 .. Len(s) : IsBlank(s[i])
  <2>1. \A i \in 1 .. Len(t) : IsBlank(t[i])
    BY <1>0, <1>1
  <2> QED
    BY <1>0, <1>1, <2>1 DEF Core
<1>2. ASSUME NEW k \in 1 .. Len(s), ~IsBlank(s[k])
      PROVE  Core(t) = Core(s)
  <2>1. PICK a, b : Ends(s, a, b)
    BY <1>2, EndsExist
  <2>2. Ends(t, a, b)
    BY <1>0, <2>1 DEF Ends
  <2>3. Core(s) = SubSeq(s, a, b) /\ Core(t) = SubSeq(t, a, b)
    BY <2>1, <2>2, TrimIs
  <2>4. /\ a \in Nat /\ b \in Nat /\ 1 <= a /\ a <= b
        /\ b <= Len(s) /\ b <= Len(t)
    BY <1>0, <2>1 DEF Ends
  <2>5. \A i \in a .. b : s[i] \in Line /\ t[i] = s[i]
    BY <1>0, <2>4
  <2>6. /\ SubSeq(s, a, b) \in Seq(Line) /\ Len(SubSeq(s, a, b)) = b - a + 1
        /\ \A i \in 1 .. b - a + 1 : SubSeq(s, a, b)[i] = s[a + i - 1]
    BY <2>4, PartOf
  <2>7. /\ SubSeq(t, a, b) \in Seq(Line) /\ Len(SubSeq(t, a, b)) = b - a + 1
        /\ \A i \in 1 .. b - a + 1 : SubSeq(t, a, b)[i] = t[a + i - 1]
    BY <2>4, PartOf
  <2>8. SubSeq(s, a, b) = SubSeq(t, a, b)
    <3>1. \A i \in 1 .. b - a + 1 : a + i - 1 \in a .. b
      BY <2>4
    <3>2. \A i \in 1 .. b - a + 1 : SubSeq(s, a, b)[i] = SubSeq(t, a, b)[i]
      BY <2>5, <2>6, <2>7, <3>1
    <3> QED
      BY <2>6, <2>7, <3>2, SeqEqual
  <2> QED
    BY <2>3, <2>8
<1> QED
  BY <1>1, <1>2

LEMMA BlankIsBlank == IsBlank(Blank)
<1> QED
  BY TextAssumption DEF IsBlank, Blank

LEMMA BodyTrimmed ==
  ASSUME NEW body \in Seq(Line)
  PROVE  LET B == LinesOf(body) \o <<Blank>> IN
         /\ B \in Seq(Line) /\ B \notin {<<>>, <<Blank>>}
         /\ Trim(B) = Trim(body)
<1> DEFINE lines == LinesOf(body)
<1> DEFINE B == lines \o <<Blank>>
<1>1. /\ lines \in Seq(Line) /\ lines # <<>> /\ Len(body) <= Len(lines)
      /\ \A i \in 1 .. Len(body) : lines[i] = body[i]
      /\ \A i \in 1 .. Len(lines) : i > Len(body) => lines[i] = Blank
  <2>1. CASE body = <<>>
    BY <2>1, BlankIsLine DEF LinesOf
  <2>2. CASE body # <<>>
    BY <2>2 DEF LinesOf
  <2> QED
    BY <2>1, <2>2
<1> HIDE DEF lines
<1>2. /\ B \in Seq(Line) /\ Len(B) = Len(lines) + 1
      /\ \A i \in 1 .. Len(lines) : B[i] = lines[i]
      /\ B[Len(lines) + 1] = Blank
  BY <1>1, BlankIsLine
<1> HIDE DEF B
<1>3. Len(lines) \in Nat \ {0} /\ Len(body) \in Nat
  BY <1>1
<1>4. B # <<>> /\ B # <<Blank>>
  BY <1>2, <1>3
<1>5. Core(B) = Core(body)
  <2>1. Len(body) <= Len(B)
    BY <1>1, <1>2, <1>3
  <2>2. \A i \in 1 .. Len(body) : B[i] = body[i]
    BY <1>1, <1>2, <1>3
  <2>3. \A i \in 1 .. Len(B) : i > Len(body) => B[i] = Blank
    <3> SUFFICES ASSUME NEW i \in 1 .. Len(B), i > Len(body)
                 PROVE  B[i] = Blank
      OBVIOUS
    <3>1. CASE i <= Len(lines)
      BY <1>1, <1>2, <1>3, <3>1
    <3>2. CASE i = Len(lines) + 1
      BY <1>2, <3>2
    <3> QED
      BY <1>2, <1>3, <3>1, <3>2
  <2>4. \A i \in 1 .. Len(B) : i > Len(body) => IsBlank(B[i])
    BY <2>3, BlankIsBlank
  <2> QED
    BY <1>2, <2>1, <2>2, <2>4, TrimExtended
<1> QED
  BY <1>2, <1>4, <1>5 DEF B, lines, Trim

-----------------------------------------------------------------------------
(* What is sent for a frame with these headers, B beginning after the blank *)
(* line behind them.                                                        *)
Framed(cmd, h, B) == (<< <<cmd>> >> \o HeaderLines(h) \o <<Blank>>) \o B

LEMMA FramedParts ==
  ASSUME NEW cmd \in Word, NEW h, IsMap(h), NEW B \in Seq(Line)
  PROVE  LET raw == Framed(cmd, h, B) IN
         /\ raw[1][1] = cmd /\ BodyOf(raw) = B
         /\ HeadOf(raw) = HeaderLines(h)
         /\ \A i \in DOMAIN HeaderLines(h) : Len(HeaderLines(h)[i]) # 1
<1> DEFINE H == HeaderLines(h)
<1> DEFINE top == << <<cmd>> >> \o H \o <<Blank>>
<1> DEFINE raw == top \o B
<1>n. PICK n \in Nat : \E names :
        Writes(H, h, n, names)
  BY HeaderLinesAre
<1>1. PICK names :
        Writes(H, h, n, names)
  BY <1>n
<1>2. /\ H \in Seq(Line) /\ Len(H) = n /\ DOMAIN H = 1 .. n
      /\ \A i \in 1 .. n : H[i] # Blank /\ Len(H[i]) # 1
  BY <1>1 DEF Writes
<1>3. <<cmd>> \in Line
  <2>1. <<cmd>> \in Seq(Word) /\ <<cmd>> # <<>>
    OBVIOUS
  <2> QED
    BY <2>1 DEF Line
<1> HIDE DEF H
<1>4. /\ top \in Seq(Line) /\ Len(top) = n + 2 /\ top[1] = <<cmd>>
      /\ top[n + 2] = Blank /\ \A i \in 1 .. n : top[i + 1] = H[i]
  <2> DEFINE up == << <<cmd>> >> \o H
  <2>1. /\ up \in Seq(Line) /\ Len(up) = n + 1 /\ up[1] = <<cmd>>
        /\ \A i \in 1 .. n : up[i + 1] = H[i]
    BY <1>2, <1>3
  <2> HIDE DEF up
  <2>2. LET t == up \o <<Blank>> IN
        /\ t \in Seq(Line) /\ Len(t) = n + 2 /\ t[n + 2] = Blank
        /\ \A i \in 1 .. n + 1 : t[i] = up[i]
    BY <2>1, BlankIsLine
  <2>3. \A i \in 1 .. n : i + 1 \in 1 .. n + 1
    OBVIOUS
  <2> QED
    BY <2>1, <2>2, <2>3 DEF up
<1> HIDE DEF top
<1> DEFINE m == Len(B)
<1>5. m \in Nat
  OBVIOUS
<1>6. /\ raw \in Seq(Line) /\ Len(raw) = n + 2 + m
      /\ \A i \in 1 .. n + 2 : raw[i] = top[i]
      /\ \A i \in 1 .. m : raw[n + 2 + i] = B[i]
  BY <1>4, SMTT(30)
<1> HIDE DEF raw, m
<1>7. raw[n + 2] = Blank /\ raw[1][1] = cmd
      /\ \A i \in 1 .. n : raw[i + 1] = H[i]
  <2>1. 1 \in 1 .. n + 2 /\ n + 2 \in 1 .. n + 2
        /\ \A i \in 1 .. n : i + 1 \in 1 .. n + 2
    OBVIOUS
  <2> QED
    BY <1>4, <1>6, <2>1
<1>8. HeadOf(raw) = H /\ BodyOf(raw) = B
  BY <1>2, <1>5, <1>6, <1>7, Layout, ZenonT(30) DEF m
<1>9. raw = Framed(cmd, h, B)
  BY DEF raw, top, H, Framed
<1> QED
  BY <1>2, <1>7, <1>8, <1>9 DEF H

(* What the two parsers make of it.                                         *)
LEMMA FramedParsed ==
  ASSUME NEW cmd \in Word, NEW h, IsMap(h), NEW B \in Seq(Line)
  PROVE  /\ clientParse(Framed(cmd, h, B)) = StompFrame(cmd, h, Trim(B))
         /\ NamesAreTrim(h)
              => serverParse(Framed(cmd, h, B))
                   = StompFrame(cmd, Trimmed(h),
                                IF B \in {<<>>, <<Blank>>} THEN NoBody
                                ELSE Trim(B))
<1> DEFINE raw == Framed(cmd, h, B)
<1>1. /\ raw[1][1] = cmd /\ BodyOf(raw) = B /\ HeadOf(raw) = HeaderLines(h)
      /\ \A i \in DOMAIN HeaderLines(h) : Len(HeaderLines(h)[i]) # 1
  BY FramedParts
<1>2. FoldLeft(PutWhole, NoHeaders, HeaderLines(h)) = h
  BY HeadersRead
<1>3. ASSUME NamesAreTrim(h)
      PROVE  FoldLeft(PutHeader, NoHeaders, TrimmedLines(HeaderLines(h)))
               = Trimmed(h)
  BY <1>3, HeadersRead
<1> HIDE DEF raw
<1>4. FoldLeft(PutWhole, NoHeaders, HeadOf(raw)) = h
  BY <1>1, <1>2
<1>5. clientParse(raw) = StompFrame(cmd, h, Trim(B))
  BY <1>1, <1>4 DEF clientParse
<1>6. ASSUME NamesAreTrim(h)
      PROVE  serverParse(raw)
               = StompFrame(cmd, Trimmed(h),
                            IF B \in {<<>>, <<Blank>>} THEN NoBody
                            ELSE Trim(B))
  <2>1. FoldLeft(PutHeader, NoHeaders, TrimmedLines(HeadOf(raw))) = Trimmed(h)
    BY <1>1, <1>3, <1>6
  <2> QED
    BY <1>1, <2>1 DEF serverParse, TrimmedLines
<1> QED
  BY <1>5, <1>6 DEF raw

(* What the two writers send.                                               *)
LEMMA FramesWritten ==
  ASSUME NEW cmd \in Word, NEW h, IsMap(h), NEW body \in Seq(Line)
  PROVE  LET f == StompFrame(cmd, h, body)
             B == LinesOf(body) \o <<Blank>> IN
         /\ clientToString(f) = Framed(cmd, h, B)
         /\ serverToString(f)
              = Framed(cmd, h, IF body = NoBody THEN <<>> ELSE B)
<1> DEFINE up == << <<cmd>> >> \o HeaderLines(h)
<1> DEFINE lines == LinesOf(body)
<1>1. lines \in Seq(Line) /\ <<Blank>> \in Seq(Line)
  BY BlankIsLine DEF LinesOf
<1>2. up \in Seq(Line)
  <2>n. PICK n \in Nat : \E names :
          Writes(HeaderLines(h), h, n, names)
    BY HeaderLinesAre
  <2>1. PICK names :
          Writes(HeaderLines(h), h, n, names)
    BY <2>n
  <2>2. HeaderLines(h) \in Seq(Line)
    BY <2>1 DEF Writes
  <2>3. <<cmd>> \in Line
    <3>1. <<cmd>> \in Seq(Word) /\ <<cmd>> # <<>>
      OBVIOUS
    <3> QED
      BY <3>1 DEF Line
  <2> QED
    BY <2>2, <2>3
<1> HIDE DEF up, lines
<1>3. ((up \o <<Blank>>) \o lines) \o <<Blank>>
        = (up \o <<Blank>>) \o (lines \o <<Blank>>)
  BY <1>1, <1>2
<1>4. (up \o (<<Blank>> \o lines)) \o <<Blank>>
        = ((up \o <<Blank>>) \o lines) \o <<Blank>>
  BY <1>1, <1>2
<1>5. (up \o <<>>) \o <<Blank>> = (up \o <<Blank>>) \o <<>>
  BY <1>1, <1>2
<1>6. clientToString(StompFrame(cmd, h, body))
        = ((up \o <<Blank>>) \o lines) \o <<Blank>>
  BY DEF clientToString, StompFrame, up, lines
<1>7. serverToString(StompFrame(cmd, h, body))
        = (up \o (IF body = NoBody THEN <<>> ELSE <<Blank>> \o lines))
            \o <<Blank>>
  BY DEF serverToString, StompFrame, up, lines
<1> QED
  BY <1>3, <1>4, <1>5, <1>6, <1>7 DEF Framed, up, lines

(* Every frame arrives as it was sent, up to blanks at the ends of the      *)
(* values that the server trims, and up to blanks and blank lines at the    *)
(* ends of its body, in both directions (StompFrame.toString and            *)
(* parseStompFrame of server and client): whatever its headers are, if none *)
(* of their names has a blank at an end, in whatever order a map writes     *)
(* them, and whatever lines its body has.                                   *)
THEOREM FramesSurvive ==
  ASSUME NEW cmd \in Word, NEW h, IsMap(h), NEW body \in Seq(Line)
  PROVE  LET f == StompFrame(cmd, h, body) IN
         /\ NamesAreTrim(h)
              => serverParse(clientToString(f))
                   = StompFrame(cmd, Trimmed(h), Trim(body))
         /\ clientParse(serverToString(f))
              = StompFrame(cmd, h, IF body = NoBody THEN <<>> ELSE Trim(body))
<1> DEFINE f == StompFrame(cmd, h, body)
<1> DEFINE B == LinesOf(body) \o <<Blank>>
<1>1. /\ B \in Seq(Line) /\ B \notin {<<>>, <<Blank>>} /\ Trim(B) = Trim(body)
  BY BodyTrimmed
<1>2. /\ clientToString(f) = Framed(cmd, h, B)
      /\ serverToString(f) = Framed(cmd, h, IF body = NoBody THEN <<>> ELSE B)
  BY FramesWritten
<1> HIDE DEF f, B
<1>3. ASSUME NamesAreTrim(h)
      PROVE  serverParse(Framed(cmd, h, B))
               = StompFrame(cmd, Trimmed(h), Trim(body))
  BY <1>1, <1>3, FramedParsed
<1>4. clientParse(Framed(cmd, h, B)) = StompFrame(cmd, h, Trim(body))
  BY <1>1, FramedParsed
<1>5. clientParse(Framed(cmd, h, <<>>)) = StompFrame(cmd, h, <<>>)
  <2>1. <<>> \in Seq(Line)
    OBVIOUS
  <2>2. Trim(<<>>) = <<>>
    <3>1. DOMAIN <<>> = {}
      OBVIOUS
    <3> QED
      BY <3>1 DEF Trim, Core
  <2> QED
    BY <2>1, <2>2, FramedParsed
<1> QED
  BY <1>2, <1>3, <1>4, <1>5 DEF f

-----------------------------------------------------------------------------
LEMMA TextIsLine == Text \subseteq Line
<1>1. STRING \subseteq Word
  BY DEF Word
<1>2. Seq(STRING) \subseteq Seq(Word)
  BY <1>1, SeqMonotonic
<1> QED
  BY <1>2 DEF Text, Line

LEMMA WordsAreLines ==
  ASSUME NEW v \in Word, NEW w \in Word
  PROVE  <<w>> \in Line /\ <<v, w>> \in Line
<1>1. /\ <<w>> \in Seq(Word) /\ <<w>> # <<>>
      /\ <<v, w>> \in Seq(Word) /\ <<v, w>> # <<>>
  OBVIOUS
<1> QED
  BY <1>1 DEF Line

(* The headers of the frames that are sent are maps.                        *)
LEMMA HeadersAreMaps ==
  ASSUME NEW a \in Line, NEW b \in Line, NEW c \in Line
  PROVE  /\ IsMap([destination |-> a]) /\ IsMap([receipt_id |-> a])
         /\ IsMap([message |-> a]) /\ IsMap([login |-> a, passcode |-> b])
         /\ IsMap([subscription |-> a, message_id |-> b, destination |-> c])
<1>1. HeaderNames \subseteq Word
  BY DEF Word
<1>2. /\ {"destination"} \subseteq Word /\ {"receipt_id"} \subseteq Word
      /\ {"message"} \subseteq Word /\ {"login", "passcode"} \subseteq Word
      /\ {"subscription", "message_id", "destination"} \subseteq Word
  BY <1>1 DEF HeaderNames
<1>3. /\ IsFiniteSet({"destination"}) /\ IsFiniteSet({"receipt_id"})
      /\ IsFiniteSet({"message"}) /\ IsFiniteSet({"login", "passcode"})
      /\ IsFiniteSet({"subscription", "message_id", "destination"})
  <2>1. \A x : IsFiniteSet({x})
    BY FS_Singleton
  <2>2. ASSUME NEW x, NEW y
        PROVE  IsFiniteSet({x, y})
    <3>1. IsFiniteSet({x}) /\ IsFiniteSet({y})
      BY <2>1
    <3>2. IsFiniteSet({x} \cup {y})
      BY ONLY <3>1, FS_Union
    <3>3. {x, y} = {x} \cup {y}
      OBVIOUS
    <3> QED
      BY ONLY <3>2, <3>3, Zenon
  <2>3. ASSUME NEW x, NEW y, NEW z
        PROVE  IsFiniteSet({x, y, z})
    <3>1. IsFiniteSet({x, y}) /\ IsFiniteSet({z})
      BY <2>1, <2>2
    <3>2. IsFiniteSet({x, y} \cup {z})
      BY ONLY <3>1, FS_Union
    <3>3. {x, y, z} = {x, y} \cup {z}
      OBVIOUS
    <3> QED
      BY ONLY <3>2, <3>3, Zenon
  <2> QED
    BY <2>1, <2>2, <2>3
<1>4. IsMap([destination |-> a])
  BY <1>2, <1>3 DEF IsMap
<1>5. IsMap([receipt_id |-> a])
  BY <1>2, <1>3 DEF IsMap
<1>6. IsMap([message |-> a])
  BY <1>2, <1>3 DEF IsMap
<1>7. IsMap([login |-> a, passcode |-> b])
  BY <1>2, <1>3 DEF IsMap
<1>8. IsMap([subscription |-> a, message_id |-> b, destination |-> c])
  BY <1>2, <1>3 DEF IsMap
<1> QED
  BY <1>4, <1>5, <1>6, <1>7, <1>8

-----------------------------------------------------------------------------
(* The last line of a description that is not blank, or 0.                  *)
LastLine(d) == SelectLastInSeq(d, LAMBDA l : ~IsBlank(l))

LEMMA LastLineIs ==
  ASSUME NEW d \in Seq(Line)
  PROVE  /\ LastLine(d) \in 0 .. Len(d)
         /\ LastLine(d) # 0 => ~IsBlank(d[LastLine(d)])
         /\ \A i \in 1 .. Len(d) : i > LastLine(d) => IsBlank(d[i])
<1>1. ASSUME NEW k \in 1 .. Len(d), ~IsBlank(d[k])
      PROVE  /\ LastLine(d) \in 0 .. Len(d)
             /\ LastLine(d) # 0 => ~IsBlank(d[LastLine(d)])
             /\ \A i \in 1 .. Len(d) : i > LastLine(d) => IsBlank(d[i])
  <2>1. PICK a, b : /\ Ends(d, a, b)
                    /\ SelectLastInSeq(d, LAMBDA l : ~IsBlank(l)) = b
    BY <1>1, EndsExist
  <2>2. LastLine(d) = b
    BY <2>1 DEF LastLine
  <2> QED
    BY <2>1, <2>2 DEF Ends
<1>2. CASE \A k \in 1 .. Len(d) : IsBlank(d[k])
  <2>1. {i \in 1 .. Len(d) : ~IsBlank(d[i])} = {}
    BY <1>2
  <2>2. LastLine(d) = 0
    BY <2>1 DEF LastLine, SelectLastInSeq
  <2> QED
    BY <1>2, <2>2
<1> QED
  BY <1>1, <1>2

(* Trimming a line that trims well.                                         *)
LEMMA TrailOffIs ==
  ASSUME NEW t \in Line, NEW p, p = RTrim(t[Len(t)]), p \in Word
  PROVE  /\ TrailOff(t) \in Line /\ Len(TrailOff(t)) = Len(t)
         /\ TrailOff(t)[Len(t)] = p
         /\ \A i \in 1 .. Len(t) : i # Len(t) => TrailOff(t)[i] = t[i]
<1> DEFINE n == Len(t)
<1> DEFINE u == TrailOff(t)
<1>1. /\ t \in Seq(Word) /\ n \in Nat /\ n >= 1 /\ DOMAIN t = 1 .. n
      /\ \A i \in 1 .. n : t[i] \in Word
  BY DEF Line
<1>2. u = [i \in 1 .. n |-> IF i = n THEN p ELSE t[i]]
  BY <1>1 DEF TrailOff
<1> HIDE DEF u, n
<1>3. u \in [1 .. n -> Word]
  BY <1>1, <1>2
<1>4. u \in Seq(Word) /\ Len(u) = n
  BY <1>1, <1>3
<1>5. u # <<>>
  BY <1>1, <1>4
<1>6. u \in Line
  BY <1>4, <1>5 DEF Line
<1>7. u[n] = p /\ \A i \in 1 .. n : i # n => u[i] = t[i]
  BY <1>1, <1>2
<1> QED
  BY <1>4, <1>6, <1>7 DEF n, u

LEMMA TrailOffAgain ==
  ASSUME NEW t \in Line, RTrim(t[Len(t)]) \in Word,
         RTrim(RTrim(t[Len(t)])) = RTrim(t[Len(t)])
  PROVE  TrailOff(TrailOff(t)) = TrailOff(t)
<1> DEFINE n == Len(t)
<1> DEFINE u == TrailOff(t)
<1> DEFINE p == RTrim(t[Len(t)])
<1>1. u \in Line /\ Len(u) = n /\ u[n] = p
  BY TrailOffIs
<1>2. RTrim(p) = p
  OBVIOUS
<1> HIDE DEF u, n, p
<1>3. TrailOff(u) = [u EXCEPT ![n] = p]
  BY <1>1, <1>2 DEF TrailOff
<1>4. u \in Seq(Word)
  BY <1>1 DEF Line
<1>5. [u EXCEPT ![n] = p] = u
  BY <1>1, <1>4
<1> QED
  BY <1>3, <1>5 DEF u

LEMMA TrailOffNotBlank ==
  ASSUME NEW t \in Line, RTrim(t[Len(t)]) \in Word, ~IsBlank(t),
         LTrim(t[Len(t)]) # "" => LTrim(RTrim(t[Len(t)])) # ""
  PROVE  ~IsBlank(TrailOff(t))
<1>1. /\ Len(TrailOff(t)) = Len(t)
      /\ TrailOff(t)[Len(t)] = RTrim(t[Len(t)])
  BY TrailOffIs
<1> QED
  BY <1>1 DEF IsBlank

LEMMA LeadOffIsSame ==
  ASSUME NEW l, NEW w, NEW t, Splits(l, w, t), LTrim(w) = w
  PROVE  LeadOff(l) = l
<1>1. l \in Seq(Word) /\ l[1] = w
  BY DEF Splits, Line
<1>2. LeadOff(l) = [l EXCEPT ![1] = w]
  BY <1>1 DEF LeadOff
<1>3. [l EXCEPT ![1] = w] = l
  BY <1>1
<1> QED
  BY <1>2, <1>3

LEMMA EndsOffIs ==
  ASSUME NEW c \in Seq(Line), c # <<>>, LeadOff(c[1]) = c[1],
         NEW l \in Line, TrailOff(c[Len(c)]) = l
  PROVE  /\ EndsOff(c) \in Seq(Line) /\ Len(EndsOff(c)) = Len(c)
         /\ EndsOff(c)[Len(c)] = l
         /\ \A i \in 1 .. Len(c) : i # Len(c) => EndsOff(c)[i] = c[i]
<1> DEFINE n == Len(c)
<1>1. /\ n \in Nat /\ n >= 1 /\ DOMAIN c = 1 .. n
      /\ \A i \in 1 .. n : c[i] \in Line
  OBVIOUS
<1>2. [c EXCEPT ![1] = LeadOff(c[1])] = c
  OBVIOUS
<1>3. EndsOff(c) = [c EXCEPT ![n] = TrailOff(c[n])]
  BY <1>2 DEF EndsOff
<1> DEFINE u == EndsOff(c)
<1>4. u = [i \in 1 .. n |-> IF i = n THEN l ELSE c[i]]
  BY <1>1, <1>3
<1> HIDE DEF u, n
<1>5. u \in [1 .. n -> Line]
  BY <1>1, <1>4
<1>6. u \in Seq(Line) /\ Len(u) = n
  BY <1>1, <1>5
<1>7. u[n] = l /\ \A i \in 1 .. n : i # n => u[i] = c[i]
  BY <1>1, <1>4
<1> QED
  BY <1>6, <1>7 DEF u, n

(* What is assumed of strings, for the texts of one report.                 *)
HasPlainText(e) ==
  /\ \A p \in PartsOf(e.name) : TrimsWell(p)
  /\ \A i \in DOMAIN e.description :
       \A p \in PartsOf(e.description[i]) : TrimsWell(p)

(* What a last line that trims well becomes.                                *)
LEMMA LineTrims ==
  ASSUME NEW e, IsReport(e), HasPlainText(e), NEW i \in 1 .. Len(e.description)
  PROVE  LET l == e.description[i] IN
         /\ TrailOff(l) \in Line /\ TrailOff(TrailOff(l)) = TrailOff(l)
         /\ ~IsBlank(l) => ~IsBlank(TrailOff(l))
<1> DEFINE l == e.description[i]
<1> DEFINE p == l[Len(l)]
<1>1. l \in Text /\ i \in DOMAIN e.description
  BY DEF IsReport
<1>2. l \in Line
  BY <1>1, TextIsLine
<1>3. p \in PartsOf(l)
  <2>1. Len(l) \in DOMAIN l
    BY <1>1 DEF Text
  <2> QED
    BY <2>1 DEF PartsOf
<1>4. TrimsWell(p)
  BY <1>1, <1>3 DEF HasPlainText
<1> HIDE DEF l
<1>5. /\ RTrim(p) \in Word /\ RTrim(RTrim(p)) = RTrim(p)
      /\ LTrim(p) # "" => LTrim(RTrim(p)) # ""
  BY <1>4 DEF TrimsWell, Word
<1>6. TrailOff(l) \in Line
  BY <1>2, <1>5, TrailOffIs
<1>7. TrailOff(TrailOff(l)) = TrailOff(l)
  BY <1>2, <1>5, TrailOffAgain
<1>8. ~IsBlank(l) => ~IsBlank(TrailOff(l))
  BY <1>2, <1>5, TrailOffNotBlank
<1> QED
  BY <1>6, <1>7, <1>8 DEF l

LEMMA TrimEndIs ==
  ASSUME NEW e, IsReport(e), HasPlainText(e), NEW m, m = LastLine(e.description)
  PROVE  LET d == TrimEnd(e.description) IN
         /\ d \in Seq(Line) /\ Len(d) = m
         /\ \A i \in 1 .. m : i # m => d[i] = e.description[i]
         /\ m # 0 => d[m] = TrailOff(e.description[m])
<1> DEFINE r == e.description
<1> DEFINE d == TrimEnd(r)
<1>1. r \in Seq(Line)
  <2>1. Seq(Text) \subseteq Seq(Line)
    BY TextIsLine, SeqMonotonic
  <2> QED
    BY <2>1 DEF IsReport
<1>2. m \in 0 .. Len(r) /\ m \in Nat
  BY <1>1, LastLineIs
<1>3. \A i \in 1 .. Len(r) : r[i] \in Line /\ TrailOff(r[i]) \in Line
  BY <1>1, LineTrims
<1>4. d = [i \in 1 .. m |-> IF i = m THEN TrailOff(r[i]) ELSE r[i]]
  BY DEF TrimEnd, LastLine
<1> HIDE DEF d, r
<1>5. d \in [1 .. m -> Line]
  BY <1>2, <1>3, <1>4
<1>6. d \in Seq(Line) /\ Len(d) = m
  BY <1>2, <1>5
<1> QED
  BY <1>2, <1>4, <1>6 DEF d, r

(* The body that getBodyFromEvent writes: the fields, the n entries in the  *)
(* order of names, and the lines d of the description.                      *)
FieldLines(e) ==
  << <<"user">> \o e.owner, <<"city">> \o e.city, <<"event name">> \o e.name,
     <<"date time">> \o DateText(e.date), <<"general information">> \o Blank >>

Describes(b, e, n, names, d) ==
  /\ b \in Seq(Line) /\ Len(b) >= n + 6 + Len(d)
  /\ names \in [1 .. n -> DOMAIN e.general]
  /\ \A x \in DOMAIN e.general : \E i \in 1 .. n : names[i] = x
  /\ \A i \in 1 .. 5 : b[i] = FieldLines(e)[i]
  /\ \A i \in 1 .. n : b[5 + i] = Entry(e, names[i])
  /\ b[n + 6] = <<"description">> \o Blank
  /\ \A i \in 1 .. Len(d) : b[n + 6 + i] = d[i]

(* What is assumed of strings, for the keys of one report.                  *)
HasPlainKeys(e) ==
  \A key \in DOMAIN e.general :
    /\ Indented(key) \in STRING \ (Fields \cup {""})
    /\ WithoutFirst(Indented(key)) = key

LEMMA FieldLinesAre ==
  ASSUME NEW e, IsReport(e)
  PROVE  FieldLines(e) \in Seq(Line) /\ Len(FieldLines(e)) = 5
<1>1. \A w \in Word, t \in Line : <<w>> \o t \in Line
  BY HeadedLine DEF Splits
<1>2. e.owner \in Line /\ e.city \in Line /\ e.name \in Line
  BY TextIsLine DEF IsReport
<1>3. \A i \in 1 .. 10 : Digit[i] \in Word
  BY DEF Word, Words
<1>4. DateText(e.date) \in Line
  <2>1. e.date + 1 \in 1 .. 10
    BY DEF IsReport, Dates
  <2> QED
    BY <1>3, <2>1, WordsAreLines DEF DateText
<1>5. Fields \subseteq Word /\ "" \in Word
  BY DEF Word, Words
<1>6. /\ "user" \in Word /\ "city" \in Word /\ "event name" \in Word
      /\ "date time" \in Word /\ "general information" \in Word
  BY <1>5 DEF Fields
<1>7. <<"general information">> \o Blank \in Line
  BY <1>1, <1>6, BlankIsLine
<1> DEFINE l1 == <<"user">> \o e.owner
           l2 == <<"city">> \o e.city
           l3 == <<"event name">> \o e.name
           l4 == <<"date time">> \o DateText(e.date)
           l5 == <<"general information">> \o Blank
<1>8. l1 \in Line /\ l2 \in Line /\ l3 \in Line /\ l4 \in Line /\ l5 \in Line
  BY <1>1, <1>2, <1>4, <1>6, <1>7
<1>9. FieldLines(e) = <<l1, l2, l3, l4, l5>>
  BY DEF FieldLines
<1> HIDE DEF l1, l2, l3, l4, l5
<1> QED
  BY <1>8, <1>9

-----------------------------------------------------------------------------
(* The lines of b are those of s and then those of t.                       *)
Joins(b, s, t) ==
  /\ b \in Seq(Line) /\ Len(b) = Len(s) + Len(t)
  /\ \A i \in 1 .. Len(s) : b[i] = s[i]
  /\ \A i \in 1 .. Len(t) : b[Len(s) + i] = t[i]

LEMMA Joined ==
  ASSUME NEW s \in Seq(Line), NEW t \in Seq(Line)
  PROVE  Joins(s \o t, s, t)
<1> QED
  BY DEF Joins

LEMMA OneLine ==
  ASSUME NEW S, NEW x \in S
  PROVE  <<x>> \in Seq(S) /\ Len(<<x>>) = 1 /\ <<x>>[1] = x
<1> QED
  OBVIOUS

LEMMA DescriptionLine == <<"description">> \o Blank \in Line
<1>1. "description" \in Word
  BY DEF Fields, Word
<1> QED
  BY <1>1, BlankIsLine, HeadedLine DEF Splits

(* Only blank lines follow the description.                                 *)
EndsBlank(b, k) == \A i \in 1 .. Len(b) : i > k => b[i] = Blank

LEMMA BodyDescribes ==
  ASSUME NEW e, IsReport(e), HasPlainKeys(e)
  PROVE  \E n \in Nat : \E names :
           /\ Describes(getBodyFromEvent(e), e, n, names, e.description)
           /\ EndsBlank(getBodyFromEvent(e), n + 6 + Len(e.description))
<1> DEFINE names == SetToSeq(DOMAIN e.general)
<1> DEFINE d == e.description
<1> DEFINE F == FieldLines(e)
<1> DEFINE E == [i \in DOMAIN names |-> Entry(e, names[i])]
<1> DEFINE D == << <<"description">> \o Blank >>
<1> DEFINE L == LinesOf(d)
<1>1. PICK n \in Nat : /\ names \in [1 .. n -> DOMAIN e.general]
                       /\ \A x \in DOMAIN e.general :
                            \E i \in 1 .. n : names[i] = x
  BY NamesInOrder DEF IsReport
<1> HIDE DEF names
<1>2. \A i \in 1 .. n : Entry(e, names[i]) \in Line
  <2> SUFFICES ASSUME NEW i \in 1 .. n
               PROVE  Entry(e, names[i]) \in Line
    OBVIOUS
  <2>1. names[i] \in DOMAIN e.general
    BY <1>1
  <2>2. Indented(names[i]) \in Word
    BY <2>1 DEF HasPlainKeys, Word
  <2>3. e.general[names[i]] \in Line
    BY <2>1, TextIsLine DEF IsReport
  <2> QED
    BY <2>2, <2>3, HeadedLine DEF Entry, Splits
<1>3. /\ E \in Seq(Line) /\ Len(E) = n
      /\ \A i \in 1 .. n : E[i] = Entry(e, names[i])
  <2>1. E = [i \in 1 .. n |-> Entry(e, names[i])]
    BY <1>1
  <2> HIDE DEF E
  <2>2. E \in [1 .. n -> Line]
    BY <1>2, <2>1
  <2> QED
    BY <2>1, <2>2
<1>4. F \in Seq(Line) /\ Len(F) = 5
  BY FieldLinesAre
<1>5. /\ D \in Seq(Line) /\ Len(D) = 1 /\ D[1] = <<"description">> \o Blank
  BY DescriptionLine, OneLine
<1>6. d \in Seq(Line)
  <2>1. Seq(Text) \subseteq Seq(Line)
    BY TextIsLine, SeqMonotonic
  <2> QED
    BY <2>1 DEF IsReport
<1> HIDE DEF d
<1>7. /\ L \in Seq(Line) /\ Len(d) <= Len(L)
      /\ \A i \in 1 .. Len(d) : L[i] = d[i]
      /\ \A i \in 1 .. Len(L) : i > Len(d) => L[i] = Blank
  <2>1. CASE d = <<>>
    BY <2>1, BlankIsLine DEF LinesOf
  <2>2. CASE d # <<>>
    BY <1>6, <2>2 DEF LinesOf
  <2> QED
    BY <2>1, <2>2
<1> DEFINE b == (((F \o E) \o D) \o L) \o <<Blank>>
<1>8. b = getBodyFromEvent(e)
  BY DEF getBodyFromEvent, FieldLines, names, d
<1> HIDE DEF F, E, D, L
<1> DEFINE f1 == F \o E
<1>9. /\ f1 \in Seq(Line) /\ Len(f1) = 5 + n
      /\ \A i \in 1 .. 5 : f1[i] = F[i]
      /\ \A i \in 1 .. n : f1[5 + i] = E[i]
  <2>1. F \in Seq(Line) /\ E \in Seq(Line)
    BY <1>3, <1>4
  <2>2. Joins(f1, F, E)
    BY <2>1, Joined
  <2> HIDE DEF f1
  <2> QED
    BY <1>3, <1>4, <2>2 DEF Joins
<1> HIDE DEF f1
<1> DEFINE f2 == f1 \o D
<1>10. /\ f2 \in Seq(Line) /\ Len(f2) = n + 6
       /\ \A i \in 1 .. 5 + n : f2[i] = f1[i]
       /\ f2[n + 6] = D[1]
  <2>1. /\ f2 \in Seq(Line) /\ Len(f2) = Len(f1) + Len(D)
        /\ \A i \in 1 .. Len(f1) : f2[i] = f1[i]
        /\ \A i \in 1 .. Len(D) : f2[Len(f1) + i] = D[i]
    <3>1. f1 \in Seq(Line) /\ D \in Seq(Line)
      BY <1>5, <1>9
    <3>2. Joins(f2, f1, D)
      BY <3>1, Joined
    <3> QED
      BY <3>2 DEF Joins
  <2> HIDE DEF f2
  <2>2. 1 \in 1 .. Len(D) /\ Len(f1) + 1 = n + 6
    <3>1. Len(D) = 1 /\ Len(f1) = 5 + n
      BY <1>5, <1>9
    <3> QED
      BY <3>1
  <2> QED
    BY <1>5, <1>9, <2>1, <2>2
<1> HIDE DEF f2
<1> DEFINE f3 == f2 \o L
<1>11. /\ f3 \in Seq(Line) /\ Len(f3) = n + 6 + Len(L)
       /\ \A i \in 1 .. n + 6 : f3[i] = f2[i]
       /\ \A i \in 1 .. Len(L) : f3[n + 6 + i] = L[i]
  <2>1. /\ f3 \in Seq(Line) /\ Len(f3) = Len(f2) + Len(L)
        /\ \A i \in 1 .. Len(f2) : f3[i] = f2[i]
        /\ \A i \in 1 .. Len(L) : f3[Len(f2) + i] = L[i]
    <3>1. f2 \in Seq(Line) /\ L \in Seq(Line)
      BY <1>7, <1>10
    <3>2. Joins(f3, f2, L)
      BY <3>1, Joined
    <3> QED
      BY <3>2 DEF Joins
  <2> HIDE DEF f3
  <2> QED
    BY <1>10, <2>1
<1> HIDE DEF f3
<1> DEFINE F4 == <<Blank>>
<1>12. /\ b \in Seq(Line) /\ Len(b) = n + 6 + Len(L) + 1
       /\ \A i \in 1 .. n + 6 + Len(L) : b[i] = f3[i]
       /\ b[n + 6 + Len(L) + 1] = Blank
  <2>1. b = f3 \o F4
    BY DEF f3, f2, f1
  <2> HIDE DEF b
  <2>2. F4 \in Seq(Line) /\ Len(F4) = 1 /\ F4[1] = Blank
    BY BlankIsLine, OneLine
  <2> HIDE DEF F4
  <2>3. /\ b \in Seq(Line) /\ Len(b) = Len(f3) + Len(F4)
        /\ \A i \in 1 .. Len(f3) : b[i] = f3[i]
        /\ \A i \in 1 .. Len(F4) : b[Len(f3) + i] = F4[i]
    <3>1. f3 \in Seq(Line) /\ F4 \in Seq(Line)
      BY <1>11, <2>1, <2>2
    <3>2. Joins(b, f3, F4)
      BY <3>1, <2>1, Joined
    <3> QED
      BY <3>2 DEF Joins
  <2>4. 1 \in 1 .. Len(F4)
    BY <2>2
  <2> QED
    BY <1>11, <2>2, <2>3, <2>4
<1> HIDE DEF b
<1>13. Len(d) \in Nat /\ Len(L) \in Nat /\ Len(d) <= Len(L)
  BY <1>6, <1>7
<1>14. \A i \in 1 .. 5 : b[i] = F[i]
  <2>1. \A i \in 1 .. 5 : /\ i \in 1 .. 5 + n /\ i \in 1 .. n + 6
                          /\ i \in 1 .. n + 6 + Len(L)
    BY <1>13
  <2> QED
    BY <1>9, <1>10, <1>11, <1>12, <2>1
<1>15. \A i \in 1 .. n : b[5 + i] = Entry(e, names[i])
  <2>1. \A i \in 1 .. n : /\ 5 + i \in 1 .. 5 + n /\ 5 + i \in 1 .. n + 6
                          /\ 5 + i \in 1 .. n + 6 + Len(L)
    BY <1>13
  <2> QED
    BY <1>3, <1>9, <1>10, <1>11, <1>12, <2>1
<1>16. b[n + 6] = <<"description">> \o Blank
  <2>1. n + 6 \in 1 .. n + 6 /\ n + 6 \in 1 .. n + 6 + Len(L)
    BY <1>13
  <2> QED
    BY <1>5, <1>10, <1>11, <1>12, <2>1
<1>17. \A i \in 1 .. Len(L) : b[n + 6 + i] = L[i]
  <2>1. \A i \in 1 .. Len(L) : n + 6 + i \in 1 .. n + 6 + Len(L)
    BY <1>13
  <2> QED
    BY <1>11, <1>12, <2>1
<1>18. \A i \in 1 .. Len(d) : b[n + 6 + i] = d[i]
  <2>1. \A i \in 1 .. Len(d) : i \in 1 .. Len(L)
    BY <1>13
  <2> QED
    BY <1>7, <1>17, <2>1
<1>19. EndsBlank(b, n + 6 + Len(d))
  <2> SUFFICES ASSUME NEW i \in 1 .. Len(b), i > n + 6 + Len(d)
               PROVE  b[i] = Blank
    BY DEF EndsBlank
  <2>1. CASE i = n + 6 + Len(L) + 1
    BY <1>12, <2>1
  <2>2. CASE i # n + 6 + Len(L) + 1
    <3> DEFINE j == i - (n + 6)
    <3>1. j \in 1 .. Len(L) /\ j > Len(d) /\ i = n + 6 + j
      BY <1>12, <1>13, <2>2
    <3> HIDE DEF j
    <3>2. b[n + 6 + j] = L[j] /\ L[j] = Blank
      BY <1>7, <1>17, <3>1
    <3> QED
      BY <3>1, <3>2
  <2> QED
    BY <2>1, <2>2
<1>20. Describes(b, e, n, names, d)
  <2>1. Len(b) >= n + 6 + Len(d)
    BY <1>12, <1>13
  <2> QED
    BY <1>1, <1>12, <1>14, <1>15, <1>16, <1>18, <2>1 DEF Describes, F, d
<1> QED
  BY <1>8, <1>19, <1>20 DEF d

-----------------------------------------------------------------------------
(* The body of a report as it is trimmed.                                   *)
LEMMA BodyTrims ==
  ASSUME NEW e, IsReport(e), HasPlainKeys(e), HasPlainText(e)
  PROVE  LET t == Trim(getBodyFromEvent(e))
             d == TrimEnd(e.description) IN
         /\ \E n \in Nat : \E names :
              Describes(t, e, n, names, d) /\ Len(t) = n + 6 + Len(d)
         /\ t # NoBody /\ Trim(t) = t
<1> DEFINE b == getBodyFromEvent(e)
<1> DEFINE d == e.description
<1> DEFINE m == LastLine(d)
<1>n. PICK n \in Nat : \E names :
        /\ Describes(b, e, n, names, d)
        /\ EndsBlank(b, n + 6 + Len(d))
  BY BodyDescribes
<1>1. PICK names :
        /\ Describes(b, e, n, names, d)
        /\ EndsBlank(b, n + 6 + Len(d))
  BY <1>n
<1>2. d \in Seq(Line)
  <2>1. Seq(Text) \subseteq Seq(Line)
    BY TextIsLine, SeqMonotonic
  <2> QED
    BY <2>1 DEF IsReport
<1>3. /\ m \in 0 .. Len(d)
      /\ m # 0 => ~IsBlank(d[m])
      /\ \A i \in 1 .. Len(d) : i > m => IsBlank(d[i])
  BY <1>2, LastLineIs
<1>4. Splits(FieldLines(e)[1], "user", e.owner)
  <2>1. "user" \in Word /\ e.owner \in Line
    BY TextIsLine DEF Word, Fields, IsReport
  <2>2. FieldLines(e)[1] = <<"user">> \o e.owner
    BY DEF FieldLines
  <2> QED
    BY <2>1, <2>2, HeadedLine
<1> DEFINE D == <<"description">> \o Blank
<1>5. D \in Line /\ ~IsBlank(D) /\ TrailOff(D) = D
  <2>1. "description" \in Word
    BY DEF Fields, Word
  <2>2. Splits(D, "description", Blank)
    BY <2>1, BlankIsLine, HeadedLine
  <2> HIDE DEF D
  <2>3. D \in Line /\ D \in Seq(Word)
    BY <2>2 DEF Splits, Line
  <2>4. Len(Blank) = 1 /\ RTrim(Blank[1]) = Blank[1]
    BY TextAssumption DEF Blank
  <2>5. Len(D) = 2 /\ D[2] = Blank[1]
    <3>1. /\ Len(D) = Len(Blank) + 1
          /\ \A i \in 1 .. Len(Blank) : D[i + 1] = Blank[i]
      BY <2>2 DEF Splits
    <3>2. 1 \in 1 .. Len(Blank)
      BY <2>4
    <3> QED
      BY <2>4, <3>1, <3>2
  <2>6. ~IsBlank(D)
    BY <2>5 DEF IsBlank
  <2>7. TrailOff(D) = [D EXCEPT ![2] = D[2]]
    BY <2>4, <2>5 DEF TrailOff
  <2>8. [D EXCEPT ![2] = D[2]] = D
    BY <2>3, <2>5
  <2> QED
    BY <2>3, <2>6, <2>7, <2>8
<1>e. LET r == TrimEnd(d) IN
      /\ r \in Seq(Line) /\ Len(r) = m
      /\ \A i \in 1 .. m : i # m => r[i] = d[i]
      /\ m # 0 => r[m] = TrailOff(d[m])
  BY TrimEndIs
<1>f. \A i \in 1 .. Len(d) :
        /\ TrailOff(d[i]) \in Line
        /\ TrailOff(TrailOff(d[i])) = TrailOff(d[i])
        /\ ~IsBlank(d[i]) => ~IsBlank(TrailOff(d[i]))
  BY LineTrims
<1> HIDE DEF b, d, m, D
<1> DEFINE k == n + 6 + m
<1>6. /\ b \in Seq(Line) /\ Len(b) >= n + 6 + Len(d)
      /\ \A i \in 1 .. 5 : b[i] = FieldLines(e)[i]
      /\ \A i \in 1 .. n : b[5 + i] = Entry(e, names[i])
      /\ b[n + 6] = D
      /\ \A i \in 1 .. Len(d) : b[n + 6 + i] = d[i]
  BY <1>1 DEF Describes, d, D
<1>7. m \in Nat /\ Len(d) \in Nat /\ Len(b) \in Nat /\ m <= Len(d)
  <2>1. Len(d) \in Nat
    BY <1>2
  <2>2. Len(b) \in Nat
    BY <1>6
  <2>3. m \in 0 .. Len(d)
    BY <1>3
  <2> QED
    BY <2>1, <2>2, <2>3
<1>8. Ends(b, 1, k)
  <2>1. ~IsBlank(b[1])
    <3>1. b[1] = FieldLines(e)[1]
      BY <1>6
    <3> QED
      BY <1>4, <3>1 DEF Splits, IsBlank
  <2>2. ~IsBlank(b[k])
    <3>1. CASE m = 0
      BY <1>5, <1>6, <3>1
    <3>2. CASE m # 0
      <4>1. m \in 1 .. Len(d) /\ k = n + 6 + m
        BY <1>7, <3>2
      <4> QED
        BY <1>3, <1>6, <3>2, <4>1
    <3> QED
      BY <3>1, <3>2
  <2>3. ASSUME NEW i \in 1 .. Len(b), i > k
        PROVE  IsBlank(b[i])
    <3>1. CASE i > n + 6 + Len(d)
      BY <1>1, <3>1, BlankIsBlank DEF EndsBlank
    <3>2. CASE i <= n + 6 + Len(d)
      <4> DEFINE j == i - (n + 6)
      <4>1. j \in 1 .. Len(d) /\ j > m /\ i = n + 6 + j
        BY <1>7, <2>3, <3>2
      <4> HIDE DEF j
      <4> QED
        BY <1>3, <1>6, <4>1
    <3> QED
      BY <1>7, <3>1, <3>2
  <2>4. 1 \in 1 .. Len(b) /\ k \in 1 .. Len(b) /\ 1 <= k
    BY <1>6, <1>7
  <2>5. \A i \in 1 .. Len(b) : ~(i < 1)
    OBVIOUS
  <2> QED
    BY <2>1, <2>2, <2>3, <2>4, <2>5 DEF Ends
<1> DEFINE c == SubSeq(b, 1, k)
<1>9. Core(b) = c
  BY <1>6, <1>8, TrimIs
<1>10. /\ c \in Seq(Line) /\ Len(c) = k /\ c # <<>>
       /\ \A i \in 1 .. k : c[i] = b[i]
  <2>1. 1 \in 1 .. Len(b) + 1 /\ k \in 0 .. Len(b)
    BY <1>7, <1>8 DEF Ends
  <2>2. /\ c \in Seq(Line) /\ Len(c) = k - 1 + 1
        /\ \A i \in 1 .. k - 1 + 1 : c[i] = b[1 + i - 1]
    BY <1>6, <2>1, PartOf, SMTT(30)
  <2> HIDE DEF c
  <2>3. k - 1 + 1 = k /\ \A i \in 1 .. k : 1 + i - 1 = i
    BY <1>7
  <2>4. Len(c) = k /\ k # 0
    BY <1>7, <2>2, <2>3
  <2> QED
    BY <2>2, <2>3, <2>4
<1> HIDE DEF c
<1>11. PICK last \in Line :
         /\ TrailOff(b[k]) = last /\ TrailOff(last) = last /\ ~IsBlank(last)
         /\ m = 0 => last = D
         /\ m # 0 => last = TrimEnd(d)[m]
  <2>1. CASE m = 0
    BY <1>5, <1>6, <2>1
  <2>2. CASE m # 0
    <3>1. m \in 1 .. Len(d) /\ k = n + 6 + m
      BY <1>7, <2>2
    <3>2. b[k] = d[m] /\ ~IsBlank(d[m])
      BY <1>3, <1>6, <2>2, <3>1
    <3> QED
      BY <1>e, <1>f, <2>2, <3>1, <3>2
  <2> QED
    BY <2>1, <2>2
<1>12. LeadOff(b[1]) = b[1]
  <2>1. b[1] = FieldLines(e)[1]
    BY <1>6
  <2>2. ASSUME NEW w, w = "user"
        PROVE  LTrim(w) = w
    BY <2>2, TextAssumption
  <2> QED
    BY <1>4, <2>1, <2>2, LeadOffIsSame
<1> DEFINE t == EndsOff(c)
<1>13. /\ t \in Seq(Line) /\ Len(t) = k /\ t[k] = last
       /\ \A i \in 1 .. k : i # k => t[i] = b[i]
  <2>1. 1 \in 1 .. k /\ k \in 1 .. k
    BY <1>7
  <2>2. LeadOff(c[1]) = c[1] /\ TrailOff(c[Len(c)]) = last
    BY <1>10, <1>11, <1>12, <2>1
  <2>3. /\ t \in Seq(Line) /\ Len(t) = Len(c) /\ t[Len(c)] = last
        /\ \A i \in 1 .. Len(c) : i # Len(c) => t[i] = c[i]
    BY <1>10, <2>2, EndsOffIs
  <2> HIDE DEF t
  <2> QED
    BY <1>10, <2>3
<1>14. Trim(b) = t
  BY <1>9, <1>10 DEF Trim
<1> HIDE DEF t
<1>15. Describes(t, e, n, names, TrimEnd(d))
  <2>1. \A i \in 1 .. 5 : t[i] = FieldLines(e)[i]
    <3>1. \A i \in 1 .. 5 : i \in 1 .. k /\ i # k
      BY <1>7
    <3> QED
      BY <1>6, <1>13, <3>1
  <2>2. \A i \in 1 .. n : t[5 + i] = Entry(e, names[i])
    <3>1. \A i \in 1 .. n : 5 + i \in 1 .. k /\ 5 + i # k
      BY <1>7
    <3> QED
      BY <1>6, <1>13, <3>1
  <2>3. t[n + 6] = D
    <3>1. CASE m = 0
      BY <1>11, <1>13, <3>1
    <3>2. CASE m # 0
      <4>1. n + 6 \in 1 .. k /\ n + 6 # k
        BY <1>7, <3>2
      <4> QED
        BY <1>6, <1>13, <4>1
    <3> QED
      BY <3>1, <3>2
  <2>4. ASSUME NEW i \in 1 .. m
        PROVE  t[n + 6 + i] = TrimEnd(d)[i]
    <3>1. CASE i = m
      <4>1. m # 0 /\ n + 6 + i = k
        BY <1>7, <3>1
      <4> QED
        BY <1>11, <1>13, <3>1, <4>1
    <3>2. CASE i # m
      <4>1. n + 6 + i \in 1 .. k /\ n + 6 + i # k /\ i \in 1 .. Len(d)
        BY <1>7, <3>2
      <4>2. TrimEnd(d)[i] = d[i]
        BY <1>e, <3>2
      <4> QED
        BY <1>6, <1>13, <4>1, <4>2
    <3> QED
      BY <3>1, <3>2
  <2>5. Len(TrimEnd(d)) = m
    BY <1>e
  <2>6. Len(t) >= n + 6 + m
    BY <1>7, <1>13
  <2> DEFINE r == TrimEnd(d)
  <2> HIDE DEF r
  <2>7. /\ Len(t) >= n + 6 + Len(r)
        /\ \A i \in 1 .. Len(r) : t[n + 6 + i] = r[i]
    BY <2>4, <2>5, <2>6 DEF r
  <2>8. /\ names \in [1 .. n -> DOMAIN e.general]
        /\ \A x \in DOMAIN e.general : \E i \in 1 .. n : names[i] = x
    BY <1>1 DEF Describes
  <2>9. Describes(t, e, n, names, r)
    BY <1>13, <2>1, <2>2, <2>3, <2>7, <2>8 DEF Describes, D
  <2> QED
    BY <2>9 DEF r
<1>16. Ends(t, 1, k)
  <2>1. 1 \in 1 .. k /\ k \in 1 .. k /\ 1 <= k /\ 1 # k
    BY <1>7
  <2>2. \A i \in 1 .. k : ~(i < 1) /\ ~(i > k)
    BY <1>7
  <2>3. ~IsBlank(t[1])
    <3>1. t[1] = b[1] /\ ~IsBlank(b[1])
      BY <1>8, <1>13, <2>1 DEF Ends
    <3> QED
      BY <3>1
  <2> QED
    BY <1>11, <1>13, <2>1, <2>2, <2>3 DEF Ends
<1>17. Trim(t) = t
  <2>1. Core(t) = SubSeq(t, 1, Len(t))
    BY <1>13, <1>16, TrimIs
  <2>2. Core(t) = t
    BY <1>13, <2>1
  <2>3. 1 \in 1 .. k /\ k \in 1 .. k /\ 1 # k /\ t # <<>>
    BY <1>7, <1>13
  <2>4. LeadOff(t[1]) = t[1] /\ TrailOff(t[Len(t)]) = last
    BY <1>11, <1>12, <1>13, <2>3
  <2> DEFINE u == EndsOff(t)
  <2>5. /\ u \in Seq(Line) /\ Len(u) = Len(t) /\ u[Len(t)] = last
        /\ \A i \in 1 .. Len(t) : i # Len(t) => u[i] = t[i]
    BY <1>13, <2>3, <2>4, EndsOffIs
  <2> HIDE DEF u
  <2>6. \A i \in 1 .. k : u[i] = t[i]
    BY <1>13, <2>5
  <2>7. u = t
    BY <1>13, <2>5, <2>6, SeqEqual
  <2> QED
    BY <2>2, <2>3, <2>7 DEF Trim, u
<1>18. t # NoBody
  <2>1. 1 \in 1 .. k /\ 1 # k
    BY <1>7
  <2>2. t[1] = FieldLines(e)[1]
    BY <1>6, <1>13, <2>1
  <2>3. t[1][1] = "user"
    BY <1>4, <2>2 DEF Splits
  <2>4. NoBody[1][1] = "null"
    BY DEF NoBody
  <2> QED
    BY <2>3, <2>4
<1>19. Len(t) = n + 6 + Len(TrimEnd(d))
  BY <1>e, <1>13
<1> QED
  BY <1>14, <1>15, <1>17, <1>18, <1>19 DEF b, d

(* The way of a body: a SEND of the client, a MESSAGE of the server.        *)
LEMMA BodyIsLines ==
  ASSUME NEW e, IsReport(e), HasPlainKeys(e)
  PROVE  getBodyFromEvent(e) \in Seq(Line)
<1>n. PICK n \in Nat : \E names :
        Describes(getBodyFromEvent(e), e, n, names, e.description)
  BY BodyDescribes
<1>1. PICK names :
        Describes(getBodyFromEvent(e), e, n, names, e.description)
  BY <1>n
<1> QED
  BY <1>1 DEF Describes

LEMMA OnePartTrims ==
  ASSUME NEW p, NEW q, RTrim(LTrim(p)) = q
  PROVE  TrimText(<<p>>) = <<q>>
<1>1. LeadOff(<<p>>) = <<LTrim(p)>>
  BY DEF LeadOff
<1>2. \A x : TrailOff(<<x>>) = <<RTrim(x)>>
  BY DEF TrailOff
<1> QED
  BY <1>1, <1>2 DEF TrimText

LEMMA BodyIsRelayed ==
  ASSUME NEW e, IsReport(e), HasPlainKeys(e), HasPlainText(e)
  PROVE  Relayed(SendFrame(e)).body = Trim(getBodyFromEvent(e))
<1> DEFINE b == getBodyFromEvent(e)
<1> DEFINE t == Trim(b)
<1> DEFINE h == [destination |-> <<"channel">>]
<1> DEFINE g == [subscription |-> <<"0">>, message_id |-> <<"0">>,
                 destination |-> h["destination"]]
<1>1. b \in Seq(Line)
  BY BodyIsLines
<1>n. PICK n \in Nat : \E names :
        Describes(t, e, n, names, TrimEnd(e.description))
  BY BodyTrims
<1>2. PICK names :
        Describes(t, e, n, names, TrimEnd(e.description))
  BY <1>n
<1>3. t \in Seq(Line) /\ t # NoBody /\ Trim(t) = t
  BY <1>2, BodyTrims DEF Describes
<1>4. /\ "SEND" \in Word /\ "MESSAGE" \in Word
      /\ <<"channel">> \in Line /\ <<"0">> \in Line
  <2>1. Commands \subseteq Word /\ Words \subseteq Word
    BY DEF Word
  <2>2. "SEND" \in Commands /\ "MESSAGE" \in Commands /\ "channel" \in Words
    BY DEF Commands, Words
  <2>3. "0" \in Words
    <3>1. Digit[1] \in Words
      BY DEF Words
    <3> QED
      BY <3>1 DEF Digit
  <2> QED
    BY <2>1, <2>2, <2>3, WordsAreLines
<1>5. IsMap(h) /\ h["destination"] = <<"channel">>
  BY <1>4, HeadersAreMaps
<1>t. /\ TrimText(<<"channel">>) = <<"channel">> /\ TrimText(<<" 0">>) = <<"0">>
      /\ NamesAreTrim(h) /\ Trimmed(h) = h
  <2>1. TrimText(<<"channel">>) = <<"channel">>
    BY TextAssumption, OnePartTrims
  <2>2. TrimText(<<" 0">>) = <<"0">>
    BY TextAssumption, OnePartTrims
  <2>3. NamesAreTrim(h)
    BY TextAssumption DEF NamesAreTrim, HeaderNames
  <2>4. Trimmed(h) = h
    BY <2>1 DEF Trimmed
  <2> QED
    BY <2>1, <2>2, <2>3, <2>4
<1>6. IsMap(g)
  <2>1. g = [subscription |-> <<"0">>, message_id |-> <<"0">>,
             destination |-> <<"channel">>]
    OBVIOUS
  <2> QED
    BY <1>4, <2>1, HeadersAreMaps
<1> HIDE DEF b, t
<1>7. serverParse(clientToString(SendFrame(e))) = StompFrame("SEND", h, t)
  <2>1. SendFrame(e) = StompFrame("SEND", h, b)
    BY DEF SendFrame, b
  <2> HIDE DEF h
  <2> QED
    BY <1>1, <1>4, <1>5, <1>t, <2>1, FramesSurvive DEF t
<1>8. MessageFor(StompFrame("SEND", h, t)) = StompFrame("MESSAGE", g, t)
  <2> DEFINE r == [subscription |-> <<" 0">>, message_id |-> <<" 0">>,
                   destination |-> h["destination"]]
  <2>1. MessageFor(StompFrame("SEND", h, t)) = ServerFrame("MESSAGE", r, t)
    BY DEF MessageFor, StompFrame
  <2>2. Trimmed(r) = g
    <3>1. ASSUME NEW x, NEW y, NEW z
          PROVE  Trimmed([subscription |-> x, message_id |-> y,
                          destination |-> z])
                   = [subscription |-> TrimText(x), message_id |-> TrimText(y),
                      destination |-> TrimText(z)]
      BY DEF Trimmed
    <3> DEFINE a == <<" 0">>
               o == <<"0">>
               z == h["destination"]
    <3>2. TrimText(a) = o /\ TrimText(z) = z
      BY <1>5, <1>t
    <3>3. /\ r = [subscription |-> a, message_id |-> a, destination |-> z]
          /\ g = [subscription |-> o, message_id |-> o, destination |-> z]
      OBVIOUS
    <3> HIDE DEF a, o, z, r, g
    <3> QED
      BY <3>1, <3>2, <3>3
  <2> HIDE DEF r, g
  <2> QED
    BY <2>1, <2>2 DEF ServerFrame
<1> HIDE DEF g
<1>9. clientParse(serverToString(StompFrame("MESSAGE", g, t)))
        = StompFrame("MESSAGE", g, t)
  <2>1. clientParse(serverToString(StompFrame("MESSAGE", g, t)))
          = StompFrame("MESSAGE", g, IF t = NoBody THEN <<>> ELSE Trim(t))
    BY <1>3, <1>4, <1>6, FramesSurvive
  <2> QED
    BY <1>3, <2>1
<1>10. Relayed(SendFrame(e)) = StompFrame("MESSAGE", g, t)
  BY <1>7, <1>8, <1>9 DEF Relayed
<1> QED
  BY <1>10 DEF StompFrame, b, t

-----------------------------------------------------------------------------
(* G goes through the lines of a body step by step.                         *)
Unread == [event |-> NoEvent, inGeneral |-> FALSE, inDescription |-> FALSE]

ReadSteps(G, lines, n) ==
  /\ G[0] = Unread
  /\ \A i \in 1 .. n : G[i] = ReadLine(G[i - 1], lines[i])
  /\ Event(lines) = G[n].event

LEMMA FoldOfLines ==
  ASSUME NEW n \in Nat, NEW lines, DOMAIN lines = 1 .. n
  PROVE  \E G : ReadSteps(G, lines, n)
<1> DEFINE Folds(it, k) ==
      it = [s \in SUBSET (1 .. k) |-> IF s = {} THEN Unread
              ELSE ReadLine(it[s \ {Max(s)}], lines[Max(s)])]
<1> DEFINE T == {k \in 0 .. n : \E it : Folds(it, k)}
<1>1. 0 \in T
  <2> DEFINE it == [s \in SUBSET (1 .. 0) |-> Unread]
  <2>1. \A s \in SUBSET (1 .. 0) : s = {}
    OBVIOUS
  <2>2. Folds(it, 0)
    BY <2>1
  <2> HIDE DEF it, Folds
  <2> QED
    BY <2>2
<1>2. ASSUME NEW k \in 1 .. n, k - 1 \in T
      PROVE  k \in T
  <2>1. PICK old : Folds(old, k - 1)
    BY <1>2
  <2> DEFINE it == [s \in SUBSET (1 .. k) |->
                      IF k \in s THEN ReadLine(old[s \ {k}], lines[k])
                      ELSE old[s]]
  <2>2. \A s \in SUBSET (1 .. k) :
          /\ s \ {k} \in SUBSET (1 .. k - 1)
          /\ k \notin s => s \in SUBSET (1 .. k - 1)
    OBVIOUS
  <2>3. ASSUME NEW s \in SUBSET (1 .. k)
        PROVE  it[s] = IF s = {} THEN Unread
                       ELSE ReadLine(it[s \ {Max(s)}], lines[Max(s)])
    <3>1. CASE k \in s
      <4>1. Max(s) = k
        <5>1. s \subseteq 1 .. k /\ k \in Nat
          OBVIOUS
        <5> HIDE DEF it, T
        <5>2. Max(s) \in s /\ k <= Max(s)
          BY <3>1, <5>1, MaxIsGreatest
        <5>3. Max(s) \in 1 .. k
          BY ONLY <5>1, <5>2
        <5> QED
          BY ONLY <5>1, <5>2, <5>3
      <4>2. /\ it[s] = ReadLine(old[s \ {k}], lines[k])
            /\ it[s \ {k}] = old[s \ {k}]
        BY <3>1
      <4> QED
        BY <3>1, <4>1, <4>2
    <3>2. CASE k \notin s
      <4>1. s \in SUBSET (1 .. k - 1) /\ it[s] = old[s]
        BY <2>2, <3>2
      <4>2. it[s \ {Max(s)}] = old[s \ {Max(s)}]
        BY <3>2
      <4>3. old[s] = IF s = {} THEN Unread
                     ELSE ReadLine(old[s \ {Max(s)}], lines[Max(s)])
        BY <2>1, <4>1
      <4> HIDE DEF it
      <4> QED
        BY <4>1, <4>2, <4>3
    <3> QED
      BY <3>1, <3>2
  <2>4. it = [s \in SUBSET (1 .. k) |-> it[s]]
    OBVIOUS
  <2> HIDE DEF it
  <2>5. Folds(it, k)
    BY <2>3, <2>4
  <2> HIDE DEF Folds
  <2> QED
    BY <1>2, <2>5
<1>3. \E it : Folds(it, n)
  <2> HIDE DEF Folds
  <2>1. \A k \in 1 .. n : k - 1 \in T => k \in T
    BY <1>2
  <2>2. n \in T
    <3> HIDE DEF T
    <3> QED
      BY <1>1, <2>1, LastGoodIndex
  <2> QED
    BY <2>2
<1> DEFINE fold == CHOOSE it : Folds(it, n)
<1>4. Folds(fold, n)
  <2> HIDE DEF Folds
  <2> QED
    BY <1>3
<1>5. Event(lines) = fold[1 .. n].event
  BY DEF Event, FoldLeft, MapThenFoldSet, Unread
<1> HIDE DEF fold, T
<1> DEFINE G == [i \in 0 .. n |-> fold[1 .. i]]
<1>6. G[0] = Unread
  <2>1. 1 .. 0 = {} /\ {} \in SUBSET (1 .. n)
    OBVIOUS
  <2> QED
    BY <1>4, <2>1
<1>7. ASSUME NEW i \in 1 .. n
      PROVE  G[i] = ReadLine(G[i - 1], lines[i])
  <2>1. 1 .. i \subseteq 1 .. n /\ i \in 1 .. i
    OBVIOUS
  <2>2. Max(1 .. i) = i
    BY MaxOfInterval
  <2>3. (1 .. i) \ {i} = 1 .. i - 1
    OBVIOUS
  <2>4. fold[1 .. i] = ReadLine(fold[1 .. i - 1], lines[i])
    BY <1>4, <2>1, <2>2, <2>3
  <2> QED
    BY <2>4
<1>8. ReadSteps(G, lines, n)
  <2>1. G[n] = fold[1 .. n]
    OBVIOUS
  <2> HIDE DEF G
  <2> QED
    BY <1>5, <1>6, <1>7, <2>1 DEF ReadSteps
<1> HIDE DEF G
<1> QED
  BY <1>8

-----------------------------------------------------------------------------
(* The key and the value of a line with a colon.                            *)
LEMMA KeyAndValue ==
  ASSUME NEW l, NEW w, NEW t \in Line, Splits(l, w, t)
  PROVE  /\ KeyOf(l) = w
         /\ Len(t) = 1 => ValOf(l) = t[1]
         /\ ValOf(l) = "true" => t \in {<<"true">>, <<"true", "">>}
<1>1. /\ l \in Seq(Word) /\ t \in Seq(Word) /\ Len(t) \in Nat \ {0}
      /\ Len(l) = Len(t) + 1 /\ l[1] = w
      /\ \A i \in 1 .. Len(t) : l[i + 1] = t[i]
  BY DEF Splits, Line
<1>0. /\ Len(t) \in Nat /\ Len(t) >= 1 /\ Len(l) = Len(t) + 1
      /\ Len(l) > 1 /\ Len(l) \in Nat
  BY <1>1
<1> DEFINE s == split_str(l)
<1>2. Last(l) = t[Len(t)]
  BY <1>1 DEF Last
<1>3. CASE t[Len(t)] = ""
  <2>1. s = Front(l)
    <3>1. Len(l) > 1 /\ Last(l) = ""
      BY <1>0, <1>2, <1>3
    <3> QED
      BY <3>1 DEF split_str
  <2>2. Front(l) = SubSeq(l, 1, Len(l) - 1)
    BY DEF Front
  <2>3. /\ s \in Seq(Word) /\ Len(s) = Len(t)
        /\ \A i \in 1 .. Len(t) : s[i] = l[i]
    <3>1. 1 \in 1 .. Len(l) + 1 /\ Len(l) - 1 \in 0 .. Len(l)
      BY <1>1
    <3> DEFINE q == SubSeq(l, 1, Len(l) - 1)
    <3>2. /\ q \in Seq(Word) /\ Len(q) = Len(l) - 1 - 1 + 1
          /\ \A i \in 1 .. Len(l) - 1 - 1 + 1 : q[i] = l[1 + i - 1]
      BY <1>1, <3>1, PartOf
    <3> HIDE DEF q
    <3>3. Len(l) - 1 - 1 + 1 = Len(t) /\ \A i \in 1 .. Len(t) : 1 + i - 1 = i
      BY <1>1
    <3>4. s = q
      BY <2>1, <2>2 DEF q
    <3> HIDE DEF s
    <3> QED
      BY <3>2, <3>3, <3>4
  <2> HIDE DEF s
  <2>4. s[1] = w
    BY <1>1, <2>3
  <2>5. KeyOf(l) = s[1] /\ ValOf(l) = IF Len(s) = 2 THEN s[2] ELSE ""
    BY DEF KeyOf, ValOf, s
  <2>6. Len(t) = 1 => ValOf(l) = t[1]
    <3> SUFFICES ASSUME Len(t) = 1
                 PROVE  ValOf(l) = t[1]
      OBVIOUS
    <3>1. Len(s) # 2
      BY <2>3
    <3>2. ValOf(l) = ""
      BY <2>5, <3>1
    <3> QED
      BY <1>3, <3>2
  <2>7. ASSUME ValOf(l) = "true"
        PROVE  t = <<"true", "">>
    <3>1. Len(s) = 2 /\ s[2] = "true"
      BY <2>5, <2>7
    <3>2. Len(t) = 2 /\ t[1] = "true" /\ t[2] = ""
      <4>1. 1 \in 1 .. Len(t) /\ 2 \in 1 .. Len(t) /\ 1 + 1 = 2
        BY <2>3, <3>1
      <4>2. s[2] = l[2] /\ l[2] = t[1]
        BY <1>1, <2>3, <4>1
      <4> QED
        BY <1>3, <2>3, <3>1, <4>2
    <3>3. t = <<t[1], t[2]>>
      <4>1. Len(t) = 2
        BY <3>2
      <4> QED
        BY <1>1, <4>1
    <3> QED
      BY <3>2, <3>3
  <2> QED
    BY <2>4, <2>5, <2>6, <2>7
<1>4. CASE t[Len(t)] # ""
  <2>1. s = l
    BY <1>1, <1>2, <1>4 DEF split_str
  <2> HIDE DEF s
  <2>2. KeyOf(l) = s[1] /\ ValOf(l) = IF Len(s) = 2 THEN s[2] ELSE ""
    BY DEF KeyOf, ValOf, s
  <2>3. Len(t) = 1 => ValOf(l) = t[1]
    BY <1>1, <2>1, <2>2
  <2>4. ASSUME ValOf(l) = "true"
        PROVE  t = <<"true">>
    <3>1. Len(s) = 2 /\ s[2] = "true"
      BY <2>2, <2>4
    <3>2. Len(t) = 1 /\ s[2] = t[1]
      <4>1. Len(t) = 1
        <5>1. Len(l) = 2
          BY <2>1, <3>1
        <5>2. \A a, b \in Nat : b = a + 1 /\ b = 2 => a = 1
          OBVIOUS
        <5> QED
          BY <1>0, <5>1, <5>2, Zenon
      <4>2. 1 \in 1 .. Len(t) /\ 1 + 1 = 2
        BY <4>1
      <4> QED
        BY <1>1, <2>1, <4>1, <4>2
    <3>3. t = <<t[1]>>
      BY <1>1, <3>2
    <3> QED
      BY <3>1, <3>2, <3>3
  <2> QED
    BY <1>1, <2>1, <2>2, <2>3, <2>4
<1> QED
  BY <1>3, <1>4

-----------------------------------------------------------------------------
(* What has been read, and the event so far.                                *)
InFields(ev) == [event |-> ev, inGeneral |-> FALSE, inDescription |-> FALSE]
InGeneral(ev) == [event |-> ev, inGeneral |-> TRUE, inDescription |-> FALSE]
InDescription(ev) == [event |-> ev, inGeneral |-> TRUE, inDescription |-> TRUE]
Said(o, c, n, dt, ds, gen) ==
  [owner |-> o, city |-> c, name |-> n, date |-> dt, description |-> ds,
   general |-> gen, thrown |-> FALSE]

(* The keys of the five lines of fields.                                    *)
User == "user"
CityName == "city"
EventName == "event name"
DateTime == "date time"
GeneralInformation == "general information"

(* A line before the general information.                                   *)
LEMMA ReadsField ==
  ASSUME NEW o, NEW c, NEW n, NEW dt, NEW ds, NEW gen, NEW l, NEW w,
         w \notin {GeneralInformation, "description"},
         NEW t \in Line, Splits(l, w, t),
         NEW r, SetField(Said(o, c, n, dt, ds, gen), w, ValOf(l)) = r
  PROVE  ReadLine(InFields(Said(o, c, n, dt, ds, gen)), l) = InFields(r)
<1> DEFINE ev == Said(o, c, n, dt, ds, gen)
<1> DEFINE got == InFields(ev)
<1>1. KeyOf(l) = w /\ Len(l) # 1
  BY KeyAndValue, ZenonT(30) DEF Splits
<1>2. got.event = ev /\ ~ev.thrown /\ ~got.inDescription /\ ~got.inGeneral
  BY DEF InFields, Said
<1>3. ReadLine(got, l) = [got EXCEPT !.event = r, !.inDescription = FALSE]
  BY <1>1, <1>2 DEF ReadLine, GeneralInformation
<1> HIDE DEF ev
<1>4. ReadLine(got, l) = InFields(r)
  BY <1>3 DEF InFields
<1> QED
  BY <1>4 DEF ev

LEMMA ReadsUser ==
  ASSUME NEW o, NEW c, NEW n, NEW dt, NEW ds, NEW gen, NEW l,
         NEW t \in Line, Splits(l, User, t)
  PROVE  ReadLine(InFields(Said(o, c, n, dt, ds, gen)), l)
           = InFields(Said(<<ValOf(l)>>, c, n, dt, ds, gen))
<1> DEFINE v == ValOf(l)
<1> HIDE DEF v
<1>1. SetField(Said(o, c, n, dt, ds, gen), User, v)
        = Said(<<v>>, c, n, dt, ds, gen)
  BY DEF SetField, Said, User
<1>2. User \notin {GeneralInformation, "description"}
  BY DEF User, GeneralInformation
<1> QED
  BY <1>1, <1>2, ReadsField DEF v

LEMMA ReadsCity ==
  ASSUME NEW o, NEW c, NEW n, NEW dt, NEW ds, NEW gen, NEW l,
         NEW t \in Line, Splits(l, CityName, t)
  PROVE  ReadLine(InFields(Said(o, c, n, dt, ds, gen)), l)
           = InFields(Said(o, <<ValOf(l)>>, n, dt, ds, gen))
<1> DEFINE v == ValOf(l)
<1> HIDE DEF v
<1>1. SetField(Said(o, c, n, dt, ds, gen), CityName, v)
        = Said(o, <<v>>, n, dt, ds, gen)
  BY DEF SetField, Said, CityName
<1>2. CityName \notin {GeneralInformation, "description"}
  BY DEF CityName, GeneralInformation
<1> QED
  BY <1>1, <1>2, ReadsField DEF v

LEMMA ReadsName ==
  ASSUME NEW o, NEW c, NEW n, NEW dt, NEW ds, NEW gen, NEW l,
         NEW t \in Line, Splits(l, EventName, t)
  PROVE  ReadLine(InFields(Said(o, c, n, dt, ds, gen)), l)
           = InFields(Said(o, c, <<ValOf(l)>>, dt, ds, gen))
<1> DEFINE v == ValOf(l)
<1> HIDE DEF v
<1>1. SetField(Said(o, c, n, dt, ds, gen), EventName, v)
        = Said(o, c, <<v>>, dt, ds, gen)
  BY DEF SetField, Said, EventName
<1>2. EventName \notin {GeneralInformation, "description"}
  BY DEF EventName, GeneralInformation
<1> QED
  BY <1>1, <1>2, ReadsField DEF v

LEMMA ReadsDate ==
  ASSUME NEW o, NEW c, NEW n, NEW dt, NEW ds, NEW gen, NEW l,
         NEW t \in Line, Splits(l, DateTime, t), IsDate(ValOf(l))
  PROVE  ReadLine(InFields(Said(o, c, n, dt, ds, gen)), l)
           = InFields(Said(o, c, n, stoi(ValOf(l)), ds, gen))
<1> DEFINE v == ValOf(l)
<1> HIDE DEF v
<1>1. SetField(Said(o, c, n, dt, ds, gen), DateTime, v)
        = Said(o, c, n, stoi(v), ds, gen)
  BY DEF SetField, Said, DateTime, v
<1>2. DateTime \notin {GeneralInformation, "description"}
  BY DEF DateTime, GeneralInformation
<1> QED
  BY <1>1, <1>2, ReadsField DEF v

LEMMA ReadsGeneral ==
  ASSUME NEW o, NEW c, NEW n, NEW dt, NEW ds, NEW gen, NEW l,
         NEW t \in Line, Splits(l, GeneralInformation, t)
  PROVE  ReadLine(InFields(Said(o, c, n, dt, ds, gen)), l)
           = InGeneral(Said(o, c, n, dt, ds, gen))
<1> DEFINE ev == Said(o, c, n, dt, ds, gen)
<1> DEFINE got == InFields(ev)
<1>1. KeyOf(l) = GeneralInformation /\ Len(l) # 1
  BY KeyAndValue, ZenonT(30) DEF Splits
<1>2. got.event = ev /\ ~ev.thrown /\ ~got.inDescription /\ ~got.inGeneral
  BY DEF InFields, Said
<1>3. ReadLine(got, l) = [got EXCEPT !.inGeneral = TRUE]
  BY <1>1, <1>2 DEF ReadLine, GeneralInformation
<1> HIDE DEF ev
<1>4. ReadLine(got, l) = InGeneral(ev)
  BY <1>3 DEF InFields, InGeneral
<1> QED
  BY <1>4 DEF ev

(* An entry of the general information, the line of the description, and a  *)
(* line after it.                                                           *)
OtherFields == (Fields \ {"description"}) \cup {""}
After(w, ev) == IF w = "description" THEN InDescription(ev) ELSE InGeneral(ev)
More(gen, l, w) == With(gen, WithoutFirst(w), <<ValOf(l)>>)

LEMMA ReadsEntry ==
  ASSUME NEW o, NEW c, NEW n, NEW dt, NEW ds, NEW gen, NEW l, NEW w,
         NEW t \in Line, Splits(l, w, t), w \notin OtherFields
  PROVE  ReadLine(InGeneral(Said(o, c, n, dt, ds, gen)), l)
           = After(w, Said(o, c, n, dt, ds, More(gen, l, w)))
<1> DEFINE ev == Said(o, c, n, dt, ds, gen)
<1> DEFINE got == InGeneral(ev)
<1> DEFINE v == ValOf(l)
<1> DEFINE more == With(gen, WithoutFirst(w), <<v>>)
<1>1. KeyOf(l) = w /\ Len(l) # 1
  BY KeyAndValue, ZenonT(30) DEF Splits
<1>2. got.event = ev /\ ~ev.thrown /\ ~got.inDescription /\ got.inGeneral
  BY DEF InFields, InGeneral, InDescription, Said
<1>3. /\ w # "user" /\ w # "city" /\ w # "event name" /\ w # "date time"
      /\ w # "general information" /\ w # ""
  BY DEF Fields, OtherFields
<1>4. SetField(ev, w, v) = ev
  <2> HIDE DEF ev, v
  <2> QED
    BY <1>3 DEF SetField
<1>5. AddEntry(ev, w, v) = Said(o, c, n, dt, ds, more)
  <2>1. AddEntry(ev, w, v)
          = [ev EXCEPT !.general = With(@, WithoutFirst(w), <<v>>)]
    BY <1>3 DEF AddEntry
  <2>2. ev.general = gen
    BY DEF Said
  <2>3. AddEntry(ev, w, v) = [ev EXCEPT !.general = more]
    BY <2>1, <2>2
  <2> HIDE DEF more
  <2> QED
    BY <2>3 DEF Said
<1>6. ReadLine(got, l)
        = [got EXCEPT !.event = AddEntry(ev, w, v),
                      !.inDescription = (w = "description")]
  <2> HIDE DEF ev, got
  <2>1. ~SetField(ev, w, v).thrown
    BY <1>2, <1>4
  <2> QED
    BY <1>1, <1>2, <1>3, <1>4, <2>1 DEF ReadLine, v
<1> HIDE DEF ev, more
<1> DEFINE added == Said(o, c, n, dt, ds, more)
<1>7. ReadLine(got, l) = [got EXCEPT !.event = added,
                                     !.inDescription = (w = "description")]
  BY <1>5, <1>6
<1> HIDE DEF added
<1>8. ReadLine(got, l) = IF w = "description" THEN InDescription(added)
                           ELSE InGeneral(added)
  BY <1>7 DEF InFields, InGeneral, InDescription
<1> QED
  BY <1>8 DEF ev, more, added, After, More, v

LEMMA ReadsDescription ==
  ASSUME NEW o, NEW c, NEW n, NEW dt, NEW ds, NEW gen, NEW l
  PROVE  ReadLine(InDescription(Said(o, c, n, dt, ds, gen)), l)
           = InDescription(Said(o, c, n, dt, Append(ds, l), gen))
<1> DEFINE ev == Said(o, c, n, dt, ds, gen)
<1> DEFINE got == InDescription(ev)
<1> DEFINE more == Append(ds, l)
<1>1. got.event = ev /\ ~ev.thrown /\ got.inDescription /\ ev.description = ds
  BY DEF InFields, InGeneral, InDescription, Said
<1>2. ReadLine(got, l) = [got EXCEPT !.event.description = Append(@, l)]
  <2> HIDE DEF ev, got
  <2> QED
    BY <1>1 DEF ReadLine
<1>3. ReadLine(got, l) = [got EXCEPT !.event.description = more]
  BY <1>1, <1>2
<1> HIDE DEF more
<1> DEFINE added == Said(o, c, n, dt, more, gen)
<1>4. [ev EXCEPT !.description = more] = added
  <2>1. ASSUME NEW x, NEW r, r = [ev EXCEPT !.description = x]
        PROVE  r = Said(o, c, n, dt, x, gen)
    BY <2>1 DEF Said
  <2> HIDE DEF ev
  <2> QED
    BY <2>1
<1>5. ReadLine(got, l) = [got EXCEPT !.event = added]
  <2>1. [got EXCEPT !.event.description = more]
          = [got EXCEPT !.event = [ev EXCEPT !.description = more]]
    <3> HIDE DEF ev
    <3> QED
      BY <1>1 DEF InFields, InGeneral, InDescription
  <2> HIDE DEF got, ev, added
  <2> QED
    BY <1>3, <1>4, <2>1
<1> HIDE DEF ev, added
<1>6. ReadLine(got, l) = InDescription(added)
  BY <1>5 DEF InFields, InGeneral, InDescription
<1> QED
  BY <1>6 DEF more, ev, added

LEMMA DateIsRead ==
  ASSUME NEW n \in Dates
  PROVE  IsDate(Digit[n + 1]) /\ stoi(Digit[n + 1]) = n
<1>1. \A i, j \in Dates : Digit[i + 1] = Digit[j + 1] => i = j
  <2>1. \A i, j \in 1 .. 10 : Digit[i] = Digit[j] => i = j
    BY DEF Digit
  <2>2. \A i \in Dates : i + 1 \in 1 .. 10 /\ i \in Int
    BY DEF Dates
  <2> QED
    BY <2>1, <2>2
<1>2. IsDate(Digit[n + 1])
  BY DEF IsDate
<1>3. stoi(Digit[n + 1]) \in Dates
      /\ Digit[stoi(Digit[n + 1]) + 1] = Digit[n + 1]
  BY DEF stoi
<1> QED
  BY <1>1, <1>2, <1>3

-----------------------------------------------------------------------------
(* The four fields of a report and the two keys without a value, as lines.  *)
LEMMA FieldLinesSplit ==
  ASSUME NEW e, IsReport(e)
  PROVE  /\ Splits(FieldLines(e)[1], User, e.owner)
         /\ Splits(FieldLines(e)[2], CityName, e.city)
         /\ Splits(FieldLines(e)[3], EventName, e.name)
         /\ Splits(FieldLines(e)[4], DateTime, DateText(e.date))
         /\ Splits(FieldLines(e)[5], GeneralInformation, Blank)
         /\ Splits(<<"description">> \o Blank, "description", Blank)
         /\ e.owner \in Line /\ e.city \in Line /\ e.name \in Line
         /\ DateText(e.date) \in Line
<1>1. e.owner \in Line /\ e.city \in Line /\ e.name \in Line
  BY TextIsLine DEF IsReport
<1>2. DateText(e.date) \in Line
  <2>1. e.date + 1 \in 1 .. 10
    BY DEF IsReport, Dates
  <2>2. Digit[e.date + 1] \in Word
    BY <2>1 DEF Word, Words
  <2> QED
    BY <2>2, WordsAreLines DEF DateText
<1>3. Fields \subseteq Word
  BY DEF Word
<1>4. /\ User \in Word /\ CityName \in Word /\ EventName \in Word
      /\ DateTime \in Word /\ GeneralInformation \in Word
      /\ "description" \in Word
  BY <1>3 DEF Fields, User, CityName, EventName, DateTime, GeneralInformation
<1>5. /\ FieldLines(e)[1] = <<User>> \o e.owner
      /\ FieldLines(e)[2] = <<CityName>> \o e.city
      /\ FieldLines(e)[3] = <<EventName>> \o e.name
      /\ FieldLines(e)[4] = <<DateTime>> \o DateText(e.date)
      /\ FieldLines(e)[5] = <<GeneralInformation>> \o Blank
  BY DEF FieldLines, User, CityName, EventName, DateTime, GeneralInformation
<1>7. \A w \in Word, t \in Line : Splits(<<w>> \o t, w, t)
  BY HeadedLine
<1>8. Splits(FieldLines(e)[1], User, e.owner)
  BY <1>1, <1>4, <1>5, <1>7
<1>9. Splits(FieldLines(e)[2], CityName, e.city)
  BY <1>1, <1>4, <1>5, <1>7
<1>10. Splits(FieldLines(e)[3], EventName, e.name)
  BY <1>1, <1>4, <1>5, <1>7
<1>11. Splits(FieldLines(e)[4], DateTime, DateText(e.date))
  BY <1>2, <1>4, <1>5, <1>7
<1>12. Splits(FieldLines(e)[5], GeneralInformation, Blank)
  BY <1>4, <1>5, <1>7, BlankIsLine
<1>13. Splits(<<"description">> \o Blank, "description", Blank)
  BY <1>4, <1>7, BlankIsLine
<1> QED
  BY <1>1, <1>2, <1>8, <1>9, <1>10, <1>11, <1>12, <1>13

(* The event after its five fields have been read.                          *)
Owner(e) == <<ValOf(FieldLines(e)[1])>>
City(e) == <<ValOf(FieldLines(e)[2])>>
Name(e) == <<ValOf(FieldLines(e)[3])>>
Told(e, ds, gen) == Said(Owner(e), City(e), Name(e), e.date, ds, gen)

LEMMA ReadsFields ==
  ASSUME NEW e, IsReport(e), NEW b, NEW N \in Nat, N >= 5,
         \A i \in 1 .. 5 : b[i] = FieldLines(e)[i],
         NEW G, ReadSteps(G, b, N)
  PROVE  G[5] = InGeneral(Told(e, <<>>, <<>>))
<1>1. /\ Splits(b[1], User, e.owner) /\ b[1] = FieldLines(e)[1]
      /\ Splits(b[2], CityName, e.city) /\ b[2] = FieldLines(e)[2]
      /\ Splits(b[3], EventName, e.name) /\ b[3] = FieldLines(e)[3]
      /\ Splits(b[4], DateTime, DateText(e.date))
      /\ Splits(b[5], GeneralInformation, Blank)
      /\ e.owner \in Line /\ e.city \in Line /\ e.name \in Line
      /\ DateText(e.date) \in Line
  <2>1. /\ b[1] = FieldLines(e)[1] /\ b[2] = FieldLines(e)[2]
        /\ b[3] = FieldLines(e)[3] /\ b[4] = FieldLines(e)[4]
        /\ b[5] = FieldLines(e)[5]
    OBVIOUS
  <2> QED
    BY <2>1, FieldLinesSplit
<1>2. /\ G[1] = ReadLine(G[0], b[1]) /\ G[2] = ReadLine(G[1], b[2])
      /\ G[3] = ReadLine(G[2], b[3]) /\ G[4] = ReadLine(G[3], b[4])
      /\ G[5] = ReadLine(G[4], b[5])
  <2>1. \A i \in 1 .. 5 : G[i] = ReadLine(G[i - 1], b[i])
    BY DEF ReadSteps
  <2>2. /\ 1 \in 1 .. 5 /\ 2 \in 1 .. 5 /\ 3 \in 1 .. 5 /\ 4 \in 1 .. 5
        /\ 5 \in 1 .. 5 /\ 1 - 1 = 0 /\ 2 - 1 = 1 /\ 3 - 1 = 2 /\ 4 - 1 = 3
        /\ 5 - 1 = 4
    OBVIOUS
  <2> QED
    BY <2>1, <2>2
<1>3. G[0] = InFields(Said(Blank, Blank, Blank, 0, <<>>, <<>>))
  BY DEF ReadSteps, Unread, NoEvent, InFields, Said
<1>4. \A o, c, n, dt, ds, gen :
        /\ ReadLine(InFields(Said(o, c, n, dt, ds, gen)), b[1])
             = InFields(Said(Owner(e), c, n, dt, ds, gen))
        /\ ReadLine(InFields(Said(o, c, n, dt, ds, gen)), b[2])
             = InFields(Said(o, City(e), n, dt, ds, gen))
        /\ ReadLine(InFields(Said(o, c, n, dt, ds, gen)), b[3])
             = InFields(Said(o, c, Name(e), dt, ds, gen))
        /\ ReadLine(InFields(Said(o, c, n, dt, ds, gen)), b[4])
             = InFields(Said(o, c, n, e.date, ds, gen))
        /\ ReadLine(InFields(Said(o, c, n, dt, ds, gen)), b[5])
             = InGeneral(Said(o, c, n, dt, ds, gen))
  <2>0. IsDate(ValOf(b[4])) /\ stoi(ValOf(b[4])) = e.date
    <3>1. Len(DateText(e.date)) = 1 /\ DateText(e.date)[1] = Digit[e.date + 1]
      BY DEF DateText
    <3>2. ValOf(b[4]) = Digit[e.date + 1]
      BY <1>1, <3>1, KeyAndValue
    <3> QED
      BY <3>2, DateIsRead DEF IsReport
  <2> SUFFICES ASSUME NEW o, NEW c, NEW n, NEW dt, NEW ds, NEW gen
      PROVE
        /\ ReadLine(InFields(Said(o, c, n, dt, ds, gen)), b[1])
             = InFields(Said(Owner(e), c, n, dt, ds, gen))
        /\ ReadLine(InFields(Said(o, c, n, dt, ds, gen)), b[2])
             = InFields(Said(o, City(e), n, dt, ds, gen))
        /\ ReadLine(InFields(Said(o, c, n, dt, ds, gen)), b[3])
             = InFields(Said(o, c, Name(e), dt, ds, gen))
        /\ ReadLine(InFields(Said(o, c, n, dt, ds, gen)), b[4])
             = InFields(Said(o, c, n, e.date, ds, gen))
        /\ ReadLine(InFields(Said(o, c, n, dt, ds, gen)), b[5])
             = InGeneral(Said(o, c, n, dt, ds, gen))
    OBVIOUS
  <2>1. ReadLine(InFields(Said(o, c, n, dt, ds, gen)), b[1])
          = InFields(Said(Owner(e), c, n, dt, ds, gen))
    BY <1>1, ReadsUser DEF Owner
  <2>2. ReadLine(InFields(Said(o, c, n, dt, ds, gen)), b[2])
          = InFields(Said(o, City(e), n, dt, ds, gen))
    BY <1>1, ReadsCity DEF City
  <2>3. ReadLine(InFields(Said(o, c, n, dt, ds, gen)), b[3])
          = InFields(Said(o, c, Name(e), dt, ds, gen))
    BY <1>1, ReadsName DEF Name
  <2>4. ReadLine(InFields(Said(o, c, n, dt, ds, gen)), b[4])
          = InFields(Said(o, c, n, e.date, ds, gen))
    BY <1>1, <2>0, ReadsDate
  <2>5. ReadLine(InFields(Said(o, c, n, dt, ds, gen)), b[5])
          = InGeneral(Said(o, c, n, dt, ds, gen))
    BY <1>1, BlankIsLine, ReadsGeneral
  <2> QED
    BY <2>1, <2>2, <2>3, <2>4, <2>5
<1>5. G[1] = InFields(Said(Owner(e), Blank, Blank, 0, <<>>, <<>>))
  BY <1>2, <1>3, <1>4
<1>6. G[2] = InFields(Said(Owner(e), City(e), Blank, 0, <<>>, <<>>))
  BY <1>2, <1>4, <1>5
<1>7. G[3] = InFields(Said(Owner(e), City(e), Name(e), 0, <<>>, <<>>))
  BY <1>2, <1>4, <1>6
<1>8. G[4] = InFields(Told(e, <<>>, <<>>))
  BY <1>2, <1>4, <1>7 DEF Told
<1> QED
  BY <1>2, <1>4, <1>8 DEF Told

-----------------------------------------------------------------------------
(* The general information of the report: what comes after the first colon  *)
(* of each entry, and the entry that the line of the description makes.     *)
EntryValue(e, key) == <<ValOf(Entry(e, key))>>
DescriptionValue == <<ValOf(<<"description">> \o Blank)>>
GeneralRead(e) == [key \in DOMAIN e.general |-> EntryValue(e, key)]
GeneralMade(e) == With(GeneralRead(e), "escription", DescriptionValue)

LEMMA ReadsAnEntry ==
  ASSUME NEW e, NEW ds, NEW gen, NEW l, NEW w,
         NEW t \in Line, Splits(l, w, t), w \notin OtherFields
  PROVE  ReadLine(InGeneral(Told(e, ds, gen)), l)
           = After(w, Told(e, ds, More(gen, l, w)))
<1>1. ASSUME NEW o, NEW c, NEW n, NEW dt
      PROVE  ReadLine(InGeneral(Said(o, c, n, dt, ds, gen)), l)
               = After(w, Said(o, c, n, dt, ds, More(gen, l, w)))
  BY ReadsEntry
<1> QED
  BY <1>1 DEF Told

LEMMA ReadsEntries ==
  ASSUME NEW e, IsReport(e), HasPlainKeys(e), NEW b, NEW n, NEW names, NEW d,
         NEW N \in Nat, n \in Nat, Len(d) \in Nat, N >= n + 6 + Len(d),
         Describes(b, e, n, names, d),
         NEW G, ReadSteps(G, b, N)
  PROVE  G[5 + n] = InGeneral(Told(e, <<>>, GeneralRead(e)))
<1>1. /\ names \in [1 .. n -> DOMAIN e.general]
      /\ \A x \in DOMAIN e.general : \E i \in 1 .. n : names[i] = x
      /\ \A i \in 1 .. 5 : b[i] = FieldLines(e)[i]
      /\ \A i \in 1 .. n : b[5 + i] = Entry(e, names[i])
  BY DEF Describes
<1>2. G[5] = InGeneral(Told(e, <<>>, <<>>))
  <2>1. N >= 5
    OBVIOUS
  <2> QED
    BY <1>1, <2>1, ReadsFields
<1> DEFINE Upto(i) == {names[k] : k \in 1 .. i}
<1> DEFINE gen(i) == [key \in Upto(i) |-> EntryValue(e, key)]
<1> DEFINE T == {i \in 0 .. n : G[5 + i] = InGeneral(Told(e, <<>>, gen(i)))}
<1>3. 0 \in T
  <2>1. Upto(0) = {}
    OBVIOUS
  <2>2. <<>> = [key \in {} |-> EntryValue(e, key)]
    OBVIOUS
  <2>3. gen(0) = <<>>
    BY ONLY <2>1, <2>2
  <2> HIDE DEF gen
  <2>4. G[5 + 0] = InGeneral(Told(e, <<>>, gen(0)))
    <3>1. 5 + 0 = 5
      OBVIOUS
    <3>2. G[5] = InGeneral(Told(e, <<>>, gen(0)))
      BY <1>2, <2>3
    <3> QED
      BY <3>1, <3>2
  <2> QED
    BY <2>4
<1>4. ASSUME NEW i \in 1 .. n, i - 1 \in T
      PROVE  i \in T
  <2> DEFINE key == names[i]
  <2> DEFINE l == Entry(e, key)
  <2>1. key \in DOMAIN e.general
    BY <1>1
  <2>2. /\ Indented(key) \in Word /\ WithoutFirst(Indented(key)) = key
        /\ Indented(key) \notin OtherFields
        /\ Indented(key) # "description"
    BY <2>1 DEF HasPlainKeys, Word, OtherFields, Fields
  <2>3. e.general[key] \in Line
    BY <2>1, TextIsLine DEF IsReport
  <2> HIDE DEF key
  <2>4. Splits(l, Indented(key), e.general[key])
    BY <2>2, <2>3, HeadedLine DEF Entry
  <2>5. G[5 + i] = ReadLine(G[5 + (i - 1)], l)
    <3>1. 5 + i \in 1 .. N /\ 5 + i - 1 = 5 + (i - 1)
      OBVIOUS
    <3>2. G[5 + i] = ReadLine(G[5 + i - 1], b[5 + i])
      BY <3>1 DEF ReadSteps
    <3>3. b[5 + i] = l
      BY <1>1 DEF key
    <3> QED
      BY <3>1, <3>2, <3>3
  <2>6. G[5 + (i - 1)] = InGeneral(Told(e, <<>>, gen(i - 1)))
    BY <1>4
  <2>7. gen(i) = With(gen(i - 1), key, EntryValue(e, key))
    <3>1. Upto(i) = {key} \cup Upto(i - 1)
      <4>1. 1 .. i = (1 .. i - 1) \cup {i}
        OBVIOUS
      <4> QED
        BY <4>1 DEF key
    <3> HIDE DEF Upto
    <3> QED
      BY <3>1 DEF With
  <2> HIDE DEF gen
  <2>8. G[5 + i] = InGeneral(Told(e, <<>>, gen(i)))
    <3> HIDE DEF l
    <3>1. \A g : ReadLine(InGeneral(Told(e, <<>>, g)), l)
            = After(Indented(key), Told(e, <<>>, More(g, l, Indented(key))))
      BY <2>2, <2>3, <2>4, ReadsAnEntry
    <3>2. \A ev : After(Indented(key), ev) = InGeneral(ev)
      BY <2>2 DEF After
    <3>3. \A g : More(g, l, Indented(key)) = With(g, key, EntryValue(e, key))
      BY <2>2 DEF More, EntryValue, l
    <3> QED
      BY <2>5, <2>6, <2>7, <3>1, <3>2, <3>3
  <2> QED
    BY <2>8
<1>5. G[5 + n] = InGeneral(Told(e, <<>>, gen(n)))
  <2> HIDE DEF T
  <2>1. \A i \in 1 .. n : i - 1 \in T => i \in T
    BY <1>4
  <2>2. n \in T
    <3>1. 0 .. n \subseteq T
      BY ONLY n \in Nat, <1>3, <2>1, LastGoodIndex
    <3> QED
      BY <3>1
  <2> QED
    BY <2>2 DEF T
<1>6. Upto(n) = DOMAIN e.general
  <2>1. \A x \in DOMAIN e.general : x \in Upto(n)
    BY <1>1
  <2>2. \A x \in Upto(n) : x \in DOMAIN e.general
    BY <1>1
  <2> QED
    BY <2>1, <2>2
<1> HIDE DEF Upto
<1>7. gen(n) = GeneralRead(e)
  BY <1>6 DEF GeneralRead
<1> QED
  BY <1>5, <1>7

(* The line of the description, and its lines.                              *)
LEMMA ReadsToTheEnd ==
  ASSUME NEW e, IsReport(e), HasPlainKeys(e), NEW b, NEW n, NEW names,
         NEW d \in Seq(Line), NEW N \in Nat, n \in Nat,
         N = n + 6 + Len(d), Describes(b, e, n, names, d),
         NEW G, ReadSteps(G, b, N)
  PROVE  G[N].event = Told(e, d, GeneralMade(e))
<1> DEFINE m == Len(d)
<1>1. /\ b[n + 6] = <<"description">> \o Blank
      /\ \A i \in 1 .. m : b[n + 6 + i] = d[i]
  BY DEF Describes
<1>2. Len(d) \in Nat /\ m \in Nat /\ N = n + 6 + m
  OBVIOUS
<1>3. G[5 + n] = InGeneral(Told(e, <<>>, GeneralRead(e)))
  <2>1. N >= n + 6 + Len(d)
    BY <1>2
  <2> QED
    BY <1>2, <2>1, ReadsEntries
<1>4. G[n + 6] = InDescription(Told(e, <<>>, GeneralMade(e)))
  <2> DEFINE l == <<"description">> \o Blank
  <2>1. Splits(l, "description", Blank)
    BY FieldLinesSplit
  <2>2. G[n + 6] = ReadLine(G[5 + n], l)
    <3>1. n + 6 \in 1 .. N /\ n + 6 - 1 = 5 + n
      BY <1>2
    <3>2. G[n + 6] = ReadLine(G[n + 6 - 1], b[n + 6])
      BY <3>1 DEF ReadSteps
    <3> QED
      BY <1>1, <3>1, <3>2
  <2> HIDE DEF l
  <2>3. ASSUME NEW w, w = "description"
        PROVE  ReadLine(InGeneral(Told(e, <<>>, GeneralRead(e))), l)
                 = After(w, Told(e, <<>>, More(GeneralRead(e), l, w)))
    <3>1. Splits(l, w, Blank) /\ w \notin OtherFields
      BY <2>1, <2>3 DEF OtherFields
    <3> QED
      BY <3>1, BlankIsLine, ReadsAnEntry
  <2>4. ASSUME NEW w, w = "description"
        PROVE  /\ \A ev : After(w, ev) = InDescription(ev)
               /\ More(GeneralRead(e), l, w) = GeneralMade(e)
    <3>1. WithoutFirst(w) = "escription"
      BY <2>4, TextAssumption
    <3>2. <<ValOf(l)>> = DescriptionValue
      BY DEF DescriptionValue, l
    <3> QED
      BY <2>4, <3>1, <3>2 DEF After, More, GeneralMade
  <2>5. ReadLine(InGeneral(Told(e, <<>>, GeneralRead(e))), l)
          = InDescription(Told(e, <<>>, GeneralMade(e)))
    BY <2>3, <2>4
  <2> QED
    BY <1>3, <2>2, <2>5
<1> DEFINE T == {j \in 0 .. m : G[n + 6 + j]
                   = InDescription(Told(e, SubSeq(d, 1, j), GeneralMade(e)))}
<1>5. 0 \in T
  <2>1. SubSeq(d, 1, 0) = <<>>
    BY <1>2
  <2>2. n + 6 + 0 = n + 6
    OBVIOUS
  <2>3. G[n + 6 + 0]
          = InDescription(Told(e, SubSeq(d, 1, 0), GeneralMade(e)))
    BY <1>4, <2>1, <2>2
  <2>4. 0 \in 0 .. m
    BY <1>2
  <2> QED
    BY <2>3, <2>4
<1>6. ASSUME NEW j \in 1 .. m, j - 1 \in T
      PROVE  j \in T
  <2>1. SubSeq(d, 1, j) = Append(SubSeq(d, 1, j - 1), d[j])
    <3>1. j \in 1 .. Len(d) /\ j \in Nat
      OBVIOUS
    <3> QED
      BY <1>2, <3>1
  <2> DEFINE r == SubSeq(d, 1, j - 1)
  <2>2. G[n + 6 + (j - 1)] = InDescription(Told(e, r, GeneralMade(e)))
    BY <1>6
  <2> HIDE DEF r
  <2>3. G[n + 6 + j] = ReadLine(G[n + 6 + (j - 1)], d[j])
    <3>1. /\ n + 6 + j \in 1 .. N /\ n + 6 + j - 1 = n + 6 + (j - 1)
          /\ j \in 1 .. m
      BY <1>2
    <3>2. G[n + 6 + j] = ReadLine(G[n + 6 + j - 1], b[n + 6 + j])
      BY <3>1 DEF ReadSteps
    <3> QED
      BY <1>1, <3>1, <3>2
  <2>4. G[n + 6 + j] = InDescription(Told(e, Append(r, d[j]), GeneralMade(e)))
    BY <2>2, <2>3, ReadsDescription DEF Told
  <2>5. Append(r, d[j]) = SubSeq(d, 1, j)
    BY <2>1 DEF r
  <2> QED
    BY <2>4, <2>5
<1>7. G[n + 6 + m] = InDescription(Told(e, SubSeq(d, 1, m), GeneralMade(e)))
  <2>0. m \in Nat
    BY <1>2
  <2>1. \A j \in 1 .. m : j - 1 \in T => j \in T
    BY <1>6
  <2> HIDE DEF T
  <2>2. m \in T
    <3>1. 0 .. m \subseteq T
      BY <1>5, <2>0, <2>1, LastGoodIndex
    <3> QED
      BY <2>0, <3>1
  <2> QED
    BY <2>2 DEF T
<1>8. SubSeq(d, 1, m) = d
  OBVIOUS
<1> HIDE DEF m
<1>9. G[N] = InDescription(Told(e, d, GeneralMade(e)))
  BY <1>2, <1>7, <1>8
<1> QED
  BY <1>9 DEF InDescription

-----------------------------------------------------------------------------
(* The event that the Event constructor makes of a report.                  *)
Made(e) == Told(e, TrimEnd(e.description), GeneralMade(e))

LEMMA ReceivedIs ==
  ASSUME NEW e, IsReport(e), HasPlainKeys(e), HasPlainText(e)
  PROVE  Received(e) = Made(e)
<1> DEFINE t == Trim(getBodyFromEvent(e))
<1> DEFINE d == TrimEnd(e.description)
<1>n. PICK n \in Nat : \E names :
        /\ Describes(t, e, n, names, d)
        /\ Len(t) = n + 6 + Len(d)
  BY BodyTrims
<1>1. PICK names :
        /\ Describes(t, e, n, names, d)
        /\ Len(t) = n + 6 + Len(d)
  BY <1>n
<1>2. Received(e) = Event(t)
  BY BodyIsRelayed DEF Received
<1>3. d \in Seq(Line)
  BY TrimEndIs
<1> HIDE DEF t, d
<1>4. PICK N \in Nat : N = n + 6 + Len(d)
  BY <1>3
<1>5. DOMAIN t = 1 .. N
  <2>1. t \in Seq(Line)
    BY <1>1 DEF Describes
  <2> QED
    BY <1>1, <1>4, <2>1
<1>6. PICK G : ReadSteps(G, t, N)
  BY <1>5, FoldOfLines
<1>7. G[N].event = Told(e, d, GeneralMade(e))
  BY <1>1, <1>3, <1>4, <1>6, ReadsToTheEnd
<1>8. Event(t) = G[N].event
  BY <1>6 DEF ReadSteps
<1> QED
  BY <1>2, <1>7, <1>8 DEF Made, d

-----------------------------------------------------------------------------
LEMMA OnePart ==
  ASSUME NEW t \in Line, Len(t) = 1
  PROVE  t = <<t[1]>>
<1>1. t \in Seq(Word)
  BY DEF Line
<1> QED
  BY <1>1

(* The general information that arrives.                                    *)
LEMMA EntryIs ==
  ASSUME NEW e, IsReport(e), HasPlainKeys(e), NEW key \in DOMAIN e.general
  PROVE  /\ Splits(Entry(e, key), Indented(key), e.general[key])
         /\ e.general[key] \in Line
<1>1. e.general[key] \in Line
  BY TextIsLine DEF IsReport
<1>2. Indented(key) \in Word
  BY DEF HasPlainKeys, Word
<1> QED
  BY <1>1, <1>2, HeadedLine DEF Entry

LEMMA GeneralIs ==
  ASSUME NEW e, IsReport(e), HasPlainKeys(e)
  PROVE  /\ DOMAIN GeneralMade(e) = DOMAIN e.general \cup {"escription"}
         /\ \A key \in DOMAIN e.general :
              key # "escription" => GeneralMade(e)[key] = EntryValue(e, key)
         /\ \A key \in DOMAIN e.general :
              Len(e.general[key]) = 1 => EntryValue(e, key) = e.general[key]
<1>1. DOMAIN GeneralRead(e) = DOMAIN e.general
  BY DEF GeneralRead
<1>2. \A key \in DOMAIN e.general : GeneralRead(e)[key] = EntryValue(e, key)
  BY DEF GeneralRead
<1>3. ASSUME NEW key \in DOMAIN e.general, Len(e.general[key]) = 1
      PROVE  EntryValue(e, key) = e.general[key]
  <2>1. /\ Splits(Entry(e, key), Indented(key), e.general[key])
        /\ e.general[key] \in Line
    BY EntryIs
  <2>2. ValOf(Entry(e, key)) = e.general[key][1]
    BY <1>3, <2>1, KeyAndValue
  <2> QED
    BY <1>3, <2>1, <2>2, OnePart DEF EntryValue
<1>4. ASSUME NEW k, NEW v
      PROVE  /\ DOMAIN With(GeneralRead(e), k, v) = DOMAIN e.general \cup {k}
             /\ \A key \in DOMAIN e.general :
                  key # k
                    => With(GeneralRead(e), k, v)[key] = EntryValue(e, key)
  BY <1>1, <1>2 DEF With
<1> QED
  BY <1>3, <1>4 DEF GeneralMade

LEMMA ReportSurvives ==
  ASSUME NEW e, IsReport(e), HasPlainKeys(e)
  PROVE  Survives(e, Made(e))
<1>1. /\ Made(e).owner = Owner(e) /\ Made(e).city = City(e)
      /\ Made(e).name = Name(e) /\ Made(e).date = e.date
      /\ Made(e).description = TrimEnd(e.description)
      /\ Made(e).general = GeneralMade(e) /\ Made(e).thrown = FALSE
  BY DEF Made, Told, Said
<1>2. /\ Splits(FieldLines(e)[1], User, e.owner)
      /\ Splits(FieldLines(e)[2], CityName, e.city)
      /\ Splits(FieldLines(e)[3], EventName, e.name)
      /\ e.owner \in Line /\ e.city \in Line /\ e.name \in Line
  BY FieldLinesSplit
<1>3. Len(e.owner) = 1 => Owner(e) = e.owner
  BY <1>2, KeyAndValue, OnePart DEF Owner
<1>4. Len(e.city) = 1 => City(e) = e.city
  BY <1>2, KeyAndValue, OnePart DEF City
<1>5. Len(e.name) = 1 => Name(e) = e.name
  BY <1>2, KeyAndValue, OnePart DEF Name
<1>6. /\ DOMAIN GeneralMade(e) = DOMAIN e.general \cup {"escription"}
      /\ \A key \in DOMAIN e.general :
           Len(e.general[key]) = 1 /\ key # "escription"
             => GeneralMade(e)[key] = e.general[key]
  BY GeneralIs
<1>7. Made(e).description = TrimEnd(e.description)
  BY <1>1
<1>8. /\ Len(e.owner) = 1 => Made(e).owner = e.owner
      /\ Len(e.city) = 1 => Made(e).city = e.city
      /\ Len(e.name) = 1 => Made(e).name = e.name
  BY <1>1, <1>3, <1>4, <1>5
<1>9. \A key \in DOMAIN e.general :
        /\ key \in DOMAIN Made(e).general
        /\ Len(e.general[key]) = 1 /\ key # "escription"
             => Made(e).general[key] = e.general[key]
  BY <1>1, <1>6
<1>10. DOMAIN Made(e).general \subseteq DOMAIN e.general \cup {"escription"}
  BY <1>1, <1>6
<1>11. ~Made(e).thrown /\ Made(e).date = e.date
  BY <1>1
<1> QED
  BY <1>7, <1>8, <1>9, <1>10, <1>11 DEF Survives

(* What a summary asks of a report.                                         *)
LEMMA FlagsSurvive ==
  ASSUME NEW e, IsReport(e), HasPlainKeys(e), IsPlain(e)
  PROVE  /\ Made(e).owner = e.owner
         /\ HasArrival(Made(e)) <=> HasArrival(e)
         /\ isActive(Made(e)) <=> isActive(e)
         /\ HasArrival(e) =>
              (forcesArrivalAtScene(Made(e)) <=> forcesArrivalAtScene(e))
<1>1. Made(e).general = GeneralMade(e)
  BY DEF Made, Told, Said
<1>2. Made(e).owner = e.owner
  BY ReportSurvives DEF IsPlain, Survives
<1>3. /\ DOMAIN GeneralMade(e) = DOMAIN e.general \cup {"escription"}
      /\ \A key \in DOMAIN e.general :
           key # "escription" => GeneralMade(e)[key] = EntryValue(e, key)
      /\ \A key \in DOMAIN e.general :
           Len(e.general[key]) = 1 => EntryValue(e, key) = e.general[key]
  BY GeneralIs
<1> DEFINE Yes == <<"true">>
           YesColon == <<"true", "">>
<1>4. ASSUME NEW key \in DOMAIN e.general, e.general[key] # YesColon
      PROVE  EntryValue(e, key) = Yes <=> e.general[key] = Yes
  <2>1. ASSUME e.general[key] = Yes
        PROVE  EntryValue(e, key) = Yes
    <3>1. Len(e.general[key]) = 1
      BY <2>1
    <3> QED
      BY <1>3, <2>1, <3>1
  <2>2. ASSUME EntryValue(e, key) = Yes
        PROVE  e.general[key] = Yes
    <3>1. ValOf(Entry(e, key)) = "true"
      BY <2>2 DEF EntryValue
    <3>2. /\ Splits(Entry(e, key), Indented(key), e.general[key])
          /\ e.general[key] \in Line
      BY EntryIs
    <3>3. e.general[key] \in {Yes, YesColon}
      BY <3>1, <3>2, KeyAndValue
    <3> HIDE DEF Yes, YesColon
    <3> QED
      BY <1>4, <3>3
  <2> QED
    BY <2>1, <2>2
<1>5. \A key \in DOMAIN e.general \cap {"active", "forces_arrival_at_scene"} :
        e.general[key] # YesColon
  BY DEF IsPlain
<1>6. ASSUME NEW key \in {"active", "forces_arrival_at_scene"}
      PROVE  /\ key \in DOMAIN GeneralMade(e) <=> key \in DOMAIN e.general
             /\ key \in DOMAIN e.general =>
                  (GeneralMade(e)[key] = Yes <=> e.general[key] = Yes)
  <2>1. key # "escription"
    OBVIOUS
  <2>2. key \in DOMAIN GeneralMade(e) <=> key \in DOMAIN e.general
    BY <1>3, <2>1
  <2> HIDE DEF Yes, YesColon
  <2>3. ASSUME key \in DOMAIN e.general
        PROVE  GeneralMade(e)[key] = Yes <=> e.general[key] = Yes
    <3>1. e.general[key] # YesColon
      BY <1>5, <2>3
    <3>2. GeneralMade(e)[key] = EntryValue(e, key)
      BY <1>3, <2>1, <2>3
    <3> QED
      BY <1>4, <2>3, <3>1, <3>2
  <2> QED
    BY <2>2, <2>3
<1>7. isActive(Made(e)) <=> isActive(e)
  <2>1. "active" \in {"active", "forces_arrival_at_scene"}
    OBVIOUS
  <2> QED
    BY <1>1, <1>6, <2>1 DEF isActive
<1>8. /\ HasArrival(Made(e)) <=> HasArrival(e)
      /\ HasArrival(e) =>
           (forcesArrivalAtScene(Made(e)) <=> forcesArrivalAtScene(e))
  <2>1. "forces_arrival_at_scene" \in {"active", "forces_arrival_at_scene"}
    OBVIOUS
  <2> QED
    BY <1>1, <1>6, <2>1 DEF HasArrival, forcesArrivalAtScene
<1> QED
  BY <1>2, <1>7, <1>8

-----------------------------------------------------------------------------
LEMMA RankIsNat ==
  ASSUME NEW name
  PROVE  Rank(name) \in Nat
<1> DEFINE I == {i \in 1 .. Len(NameOrder) : NameOrder[i] = name}
<1>1. Rank(name) = 0 \/ (I # {} /\ Rank(name) = Min(I))
  BY DEF Rank, SelectInSeq
<1>2. I \subseteq Nat
  OBVIOUS
<1> HIDE DEF I
<1>3. ASSUME I # {}
      PROVE  Min(I) \in Nat
  BY <1>2, <1>3, MinIsLeast
<1> QED  BY <1>1, <1>3

-----------------------------------------------------------------------------
(* lower_bound is where the events that come before e end.                  *)
LEMMA LowerBound ==
  ASSUME NEW S, NEW events \in Seq(S), NEW e
  PROVE  /\ lower_bound(events, e) \in 1 .. Len(events) + 1
         /\ \A j \in 1 .. lower_bound(events, e) - 1 : Before(events[j], e)
         /\ lower_bound(events, e) <= Len(events)
              => ~Before(events[lower_bound(events, e)], e)
<1> DEFINE later == {i \in 1 .. Len(events) : ~Before(events[i], e)}
<1>1. CASE later = {}
  <2>1. lower_bound(events, e) = Len(events) + 1
    BY <1>1 DEF lower_bound, SelectInSeq
  <2> QED  BY <1>1, <2>1
<1>2. CASE later # {}
  <2>0. later \subseteq Nat
    OBVIOUS
  <2>1. Min(later) \in later /\ \A x \in later : Min(later) <= x
    <3> HIDE DEF later
    <3> QED  BY <1>2, <2>0, MinIsLeast
  <2>2. lower_bound(events, e) = Min(later)
    BY <1>2, <2>1 DEF lower_bound, SelectInSeq
  <2> HIDE DEF lower_bound
  <2>3. \A j \in 1 .. Min(later) - 1 : j \in 1 .. Len(events) /\ j \notin later
    BY <2>1
  <2> QED  BY <2>1, <2>2, <2>3
<1> QED  BY <1>1, <1>2

(* Where the elements of a list are after an insertion.                     *)
LEMMA InsertAtParts ==
  ASSUME NEW S, NEW s \in Seq(S), NEW k \in 1 .. Len(s) + 1, NEW e \in S
  PROVE  LET t == InsertAt(s, k, e) IN
         /\ t \in Seq(S) /\ Len(t) = Len(s) + 1
         /\ \A i \in 1 .. Len(t) :
              t[i] = IF i < k THEN s[i] ELSE IF i = k THEN e ELSE s[i - 1]
<1> DEFINE begin == SubSeq(s, 1, k - 1)
<1> DEFINE rest == SubSeq(s, k, Len(s))
<1> DEFINE front == begin \o <<e>>
<1> DEFINE t == front \o rest
<1>1. /\ begin \in Seq(S) /\ Len(begin) = k - 1
      /\ \A i \in 1 .. k - 1 : begin[i] = s[i]
  OBVIOUS
<1>2. /\ rest \in Seq(S) /\ Len(rest) = Len(s) - k + 1
      /\ \A i \in 1 .. Len(s) - k + 1 : rest[i] = s[k + i - 1]
  OBVIOUS
<1> HIDE DEF begin, rest
<1>3. /\ front \in Seq(S) /\ Len(front) = k
      /\ \A i \in 1 .. k : front[i] = IF i < k THEN s[i] ELSE e
  <2>1. front \in Seq(S) /\ Len(front) = k
    BY <1>1
  <2>2. \A i \in 1 .. k - 1 : front[i] = begin[i]
    BY <1>1
  <2>3. front[k] = e
    BY <1>1
  <2> HIDE DEF front
  <2> QED  BY <1>1, <2>1, <2>2, <2>3
<1> HIDE DEF front
<1>4. t \in Seq(S) /\ Len(t) = Len(s) + 1
  <2>0. front \in Seq(S) /\ rest \in Seq(S)
    BY <1>2, <1>3
  <2>1. t \in Seq(S) /\ Len(t) = Len(front) + Len(rest)
    BY <2>0
  <2>2. Len(s) \in Nat
    OBVIOUS
  <2> HIDE DEF t
  <2> QED  BY <1>2, <1>3, <2>1, <2>2
<1>5. ASSUME NEW i \in 1 .. Len(s) + 1
      PROVE  t[i] = IF i < k THEN s[i] ELSE IF i = k THEN e ELSE s[i - 1]
  <2>1. CASE i <= k
    <3>1. t[i] = front[i]
      BY <1>2, <1>3, <2>1
    <3> QED  BY <1>3, <2>1, <3>1
  <2>2. CASE i > k
    <3>1. t[i] = rest[i - k]
      BY <1>2, <1>3, <2>2
    <3>2. rest[i - k] = s[i - 1]
      BY <1>2, <2>2
    <3> QED  BY <2>2, <3>1, <3>2
  <2> HIDE DEF t
  <2> QED  BY <2>1, <2>2
<1>6. t = InsertAt(s, k, e)
  BY DEF front, begin, rest, InsertAt
<1> HIDE DEF t
<1> QED  BY <1>4, <1>5, <1>6

(* An event goes where the list stays sorted: those before that place come  *)
(* before it, and the first one after it, hence all of them, do not.        *)
Sorted(events) ==
  \A i, j \in 1 .. Len(events) : i < j => ~Before(events[j], events[i])

LEMMA InsertKeepsSorted ==
  ASSUME NEW S, \A e \in S : e.date \in Int,
         NEW events \in Seq(S), NEW e \in S, Sorted(events)
  PROVE  insert(events, e) \in Seq(S) /\ Sorted(insert(events, e))
<1> DEFINE k == lower_bound(events, e)
<1> DEFINE t == InsertAt(events, k, e)
<1>1. /\ k \in 1 .. Len(events) + 1
      /\ \A j \in 1 .. k - 1 : Before(events[j], e)
      /\ k <= Len(events) => ~Before(events[k], e)
  BY LowerBound
<1> HIDE DEF k
<1>2. /\ t \in Seq(S) /\ Len(t) = Len(events) + 1
      /\ \A i \in 1 .. Len(t) :
           t[i] = IF i < k THEN events[i] ELSE IF i = k THEN e
                  ELSE events[i - 1]
  BY <1>1, InsertAtParts
<1> HIDE DEF t
<1>3. \A i \in 1 .. Len(events) : events[i] \in S
  OBVIOUS
<1>4. \A a, b \in S : Before(a, b) => ~Before(b, a)
  BY RankIsNat DEF Before
<1>5. \A a, b, c \in S : ~Before(b, a) /\ ~Before(c, b) => ~Before(c, a)
  BY RankIsNat DEF Before
<1>6. ASSUME NEW j \in k .. Len(events)
      PROVE  ~Before(events[j], e)
  <2>1. CASE j = k
    BY <1>1, <2>1
  <2>2. CASE j > k
    <3>1. ~Before(events[j], events[k])
      BY <1>1, <2>2 DEF Sorted
    <3> QED  BY <1>1, <1>3, <1>5, <2>2, <3>1
  <2> QED  BY <1>1, <2>1, <2>2
<1>7. ASSUME NEW i \in 1 .. Len(t), NEW j \in 1 .. Len(t), i < j
      PROVE  ~Before(t[j], t[i])
  <2>1. CASE i < k /\ j < k
    BY <1>1, <1>2, <1>7, <2>1 DEF Sorted
  <2>2. CASE i < k /\ j = k
    BY <1>1, <1>2, <1>3, <1>4, <2>2
  <2>3. CASE i < k /\ j > k
    <3>1. t[i] = events[i] /\ t[j] = events[j - 1] /\ i < j - 1
      BY <1>1, <1>2, <2>3
    <3>2. ~Before(events[j - 1], events[i])
      <4>1. i \in 1 .. Len(events) /\ j - 1 \in 1 .. Len(events)
        BY <1>1, <1>2, <2>3
      <4> QED  BY <3>1, <4>1 DEF Sorted
    <3> QED  BY <3>1, <3>2
  <2>4. CASE i = k
    <3>1. t[i] = e /\ t[j] = events[j - 1] /\ j - 1 \in k .. Len(events)
      BY <1>1, <1>2, <1>7, <2>4
    <3> QED  BY <1>6, <3>1
  <2>5. CASE i > k
    <3>1. t[i] = events[i - 1] /\ t[j] = events[j - 1]
      BY <1>1, <1>2, <1>7, <2>5
    <3>2. ~Before(events[j - 1], events[i - 1])
      <4>1. /\ i - 1 \in 1 .. Len(events) /\ j - 1 \in 1 .. Len(events)
            /\ i - 1 < j - 1
        BY <1>1, <1>2, <1>7, <2>5
      <4> QED  BY <4>1 DEF Sorted
    <3> QED  BY <3>1, <3>2
  <2> QED  BY <1>1, <1>2, <2>1, <2>2, <2>3, <2>4, <2>5
<1> QED  BY <1>2, <1>7 DEF Sorted, insert, t, k

-----------------------------------------------------------------------------
(* What may be reported.                                                    *)
Reported == UNION {Reports[k] : k \in 1 .. Len(Reports)}
Incoming == {Made(e) : e \in Reported}

LEMMA ReportedIs ==
  ASSUME NEW e \in Reported
  PROVE  /\ IsReport(e) /\ HasPlainKeys(e) /\ HasPlainText(e)
         /\ Received(e) = Made(e)
<1>1. PICK k \in 1 .. Len(Reports) : e \in Reports[k]
  BY DEF Reported
<1>2. IsReport(e)
  BY <1>1, ReportsAssumption
<1>3. HasPlainKeys(e)
  BY <1>1, TextAssumption DEF HasPlainKeys
<1>4. HasPlainText(e)
  BY <1>1, TextAssumption DEF HasPlainText
<1> QED
  BY <1>2, <1>3, <1>4, ReceivedIs

(* The list of the channel holds what arrived, each report once: pi gives   *)
(* its place.                                                               *)
Placed(pi, n) ==
  /\ pi \in [1 .. n -> 1 .. n]
  /\ \A i, j \in 1 .. n : pi[i] = pi[j] => i = j
  /\ \A k \in 1 .. n : \E i \in 1 .. n : pi[i] = k
  /\ \A i \in 1 .. n : eventList[pi[i]] = Made(arrived[i])

ListInv ==
  /\ arrived \in Seq(Reported) /\ eventList \in Seq(Incoming)
  /\ Len(eventList) = Len(arrived) /\ Sorted(eventList)
  /\ \E pi : Placed(pi, Len(arrived))

LEMMA DatesAreNumbers ==
  \A r \in Incoming : r.date \in Int
<1>1. ASSUME NEW e \in Reported
      PROVE  Made(e).date \in Int
  <2>1. Made(e).date = e.date
    BY DEF Made, Told, Said
  <2> QED
    BY <2>1, ReportedIs DEF IsReport, Dates
<1> QED
  BY <1>1 DEF Incoming

LEMMA ListInitially == Init => ListInv
<1> SUFFICES ASSUME Init
             PROVE  ListInv
  OBVIOUS
<1> DEFINE pi == [i \in 1 .. 0 |-> i]
<1>1. Placed(pi, 0)
  BY DEF Placed
<1>2. Len(arrived) = 0 /\ Len(eventList) = 0
  BY DEF Init
<1> HIDE DEF pi
<1>3. \E p : Placed(p, Len(arrived))
  BY <1>1, <1>2
<1>4. Sorted(eventList)
  BY <1>2 DEF Sorted
<1>5. arrived \in Seq(Reported) /\ eventList \in Seq(Incoming)
  BY DEF Init
<1> QED
  BY <1>2, <1>3, <1>4, <1>5 DEF ListInv

LEMMA ListStep ==
  ASSUME ListInv, NEW e \in Reported, messageHendel(e)
  PROVE  ListInv'
<1>0. Len(arrived) \in Nat
  BY DEF ListInv
<1>1. PICK n \in Nat : /\ n = Len(arrived) /\ Len(eventList) = n
                       /\ arrived \in Seq(Reported)
                       /\ eventList \in Seq(Incoming)
  BY <1>0 DEF ListInv
<1>2. Made(e) \in Incoming /\ Received(e) = Made(e)
  BY ReportedIs DEF Incoming
<1>3. lower_bound(eventList, Made(e)) \in 1 .. n + 1
  BY <1>1, LowerBound
<1>4. PICK k \in 1 .. n + 1 : eventList' = InsertAt(eventList, k, Made(e))
  BY <1>2, <1>3 DEF messageHendel, insert
<1>5. /\ eventList' \in Seq(Incoming) /\ Sorted(eventList')
  <2>1. /\ insert(eventList, Made(e)) \in Seq(Incoming)
        /\ Sorted(insert(eventList, Made(e)))
    BY <1>1, <1>2, DatesAreNumbers, InsertKeepsSorted DEF ListInv
  <2> QED
    BY <1>2, <2>1 DEF messageHendel
<1>6. /\ Len(eventList') = n + 1
      /\ \A i \in 1 .. n + 1 :
           eventList'[i] = IF i < k THEN eventList[i]
                           ELSE IF i = k THEN Made(e) ELSE eventList[i - 1]
  <2> DEFINE t == InsertAt(eventList, k, Made(e))
  <2>1. /\ Len(t) = Len(eventList) + 1
        /\ \A i \in 1 .. Len(t) :
             t[i] = IF i < k THEN eventList[i]
                    ELSE IF i = k THEN Made(e) ELSE eventList[i - 1]
    <3>1. /\ k \in 1 .. Len(eventList) + 1 /\ Made(e) \in Incoming
          /\ eventList \in Seq(Incoming)
      BY <1>1, <1>2
    <3> QED
      BY <3>1, InsertAtParts
  <2> HIDE DEF t
  <2>2. Len(t) = n + 1 /\ eventList' = t
    BY <1>1, <1>4, <2>1 DEF t
  <2> QED
    BY <2>1, <2>2
<1>7. /\ arrived' \in Seq(Reported) /\ Len(arrived') = n + 1
      /\ arrived'[n + 1] = e /\ \A i \in 1 .. n : arrived'[i] = arrived[i]
  BY <1>1 DEF messageHendel
<1>8. PICK pi : Placed(pi, n)
  BY <1>1 DEF ListInv
<1> DEFINE q == [i \in 1 .. n + 1 |-> IF i = n + 1 THEN k
                   ELSE IF pi[i] < k THEN pi[i] ELSE pi[i] + 1]
<1>9. /\ pi \in [1 .. n -> 1 .. n]
      /\ \A i, j \in 1 .. n : pi[i] = pi[j] => i = j
      /\ \A h \in 1 .. n : \E i \in 1 .. n : pi[i] = h
      /\ \A i \in 1 .. n : eventList[pi[i]] = Made(arrived[i])
  BY <1>8 DEF Placed
<1>10. /\ \A i \in 1 .. n : /\ i \in 1 .. n + 1 /\ i # n + 1
                            /\ pi[i] \in 1 .. n /\ pi[i] \in Nat
       /\ \A i \in 1 .. n + 1 : i = n + 1 \/ i \in 1 .. n
       /\ n + 1 \in 1 .. n + 1 /\ k \in Nat
  <2>1. \A i \in 1 .. n : pi[i] \in 1 .. n
    BY <1>9
  <2>2. \A i \in 1 .. n : i \in 1 .. n + 1 /\ i # n + 1 /\ i \in Nat
    OBVIOUS
  <2>3. \A i \in 1 .. n + 1 : i = n + 1 \/ i \in 1 .. n
    OBVIOUS
  <2>4. n + 1 \in 1 .. n + 1 /\ k \in Nat
    OBVIOUS
  <2> QED
    BY <2>1, <2>2, <2>3, <2>4
<1>17. PICK p : p = q
  OBVIOUS
<1>11. /\ p[n + 1] = k
       /\ \A i \in 1 .. n : p[i] = IF pi[i] < k THEN pi[i] ELSE pi[i] + 1
  BY <1>10, <1>17
<1>12. p \in [1 .. n + 1 -> 1 .. n + 1]
  <2>1. \A i \in 1 .. n + 1 : p[i] \in 1 .. n + 1
    BY <1>1, <1>4, <1>10, <1>11
  <2>2. p = [i \in 1 .. n + 1 |-> p[i]]
    BY <1>17
  <2> HIDE DEF q
  <2> QED
    BY <2>1, <2>2
<1> HIDE DEF q
<1>13. \A i, j \in 1 .. n + 1 : p[i] = p[j] => i = j
  <2>1. \A i, j \in 1 .. n : p[i] = p[j] => pi[i] = pi[j]
    BY <1>10, <1>11
  <2>2. \A i \in 1 .. n : p[i] # k
    BY <1>10, <1>11
  <2>3. \A i, j \in 1 .. n : p[i] = p[j] => i = j
    BY <1>9, <2>1
  <2> QED
    BY <1>10, <1>11, <2>2, <2>3
<1>14. ASSUME NEW h \in 1 .. n + 1
       PROVE  \E i \in 1 .. n + 1 : p[i] = h
  <2>1. CASE h < k
    <3>1. h \in 1 .. n
      BY <1>1, <1>4, <2>1
    <3>2. PICK i \in 1 .. n : pi[i] = h
      BY <1>9, <3>1
    <3> QED
      BY <1>10, <1>11, <2>1, <3>2
  <2>2. CASE h = k
    BY <1>10, <1>11, <2>2
  <2>3. CASE h > k
    <3>1. h - 1 \in 1 .. n /\ ~(h - 1 < k) /\ h - 1 + 1 = h
      BY <1>1, <1>4, <2>3
    <3>2. PICK i \in 1 .. n : pi[i] = h - 1
      BY <1>9, <3>1
    <3> QED
      BY <1>10, <1>11, <3>1, <3>2
  <2> QED
    BY <1>4, <2>1, <2>2, <2>3
<1>15. ASSUME NEW i \in 1 .. n + 1
       PROVE  eventList'[p[i]] = Made(arrived'[i])
  <2>1. CASE i = n + 1
    <3>1. k \in 1 .. n + 1 /\ ~(k < k) /\ p[i] = k
      BY <1>4, <1>11, <2>1
    <3> QED
      BY <1>6, <1>7, <2>1, <3>1
  <2>2. CASE i \in 1 .. n
    <3>1. eventList[pi[i]] = Made(arrived'[i])
      BY <1>7, <1>9, <2>2
    <3>2. CASE pi[i] < k
      <4>1. p[i] = pi[i] /\ pi[i] \in 1 .. n + 1
        BY <1>10, <1>11, <2>2, <3>2
      <4> QED
        BY <1>6, <3>1, <3>2, <4>1
    <3>3. CASE ~(pi[i] < k)
      <4>1. /\ p[i] = pi[i] + 1 /\ pi[i] + 1 \in 1 .. n + 1
            /\ ~(pi[i] + 1 < k) /\ pi[i] + 1 # k /\ pi[i] + 1 - 1 = pi[i]
        BY <1>1, <1>10, <1>11, <2>2, <3>3
      <4> DEFINE h == pi[i] + 1
      <4>2. eventList'[h] = eventList[h - 1]
        <5> HIDE DEF h
        <5> QED
          BY <1>6, <4>1 DEF h
      <4>3. p[i] = h /\ h - 1 = pi[i]
        <5>1. p[i] = h
          BY <4>1
        <5>2. h - 1 = pi[i]
          BY <1>10, <2>2
        <5> QED
          BY <5>1, <5>2
      <4> HIDE DEF h
      <4>4. eventList'[p[i]] = eventList[pi[i]]
        BY <4>2, <4>3
      <4> QED
        BY <3>1, <4>4
    <3> QED
      BY <3>2, <3>3
  <2> QED
    BY <1>10, <2>1, <2>2
<1>16. Placed(p, n + 1)'
  BY <1>12, <1>13, <1>14, <1>15 DEF Placed
<1>18. \E h : Placed(h, Len(arrived))'
  <2>1. Len(arrived)' = n + 1
    BY <1>7
  <2> QED
    BY <1>16, <2>1
<1> QED
  BY <1>5, <1>1, <1>6, <1>7, <1>18 DEF ListInv

-----------------------------------------------------------------------------
(* The inductive invariant of a channel: what arrived was reported, and the *)
(* sorted list holds what the constructor made of each of it, in a place of *)
(* its own (messageHendel).                                                 *)
THEOREM ReportsListed == Spec => []ListInv
<1>1. Init => ListInv
  BY ListInitially
<1>2. ListInv /\ [Next]_vars => ListInv'
  <2> SUFFICES ASSUME ListInv, [Next]_vars
               PROVE  ListInv'
    OBVIOUS
  <2>1. CASE Next
    <3>1. PICK e \in Reports[Len(arrived) + 1] : messageHendel(e)
      BY <2>1 DEF Next
    <3>2. Len(arrived) + 1 \in 1 .. Len(Reports)
      BY <2>1, ReportsAssumption DEF Next, ListInv
    <3>3. e \in Reported
      BY <3>2 DEF Reported
    <3> QED
      BY <3>1, <3>3, ListStep
  <2>2. CASE UNCHANGED vars
    <3>1. arrived' = arrived /\ eventList' = eventList
      BY <2>2 DEF vars
    <3> QED
      BY <3>1 DEF ListInv, Sorted, Placed
  <2> QED
    BY <2>1, <2>2
<1> QED
  BY <1>1, <1>2, PTL DEF Spec

(* The list of a channel is sorted after every MESSAGE, whatever was        *)
(* reported (messageHendel, EventsStaySorted).                              *)
THEOREM SortedReports == Spec => []EventsStaySorted
<1>1. ListInv => EventsStaySorted
  BY DEF ListInv, Sorted, EventsStaySorted, IsSorted
<1> QED
  BY <1>1, ReportsListed, PTL

(* What a report says arrives (getBodyFromEvent, the Event constructor and  *)
(* the two frames between them, BodiesSurvive).                             *)
THEOREM ReportsSurvive == Spec => []BodiesSurvive
<1>1. ListInv => BodiesSurvive
  <2> SUFFICES ASSUME ListInv
               PROVE  BodiesSurvive
    OBVIOUS
  <2>1. PICK pi : Placed(pi, Len(arrived))
    BY DEF ListInv
  <2>2. /\ arrived \in Seq(Reported) /\ eventList \in Seq(Incoming)
        /\ Len(eventList) = Len(arrived)
    BY DEF ListInv
  <2>3. ASSUME NEW i \in DOMAIN arrived
        PROVE  \E k \in DOMAIN eventList : Survives(arrived[i], eventList[k])
    <3>1. i \in 1 .. Len(arrived) /\ arrived[i] \in Reported
      BY <2>2
    <3>2. pi[i] \in DOMAIN eventList /\ eventList[pi[i]] = Made(arrived[i])
      BY <2>1, <2>2, <3>1 DEF Placed
    <3>3. Survives(arrived[i], Made(arrived[i]))
      BY <3>1, ReportedIs, ReportSurvives
    <3> QED
      BY <3>2, <3>3
  <2> QED
    BY <2>2, <2>3 DEF BodiesSurvive
<1> QED
  BY <1>1, ReportsListed, PTL

-----------------------------------------------------------------------------
(* The frames of FramesArrive.                                              *)
LEMMA FrameIsSame ==
  ASSUME NEW cmd \in Word, NEW h, IsMap(h), NEW body \in Seq(Line)
  PROVE  LET f == StompFrame(cmd, h, body) IN
         /\ NamesAreTrim(h) /\ body # NoBody
              => SameFrame(f, serverParse(clientToString(f)))
         /\ IsMap(Trimmed(h))
              => SameFrame(f, clientParse(serverToString(
                                ServerFrame(cmd, h, body))))
<1> DEFINE f == StompFrame(cmd, h, body)
<1> DEFINE g == ServerFrame(cmd, h, body)
<1>1. /\ f.command = cmd /\ f.headers = h /\ f.body = body
      /\ \A k, b : /\ StompFrame(cmd, k, b).command = cmd
                   /\ StompFrame(cmd, k, b).headers = k
                   /\ StompFrame(cmd, k, b).body = b
                   /\ StompFrame(cmd, k, b).thrown = FALSE
  BY DEF StompFrame
<1>2. ASSUME NamesAreTrim(h), body # NoBody
      PROVE  SameFrame(f, serverParse(clientToString(f)))
  <2>1. serverParse(clientToString(f))
          = StompFrame(cmd, Trimmed(h), Trim(body))
    BY <1>2, FramesSurvive
  <2> HIDE DEF f
  <2> QED
    BY <1>1, <1>2, <2>1 DEF SameFrame
<1>3. ASSUME IsMap(Trimmed(h))
      PROVE  SameFrame(f, clientParse(serverToString(g)))
  <2>1. clientParse(serverToString(g))
          = StompFrame(cmd, Trimmed(h),
                       IF body = NoBody THEN <<>> ELSE Trim(body))
    BY <1>3, FramesSurvive DEF ServerFrame
  <2> HIDE DEF f, g
  <2> QED
    BY <1>1, <2>1 DEF SameFrame
<1> QED
  BY <1>2, <1>3 DEF f, g

LEMMA TextTrims ==
  ASSUME NEW t \in Text, \A p \in PartsOf(t) : TrimsWell(p)
  PROVE  TrimText(t) \in Line
<1>1. t \in Line /\ t \in Seq(Word)
  BY TextIsLine DEF Line
<1> DEFINE n == Len(t)
<1>2. n \in Nat /\ n >= 1 /\ DOMAIN t = 1 .. n /\ \A i \in 1 .. n : t[i] \in Word
  BY <1>1 DEF Line
<1>3. TrimsWell(t[1]) /\ TrimsWell(t[n])
  <2>1. 1 \in 1 .. n /\ n \in 1 .. n
    BY <1>2
  <2> QED
    BY <1>2, <2>1 DEF PartsOf
<1>4. LTrim(t[1]) \in Word /\ RTrim(LTrim(t[1])) \in Word /\ RTrim(t[n]) \in Word
  BY <1>3 DEF TrimsWell, Word
<1> DEFINE u == LeadOff(t)
<1>5. u = [i \in 1 .. n |-> IF i = 1 THEN LTrim(t[1]) ELSE t[i]]
  BY <1>2 DEF LeadOff
<1> HIDE DEF u, n
<1>6. u \in [1 .. n -> Word]
  BY <1>2, <1>4, <1>5
<1>7. u \in Seq(Word) /\ Len(u) = n
  BY <1>2, <1>6
<1>8. u \in Line
  <2>1. u # <<>>
    BY <1>2, <1>7
  <2> QED
    BY <1>7, <2>1 DEF Line
<1>9. RTrim(u[Len(u)]) \in Word
  <2>1. CASE n = 1
    <3>1. u[Len(u)] = LTrim(t[1])
      BY <1>5, <1>7, <2>1
    <3> QED
      BY <1>4, <3>1
  <2>2. CASE n # 1
    <3>1. u[Len(u)] = t[n]
      BY <1>2, <1>5, <1>7, <2>2
    <3> QED
      BY <1>4, <3>1
  <2> QED
    BY <2>1, <2>2
<1> QED
  BY <1>8, <1>9, TrailOffIs DEF TrimText, u

LEMMA FramesOfReport ==
  ASSUME NEW e, IsReport(e), HasPlainKeys(e), HasPlainText(e)
  PROVE  LET login == StompFrame("CONNECT",
                        [login |-> e.owner, passcode |-> e.city], <<>>)
             event == SendFrame(e) IN
         /\ SameFrame(login, serverParse(clientToString(login)))
         /\ SameFrame(event, serverParse(clientToString(event)))
         /\ SameFrame(StompFrame("RECEIPT", [receipt_id |-> e.name], NoBody),
              clientParse(serverToString(
                ServerFrame("RECEIPT", [receipt_id |-> e.name], NoBody))))
         /\ SameFrame(StompFrame("ERROR", [message |-> e.name], event.body),
              clientParse(serverToString(
                ServerFrame("ERROR", [message |-> e.name], event.body))))
<1> DEFINE b == getBodyFromEvent(e)
<1>1. e.owner \in Line /\ e.city \in Line /\ e.name \in Line
  BY TextIsLine DEF IsReport
<1>2. /\ "CONNECT" \in Word /\ "SEND" \in Word /\ "RECEIPT" \in Word
      /\ "ERROR" \in Word
  BY DEF Word, Commands
<1>3. b \in Seq(Line)
  BY BodyIsLines
<1>4. /\ <<>> \in Seq(Line) /\ <<>> # NoBody
  BY DEF NoBody
<1>5. "null" \in Word /\ "channel" \in Word
  BY DEF Word, Words
<1>6. NoBody \in Seq(Line) /\ Len(NoBody) = 2
  <2>1. ASSUME NEW l \in Line
        PROVE  <<l, l>> \in Seq(Line) /\ Len(<<l, l>>) = 2
    OBVIOUS
  <2>2. <<"null">> \in Line
    BY <1>5, WordsAreLines
  <2> QED
    BY <2>1, <2>2 DEF NoBody
<1>7. b # NoBody
  <2>n. PICK n \in Nat : \E names :
          Describes(b, e, n, names, e.description)
    BY BodyDescribes
  <2>1. PICK names :
          Describes(b, e, n, names, e.description)
    BY <2>n
  <2>2. PICK m \in Nat : m = Len(e.description)
    <3>1. Len(e.description) \in Nat
      BY DEF IsReport
    <3> QED
      BY <3>1
  <2>3. Len(b) >= n + 6 + m
    BY <2>1, <2>2 DEF Describes
  <2> HIDE DEF b
  <2>4. Len(b) # 2
    <3>1. Len(b) \in Nat
      BY <1>3
    <3>2. \A x, i, j \in Nat : x >= i + 6 + j => x # 2
      OBVIOUS
    <3> QED
      BY <2>3, <3>1, <3>2
  <2> QED
    BY <1>6, <2>4
<1> HIDE DEF b
<1> DEFINE channel == <<"channel">>
<1>8. channel \in Line
  BY <1>5, WordsAreLines
<1>9. SendFrame(e) = StompFrame("SEND", [destination |-> channel], b)
  BY DEF SendFrame, b
<1>10. SendFrame(e).body = b
  BY <1>9 DEF StompFrame
<1> HIDE DEF channel
<1> DEFINE h1 == [login |-> e.owner, passcode |-> e.city]
           h2 == [destination |-> channel]
           h3 == [receipt_id |-> e.name]
           h4 == [message |-> e.name]
<1>11. IsMap(h1) /\ IsMap(h2) /\ IsMap(h3) /\ IsMap(h4)
  BY <1>1, <1>8, HeadersAreMaps
<1>12. NamesAreTrim(h1) /\ NamesAreTrim(h2)
  <2>1. /\ "login" \in HeaderNames /\ "passcode" \in HeaderNames
        /\ "destination" \in HeaderNames
    BY DEF HeaderNames
  <2>2. ASSUME NEW name \in HeaderNames
        PROVE  RTrim(LTrim(name)) = name
    BY TextAssumption
  <2>3. /\ DOMAIN h1 = {"login", "passcode"} /\ DOMAIN h2 = {"destination"}
    OBVIOUS
  <2> HIDE DEF h1, h2
  <2>4. DOMAIN h1 \subseteq HeaderNames /\ DOMAIN h2 \subseteq HeaderNames
    BY <2>1, <2>3
  <2> QED
    BY <2>2, <2>4 DEF NamesAreTrim
<1>13. IsMap(Trimmed(h3)) /\ IsMap(Trimmed(h4))
  <2>1. TrimText(e.name) \in Line
    BY TextTrims DEF IsReport, HasPlainText
  <2>2. /\ Trimmed(h3) = [receipt_id |-> TrimText(e.name)]
        /\ Trimmed(h4) = [message |-> TrimText(e.name)]
    BY DEF Trimmed
  <2> QED
    BY <2>1, <2>2, HeadersAreMaps
<1> HIDE DEF h1, h2, h3, h4
<1>14. LET f == StompFrame("CONNECT", h1, <<>>) IN
         SameFrame(f, serverParse(clientToString(f)))
  BY <1>2, <1>4, <1>11, <1>12, FrameIsSame
<1>15. LET f == StompFrame("SEND", h2, b) IN
         SameFrame(f, serverParse(clientToString(f)))
  BY <1>2, <1>3, <1>7, <1>11, <1>12, FrameIsSame
<1>16. SameFrame(StompFrame("RECEIPT", h3, NoBody),
         clientParse(serverToString(ServerFrame("RECEIPT", h3, NoBody))))
  BY <1>2, <1>6, <1>11, <1>13, FrameIsSame
<1>17. SameFrame(StompFrame("ERROR", h4, b),
         clientParse(serverToString(ServerFrame("ERROR", h4, b))))
  BY <1>2, <1>3, <1>11, <1>13, FrameIsSame
<1> QED
  BY <1>9, <1>10, <1>14, <1>15, <1>16, <1>17 DEF h1, h2, h3, h4

(* Frames arrive as they were sent, up to the blanks and blank lines that   *)
(* are trimmed (StompFrame.toString and parseStompFrame of both sides,      *)
(* FramesArrive).                                                           *)
THEOREM ReportFramesArrive == Spec => []FramesArrive
<1>1. ListInv => FramesArrive
  <2> SUFFICES ASSUME ListInv
               PROVE  FramesArrive
    OBVIOUS
  <2>1. ASSUME NEW i \in DOMAIN arrived
        PROVE  /\ IsReport(arrived[i]) /\ HasPlainKeys(arrived[i])
               /\ HasPlainText(arrived[i])
    <3>1. arrived[i] \in Reported
      BY DEF ListInv
    <3> QED
      BY <3>1, ReportedIs
  <2> QED
    BY <2>1, FramesOfReport DEF FramesArrive
<1> QED
  BY <1>1, ReportsListed, PTL

-----------------------------------------------------------------------------
(* G goes through the events of a summary step by step.                     *)
CountSteps(G, events, user, n) ==
  /\ G[0] = NoSummary
  /\ \A i \in 1 .. n : G[i] = Count(user, G[i - 1], events[i])
  /\ summaryOf(events, user) = G[n]

LEMMA FoldOfCounts ==
  ASSUME NEW user, NEW n \in Nat, NEW events, DOMAIN events = 1 .. n
  PROVE  \E G : CountSteps(G, events, user, n)
<1> DEFINE Folds(it, k) ==
      it = [s \in SUBSET (1 .. k) |-> IF s = {} THEN NoSummary
              ELSE Count(user, it[s \ {Max(s)}], events[Max(s)])]
<1> DEFINE T == {k \in 0 .. n : \E it : Folds(it, k)}
<1>1. 0 \in T
  <2> DEFINE it == [s \in SUBSET (1 .. 0) |-> NoSummary]
  <2>1. \A s \in SUBSET (1 .. 0) : s = {}
    OBVIOUS
  <2>2. Folds(it, 0)
    BY <2>1
  <2> HIDE DEF it, Folds
  <2> QED
    BY <2>2
<1>2. ASSUME NEW k \in 1 .. n, k - 1 \in T
      PROVE  k \in T
  <2>1. PICK old : Folds(old, k - 1)
    BY <1>2
  <2> DEFINE it == [s \in SUBSET (1 .. k) |->
                      IF k \in s THEN Count(user, old[s \ {k}], events[k])
                      ELSE old[s]]
  <2>2. \A s \in SUBSET (1 .. k) :
          /\ s \ {k} \in SUBSET (1 .. k - 1)
          /\ k \notin s => s \in SUBSET (1 .. k - 1)
    OBVIOUS
  <2>3. ASSUME NEW s \in SUBSET (1 .. k)
        PROVE  it[s] = IF s = {} THEN NoSummary
                       ELSE Count(user, it[s \ {Max(s)}], events[Max(s)])
    <3>1. CASE k \in s
      <4>1. Max(s) = k
        <5>1. s \subseteq 1 .. k /\ k \in Nat
          OBVIOUS
        <5> HIDE DEF it, T
        <5>2. Max(s) \in s /\ k <= Max(s)
          BY <3>1, <5>1, MaxIsGreatest
        <5>3. Max(s) \in 1 .. k
          BY ONLY <5>1, <5>2
        <5> QED
          BY ONLY <5>1, <5>2, <5>3
      <4>2. /\ it[s] = Count(user, old[s \ {k}], events[k])
            /\ it[s \ {k}] = old[s \ {k}]
        BY <3>1
      <4> QED
        BY <3>1, <4>1, <4>2
    <3>2. CASE k \notin s
      <4>1. s \in SUBSET (1 .. k - 1) /\ it[s] = old[s]
        BY <2>2, <3>2
      <4>2. it[s \ {Max(s)}] = old[s \ {Max(s)}]
        BY <3>2
      <4>3. old[s] = IF s = {} THEN NoSummary
                     ELSE Count(user, old[s \ {Max(s)}], events[Max(s)])
        BY <2>1, <4>1
      <4> HIDE DEF it
      <4> QED
        BY <4>1, <4>2, <4>3
    <3> QED
      BY <3>1, <3>2
  <2>4. it = [s \in SUBSET (1 .. k) |-> it[s]]
    OBVIOUS
  <2> HIDE DEF it
  <2>5. Folds(it, k)
    BY <2>3, <2>4
  <2> HIDE DEF Folds
  <2> QED
    BY <1>2, <2>5
<1>3. \E it : Folds(it, n)
  <2> HIDE DEF Folds
  <2>1. \A k \in 1 .. n : k - 1 \in T => k \in T
    BY <1>2
  <2>2. n \in T
    <3> HIDE DEF T
    <3> QED
      BY <1>1, <2>1, LastGoodIndex
  <2> QED
    BY <2>2
<1> DEFINE fold == CHOOSE it : Folds(it, n)
<1>4. Folds(fold, n)
  <2> HIDE DEF Folds
  <2> QED
    BY <1>3
<1>5. summaryOf(events, user) = fold[1 .. n]
  BY DEF summaryOf, FoldLeft, MapThenFoldSet
<1> HIDE DEF fold, T
<1> DEFINE G == [i \in 0 .. n |-> fold[1 .. i]]
<1>6. G[0] = NoSummary
  <2>1. 1 .. 0 = {} /\ {} \in SUBSET (1 .. n)
    OBVIOUS
  <2> QED
    BY <1>4, <2>1
<1>7. ASSUME NEW i \in 1 .. n
      PROVE  G[i] = Count(user, G[i - 1], events[i])
  <2>1. 1 .. i \subseteq 1 .. n /\ i \in 1 .. i
    OBVIOUS
  <2>2. Max(1 .. i) = i
    BY MaxOfInterval
  <2>3. (1 .. i) \ {i} = 1 .. i - 1
    OBVIOUS
  <2>4. fold[1 .. i] = Count(user, fold[1 .. i - 1], events[i])
    BY <1>4, <2>1, <2>2, <2>3
  <2> QED
    BY <2>4
<1>8. CountSteps(G, events, user, n)
  <2>1. G[n] = fold[1 .. n]
    OBVIOUS
  <2> HIDE DEF G
  <2> QED
    BY <1>5, <1>6, <1>7, <2>1 DEF CountSteps
<1> HIDE DEF G
<1> QED
  BY <1>8

(* The events of a user among the first n, and what is counted of them.     *)
OwnOf(events, user, n) == {i \in 1 .. n : events[i].owner = user}
ActiveOf(events, user, n) ==
  {i \in OwnOf(events, user, n) : isActive(events[i])}
ArrivedOf(events, user, n) ==
  {i \in OwnOf(events, user, n) : forcesArrivalAtScene(events[i])}

Tally(total, active, arrivals, thrown) ==
  [total |-> total, active |-> active, arrivals |-> arrivals,
   thrown |-> thrown]

Lacks(events, user, n) ==
  \E i \in OwnOf(events, user, n) : ~HasArrival(events[i])

Sums(sum, events, user, n) ==
  IF Lacks(events, user, n) THEN sum.thrown = TRUE
  ELSE sum = Tally(Cardinality(OwnOf(events, user, n)),
                   Cardinality(ActiveOf(events, user, n)),
                   Cardinality(ArrivedOf(events, user, n)), FALSE)

LEMMA OneMore ==
  ASSUME NEW n \in Nat, NEW A \in SUBSET (1 .. n)
  PROVE  /\ Cardinality(A) \in Nat
         /\ Cardinality(A \cup {n + 1}) = Cardinality(A) + 1
<1>1. IsFiniteSet(A)
  <2>1. IsFiniteSet(1 .. n)
    BY FS_Interval
  <2> QED
    BY <2>1, FS_Subset
<1>2. n + 1 \notin A
  OBVIOUS
<1>3. Cardinality(A) \in Nat
  BY <1>1, FS_CardinalityType
<1>4. Cardinality(A \cup {n + 1}) = Cardinality(A) + 1
  BY <1>1, <1>2, FS_AddElement
<1> QED
  BY <1>3, <1>4

LEMMA CountStep ==
  ASSUME NEW user, NEW n \in Nat, NEW events, NEW sum,
         Sums(sum, events, user, n)
  PROVE  Sums(Count(user, sum, events[n + 1]), events, user, n + 1)
<1> DEFINE j == n + 1
           e == events[j]
           own == OwnOf(events, user, n)
           act == ActiveOf(events, user, n)
           arr == ArrivedOf(events, user, n)
<1>0. own \subseteq 1 .. n /\ act \subseteq 1 .. n /\ arr \subseteq 1 .. n
  BY DEF OwnOf, ActiveOf, ArrivedOf
<1>1. 1 .. j = (1 .. n) \cup {j}
  OBVIOUS
<1>2. CASE Lacks(events, user, n)
  <2>1. Lacks(events, user, j)
    BY <1>1, <1>2 DEF Lacks, OwnOf
  <2>2. sum.thrown = TRUE
    BY <1>2 DEF Sums
  <2>3. Count(user, sum, e) = sum
    BY <2>2 DEF Count
  <2> QED
    BY <2>1, <2>2, <2>3 DEF Sums
<1>3. CASE ~Lacks(events, user, n)
  <2> DEFINE N == Cardinality(own)
             A == Cardinality(act)
             R == Cardinality(arr)
  <2>1. sum = Tally(N, A, R, FALSE)
    BY <1>3 DEF Sums
  <2>2. CASE e.owner # user
    <3>1. /\ OwnOf(events, user, j) = own
      BY <1>1, <2>2 DEF OwnOf
    <3>2. ActiveOf(events, user, j) = act /\ ArrivedOf(events, user, j) = arr
      BY <3>1 DEF ActiveOf, ArrivedOf
    <3>3. ~Lacks(events, user, j)
      BY <1>3, <3>1 DEF Lacks
    <3>4. Count(user, sum, e) = sum
      BY <2>2 DEF Count
    <3> QED
      BY <2>1, <3>1, <3>2, <3>3, <3>4 DEF Sums
  <2>3. CASE e.owner = user /\ ~HasArrival(e)
    <3>1. Lacks(events, user, j)
      BY <1>1, <2>3 DEF Lacks, OwnOf
    <3>2. Count(user, sum, e) = [sum EXCEPT !.thrown = TRUE]
      <4>1. ~sum.thrown
        BY <2>1 DEF Tally
      <4> QED
        BY <2>3, <4>1 DEF Count
    <3>3. [sum EXCEPT !.thrown = TRUE].thrown = TRUE
      BY <2>1 DEF Tally
    <3> QED
      BY <3>1, <3>2, <3>3 DEF Sums
  <2>4. CASE e.owner = user /\ HasArrival(e)
    <3>1. OwnOf(events, user, j) = own \cup {j}
      BY <1>1, <2>4 DEF OwnOf
    <3>2. ActiveOf(events, user, j) = IF isActive(e) THEN act \cup {j} ELSE act
      BY <3>1 DEF ActiveOf
    <3>3. ArrivedOf(events, user, j)
            = IF forcesArrivalAtScene(e) THEN arr \cup {j} ELSE arr
      BY <3>1 DEF ArrivedOf
    <3>4. ~Lacks(events, user, j)
      BY <1>3, <2>4, <3>1 DEF Lacks
    <3> DEFINE a == Bit(isActive(e))
               r == Bit(forcesArrivalAtScene(e))
    <3> HIDE DEF own, act, arr, e
    <3>0. /\ Cardinality(own \cup {j}) = N + 1
          /\ Cardinality(act \cup {j}) = A + 1
          /\ Cardinality(arr \cup {j}) = R + 1 /\ A \in Nat /\ R \in Nat
      BY <1>0, OneMore
    <3> HIDE DEF j
    <3>5. Cardinality(OwnOf(events, user, j)) = N + 1
      BY <3>0, <3>1
    <3>6. Cardinality(ActiveOf(events, user, j)) = A + a
      <4>1. CASE isActive(e)
        BY <3>0, <3>2, <4>1 DEF Bit
      <4>2. CASE ~isActive(e)
        BY <3>0, <3>2, <4>2 DEF Bit
      <4> QED
        BY <4>1, <4>2
    <3>7. Cardinality(ArrivedOf(events, user, j)) = R + r
      <4>1. CASE forcesArrivalAtScene(e)
        BY <3>0, <3>3, <4>1 DEF Bit
      <4>2. CASE ~forcesArrivalAtScene(e)
        BY <3>0, <3>3, <4>2 DEF Bit
      <4> QED
        BY <4>1, <4>2
    <3> HIDE DEF N, A, R, a, r
    <3>8. Count(user, sum, e) = Tally(N + 1, A + a, R + r, FALSE)
      <4>1. /\ sum.total = N /\ sum.active = A /\ sum.arrivals = R
            /\ ~sum.thrown
        BY <2>1 DEF Tally
      <4>2. Count(user, sum, e) = [sum EXCEPT !.total = @ + 1, !.active = @ + a,
                                              !.arrivals = @ + r]
        BY <2>4, <4>1 DEF Count, a, r
      <4>3. Count(user, sum, e)
              = [sum EXCEPT !.total = N + 1, !.active = A + a,
                            !.arrivals = R + r]
        BY <4>1, <4>2
      <4> DEFINE x == N + 1
                 y == A + a
                 z == R + r
      <4> HIDE DEF x, y, z
      <4>4. Count(user, sum, e)
              = [sum EXCEPT !.total = x, !.active = y, !.arrivals = z]
        BY <4>3 DEF x, y, z
      <4> QED
        BY <2>1, <4>4 DEF Tally, x, y, z
    <3> QED
      BY <3>4, <3>5, <3>6, <3>7, <3>8 DEF Sums, j, e
  <2> QED
    BY <2>2, <2>3, <2>4
<1> QED
  BY <1>2, <1>3

LEMMA SummaryIs ==
  ASSUME NEW user, NEW n \in Nat, NEW events, DOMAIN events = 1 .. n
  PROVE  Sums(summaryOf(events, user), events, user, n)
<1>1. PICK G : CountSteps(G, events, user, n)
  BY FoldOfCounts
<1> DEFINE T == {i \in 0 .. n : Sums(G[i], events, user, i)}
<1>2. 0 \in T
  <2>1. OwnOf(events, user, 0) = {}
    BY DEF OwnOf
  <2>2. ActiveOf(events, user, 0) = {} /\ ArrivedOf(events, user, 0) = {}
    BY <2>1 DEF ActiveOf, ArrivedOf
  <2>3. ~Lacks(events, user, 0)
    BY <2>1 DEF Lacks
  <2>4. Cardinality({}) = 0
    BY FS_EmptySet
  <2>5. G[0] = Tally(0, 0, 0, FALSE)
    BY <1>1 DEF CountSteps, NoSummary, Tally
  <2>6. /\ Cardinality(OwnOf(events, user, 0)) = 0
        /\ Cardinality(ActiveOf(events, user, 0)) = 0
        /\ Cardinality(ArrivedOf(events, user, 0)) = 0
    BY <2>1, <2>2, <2>4
  <2>7. Sums(G[0], events, user, 0)
    BY <2>3, <2>5, <2>6 DEF Sums
  <2>8. 0 \in 0 .. n
    OBVIOUS
  <2> QED
    BY <2>7, <2>8
<1>3. ASSUME NEW i \in 1 .. n, i - 1 \in T
      PROVE  i \in T
  <2>1. G[i] = Count(user, G[i - 1], events[i])
    BY <1>1 DEF CountSteps
  <2>2. Sums(G[i - 1], events, user, i - 1)
    BY <1>3
  <2>3. i - 1 \in Nat /\ i - 1 + 1 = i
    OBVIOUS
  <2>4. Sums(Count(user, G[i - 1], events[i]), events, user, i)
    BY <2>2, <2>3, CountStep
  <2> QED
    BY <2>1, <2>4
<1>4. 0 .. n \subseteq T
  <2>1. \A i \in 1 .. n : i - 1 \in T => i \in T
    BY <1>3
  <2> HIDE DEF T
  <2> QED
    BY <1>2, <2>1, LastGoodIndex
<1>5. Sums(G[n], events, user, n)
  BY <1>4
<1> QED
  BY <1>1, <1>5 DEF CountSteps

-----------------------------------------------------------------------------
(* As many places as reports.                                               *)
LEMMA SameNumber ==
  ASSUME NEW n \in Nat, NEW pi, Placed(pi, n),
         NEW A \in SUBSET (1 .. n), NEW B \in SUBSET (1 .. n),
         \A i \in 1 .. n : pi[i] \in B <=> i \in A
  PROVE  Cardinality(B) = Cardinality(A)
<1> DEFINE f == [i \in A |-> pi[i]]
<1>1. /\ pi \in [1 .. n -> 1 .. n]
      /\ \A i, j \in 1 .. n : pi[i] = pi[j] => i = j
      /\ \A k \in 1 .. n : \E i \in 1 .. n : pi[i] = k
  BY DEF Placed
<1>2. f \in [A -> B]
  OBVIOUS
<1>3. \A i, j \in A : f[i] = f[j] => i = j
  BY <1>1
<1>4. \A k \in B : \E i \in A : f[i] = k
  BY <1>1
<1> HIDE DEF f
<1>5. f \in Bijection(A, B)
  BY <1>2, <1>3, <1>4 DEF Bijection, Injection, Surjection, IsInjective
<1>6. ExistsBijection(A, B)
  BY <1>5 DEF ExistsBijection
<1>7. IsFiniteSet(A)
  <2>1. IsFiniteSet(1 .. n)
    BY FS_Interval
  <2> QED
    BY <2>1, FS_Subset
<1> QED
  BY <1>6, <1>7, FS_Bijection

(* A summary counts what its user sent, all of it and nothing else, and     *)
(* throws when a report of the user lacks its entry, and only then          *)
(* (summaryHendel, SummaryCountsWhatWasSent).                               *)
THEOREM SummariesCount == Spec => []SummaryCountsWhatWasSent
<1>1. ListInv => SummaryCountsWhatWasSent
  <2> SUFFICES ASSUME ListInv,
                      \A i \in DOMAIN arrived : IsPlain(arrived[i]),
                      NEW user
               PROVE
        LET own == {i \in DOMAIN arrived : arrived[i].owner = user}
            sum == summaryOf(eventList, user) IN
        IF \E i \in own : ~HasArrival(arrived[i]) THEN sum.thrown
        ELSE /\ ~sum.thrown
             /\ sum.total = Cardinality(own)
             /\ sum.active = Cardinality({i \in own : isActive(arrived[i])})
             /\ sum.arrivals =
                  Cardinality({i \in own : forcesArrivalAtScene(arrived[i])})
    BY DEF SummaryCountsWhatWasSent
  <2> DEFINE own == {i \in DOMAIN arrived : arrived[i].owner = user}
             act == {i \in own : isActive(arrived[i])}
             arr == {i \in own : forcesArrivalAtScene(arrived[i])}
             sum == summaryOf(eventList, user)
  <2>0. Len(arrived) \in Nat
    BY DEF ListInv
  <2>1. PICK n \in Nat : n = Len(arrived)
    BY <2>0
  <2>2. PICK pi : Placed(pi, n)
    BY <2>1 DEF ListInv
  <2>3. DOMAIN arrived = 1 .. n /\ DOMAIN eventList = 1 .. n
    BY <2>1 DEF ListInv
  <2>4. /\ pi \in [1 .. n -> 1 .. n]
        /\ \A k \in 1 .. n : \E i \in 1 .. n : pi[i] = k
        /\ \A i \in 1 .. n : eventList[pi[i]] = Made(arrived[i])
    BY <2>2 DEF Placed
  <2>5. ASSUME NEW i \in 1 .. n
        PROVE  /\ eventList[pi[i]].owner = arrived[i].owner
               /\ HasArrival(eventList[pi[i]]) <=> HasArrival(arrived[i])
               /\ isActive(eventList[pi[i]]) <=> isActive(arrived[i])
               /\ HasArrival(arrived[i]) =>
                    (forcesArrivalAtScene(eventList[pi[i]])
                       <=> forcesArrivalAtScene(arrived[i]))
    <3>1. arrived[i] \in Reported /\ IsPlain(arrived[i])
      BY <2>3 DEF ListInv
    <3>2. IsReport(arrived[i]) /\ HasPlainKeys(arrived[i])
      BY <3>1, ReportedIs
    <3>3. eventList[pi[i]] = Made(arrived[i])
      BY <2>4
    <3> QED
      BY <3>1, <3>2, <3>3, FlagsSurvive
  <2>6. Sums(sum, eventList, user, n)
    BY <2>3, SummaryIs
  <2> DEFINE Own == OwnOf(eventList, user, n)
             Act == ActiveOf(eventList, user, n)
             Arr == ArrivedOf(eventList, user, n)
  <2>7. /\ Own \in SUBSET (1 .. n) /\ Act \in SUBSET (1 .. n)
        /\ Arr \in SUBSET (1 .. n) /\ own \in SUBSET (1 .. n)
        /\ act \in SUBSET (1 .. n) /\ arr \in SUBSET (1 .. n)
    BY <2>3 DEF OwnOf, ActiveOf, ArrivedOf
  <2>8. \A i \in 1 .. n : pi[i] \in Own <=> i \in own
    BY <2>3, <2>4, <2>5 DEF OwnOf
  <2>9. \A i \in 1 .. n : pi[i] \in Act <=> i \in act
    <3>1. \A i \in 1 .. n : pi[i] \in Act
            <=> pi[i] \in Own /\ isActive(eventList[pi[i]])
      BY DEF ActiveOf
    <3> HIDE DEF Own, own, Act
    <3>2. \A i \in 1 .. n : i \in act <=> i \in own /\ isActive(arrived[i])
      OBVIOUS
    <3> QED
      BY <2>5, <2>8, <3>1, <3>2
  <2>10. Lacks(eventList, user, n) <=> \E i \in own : ~HasArrival(arrived[i])
    <3>1. ASSUME NEW i \in own, ~HasArrival(arrived[i])
          PROVE  Lacks(eventList, user, n)
      <4>1. i \in 1 .. n
        BY <2>3
      <4>2. pi[i] \in Own /\ ~HasArrival(eventList[pi[i]])
        BY <2>5, <2>8, <3>1, <4>1
      <4> QED
        BY <4>2 DEF Lacks
    <3>2. ASSUME NEW k \in Own, ~HasArrival(eventList[k])
          PROVE  \E i \in own : ~HasArrival(arrived[i])
      <4>1. PICK i \in 1 .. n : pi[i] = k
        BY <2>4, <2>7
      <4> QED
        BY <2>5, <2>8, <3>2, <4>1
    <3> QED
      BY <3>1, <3>2 DEF Lacks
  <2>11. CASE Lacks(eventList, user, n)
    <3>1. sum.thrown = TRUE
      BY <2>6, <2>11 DEF Sums
    <3> QED
      BY <2>10, <2>11, <3>1
  <2>12. CASE ~Lacks(eventList, user, n)
    <3>1. \A i \in 1 .. n : pi[i] \in Arr <=> i \in arr
      <4>1. \A i \in 1 .. n : pi[i] \in Arr
              <=> pi[i] \in Own /\ forcesArrivalAtScene(eventList[pi[i]])
        BY DEF ArrivedOf
      <4>2. \A i \in own : HasArrival(arrived[i])
        BY <2>10, <2>12
      <4> HIDE DEF Own, own, Arr
      <4>3. \A i \in 1 .. n : i \in arr
              <=> i \in own /\ forcesArrivalAtScene(arrived[i])
        OBVIOUS
      <4> QED
        BY <2>5, <2>8, <4>1, <4>2, <4>3
    <3> HIDE DEF Own, Act, Arr, own, act, arr
    <3>2. Cardinality(Own) = Cardinality(own)
      BY <2>2, <2>7, <2>8, SameNumber
    <3>3. Cardinality(Act) = Cardinality(act)
      BY <2>2, <2>7, <2>9, SameNumber
    <3>4. Cardinality(Arr) = Cardinality(arr)
      BY <2>2, <2>7, <3>1, SameNumber
    <3>5. sum = Tally(Cardinality(Own), Cardinality(Act), Cardinality(Arr),
                      FALSE)
      BY <2>6, <2>12 DEF Sums, Own, Act, Arr
    <3> HIDE DEF sum
    <3>6. /\ ~sum.thrown /\ sum.total = Cardinality(own)
          /\ sum.active = Cardinality(act) /\ sum.arrivals = Cardinality(arr)
      BY <3>2, <3>3, <3>4, <3>5 DEF Tally
    <3>7. ~\E i \in own : ~HasArrival(arrived[i])
      BY <2>10, <2>12
    <3> QED
      BY <3>6, <3>7 DEF own, act, arr, sum
  <2> QED
    BY <2>11, <2>12
<1> QED
  BY <1>1, ReportsListed, PTL
=============================================================================
