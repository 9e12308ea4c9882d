------------------------ MODULE QuestionAnsweringProofs ------------------------
(* One question comes to an end, is about the method that it names, shows code   *)
(* of that method or of the graph beside it, and asks the language model with    *)
(* the latest change or the best hit and again within its budget; the picture of *)
(* a flow is a tree of sure calls.  For any graph, any chunks, any budget, any   *)
(* analyses meanwhile and any number of rounds.                                  *)
EXTENDS QuestionAnswering, SequenceTheorems, FiniteSetTheorems, WellFoundedInduction, TLAPS

-----------------------------------------------------------------------------
(* Lists and folds over them *)

\* A set of sets of indices has a smallest one.
LEMMA SmallestSet ==
    ASSUME NEW n \in Nat, NEW T, T # {}, \A x \in T : x \in SUBSET (1 .. n)
    PROVE  \E x \in T : \A y \in T : y \subseteq x => y = x
<1> DEFINE F == FiniteSubsetsOf(Nat)
           R == StrictSubsetOrdering(Nat)
<1>1. IsWellFoundedOn(R, F)
    BY FS_StrictSubsetOrderingWellFounded
<1>2. T \subseteq F
    <2> SUFFICES ASSUME NEW x \in T PROVE x \in F
        OBVIOUS
    <2>1. x \in SUBSET (1 .. n) /\ IsFiniteSet(1 .. n) /\ (1 .. n) \subseteq Nat
        BY FS_Interval
    <2>2. IsFiniteSet(x)
        BY <2>1, FS_Subset
    <2> QED BY <2>1, <2>2 DEF FiniteSubsetsOf
<1> HIDE DEF R, F
<1>3. PICK x \in T : \A y \in T : ~ (<<y, x>> \in R)
    BY <1>1, <1>2, WFMin
<1>4. ASSUME NEW y \in T, y \subseteq x, y # x PROVE FALSE
    <2>1. y \in SUBSET Nat /\ x \in SUBSET Nat
        OBVIOUS
    <2>2. <<y, x>> \in R
        BY <1>4, <2>1 DEF R, StrictSubsetOrdering
    <2> QED BY <1>3, <2>2
<1> QED BY <1>4

\* What a list and another one after it have.
LEMMA ConcatSet ==
    ASSUME NEW X, NEW s \in Seq(X), NEW t \in Seq(X)
    PROVE  ToSet(s \o t) = ToSet(s) \cup ToSet(t)
<1>1. \A r \in Seq(X) : ToSet(r) = Range(r)
    BY DEF ToSet, Range
<1>2. s \o t \in Seq(X)
    OBVIOUS
<1>3. Range(s \o t) = Range(s) \cup Range(t)
    BY RangeConcatenation
<1> QED BY <1>1, <1>2, <1>3

\* The last of some indices.
LEMMA LastIndex ==
    ASSUME NEW n \in Nat, NEW s \in SUBSET (1 .. n), s # {}
    PROVE  Max(s) \in s /\ \A i \in s : i <= Max(s)
<1> DEFINE T == {x \in SUBSET (1 .. n) : s \subseteq x /\ \E k \in 0 .. n : x = 1 .. k}
<1>1. T # {} /\ \A x \in T : x \in SUBSET (1 .. n)
    <2>1. (1 .. n) \in T
        OBVIOUS
    <2> QED BY <2>1
<1> HIDE DEF T
<1>2. PICK x \in T : \A y \in T : y \subseteq x => y = x
    BY <1>1, SmallestSet
<1>3. PICK k \in 0 .. n : x = 1 .. k
    BY <1>2 DEF T
<1>4. s \subseteq 1 .. k
    BY <1>2, <1>3 DEF T
<1>5. k \in s
    <2> SUFFICES ASSUME k \notin s PROVE FALSE
        OBVIOUS
    <2>1. k # 0 /\ k - 1 \in 0 .. n
        <3>1. PICK i \in s : i \in 1 .. k
            BY <1>4
        <3> QED BY <3>1
    <2>2. s \subseteq 1 .. (k - 1)
        BY <1>4
    <2>3. (1 .. (k - 1)) \in T
        BY <2>1, <2>2 DEF T
    <2>4. (1 .. (k - 1)) \subseteq 1 .. k /\ k \in 1 .. k /\ k \notin 1 .. (k - 1)
        BY <2>1
    <2> QED BY <1>2, <1>3, <2>3, <2>4
<1>6. \E m \in s : \A i \in s : m >= i
    BY <1>4, <1>5
<1>7. Max(s) \in s /\ \A i \in s : Max(s) >= i
    <2> HIDE DEF T
    <2> QED BY <1>6 DEF Max
<1>8. \A i \in s : i \in Nat
    BY <1>4
<1> QED BY <1>7, <1>8

\* Induction along a list, over the sets of indices that a fold has gone through.
LEMMA IndexInduction ==
    ASSUME NEW n \in Nat, NEW S,
           {} \in S,
           \A s \in SUBSET (1 .. n) : s # {} /\ s \ {Max(s)} \in S => s \in S
    PROVE  SUBSET (1 .. n) \subseteq S
<1> DEFINE T == (SUBSET (1 .. n)) \ S
<1> SUFFICES ASSUME T # {} PROVE FALSE
    OBVIOUS
<1>1. PICK x \in T : \A y \in T : y \subseteq x => y = x
    <2>1. T # {} /\ \A x \in T : x \in SUBSET (1 .. n)
        OBVIOUS
    <2> HIDE DEF T
    <2> QED BY <2>1, SmallestSet
<1>2. x \in SUBSET (1 .. n) /\ x # {} /\ x \notin S
    BY <1>1
<1>3. Max(x) \in x
    BY <1>2, LastIndex
<1>4. x \ {Max(x)} \in SUBSET (1 .. n) /\ x \ {Max(x)} \subseteq x /\ x \ {Max(x)} # x
    <2>1. PICK m \in x : m = Max(x)
        BY <1>3
    <2>2. x \ {m} \in SUBSET (1 .. n) /\ x \ {m} \subseteq x
        BY <1>2
    <2>3. x \ {m} # x
        BY <2>1
    <2> QED BY <2>1, <2>2, <2>3
<1>5. x \ {Max(x)} \notin T
    BY <1>1, <1>4
<1> QED BY <1>2, <1>4, <1>5

\* The function that FoldLeft is defined by, of n elements.
FoldOf(f, n, base, G) ==
    f = [s \in SUBSET (1 .. n) |-> IF s = {} THEN base ELSE G[<<f[s \ {Max(s)}], Max(s)>>]]

\* It exists.
LEMMA FoldExists ==
    ASSUME NEW n \in Nat, NEW V, NEW base \in V, NEW G \in [V \X (1 .. n) -> V]
    PROVE  \E f \in [SUBSET (1 .. n) -> V] : FoldOf(f, n, base, G)
<1> DEFINE Step(x, s) == IF s = {} THEN base ELSE G[<<x, Max(s)>>]
           Upto(f, x) == /\ f \in [SUBSET x -> V]
                         /\ \A s \in SUBSET x : f[s] = Step(f[s \ {Max(s)}], s)
           S == {x \in SUBSET (1 .. n) : \E f : Upto(f, x)}
<1>1. {} \in S
    <2>1. Upto([s \in SUBSET {} |-> base], {})
        OBVIOUS
    <2> QED BY <2>1
<1>2. ASSUME NEW x \in SUBSET (1 .. n), x # {}, x \ {Max(x)} \in S PROVE x \in S
    <2> DEFINE m == Max(x)
               y == x \ {m}
    <2>1. PICK f : Upto(f, y)
        BY <1>2
    <2>2. m \in x /\ m \in 1 .. n /\ \A i \in x : i <= m
        BY <1>2, LastIndex
    <2> DEFINE g == [s \in SUBSET x |-> IF m \in s THEN G[<<f[s \ {m}], m>>] ELSE f[s]]
    <2>3. \A s \in SUBSET x : s \ {m} \in SUBSET y /\ (m \notin s => s \in SUBSET y)
        OBVIOUS
    <2>4. g \in [SUBSET x -> V]
        BY <2>1, <2>2, <2>3
    <2>5. ASSUME NEW s \in SUBSET x PROVE g[s] = Step(g[s \ {Max(s)}], s)
        <3>1. CASE s = {}
            <4>1. g[s] = f[s] /\ f[s] = Step(f[s \ {Max(s)}], s)
                BY <2>1, <2>3, <3>1
            <4> QED BY <3>1, <4>1
        <3>2. CASE s # {} /\ m \in s
            <4>1. Max(s) = m
                <5>1. s \in SUBSET (1 .. n)
                    OBVIOUS
                <5>2. Max(s) \in s /\ m <= Max(s) /\ Max(s) \in 1 .. n
                    BY <3>2, <5>1, LastIndex
                <5> QED BY <2>2, <5>2
            <4>2. s \ {m} \in SUBSET x /\ g[s \ {m}] = f[s \ {m}]
                BY <2>3
            <4> QED BY <3>2, <4>1, <4>2
        <3>3. CASE s # {} /\ m \notin s
            <4>1. s \in SUBSET y /\ g[s] = f[s]
                BY <2>3, <3>3
            <4>2. s \ {Max(s)} \in SUBSET x /\ m \notin s \ {Max(s)}
                BY <3>3
            <4>3. g[s \ {Max(s)}] = f[s \ {Max(s)}]
                BY <4>2
            <4> QED BY <2>1, <4>1, <4>3
        <3> QED BY <3>1, <3>2, <3>3
    <2> QED BY <2>4, <2>5
<1>3. SUBSET (1 .. n) \subseteq S
    <2> HIDE DEF S
    <2> QED BY <1>1, <1>2, IndexInduction
<1>4. PICK f : Upto(f, 1 .. n)
    BY <1>3
<1>5. f = [s \in SUBSET (1 .. n) |-> Step(f[s \ {Max(s)}], s)]
    BY <1>4
<1> QED BY <1>4, <1>5 DEF FoldOf

\* What a list has with one more element.
LEMMA AppendSet ==
    ASSUME NEW X, NEW s \in Seq(X), NEW x
    PROVE  ToSet(Append(s, x)) = ToSet(s) \cup {x}
<1>1. /\ Append(s, x) \in Seq(X \cup {x}) /\ Len(Append(s, x)) = Len(s) + 1
      /\ Append(s, x)[Len(s) + 1] = x
      /\ \A i \in 1..Len(s) : Append(s, x)[i] = s[i]
    OBVIOUS
<1>2. Len(s) \in Nat /\ DOMAIN s = 1..Len(s) /\ DOMAIN Append(s, x) = 1..(Len(s) + 1)
    BY <1>1
<1>3. 1..(Len(s) + 1) = 1..Len(s) \cup {Len(s) + 1}
    BY <1>2
<1> QED BY <1>1, <1>2, <1>3 DEF ToSet

\* What is kept once has all that there was, and no element at two places.
LEMMA Deduplicated ==
    ASSUME NEW X, NEW items \in Seq(X)
    PROVE  /\ Deduplicate(items) \in Seq(X)
           /\ ToSet(Deduplicate(items)) = ToSet(items)
           /\ \A i, j \in DOMAIN Deduplicate(items) :
                  Deduplicate(items)[i] = Deduplicate(items)[j] => i = j
<1> DEFINE n == Len(items)
           Add(kept, i) == IF Contains(kept, items[i]) THEN kept ELSE Append(kept, items[i])
           Eq(f) == f = [s \in SUBSET (1 .. n) |->
                           IF s = {} THEN <<>> ELSE Add(f[s \ {Max(s)}], Max(s))]
           G == [p \in Seq(X) \X (1 .. n) |-> Add(p[1], p[2])]
           kept == CHOOSE f : Eq(f)
<1>1. n \in Nat /\ DOMAIN items = 1 .. n /\ \A i \in 1 .. n : items[i] \in X
    OBVIOUS
<1>2. Deduplicate(items) = kept[1 .. n]
    BY <1>1 DEF Deduplicate, FoldLeft, MapThenFoldSet
<1>3. \A k \in Seq(X), i \in 1 .. n : Add(k, i) \in Seq(X)
    BY <1>1
<1>4. <<>> \in Seq(X)
    OBVIOUS
<1>5. PICK f \in [SUBSET (1 .. n) -> Seq(X)] : FoldOf(f, n, <<>>, G)
    <2>1. G \in [Seq(X) \X (1 .. n) -> Seq(X)]
        BY <1>3
    <2> HIDE DEF G, n
    <2> QED BY <1>1, <1>4, <2>1, FoldExists
<1>6. \A k \in Seq(X), i \in 1 .. n : G[<<k, i>>] = Add(k, i)
    OBVIOUS
<1> HIDE DEF n, Add, G
<1>7. Eq(f)
    <2>1. \A s \in SUBSET (1 .. n) : s # {} => Max(s) \in 1 .. n /\ f[s \ {Max(s)}] \in Seq(X)
        BY <1>1, LastIndex
    <2> QED BY <1>5, <1>6, <2>1 DEF FoldOf
<1>8. Eq(kept)
    <2> HIDE DEF Eq
    <2> QED BY <1>7
<1> HIDE DEF kept
<1> DEFINE S == {s \in SUBSET (1 .. n) :
                    /\ kept[s] \in Seq(X)
                    /\ ToSet(kept[s]) = {items[i] : i \in s}
                    /\ \A i, j \in DOMAIN kept[s] : kept[s][i] = kept[s][j] => i = j}
<1>9. {} \in S
    BY <1>8 DEF ToSet
<1>10. ASSUME NEW s \in SUBSET (1 .. n), s # {}, s \ {Max(s)} \in S PROVE s \in S
    <2> DEFINE k == kept[s \ {Max(s)}]
    <2>1. kept[s] = Add(k, Max(s)) /\ Max(s) \in s
        BY <1>1, <1>8, <1>10, LastIndex
    <2>2. /\ k \in Seq(X)
          /\ ToSet(k) = {items[i] : i \in s \ {Max(s)}}
          /\ \A i, j \in DOMAIN k : k[i] = k[j] => i = j
        BY <1>10
    <2> HIDE DEF k
    <2>3. {items[i] : i \in s} = ToSet(k) \cup {items[Max(s)]}
        BY <2>1, <2>2
    <2>4. CASE Contains(k, items[Max(s)])
        <3>1. kept[s] = k
            BY <2>1, <2>4 DEF Add
        <3>2. PICK j \in DOMAIN k : k[j] = items[Max(s)]
            BY <2>2, <2>4 DEF Contains
        <3>3. {items[i] : i \in s} = ToSet(k)
            BY <2>3, <3>2 DEF ToSet
        <3> QED BY <2>2, <3>1, <3>3
    <2>5. CASE ~Contains(k, items[Max(s)])
        <3>1. kept[s] = Append(k, items[Max(s)]) /\ items[Max(s)] \in X
            BY <1>1, <2>1, <2>5 DEF Add
        <3>2. \A j \in DOMAIN k : k[j] # items[Max(s)]
            BY <2>2, <2>5 DEF Contains
        <3>3. ToSet(kept[s]) = ToSet(k) \cup {items[Max(s)]}
            BY <2>2, <3>1, AppendSet
        <3>4. \A i, j \in DOMAIN kept[s] : kept[s][i] = kept[s][j] => i = j
            BY <2>2, <3>1, <3>2
        <3>5. kept[s] \in Seq(X)
            BY <2>2, <3>1
        <3> QED BY <2>3, <3>3, <3>4, <3>5
    <2> QED BY <2>4, <2>5
<1>11. (1 .. n) \in S
    <2> HIDE DEF S
    <2> QED BY <1>1, <1>9, <1>10, IndexInduction
<1> QED BY <1>1, <1>2, <1>11 DEF ToSet

\* What is left of a list: what it had in S, and nothing else.
LEMMA OnlyInSet ==
    ASSUME NEW X, NEW seq \in Seq(X), NEW T
    PROVE  /\ OnlyIn(seq, T) \in Seq(X) /\ OnlyIn(seq, T) \in Seq(X \cap T)
           /\ ToSet(OnlyIn(seq, T)) = ToSet(seq) \cap T
<1> DEFINE n == Len(seq)
           Add(kept, i) == IF seq[i] \in T THEN Append(kept, seq[i]) ELSE kept
           Eq(f) == f = [s \in SUBSET (1 .. n) |->
                           IF s = {} THEN <<>> ELSE Add(f[s \ {Max(s)}], Max(s))]
           G == [p \in Seq(X) \X (1 .. n) |-> Add(p[1], p[2])]
           kept == CHOOSE f : Eq(f)
<1>1. n \in Nat /\ DOMAIN seq = 1 .. n /\ \A i \in 1 .. n : seq[i] \in X
    OBVIOUS
<1>2. OnlyIn(seq, T) = kept[1 .. n]
    BY <1>1 DEF OnlyIn, FoldLeft, MapThenFoldSet
<1>3. \A k \in Seq(X), i \in 1 .. n : Add(k, i) \in Seq(X)
    BY <1>1
<1>4. <<>> \in Seq(X)
    OBVIOUS
<1>5. PICK f \in [SUBSET (1 .. n) -> Seq(X)] : FoldOf(f, n, <<>>, G)
    <2>1. G \in [Seq(X) \X (1 .. n) -> Seq(X)]
        BY <1>3
    <2> HIDE DEF G, n
    <2> QED BY <1>1, <1>4, <2>1, FoldExists
<1>6. \A k \in Seq(X), i \in 1 .. n : G[<<k, i>>] = Add(k, i)
    OBVIOUS
<1> HIDE DEF n, Add, G
<1>7. Eq(f)
    <2>1. \A s \in SUBSET (1 .. n) : s # {} => Max(s) \in 1 .. n /\ f[s \ {Max(s)}] \in Seq(X)
        BY <1>1, LastIndex
    <2> QED BY <1>5, <1>6, <2>1 DEF FoldOf
<1>8. Eq(kept)
    <2> HIDE DEF Eq
    <2> QED BY <1>7
<1> HIDE DEF kept
<1> DEFINE S == {s \in SUBSET (1 .. n) : /\ kept[s] \in Seq(X \cap T)
                                       /\ ToSet(kept[s]) = {seq[i] : i \in s} \cap T}
<1>9. {} \in S
    BY <1>8 DEF ToSet
<1>10. ASSUME NEW s \in SUBSET (1 .. n), s # {}, s \ {Max(s)} \in S PROVE s \in S
    <2> DEFINE k == kept[s \ {Max(s)}]
    <2>1. kept[s] = Add(k, Max(s)) /\ Max(s) \in s
        BY <1>1, <1>8, <1>10, LastIndex
    <2>2. k \in Seq(X \cap T) /\ ToSet(k) = {seq[i] : i \in s \ {Max(s)}} \cap T
        BY <1>10
    <2> HIDE DEF k
    <2>3. CASE seq[Max(s)] \in T
        <3>1. kept[s] = Append(k, seq[Max(s)]) /\ seq[Max(s)] \in X \cap T
            BY <1>1, <2>1, <2>3 DEF Add
        <3>2. kept[s] \in Seq(X \cap T) /\ ToSet(kept[s]) = ToSet(k) \cup {seq[Max(s)]}
            BY <2>2, <3>1, AppendSet
        <3>3. {seq[i] : i \in s} \cap T = ToSet(k) \cup {seq[Max(s)]}
            BY <2>1, <2>2, <2>3
        <3> QED BY <3>2, <3>3
    <2>4. CASE seq[Max(s)] \notin T
        <3>1. kept[s] = k
            BY <2>1, <2>4 DEF Add
        <3>2. {seq[i] : i \in s} \cap T = ToSet(k)
            BY <2>1, <2>2, <2>4
        <3> QED BY <2>2, <3>1, <3>2
    <2> QED BY <2>3, <2>4
<1>11. (1 .. n) \in S
    <2> HIDE DEF S
    <2> QED BY <1>1, <1>9, <1>10, IndexInduction
<1>12. X \cap T \subseteq X
    OBVIOUS
<1> QED BY <1>1, <1>2, <1>11, <1>12, SeqMonotonic DEF ToSet

\* The first n elements.
LEMMA CutFirst ==
    ASSUME NEW X, NEW s \in Seq(X), NEW n \in Nat
    PROVE  /\ Cut(s, n) \in Seq(X) /\ Len(Cut(s, n)) <= n /\ Len(Cut(s, n)) <= Len(s)
           /\ DOMAIN Cut(s, n) \subseteq DOMAIN s
           /\ \A i \in DOMAIN Cut(s, n) : Cut(s, n)[i] = s[i]
           /\ ToSet(Cut(s, n)) \subseteq ToSet(s)
           /\ n > 0 /\ s # <<>> => Cut(s, n) # <<>>
<1> DEFINE m == IF Len(s) < n THEN Len(s) ELSE n
<1>1. m \in Nat /\ m <= Len(s) /\ m <= n /\ Len(s) \in Nat /\ DOMAIN s = 1 .. Len(s)
    OBVIOUS
<1>2. Cut(s, n) = SubSeq(s, 1, m)
    BY DEF Cut
<1> HIDE DEF m
<1>3. /\ Cut(s, n) \in Seq(X) /\ Len(Cut(s, n)) = m
      /\ \A i \in 1 .. m : Cut(s, n)[i] = s[i]
    BY <1>1, <1>2
<1>4. DOMAIN Cut(s, n) = 1 .. m /\ \A i \in 1 .. m : i \in 1 .. Len(s)
    BY <1>1, <1>3
<1>5. ToSet(Cut(s, n)) \subseteq ToSet(s)
    BY <1>1, <1>3, <1>4 DEF ToSet
<1>6. n > 0 /\ s # <<>> => m # 0
    BY DEF m
<1>7. m # 0 => Cut(s, n) # <<>>
    BY <1>3
<1> QED BY <1>1, <1>3, <1>4, <1>5, <1>6, <1>7

\* What every step along a fold keeps, the fold has in the end.
LEMMA FoldKeeps ==
    ASSUME NEW n \in Nat, NEW V, NEW kept, kept[{}] \in V,
           \A s \in SUBSET (1 .. n) : s # {} /\ kept[s \ {Max(s)}] \in V => kept[s] \in V
    PROVE  kept[1 .. n] \in V
<1> DEFINE S == {s \in SUBSET (1 .. n) : kept[s] \in V}
<1>1. {} \in S
    OBVIOUS
<1>2. ASSUME NEW s \in SUBSET (1 .. n), s # {}, s \ {Max(s)} \in S PROVE s \in S
    BY <1>2
<1>3. (1 .. n) \in S
    <2> HIDE DEF S
    <2> QED BY <1>1, <1>2, IndexInduction
<1> QED BY <1>3

\* All but the last.
LEMMA FrontKeeps ==
    ASSUME NEW X, NEW s \in Seq(X), s # <<>>
    PROVE  /\ Front(s) \in Seq(X) /\ Len(Front(s)) = Len(s) - 1
           /\ \A i \in 1 .. Len(s) - 1 : Front(s)[i] = s[i]
<1>1. Len(s) \in Nat /\ Len(s) # 0
    OBVIOUS
<1> DEFINE n == Len(s) - 1
<1>2. n \in Nat /\ n <= Len(s) /\ Front(s) = SubSeq(s, 1, n)
    BY <1>1 DEF Front
<1> HIDE DEF n
<1>3. Front(s) \in Seq(X) /\ Len(Front(s)) = n /\ \A i \in 1 .. n : Front(s)[i] = s[i]
    BY <1>2
<1> QED BY <1>3 DEF n

\* Induction over the numbers, for what holds of a set of them.
LEMMA UpwardInduction ==
    ASSUME NEW S, 0 \in S, \A n \in Nat : n \in S => n + 1 \in S
    PROVE  Nat \subseteq S
<1> SUFFICES ASSUME NEW n \in Nat PROVE n \in S
    OBVIOUS
<1> DEFINE T == {x \in SUBSET (1 .. n) : \A k \in 0 .. n : x = 1 .. k => k \in S}
<1>1. {} \in T
    <2>1. \A k \in 0 .. n : {} = 1 .. k => k = 0
        OBVIOUS
    <2> QED BY <2>1
<1>2. ASSUME NEW x \in SUBSET (1 .. n), x # {}, x \ {Max(x)} \in T PROVE x \in T
    <2> SUFFICES ASSUME NEW k \in 0 .. n, x = 1 .. k PROVE k \in S
        OBVIOUS
    <2>1. k # 0 /\ k \in Nat /\ k - 1 \in 0 .. n /\ k - 1 \in Nat
        BY <1>2
    <2>2. Max(x) = k
        <3>1. Max(x) \in x /\ \A i \in x : i <= Max(x)
            BY <1>2, LastIndex
        <3> QED BY <2>1, <3>1
    <2>3. x \ {Max(x)} = 1 .. (k - 1)
        BY <2>1, <2>2
    <2>4. k - 1 \in S
        BY <1>2, <2>1, <2>3
    <2>5. (k - 1) + 1 \in S
        BY <2>1, <2>4
    <2> QED BY <2>1, <2>5
<1>3. (1 .. n) \in T
    <2> HIDE DEF T
    <2>1. SUBSET (1 .. n) \subseteq T
        BY <1>1, <1>2, IndexInduction
    <2> QED BY <2>1
<1> QED BY <1>3

-----------------------------------------------------------------------------
(* The breadth first search of the enricher *)

\* The versions a relationship of these shows to be some method's.
Versioned(edges) == {e[3] : e \in {f \in edges : f[1] = "HAS_VERSION"}}

\* What the search keeps, of methods in M, from version v.
SearchState(edges, v, M) ==
    [queue : Seq((Versioned(edges) \cup {v}) \X Nat), methods : SUBSET M,
     versions : SUBSET (Versioned(edges) \cup {v}), ordered : Seq(Versioned(edges))]

\* A called method that is visited.
LEMMA VisitKeeps ==
    ASSUME NEW edges, NEW v, NEW M, NEW d \in Nat, NEW m \in M,
           NEW s \in SearchState(edges, v, M)
    PROVE  Visit(edges, d, s, m) \in SearchState(edges, v, M)
<1> DEFINE W == Versioned(edges) \cup {v}
           versions == {e[3] : e \in {f \in edges : f[1] = "HAS_VERSION" /\ f[2] = m}}
           w == CHOOSE x \in versions : TRUE
<1>1. /\ s = [queue |-> s.queue, methods |-> s.methods, versions |-> s.versions,
               ordered |-> s.ordered]
      /\ s.queue \in Seq(W \X Nat) /\ s.methods \in SUBSET M
      /\ s.versions \in SUBSET W /\ s.ordered \in Seq(Versioned(edges))
    BY DEF SearchState
<1>2. versions \subseteq Versioned(edges)
    BY DEF Versioned
<1>3. Visit(edges, d, s, m) =
          IF m \in s.methods THEN s
          ELSE IF Cardinality(versions) # 1 \/ versions \subseteq s.versions
               THEN [s EXCEPT !.methods = s.methods \cup {m}]
               ELSE [queue    |-> Append(s.queue, <<w, d + 1>>),
                     methods  |-> s.methods \cup {m},
                     versions |-> s.versions \cup {w},
                     ordered  |-> Append(s.ordered, w)]
    BY DEF Visit
<1> HIDE DEF versions
<1>4. ~(versions \subseteq s.versions) => w \in versions
    OBVIOUS
<1> HIDE DEF w
<1>5. CASE m \in s.methods
    BY <1>3, <1>5
<1>6. CASE m \notin s.methods /\ (Cardinality(versions) # 1 \/ versions \subseteq s.versions)
    <2>1. Visit(edges, d, s, m) = [queue |-> s.queue, methods |-> s.methods \cup {m},
                                   versions |-> s.versions, ordered |-> s.ordered]
        <3>1. Visit(edges, d, s, m) = [s EXCEPT !.methods = s.methods \cup {m}]
            BY <1>3, <1>6
        <3> QED BY <1>1, <3>1
    <2>2. s.methods \cup {m} \in SUBSET M
        BY <1>1
    <2> QED BY <1>1, <2>1, <2>2 DEF SearchState
<1>7. CASE m \notin s.methods /\ ~(Cardinality(versions) # 1 \/ versions \subseteq s.versions)
    <2>1. w \in Versioned(edges) /\ <<w, d + 1>> \in W \X Nat
        BY <1>2, <1>4, <1>7
    <2>2. /\ Append(s.queue, <<w, d + 1>>) \in Seq(W \X Nat)
          /\ s.methods \cup {m} \in SUBSET M
          /\ s.versions \cup {w} \in SUBSET W
          /\ Append(s.ordered, w) \in Seq(Versioned(edges))
        BY <1>1, <2>1
    <2> QED BY <1>3, <1>7, <2>2 DEF SearchState
<1> QED BY <1>5, <1>6, <1>7

\* A version whose calls are followed.
LEMMA ExpandKeeps ==
    ASSUME NEW edges, NEW v, NEW M, NEW order \in Seq(M),
           NEW s \in SearchState(edges, v, M), s.queue # <<>>
    PROVE  Expand(edges, order, s) \in SearchState(edges, v, M)
<1> DEFINE d == Head(s.queue)[2]
           called == OnlyIn(order, {e[3] : e \in {f \in edges : f[1] = "CALLS" /\ f[2] = Head(s.queue)[1]}})
           rest == [s EXCEPT !.queue = Tail(s.queue)]
           n == Len(called)
           V == SearchState(edges, v, M)
           Add(t, i) == Visit(edges, d, t, called[i])
           Eq(f) == f = [x \in SUBSET (1 .. n) |->
                           IF x = {} THEN rest ELSE Add(f[x \ {Max(x)}], Max(x))]
           G == [p \in V \X (1 .. n) |-> Add(p[1], p[2])]
           kept == CHOOSE f : Eq(f)
<1>1. called \in Seq(M)
    BY OnlyInSet
<1> HIDE DEF called
<1>2. n \in Nat /\ DOMAIN called = 1 .. n /\ \A i \in 1 .. n : called[i] \in M
    BY <1>1
<1>3. d \in Nat /\ rest \in V
    <2>1. /\ s.queue \in Seq((Versioned(edges) \cup {v}) \X Nat)
        BY DEF SearchState
    <2>2. /\ Head(s.queue) \in (Versioned(edges) \cup {v}) \X Nat
          /\ Tail(s.queue) \in Seq((Versioned(edges) \cup {v}) \X Nat)
        BY <2>1
    <2>3. rest \in V
        BY <2>2 DEF SearchState
    <2> QED BY <2>2, <2>3
<1>4. Expand(edges, order, s) = IF d >= MAX_CALL_DEPTH THEN rest ELSE kept[1 .. n]
    <2>1. DOMAIN called = 1 .. n
        BY <1>2
    <2>2. Expand(edges, order, s) =
              IF d >= MAX_CALL_DEPTH THEN rest
              ELSE FoldLeft(LAMBDA t, m : Visit(edges, d, t, m), rest, called)
        BY DEF Expand, called
    <2>3. FoldLeft(LAMBDA t, m : Visit(edges, d, t, m), rest, called) = kept[1 .. n]
        BY <2>1 DEF FoldLeft, MapThenFoldSet
    <2> QED BY <2>2, <2>3
<1> HIDE DEF d, rest, n
<1>5. \A t \in V, i \in 1 .. n : Add(t, i) \in V
    BY <1>2, <1>3, VisitKeeps
<1>6. PICK f \in [SUBSET (1 .. n) -> V] : FoldOf(f, n, rest, G)
    <2>1. G \in [V \X (1 .. n) -> V]
        BY <1>5
    <2> HIDE DEF G, V
    <2> QED BY <1>2, <1>3, <2>1, FoldExists
<1>7. \A t \in V, i \in 1 .. n : G[<<t, i>>] = Add(t, i)
    OBVIOUS
<1> HIDE DEF V, Add, G
<1>8. Eq(f)
    <2>1. \A x \in SUBSET (1 .. n) : x # {} => Max(x) \in 1 .. n /\ f[x \ {Max(x)}] \in V
        BY <1>2, LastIndex
    <2> QED BY <1>6, <1>7, <2>1 DEF FoldOf
<1>9. Eq(kept)
    <2> HIDE DEF Eq
    <2> QED BY <1>8
<1> HIDE DEF kept
<1> DEFINE S == {x \in SUBSET (1 .. n) : kept[x] \in V}
<1>10. {} \in S
    BY <1>3, <1>9
<1>11. ASSUME NEW x \in SUBSET (1 .. n), x # {}, x \ {Max(x)} \in S PROVE x \in S
    <2>1. kept[x] = Add(kept[x \ {Max(x)}], Max(x)) /\ Max(x) \in 1 .. n
        BY <1>2, <1>9, <1>11, LastIndex
    <2> QED BY <1>5, <1>11, <2>1
<1>12. (1 .. n) \in S
    <2> HIDE DEF S
    <2> QED BY <1>2, <1>10, <1>11, IndexInduction
<1> QED BY <1>3, <1>4, <1>12 DEF V

\* Whatever the search finds is a version of a method by a relationship of the graph.
LEMMA BfsFinds ==
    ASSUME NEW edges, NEW v, NEW M, NEW order \in Seq(M)
    PROVE  BfsVersions(edges, order, v) \in Seq(Versioned(edges))
<1> DEFINE V == SearchState(edges, v, M)
           first == [queue |-> <<<<v, 0>>>>, methods |-> {}, versions |-> {v}, ordered |-> <<>>]
           N == Cardinality(Versions)
           list == [i \in 1 .. N |-> i]
           Add(t, i) == IF t.queue = <<>> THEN t ELSE Expand(edges, order, t)
           Eq(f) == f = [x \in SUBSET (1 .. N) |->
                           IF x = {} THEN first ELSE Add(f[x \ {Max(x)}], list[Max(x)])]
           G == [p \in V \X (1 .. N) |-> Add(p[1], list[p[2]])]
           kept == CHOOSE f : Eq(f)
<1>1. N \in Nat
    BY ContextAssumption, FS_CardinalityType
<1>2. BfsVersions(edges, order, v) = kept[1 .. N].ordered
    <2>1. DOMAIN list = 1 .. N
        OBVIOUS
    <2> HIDE DEF list, N
    <2>2. FoldLeft(Add, first, list) = kept[1 .. N]
        BY <2>1 DEF FoldLeft, MapThenFoldSet
    <2> QED BY <2>2 DEF BfsVersions, list, N
<1>3. first \in V
    <2>1. <<<<v, 0>>>> \in Seq((Versioned(edges) \cup {v}) \X Nat)
        OBVIOUS
    <2>2. <<>> \in Seq(Versioned(edges))
        OBVIOUS
    <2> QED BY <2>1, <2>2 DEF SearchState
<1> HIDE DEF first, N, list
<1>4. \A i : \A t \in V : Add(t, i) \in V
    BY ExpandKeeps
<1>5. PICK f \in [SUBSET (1 .. N) -> V] : FoldOf(f, N, first, G)
    <2>1. G \in [V \X (1 .. N) -> V]
        <3> HIDE DEF Add, V
        <3> QED BY <1>4
    <2> HIDE DEF G, V
    <2> QED BY <1>1, <1>3, <2>1, FoldExists
<1>6. \A t \in V, i \in 1 .. N : G[<<t, i>>] = Add(t, list[i])
    OBVIOUS
<1> HIDE DEF V, Add, G
<1>7. Eq(f)
    <2>1. \A x \in SUBSET (1 .. N) : x # {} => Max(x) \in 1 .. N /\ f[x \ {Max(x)}] \in V
        BY <1>1, LastIndex
    <2> QED BY <1>5, <1>6, <2>1 DEF FoldOf
<1>8. Eq(kept)
    <2> HIDE DEF Eq
    <2> QED BY <1>7
<1> HIDE DEF kept
<1> DEFINE S == {x \in SUBSET (1 .. N) : kept[x] \in V}
<1>9. {} \in S
    BY <1>3, <1>8
<1>10. ASSUME NEW x \in SUBSET (1 .. N), x # {}, x \ {Max(x)} \in S PROVE x \in S
    <2>1. kept[x] = Add(kept[x \ {Max(x)}], list[Max(x)]) /\ Max(x) \in 1 .. N
        BY <1>1, <1>8, <1>10, LastIndex
    <2> QED BY <1>4, <1>10, <2>1
<1>11. (1 .. N) \in S
    <2> HIDE DEF S
    <2> QED BY <1>1, <1>9, <1>10, IndexInduction
<1> QED BY <1>2, <1>11 DEF V, SearchState

-----------------------------------------------------------------------------
(* The method a question is about *)

Fields == {"pc", "kind", "names", "ranking", "symbols", "hits", "target", "nodes", "edges",
           "enriched", "evidence", "context", "shown", "retries", "sufficient", "reason"}

Rounds == {"search", "select", "traverse", "enrich", "fuse", "validate"}
Over  == {"compose", "ask", "ask_again", "answered", "failed"}

\* What the nodes hand on: how often was searched, and for what.
HandedOn(s) ==
    /\ DOMAIN s = Fields
    /\ s.pc \in {"analyze", "resolve"} \cup Rounds \cup Over
    /\ s.retries \in Nat /\ s.retries <= MAX_RETRIES
    /\ s.pc \in Rounds => s.retries < MAX_RETRIES
    /\ s.pc \in {"analyze", "resolve"} => s.retries = 0
    /\ s.symbols \subseteq Versions
    /\ s.pc \in {"traverse", "enrich", "fuse", "validate", "compose", "ask", "ask_again", "answered"}
          /\ s.symbols # {} => s.target \in s.symbols
    /\ s.reason # "explicit_symbol_mismatch"

QuestionInv == HandedOn(qa)

\* A question starts well.
LEMMA AskedHandsOn ==
    ASSUME NEW names, NEW ranking PROVE HandedOn(Asked(names, ranking))
BY QuestionAssumption DEF HandedOn, Asked, Fields, Rounds, Over

\* A node that goes on to another one of its round, or to the end, and leaves the
\* counter, the reason and what the question is about alone.
LEMMA StepHandsOn ==
    ASSUME NEW s, HandedOn(s), NEW t, DOMAIN t = Fields,
           t.retries = s.retries, t.reason = s.reason, t.symbols = s.symbols,
           t.pc \in Rounds \cup Over,
           t.pc \in Rounds => s.pc \in Rounds,
           t.pc \notin {"search", "select", "failed"} /\ t.symbols # {} => t.target \in t.symbols
    PROVE  HandedOn(t)
BY DEF HandedOn, Rounds, Over

\* Every step hands on.
LEMMA StepPreserves == QuestionInv /\ [Next]_vars => QuestionInv'
<1> SUFFICES ASSUME QuestionInv, [Next]_vars PROVE HandedOn(qa')
    BY DEF QuestionInv
<1> USE DEF QuestionInv
<1>1. CASE qa' = qa
    BY <1>1
<1>2. ASSUME NEW kind \in QuestionKind, ClassifyQuestion(kind) PROVE HandedOn(qa')
    BY <1>2 DEF ClassifyQuestion, Goto, HandedOn, Fields, Rounds, Over
<1>3. CASE ResolveEntities
    <2>1. PICK vs \in SUBSET Versions : qa' = [[qa EXCEPT !.symbols = vs] EXCEPT !.pc = "search"]
        BY <1>3 DEF ResolveEntities, Goto, Embedded
    <2>2. 0 < MAX_RETRIES
        BY QuestionAssumption
    <2> QED BY <1>3, <2>1, <2>2 DEF ResolveEntities, HandedOn, Fields, Rounds, Over
<1>4. CASE SearchVectorEvidence
    BY <1>4, StepHandsOn DEF SearchVectorEvidence, Goto, HandedOn, Fields, Rounds
<1>5. ASSUME NEW v \in Versions \cup {None}, SelectTarget(v) PROVE HandedOn(qa')
    BY <1>5, StepHandsOn DEF SelectTarget, IsSelected, Goto, HandedOn, Fields, Rounds
<1>6. CASE SearchGraphEvidence
    BY <1>6, StepHandsOn DEF SearchGraphEvidence, Goto, HandedOn, Fields, Rounds
<1>7. CASE EnrichCodeEvidence
    BY <1>7, StepHandsOn DEF EnrichCodeEvidence, Goto, HandedOn, Fields, Rounds
<1>8. CASE FuseEvidence
    BY <1>8, StepHandsOn DEF FuseEvidence, Goto, HandedOn, Fields, Rounds
<1>9. CASE ValidateEvidence
    <2>1. TargetMatches
        BY <1>9, QuestionAssumption, ContextAssumption
           DEF ValidateEvidence, TargetMatches, HandedOn
    <2>2. /\ DOMAIN Validated = Fields
          /\ Validated.retries = qa.retries + 1 /\ Validated.retries <= MAX_RETRIES
          /\ Validated.symbols = qa.symbols /\ Validated.target = qa.target
          /\ Validated.reason # "explicit_symbol_mismatch"
        BY <1>9, <2>1, QuestionAssumption DEF Validated, ValidateEvidence, HandedOn, Fields, Rounds
    <2>3. RouteAfterValidation(Validated) \in {"compose", "search"}
          /\ (RouteAfterValidation(Validated) = "search" => Validated.retries < MAX_RETRIES)
        BY <2>2, QuestionAssumption DEF RouteAfterValidation, HandedOn
    <2>4. qa' = [Validated EXCEPT !.pc = RouteAfterValidation(Validated)]
        BY <1>9 DEF ValidateEvidence, Goto
    <2> HIDE DEF Validated, RouteAfterValidation
    <2> QED BY <1>9, <2>2, <2>3, <2>4 DEF ValidateEvidence, HandedOn, Fields, Rounds, Over
<1>10. CASE ComposeAnswer
    BY <1>10, StepHandsOn DEF ComposeAnswer, Goto, HandedOn, Fields, Rounds, Over
<1>11. CASE ProviderLimit
    <2>1. PICK smaller : qa' \in {[[qa EXCEPT !.context = smaller] EXCEPT !.pc = "ask_again"],
                                  [qa EXCEPT !.pc = "failed"]}
        BY <1>11 DEF ProviderLimit, Goto
    <2> QED BY <1>11, <2>1 DEF ProviderLimit, HandedOn, Fields, Rounds, Over
<1>12. CASE Answered
    BY <1>12, StepHandsOn DEF Answered, Goto, HandedOn, Fields, Rounds, Over
<1>13. CASE NodeFails
    BY <1>13, StepHandsOn DEF NodeFails, Goto, HandedOn, Fields, Rounds, Over
<1>14. ASSUME NEW names, NEW ranking, AskAgain(names, ranking) PROVE HandedOn(qa')
    BY <1>14, AskedHandsOn DEF AskAgain
<1>15. CASE \E a \in Analyses : StoreHistory(a.commits) \/ StoreChunks(a.checkout)
    BY <1>15, <1>1 DEF StoreHistory, StoreChunks
<1> QED
    BY <1>1, <1>2, <1>3, <1>4, <1>5, <1>6, <1>7, <1>8, <1>9, <1>10, <1>11, <1>12, <1>13, <1>14,
       <1>15 DEF Next, PipelineStep, vars

\* Between any two nodes of QAPipeline, a round that is under way has searched
\* again fewer than MAX_RETRIES times, and a target that was found is a version
\* of a symbol the resolver matched.
THEOREM QuestionHolds == Spec => []QuestionInv
<1>1. Init => QuestionInv
    BY AskedHandsOn DEF Init, QuestionInv
<1> QED BY <1>1, StepPreserves, PTL DEF Spec

\* The method asked about is one the question names, in every round, and the
\* validator has no mismatch to report.
THEOREM NamesAnswered == Spec => []NamedSymbolAnswered
<1>1. QuestionInv => NamedSymbolAnswered
    BY DEF QuestionInv, HandedOn, NamedSymbolAnswered, Selected, Composed
<1> QED BY <1>1, QuestionHolds, PTL

-----------------------------------------------------------------------------
(* The evidence of an answer *)

Shown     == {"compose", "ask", "ask_again", "answered"}
WithTarget == {"traverse", "enrich", "fuse", "validate"} \cup Shown
WithEvidence == {"validate"} \cup Shown

\* That v may be shown in state s.
IsConnected(s, v) ==
    \/ {v, MethodOf[v]} \cap s.nodes # {}
    \/ s.target # None /\ MethodOf[v] = MethodOf[s.target]

\* The code and the graph the nodes hand on: the edges end at nodes, the target is one
\* of the hits, and what is found along the edges are nodes.
CodeHandedOn(s) ==
    /\ s.kind \in QuestionKind
    /\ s.ranking \in Seq(Versions)
    /\ s.hits \in Seq(Versions) /\ Len(s.hits) <= TOP_K
    /\ s.target \in Versions \cup {None}
    /\ \A e \in s.edges : e[2] \in s.nodes /\ e[3] \in s.nodes
    /\ s.enriched \in Seq(Versions) /\ Len(s.enriched) <= MAX_ENRICHED_CODE_CONTEXTS
    /\ s.evidence \in Seq(Versions \cup Commits) /\ Len(s.evidence) <= MaxEvidence[s.kind]
    /\ \A i, j \in DOMAIN s.evidence : s.evidence[i] = s.evidence[j] => i = j
    /\ s.pc = "analyze" => s.evidence = <<>>
    /\ s.pc \in WithTarget /\ s.symbols = {} /\ s.hits # <<>> => s.target \in ToSet(s.hits)
    /\ s.pc = "fuse" => ToSet(s.enriched) \subseteq s.nodes
    /\ s.pc \in WithEvidence =>
          /\ \A v \in ToSet(s.evidence) \cap Versions : IsConnected(s, v)
          /\ s.symbols = {} /\ s.evidence = <<>> => s.hits = <<>>

EvidenceInv == QuestionInv /\ CodeHandedOn(qa)

\* A question starts without code.
LEMMA AskedHandsOnCode ==
    ASSUME NEW names, NEW ranking \in Rankings PROVE CodeHandedOn(Asked(names, ranking))
<1>1. /\ ranking \in Seq(Versions) /\ TOP_K \in Nat /\ MAX_ENRICHED_CODE_CONTEXTS \in Nat
      /\ MaxEvidence["location"] \in Nat
    BY QuestionAssumption DEF QuestionKind
<1>2. <<>> \in Seq(Versions) /\ <<>> \in Seq(Versions \cup Commits) /\ Len(<<>>) = 0
      /\ DOMAIN <<>> = {}
    OBVIOUS
<1> QED BY <1>1, <1>2 DEF CodeHandedOn, Asked, QuestionKind, WithTarget, WithEvidence, Shown

\* A node that leaves the code and the graph alone.
LEMMA CodeStays ==
    ASSUME NEW s, CodeHandedOn(s), NEW t,
           t.kind = s.kind, t.ranking = s.ranking, t.hits = s.hits, t.target = s.target,
           t.nodes = s.nodes, t.edges = s.edges, t.enriched = s.enriched,
           t.evidence = s.evidence,
           t.pc = "analyze" => s.pc = "analyze",
           t.pc \in WithTarget => s.pc \in WithTarget /\ t.symbols = s.symbols,
           t.pc = "fuse" => s.pc = "fuse",
           t.pc \in WithEvidence => s.pc \in WithEvidence /\ t.symbols = s.symbols
    PROVE  CodeHandedOn(t)
BY DEF CodeHandedOn, IsConnected

\* Every step keeps the code and the graph together.
LEMMA StepHandsOnCode == EvidenceInv /\ [Next]_vars => CodeHandedOn(qa')
<1> SUFFICES ASSUME EvidenceInv, [Next]_vars PROVE CodeHandedOn(qa')
    OBVIOUS
<1> USE DEF EvidenceInv
<1>a. DOMAIN qa = Fields /\ CodeHandedOn(qa)
    BY DEF QuestionInv, HandedOn
<1>1. CASE qa' = qa
    BY <1>1
<1>2. ASSUME NEW kind \in QuestionKind, ClassifyQuestion(kind) PROVE CodeHandedOn(qa')
    <2>1. /\ qa' = [[qa EXCEPT !.kind = kind] EXCEPT !.pc = "resolve"]
          /\ qa.pc = "analyze" /\ qa.evidence = <<>> /\ MaxEvidence[kind] \in Nat
        BY <1>a, <1>2, QuestionAssumption DEF ClassifyQuestion, Goto, CodeHandedOn
    <2>2. Len(qa.evidence) <= MaxEvidence[kind]
        BY <2>1
    <2> QED BY <1>a, <2>1, <2>2 DEF CodeHandedOn, Fields, WithTarget, WithEvidence, Shown
<1>3. CASE ResolveEntities
    BY <1>a, <1>3, CodeStays DEF ResolveEntities, Goto, Fields, WithTarget, WithEvidence, Shown
<1>4. CASE SearchVectorEvidence
    <2> DEFINE hits == Cut(OnlyIn(qa.ranking, Embedded), TOP_K)
    <2>1. hits \in Seq(Versions) /\ Len(hits) <= TOP_K
        BY <1>a, QuestionAssumption, OnlyInSet, CutFirst DEF CodeHandedOn
    <2>2. qa' = [[qa EXCEPT !.hits = hits] EXCEPT !.pc = "select"]
        BY <1>4 DEF SearchVectorEvidence, Goto
    <2> HIDE DEF hits
    <2> QED BY <1>a, <2>1, <2>2 DEF CodeHandedOn, Fields, WithTarget, WithEvidence, Shown
<1>5. ASSUME NEW v \in Versions \cup {None}, SelectTarget(v) PROVE CodeHandedOn(qa')
    <2>1. qa' = [[qa EXCEPT !.target = v] EXCEPT !.pc = "traverse"]
        BY <1>5 DEF SelectTarget, Goto
    <2>2. qa.symbols = {} /\ qa.hits # <<>> => v \in ToSet(qa.hits)
        <3>1. qa.symbols = {} /\ qa.hits # <<>> => v \in ToSet(Cut(qa.hits, MAX_SELECTION_CANDIDATES))
            BY <1>5 DEF SelectTarget, IsSelected
        <3>2. ToSet(Cut(qa.hits, MAX_SELECTION_CANDIDATES)) \subseteq ToSet(qa.hits)
            BY <1>a, QuestionAssumption, CutFirst DEF CodeHandedOn
        <3> QED BY <3>1, <3>2
    <2> QED BY <1>a, <2>1, <2>2 DEF CodeHandedOn, Fields, WithEvidence, Shown
<1>6. CASE SearchGraphEvidence
    <2>1. PICK nodes, paths : /\ qa' = [[qa EXCEPT !.nodes = nodes, !.edges = EdgesOf(paths, nodes)]
                                           EXCEPT !.pc = "enrich"]
                              /\ qa.pc = "traverse"
        BY <1>6 DEF SearchGraphEvidence, Goto
    <2>2. \A e \in EdgesOf(paths, nodes) : e[2] \in nodes /\ e[3] \in nodes
        BY DEF EdgesOf
    <2> QED BY <1>a, <2>1, <2>2 DEF CodeHandedOn, Fields, WithTarget, WithEvidence, Shown
<1>7. CASE EnrichCodeEvidence
    <2>1. PICK order \in Orders : qa' = [[qa EXCEPT !.enriched = Enriched(order)] EXCEPT !.pc = "fuse"]
        BY <1>7 DEF EnrichCodeEvidence, Goto
    <2>2. /\ Enriched(order) \in Seq(Versions)
          /\ Len(Enriched(order)) <= MAX_ENRICHED_CODE_CONTEXTS
          /\ ToSet(Enriched(order)) \subseteq qa.nodes
        <3>1. CASE qa.target = None
            BY <3>1, QuestionAssumption DEF Enriched, ToSet
        <3>2. CASE qa.target # None
            <4> DEFINE found == BfsVersions(qa.edges, order, qa.target)
                       code == Embedded \ SimpleBodies
            <4>1. order \in Seq(Methods \cup Endpoints) /\ MAX_ENRICHED_CODE_CONTEXTS \in Nat
                BY QuestionAssumption
            <4>2. found \in Seq(Versioned(qa.edges))
                BY <4>1, BfsFinds
            <4>3. /\ OnlyIn(found, code) \in Seq(Versioned(qa.edges) \cap code)
                BY <4>2, OnlyInSet
            <4>4. Versioned(qa.edges) \subseteq qa.nodes /\ code \subseteq Versions
                BY <1>a DEF Versioned, CodeHandedOn, Embedded
            <4>5. Enriched(order) = Cut(OnlyIn(found, code), MAX_ENRICHED_CODE_CONTEXTS)
                BY <3>2 DEF Enriched
            <4> HIDE DEF found, code
            <4>6. OnlyIn(found, code) \in Seq(Versions \cap qa.nodes)
                BY <4>3, <4>4, SeqMonotonic
            <4>7. /\ Enriched(order) \in Seq(Versions \cap qa.nodes)
                  /\ Len(Enriched(order)) <= MAX_ENRICHED_CODE_CONTEXTS
                BY <4>1, <4>5, <4>6, CutFirst
            <4>8. Enriched(order) \in Seq(Versions)
                BY <4>7, SeqMonotonic
            <4>9. ToSet(Enriched(order)) \subseteq qa.nodes
                BY <4>7 DEF ToSet
            <4> QED BY <4>7, <4>8, <4>9
        <3> QED BY <3>1, <3>2
    <2> QED BY <1>a, <1>7, <2>1, <2>2
        DEF EnrichCodeEvidence, CodeHandedOn, Fields, WithTarget, WithEvidence, Shown
<1>8. CASE FuseEvidence
    <2>1. PICK history \in HistoryOrders : qa' = [[qa EXCEPT !.evidence = Fused(history)] EXCEPT !.pc = "validate"]
        BY <1>8 DEF FuseEvidence, Goto
    <2> DEFINE candidates == {v \in Versions : IsUserEvidenceCandidate(v)}
               hits == OnlyIn(qa.hits, candidates)
               all == (hits \o qa.enriched) \o history
               E == Fused(history)
    <2>2. history \in Seq(HistoryNodes) /\ HistoryNodes \subseteq qa.nodes \cap (Versions \cup Commits)
        <3>1. IsFiniteSet(HistoryNodes) /\ HistoryNodes \subseteq qa.nodes \cap (Versions \cup Commits)
            <4>1. HistoryNodes \in SUBSET (Versions \cup Commits) /\ HistoryNodes \subseteq qa.nodes
                BY DEF HistoryNodes
            <4>2. IsFiniteSet(Versions \cup Commits)
                BY ContextAssumption, FS_Union
            <4> QED BY <4>1, <4>2, FS_Subset
        <3>2. Cardinality(HistoryNodes) \in Nat
            BY <3>1, FS_CardinalityType
        <3>3. history \in [1 .. Cardinality(HistoryNodes) -> HistoryNodes]
            BY DEF HistoryOrders, SetToSeqs
        <3> QED BY <3>1, <3>2, <3>3
    <2>3. /\ hits \in Seq(Versions) /\ ToSet(hits) = ToSet(qa.hits) \cap candidates
        BY <1>a, OnlyInSet DEF CodeHandedOn
    <2>4. /\ qa.enriched \in Seq(Versions) /\ qa.hits \in Seq(Versions)
          /\ MaxEvidence[qa.kind] \in Nat /\ MaxEvidence[qa.kind] > 0
          /\ qa.pc = "fuse" /\ ToSet(qa.enriched) \subseteq qa.nodes
        BY <1>a, <1>8, QuestionAssumption DEF CodeHandedOn, FuseEvidence
    <2>5. E = Cut(Deduplicate(all), MaxEvidence[qa.kind])
        BY DEF Fused
    <2> HIDE DEF hits, E
    <2>6. /\ all \in Seq(Versions \cup Commits)
          /\ ToSet(all) = ToSet(hits) \cup ToSet(qa.enriched) \cup ToSet(history)
        <3>1. /\ hits \in Seq(Versions \cup Commits) /\ qa.enriched \in Seq(Versions \cup Commits)
              /\ history \in Seq(Versions \cup Commits)
            <4>1. Versions \subseteq Versions \cup Commits /\ HistoryNodes \subseteq Versions \cup Commits
                BY <2>2
            <4> QED BY <2>2, <2>3, <2>4, <4>1, SeqMonotonic
        <3>2. /\ hits \o qa.enriched \in Seq(Versions \cup Commits)
              /\ all \in Seq(Versions \cup Commits)
            BY <3>1, ConcatProperties
        <3>3. ToSet(hits \o qa.enriched) = ToSet(hits) \cup ToSet(qa.enriched)
            BY <3>1, ConcatSet
        <3>4. ToSet(all) = ToSet(hits \o qa.enriched) \cup ToSet(history)
            <4> DEFINE code == hits \o qa.enriched
            <4>1. code \in Seq(Versions \cup Commits) /\ all = code \o history
                BY <3>2
            <4> HIDE DEF code, all
            <4>2. ToSet(all) = ToSet(code) \cup ToSet(history)
                BY <3>1, <4>1, ConcatSet
            <4> QED BY <4>2 DEF code
        <3> QED BY <3>2, <3>3, <3>4
    <2> HIDE DEF all
    <2> DEFINE once == Deduplicate(all)
    <2>7. /\ once \in Seq(Versions \cup Commits) /\ ToSet(once) = ToSet(all)
          /\ \A i, j \in DOMAIN once : once[i] = once[j] => i = j
        BY <2>6, Deduplicated
    <2> HIDE DEF once
    <2>8. /\ E \in Seq(Versions \cup Commits) /\ Len(E) <= MaxEvidence[qa.kind]
          /\ DOMAIN E \subseteq DOMAIN once
          /\ \A i \in DOMAIN E : E[i] = once[i]
          /\ ToSet(E) \subseteq ToSet(once)
          /\ once # <<>> => E # <<>>
        BY <2>4, <2>5, <2>7, CutFirst DEF once
    <2>9. \A i, j \in DOMAIN E : E[i] = E[j] => i = j
        BY <2>7, <2>8
    <2>10. ASSUME NEW v \in ToSet(E), v \in Versions PROVE IsConnected(qa, v)
        <3>1. v \in ToSet(hits) \/ v \in ToSet(qa.enriched) \/ v \in ToSet(history)
            BY <2>6, <2>7, <2>8, <2>10
        <3>2. CASE v \in ToSet(hits)
            <4>1. IsUserEvidenceCandidate(v)
                BY <2>3, <3>2
            <4> QED BY <4>1 DEF IsUserEvidenceCandidate, IsConnected
        <3>3. CASE v \in ToSet(qa.enriched)
            BY <2>4, <3>3 DEF IsConnected
        <3>4. CASE v \in ToSet(history)
            <4>1. v \in qa.nodes
                BY <2>2, <3>4 DEF ToSet
            <4> QED BY <4>1 DEF IsConnected
        <3> QED BY <3>1, <3>2, <3>3, <3>4
    <2>11. ASSUME qa.symbols = {}, qa.hits # <<>> PROVE E # <<>>
        <3>1. qa.target \in ToSet(qa.hits)
            BY <1>a, <2>4, <2>11 DEF CodeHandedOn, WithTarget
        <3>2. qa.target \in Versions /\ qa.target # None
            <4>1. \A v \in ToSet(qa.hits) : v \in Versions
                BY <2>4 DEF ToSet
            <4> QED BY <3>1, <4>1, ContextAssumption
        <3>3. qa.target \in candidates
            BY <3>2 DEF IsUserEvidenceCandidate
        <3>4. qa.target \in ToSet(once)
            BY <2>3, <2>6, <2>7, <3>1, <3>3
        <3>5. once # <<>>
            BY <3>4 DEF ToSet
        <3> QED BY <2>8, <3>5
    <2>12. /\ qa'.pc = "validate" /\ qa'.evidence = E /\ qa'.kind = qa.kind
           /\ qa'.ranking = qa.ranking /\ qa'.hits = qa.hits /\ qa'.target = qa.target
           /\ qa'.nodes = qa.nodes /\ qa'.edges = qa.edges /\ qa'.enriched = qa.enriched
           /\ qa'.symbols = qa.symbols
        BY <1>a, <2>1 DEF Fields, E
    <2>13. \A v \in ToSet(E) \cap Versions : IsConnected(qa', v)
        BY <2>10, <2>12 DEF IsConnected
    <2> QED BY <1>a, <2>4, <2>8, <2>9, <2>11, <2>12, <2>13 DEF CodeHandedOn, WithTarget
<1>9. CASE ValidateEvidence
    <2>1. /\ qa' = [Validated EXCEPT !.pc = RouteAfterValidation(Validated)]
          /\ qa.pc = "validate" /\ RouteAfterValidation(Validated) \in {"compose", "search"}
        BY <1>9 DEF ValidateEvidence, Goto, RouteAfterValidation
    <2>2. /\ DOMAIN Validated = Fields
          /\ \A f \in Fields \ {"retries", "sufficient", "reason"} : Validated[f] = qa[f]
        BY <1>a DEF Validated, Fields
    <2> HIDE DEF Validated, RouteAfterValidation
    <2> QED BY <1>a, <2>1, <2>2, CodeStays DEF Fields, WithTarget, WithEvidence, Shown
<1>10. CASE ComposeAnswer
    BY <1>a, <1>10, CodeStays DEF ComposeAnswer, Goto, Fields, WithTarget, WithEvidence, Shown
<1>11. CASE ProviderLimit
    <2>1. PICK smaller : qa' \in {[[qa EXCEPT !.context = smaller] EXCEPT !.pc = "ask_again"],
                                  [qa EXCEPT !.pc = "failed"]}
        BY <1>11 DEF ProviderLimit, Goto
    <2> QED BY <1>a, <1>11, <2>1, CodeStays DEF ProviderLimit, Fields, WithTarget, WithEvidence, Shown
<1>12. CASE Answered
    <2>1. PICK shown : qa' = [[qa EXCEPT !.shown = shown] EXCEPT !.pc = "answered"]
        BY <1>12 DEF Answered, Goto
    <2> QED BY <1>a, <1>12, <2>1, CodeStays DEF Answered, Fields, WithTarget, WithEvidence, Shown
<1>13. CASE NodeFails
    BY <1>a, <1>13, CodeStays DEF NodeFails, Goto, Fields, WithTarget, WithEvidence, Shown
<1>14. ASSUME NEW names, NEW ranking \in Rankings, AskAgain(names, ranking) PROVE CodeHandedOn(qa')
    BY <1>14, AskedHandsOnCode DEF AskAgain
<1>15. CASE \E a \in Analyses : StoreHistory(a.commits) \/ StoreChunks(a.checkout)
    BY <1>15, <1>1 DEF StoreHistory, StoreChunks
<1> QED
    BY <1>1, <1>2, <1>3, <1>4, <1>5, <1>6, <1>7, <1>8, <1>9, <1>10, <1>11, <1>12, <1>13, <1>14,
       <1>15 DEF Next, PipelineStep, vars

\* Between any two nodes, whatever is analysed meanwhile.
LEMMA EvidenceHolds == Spec => []EvidenceInv
<1>1. Init => CodeHandedOn(qa)
    BY AskedHandsOnCode DEF Init
<1>2. EvidenceInv /\ QuestionInv' /\ [Next]_vars => EvidenceInv'
    BY StepHandsOnCode DEF EvidenceInv
<1> QED BY <1>1, <1>2, QuestionHolds, PTL DEF Spec, EvidenceInv

\* Whichever kind of question, search and round: the code an answer shows belongs to the
\* method asked about or to the graph that is shown with it.
THEOREM EvidenceConnected == Spec => []EvidenceIsConnected
<1>1. EvidenceInv => EvidenceIsConnected
    BY DEF EvidenceInv, CodeHandedOn, EvidenceIsConnected, IsConnected, Composed, WithEvidence, Shown
<1> QED BY <1>1, EvidenceHolds, PTL

\* An answer about no named method has evidence if the last search found any code.
THEOREM EvidenceIfFound == Spec => []NoEvidenceMeansNoChunk
<1>1. EvidenceInv => NoEvidenceMeansNoChunk
    BY DEF EvidenceInv, CodeHandedOn, NoEvidenceMeansNoChunk, Composed, WithEvidence, Shown
<1> QED BY <1>1, EvidenceHolds, PTL

-----------------------------------------------------------------------------
(* Sums along a list *)

Total(w) == FoldLeft(LAMBDA n, k : n + k, 0, w)

\* The sums of the first elements of w.
Sums(p, w) ==
    /\ p \in [0 .. Len(w) -> Nat] /\ p[0] = 0
    /\ \A k \in 0 .. Len(w) : k < Len(w) => p[k + 1] = p[k] + w[k + 1]

\* The indices up to the next one.
LEMMA NextIndex ==
    ASSUME NEW k \in Nat
    PROVE  Max(1 .. (k + 1)) = k + 1 /\ (1 .. (k + 1)) \ {k + 1} = 1 .. k
<1>1. k + 1 \in Nat /\ 1 .. (k + 1) \in SUBSET (1 .. (k + 1)) /\ 1 .. (k + 1) # {}
    OBVIOUS
<1>2. Max(1 .. (k + 1)) \in 1 .. (k + 1) /\ \A i \in 1 .. (k + 1) : i <= Max(1 .. (k + 1))
    BY <1>1, LastIndex
<1> QED BY <1>2

\* A function that is folded by adding one element of w after another.
AddsUp(kept, w, n) ==
    /\ kept[{}] = 0
    /\ \A s \in SUBSET (1 .. n) : s # {} => kept[s] = kept[s \ {Max(s)}] + w[Max(s)]

\* What is folded by adding one element after another is the last one of them.
LEMMA FoldSums ==
    ASSUME NEW w \in Seq(Nat), NEW n, n = Len(w), NEW kept, AddsUp(kept, w, n)
    PROVE  \E p : Sums(p, w) /\ kept[1 .. n] = p[n]
<1> USE DEF AddsUp
<1>1. n \in Nat /\ \A i \in 1 .. n : w[i] \in Nat
    OBVIOUS
<1>2. ASSUME NEW k \in 0 .. n, k < n PROVE kept[1 .. (k + 1)] = kept[1 .. k] + w[k + 1]
    <2>1. k \in Nat /\ k + 1 \in 1 .. (k + 1) /\ k + 1 <= n
        BY <1>1, <1>2
    <2>2. 1 .. (k + 1) # {}
        BY <2>1
    <2>3. \A j \in 1 .. (k + 1) : j \in 1 .. n
        BY <1>1, <2>1
    <2>4. 1 .. (k + 1) \in SUBSET (1 .. n)
        BY <2>3
    <2>5. Max(1 .. (k + 1)) = k + 1 /\ (1 .. (k + 1)) \ {k + 1} = 1 .. k
        BY <2>1, NextIndex
    <2> QED BY <2>2, <2>4, <2>5
<1> DEFINE S == {k \in Nat : k <= n => kept[1 .. k] \in Nat}
<1>3. 1 .. 0 = {}
    OBVIOUS
<1>4. 0 \in S
    BY <1>3
<1>5. ASSUME NEW k \in Nat, k \in S PROVE k + 1 \in S
    BY <1>1, <1>2, <1>5
<1>6. Nat \subseteq S
    <2> HIDE DEF S
    <2> QED BY <1>4, <1>5, UpwardInduction
<1> DEFINE p == [k \in 0 .. n |-> kept[1 .. k]]
<1>7. p \in [0 .. n -> Nat]
    <2>1. \A k \in 0 .. n : kept[1 .. k] \in Nat
        BY <1>1, <1>6
    <2> QED BY <2>1
<1>8. p[0] = 0
    <2>1. 0 \in 0 .. n
        BY <1>1
    <2> QED BY <1>3, <2>1
<1>9. \A k \in 0 .. n : k < n => p[k + 1] = p[k] + w[k + 1]
    <2>1. \A k \in 0 .. n : k < n => k + 1 \in 0 .. n
        BY <1>1
    <2> QED BY <1>2, <2>1
<1>10. p[n] = kept[1 .. n]
    BY <1>1
<1> HIDE DEF p
<1>11. Sums(p, w)
    BY <1>7, <1>8, <1>9 DEF Sums
<1> QED BY <1>10, <1>11

\* The total is the last one of them.
LEMMA TotalSums ==
    ASSUME NEW w \in Seq(Nat) PROVE \E p : Sums(p, w) /\ Total(w) = p[Len(w)]
<1> DEFINE n == Len(w)
           N == Nat
           Add(k, i) == k + w[i]
           Eq(f) == f = [s \in SUBSET (1 .. n) |->
                           IF s = {} THEN 0 ELSE Add(f[s \ {Max(s)}], Max(s))]
           G == [p \in N \X (1 .. n) |-> Add(p[1], p[2])]
           kept == CHOOSE f : Eq(f)
<1>1. n \in Nat /\ DOMAIN w = 1 .. n /\ \A i \in 1 .. n : w[i] \in Nat
    OBVIOUS
<1>2. Total(w) = kept[1 .. n]
    BY <1>1 DEF Total, FoldLeft, MapThenFoldSet
<1>3. \A k \in N, i \in 1 .. n : Add(k, i) \in N
    BY <1>1
<1>4. 0 \in N
    OBVIOUS
<1> HIDE DEF N, n, Add
<1>5. PICK f \in [SUBSET (1 .. n) -> N] : FoldOf(f, n, 0, G)
    <2>1. G \in [N \X (1 .. n) -> N]
        BY <1>3
    <2> HIDE DEF G
    <2> QED BY <1>1, <1>4, <2>1, FoldExists
<1>6. \A k \in N, i \in 1 .. n : G[<<k, i>>] = Add(k, i)
    OBVIOUS
<1> HIDE DEF G
<1>7. Eq(f)
    <2>1. \A s \in SUBSET (1 .. n) : s # {} => Max(s) \in 1 .. n /\ f[s \ {Max(s)}] \in N
        BY <1>1, LastIndex
    <2> QED BY <1>5, <1>6, <2>1 DEF FoldOf
<1>8. Eq(kept)
    <2> HIDE DEF Eq
    <2> QED BY <1>7
<1> HIDE DEF kept
<1>9. AddsUp(kept, w, n)
    <2>1. {} \in SUBSET (1 .. n)
        OBVIOUS
    <2> QED BY <1>8, <2>1 DEF Add, AddsUp
<1>a. n = Len(w)
    BY DEF n
<1>10. PICK p : Sums(p, w) /\ kept[1 .. n] = p[n]
    BY <1>a, <1>9, FoldSums
<1> QED BY <1>2, <1>10 DEF n

\* There is one such list of sums.
LEMMA SumsEqual ==
    ASSUME NEW w \in Seq(Nat), NEW p, Sums(p, w) PROVE p[Len(w)] = Total(w)
<1>1. PICK q : Sums(q, w) /\ Total(w) = q[Len(w)]
    BY TotalSums
<1> DEFINE n == Len(w)
           S == {k \in Nat : k <= n => p[k] = q[k]}
<1>2. n \in Nat
    OBVIOUS
<1> HIDE DEF n
<1>3. 0 \in S
    BY <1>1 DEF Sums
<1>4. ASSUME NEW k \in Nat, k \in S PROVE k + 1 \in S
    <2> SUFFICES ASSUME k + 1 <= n PROVE p[k + 1] = q[k + 1]
        OBVIOUS
    <2>1. k \in 0 .. n /\ k < n
        BY <1>2
    <2>2. p[k + 1] = p[k] + w[k + 1] /\ q[k + 1] = q[k] + w[k + 1]
        BY <1>1, <2>1 DEF Sums, n
    <2> QED BY <1>4, <2>1, <2>2
<1>5. n \in S
    <2> HIDE DEF S
    <2> QED BY <1>2, <1>3, <1>4, UpwardInduction
<1> QED BY <1>1, <1>2, <1>5 DEF n

\* It is a number.
LEMMA TotalNat == ASSUME NEW w \in Seq(Nat) PROVE Total(w) \in Nat
<1>1. PICK p : Sums(p, w) /\ Total(w) = p[Len(w)]
    BY TotalSums
<1>2. Len(w) \in Nat
    OBVIOUS
<1> QED BY <1>1, <1>2 DEF Sums

\* Without the last element there is so much less.
LEMMA TotalFront ==
    ASSUME NEW w \in Seq(Nat), NEW v \in Seq(Nat), Len(w) = Len(v) + 1,
           \A i \in 1 .. Len(v) : v[i] = w[i]
    PROVE  Total(w) = Total(v) + w[Len(w)]
<1>1. PICK p : Sums(p, w) /\ Total(w) = p[Len(w)]
    BY TotalSums
<1>2. PICK q : Sums(q, v) /\ Total(v) = q[Len(v)]
    BY TotalSums
<1> DEFINE n == Len(v)
           S == {k \in Nat : k <= n => p[k] = q[k]}
<1>3. n \in Nat /\ Len(w) = n + 1
    OBVIOUS
<1> HIDE DEF n
<1>4. 0 \in S
    BY <1>1, <1>2 DEF Sums
<1>5. ASSUME NEW k \in Nat, k \in S PROVE k + 1 \in S
    <2> SUFFICES ASSUME k + 1 <= n PROVE p[k + 1] = q[k + 1]
        OBVIOUS
    <2>1. k \in 0 .. n /\ k < n /\ k \in 0 .. (n + 1) /\ k < n + 1 /\ k + 1 \in 1 .. n
        BY <1>3
    <2>2. p[k + 1] = p[k] + w[k + 1]
        BY <1>1, <1>3, <2>1 DEF Sums
    <2>3. q[k + 1] = q[k] + v[k + 1]
        BY <1>2, <2>1 DEF Sums, n
    <2>4. v[k + 1] = w[k + 1]
        BY <2>1 DEF n
    <2> QED BY <1>5, <2>1, <2>2, <2>3, <2>4
<1>6. p[n] = q[n]
    <2>1. Nat \subseteq S
        <3> HIDE DEF S
        <3> QED BY <1>4, <1>5, UpwardInduction
    <2> QED BY <1>3, <2>1
<1>7. p[n + 1] = p[n] + w[n + 1]
    <2>1. n \in 0 .. (n + 1) /\ n < n + 1
        BY <1>3
    <2> QED BY <1>1, <1>3, <2>1 DEF Sums
<1> QED BY <1>1, <1>2, <1>3, <1>6, <1>7 DEF n

\* Without the first one, likewise.
LEMMA TotalTail ==
    ASSUME NEW w \in Seq(Nat), NEW v \in Seq(Nat), Len(w) = Len(v) + 1,
           \A i \in 1 .. Len(v) : v[i] = w[i + 1]
    PROVE  Total(w) = Total(v) + w[1]
<1>1. PICK p : Sums(p, w) /\ Total(w) = p[Len(w)]
    BY TotalSums
<1>2. PICK q : Sums(q, v) /\ Total(v) = q[Len(v)]
    BY TotalSums
<1> DEFINE n == Len(v)
           S == {k \in Nat : k <= n => p[k + 1] = q[k] + w[1]}
<1>3. n \in Nat /\ Len(w) = n + 1
    OBVIOUS
<1>a. w[1] \in Nat
    BY <1>3
<1> HIDE DEF n
<1>4. 0 \in S
    <2>1. 0 \in 0 .. (n + 1) /\ 0 < n + 1 /\ 0 + 1 = 1
        BY <1>3
    <2>2. p[0 + 1] = p[0] + w[0 + 1]
        BY <1>1, <1>3, <2>1 DEF Sums
    <2> QED BY <1>1, <1>2, <2>1, <2>2 DEF Sums
<1>5. ASSUME NEW k \in Nat, k \in S PROVE k + 1 \in S
    <2> SUFFICES ASSUME k + 1 <= n PROVE p[(k + 1) + 1] = q[k + 1] + w[1]
        OBVIOUS
    <2>1. /\ k \in 0 .. n /\ k < n /\ k + 1 \in 0 .. (n + 1) /\ k + 1 < n + 1 /\ k + 1 \in 1 .. n
        BY <1>3
    <2>2. p[(k + 1) + 1] = p[k + 1] + w[(k + 1) + 1]
        BY <1>1, <1>3, <2>1 DEF Sums
    <2>3. q[k + 1] = q[k] + v[k + 1] /\ q[k] \in Nat
        BY <1>2, <2>1 DEF Sums, n
    <2>4. v[k + 1] = w[(k + 1) + 1] /\ v[k + 1] \in Nat
        BY <2>1 DEF n
    <2>5. p[k + 1] = q[k] + w[1]
        BY <1>5, <2>1
    <2> QED BY <1>a, <2>2, <2>3, <2>4, <2>5
<1>6. p[n + 1] = q[n] + w[1]
    <2>1. Nat \subseteq S
        <3> HIDE DEF S
        <3> QED BY <1>4, <1>5, UpwardInduction
    <2> QED BY <1>3, <2>1
<1> QED BY <1>1, <1>2, <1>3, <1>6 DEF n

\* One element replaced by another one.
LEMMA TotalReplaced ==
    ASSUME NEW w \in Seq(Nat), NEW v \in Seq(Nat), Len(w) = Len(v), NEW i \in 1 .. Len(w),
           \A j \in 1 .. Len(w) : j # i => v[j] = w[j]
    PROVE  Total(v) + w[i] = Total(w) + v[i]
<1>1. PICK p : Sums(p, w) /\ Total(w) = p[Len(w)]
    BY TotalSums
<1>2. PICK q : Sums(q, v) /\ Total(v) = q[Len(v)]
    BY TotalSums
<1> DEFINE n == Len(w)
           S == {k \in Nat : k <= n => IF k < i THEN q[k] = p[k] ELSE q[k] + w[i] = p[k] + v[i]}
<1>3. n \in Nat /\ Len(v) = n /\ \A j \in 1 .. n : w[j] \in Nat /\ v[j] \in Nat
    OBVIOUS
<1>a. i \in 1 .. n /\ \A j \in 1 .. n : j # i => v[j] = w[j]
    OBVIOUS
<1> HIDE DEF n
<1>4. 0 \in S
    BY <1>1, <1>2, <1>3, <1>a DEF Sums
<1>5. ASSUME NEW k \in Nat, k \in S PROVE k + 1 \in S
    <2> SUFFICES ASSUME k + 1 <= n
                 PROVE  IF k + 1 < i THEN q[k + 1] = p[k + 1]
                        ELSE q[k + 1] + w[i] = p[k + 1] + v[i]
        OBVIOUS
    <2>1. k \in 0 .. n /\ k < n /\ k + 1 \in 1 .. n
        BY <1>3
    <2>2. p[k + 1] = p[k] + w[k + 1] /\ p[k] \in Nat
        BY <1>1, <2>1 DEF Sums, n
    <2>a. Len(v) = n
        BY <1>3
    <2>3. q[k + 1] = q[k] + v[k + 1] /\ q[k] \in Nat
        BY <1>2, <2>a, <2>1 DEF Sums
    <2>4. IF k < i THEN q[k] = p[k] ELSE q[k] + w[i] = p[k] + v[i]
        BY <1>5, <2>1
    <2>5. v[k + 1] \in Nat /\ w[k + 1] \in Nat /\ w[i] \in Nat /\ v[i] \in Nat
        BY <1>3, <1>a, <2>1
    <2>6. k + 1 # i => v[k + 1] = w[k + 1]
        BY <1>a, <2>1
    <2>7. CASE k + 1 < i
        BY <1>a, <2>2, <2>3, <2>4, <2>6, <2>7
    <2>8. CASE k + 1 = i
        BY <2>2, <2>3, <2>4, <2>5, <2>8
    <2>9. CASE k + 1 > i
        <3>1. ~(k < i) /\ ~(k + 1 < i) /\ k + 1 # i
            BY <1>a, <1>3, <2>9
        <3>2. q[k] + w[i] = p[k] + v[i] /\ v[k + 1] = w[k + 1]
            BY <2>4, <2>6, <3>1
        <3>3. q[k + 1] = q[k] + v[k + 1] /\ p[k + 1] = p[k] + v[k + 1]
            BY <2>2, <2>3, <3>2
        <3>4. PICK a \in Nat, b \in Nat, x \in Nat, y \in Nat, z \in Nat :
                  a = q[k] /\ b = p[k] /\ x = w[i] /\ y = v[i] /\ z = v[k + 1]
            BY <2>2, <2>3, <2>5
        <3>7. a + x = b + y
            BY <3>2, <3>4
        <3>6. (a + z) + x = (b + z) + y
            BY <3>7
        <3>5. (q[k] + v[k + 1]) + w[i] = (p[k] + v[k + 1]) + v[i]
            BY <3>4, <3>6
        <3> QED BY <3>1, <3>3, <3>5
    <2> QED BY <1>a, <2>7, <2>8, <2>9
<1>6. q[n] + w[i] = p[n] + v[i]
    <2>1. Nat \subseteq S
        <3> HIDE DEF S
        <3> QED BY <1>4, <1>5, UpwardInduction
    <2>2. n \in S /\ ~(n < i)
        BY <1>3, <1>a, <2>1
    <2> QED BY <1>3, <2>2
<1> QED BY <1>1, <1>2, <1>3, <1>6 DEF n

-----------------------------------------------------------------------------
(* The size of a context *)

Code == [version : Versions, chars : Nat]

CodeWeights(s)    == [i \in 1 .. Len(s) |-> ITEM_CHARS + s[i].chars]
HistoryWeights(s) == [i \in 1 .. Len(s) |-> ITEM_CHARS + s[i].source + s[i].diff * LINE_CHARS]

\* They are numbers.
LEMMA Weights ==
    /\ \A s \in Seq(Code) : CodeWeights(s) \in Seq(Nat) /\ Len(CodeWeights(s)) = Len(s)
    /\ \A s \in Seq(HistoryChangeContext) :
          HistoryWeights(s) \in Seq(Nat) /\ Len(HistoryWeights(s)) = Len(s)
<1>1. ITEM_CHARS \in Nat /\ LINE_CHARS \in Nat
    BY ContextAssumption
<1>2. ASSUME NEW s \in Seq(Code)
      PROVE  CodeWeights(s) \in Seq(Nat) /\ Len(CodeWeights(s)) = Len(s)
    <2>1. Len(s) \in Nat /\ \A i \in 1 .. Len(s) : s[i].chars \in Nat
        <3>1. \A i \in 1 .. Len(s) : s[i] \in Code
            BY ElementOfSeq
        <3> QED BY <3>1, LenProperties DEF Code
    <2> DEFINE n == Len(s)
               w == [i \in 1 .. n |-> ITEM_CHARS + s[i].chars]
    <2>2. w \in [1 .. n -> Nat]
        BY <1>1, <2>1
    <2> HIDE DEF w
    <2>3. w \in Seq(Nat) /\ Len(w) = n
        BY <2>1, <2>2
    <2> QED BY <2>3 DEF CodeWeights, w
<1>3. ASSUME NEW s \in Seq(HistoryChangeContext)
      PROVE  HistoryWeights(s) \in Seq(Nat) /\ Len(HistoryWeights(s)) = Len(s)
    <2>1. Len(s) \in Nat /\ \A i \in 1 .. Len(s) : s[i].source \in Nat /\ s[i].diff \in Nat
        <3>1. \A i \in 1 .. Len(s) : s[i] \in HistoryChangeContext
            BY ElementOfSeq
        <3> QED BY <3>1, LenProperties DEF HistoryChangeContext
    <2> DEFINE n == Len(s)
               w == [i \in 1 .. n |-> ITEM_CHARS + s[i].source + s[i].diff * LINE_CHARS]
    <2>a. \A x, y \in Nat : ITEM_CHARS + x + y * LINE_CHARS \in Nat
        BY <1>1
    <2>2. w \in [1 .. n -> Nat]
        BY <2>a, <2>1
    <2> HIDE DEF w
    <2>3. w \in Seq(Nat) /\ Len(w) = n
        BY <2>1, <2>2
    <2> QED BY <2>3 DEF HistoryWeights, w
<1> QED BY <1>2, <1>3

\* What _context_size adds up.
LEMMA SizeParts ==
    ASSUME NEW c \in AnswerGenerationContext
    PROVE  Size(c) = Total(CodeWeights(c.code)) + Total(HistoryWeights(c.history))
                       + (c.relations + Len(c.evidence)) * ITEM_CHARS
<1> DEFINE n == Len(c.code)
           Add(k, i) == k + ITEM_CHARS + c.code[i].chars
           N == Nat
           Eq(f) == f = [s \in SUBSET (1 .. n) |->
                           IF s = {} THEN 0 ELSE Add(f[s \ {Max(s)}], Max(s))]
           G == [p \in N \X (1 .. n) |-> Add(p[1], p[2])]
           kept == CHOOSE f : Eq(f)
           m == Len(c.history)
           Plus(k, i) == k + ITEM_CHARS + c.history[i].source + c.history[i].diff * LINE_CHARS
           Equal(f) == f = [s \in SUBSET (1 .. m) |->
                           IF s = {} THEN 0 ELSE Plus(f[s \ {Max(s)}], Max(s))]
           H == [p \in N \X (1 .. m) |-> Plus(p[1], p[2])]
           told == CHOOSE f : Equal(f)
<1>1. /\ c.code \in Seq([version : Versions, chars : Nat]) /\ c.history \in Seq(HistoryChangeContext)
      /\ n \in Nat /\ DOMAIN c.code = 1 .. n /\ m \in Nat /\ DOMAIN c.history = 1 .. m
      /\ c.relations \in Nat /\ Len(c.evidence) \in Nat
      /\ \A i \in 1 .. n : c.code[i] \in [version : Versions, chars : Nat]
      /\ \A i \in 1 .. m : c.history[i] \in HistoryChangeContext
    <2>1. /\ c.code \in Seq([version : Versions, chars : Nat])
          /\ c.history \in Seq(HistoryChangeContext)
          /\ c.relations \in Nat /\ c.evidence \in Seq(Versions \cup Commits)
        BY DEF AnswerGenerationContext
    <2> QED BY <2>1, LenProperties, ElementOfSeq
<1>2. ITEM_CHARS \in Nat /\ LINE_CHARS \in Nat
    BY ContextAssumption
<1>3. Size(c) = kept[1 .. n] + told[1 .. m] + (c.relations + Len(c.evidence)) * ITEM_CHARS
    <2> DEFINE code(k, item) == k + ITEM_CHARS + item.chars
               change(k, item) == k + ITEM_CHARS + item.source + item.diff * LINE_CHARS
    <2>1. DOMAIN c.code = 1 .. n /\ DOMAIN c.history = 1 .. m
        BY <1>1
    <2>2. Size(c) = FoldLeft(code, 0, c.code) + FoldLeft(change, 0, c.history)
                      + (c.relations + Len(c.evidence)) * ITEM_CHARS
        BY DEF Size
    <2> HIDE DEF n, m
    <2>3. FoldLeft(code, 0, c.code) = kept[1 .. n]
        BY <2>1 DEF FoldLeft, MapThenFoldSet
    <2>4. FoldLeft(change, 0, c.history) = told[1 .. m]
        BY <2>1 DEF FoldLeft, MapThenFoldSet
    <2> QED BY <2>2, <2>3, <2>4
<1> DEFINE w == CodeWeights(c.code)
           v == HistoryWeights(c.history)
<1>a. w \in Seq(Nat) /\ Len(w) = n /\ \A i \in 1 .. n : w[i] = ITEM_CHARS + c.code[i].chars
    BY <1>1, Weights DEF CodeWeights, Code
<1>b. /\ v \in Seq(Nat) /\ Len(v) = m
      /\ \A i \in 1 .. m : v[i] = ITEM_CHARS + c.history[i].source + c.history[i].diff * LINE_CHARS
    BY <1>1, Weights DEF HistoryWeights
<1> HIDE DEF n, m, w, v
<1>4. 0 \in N /\ \A k \in N, i \in 1 .. n : Add(k, i) \in N /\ Add(k, i) = k + w[i]
    <2> SUFFICES ASSUME NEW k \in Nat, NEW i \in 1 .. n PROVE Add(k, i) \in Nat /\ Add(k, i) = k + w[i]
        OBVIOUS
    <2>1. c.code[i] \in [version : Versions, chars : Nat]
        BY <1>1
    <2>2. c.code[i].chars \in Nat
        BY <2>1
    <2>3. w[i] = ITEM_CHARS + c.code[i].chars
        BY <1>a
    <2>4. PICK a \in Nat, b \in Nat : a = ITEM_CHARS /\ b = c.code[i].chars
        BY <1>2, <2>2
    <2>5. (k + a) + b \in Nat /\ (k + a) + b = k + (a + b)
        OBVIOUS
    <2> QED BY <2>3, <2>4, <2>5
<1>5. \A k \in N, i \in 1 .. m : Plus(k, i) \in N /\ Plus(k, i) = k + v[i]
    <2> SUFFICES ASSUME NEW k \in Nat, NEW i \in 1 .. m PROVE Plus(k, i) \in Nat /\ Plus(k, i) = k + v[i]
        OBVIOUS
    <2>1. c.history[i] \in HistoryChangeContext
        BY <1>1
    <2>2. c.history[i].source \in Nat /\ c.history[i].diff \in Nat
        BY <2>1 DEF HistoryChangeContext
    <2>3. c.history[i].diff * LINE_CHARS \in Nat
        BY <1>2, <2>2
    <2>4. v[i] = ITEM_CHARS + c.history[i].source + c.history[i].diff * LINE_CHARS
        BY <1>b
    <2>5. PICK a \in Nat, b \in Nat, d \in Nat :
              a = ITEM_CHARS /\ b = c.history[i].source /\ d = c.history[i].diff * LINE_CHARS
        BY <1>2, <2>2, <2>3
    <2>6. ((k + a) + b) + d \in Nat /\ ((k + a) + b) + d = k + ((a + b) + d)
        OBVIOUS
    <2> QED BY <2>4, <2>5, <2>6
<1> HIDE DEF Add, Plus, N
<1>6. kept[1 .. n] = Total(w)
    <2>1. PICK f \in [SUBSET (1 .. n) -> N] : FoldOf(f, n, 0, G)
        <3>1. G \in [N \X (1 .. n) -> N]
            BY <1>4
        <3> HIDE DEF G
        <3> QED BY <1>1, <1>4, <3>1, FoldExists
    <2>2. \A k \in N, i \in 1 .. n : G[<<k, i>>] = Add(k, i)
        OBVIOUS
    <2> HIDE DEF G
    <2>3. Eq(f)
        <3>1. \A s \in SUBSET (1 .. n) : s # {} => Max(s) \in 1 .. n /\ f[s \ {Max(s)}] \in N
            BY <1>1, LastIndex
        <3> QED BY <2>1, <2>2, <3>1 DEF FoldOf
    <2>4. Eq(kept)
        <3> HIDE DEF Eq
        <3> QED BY <2>3
    <2> HIDE DEF kept
    <2>5. kept[{}] = 0
        <3>1. {} \in SUBSET (1 .. n)
            OBVIOUS
        <3> QED BY <2>4, <3>1
    <2>6. \A s \in SUBSET (1 .. n) : s # {} =>
              kept[s] = Add(kept[s \ {Max(s)}], Max(s)) /\ Max(s) \in 1 .. n
        BY <1>1, <2>4, LastIndex
    <2> DEFINE S == {s \in SUBSET (1 .. n) : kept[s] \in N}
    <2>7. {} \in S
        BY <1>4, <2>5
    <2>8. ASSUME NEW s \in SUBSET (1 .. n), s # {}, s \ {Max(s)} \in S PROVE s \in S
        BY <1>4, <2>6, <2>8
    <2>9. SUBSET (1 .. n) \subseteq S
        <3> HIDE DEF S
        <3> QED BY <1>1, <2>7, <2>8, IndexInduction
    <2>10. \A s \in SUBSET (1 .. n) : s # {} => kept[s] = kept[s \ {Max(s)}] + w[Max(s)]
        <3> SUFFICES ASSUME NEW s \in SUBSET (1 .. n), s # {}
                     PROVE  kept[s] = kept[s \ {Max(s)}] + w[Max(s)]
            OBVIOUS
        <3>1. s \ {Max(s)} \in SUBSET (1 .. n)
            OBVIOUS
        <3>2. kept[s \ {Max(s)}] \in N
            BY <2>9, <3>1
        <3> QED BY <1>4, <2>6, <3>2
    <2>11. AddsUp(kept, w, n)
        BY <2>5, <2>10 DEF AddsUp
    <2>12. PICK p : Sums(p, w) /\ kept[1 .. n] = p[n]
        BY <1>a, <2>11, FoldSums
    <2> QED BY <1>a, <2>12, SumsEqual
<1>7. told[1 .. m] = Total(v)
    <2>1. PICK f \in [SUBSET (1 .. m) -> N] : FoldOf(f, m, 0, H)
        <3>1. H \in [N \X (1 .. m) -> N]
            BY <1>5
        <3> HIDE DEF H
        <3> QED BY <1>1, <1>4, <3>1, FoldExists
    <2>2. \A k \in N, i \in 1 .. m : H[<<k, i>>] = Plus(k, i)
        OBVIOUS
    <2> HIDE DEF H
    <2>3. Equal(f)
        <3>1. \A s \in SUBSET (1 .. m) : s # {} => Max(s) \in 1 .. m /\ f[s \ {Max(s)}] \in N
            BY <1>1, LastIndex
        <3> QED BY <2>1, <2>2, <3>1 DEF FoldOf
    <2>4. Equal(told)
        <3> HIDE DEF Equal
        <3> QED BY <2>3
    <2> HIDE DEF told
    <2>5. told[{}] = 0
        <3>1. {} \in SUBSET (1 .. m)
            OBVIOUS
        <3> QED BY <2>4, <3>1
    <2>6. \A s \in SUBSET (1 .. m) : s # {} =>
              told[s] = Plus(told[s \ {Max(s)}], Max(s)) /\ Max(s) \in 1 .. m
        BY <1>1, <2>4, LastIndex
    <2> DEFINE S == {s \in SUBSET (1 .. m) : told[s] \in N}
    <2>7. {} \in S
        BY <1>4, <2>5
    <2>8. ASSUME NEW s \in SUBSET (1 .. m), s # {}, s \ {Max(s)} \in S PROVE s \in S
        BY <1>5, <2>6, <2>8
    <2>9. SUBSET (1 .. m) \subseteq S
        <3> HIDE DEF S
        <3> QED BY <1>1, <2>7, <2>8, IndexInduction
    <2>10. \A s \in SUBSET (1 .. m) : s # {} => told[s] = told[s \ {Max(s)}] + v[Max(s)]
        <3> SUFFICES ASSUME NEW s \in SUBSET (1 .. m), s # {}
                     PROVE  told[s] = told[s \ {Max(s)}] + v[Max(s)]
            OBVIOUS
        <3>1. s \ {Max(s)} \in SUBSET (1 .. m)
            OBVIOUS
        <3>2. told[s \ {Max(s)}] \in N
            BY <2>9, <3>1
        <3> QED BY <1>5, <2>6, <3>2
    <2>11. AddsUp(told, v, m)
        BY <2>5, <2>10 DEF AddsUp
    <2>12. PICK p : Sums(p, v) /\ told[1 .. m] = p[m]
        BY <1>b, <2>11, FoldSums
    <2> QED BY <1>b, <2>12, SumsEqual
<1> QED BY <1>3, <1>6, <1>7 DEF w, v

\* A context has a size.
LEMMA SizeOf == ASSUME NEW c \in AnswerGenerationContext PROVE Size(c) \in Nat
<1>1. /\ c.code \in Seq(Code) /\ c.history \in Seq(HistoryChangeContext)
      /\ c.relations \in Nat /\ c.evidence \in Seq(Versions \cup Commits)
    BY DEF AnswerGenerationContext, Code
<1>2. CodeWeights(c.code) \in Seq(Nat) /\ HistoryWeights(c.history) \in Seq(Nat)
    BY <1>1, Weights
<1>3. Total(CodeWeights(c.code)) \in Nat /\ Total(HistoryWeights(c.history)) \in Nat
    BY <1>2, TotalNat
<1>4. (c.relations + Len(c.evidence)) * ITEM_CHARS \in Nat
    BY <1>1, ContextAssumption, LenProperties
<1> QED BY <1>3, <1>4, SizeParts

-----------------------------------------------------------------------------
(* What is left in a smaller context *)

\* A context that tells of the latest change told, or of the best hit told; of
\* nothing in particular, if that is None.
Telling(kind, told) ==
    {c \in AnswerGenerationContext :
        told # None => IF kind = "intent"
                       THEN c.history # <<>> /\ Last(c.history).commit = told
                       ELSE c.code # <<>> /\ c.code[1].version = told}

\* The parts of a context.
LEMMA PartsOf ==
    ASSUME NEW c \in AnswerGenerationContext
    PROVE  /\ c = [code |-> c.code, relations |-> c.relations, history |-> c.history,
                   evidence |-> c.evidence]
           /\ c.code \in Seq([version : Versions, chars : Nat]) /\ c.relations \in Nat
           /\ c.history \in Seq(HistoryChangeContext)
           /\ c.evidence \in Seq(Versions \cup Commits)
BY DEF AnswerGenerationContext

\* One of them replaced.
LEMMA PartChanged ==
    ASSUME NEW c \in AnswerGenerationContext, NEW x
    PROVE  /\ [c EXCEPT !.code = x] = [code |-> x, relations |-> c.relations,
                                       history |-> c.history, evidence |-> c.evidence]
           /\ [c EXCEPT !.relations = x] = [code |-> c.code, relations |-> x,
                                       history |-> c.history, evidence |-> c.evidence]
           /\ [c EXCEPT !.history = x] = [code |-> c.code, relations |-> c.relations,
                                       history |-> x, evidence |-> c.evidence]
           /\ [c EXCEPT !.evidence = x] = [code |-> c.code, relations |-> c.relations,
                                       history |-> c.history, evidence |-> x]
BY DEF AnswerGenerationContext

\* Neither the latest change nor the best hit is removed.
LEMMA WithoutLastTells ==
    ASSUME NEW kind, NEW told, NEW c \in Telling(kind, told)
    PROVE  WithoutLast(kind, c) \in Telling(kind, told)
<1>1. c \in AnswerGenerationContext
    BY DEF Telling
<1>2. /\ c = [code |-> c.code, relations |-> c.relations, history |-> c.history,
              evidence |-> c.evidence]
      /\ c.code \in Seq([version : Versions, chars : Nat]) /\ c.relations \in Nat
      /\ c.history \in Seq(HistoryChangeContext)
      /\ c.evidence \in Seq(Versions \cup Commits)
    BY <1>1, PartsOf
<1>3. ASSUME c.relations > 0 PROVE [c EXCEPT !.relations = c.relations - 1] \in Telling(kind, told)
    <2>1. [c EXCEPT !.relations = c.relations - 1] =
              [code |-> c.code, relations |-> c.relations - 1, history |-> c.history,
               evidence |-> c.evidence]
        BY <1>1, PartChanged
    <2>2. c.relations - 1 \in Nat
        BY <1>2, <1>3
    <2> QED BY <1>2, <2>1, <2>2 DEF Telling, AnswerGenerationContext
<1>4. ASSUME Len(c.evidence) > 1 PROVE [c EXCEPT !.evidence = Front(c.evidence)] \in Telling(kind, told)
    <2>1. [c EXCEPT !.evidence = Front(c.evidence)] =
              [code |-> c.code, relations |-> c.relations, history |-> c.history,
               evidence |-> Front(c.evidence)]
        BY <1>1, PartChanged
    <2>2. Front(c.evidence) \in Seq(Versions \cup Commits)
        <3>1. c.evidence # <<>>
            BY <1>2, <1>4
        <3> QED BY <1>2, <3>1, FrontKeeps
    <2> QED BY <1>2, <2>1, <2>2 DEF Telling, AnswerGenerationContext
<1>5. ASSUME c.code # <<>>, kind = "intent" \/ Len(c.code) > 1
      PROVE  [c EXCEPT !.code = Front(c.code)] \in Telling(kind, told)
    <2>1. [c EXCEPT !.code = Front(c.code)] =
              [code |-> Front(c.code), relations |-> c.relations, history |-> c.history,
               evidence |-> c.evidence]
        BY <1>1, PartChanged
    <2>2. /\ Front(c.code) \in Seq([version : Versions, chars : Nat])
          /\ Len(c.code) > 1 => Front(c.code) # <<>> /\ Front(c.code)[1] = c.code[1]
        <3>1. /\ Front(c.code) \in Seq([version : Versions, chars : Nat])
              /\ Len(Front(c.code)) = Len(c.code) - 1
              /\ \A i \in 1 .. Len(c.code) - 1 : Front(c.code)[i] = c.code[i]
            BY <1>2, <1>5, FrontKeeps
        <3>2. Len(c.code) \in Nat
            BY <1>2
        <3> QED BY <3>1, <3>2
    <2> QED BY <1>2, <1>5, <2>1, <2>2 DEF Telling, AnswerGenerationContext
<1>6. ASSUME c.history # <<>>, kind # "intent"
      PROVE  [c EXCEPT !.history = Front(c.history)] \in Telling(kind, told)
    <2>1. [c EXCEPT !.history = Front(c.history)] =
              [code |-> c.code, relations |-> c.relations, history |-> Front(c.history),
               evidence |-> c.evidence]
        BY <1>1, PartChanged
    <2>2. Front(c.history) \in Seq(HistoryChangeContext)
        BY <1>2, <1>6, FrontKeeps
    <2> QED BY <1>2, <1>6, <2>1, <2>2 DEF Telling, AnswerGenerationContext
<1>7. CASE kind = "intent"
    BY <1>3, <1>4, <1>5, <1>7 DEF WithoutLast
<1>8. CASE kind # "intent"
    <2>1. Len(c.code) > 1 => c.code # <<>>
        BY <1>2
    <2> QED BY <1>3, <1>4, <1>5, <1>6, <1>8, <2>1 DEF WithoutLast
<1> QED BY <1>7, <1>8

\* A text is cut to one.
LEMMA CutIsText ==
    ASSUME NEW chars \in Nat, NEW overage \in Nat PROVE CutText(chars, overage) \in Nat
BY ContextAssumption DEF CutText

\* Cutting the last code leaves its version.
LEMMA TruncateTells ==
    ASSUME NEW kind, NEW told, NEW c \in Telling(kind, told), NEW max \in Nat
    PROVE  TruncateLastCode(c, max) \in Telling(kind, told)
<1>1. c \in AnswerGenerationContext
    BY DEF Telling
<1>2. /\ c = [code |-> c.code, relations |-> c.relations, history |-> c.history,
              evidence |-> c.evidence]
      /\ c.code \in Seq([version : Versions, chars : Nat]) /\ c.relations \in Nat
      /\ c.history \in Seq(HistoryChangeContext)
      /\ c.evidence \in Seq(Versions \cup Commits)
    BY <1>1, PartsOf
<1>3. CASE Size(c) =< max \/ c.code = <<>>
    BY <1>3 DEF TruncateLastCode
<1>4. CASE ~(Size(c) =< max \/ c.code = <<>>)
    <2> DEFINE n == Len(c.code)
               left == CutText(c.code[n].chars, Size(c) - max)
               last == [version |-> c.code[n].version, chars |-> left]
               code == [c.code EXCEPT ![n] = last]
    <2>1. n \in 1 .. n /\ n \in Nat
        BY <1>2, <1>4, EmptySeq
    <2>2. c.code[n] \in [version : Versions, chars : Nat]
        BY <1>2, <2>1, ElementOfSeq
    <2>3. Size(c) - max \in Nat
        BY <1>1, <1>4, SizeOf
    <2>4. left \in Nat
        BY <2>2, <2>3, CutIsText
    <2>5. TruncateLastCode(c, max) = [c EXCEPT !.code = code]
        <3>1. TruncateLastCode(c, max) = [c EXCEPT !.code[n].chars = left]
            BY <1>4 DEF TruncateLastCode
        <3>2. [c.code[n] EXCEPT !.chars = left] = last
            BY <2>2
        <3> HIDE DEF left, n, last
        <3>3. [c EXCEPT !.code[n].chars = left] =
                  [c EXCEPT !.code = [c.code EXCEPT ![n] = [c.code[n] EXCEPT !.chars = left]]]
            OBVIOUS
        <3> QED BY <3>1, <3>2, <3>3
    <2> HIDE DEF left
    <2>6. last \in [version : Versions, chars : Nat]
        BY <2>2, <2>4
    <2>7. /\ code \in Seq([version : Versions, chars : Nat]) /\ Len(code) = n
          /\ code[1] = IF 1 = n THEN last ELSE c.code[1]
        <3>1. 1 \in 1 .. n
            BY <2>1
        <3> HIDE DEF last
        <3> QED BY <1>2, <2>1, <2>6, <3>1, ExceptSeq
    <2>8. code # <<>> /\ code[1].version = c.code[1].version
        BY <2>1, <2>7
    <2> HIDE DEF code, n, last
    <2>9. [c EXCEPT !.code = code] = [code |-> code, relations |-> c.relations,
                                      history |-> c.history, evidence |-> c.evidence]
        BY <1>1, PartChanged
    <2> QED BY <1>2, <1>4, <2>5, <2>7, <2>8, <2>9 DEF Telling, AnswerGenerationContext
<1> QED BY <1>3, <1>4

\* With as many changes as before.
TellingOf(kind, told, n) == {d \in Telling(kind, told) : Len(d.history) = n}

\* A change that is replaced by one of the same commit.
LEMMA ChangeReplaced ==
    ASSUME NEW kind, NEW told, NEW n \in Nat, NEW c \in TellingOf(kind, told, n),
           NEW i \in 1 .. n, NEW x \in HistoryChangeContext, x.commit = c.history[i].commit
    PROVE  [c EXCEPT !.history = [c.history EXCEPT ![i] = x]] \in TellingOf(kind, told, n)
<1>1. c \in Telling(kind, told) /\ c \in AnswerGenerationContext /\ Len(c.history) = n
    BY DEF TellingOf, Telling
<1>2. /\ c.code \in Seq([version : Versions, chars : Nat]) /\ c.relations \in Nat
      /\ c.history \in Seq(HistoryChangeContext)
      /\ c.evidence \in Seq(Versions \cup Commits)
    BY <1>1, PartsOf
<1> DEFINE history == [c.history EXCEPT ![i] = x]
<1>3. /\ history \in Seq(HistoryChangeContext) /\ Len(history) = n
      /\ \A j \in 1 .. n : history[j] = IF j = i THEN x ELSE c.history[j]
    BY <1>1, <1>2, ExceptSeq
<1> HIDE DEF history
<1>4. n \in 1 .. n /\ history # <<>>
    BY <1>3
<1>5. Last(history).commit = Last(c.history).commit
    BY <1>1, <1>3, <1>4 DEF Last
<1>6. [c EXCEPT !.history = history] = [code |-> c.code, relations |-> c.relations,
                                        history |-> history, evidence |-> c.evidence]
    BY <1>1, PartChanged
<1>7. [c EXCEPT !.history = history] \in AnswerGenerationContext
    BY <1>2, <1>3, <1>6 DEF AnswerGenerationContext
<1>8. [c EXCEPT !.history = history] \in Telling(kind, told)
    BY <1>1, <1>4, <1>5, <1>6, <1>7 DEF Telling
<1> QED BY <1>3, <1>6, <1>8 DEF TellingOf, history

\* Cutting a change leaves its commit, and all changes.
LEMMA CutChangeTells ==
    ASSUME NEW kind, NEW told, NEW n \in Nat, NEW c \in TellingOf(kind, told, n),
           NEW i \in 1 .. n, NEW max \in Nat
    PROVE  CutChange(c, i, max) \in TellingOf(kind, told, n)
<1> DEFINE V == TellingOf(kind, told, n)
           left == CutText(c.history[i].source, Size(c) - max)
           cut == IF c.history[i].version = None THEN c ELSE [c EXCEPT !.history[i].source = left]
           pop(d) == IF d.history[i].diff = 0 THEN d
                     ELSE [d EXCEPT !.history[i].diff = d.history[i].diff - 1]
           N == DIFF_LINES
           list == [j \in 1 .. N |-> j]
           Add(d, j) == IF Size(d) > max THEN pop(d) ELSE d
           Eq(f) == f = [s \in SUBSET (1 .. N) |->
                           IF s = {} THEN cut ELSE Add(f[s \ {Max(s)}], list[Max(s)])]
           G == [p \in V \X (1 .. N) |-> Add(p[1], list[p[2]])]
           kept == CHOOSE f : Eq(f)
<1>1. \A d \in V : /\ d \in AnswerGenerationContext /\ d.history \in Seq(HistoryChangeContext)
                   /\ d.history[i] \in HistoryChangeContext
    <2> SUFFICES ASSUME NEW d \in V
                 PROVE  /\ d \in AnswerGenerationContext /\ d.history \in Seq(HistoryChangeContext)
                        /\ d.history[i] \in HistoryChangeContext
        OBVIOUS
    <2>1. d \in AnswerGenerationContext /\ Len(d.history) = n
        BY DEF TellingOf, Telling
    <2>2. d.history \in Seq(HistoryChangeContext)
        BY <2>1, PartsOf
    <2> QED BY <2>1, <2>2, ElementOfSeq
<1>2. N \in Nat
    BY ContextAssumption
<1>3. ASSUME ~(Size(c) =< max) PROVE cut \in V
    <2> DEFINE x == [type |-> c.history[i].type, commit |-> c.history[i].commit,
                     version |-> c.history[i].version, source |-> left,
                     diff |-> c.history[i].diff]
    <2>1. c.history[i] \in HistoryChangeContext
        BY <1>1
    <2>2. Size(c) \in Nat /\ Size(c) - max \in Nat
        BY <1>1, <1>3, SizeOf
    <2>3. left \in Nat
        <3>1. c.history[i].source \in Nat
            BY <2>1 DEF HistoryChangeContext
        <3> QED BY <2>2, <3>1, CutIsText
    <2> HIDE DEF left
    <2>4. x \in HistoryChangeContext /\ x.commit = c.history[i].commit
        BY <2>1, <2>3 DEF HistoryChangeContext
    <2>5. [c.history[i] EXCEPT !.source = left] = x
        BY <2>1 DEF HistoryChangeContext
    <2> HIDE DEF x
    <2>6. [c EXCEPT !.history[i].source = left] = [c EXCEPT !.history = [c.history EXCEPT ![i] = x]]
        BY <2>5
    <2> QED BY <2>4, <2>6, ChangeReplaced
<1>4. ASSUME NEW d \in V PROVE pop(d) \in V
    <2> DEFINE x == [type |-> d.history[i].type, commit |-> d.history[i].commit,
                     version |-> d.history[i].version, source |-> d.history[i].source,
                     diff |-> d.history[i].diff - 1]
    <2>1. CASE d.history[i].diff = 0
        BY <2>1
    <2>2. CASE d.history[i].diff # 0
        <3>1. d.history[i] \in HistoryChangeContext
            BY <1>1
        <3>2. x \in HistoryChangeContext /\ x.commit = d.history[i].commit
            BY <2>2, <3>1 DEF HistoryChangeContext
        <3>3. [d.history[i] EXCEPT !.diff = d.history[i].diff - 1] = x
            BY <3>1 DEF HistoryChangeContext
        <3> HIDE DEF x
        <3>4. pop(d) = [d EXCEPT !.history = [d.history EXCEPT ![i] = x]]
            BY <2>2, <3>3
        <3> QED BY <3>2, <3>4, ChangeReplaced
    <2> QED BY <2>1, <2>2
<1>5. CASE Size(c) =< max
    BY <1>5 DEF CutChange
<1>6. CASE ~(Size(c) =< max)
    <2>1. CutChange(c, i, max) = kept[1 .. N]
        <3>1. DOMAIN list = 1 .. N
            OBVIOUS
        <3>2. CutChange(c, i, max) = WhileTooLarge(pop, cut, N, max)
            BY <1>6 DEF CutChange
        <3>3. WhileTooLarge(pop, cut, N, max) = FoldLeft(Add, cut, list)
            BY DEF WhileTooLarge
        <3> HIDE DEF cut, pop, list, N
        <3>4. FoldLeft(Add, cut, list) = kept[1 .. N]
            BY <3>1 DEF FoldLeft, MapThenFoldSet
        <3> QED BY <3>2, <3>3, <3>4
    <2>2. cut \in V
        BY <1>3, <1>6
    <2> HIDE DEF cut, pop, N, list
    <2>3. \A j : \A d \in V : Add(d, j) \in V
        BY <1>4
    <2>4. PICK f \in [SUBSET (1 .. N) -> V] : FoldOf(f, N, cut, G)
        <3> HIDE DEF Add, V
        <3>1. G \in [V \X (1 .. N) -> V]
            BY <2>3
        <3> HIDE DEF G
        <3> QED BY <1>2, <2>2, <3>1, FoldExists
    <2>5. \A d \in V, j \in 1 .. N : G[<<d, j>>] = Add(d, list[j])
        OBVIOUS
    <2> HIDE DEF V, Add, G
    <2>6. Eq(f)
        <3>1. \A s \in SUBSET (1 .. N) : s # {} => Max(s) \in 1 .. N /\ f[s \ {Max(s)}] \in V
            BY <1>2, LastIndex
        <3> QED BY <2>4, <2>5, <3>1 DEF FoldOf
    <2>7. Eq(kept)
        <3> HIDE DEF Eq
        <3> QED BY <2>6
    <2> HIDE DEF kept
    <2>8. kept[{}] = cut
        <3>1. {} \in SUBSET (1 .. N)
            OBVIOUS
        <3> QED BY <2>7, <3>1
    <2>9. ASSUME NEW s \in SUBSET (1 .. N), s # {}, kept[s \ {Max(s)}] \in V PROVE kept[s] \in V
        <3>1. kept[s] = Add(kept[s \ {Max(s)}], list[Max(s)])
            BY <2>7, <2>9
        <3> QED BY <2>3, <2>9, <3>1
    <2>10. kept[1 .. N] \in V
        BY <1>2, <2>2, <2>8, <2>9, FoldKeeps
    <2> QED BY <2>1, <2>10 DEF V
<1> QED BY <1>5, <1>6

\* The latest change is the last to be dropped.
LEMMA DropOldestTells ==
    ASSUME NEW kind, NEW told, NEW c \in Telling(kind, told)
    PROVE  DropOldest(c) \in Telling(kind, told)
<1>1. c \in AnswerGenerationContext
    BY DEF Telling
<1>2. /\ c.code \in Seq([version : Versions, chars : Nat]) /\ c.relations \in Nat
      /\ c.history \in Seq(HistoryChangeContext)
      /\ c.evidence \in Seq(Versions \cup Commits)
    BY <1>1, PartsOf
<1>3. CASE ~(Len(c.history) > 1)
    BY <1>3 DEF DropOldest
<1>4. CASE Len(c.history) > 1
    <2> DEFINE history == Tail(c.history)
    <2>1. Len(c.history) \in Nat /\ c.history # <<>>
        BY <1>2, <1>4, LenProperties
    <2>2. /\ history \in Seq(HistoryChangeContext) /\ Len(history) = Len(c.history) - 1
          /\ \A i \in 1 .. Len(history) : history[i] = c.history[i + 1]
        BY <1>2, <2>1, HeadTailProperties
    <2> HIDE DEF history
    <2>3. Len(history) \in 1 .. Len(history) /\ history # <<>>
        BY <1>4, <2>1, <2>2, EmptySeq
    <2>4. Last(history) = Last(c.history)
        BY <2>1, <2>2, <2>3 DEF Last
    <2>5. DropOldest(c) = [code |-> c.code, relations |-> c.relations, history |-> history,
                           evidence |-> c.evidence]
        <3>1. DropOldest(c) = [c EXCEPT !.history = history]
            BY <1>4 DEF DropOldest, history
        <3> QED BY <1>1, <3>1, PartChanged
    <2> QED BY <1>2, <2>1, <2>2, <2>3, <2>4, <2>5 DEF Telling, AnswerGenerationContext
<1> QED BY <1>3, <1>4

\* So after all that _reduce_history_context does.
LEMMA ReduceHistoryTells ==
    ASSUME NEW kind, NEW told, NEW c \in Telling(kind, told), NEW max \in Nat
    PROVE  ReduceHistory(c, max) \in Telling(kind, told)
<1> DEFINE n == Len(c.history)
           V == TellingOf(kind, told, n)
           W == Telling(kind, told)
           list == [j \in 1 .. n |-> j]
           Cutting(d, i) == CutChange(d, i, max)
           Dropping(d, i) == IF Size(d) > max THEN DropOldest(d) ELSE d
           cut == FoldLeft(Cutting, c, list)
<1>1. n \in Nat
    <2>1. c \in AnswerGenerationContext
        BY DEF Telling
    <2>2. c.history \in Seq(HistoryChangeContext)
        BY <2>1, PartsOf
    <2> QED BY <2>2, LenProperties
<1>2. DOMAIN list = 1 .. n /\ \A i \in 1 .. n : list[i] = i
    OBVIOUS
<1>3. ReduceHistory(c, max) = FoldLeft(Dropping, cut, list)
    BY DEF ReduceHistory, WhileTooLarge
<1>4. c \in V
    BY DEF TellingOf
<1> HIDE DEF n
<1>5. \A d \in V, i \in 1 .. n : Cutting(d, i) \in V
    BY <1>1, CutChangeTells
<1>6. \A i : \A d \in W : Dropping(d, i) \in W
    BY DropOldestTells
<1> HIDE DEF list, Cutting, Dropping
<1>7. cut \in V
    <2> DEFINE Eq(f) == f = [s \in SUBSET (1 .. n) |->
                               IF s = {} THEN c ELSE Cutting(f[s \ {Max(s)}], list[Max(s)])]
               G == [p \in V \X (1 .. n) |-> Cutting(p[1], list[p[2]])]
               kept == CHOOSE f : Eq(f)
    <2>1. cut = kept[1 .. n]
        BY <1>2 DEF FoldLeft, MapThenFoldSet
    <2> HIDE DEF cut, V
    <2>2. PICK f \in [SUBSET (1 .. n) -> V] : FoldOf(f, n, c, G)
        <3>1. G \in [V \X (1 .. n) -> V]
            BY <1>2, <1>5
        <3> HIDE DEF G
        <3> QED BY <1>1, <1>4, <3>1, FoldExists
    <2>3. \A d \in V, j \in 1 .. n : G[<<d, j>>] = Cutting(d, list[j])
        OBVIOUS
    <2> HIDE DEF G
    <2>4. Eq(f)
        <3>1. \A s \in SUBSET (1 .. n) : s # {} => Max(s) \in 1 .. n /\ f[s \ {Max(s)}] \in V
            BY <1>1, LastIndex
        <3> QED BY <2>2, <2>3, <3>1 DEF FoldOf
    <2>5. Eq(kept)
        <3> HIDE DEF Eq
        <3> QED BY <2>4
    <2> HIDE DEF kept
    <2>6. kept[{}] = c
        <3>1. {} \in SUBSET (1 .. n)
            OBVIOUS
        <3> QED BY <2>5, <3>1
    <2>7. ASSUME NEW s \in SUBSET (1 .. n), s # {}, kept[s \ {Max(s)}] \in V PROVE kept[s] \in V
        <3>1. kept[s] = Cutting(kept[s \ {Max(s)}], list[Max(s)]) /\ Max(s) \in 1 .. n
            BY <1>1, <2>5, <2>7, LastIndex
        <3> QED BY <1>2, <1>5, <2>7, <3>1
    <2>8. kept[1 .. n] \in V
        BY <1>1, <1>4, <2>6, <2>7, FoldKeeps
    <2> QED BY <2>1, <2>8
<1> HIDE DEF cut
<1>8. cut \in W
    BY <1>7 DEF TellingOf
<1>9. FoldLeft(Dropping, cut, list) \in W
    <2> DEFINE Eq(f) == f = [s \in SUBSET (1 .. n) |->
                               IF s = {} THEN cut ELSE Dropping(f[s \ {Max(s)}], list[Max(s)])]
               G == [p \in W \X (1 .. n) |-> Dropping(p[1], list[p[2]])]
               kept == CHOOSE f : Eq(f)
    <2>1. FoldLeft(Dropping, cut, list) = kept[1 .. n]
        BY <1>2 DEF FoldLeft, MapThenFoldSet
    <2> HIDE DEF W
    <2>2. PICK f \in [SUBSET (1 .. n) -> W] : FoldOf(f, n, cut, G)
        <3>1. G \in [W \X (1 .. n) -> W]
            BY <1>6
        <3> HIDE DEF G
        <3> QED BY <1>1, <1>8, <3>1, FoldExists
    <2>3. \A d \in W, j \in 1 .. n : G[<<d, j>>] = Dropping(d, list[j])
        OBVIOUS
    <2> HIDE DEF G
    <2>4. Eq(f)
        <3>1. \A s \in SUBSET (1 .. n) : s # {} => Max(s) \in 1 .. n /\ f[s \ {Max(s)}] \in W
            BY <1>1, LastIndex
        <3> QED BY <2>2, <2>3, <3>1 DEF FoldOf
    <2>5. Eq(kept)
        <3> HIDE DEF Eq
        <3> QED BY <2>4
    <2> HIDE DEF kept
    <2>6. kept[{}] = cut
        <3>1. {} \in SUBSET (1 .. n)
            OBVIOUS
        <3> QED BY <2>5, <3>1
    <2>7. ASSUME NEW s \in SUBSET (1 .. n), s # {}, kept[s \ {Max(s)}] \in W PROVE kept[s] \in W
        <3>1. kept[s] = Dropping(kept[s \ {Max(s)}], list[Max(s)])
            BY <2>5, <2>7
        <3> QED BY <1>6, <2>7, <3>1
    <2>8. kept[1 .. n] \in W
        BY <1>1, <1>8, <2>6, <2>7, FoldKeeps
    <2> QED BY <2>1, <2>8
<1> QED BY <1>3, <1>9 DEF W

\* A context that fits a budget, and the one of the second request.
LEMMA FitBudgetTells ==
    ASSUME NEW kind, NEW told, NEW c \in Telling(kind, told), NEW max \in Nat
    PROVE  FitBudget(kind, c, max) \in Telling(kind, told)
<1> DEFINE n == Len(c.code) + c.relations + Len(c.history) + Len(c.evidence)
           W == Telling(kind, told)
           list == [j \in 1 .. n |-> j]
           Removing(d, i) == IF Size(d) > max THEN WithoutLast(kind, d) ELSE d
           fewer == FoldLeft(Removing, c, list)
<1>1. n \in Nat
    <2>1. c \in AnswerGenerationContext
        BY DEF Telling
    <2>2. /\ c.code \in Seq([version : Versions, chars : Nat]) /\ c.relations \in Nat
          /\ c.history \in Seq(HistoryChangeContext) /\ c.evidence \in Seq(Versions \cup Commits)
        BY <2>1, PartsOf
    <2>3. Len(c.code) \in Nat /\ Len(c.history) \in Nat /\ Len(c.evidence) \in Nat
        BY <2>2, LenProperties
    <2>4. c.relations \in Nat
        BY <2>2
    <2>5. \A i, j, k, l \in Nat : i + j + k + l \in Nat
        OBVIOUS
    <2> HIDE DEF list, Removing, fewer, W
    <2> QED BY <2>3, <2>4, <2>5
<1>2. DOMAIN list = 1 .. n
    OBVIOUS
<1>3. FitBudget(kind, c, max) = ReduceHistory(TruncateLastCode(fewer, max), max)
    BY DEF FitBudget, WhileTooLarge
<1> HIDE DEF n
<1>4. \A i : \A d \in W : Removing(d, i) \in W
    BY WithoutLastTells
<1> HIDE DEF list, Removing
<1>5. fewer \in W
    <2> DEFINE Eq(f) == f = [s \in SUBSET (1 .. n) |->
                               IF s = {} THEN c ELSE Removing(f[s \ {Max(s)}], list[Max(s)])]
               G == [p \in W \X (1 .. n) |-> Removing(p[1], list[p[2]])]
               kept == CHOOSE f : Eq(f)
    <2>1. fewer = kept[1 .. n]
        BY <1>2 DEF FoldLeft, MapThenFoldSet
    <2> HIDE DEF fewer, W
    <2>2. c \in W
        BY DEF W
    <2>3. PICK f \in [SUBSET (1 .. n) -> W] : FoldOf(f, n, c, G)
        <3>1. G \in [W \X (1 .. n) -> W]
            BY <1>4
        <3> HIDE DEF G
        <3> QED BY <1>1, <2>2, <3>1, FoldExists
    <2>4. \A d \in W, j \in 1 .. n : G[<<d, j>>] = Removing(d, list[j])
        OBVIOUS
    <2> HIDE DEF G
    <2>5. Eq(f)
        <3>1. \A s \in SUBSET (1 .. n) : s # {} => Max(s) \in 1 .. n /\ f[s \ {Max(s)}] \in W
            BY <1>1, LastIndex
        <3> QED BY <2>3, <2>4, <3>1 DEF FoldOf
    <2>6. Eq(kept)
        <3> HIDE DEF Eq
        <3> QED BY <2>5
    <2> HIDE DEF kept
    <2>7. kept[{}] = c
        <3>1. {} \in SUBSET (1 .. n)
            OBVIOUS
        <3> QED BY <2>6, <3>1
    <2>8. ASSUME NEW s \in SUBSET (1 .. n), s # {}, kept[s \ {Max(s)}] \in W PROVE kept[s] \in W
        <3>1. kept[s] = Removing(kept[s \ {Max(s)}], list[Max(s)])
            BY <2>6, <2>8
        <3> QED BY <1>4, <2>8, <3>1
    <2>9. kept[1 .. n] \in W
        BY <1>1, <2>2, <2>7, <2>8, FoldKeeps
    <2> QED BY <2>1, <2>9
<1> HIDE DEF fewer
<1>6. TruncateLastCode(fewer, max) \in W
    BY <1>5, TruncateTells
<1>7. ReduceHistory(TruncateLastCode(fewer, max), max) \in W
    BY <1>6, ReduceHistoryTells
<1> QED BY <1>3, <1>7

\* The smaller context tells what the first one told.
LEMMA FallbackTells ==
    ASSUME NEW kind, NEW told, NEW c \in Telling(kind, told)
    PROVE  Fallback(kind, c) \in Telling(kind, told)
<1>1. Size(c) \in Nat
    BY SizeOf DEF Telling
<1>2. FallbackBudget(Size(c)) \in Nat
    BY <1>1, ContextAssumption DEF FallbackBudget
<1> QED BY <1>2, FitBudgetTells DEF Fallback

-----------------------------------------------------------------------------
(* What is smaller *)

\* A code that is not there.
LEMMA CodeLess ==
    ASSUME NEW code \in Seq(Code), code # <<>>
    PROVE  Total(CodeWeights(Front(code))) < Total(CodeWeights(code))
<1>1. /\ Front(code) \in Seq(Code) /\ Len(Front(code)) = Len(code) - 1 /\ Len(code) \in Nat
      /\ Len(code) # 0
      /\ \A i \in 1 .. Len(code) - 1 : Front(code)[i] = code[i]
    BY FrontKeeps, LenProperties, EmptySeq
<1> DEFINE w == CodeWeights(code)
           v == CodeWeights(Front(code))
<1>2. w \in Seq(Nat) /\ v \in Seq(Nat) /\ Len(w) = Len(code) /\ Len(v) = Len(Front(code))
    BY <1>1, Weights
<1>3. \A i \in 1 .. Len(v) : v[i] = w[i]
    <2> SUFFICES ASSUME NEW i \in 1 .. Len(v) PROVE v[i] = w[i]
        OBVIOUS
    <2>1. i \in 1 .. Len(Front(code)) /\ i \in 1 .. Len(code) - 1 /\ i \in 1 .. Len(code)
        BY <1>1, <1>2
    <2>2. v[i] = ITEM_CHARS + Front(code)[i].chars
        BY <2>1 DEF CodeWeights
    <2>3. w[i] = ITEM_CHARS + code[i].chars
        BY <2>1 DEF CodeWeights
    <2> QED BY <1>1, <2>1, <2>2, <2>3
<1>4. w[Len(w)] \in Nat /\ w[Len(w)] > 0
    <2>1. Len(code) \in 1 .. Len(code)
        BY <1>1
    <2>2. code[Len(code)] \in Code
        BY <2>1, ElementOfSeq
    <2>3. w[Len(w)] = ITEM_CHARS + code[Len(code)].chars
        BY <1>2, <2>1 DEF CodeWeights
    <2>4. ITEM_CHARS \in Nat /\ ITEM_CHARS > 0 /\ code[Len(code)].chars \in Nat
        BY <2>2, ContextAssumption DEF Code
    <2> QED BY <2>3, <2>4
<1>5. Len(w) = Len(v) + 1
    BY <1>1, <1>2
<1> HIDE DEF w, v
<1>6. Total(w) = Total(v) + w[Len(w)]
    BY <1>2, <1>3, <1>5, TotalFront
<1>7. Total(v) \in Nat
    BY <1>2, TotalNat
<1> QED BY <1>4, <1>6, <1>7 DEF w, v

\* A change has a weight.
LEMMA ChangeWeight ==
    ASSUME NEW x \in HistoryChangeContext
    PROVE  ITEM_CHARS + x.source + x.diff * LINE_CHARS \in Nat \ {0}
<1>1. PICK i \in Nat, l \in Nat, s \in Nat, d \in Nat :
          i = ITEM_CHARS /\ l = LINE_CHARS /\ s = x.source /\ d = x.diff /\ i > 0
    BY ContextAssumption DEF HistoryChangeContext
<1>2. d * l \in Nat
    OBVIOUS
<1> QED BY <1>1, <1>2

\* A change that is not there, the latest or the oldest.
LEMMA HistoryLess ==
    ASSUME NEW history \in Seq(HistoryChangeContext), history # <<>>
    PROVE  /\ Total(HistoryWeights(Front(history))) < Total(HistoryWeights(history))
           /\ Total(HistoryWeights(Tail(history))) < Total(HistoryWeights(history))
<1>1. /\ Front(history) \in Seq(HistoryChangeContext)
      /\ Len(Front(history)) = Len(history) - 1 /\ Len(history) \in Nat /\ Len(history) # 0
      /\ \A i \in 1 .. Len(history) - 1 : Front(history)[i] = history[i]
    BY FrontKeeps, LenProperties, EmptySeq
<1>2. /\ Tail(history) \in Seq(HistoryChangeContext) /\ Len(Tail(history)) = Len(history) - 1
      /\ \A i \in 1 .. Len(history) - 1 : Tail(history)[i] = history[i + 1]
    BY HeadTailProperties
<1> DEFINE w == HistoryWeights(history)
           v == HistoryWeights(Front(history))
           u == HistoryWeights(Tail(history))
<1>3. /\ w \in Seq(Nat) /\ v \in Seq(Nat) /\ u \in Seq(Nat)
      /\ Len(w) = Len(history) /\ Len(v) = Len(history) - 1 /\ Len(u) = Len(history) - 1
    BY <1>1, <1>2, Weights
<1>4. \A i \in 1 .. Len(history) :
          w[i] = ITEM_CHARS + history[i].source + history[i].diff * LINE_CHARS
    BY DEF HistoryWeights
<1>5. \A i \in 1 .. Len(history) - 1 :
          /\ v[i] = ITEM_CHARS + Front(history)[i].source + Front(history)[i].diff * LINE_CHARS
          /\ u[i] = ITEM_CHARS + Tail(history)[i].source + Tail(history)[i].diff * LINE_CHARS
    BY <1>1, <1>2 DEF HistoryWeights
<1> HIDE DEF w, v, u
<1>6. \A i \in 1 .. Len(history) - 1 :
          i \in 1 .. Len(history) /\ i + 1 \in 1 .. Len(history)
    BY <1>1
<1>7. \A i \in 1 .. Len(v) : v[i] = w[i]
    BY <1>1, <1>3, <1>4, <1>5, <1>6
<1>8. \A i \in 1 .. Len(u) : u[i] = w[i + 1]
    BY <1>2, <1>3, <1>4, <1>5, <1>6
<1>9. Len(w) = Len(v) + 1 /\ Len(w) = Len(u) + 1
    BY <1>1, <1>3
<1>10. Total(w) = Total(v) + w[Len(w)]
    BY <1>3, <1>7, <1>9, TotalFront
<1>11. Total(w) = Total(u) + w[1]
    BY <1>3, <1>8, <1>9, TotalTail
<1>12. \A i \in 1 .. Len(history) : w[i] \in Nat \ {0}
    <2>1. \A i \in 1 .. Len(history) : history[i] \in HistoryChangeContext
        BY ElementOfSeq
    <2> QED BY <1>4, <2>1, ChangeWeight
<1>13. w[1] \in Nat \ {0} /\ w[Len(w)] \in Nat \ {0}
    <2>1. 1 \in 1 .. Len(history) /\ Len(w) \in 1 .. Len(history)
        BY <1>1, <1>3
    <2> QED BY <1>12, <2>1
<1>14. Total(v) \in Nat /\ Total(u) \in Nat
    BY <1>3, TotalNat
<1> QED BY <1>10, <1>11, <1>13, <1>14 DEF w, v, u

\* A code that is cut.
LEMMA CodeCut ==
    ASSUME NEW code \in Seq(Code), NEW i \in 1 .. Len(code), NEW x \in Code
    PROVE  /\ [code EXCEPT ![i] = x] \in Seq(Code)
           /\ Total(CodeWeights([code EXCEPT ![i] = x])) + code[i].chars
                  = Total(CodeWeights(code)) + x.chars
<1> DEFINE new == [code EXCEPT ![i] = x]
           w == CodeWeights(code)
           v == CodeWeights(new)
<1>1. /\ new \in Seq(Code) /\ Len(new) = Len(code)
      /\ \A j \in 1 .. Len(code) : new[j] = IF j = i THEN x ELSE code[j]
    BY ExceptSeq
<1> HIDE DEF new
<1>2. w \in Seq(Nat) /\ v \in Seq(Nat) /\ Len(w) = Len(code) /\ Len(v) = Len(code)
    BY <1>1, Weights
<1>3. \A j \in 1 .. Len(code) : w[j] = ITEM_CHARS + code[j].chars
    BY DEF CodeWeights
<1>4. \A j \in 1 .. Len(code) : v[j] = ITEM_CHARS + new[j].chars
    BY <1>1 DEF CodeWeights
<1> HIDE DEF w, v
<1>5. Total(v) + w[i] = Total(w) + v[i]
    <2>1. \A j \in 1 .. Len(w) : j # i => v[j] = w[j]
        BY <1>1, <1>2, <1>3, <1>4
    <2>2. i \in 1 .. Len(w) /\ Len(w) = Len(v)
        BY <1>2
    <2> QED BY <1>2, <2>1, <2>2, TotalReplaced
<1>6. v[i] = ITEM_CHARS + x.chars /\ w[i] = ITEM_CHARS + code[i].chars
    BY <1>1, <1>3, <1>4
<1>7. code[i] \in Code
    BY ElementOfSeq
<1>8. PICK a \in Nat, b \in Nat, k \in Nat, y \in Nat, z \in Nat :
          /\ a = Total(v) /\ b = Total(w) /\ k = ITEM_CHARS
          /\ y = code[i].chars /\ z = x.chars
    BY <1>2, <1>7, TotalNat, ContextAssumption DEF Code
<1>9. a + (k + y) = b + (k + z)
    BY <1>5, <1>6, <1>8
<1>10. a + y = b + z
    BY <1>9
<1> QED BY <1>1, <1>8, <1>10 DEF w, v, new

\* A change that is cut.
LEMMA ChangeCut ==
    ASSUME NEW history \in Seq(HistoryChangeContext), NEW i \in 1 .. Len(history),
           NEW x \in HistoryChangeContext
    PROVE  /\ [history EXCEPT ![i] = x] \in Seq(HistoryChangeContext)
           /\ Total(HistoryWeights([history EXCEPT ![i] = x]))
                    + (history[i].source + history[i].diff * LINE_CHARS)
                  = Total(HistoryWeights(history)) + (x.source + x.diff * LINE_CHARS)
<1> DEFINE new == [history EXCEPT ![i] = x]
           w == HistoryWeights(history)
           v == HistoryWeights(new)
<1>1. /\ new \in Seq(HistoryChangeContext) /\ Len(new) = Len(history)
      /\ \A j \in 1 .. Len(history) : new[j] = IF j = i THEN x ELSE history[j]
    BY ExceptSeq
<1> HIDE DEF new
<1>2. w \in Seq(Nat) /\ v \in Seq(Nat) /\ Len(w) = Len(history) /\ Len(v) = Len(history)
    BY <1>1, Weights
<1>3. \A j \in 1 .. Len(history) :
          w[j] = ITEM_CHARS + history[j].source + history[j].diff * LINE_CHARS
    BY DEF HistoryWeights
<1>4. \A j \in 1 .. Len(history) :
          v[j] = ITEM_CHARS + new[j].source + new[j].diff * LINE_CHARS
    BY <1>1 DEF HistoryWeights
<1> HIDE DEF w, v
<1>5. Total(v) + w[i] = Total(w) + v[i]
    <2>1. \A j \in 1 .. Len(w) : j # i => v[j] = w[j]
        BY <1>1, <1>2, <1>3, <1>4
    <2>2. i \in 1 .. Len(w) /\ Len(w) = Len(v)
        BY <1>2
    <2> QED BY <1>2, <2>1, <2>2, TotalReplaced
<1>6. /\ v[i] = ITEM_CHARS + x.source + x.diff * LINE_CHARS
      /\ w[i] = ITEM_CHARS + history[i].source + history[i].diff * LINE_CHARS
    BY <1>1, <1>3, <1>4
<1>7. history[i] \in HistoryChangeContext
    BY ElementOfSeq
<1>a. \A y \in HistoryChangeContext : y.source \in Nat /\ y.diff * LINE_CHARS \in Nat
    <2> SUFFICES ASSUME NEW y \in HistoryChangeContext
                 PROVE  y.source \in Nat /\ y.diff * LINE_CHARS \in Nat
        OBVIOUS
    <2>1. PICK s \in Nat, d \in Nat, l \in Nat : s = y.source /\ d = y.diff /\ l = LINE_CHARS
        BY ContextAssumption DEF HistoryChangeContext
    <2>2. d * l \in Nat
        OBVIOUS
    <2> QED BY <2>1, <2>2
<1>8. PICK a \in Nat, b \in Nat, k \in Nat, y \in Nat, z \in Nat, p \in Nat, q \in Nat :
          /\ a = Total(v) /\ b = Total(w) /\ k = ITEM_CHARS
          /\ y = history[i].source /\ z = x.source
          /\ p = history[i].diff * LINE_CHARS /\ q = x.diff * LINE_CHARS
    BY <1>2, <1>7, <1>a, TotalNat, ContextAssumption
<1>9. a + (k + y + p) = b + (k + z + q)
    BY <1>5, <1>6, <1>8
<1>10. a + (y + p) = b + (z + q)
    BY <1>9
<1> QED BY <1>1, <1>8, <1>10 DEF w, v, new

-----------------------------------------------------------------------------
(* The steps of a fold *)

\* The values a fold goes through, as a list.
Runs(p, n, V, G) ==
    /\ p \in [0 .. n -> V]
    /\ \A k \in 0 .. n : k < n => p[k + 1] = G[<<p[k], k + 1>>]

\* A function that is folded by G.
FoldsBy(kept, n, base, V, G) ==
    /\ n \in Nat /\ base \in V /\ G \in [V \X (1 .. n) -> V]
    /\ kept[{}] = base
    /\ \A s \in SUBSET (1 .. n) : s # {} /\ kept[s \ {Max(s)}] \in V
                                   => kept[s] = G[<<kept[s \ {Max(s)}], Max(s)>>]

LEMMA FoldRuns ==
    ASSUME NEW n, NEW V, NEW base, NEW G, NEW kept, FoldsBy(kept, n, base, V, G)
    PROVE  \E p : Runs(p, n, V, G) /\ p[0] = base /\ p[n] = kept[1 .. n]
<1>1. kept[{}] = base /\ base \in V
    BY DEF FoldsBy
<1>a. n \in Nat
    BY DEF FoldsBy
<1>b. G \in [V \X (1 .. n) -> V]
    BY DEF FoldsBy
<1>2. ASSUME NEW k \in Nat, k + 1 <= n, kept[1 .. k] \in V
      PROVE  kept[1 .. (k + 1)] = G[<<kept[1 .. k], k + 1>>]
    <2>1. Max(1 .. (k + 1)) = k + 1 /\ (1 .. (k + 1)) \ {k + 1} = 1 .. k
        BY NextIndex
    <2>2. 1 .. (k + 1) \in SUBSET (1 .. n) /\ k + 1 \in 1 .. (k + 1)
        BY <1>2, <1>a
    <2>3. 1 .. (k + 1) # {}
        BY <2>2
    <2> QED BY <1>2, <2>1, <2>2, <2>3 DEF FoldsBy
<1>3. 1 .. 0 = {}
    OBVIOUS
<1> DEFINE S == {k \in Nat : k <= n => kept[1 .. k] \in V}
<1>4. 0 \in S
    BY <1>1, <1>3
<1>5. ASSUME NEW k \in Nat, k \in S PROVE k + 1 \in S
    <2> SUFFICES ASSUME k + 1 <= n PROVE kept[1 .. (k + 1)] \in V
        OBVIOUS
    <2>1. kept[1 .. k] \in V /\ k + 1 \in 1 .. n
        BY <1>5, <1>a
    <2> QED BY <1>2, <1>5, <1>b, <2>1
<1>6. Nat \subseteq S
    <2> HIDE DEF S
    <2> QED BY <1>4, <1>5, UpwardInduction
<1> DEFINE p == [k \in 0 .. n |-> kept[1 .. k]]
<1>7. p \in [0 .. n -> V]
    <2>1. \A k \in 0 .. n : kept[1 .. k] \in V
        BY <1>6
    <2> QED BY <2>1
<1>8. p[0] = base /\ p[n] = kept[1 .. n]
    <2>1. 0 \in 0 .. n /\ n \in 0 .. n
        BY <1>a
    <2> QED BY <1>1, <1>3, <2>1
<1>9. \A k \in 0 .. n : k < n => p[k + 1] = G[<<p[k], k + 1>>]
    <2>1. \A k \in 0 .. n : k < n => k \in Nat /\ k <= n /\ k + 1 <= n /\ k + 1 \in 0 .. n
        BY <1>a
    <2>2. \A k \in Nat : k <= n => kept[1 .. k] \in V
        BY <1>6
    <2> QED BY <1>2, <2>1, <2>2
<1> HIDE DEF p
<1> QED BY <1>7, <1>8, <1>9 DEF Runs

\* Of no particular change or hit.
LEMMA AnyTelling == \A kind : Telling(kind, None) = AnswerGenerationContext
BY DEF Telling

RemoveAll(kind, c, n, max) == WhileTooLarge(LAMBDA d : WithoutLast(kind, d), c, n, max)

\* The contexts while something is removed from the first one.
RemovingTo(p, kind, c, n, max) ==
    /\ p \in [0 .. n -> AnswerGenerationContext] /\ p[0] = c
    /\ \A k \in 0 .. n : k < n =>
          p[k + 1] = IF Size(p[k]) > max THEN WithoutLast(kind, p[k]) ELSE p[k]

LEMMA Removing ==
    ASSUME NEW kind, NEW c \in AnswerGenerationContext, NEW n \in Nat, NEW max \in Nat
    PROVE  \E p : /\ RemovingTo(p, kind, c, n, max)
                  /\ p[n] = RemoveAll(kind, c, n, max)
<1> DEFINE V == AnswerGenerationContext
           list == [j \in 1 .. n |-> j]
           Add(d, j) == IF Size(d) > max THEN WithoutLast(kind, d) ELSE d
           Eq(f) == f = [s \in SUBSET (1 .. n) |->
                           IF s = {} THEN c ELSE Add(f[s \ {Max(s)}], list[Max(s)])]
           G == [x \in V \X (1 .. n) |-> Add(x[1], list[x[2]])]
           kept == CHOOSE f : Eq(f)
<1>1. DOMAIN list = 1 .. n /\ \A j \in 1 .. n : list[j] = j
    OBVIOUS
<1>2. \A j \in 1 .. n : \A d \in V : Add(d, j) \in V
    BY AnyTelling, WithoutLastTells
<1>3. RemoveAll(kind, c, n, max) = kept[1 .. n]
    <2>1. RemoveAll(kind, c, n, max) = FoldLeft(Add, c, list)
        BY DEF RemoveAll, WhileTooLarge
    <2> HIDE DEF list, Add
    <2>2. FoldLeft(Add, c, list) = kept[1 .. n]
        BY <1>1 DEF FoldLeft, MapThenFoldSet
    <2> QED BY <2>1, <2>2
<1>4. \A d, j : Add(d, j) = IF Size(d) > max THEN WithoutLast(kind, d) ELSE d
    OBVIOUS
<1>5. c \in V /\ n \in Nat
    OBVIOUS
<1> HIDE DEF Add, V, list
<1>6. G \in [V \X (1 .. n) -> V] /\ \A d \in V, j \in 1 .. n : G[<<d, j>>] = Add(d, list[j])
    BY <1>1, <1>2
<1> HIDE DEF G
<1>7. PICK f \in [SUBSET (1 .. n) -> V] : FoldOf(f, n, c, G)
    BY <1>5, <1>6, FoldExists
<1>8. Eq(f)
    <2>1. \A s \in SUBSET (1 .. n) : s # {} => Max(s) \in 1 .. n /\ f[s \ {Max(s)}] \in V
        BY <1>5, LastIndex
    <2> QED BY <1>6, <1>7, <2>1 DEF FoldOf
<1>9. Eq(kept)
    <2> HIDE DEF Eq
    <2> QED BY <1>8
<1> HIDE DEF kept
<1>10. FoldsBy(kept, n, c, V, G)
    <2>1. {} \in SUBSET (1 .. n)
        OBVIOUS
    <2>2. \A s \in SUBSET (1 .. n) : s # {} => Max(s) \in 1 .. n
        BY <1>5, LastIndex
    <2>3. \A s \in SUBSET (1 .. n) : s # {} => kept[s] = Add(kept[s \ {Max(s)}], list[Max(s)])
        BY <1>9
    <2>4. kept[{}] = c
        BY <1>9, <2>1
    <2>5. ASSUME NEW s \in SUBSET (1 .. n), s # {}, kept[s \ {Max(s)}] \in V
          PROVE  kept[s] = G[<<kept[s \ {Max(s)}], Max(s)>>]
        <3>1. kept[s] = Add(kept[s \ {Max(s)}], list[Max(s)]) /\ Max(s) \in 1 .. n
            BY <2>2, <2>3, <2>5
        <3> QED BY <1>6, <2>5, <3>1
    <2>6. G \in [V \X (1 .. n) -> V]
        BY <1>6
    <2> HIDE DEF Eq
    <2> QED BY <1>5, <2>4, <2>5, <2>6 DEF FoldsBy
<1>11. PICK p : Runs(p, n, V, G) /\ p[0] = c /\ p[n] = kept[1 .. n]
    BY <1>10, FoldRuns
<1>12. RemovingTo(p, kind, c, n, max)
    <2>1. p \in [0 .. n -> V] /\ \A k \in 0 .. n : k < n => p[k + 1] = G[<<p[k], k + 1>>]
        BY <1>11 DEF Runs
    <2>2. \A k \in 0 .. n : k < n => k + 1 \in 1 .. n /\ p[k] \in V
        BY <1>5, <2>1
    <2>3. \A k \in 0 .. n : k < n => p[k + 1] = Add(p[k], k + 1)
        <3> SUFFICES ASSUME NEW k \in 0 .. n, k < n PROVE p[k + 1] = Add(p[k], k + 1)
            OBVIOUS
        <3> DEFINE j == k + 1
        <3>1. p[j] = G[<<p[k], j>>] /\ j \in 1 .. n /\ p[k] \in V
            BY <2>1, <2>2
        <3> HIDE DEF j
        <3>2. list[j] = j /\ G[<<p[k], j>>] = Add(p[k], list[j])
            BY <1>1, <1>6, <3>1
        <3>3. p[j] = Add(p[k], j)
            BY <3>1, <3>2
        <3> QED BY <3>3 DEF j
    <2>4. \A k \in 0 .. n : k < n =>
              p[k + 1] = IF Size(p[k]) > max THEN WithoutLast(kind, p[k]) ELSE p[k]
        BY <1>4, <2>3
    <2>5. p \in [0 .. n -> AnswerGenerationContext]
        BY <2>1 DEF V
    <2> QED BY <1>11, <2>4, <2>5 DEF RemovingTo
<1> QED BY <1>3, <1>11, <1>12

-----------------------------------------------------------------------------
(* What a cut leaves *)

\* The same context, or a smaller one.
Shrinks(d, c) == d = c \/ Size(d) < Size(c)

LEMMA ShrinksOn ==
    ASSUME NEW c \in AnswerGenerationContext, NEW d \in AnswerGenerationContext,
           NEW e \in AnswerGenerationContext, Shrinks(d, c), Shrinks(e, d)
    PROVE  Shrinks(e, c)
<1>1. Size(c) \in Nat /\ Size(d) \in Nat /\ Size(e) \in Nat
    BY SizeOf
<1> QED BY <1>1 DEF Shrinks

ContextsWith(m) == {d \in AnswerGenerationContext : Len(d.history) = m}

\* The context c with another i-th change.
Replaced(c, i, x) == [c EXCEPT !.history = [c.history EXCEPT ![i] = x]]

CharsOf(x) == x.source + x.diff * LINE_CHARS

LEMMA CharsOfChange == ASSUME NEW x \in HistoryChangeContext PROVE CharsOf(x) \in Nat
<1>1. PICK s \in Nat, d \in Nat, l \in Nat : s = x.source /\ d = x.diff /\ l = LINE_CHARS
    BY ContextAssumption DEF HistoryChangeContext
<1>2. d * l \in Nat
    OBVIOUS
<1> QED BY <1>1, <1>2 DEF CharsOf

LEMMA ReplacedChange ==
    ASSUME NEW m \in Nat, NEW c \in ContextsWith(m), NEW i \in 1 .. m,
           NEW x \in HistoryChangeContext
    PROVE  /\ Replaced(c, i, x) \in ContextsWith(m)
           /\ Replaced(c, i, x).code = c.code
           /\ Replaced(c, i, x).relations = c.relations
           /\ Replaced(c, i, x).evidence = c.evidence
           /\ \A j \in 1 .. m :
                 Replaced(c, i, x).history[j] = IF j = i THEN x ELSE c.history[j]
           /\ c.history[i] \in HistoryChangeContext
           /\ Size(Replaced(c, i, x)) + CharsOf(c.history[i]) = Size(c) + CharsOf(x)
<1>1. c \in AnswerGenerationContext /\ Len(c.history) = m
    BY DEF ContextsWith
<1>2. /\ c = [code |-> c.code, relations |-> c.relations, history |-> c.history,
              evidence |-> c.evidence]
      /\ c.code \in Seq(Code) /\ c.relations \in Nat
      /\ c.history \in Seq(HistoryChangeContext)
      /\ c.evidence \in Seq(Versions \cup Commits)
    BY <1>1, PartsOf DEF Code
<1> DEFINE history == [c.history EXCEPT ![i] = x]
<1>3. /\ history \in Seq(HistoryChangeContext) /\ Len(history) = m
      /\ \A j \in 1 .. m : history[j] = IF j = i THEN x ELSE c.history[j]
    BY <1>1, <1>2, ExceptSeq
<1>4. c.history[i] \in HistoryChangeContext
    BY <1>1, <1>2, ElementOfSeq
<1>5. Total(HistoryWeights(history)) + CharsOf(c.history[i])
          = Total(HistoryWeights(c.history)) + CharsOf(x)
    BY <1>1, <1>2, ChangeCut DEF CharsOf
<1>6. Replaced(c, i, x) = [c EXCEPT !.history = history]
    BY DEF Replaced
<1> HIDE DEF history
<1>7. Replaced(c, i, x) = [code |-> c.code, relations |-> c.relations, history |-> history,
                           evidence |-> c.evidence]
    BY <1>1, <1>6, PartChanged
<1>8. /\ Replaced(c, i, x) \in AnswerGenerationContext
      /\ Total(CodeWeights(c.code)) \in Nat /\ Total(HistoryWeights(history)) \in Nat
      /\ Size(Replaced(c, i, x)) = Total(CodeWeights(c.code)) + Total(HistoryWeights(history))
                          + (c.relations + Len(c.evidence)) * ITEM_CHARS
    <2>1. Replaced(c, i, x) \in AnswerGenerationContext
        BY <1>2, <1>3, <1>7 DEF AnswerGenerationContext, Code
    <2>2. /\ Replaced(c, i, x).code = c.code /\ Replaced(c, i, x).relations = c.relations
          /\ Replaced(c, i, x).evidence = c.evidence /\ Replaced(c, i, x).history = history
        BY <1>7
    <2>3. CodeWeights(c.code) \in Seq(Nat) /\ HistoryWeights(history) \in Seq(Nat)
        BY <1>2, <1>3, Weights
    <2>4. Total(CodeWeights(c.code)) \in Nat /\ Total(HistoryWeights(history)) \in Nat
        BY <2>3, TotalNat
    <2>5. Size(Replaced(c, i, x)) = Total(CodeWeights(c.code)) + Total(HistoryWeights(history))
                          + (c.relations + Len(c.evidence)) * ITEM_CHARS
        <3> DEFINE d == Replaced(c, i, x)
        <3>1. Size(d) = Total(CodeWeights(d.code)) + Total(HistoryWeights(d.history))
                          + (d.relations + Len(d.evidence)) * ITEM_CHARS
            <4> HIDE DEF d
            <4>1. d \in AnswerGenerationContext
                BY <2>1 DEF d
            <4> QED BY <4>1, SizeParts
        <3> QED BY <2>2, <3>1
    <2> QED BY <2>1, <2>4, <2>5
<1>9. /\ Total(HistoryWeights(c.history)) \in Nat
      /\ Size(c) = Total(CodeWeights(c.code)) + Total(HistoryWeights(c.history))
                          + (c.relations + Len(c.evidence)) * ITEM_CHARS
    <2>1. HistoryWeights(c.history) \in Seq(Nat)
        BY <1>2, Weights
    <2>2. Total(HistoryWeights(c.history)) \in Nat
        BY <2>1, TotalNat
    <2> QED BY <1>1, <2>2, SizeParts
<1>10. CharsOf(c.history[i]) \in Nat /\ CharsOf(x) \in Nat
    BY <1>4, CharsOfChange
<1>11. (c.relations + Len(c.evidence)) * ITEM_CHARS \in Nat
    BY <1>2, ContextAssumption, LenProperties
<1>12. Size(Replaced(c, i, x)) + CharsOf(c.history[i]) = Size(c) + CharsOf(x)
    <2>1. PICK a \in Nat, h \in Nat, g \in Nat, r \in Nat, s \in Nat, t \in Nat :
              /\ a = Total(CodeWeights(c.code)) /\ h = Total(HistoryWeights(history))
              /\ g = Total(HistoryWeights(c.history))
              /\ r = (c.relations + Len(c.evidence)) * ITEM_CHARS
              /\ s = CharsOf(c.history[i]) /\ t = CharsOf(x)
        BY <1>8, <1>9, <1>10, <1>11
    <2>2. h + s = g + t
        BY <1>5, <2>1
    <2>3. (a + h + r) + s = (a + g + r) + t
        BY <2>2
    <2> QED BY <1>8, <1>9, <2>1, <2>3
<1>13. /\ Replaced(c, i, x).code = c.code /\ Replaced(c, i, x).relations = c.relations
       /\ Replaced(c, i, x).evidence = c.evidence /\ Replaced(c, i, x).history = history
    BY <1>7
<1> QED BY <1>3, <1>4, <1>8, <1>12, <1>13 DEF ContextsWith

\* The context d is c, or c with a shorter i-th change.
CutAt(d, c, i, m) ==
    /\ d \in ContextsWith(m) /\ d.code = c.code
    /\ d.relations = c.relations /\ d.evidence = c.evidence
    /\ \A j \in 1 .. m : j # i => d.history[j] = c.history[j]
    /\ d.history[i].version = c.history[i].version
    /\ d.history[i].source <= c.history[i].source /\ d.history[i].diff <= c.history[i].diff
    /\ Shrinks(d, c)

LEMMA ChangeTypes ==
    ASSUME NEW m \in Nat, NEW c \in ContextsWith(m), NEW i \in 1 .. m
    PROVE  /\ c \in AnswerGenerationContext /\ Size(c) \in Nat
           /\ c.history[i] \in HistoryChangeContext
           /\ c.history[i].source \in Nat /\ c.history[i].diff \in Nat
<1>1. c \in AnswerGenerationContext /\ Len(c.history) = m
    BY DEF ContextsWith
<1>2. c.history \in Seq(HistoryChangeContext)
    BY <1>1, PartsOf
<1>3. c.history[i] \in HistoryChangeContext
    BY <1>1, <1>2, ElementOfSeq
<1> QED BY <1>1, <1>3, SizeOf DEF HistoryChangeContext

LEMMA NotCut ==
    ASSUME NEW m \in Nat, NEW c \in ContextsWith(m), NEW i \in 1 .. m PROVE CutAt(c, c, i, m)
BY ChangeTypes DEF CutAt, Shrinks

LEMMA CutOn ==
    ASSUME NEW m \in Nat, NEW c \in ContextsWith(m), NEW i \in 1 .. m,
           NEW d, NEW e, CutAt(d, c, i, m), CutAt(e, d, i, m)
    PROVE  CutAt(e, c, i, m)
<1>1. d \in ContextsWith(m) /\ e \in ContextsWith(m)
    BY DEF CutAt
<1>2. /\ e.history[i].source \in Nat /\ d.history[i].source \in Nat /\ c.history[i].source \in Nat
      /\ e.history[i].diff \in Nat /\ d.history[i].diff \in Nat /\ c.history[i].diff \in Nat
    BY <1>1, ChangeTypes
<1>3. Shrinks(e, c)
    <2>1. Shrinks(e, d) /\ Shrinks(d, c)
        BY DEF CutAt
    <2>2. /\ c \in AnswerGenerationContext /\ d \in AnswerGenerationContext
          /\ e \in AnswerGenerationContext
        BY <1>1 DEF ContextsWith
    <2> QED BY <2>1, <2>2, ShrinksOn
<1>4. \A j \in 1 .. m : j # i => e.history[j] = c.history[j]
    BY DEF CutAt
<1>5. /\ e.history[i].source <= d.history[i].source /\ d.history[i].source <= c.history[i].source
      /\ e.history[i].diff <= d.history[i].diff /\ d.history[i].diff <= c.history[i].diff
    BY DEF CutAt
<1>6. /\ e.history[i].source <= c.history[i].source
      /\ e.history[i].diff <= c.history[i].diff
    BY <1>2, <1>5
<1>7. /\ e.code = c.code /\ e.relations = c.relations /\ e.evidence = c.evidence
      /\ e.history[i].version = c.history[i].version
    BY DEF CutAt
<1> QED BY <1>1, <1>3, <1>4, <1>6, <1>7 DEF CutAt

SourceSet(c, i, left) == [c EXCEPT !.history[i].source = left]

\* A source that is cut.
LEMMA SourceCut ==
    ASSUME NEW m \in Nat, NEW c \in ContextsWith(m), NEW i \in 1 .. m, NEW left \in Nat,
           left < c.history[i].source \/ left = c.history[i].source,
           NEW d, d = SourceSet(c, i, left)
    PROVE  /\ CutAt(d, c, i, m) /\ d.history[i].source = left
           /\ Size(d) + c.history[i].source = Size(c) + left
<1> DEFINE x == [type |-> c.history[i].type, commit |-> c.history[i].commit,
                 version |-> c.history[i].version, source |-> left,
                 diff |-> c.history[i].diff]
<1>1. /\ c \in AnswerGenerationContext /\ Size(c) \in Nat
      /\ c.history[i] \in HistoryChangeContext
      /\ c.history[i].source \in Nat /\ c.history[i].diff \in Nat
    BY ChangeTypes
<1>2. x \in HistoryChangeContext
    BY <1>1 DEF HistoryChangeContext
<1>3. [c.history[i] EXCEPT !.source = left] = x
    BY <1>1 DEF HistoryChangeContext
<1>4. x.source = left /\ x.diff = c.history[i].diff /\ x.version = c.history[i].version
    OBVIOUS
<1>a. ASSUME left = c.history[i].source PROVE x = c.history[i]
    <2> DEFINE y == c.history[i]
    <2>1. y = [type |-> y.type, commit |-> y.commit, version |-> y.version,
               source |-> y.source, diff |-> y.diff]
        BY <1>1 DEF HistoryChangeContext
    <2> QED BY <1>a, <2>1
<1> HIDE DEF x
<1>5. d = Replaced(c, i, x)
    BY <1>3 DEF Replaced, SourceSet
<1>6. /\ d \in ContextsWith(m) /\ d.code = c.code
      /\ d.relations = c.relations /\ d.evidence = c.evidence
      /\ \A j \in 1 .. m : d.history[j] = IF j = i THEN x ELSE c.history[j]
      /\ Size(d) + CharsOf(c.history[i]) = Size(c) + CharsOf(x)
    BY <1>2, <1>5, ReplacedChange
<1>7. Size(d) + c.history[i].source = Size(c) + left
    <2>1. c.history[i].diff * LINE_CHARS \in Nat /\ Size(d) \in Nat
        <3>1. LINE_CHARS \in Nat
            BY ContextAssumption
        <3> QED BY <1>1, <1>6, <3>1, ChangeTypes
    <2>2. PICK a \in Nat, b \in Nat, s \in Nat, t \in Nat :
              /\ a = Size(d) /\ b = Size(c) /\ s = c.history[i].source
              /\ t = c.history[i].diff * LINE_CHARS
        BY <1>1, <2>1
    <2>3. CharsOf(c.history[i]) = s + t /\ CharsOf(x) = left + t
        BY <1>4, <2>2 DEF CharsOf
    <2>4. a + (s + t) = b + (left + t)
        BY <1>6, <2>2, <2>3
    <2>5. a + s = b + left
        BY <2>4
    <2> QED BY <2>2, <2>5
<1>8. d.history[i] = x
    BY <1>6
<1>9. Shrinks(d, c)
    <2>1. CASE left = c.history[i].source
        <3>1. [c.history EXCEPT ![i] = c.history[i]] = c.history
            <4>1. c.history \in Seq(HistoryChangeContext)
                BY <1>1, PartsOf
            <4> QED BY <4>1
        <3>2. [c EXCEPT !.history = c.history] = c
            BY <1>1, PartsOf, PartChanged
        <3>3. d = c
            BY <1>a, <1>5, <2>1, <3>1, <3>2 DEF Replaced
        <3> QED BY <3>3 DEF Shrinks
    <2>2. CASE left < c.history[i].source
        <3>1. Size(d) \in Nat
            BY <1>6, ChangeTypes
        <3> QED BY <1>1, <1>7, <2>2, <3>1 DEF Shrinks
    <2> QED BY <2>1, <2>2
<1> QED BY <1>1, <1>4, <1>6, <1>7, <1>8, <1>9 DEF CutAt

\* A line taken from the difference of the i-th change, while it has any.
Popped(d, i) ==
    IF d.history[i].diff = 0 THEN d ELSE [d EXCEPT !.history[i].diff = d.history[i].diff - 1]

LEMMA LinePopped ==
    ASSUME NEW m \in Nat, NEW c \in ContextsWith(m), NEW i \in 1 .. m
    PROVE  /\ CutAt(Popped(c, i), c, i, m)
           /\ Popped(c, i).history[i].source = c.history[i].source
           /\ c.history[i].diff # 0
                 => Popped(c, i).history[i].diff + 1 = c.history[i].diff
           /\ c.history[i].diff = 0 => Popped(c, i) = c
<1>1. /\ c \in AnswerGenerationContext /\ Size(c) \in Nat
      /\ c.history[i] \in HistoryChangeContext
      /\ c.history[i].source \in Nat /\ c.history[i].diff \in Nat
    BY ChangeTypes
<1>2. CASE c.history[i].diff = 0
    BY <1>2, NotCut DEF Popped
<1>3. CASE c.history[i].diff # 0
    <2> DEFINE x == [type |-> c.history[i].type, commit |-> c.history[i].commit,
                     version |-> c.history[i].version, source |-> c.history[i].source,
                     diff |-> c.history[i].diff - 1]
               d == Popped(c, i)
    <2>1. c.history[i].diff - 1 \in Nat
        BY <1>1, <1>3
    <2>2. x \in HistoryChangeContext
        BY <1>1, <2>1 DEF HistoryChangeContext
    <2>3. [c.history[i] EXCEPT !.diff = c.history[i].diff - 1] = x
        BY <1>1 DEF HistoryChangeContext
    <2>4. /\ x.source = c.history[i].source /\ x.diff = c.history[i].diff - 1
          /\ x.version = c.history[i].version
        OBVIOUS
    <2> HIDE DEF x
    <2>5. d = Replaced(c, i, x)
        BY <1>3, <2>3 DEF Replaced, Popped
    <2> HIDE DEF d
    <2>6. /\ d \in ContextsWith(m) /\ d.code = c.code
          /\ d.relations = c.relations /\ d.evidence = c.evidence
          /\ \A j \in 1 .. m : d.history[j] = IF j = i THEN x ELSE c.history[j]
          /\ Size(d) + CharsOf(c.history[i]) = Size(c) + CharsOf(x)
        BY <2>2, <2>5, ReplacedChange
    <2>7. d.history[i] = x /\ Size(d) \in Nat
        BY <2>6, ChangeTypes
    <2>8. Size(d) < Size(c)
        <3>1. PICK l \in Nat : l = LINE_CHARS /\ l > 0
            BY ContextAssumption
        <3>2. PICK a \in Nat, b \in Nat, s \in Nat, n \in Nat :
                  /\ a = Size(d) /\ b = Size(c) /\ s = c.history[i].source
                  /\ n = c.history[i].diff - 1
            BY <1>1, <2>1, <2>7
        <3>3. x.diff = n /\ c.history[i].diff = n + 1 /\ x.source = s
            BY <1>1, <2>4, <3>2
        <3>4. CharsOf(x) = s + n * l /\ CharsOf(c.history[i]) = s + (n + 1) * l
            BY <3>1, <3>2, <3>3 DEF CharsOf
        <3>5. (n + 1) * l = n * l + l /\ n * l \in Nat
            OBVIOUS
        <3>6. PICK t \in Nat : t = n * l
            BY <3>5
        <3>7. a + (s + (t + l)) = b + (s + t)
            BY <2>6, <3>2, <3>4, <3>5, <3>6
        <3>8. a < b
            BY <3>1, <3>7
        <3> QED BY <3>2, <3>8
    <2>9. CutAt(d, c, i, m)
        <3>1. x.source <= c.history[i].source /\ x.diff <= c.history[i].diff
            BY <1>1, <2>4
        <3> QED BY <2>4, <2>6, <2>7, <2>8, <3>1 DEF CutAt, Shrinks
    <2>10. x.diff + 1 = c.history[i].diff
        BY <1>1, <2>4
    <2> QED BY <1>3, <2>4, <2>7, <2>9, <2>10 DEF d
<1> QED BY <1>2, <1>3

PopAll(c, i, n, max) == WhileTooLarge(LAMBDA d : Popped(d, i), c, n, max)

\* The contexts while lines are taken from the i-th difference.
PoppingTo(p, c, i, m, n, max) ==
    /\ p \in [0 .. n -> ContextsWith(m)] /\ p[0] = c
    /\ \A k \in 0 .. n : k < n =>
          p[k + 1] = IF Size(p[k]) > max THEN Popped(p[k], i) ELSE p[k]

LEMMA Popping ==
    ASSUME NEW m \in Nat, NEW c \in ContextsWith(m), NEW i \in 1 .. m,
           NEW n \in Nat, NEW max \in Nat
    PROVE  \E p : /\ PoppingTo(p, c, i, m, n, max)
                  /\ p[n] = PopAll(c, i, n, max)
<1> DEFINE V == ContextsWith(m)
           list == [j \in 1 .. n |-> j]
           Add(d, j) == IF Size(d) > max THEN Popped(d, i) ELSE d
           Eq(f) == f = [s \in SUBSET (1 .. n) |->
                           IF s = {} THEN c ELSE Add(f[s \ {Max(s)}], list[Max(s)])]
           G == [x \in V \X (1 .. n) |-> Add(x[1], list[x[2]])]
           kept == CHOOSE f : Eq(f)
<1>1. DOMAIN list = 1 .. n /\ \A j \in 1 .. n : list[j] = j
    OBVIOUS
<1>2. \A j \in 1 .. n : \A d \in V : Add(d, j) \in V
    BY LinePopped DEF CutAt
<1>3. PopAll(c, i, n, max) = kept[1 .. n]
    <2>1. PopAll(c, i, n, max) = FoldLeft(Add, c, list)
        BY DEF PopAll, WhileTooLarge
    <2> HIDE DEF list, Add
    <2>2. FoldLeft(Add, c, list) = kept[1 .. n]
        BY <1>1 DEF FoldLeft, MapThenFoldSet
    <2> QED BY <2>1, <2>2
<1>4. \A d, j : Add(d, j) = IF Size(d) > max THEN Popped(d, i) ELSE d
    OBVIOUS
<1>5. c \in V /\ n \in Nat
    OBVIOUS
<1> HIDE DEF Add, V, list
<1>6. G \in [V \X (1 .. n) -> V] /\ \A d \in V, j \in 1 .. n : G[<<d, j>>] = Add(d, list[j])
    BY <1>1, <1>2
<1> HIDE DEF G
<1>7. PICK f \in [SUBSET (1 .. n) -> V] : FoldOf(f, n, c, G)
    BY <1>5, <1>6, FoldExists
<1>8. Eq(f)
    <2>1. \A s \in SUBSET (1 .. n) : s # {} => Max(s) \in 1 .. n /\ f[s \ {Max(s)}] \in V
        BY <1>5, LastIndex
    <2> QED BY <1>6, <1>7, <2>1 DEF FoldOf
<1>9. Eq(kept)
    <2> HIDE DEF Eq
    <2> QED BY <1>8
<1> HIDE DEF kept
<1>10. FoldsBy(kept, n, c, V, G)
    <2>1. {} \in SUBSET (1 .. n)
        OBVIOUS
    <2>2. \A s \in SUBSET (1 .. n) : s # {} => Max(s) \in 1 .. n
        BY <1>5, LastIndex
    <2>3. \A s \in SUBSET (1 .. n) : s # {} => kept[s] = Add(kept[s \ {Max(s)}], list[Max(s)])
        BY <1>9
    <2>4. kept[{}] = c
        BY <1>9, <2>1
    <2>5. ASSUME NEW s \in SUBSET (1 .. n), s # {}, kept[s \ {Max(s)}] \in V
          PROVE  kept[s] = G[<<kept[s \ {Max(s)}], Max(s)>>]
        <3>1. kept[s] = Add(kept[s \ {Max(s)}], list[Max(s)]) /\ Max(s) \in 1 .. n
            BY <2>2, <2>3, <2>5
        <3> QED BY <1>6, <2>5, <3>1
    <2>6. G \in [V \X (1 .. n) -> V]
        BY <1>6
    <2> HIDE DEF Eq
    <2> QED BY <1>5, <2>4, <2>5, <2>6 DEF FoldsBy
<1>11. PICK p : Runs(p, n, V, G) /\ p[0] = c /\ p[n] = kept[1 .. n]
    BY <1>10, FoldRuns
<1>12. PoppingTo(p, c, i, m, n, max)
    <2>1. p \in [0 .. n -> V] /\ \A k \in 0 .. n : k < n => p[k + 1] = G[<<p[k], k + 1>>]
        BY <1>11 DEF Runs
    <2>2. \A k \in 0 .. n : k < n => k + 1 \in 1 .. n /\ p[k] \in V
        BY <1>5, <2>1
    <2>3. \A k \in 0 .. n : k < n => p[k + 1] = Add(p[k], k + 1)
        <3> SUFFICES ASSUME NEW k \in 0 .. n, k < n PROVE p[k + 1] = Add(p[k], k + 1)
            OBVIOUS
        <3> DEFINE j == k + 1
        <3>1. p[j] = G[<<p[k], j>>] /\ j \in 1 .. n /\ p[k] \in V
            BY <2>1, <2>2
        <3> HIDE DEF j
        <3>2. list[j] = j /\ G[<<p[k], j>>] = Add(p[k], list[j])
            BY <1>1, <1>6, <3>1
        <3>3. p[j] = Add(p[k], j)
            BY <3>1, <3>2
        <3> QED BY <3>3 DEF j
    <2>4. \A k \in 0 .. n : k < n =>
              p[k + 1] = IF Size(p[k]) > max THEN Popped(p[k], i) ELSE p[k]
        BY <1>4, <2>3
    <2>5. p \in [0 .. n -> ContextsWith(m)]
        BY <2>1 DEF V
    <2> QED BY <1>11, <2>4, <2>5 DEF PoppingTo
<1> QED BY <1>3, <1>11, <1>12

\* A change as the history is built of them.
Made(x) == x.diff <= DIFF_LINES /\ (x.version = None => x.source = 0 /\ x.diff = 0)

\* What is cut off a text is more than what is too much.
LEMMA TextCut ==
    ASSUME NEW chars \in Nat, NEW over \in Nat, over > 0, NEW left, left = CutText(chars, over)
    PROVE  /\ left \in Nat /\ (left < chars \/ left = chars)
           /\ left = 0 \/ left + over <= chars
<1>1. PICK k \in Nat : k = CUT_SLACK /\ k > 0
    BY ContextAssumption
<1>2. left = IF chars > over + k THEN chars - over - k + 1 ELSE 0
    BY <1>1 DEF CutText
<1> QED BY <1>1, <1>2

\* The i-th change is cut until the context is small enough or nothing of it is left.
LEMMA CutChangeFits ==
    ASSUME NEW m \in Nat, NEW c \in ContextsWith(m), NEW i \in 1 .. m, NEW max \in Nat,
           NEW d, d = CutChange(c, i, max)
    PROVE  /\ CutAt(d, c, i, m)
           /\ Size(c) <= max => d = c
           /\ Made(c.history[i]) =>
                 Size(d) <= max \/ (d.history[i].source = 0 /\ d.history[i].diff = 0)
<1>1. CASE Size(c) =< max
    <2>1. d = c
        BY <1>1 DEF CutChange
    <2> QED BY <1>1, <2>1, NotCut
<1>2. CASE ~(Size(c) =< max)
    <2> DEFINE n == DIFF_LINES
               left == CutText(c.history[i].source, Size(c) - max)
               cut == IF c.history[i].version = None THEN c ELSE SourceSet(c, i, left)
    <2>1. /\ c \in AnswerGenerationContext /\ Size(c) \in Nat
          /\ c.history[i] \in HistoryChangeContext
          /\ c.history[i].source \in Nat /\ c.history[i].diff \in Nat
        BY ChangeTypes
    <2>2. Size(c) - max \in Nat /\ Size(c) - max > 0
        BY <1>2, <2>1
    <2>3. d = PopAll(cut, i, n, max)
        BY <1>2 DEF CutChange, WhileTooLarge, Popped, SourceSet, PopAll
    <2>4. /\ left \in Nat /\ (left < c.history[i].source \/ left = c.history[i].source)
          /\ left = 0 \/ left + (Size(c) - max) <= c.history[i].source
        BY <2>1, <2>2, TextCut
    <2> HIDE DEF left
    <2>5. /\ CutAt(cut, c, i, m)
          /\ Made(c.history[i]) => Size(cut) <= max \/ cut.history[i].source = 0
        <3>1. CASE c.history[i].version = None
            BY <3>1, NotCut DEF Made
        <3>2. CASE c.history[i].version # None
            <4>1. /\ CutAt(cut, c, i, m) /\ cut.history[i].source = left
                  /\ Size(cut) + c.history[i].source = Size(c) + left
                BY <2>4, <3>2, SourceCut
            <4>2. Size(cut) \in Nat
                BY <4>1, ChangeTypes DEF CutAt
            <4> HIDE DEF cut
            <4>3. left = 0 \/ Size(cut) <= max
                <5>1. PICK a \in Nat, b \in Nat, s \in Nat :
                          a = Size(cut) /\ b = Size(c) /\ s = c.history[i].source
                    BY <2>1, <4>2
                <5>2. a + s = b + left /\ (left = 0 \/ left + (b - max) <= s)
                    BY <2>4, <4>1, <5>1
                <5>3. left = 0 \/ a <= max
                    BY <2>4, <5>2
                <5> QED BY <5>1, <5>3
            <4> QED BY <4>1, <4>3
        <3> QED BY <3>1, <3>2
    <2> HIDE DEF cut, n
    <2>6. cut \in ContextsWith(m) /\ n \in Nat
        BY <2>5, ContextAssumption DEF CutAt, n
    <2>7. PICK p : PoppingTo(p, cut, i, m, n, max) /\ p[n] = d
        BY <2>3, <2>6, Popping
    <2>8. /\ p \in [0 .. n -> ContextsWith(m)] /\ p[0] = cut
          /\ \A k \in 0 .. n : k < n =>
                p[k + 1] = IF Size(p[k]) > max THEN Popped(p[k], i) ELSE p[k]
        BY <2>7 DEF PoppingTo
    <2> DEFINE Lines(k) == /\ CutAt(p[k], cut, i, m)
                          /\ \/ Size(p[k]) <= max \/ p[k].history[i].diff = 0
                             \/ p[k].history[i].diff + k <= cut.history[i].diff
               S == {k \in Nat : k <= n => Lines(k)}
    <2>9. 0 \in S
        <3>1. CutAt(cut, cut, i, m) /\ cut.history[i].diff \in Nat
            BY <2>6, NotCut, ChangeTypes
        <3> QED BY <2>8, <3>1
    <2>10. ASSUME NEW k \in Nat, k \in S PROVE k + 1 \in S
        <3> SUFFICES ASSUME k + 1 <= n PROVE Lines(k + 1)
            OBVIOUS
        <3>1. k \in 0 .. n /\ k < n /\ Lines(k)
            BY <2>6, <2>10
        <3> DEFINE e == p[k]
                   next == p[k + 1]
        <3>2. e \in ContextsWith(m) /\ next = IF Size(e) > max THEN Popped(e, i) ELSE e
            BY <2>8, <3>1
        <3>3. Size(e) \in Nat /\ e.history[i].diff \in Nat
            BY <3>2, ChangeTypes
        <3>4. /\ CutAt(e, cut, i, m)
              /\ \/ Size(e) <= max \/ e.history[i].diff = 0
                 \/ e.history[i].diff + k <= cut.history[i].diff
            BY <3>1
        <3>a. cut.history[i].diff \in Nat
            BY <2>6, ChangeTypes
        <3> HIDE DEF e, next
        <3>5. CASE Size(e) <= max
            <4>1. next = e
                BY <3>2, <3>3, <3>5
            <4> QED BY <3>4, <3>5, <4>1 DEF next
        <3>6. CASE ~(Size(e) <= max)
            <4>1. next = Popped(e, i)
                BY <3>2, <3>3, <3>6
            <4>2. /\ CutAt(next, e, i, m)
                  /\ e.history[i].diff # 0 => next.history[i].diff + 1 = e.history[i].diff
                  /\ e.history[i].diff = 0 => next = e
                BY <3>2, <4>1, LinePopped
            <4>3. CutAt(next, cut, i, m)
                BY <2>6, <3>4, <4>2, CutOn
            <4>4. next.history[i].diff \in Nat
                BY <4>2, ChangeTypes DEF CutAt
            <4>5. \/ next.history[i].diff = 0
                  \/ next.history[i].diff + (k + 1) <= cut.history[i].diff
                <5>1. CASE e.history[i].diff = 0
                    BY <4>2, <5>1
                <5>2. CASE e.history[i].diff # 0
                    <6>1. PICK a \in Nat, b \in Nat, x \in Nat :
                              /\ a = next.history[i].diff /\ b = e.history[i].diff
                              /\ x = cut.history[i].diff
                        BY <3>3, <4>4, <3>a
                    <6>2. a + 1 = b /\ b + k <= x
                        BY <3>4, <3>6, <4>2, <5>2, <6>1
                    <6>3. a + (k + 1) <= x
                        BY <6>2
                    <6> QED BY <6>1, <6>3
                <5> QED BY <5>1, <5>2
            <4> QED BY <4>3, <4>5 DEF next
        <3> QED BY <3>5, <3>6
    <2>11. Lines(n)
        <3>1. Nat \subseteq S
            <4> HIDE DEF S
            <4> QED BY <2>9, <2>10, UpwardInduction
        <3> QED BY <2>6, <3>1
    <2>12. CutAt(d, cut, i, m)
        BY <2>7, <2>11
    <2>13. CutAt(d, c, i, m)
        BY <2>5, <2>12, CutOn
    <2>14. ASSUME Made(c.history[i]), ~(Size(d) <= max)
           PROVE  d.history[i].source = 0 /\ d.history[i].diff = 0
        <3>1. d \in ContextsWith(m)
            BY <2>13 DEF CutAt
        <3>2. /\ Size(d) \in Nat /\ Size(cut) \in Nat /\ d.history[i].source \in Nat
              /\ d.history[i].diff \in Nat /\ cut.history[i].diff \in Nat
            BY <2>6, <3>1, ChangeTypes
        <3>3. ~(Size(cut) <= max)
            BY <2>12, <2>14, <3>2 DEF CutAt, Shrinks
        <3>4. cut.history[i].source = 0
            BY <2>5, <2>14, <3>3
        <3>5. d.history[i].source = 0
            BY <2>12, <3>2, <3>4 DEF CutAt
        <3>6. cut.history[i].diff <= n
            <4>1. cut.history[i].diff <= c.history[i].diff /\ c.history[i].diff <= DIFF_LINES
                BY <2>5, <2>14 DEF CutAt, Made
            <4> QED BY <2>1, <2>6, <3>2, <4>1 DEF n
        <3>7. d.history[i].diff = 0 \/ d.history[i].diff + n <= cut.history[i].diff
            BY <2>7, <2>11, <2>14
        <3> QED BY <2>6, <3>2, <3>5, <3>6, <3>7
    <2> QED BY <1>2, <2>13, <2>14
<1> QED BY <1>1, <1>2

\* All changes are cut in turn.
CutAll(c, n, max) == FoldLeft(LAMBDA d, i : CutChange(d, i, max), c, [i \in 1 .. n |-> i])

\* The contexts while the changes are cut one after another.
CuttingTo(p, c, n, max) ==
    /\ p \in [0 .. n -> ContextsWith(n)] /\ p[0] = c
    /\ \A k \in 0 .. n : k < n =>
          p[k + 1] = CutChange(p[k], k + 1, max)

LEMMA Cutting ==
    ASSUME NEW n \in Nat, NEW c \in ContextsWith(n), NEW max \in Nat
    PROVE  \E p : /\ CuttingTo(p, c, n, max)
                  /\ p[n] = CutAll(c, n, max)
<1> DEFINE V == ContextsWith(n)
           list == [j \in 1 .. n |-> j]
           Add(d, j) == CutChange(d, j, max)
           Eq(f) == f = [s \in SUBSET (1 .. n) |->
                           IF s = {} THEN c ELSE Add(f[s \ {Max(s)}], list[Max(s)])]
           G == [x \in V \X (1 .. n) |-> Add(x[1], list[x[2]])]
           kept == CHOOSE f : Eq(f)
<1>1. DOMAIN list = 1 .. n /\ \A j \in 1 .. n : list[j] = j
    OBVIOUS
<1>2. \A j \in 1 .. n : \A d \in V : Add(d, j) \in V
    BY CutChangeFits DEF CutAt
<1>3. CutAll(c, n, max) = kept[1 .. n]
    <2>1. CutAll(c, n, max) = FoldLeft(Add, c, list)
        BY DEF CutAll
    <2> HIDE DEF list, Add
    <2>2. FoldLeft(Add, c, list) = kept[1 .. n]
        BY <1>1 DEF FoldLeft, MapThenFoldSet
    <2> QED BY <2>1, <2>2
<1>4. \A d, j : Add(d, j) = CutChange(d, j, max)
    OBVIOUS
<1>5. c \in V /\ n \in Nat
    OBVIOUS
<1> HIDE DEF Add, V, list
<1>6. G \in [V \X (1 .. n) -> V] /\ \A d \in V, j \in 1 .. n : G[<<d, j>>] = Add(d, list[j])
    BY <1>1, <1>2
<1> HIDE DEF G
<1>7. PICK f \in [SUBSET (1 .. n) -> V] : FoldOf(f, n, c, G)
    BY <1>5, <1>6, FoldExists
<1>8. Eq(f)
    <2>1. \A s \in SUBSET (1 .. n) : s # {} => Max(s) \in 1 .. n /\ f[s \ {Max(s)}] \in V
        BY <1>5, LastIndex
    <2> QED BY <1>6, <1>7, <2>1 DEF FoldOf
<1>9. Eq(kept)
    <2> HIDE DEF Eq
    <2> QED BY <1>8
<1> HIDE DEF kept
<1>10. FoldsBy(kept, n, c, V, G)
    <2>1. {} \in SUBSET (1 .. n)
        OBVIOUS
    <2>2. \A s \in SUBSET (1 .. n) : s # {} => Max(s) \in 1 .. n
        BY <1>5, LastIndex
    <2>3. \A s \in SUBSET (1 .. n) : s # {} => kept[s] = Add(kept[s \ {Max(s)}], list[Max(s)])
        BY <1>9
    <2>4. kept[{}] = c
        BY <1>9, <2>1
    <2>5. ASSUME NEW s \in SUBSET (1 .. n), s # {}, kept[s \ {Max(s)}] \in V
          PROVE  kept[s] = G[<<kept[s \ {Max(s)}], Max(s)>>]
        <3>1. kept[s] = Add(kept[s \ {Max(s)}], list[Max(s)]) /\ Max(s) \in 1 .. n
            BY <2>2, <2>3, <2>5
        <3> QED BY <1>6, <2>5, <3>1
    <2>6. G \in [V \X (1 .. n) -> V]
        BY <1>6
    <2> HIDE DEF Eq
    <2> QED BY <1>5, <2>4, <2>5, <2>6 DEF FoldsBy
<1>11. PICK p : Runs(p, n, V, G) /\ p[0] = c /\ p[n] = kept[1 .. n]
    BY <1>10, FoldRuns
<1>12. CuttingTo(p, c, n, max)
    <2>1. p \in [0 .. n -> V] /\ \A k \in 0 .. n : k < n => p[k + 1] = G[<<p[k], k + 1>>]
        BY <1>11 DEF Runs
    <2>2. \A k \in 0 .. n : k < n => k + 1 \in 1 .. n /\ p[k] \in V
        BY <1>5, <2>1
    <2>3. \A k \in 0 .. n : k < n => p[k + 1] = Add(p[k], k + 1)
        <3> SUFFICES ASSUME NEW k \in 0 .. n, k < n PROVE p[k + 1] = Add(p[k], k + 1)
            OBVIOUS
        <3> DEFINE j == k + 1
        <3>1. p[j] = G[<<p[k], j>>] /\ j \in 1 .. n /\ p[k] \in V
            BY <2>1, <2>2
        <3> HIDE DEF j
        <3>2. list[j] = j /\ G[<<p[k], j>>] = Add(p[k], list[j])
            BY <1>1, <1>6, <3>1
        <3>3. p[j] = Add(p[k], j)
            BY <3>1, <3>2
        <3> QED BY <3>3 DEF j
    <2>4. \A k \in 0 .. n : k < n =>
              p[k + 1] = CutChange(p[k], k + 1, max)
        BY <1>4, <2>3
    <2>5. p \in [0 .. n -> ContextsWith(n)]
        BY <2>1 DEF V
    <2> QED BY <1>11, <2>4, <2>5 DEF CuttingTo
<1> QED BY <1>3, <1>11, <1>12

DropAll(c, n, max) == WhileTooLarge(DropOldest, c, n, max)

\* The contexts while changes are dropped.
DroppingTo(p, c, n, max) ==
    /\ p \in [0 .. n -> AnswerGenerationContext] /\ p[0] = c
    /\ \A k \in 0 .. n : k < n =>
          p[k + 1] = IF Size(p[k]) > max THEN DropOldest(p[k]) ELSE p[k]

LEMMA Dropping ==
    ASSUME NEW n \in Nat, NEW c \in AnswerGenerationContext, NEW max \in Nat
    PROVE  \E p : /\ DroppingTo(p, c, n, max)
                  /\ p[n] = DropAll(c, n, max)
<1> DEFINE V == AnswerGenerationContext
           list == [j \in 1 .. n |-> j]
           Add(d, j) == IF Size(d) > max THEN DropOldest(d) ELSE d
           Eq(f) == f = [s \in SUBSET (1 .. n) |->
                           IF s = {} THEN c ELSE Add(f[s \ {Max(s)}], list[Max(s)])]
           G == [x \in V \X (1 .. n) |-> Add(x[1], list[x[2]])]
           kept == CHOOSE f : Eq(f)
<1>1. DOMAIN list = 1 .. n /\ \A j \in 1 .. n : list[j] = j
    OBVIOUS
<1>2. \A j \in 1 .. n : \A d \in V : Add(d, j) \in V
    BY AnyTelling, DropOldestTells
<1>3. DropAll(c, n, max) = kept[1 .. n]
    <2>1. DropAll(c, n, max) = FoldLeft(Add, c, list)
        BY DEF DropAll, WhileTooLarge
    <2> HIDE DEF list, Add
    <2>2. FoldLeft(Add, c, list) = kept[1 .. n]
        BY <1>1 DEF FoldLeft, MapThenFoldSet
    <2> QED BY <2>1, <2>2
<1>4. \A d, j : Add(d, j) = IF Size(d) > max THEN DropOldest(d) ELSE d
    OBVIOUS
<1>5. c \in V /\ n \in Nat
    OBVIOUS
<1> HIDE DEF Add, V, list
<1>6. G \in [V \X (1 .. n) -> V] /\ \A d \in V, j \in 1 .. n : G[<<d, j>>] = Add(d, list[j])
    BY <1>1, <1>2
<1> HIDE DEF G
<1>7. PICK f \in [SUBSET (1 .. n) -> V] : FoldOf(f, n, c, G)
    BY <1>5, <1>6, FoldExists
<1>8. Eq(f)
    <2>1. \A s \in SUBSET (1 .. n) : s # {} => Max(s) \in 1 .. n /\ f[s \ {Max(s)}] \in V
        BY <1>5, LastIndex
    <2> QED BY <1>6, <1>7, <2>1 DEF FoldOf
<1>9. Eq(kept)
    <2> HIDE DEF Eq
    <2> QED BY <1>8
<1> HIDE DEF kept
<1>10. FoldsBy(kept, n, c, V, G)
    <2>1. {} \in SUBSET (1 .. n)
        OBVIOUS
    <2>2. \A s \in SUBSET (1 .. n) : s # {} => Max(s) \in 1 .. n
        BY <1>5, LastIndex
    <2>3. \A s \in SUBSET (1 .. n) : s # {} => kept[s] = Add(kept[s \ {Max(s)}], list[Max(s)])
        BY <1>9
    <2>4. kept[{}] = c
        BY <1>9, <2>1
    <2>5. ASSUME NEW s \in SUBSET (1 .. n), s # {}, kept[s \ {Max(s)}] \in V
          PROVE  kept[s] = G[<<kept[s \ {Max(s)}], Max(s)>>]
        <3>1. kept[s] = Add(kept[s \ {Max(s)}], list[Max(s)]) /\ Max(s) \in 1 .. n
            BY <2>2, <2>3, <2>5
        <3> QED BY <1>6, <2>5, <3>1
    <2>6. G \in [V \X (1 .. n) -> V]
        BY <1>6
    <2> HIDE DEF Eq
    <2> QED BY <1>5, <2>4, <2>5, <2>6 DEF FoldsBy
<1>11. PICK p : Runs(p, n, V, G) /\ p[0] = c /\ p[n] = kept[1 .. n]
    BY <1>10, FoldRuns
<1>12. DroppingTo(p, c, n, max)
    <2>1. p \in [0 .. n -> V] /\ \A k \in 0 .. n : k < n => p[k + 1] = G[<<p[k], k + 1>>]
        BY <1>11 DEF Runs
    <2>2. \A k \in 0 .. n : k < n => k + 1 \in 1 .. n /\ p[k] \in V
        BY <1>5, <2>1
    <2>3. \A k \in 0 .. n : k < n => p[k + 1] = Add(p[k], k + 1)
        <3> SUFFICES ASSUME NEW k \in 0 .. n, k < n PROVE p[k + 1] = Add(p[k], k + 1)
            OBVIOUS
        <3> DEFINE j == k + 1
        <3>1. p[j] = G[<<p[k], j>>] /\ j \in 1 .. n /\ p[k] \in V
            BY <2>1, <2>2
        <3> HIDE DEF j
        <3>2. list[j] = j /\ G[<<p[k], j>>] = Add(p[k], list[j])
            BY <1>1, <1>6, <3>1
        <3>3. p[j] = Add(p[k], j)
            BY <3>1, <3>2
        <3> QED BY <3>3 DEF j
    <2>4. \A k \in 0 .. n : k < n =>
              p[k + 1] = IF Size(p[k]) > max THEN DropOldest(p[k]) ELSE p[k]
        BY <1>4, <2>3
    <2>5. p \in [0 .. n -> AnswerGenerationContext]
        BY <2>1 DEF V
    <2> QED BY <1>11, <2>4, <2>5 DEF DroppingTo
<1> QED BY <1>3, <1>11, <1>12

\* The oldest change dropped, if it is not the only one.
LEMMA OldestDropped ==
    ASSUME NEW c \in AnswerGenerationContext, NEW d, d = DropOldest(c)
    PROVE  /\ d \in AnswerGenerationContext /\ d.code = c.code
           /\ d.relations = c.relations /\ d.evidence = c.evidence /\ Shrinks(d, c)
           /\ Len(c.history) > 1 => /\ Len(d.history) + 1 = Len(c.history)
                                    /\ \A i \in 1 .. Len(d.history) : d.history[i] = c.history[i + 1]
           /\ ~(Len(c.history) > 1) => d = c
<1>1. CASE ~(Len(c.history) > 1)
    <2>1. d = c
        BY <1>1 DEF DropOldest
    <2> QED BY <1>1, <2>1 DEF Shrinks
<1>2. CASE Len(c.history) > 1
    <2> DEFINE history == Tail(c.history)
    <2>1. /\ c.code \in Seq(Code) /\ c.relations \in Nat
          /\ c.history \in Seq(HistoryChangeContext)
          /\ c.evidence \in Seq(Versions \cup Commits)
        BY PartsOf DEF Code
    <2>2. Len(c.history) \in Nat /\ c.history # <<>>
        BY <1>2, <2>1, LenProperties
    <2>3. /\ history \in Seq(HistoryChangeContext) /\ Len(history) = Len(c.history) - 1
          /\ \A i \in 1 .. Len(c.history) - 1 : history[i] = c.history[i + 1]
        BY <2>1, <2>2, HeadTailProperties
    <2>4. Total(HistoryWeights(history)) < Total(HistoryWeights(c.history))
        BY <2>1, <2>2, HistoryLess
    <2>5. d = [c EXCEPT !.history = history]
        BY <1>2 DEF DropOldest
    <2> HIDE DEF history
    <2>6. d = [code |-> c.code, relations |-> c.relations, history |-> history,
               evidence |-> c.evidence]
        BY <2>5, PartChanged
    <2>7. d \in AnswerGenerationContext
        BY <2>1, <2>3, <2>6 DEF AnswerGenerationContext, Code
    <2>8. /\ d.code = c.code /\ d.relations = c.relations /\ d.evidence = c.evidence
          /\ d.history = history
        BY <2>6
    <2>9. Size(d) < Size(c)
        <3>1. /\ Size(c) = Total(CodeWeights(c.code)) + Total(HistoryWeights(c.history))
                            + (c.relations + Len(c.evidence)) * ITEM_CHARS
              /\ Size(d) = Total(CodeWeights(c.code)) + Total(HistoryWeights(history))
                            + (c.relations + Len(c.evidence)) * ITEM_CHARS
            <4>1. Size(d) = Total(CodeWeights(d.code)) + Total(HistoryWeights(d.history))
                              + (d.relations + Len(d.evidence)) * ITEM_CHARS
                BY <2>7, SizeParts
            <4> QED BY <2>8, <4>1, SizeParts
        <3>2. /\ Total(CodeWeights(c.code)) \in Nat /\ Total(HistoryWeights(c.history)) \in Nat
              /\ Total(HistoryWeights(history)) \in Nat
            <4>1. /\ CodeWeights(c.code) \in Seq(Nat) /\ HistoryWeights(c.history) \in Seq(Nat)
                  /\ HistoryWeights(history) \in Seq(Nat)
                BY <2>1, <2>3, Weights
            <4> QED BY <4>1, TotalNat
        <3>3. (c.relations + Len(c.evidence)) * ITEM_CHARS \in Nat
            BY <2>1, ContextAssumption, LenProperties
        <3> QED BY <2>4, <3>1, <3>2, <3>3
    <2>10. Len(d.history) + 1 = Len(c.history)
        BY <2>2, <2>3, <2>8
    <2>11. \A i \in 1 .. Len(d.history) : d.history[i] = c.history[i + 1]
        BY <2>3, <2>8
    <2> QED BY <1>2, <2>7, <2>8, <2>9, <2>10, <2>11 DEF Shrinks
<1> QED BY <1>1, <1>2

\* A change without its source and its difference.
Bare(x) == x.source = 0 /\ x.diff = 0

\* The history of d is one of c's, with less in it.
Reduced(d, c) ==
    /\ d \in AnswerGenerationContext /\ d.code = c.code
    /\ d.relations = c.relations /\ d.evidence = c.evidence
    /\ Len(d.history) <= Len(c.history) /\ Shrinks(d, c)

LEMMA ReducedOn ==
    ASSUME NEW c \in AnswerGenerationContext, NEW d, NEW e, Reduced(d, c), Reduced(e, d)
    PROVE  Reduced(e, c)
<1>1. d \in AnswerGenerationContext /\ e \in AnswerGenerationContext
    BY DEF Reduced
<1>2. Len(c.history) \in Nat /\ Len(d.history) \in Nat /\ Len(e.history) \in Nat
    BY <1>1, PartsOf, LenProperties
<1>3. Shrinks(e, c)
    BY <1>1, ShrinksOn DEF Reduced
<1>4. Len(e.history) <= Len(c.history)
    BY <1>2 DEF Reduced
<1> QED BY <1>3, <1>4 DEF Reduced

\* All changes of c are as they are made.
MadeHistory(c) == \A i \in 1 .. Len(c.history) : Made(c.history[i])

\* Cut in turn, they make the context small enough or are bare.
LEMMA AllCut ==
    ASSUME NEW n \in Nat, NEW c \in ContextsWith(n), NEW max \in Nat, MadeHistory(c),
           NEW d, d = CutAll(c, n, max)
    PROVE  /\ Reduced(d, c) /\ Len(d.history) = n
           /\ Size(d) <= max \/ \A i \in 1 .. n : Bare(d.history[i])
<1>1. PICK p : CuttingTo(p, c, n, max) /\ p[n] = d
    BY Cutting
<1>2. /\ p \in [0 .. n -> ContextsWith(n)] /\ p[0] = c
      /\ \A k \in 0 .. n : k < n => p[k + 1] = CutChange(p[k], k + 1, max)
    BY <1>1 DEF CuttingTo
<1>3. c \in AnswerGenerationContext /\ Len(c.history) = n
    BY DEF ContextsWith
<1>4. \A j \in 1 .. n : Made(c.history[j])
    BY <1>3 DEF MadeHistory
<1> DEFINE Holds(k) == /\ Reduced(p[k], c)
                       /\ \A j \in 1 .. n : j > k => p[k].history[j] = c.history[j]
                       /\ \/ Size(p[k]) <= max
                          \/ \A j \in 1 .. n : j <= k => Bare(p[k].history[j])
           S == {k \in Nat : k <= n => Holds(k)}
<1>5. 0 \in S
    <2>1. Reduced(c, c)
        <3>1. Len(c.history) <= Len(c.history)
            BY <1>3
        <3> QED BY <1>3, <3>1 DEF Reduced, Shrinks
    <2> QED BY <1>2, <2>1
<1>6. ASSUME NEW k \in Nat, k \in S PROVE k + 1 \in S
    <2> SUFFICES ASSUME k + 1 <= n PROVE Holds(k + 1)
        OBVIOUS
    <2> DEFINE i == k + 1
               e == p[k]
               next == p[i]
    <2>1. k \in 0 .. n /\ k < n /\ Holds(k) /\ i \in 1 .. n /\ i > k
        BY <1>6
    <2>2. e \in ContextsWith(n) /\ next = CutChange(e, i, max)
        BY <1>2, <2>1
    <2>3. /\ Reduced(e, c) /\ \A j \in 1 .. n : j > k => e.history[j] = c.history[j]
          /\ \/ Size(e) <= max
             \/ \A j \in 1 .. n : j <= k => Bare(e.history[j])
        BY <2>1
    <2>a. \A j \in 1 .. n : (j > i => j > k /\ j # i) /\ (j <= i => j <= k \/ j = i) /\ (j <= k => j # i)
        BY <2>1
    <2> HIDE DEF i, e, next
    <2>4. Made(e.history[i])
        BY <1>4, <2>1, <2>3
    <2>5. /\ CutAt(next, e, i, n) /\ (Size(e) <= max => next = e)
          /\ Size(next) <= max \/ Bare(next.history[i])
        BY <2>1, <2>2, <2>4, CutChangeFits DEF Bare
    <2>6. next \in ContextsWith(n) /\ \A j \in 1 .. n : j # i => next.history[j] = e.history[j]
        BY <2>5 DEF CutAt
    <2>7. Reduced(next, e)
        <3>1. /\ next \in AnswerGenerationContext /\ Len(next.history) = n
              /\ Len(e.history) = n
            BY <2>2, <2>6 DEF ContextsWith
        <3>2. Len(next.history) <= Len(e.history)
            BY <3>1
        <3> QED BY <2>5, <3>1, <3>2 DEF CutAt, Reduced
    <2>8. Reduced(next, c)
        BY <1>3, <2>3, <2>7, ReducedOn
    <2>9. \A j \in 1 .. n : j > i => next.history[j] = c.history[j]
        BY <2>3, <2>6, <2>a
    <2>10. Size(next) <= max \/ \A j \in 1 .. n : j <= i => Bare(next.history[j])
        <3>1. CASE Size(e) <= max
            BY <2>5, <3>1
        <3>2. CASE ~(Size(e) <= max)
            BY <2>3, <2>5, <2>6, <2>a, <3>2
        <3> QED BY <3>1, <3>2
    <2> QED BY <2>8, <2>9, <2>10 DEF next, i
<1>7. Holds(n)
    <2>1. Nat \subseteq S
        <3> HIDE DEF S
        <3> QED BY <1>5, <1>6, UpwardInduction
    <2> QED BY <2>1
<1>8. Len(p[n].history) = n
    <2>1. n \in 0 .. n
        OBVIOUS
    <2>2. p[n] \in ContextsWith(n)
        BY <1>2, <2>1
    <2> QED BY <2>2 DEF ContextsWith
<1> QED BY <1>1, <1>7, <1>8

\* Dropped one after another, bare changes make it small enough or one is left.
LEMMA AllDropped ==
    ASSUME NEW c \in AnswerGenerationContext, NEW n \in Nat, NEW max \in Nat,
           Len(c.history) = n,
           Size(c) <= max \/ (\A i \in 1 .. n : Bare(c.history[i])),
           NEW d, d = DropAll(c, n, max)
    PROVE  /\ Reduced(d, c)
           /\ \/ Size(d) <= max
              \/ Len(d.history) <= 1 /\ \A i \in 1 .. Len(d.history) : Bare(d.history[i])
<1>1. PICK p : DroppingTo(p, c, n, max) /\ p[n] = d
    BY Dropping
<1>2. /\ p \in [0 .. n -> AnswerGenerationContext] /\ p[0] = c
      /\ \A k \in 0 .. n : k < n =>
            p[k + 1] = IF Size(p[k]) > max THEN DropOldest(p[k]) ELSE p[k]
    BY <1>1 DEF DroppingTo
<1> DEFINE Holds(k) == /\ Reduced(p[k], c)
                       /\ \/ Size(p[k]) <= max
                          \/ /\ \A i \in 1 .. Len(p[k].history) : Bare(p[k].history[i])
                             /\ Len(p[k].history) <= 1 \/ Len(p[k].history) + k <= n
           S == {k \in Nat : k <= n => Holds(k)}
<1>3. 0 \in S
    <2>1. Len(c.history) <= Len(c.history) /\ Len(c.history) + 0 <= n
        OBVIOUS
    <2>2. Reduced(c, c)
        BY <2>1 DEF Reduced, Shrinks
    <2> QED BY <1>2, <2>1, <2>2
<1>4. ASSUME NEW k \in Nat, k \in S PROVE k + 1 \in S
    <2> SUFFICES ASSUME k + 1 <= n PROVE Holds(k + 1)
        OBVIOUS
    <2> DEFINE e == p[k]
               next == p[k + 1]
    <2>1. k \in 0 .. n /\ k < n /\ Holds(k)
        BY <1>4
    <2>2. /\ e \in AnswerGenerationContext
          /\ next = IF Size(e) > max THEN DropOldest(e) ELSE e
        BY <1>2, <2>1
    <2>3. /\ Reduced(e, c)
          /\ \/ Size(e) <= max
             \/ /\ \A i \in 1 .. Len(e.history) : Bare(e.history[i])
                /\ Len(e.history) <= 1 \/ Len(e.history) + k <= n
        BY <2>1
    <2> HIDE DEF e, next
    <2>4. Size(e) \in Nat /\ Len(e.history) \in Nat
        BY <2>2, SizeOf, PartsOf, LenProperties
    <2>5. CASE Size(e) <= max
        <3>1. next = e
            BY <2>2, <2>4, <2>5
        <3> QED BY <2>3, <2>5, <3>1 DEF next
    <2>6. CASE ~(Size(e) <= max)
        <3>1. next = DropOldest(e)
            BY <2>2, <2>4, <2>6
        <3>2. /\ next \in AnswerGenerationContext /\ next.code = e.code
              /\ next.relations = e.relations /\ next.evidence = e.evidence /\ Shrinks(next, e)
              /\ Len(e.history) > 1 =>
                    /\ Len(next.history) + 1 = Len(e.history)
                    /\ \A i \in 1 .. Len(next.history) : next.history[i] = e.history[i + 1]
              /\ ~(Len(e.history) > 1) => next = e
            BY <2>2, <3>1, OldestDropped
        <3>3. Len(next.history) \in Nat
            BY <3>2, PartsOf, LenProperties
        <3>4. CASE Len(e.history) > 1
            <4>1. Len(next.history) + 1 = Len(e.history)
                BY <3>2, <3>4
            <4>2. /\ Len(next.history) <= Len(e.history)
                  /\ Len(e.history) + k <= n => Len(next.history) + (k + 1) <= n
                <5>1. PICK a \in Nat, b \in Nat : a = Len(next.history) /\ b = Len(e.history)
                    BY <2>4, <3>3
                <5>2. a + 1 = b
                    BY <4>1, <5>1
                <5>3. a <= b /\ (b + k <= n => a + (k + 1) <= n)
                    BY <5>2
                <5> QED BY <5>1, <5>3
            <4>3. Reduced(next, e)
                BY <3>2, <4>2 DEF Reduced
            <4>4. Reduced(next, c)
                BY <2>3, <4>3, ReducedOn
            <4>5. \A i \in 1 .. Len(next.history) : Bare(next.history[i])
                <5>1. \A i \in 1 .. Len(next.history) : i + 1 \in 1 .. Len(e.history)
                    BY <2>4, <3>3, <4>1
                <5>2. \A i \in 1 .. Len(e.history) : Bare(e.history[i])
                    BY <2>3, <2>6
                <5>3. \A i \in 1 .. Len(next.history) : next.history[i] = e.history[i + 1]
                    BY <3>2, <3>4
                <5> QED BY <5>1, <5>2, <5>3
            <4>6. Len(next.history) + (k + 1) <= n
                <5>1. Len(e.history) <= 1 \/ Len(e.history) + k <= n
                    BY <2>3, <2>6
                <5>2. Len(e.history) + k <= n
                    BY <2>4, <3>4, <5>1
                <5> QED BY <4>2, <5>2
            <4> QED BY <4>4, <4>5, <4>6 DEF next
        <3>5. CASE ~(Len(e.history) > 1)
            <4>1. next = e
                BY <3>2, <3>5
            <4>2. Len(next.history) <= 1
                BY <2>4, <3>5, <4>1
            <4>3. /\ Reduced(next, c)
                  /\ \A i \in 1 .. Len(next.history) : Bare(next.history[i])
                BY <2>3, <2>6, <4>1
            <4> QED BY <4>2, <4>3 DEF next
        <3> QED BY <3>4, <3>5
    <2> QED BY <2>5, <2>6
<1>5. Holds(n)
    <2>1. Nat \subseteq S
        <3> HIDE DEF S
        <3> QED BY <1>3, <1>4, UpwardInduction
    <2> QED BY <2>1
<1>6. Len(p[n].history) + n <= n => Len(p[n].history) <= 1
    <2>1. p[n] \in AnswerGenerationContext
        BY <1>2
    <2>2. Len(p[n].history) \in Nat
        BY <2>1, PartsOf, LenProperties
    <2> QED BY <2>2
<1> QED BY <1>1, <1>5, <1>6

\* The whole of _reduce_history_context.
LEMMA HistoryReduced ==
    ASSUME NEW c \in AnswerGenerationContext, NEW max \in Nat, MadeHistory(c),
           NEW d, d = ReduceHistory(c, max)
    PROVE  /\ Reduced(d, c)
           /\ \/ Size(d) <= max
              \/ Len(d.history) <= 1 /\ \A i \in 1 .. Len(d.history) : Bare(d.history[i])
<1> DEFINE n == Len(c.history)
           cut == CutAll(c, n, max)
<1>1. n \in Nat /\ c \in ContextsWith(n)
    BY PartsOf, LenProperties DEF ContextsWith
<1>2. d = DropAll(cut, n, max)
    BY DEF ReduceHistory, DropAll, CutAll
<1>3. /\ Reduced(cut, c) /\ Len(cut.history) = n
      /\ Size(cut) <= max \/ \A i \in 1 .. n : Bare(cut.history[i])
    BY <1>1, AllCut
<1> HIDE DEF cut, n
<1>4. cut \in AnswerGenerationContext
    BY <1>3 DEF Reduced
<1>5. /\ Reduced(d, cut)
      /\ \/ Size(d) <= max
         \/ Len(d.history) <= 1 /\ \A i \in 1 .. Len(d.history) : Bare(d.history[i])
    BY <1>1, <1>2, <1>3, <1>4, AllDropped
<1>6. Reduced(d, c)
    BY <1>3, <1>5, ReducedOn
<1> QED BY <1>5, <1>6

\* The last code is cut until the context is small enough or nothing of it is left.
LEMMA CodeTruncated ==
    ASSUME NEW c \in AnswerGenerationContext, NEW max \in Nat,
           NEW d, d = TruncateLastCode(c, max)
    PROVE  /\ d \in AnswerGenerationContext /\ d.history = c.history
           /\ d.relations = c.relations /\ d.evidence = c.evidence
           /\ Len(d.code) = Len(c.code) /\ Shrinks(d, c)
           /\ Size(d) <= max \/ Len(d.code) = 0 \/ d.code[Len(d.code)].chars = 0
<1>1. /\ c.code \in Seq(Code) /\ c.relations \in Nat
      /\ c.history \in Seq(HistoryChangeContext)
      /\ c.evidence \in Seq(Versions \cup Commits)
    BY PartsOf DEF Code
<1>2. Size(c) \in Nat /\ Len(c.code) \in Nat
    BY <1>1, SizeOf, LenProperties
<1>3. CASE Size(c) =< max \/ c.code = <<>>
    <2>1. d = c
        BY <1>3 DEF TruncateLastCode
    <2>2. c.code = <<>> => Len(c.code) = 0
        OBVIOUS
    <2> QED BY <1>2, <1>3, <2>1, <2>2 DEF Shrinks
<1>4. CASE ~(Size(c) =< max \/ c.code = <<>>)
    <2> DEFINE n == Len(c.code)
               left == CutText(c.code[n].chars, Size(c) - max)
               last == [version |-> c.code[n].version, chars |-> left]
               code == [c.code EXCEPT ![n] = last]
    <2>1. n \in 1 .. n /\ n \in Nat
        BY <1>1, <1>4, EmptySeq, LenProperties
    <2>2. c.code[n] \in Code
        BY <1>1, <2>1, ElementOfSeq
    <2>3. Size(c) - max \in Nat /\ Size(c) - max > 0
        BY <1>2, <1>4
    <2>a. c.code[n].chars \in Nat
        BY <2>2 DEF Code
    <2>4. /\ left \in Nat /\ (left < c.code[n].chars \/ left = c.code[n].chars)
          /\ left = 0 \/ left + (Size(c) - max) <= c.code[n].chars
        BY <2>a, <2>3, TextCut
    <2>5. d = [c EXCEPT !.code = code]
        <3>1. d = [c EXCEPT !.code[n].chars = left]
            BY <1>4 DEF TruncateLastCode
        <3>2. [c.code[n] EXCEPT !.chars = left] = last
            BY <2>2 DEF Code
        <3> HIDE DEF left, n, last
        <3>3. [c EXCEPT !.code[n].chars = left] =
                  [c EXCEPT !.code = [c.code EXCEPT ![n] = [c.code[n] EXCEPT !.chars = left]]]
            OBVIOUS
        <3> QED BY <3>1, <3>2, <3>3
    <2> HIDE DEF left
    <2>6. last \in Code /\ last.chars = left
        BY <2>2, <2>4 DEF Code
    <2>b. ASSUME left = c.code[n].chars PROVE last = c.code[n]
        BY <2>2, <2>b DEF Code
    <2> HIDE DEF last
    <2>7. /\ code \in Seq(Code) /\ Len(code) = n
          /\ \A i \in 1 .. n : code[i] = IF i = n THEN last ELSE c.code[i]
        BY <1>1, <2>1, <2>6, ExceptSeq
    <2>8. Total(CodeWeights(code)) + c.code[n].chars = Total(CodeWeights(c.code)) + left
        BY <1>1, <2>1, <2>6, CodeCut
    <2>9. code[n].chars = left
        BY <2>1, <2>6, <2>7
    <2>c. ASSUME left = c.code[n].chars PROVE code = c.code
        <3>1. last = c.code[n]
            BY <2>b, <2>c
        <3> QED BY <1>1, <2>1, <3>1
    <2> HIDE DEF code, n
    <2>10. d = [code |-> code, relations |-> c.relations, history |-> c.history,
                evidence |-> c.evidence]
        BY <2>5, PartChanged
    <2>11. d \in AnswerGenerationContext
        BY <1>1, <2>7, <2>10 DEF AnswerGenerationContext, Code
    <2>12. /\ d.code = code /\ d.relations = c.relations /\ d.evidence = c.evidence
           /\ d.history = c.history
        BY <2>10
    <2>13. Size(d) + c.code[n].chars = Size(c) + left /\ Size(d) \in Nat
        <3>1. /\ Size(c) = Total(CodeWeights(c.code)) + Total(HistoryWeights(c.history))
                            + (c.relations + Len(c.evidence)) * ITEM_CHARS
              /\ Size(d) = Total(CodeWeights(code)) + Total(HistoryWeights(c.history))
                            + (c.relations + Len(c.evidence)) * ITEM_CHARS
            <4>1. Size(d) = Total(CodeWeights(d.code)) + Total(HistoryWeights(d.history))
                              + (d.relations + Len(d.evidence)) * ITEM_CHARS
                BY <2>11, SizeParts
            <4> QED BY <2>12, <4>1, SizeParts
        <3>2. /\ Total(CodeWeights(c.code)) \in Nat /\ Total(CodeWeights(code)) \in Nat
              /\ Total(HistoryWeights(c.history)) \in Nat
            <4>1. /\ CodeWeights(c.code) \in Seq(Nat) /\ CodeWeights(code) \in Seq(Nat)
                  /\ HistoryWeights(c.history) \in Seq(Nat)
                BY <1>1, <2>7, Weights
            <4> QED BY <4>1, TotalNat
        <3>3. (c.relations + Len(c.evidence)) * ITEM_CHARS \in Nat
            BY <1>1, ContextAssumption, LenProperties
        <3>4. PICK a \in Nat, b \in Nat, h \in Nat, r \in Nat, s \in Nat :
                  /\ a = Total(CodeWeights(code)) /\ b = Total(CodeWeights(c.code))
                  /\ h = Total(HistoryWeights(c.history)) /\ s = c.code[n].chars
                  /\ r = (c.relations + Len(c.evidence)) * ITEM_CHARS
            BY <2>a, <3>2, <3>3
        <3>5. a + s = b + left
            BY <2>8, <3>4
        <3>6. (a + h + r) + s = (b + h + r) + left
            BY <2>4, <3>5
        <3>7. Size(d) = a + h + r /\ Size(c) = b + h + r
            BY <3>1, <3>4
        <3>8. Size(d) + s = Size(c) + left
            BY <3>6, <3>7
        <3>9. Size(d) \in Nat
            BY <3>7
        <3> QED BY <3>4, <3>8, <3>9
    <2>14. Shrinks(d, c)
        <3>1. CASE left = c.code[n].chars
            <4>1. [c EXCEPT !.code = c.code] = c
                BY PartsOf, PartChanged
            <4>2. code = c.code
                BY <2>c, <3>1
            <4>3. d = c
                BY <2>5, <4>1, <4>2
            <4> QED BY <4>3 DEF Shrinks
        <3>2. CASE left < c.code[n].chars
            BY <1>2, <2>4, <2>13, <2>a, <3>2 DEF Shrinks
        <3> QED BY <2>4, <3>1, <3>2
    <2>15. Size(d) <= max \/ left = 0
        <3>1. PICK a \in Nat, b \in Nat, s \in Nat :
                  a = Size(d) /\ b = Size(c) /\ s = c.code[n].chars
            BY <1>2, <2>13, <2>a
        <3>2. a + s = b + left /\ (left = 0 \/ left + (b - max) <= s)
            BY <2>4, <2>13, <3>1
        <3>3. left = 0 \/ a <= max
            BY <2>4, <3>2
        <3> QED BY <3>1, <3>3
    <2>16. Len(d.code) = Len(c.code) /\ d.code[Len(d.code)].chars = left
        BY <2>7, <2>9, <2>12 DEF n
    <2> QED BY <2>11, <2>12, <2>14, <2>15, <2>16
<1> QED BY <1>3, <1>4

\* The items of a context.
Items(c) == Len(c.code) + c.relations + Len(c.history) + Len(c.evidence)

\* One item less.
Less(d, c) ==
    /\ d \in AnswerGenerationContext /\ Size(d) < Size(c) /\ Items(d) + 1 = Items(c)
    /\ MadeHistory(c) => MadeHistory(d)

\* d is c without one item.
Taken(d, c) ==
    \/ /\ d.code = c.code /\ d.history = c.history
       /\ d.relations + Len(d.evidence) + 1 = c.relations + Len(c.evidence)
    \/ /\ c.code # <<>> /\ d.code = Front(c.code) /\ d.history = c.history
       /\ d.relations = c.relations /\ d.evidence = c.evidence
    \/ /\ c.history # <<>> /\ d.history = Front(c.history) /\ d.code = c.code
       /\ d.relations = c.relations /\ d.evidence = c.evidence

LEMMA PartsLess ==
    ASSUME NEW c \in AnswerGenerationContext, NEW d \in AnswerGenerationContext, Taken(d, c)
    PROVE  Less(d, c)
<1>1. /\ c.code \in Seq(Code) /\ c.relations \in Nat
      /\ c.history \in Seq(HistoryChangeContext)
      /\ c.evidence \in Seq(Versions \cup Commits)
    BY PartsOf DEF Code
<1>2. /\ d.code \in Seq(Code) /\ d.relations \in Nat
      /\ d.history \in Seq(HistoryChangeContext)
      /\ d.evidence \in Seq(Versions \cup Commits)
    BY PartsOf DEF Code
<1>4. /\ CodeWeights(d.code) \in Seq(Nat) /\ HistoryWeights(d.history) \in Seq(Nat)
      /\ CodeWeights(c.code) \in Seq(Nat) /\ HistoryWeights(c.history) \in Seq(Nat)
    BY <1>1, <1>2, Weights
<1>5. /\ Len(d.code) \in Nat /\ Len(d.history) \in Nat /\ Len(d.evidence) \in Nat
      /\ Len(c.code) \in Nat /\ Len(c.history) \in Nat /\ Len(c.evidence) \in Nat
    BY <1>1, <1>2, LenProperties
<1>6. \/ /\ d.code = c.code /\ d.history = c.history
         /\ d.relations + Len(d.evidence) + 1 = c.relations + Len(c.evidence)
      \/ /\ c.code # <<>> /\ d.code = Front(c.code) /\ d.history = c.history
         /\ d.relations = c.relations /\ d.evidence = c.evidence
      \/ /\ c.history # <<>> /\ d.history = Front(c.history) /\ d.code = c.code
         /\ d.relations = c.relations /\ d.evidence = c.evidence
    BY DEF Taken
<1>7. PICK tc \in Nat, th \in Nat, sc \in Nat, sh \in Nat, n \in Nat, k \in Nat, i \in Nat :
          /\ tc = Total(CodeWeights(d.code)) /\ th = Total(HistoryWeights(d.history))
          /\ sc = Total(CodeWeights(c.code)) /\ sh = Total(HistoryWeights(c.history))
          /\ n = d.relations + Len(d.evidence) /\ k = c.relations + Len(c.evidence)
          /\ i = ITEM_CHARS /\ i > 0
    <2>1. /\ Total(CodeWeights(d.code)) \in Nat /\ Total(HistoryWeights(d.history)) \in Nat
          /\ Total(CodeWeights(c.code)) \in Nat /\ Total(HistoryWeights(c.history)) \in Nat
        BY <1>4, TotalNat
    <2>2. d.relations + Len(d.evidence) \in Nat /\ c.relations + Len(c.evidence) \in Nat
        BY <1>1, <1>2, <1>5
    <2>3. ITEM_CHARS \in Nat /\ ITEM_CHARS > 0
        BY ContextAssumption
    <2> QED BY <2>1, <2>2, <2>3
<1>8. Size(d) = tc + th + n * i
    <2>1. Size(d) = Total(CodeWeights(d.code)) + Total(HistoryWeights(d.history))
                      + (d.relations + Len(d.evidence)) * ITEM_CHARS
        BY SizeParts
    <2> QED BY <1>7, <2>1
<1>9. Size(c) = sc + sh + k * i
    <2>1. Size(c) = Total(CodeWeights(c.code)) + Total(HistoryWeights(c.history))
                      + (c.relations + Len(c.evidence)) * ITEM_CHARS
        BY SizeParts
    <2> QED BY <1>7, <2>1
<1>10. Items(d) = Len(d.code) + d.relations + Len(d.history) + Len(d.evidence)
    BY DEF Items
<1>a. PICK lc \in Nat, rc \in Nat, hc \in Nat, ec \in Nat, ld \in Nat, rd \in Nat,
           hd \in Nat, ed \in Nat :
          /\ lc = Len(c.code) /\ rc = c.relations /\ hc = Len(c.history) /\ ec = Len(c.evidence)
          /\ ld = Len(d.code) /\ rd = d.relations /\ hd = Len(d.history) /\ ed = Len(d.evidence)
    BY <1>1, <1>2, <1>5
<1>b. Items(c) = lc + rc + hc + ec /\ Items(d) = ld + rd + hd + ed
    BY <1>10, <1>a DEF Items
<1>11. CASE /\ d.code = c.code /\ d.history = c.history
            /\ d.relations + Len(d.evidence) + 1 = c.relations + Len(c.evidence)
    <2>1. tc = sc /\ th = sh /\ n + 1 = k
        BY <1>7, <1>11
    <2>2. (n + 1) * i = n * i + i /\ n * i \in Nat
        OBVIOUS
    <2>3. PICK t \in Nat : t = n * i /\ k * i = t + i
        BY <2>1, <2>2
    <2>4. Size(d) < Size(c)
        <3>1. tc + th + t < sc + sh + (t + i)
            BY <1>7, <2>1
        <3>2. Size(d) = tc + th + t /\ Size(c) = sc + sh + (t + i)
            BY <1>8, <1>9, <2>3
        <3> QED BY <3>1, <3>2
    <2>5. Items(d) + 1 = Items(c)
        <3>1. ld = lc /\ hd = hc /\ rd + ed + 1 = rc + ec
            BY <1>11, <1>a
        <3>2. (ld + rd + hd + ed) + 1 = lc + rc + hc + ec
            BY <3>1
        <3> QED BY <1>b, <3>2
    <2>6. MadeHistory(c) => MadeHistory(d)
        <3>1. d.history = c.history
            BY <1>11
        <3> QED BY <3>1 DEF MadeHistory
    <2> QED BY <2>4, <2>5, <2>6 DEF Less
<1>12. CASE /\ c.code # <<>> /\ d.code = Front(c.code) /\ d.history = c.history
            /\ d.relations = c.relations /\ d.evidence = c.evidence
    <2>1. tc < sc /\ th = sh /\ n = k
        BY <1>1, <1>7, <1>12, CodeLess
    <2>2. n * i \in Nat
        OBVIOUS
    <2>3. PICK t \in Nat : t = n * i /\ k * i = t
        BY <2>1, <2>2
    <2>4. Size(d) < Size(c)
        BY <1>8, <1>9, <2>1, <2>3
    <2>5. Len(d.code) = Len(c.code) - 1
        BY <1>1, <1>12, FrontKeeps
    <2>6. Items(d) + 1 = Items(c)
        <3>1. ld + 1 = lc /\ hd = hc /\ rd = rc /\ ed = ec
            BY <1>12, <1>a, <2>5
        <3>2. (ld + rd + hd + ed) + 1 = lc + rc + hc + ec
            BY <3>1
        <3> QED BY <1>b, <3>2
    <2>7. MadeHistory(c) => MadeHistory(d)
        <3>1. d.history = c.history
            BY <1>12
        <3> QED BY <3>1 DEF MadeHistory
    <2> QED BY <2>4, <2>6, <2>7 DEF Less
<1>13. CASE /\ c.history # <<>> /\ d.history = Front(c.history) /\ d.code = c.code
            /\ d.relations = c.relations /\ d.evidence = c.evidence
    <2>1. tc = sc /\ th < sh /\ n = k
        BY <1>1, <1>7, <1>13, HistoryLess
    <2>2. n * i \in Nat
        OBVIOUS
    <2>3. PICK t \in Nat : t = n * i /\ k * i = t
        BY <2>1, <2>2
    <2>4. Size(d) < Size(c)
        BY <1>8, <1>9, <2>1, <2>3
    <2>5. /\ Len(d.history) = Len(c.history) - 1
          /\ \A j \in 1 .. Len(c.history) - 1 : d.history[j] = c.history[j]
        BY <1>1, <1>13, FrontKeeps
    <2>6. Items(d) + 1 = Items(c)
        <3>1. ld = lc /\ hd + 1 = hc /\ rd = rc /\ ed = ec
            BY <1>13, <1>a, <2>5
        <3>2. (ld + rd + hd + ed) + 1 = lc + rc + hc + ec
            BY <3>1
        <3> QED BY <1>b, <3>2
    <2>7. MadeHistory(c) => MadeHistory(d)
        <3>1. \A j \in 1 .. Len(d.history) : j \in 1 .. Len(c.history) /\ d.history[j] = c.history[j]
            BY <1>5, <2>5
        <3> QED BY <3>1 DEF MadeHistory
    <2> QED BY <2>4, <2>6, <2>7 DEF Less
<1> QED BY <1>6, <1>11, <1>12, <1>13

\* Nothing can be removed from c; what is left may still be cut.
Fixed(kind, c) ==
    /\ c.relations = 0 /\ Len(c.evidence) <= 1
    /\ IF kind = "intent" THEN Len(c.code) = 0 ELSE Len(c.history) = 0 /\ Len(c.code) <= 1

\* An item is removed as long as there is one that may be.
LEMMA OneRemoved ==
    ASSUME NEW kind, NEW c \in AnswerGenerationContext, NEW d, d = WithoutLast(kind, c)
    PROVE  Less(d, c) \/ (Fixed(kind, c) /\ d = c)
<1>1. /\ c = [code |-> c.code, relations |-> c.relations, history |-> c.history,
              evidence |-> c.evidence]
      /\ c.code \in Seq(Code) /\ c.relations \in Nat
      /\ c.history \in Seq(HistoryChangeContext)
      /\ c.evidence \in Seq(Versions \cup Commits)
    BY PartsOf DEF Code
<1>2. /\ Len(c.code) \in Nat /\ Len(c.history) \in Nat /\ Len(c.evidence) \in Nat
      /\ (c.code = <<>> <=> Len(c.code) = 0) /\ (c.history = <<>> <=> Len(c.history) = 0)
    BY <1>1, LenProperties, EmptySeq
<1>3. ASSUME c.relations > 0 PROVE Less([c EXCEPT !.relations = c.relations - 1], c)
    <2> DEFINE e == [c EXCEPT !.relations = c.relations - 1]
    <2>1. e = [code |-> c.code, relations |-> c.relations - 1, history |-> c.history,
               evidence |-> c.evidence]
        BY PartChanged
    <2>2. c.relations - 1 \in Nat
        BY <1>1, <1>3
    <2> HIDE DEF e
    <2>3. e \in AnswerGenerationContext
        BY <1>1, <2>1, <2>2 DEF AnswerGenerationContext, Code
    <2>4. c.relations - 1 + Len(c.evidence) + 1 = c.relations + Len(c.evidence)
        BY <1>1, <1>2
    <2>5. /\ e.code = c.code /\ e.relations = c.relations - 1 /\ e.history = c.history
          /\ e.evidence = c.evidence
        BY <2>1
    <2>6. Taken(e, c)
        BY <2>4, <2>5 DEF Taken
    <2>7. Less(e, c)
        BY <2>3, <2>6, PartsLess
    <2> QED BY <2>7 DEF e
<1>4. ASSUME Len(c.evidence) > 1 PROVE Less([c EXCEPT !.evidence = Front(c.evidence)], c)
    <2> DEFINE rest == Front(c.evidence)
               e == [c EXCEPT !.evidence = rest]
    <2>1. rest \in Seq(Versions \cup Commits) /\ Len(rest) = Len(c.evidence) - 1
        <3>1. c.evidence # <<>>
            BY <1>1, <1>4, EmptySeq
        <3> QED BY <1>1, <3>1, FrontKeeps
    <2> HIDE DEF rest
    <2>2. e = [code |-> c.code, relations |-> c.relations, history |-> c.history,
               evidence |-> rest]
        BY PartChanged
    <2> HIDE DEF e
    <2>3. e \in AnswerGenerationContext
        BY <1>1, <2>1, <2>2 DEF AnswerGenerationContext, Code
    <2>4. c.relations + Len(rest) + 1 = c.relations + Len(c.evidence)
        BY <1>1, <1>2, <2>1
    <2>5. /\ e.code = c.code /\ e.relations = c.relations /\ e.history = c.history
          /\ e.evidence = rest
        BY <2>2
    <2>6. Taken(e, c)
        BY <2>4, <2>5 DEF Taken
    <2>7. Less(e, c)
        BY <2>3, <2>6, PartsLess
    <2> QED BY <2>7 DEF e, rest
<1>5. ASSUME c.code # <<>> PROVE Less([c EXCEPT !.code = Front(c.code)], c)
    <2> DEFINE rest == Front(c.code)
               e == [c EXCEPT !.code = rest]
    <2>1. rest \in Seq(Code)
        BY <1>1, <1>5, FrontKeeps
    <2>2. e = [code |-> rest, relations |-> c.relations, history |-> c.history,
               evidence |-> c.evidence]
        BY PartChanged
    <2> HIDE DEF e
    <2>3. e \in AnswerGenerationContext
        BY <1>1, <2>1, <2>2 DEF AnswerGenerationContext, Code
    <2>4. /\ e.code = rest /\ e.relations = c.relations /\ e.history = c.history
          /\ e.evidence = c.evidence
        BY <2>2
    <2>5. Taken(e, c)
        BY <1>5, <2>4 DEF Taken
    <2>6. Less(e, c)
        BY <2>3, <2>5, PartsLess
    <2> QED BY <2>6 DEF e
<1>6. ASSUME c.history # <<>> PROVE Less([c EXCEPT !.history = Front(c.history)], c)
    <2> DEFINE rest == Front(c.history)
               e == [c EXCEPT !.history = rest]
    <2>1. rest \in Seq(HistoryChangeContext)
        BY <1>1, <1>6, FrontKeeps
    <2>2. e = [code |-> c.code, relations |-> c.relations, history |-> rest,
               evidence |-> c.evidence]
        BY PartChanged
    <2> HIDE DEF e
    <2>3. e \in AnswerGenerationContext
        BY <1>1, <2>1, <2>2 DEF AnswerGenerationContext, Code
    <2>4. /\ e.code = c.code /\ e.relations = c.relations /\ e.history = rest
          /\ e.evidence = c.evidence
        BY <2>2
    <2>5. Taken(e, c)
        BY <1>6, <2>4 DEF Taken
    <2>6. Less(e, c)
        BY <2>3, <2>5, PartsLess
    <2> QED BY <2>6 DEF e
<1>7. /\ ~(c.relations > 0) => c.relations = 0
      /\ ~(Len(c.evidence) > 1) => Len(c.evidence) <= 1
      /\ ~(Len(c.code) > 1) => Len(c.code) <= 1
      /\ Len(c.code) > 1 => c.code # <<>>
    BY <1>1, <1>2
<1>8. CASE kind = "intent"
    <2>1. d = IF c.relations > 0 THEN [c EXCEPT !.relations = c.relations - 1]
              ELSE IF c.code # <<>> THEN [c EXCEPT !.code = Front(c.code)]
              ELSE IF Len(c.evidence) > 1 THEN [c EXCEPT !.evidence = Front(c.evidence)]
              ELSE c
        BY <1>8 DEF WithoutLast
    <2> QED BY <1>2, <1>3, <1>4, <1>5, <1>7, <1>8, <2>1 DEF Fixed
<1>9. CASE kind # "intent"
    <2>1. d = IF c.history # <<>> THEN [c EXCEPT !.history = Front(c.history)]
              ELSE IF Len(c.evidence) > 1 THEN [c EXCEPT !.evidence = Front(c.evidence)]
              ELSE IF c.relations > 0 THEN [c EXCEPT !.relations = c.relations - 1]
              ELSE IF Len(c.code) > 1 THEN [c EXCEPT !.code = Front(c.code)]
              ELSE c
        BY <1>9 DEF WithoutLast
    <2> QED BY <1>2, <1>3, <1>4, <1>5, <1>6, <1>7, <1>9, <2>1 DEF Fixed
<1> QED BY <1>8, <1>9

\* As many are removed as are needed, or as there are.
LEMMA AllRemoved ==
    ASSUME NEW kind, NEW c \in AnswerGenerationContext, NEW n \in Nat, n = Items(c),
           NEW max \in Nat, NEW d, d = RemoveAll(kind, c, n, max)
    PROVE  /\ d \in AnswerGenerationContext /\ Shrinks(d, c)
           /\ Size(d) <= max \/ Fixed(kind, d)
           /\ MadeHistory(c) => MadeHistory(d)
<1>1. PICK p : RemovingTo(p, kind, c, n, max) /\ p[n] = d
    BY Removing
<1>2. /\ p \in [0 .. n -> AnswerGenerationContext] /\ p[0] = c
      /\ \A k \in 0 .. n : k < n =>
            p[k + 1] = IF Size(p[k]) > max THEN WithoutLast(kind, p[k]) ELSE p[k]
    BY <1>1 DEF RemovingTo
<1>3. ASSUME NEW e \in AnswerGenerationContext
      PROVE  /\ Size(e) \in Nat /\ Items(e) \in Nat
             /\ Items(e) = 0 => Fixed(kind, e)
    <2>1. /\ e.code \in Seq(Code) /\ e.relations \in Nat
          /\ e.history \in Seq(HistoryChangeContext)
          /\ e.evidence \in Seq(Versions \cup Commits)
        BY PartsOf DEF Code
    <2>2. PICK i \in Nat, j \in Nat, k \in Nat, l \in Nat :
              i = Len(e.code) /\ j = e.relations /\ k = Len(e.history) /\ l = Len(e.evidence)
        BY <2>1, LenProperties
    <2>3. Items(e) = i + j + k + l
        BY <2>2 DEF Items
    <2>4. i + j + k + l = 0 => i = 0 /\ j = 0 /\ k = 0 /\ l = 0
        OBVIOUS
    <2>5. Items(e) = 0 => Fixed(kind, e)
        <3>1. Items(e) = 0 => /\ Len(e.code) = 0 /\ e.relations = 0
                              /\ Len(e.history) = 0 /\ Len(e.evidence) = 0
            BY <2>2, <2>3, <2>4
        <3>2. \A x : x = 0 => x <= 1
            OBVIOUS
        <3> QED BY <3>1, <3>2 DEF Fixed
    <2> QED BY <2>3, <2>5, SizeOf
<1> DEFINE Holds(k) == /\ Shrinks(p[k], c)
                       /\ MadeHistory(c) => MadeHistory(p[k])
                       /\ Size(p[k]) <= max \/ Fixed(kind, p[k]) \/ Items(p[k]) + k <= n
           S == {k \in Nat : k <= n => Holds(k)}
<1>4. 0 \in S
    <2>1. Items(c) + 0 <= n
        BY <1>3
    <2>2. Shrinks(c, c)
        BY DEF Shrinks
    <2>3. Holds(0)
        BY <1>2, <2>1, <2>2
    <2> QED BY <2>3
<1>5. ASSUME NEW k \in Nat, k \in S PROVE k + 1 \in S
    <2> SUFFICES ASSUME k + 1 <= n PROVE Holds(k + 1)
        OBVIOUS
    <2> DEFINE e == p[k]
               next == p[k + 1]
    <2>1. k \in 0 .. n /\ k < n /\ Holds(k)
        BY <1>5
    <2>2. /\ e \in AnswerGenerationContext
          /\ next = IF Size(e) > max THEN WithoutLast(kind, e) ELSE e
        BY <1>2, <2>1
    <2>3. /\ Shrinks(e, c)
          /\ MadeHistory(c) => MadeHistory(e)
          /\ Size(e) <= max \/ Fixed(kind, e) \/ Items(e) + k <= n
        BY <2>1
    <2> HIDE DEF e, next
    <2>4. Size(e) \in Nat /\ Items(e) \in Nat
        BY <1>3, <2>2
    <2>5. CASE Size(e) <= max
        <3>1. next = e
            BY <2>2, <2>4, <2>5
        <3> QED BY <2>3, <2>5, <3>1 DEF next
    <2>6. CASE ~(Size(e) <= max)
        <3>1. next = WithoutLast(kind, e)
            BY <2>2, <2>4, <2>6
        <3>2. Less(next, e) \/ (Fixed(kind, e) /\ next = e)
            BY <2>2, <3>1, OneRemoved
        <3>3. CASE Fixed(kind, e) /\ next = e
            BY <2>3, <3>3 DEF next
        <3>4. CASE Less(next, e) /\ ~(Fixed(kind, e) /\ next = e)
            <4>1. next \in AnswerGenerationContext /\ Shrinks(next, e)
                BY <3>4 DEF Less, Shrinks
            <4>2. Shrinks(next, c)
                BY <2>2, <2>3, <4>1, ShrinksOn
            <4>3. MadeHistory(c) => MadeHistory(next)
                BY <2>3, <3>4 DEF Less
            <4>4. Fixed(kind, next) \/ Items(next) + (k + 1) <= n
                <5>1. Items(next) \in Nat /\ Items(next) + 1 = Items(e)
                    BY <1>3, <3>4, <4>1 DEF Less
                <5>2. CASE Items(e) + k <= n
                    BY <5>1, <5>2
                <5>3. CASE Fixed(kind, e)
                    <6>1. WithoutLast(kind, e) = e
                        <7>1. e.relations = 0 /\ Len(e.evidence) <= 1
                            BY <5>3 DEF Fixed
                        <7>2. ~(e.relations > 0) /\ ~(Len(e.evidence) > 1)
                            <8>1. e.evidence \in Seq(Versions \cup Commits)
                                BY <2>2, PartsOf
                            <8> QED BY <7>1, <8>1, LenProperties
                        <7>3. e.code \in Seq(Code) /\ e.history \in Seq(HistoryChangeContext)
                            BY <2>2, PartsOf DEF Code
                        <7>4. kind = "intent" => e.code = <<>>
                            BY <5>3, <7>3, EmptySeq DEF Fixed
                        <7>5. kind # "intent" => e.history = <<>> /\ ~(Len(e.code) > 1)
                            BY <5>3, <7>3, EmptySeq, LenProperties DEF Fixed
                        <7> QED BY <7>2, <7>4, <7>5 DEF WithoutLast
                    <6> QED BY <3>1, <3>4, <5>3, <6>1
                <5> QED BY <2>3, <2>6, <5>2, <5>3
            <4> QED BY <4>2, <4>3, <4>4 DEF next
        <3> QED BY <3>2, <3>3, <3>4
    <2> QED BY <2>5, <2>6
<1>6. Holds(n)
    <2>1. Nat \subseteq S
        <3> HIDE DEF S
        <3> QED BY <1>4, <1>5, UpwardInduction
    <2> QED BY <2>1
<1>7. d \in AnswerGenerationContext
    <2>1. n \in 0 .. n
        OBVIOUS
    <2> QED BY <1>1, <1>2, <2>1
<1>8. Items(d) + n <= n => Fixed(kind, d)
    <2>1. Items(d) \in Nat
        BY <1>3, <1>7
    <2>2. Items(d) + n <= n => Items(d) = 0
        BY <2>1
    <2> QED BY <1>3, <1>7, <2>2
<1> QED BY <1>1, <1>6, <1>7, <1>8

\* Within its budget, or there is nothing left to take away.
LEMMA BudgetKept ==
    ASSUME NEW kind, NEW c \in AnswerGenerationContext, MadeHistory(c), NEW max \in Nat,
           NEW d, d = FitBudget(kind, c, max)
    PROVE  /\ d \in AnswerGenerationContext /\ Shrinks(d, c)
           /\ Size(d) <= max \/ Irreducible(kind, d)
<1> DEFINE n == Items(c)
           fewer == RemoveAll(kind, c, n, max)
           short == TruncateLastCode(fewer, max)
<1>1. d = ReduceHistory(short, max)
    BY DEF FitBudget, RemoveAll, Items
<1>2. n \in Nat
    <2>1. /\ c.code \in Seq(Code) /\ c.relations \in Nat
          /\ c.history \in Seq(HistoryChangeContext)
          /\ c.evidence \in Seq(Versions \cup Commits)
        BY PartsOf DEF Code
    <2> QED BY <2>1, LenProperties DEF Items
<1>3. /\ fewer \in AnswerGenerationContext /\ Shrinks(fewer, c)
      /\ Size(fewer) <= max \/ Fixed(kind, fewer)
      /\ MadeHistory(fewer)
    <2> DEFINE e == fewer
    <2>1. e = RemoveAll(kind, c, n, max)
        OBVIOUS
    <2> HIDE DEF e
    <2>2. /\ e \in AnswerGenerationContext /\ Shrinks(e, c)
          /\ Size(e) <= max \/ Fixed(kind, e)
          /\ MadeHistory(c) => MadeHistory(e)
        BY <1>2, <2>1, AllRemoved
    <2> QED BY <2>2 DEF e
<1> HIDE DEF fewer
<1>4. /\ short \in AnswerGenerationContext /\ short.history = fewer.history
      /\ short.relations = fewer.relations /\ short.evidence = fewer.evidence
      /\ Len(short.code) = Len(fewer.code) /\ Shrinks(short, fewer)
      /\ Size(short) <= max \/ Len(short.code) = 0 \/ short.code[Len(short.code)].chars = 0
    BY <1>3, CodeTruncated
<1> HIDE DEF short
<1>5. MadeHistory(short)
    BY <1>3, <1>4 DEF MadeHistory
<1>6. /\ Reduced(d, short)
      /\ \/ Size(d) <= max
         \/ Len(d.history) <= 1 /\ \A i \in 1 .. Len(d.history) : Bare(d.history[i])
    BY <1>1, <1>4, <1>5, HistoryReduced
<1>7. /\ d \in AnswerGenerationContext /\ d.code = short.code
      /\ d.relations = short.relations /\ d.evidence = short.evidence
      /\ Len(d.history) <= Len(short.history) /\ Shrinks(d, short)
    BY <1>6 DEF Reduced
<1>8. Shrinks(d, c)
    <2>1. Shrinks(short, c)
        BY <1>3, <1>4, ShrinksOn
    <2> QED BY <1>4, <1>7, <2>1, ShrinksOn
<1>9. ASSUME ~(Size(d) <= max) PROVE Irreducible(kind, d)
    <2>1. /\ Size(d) \in Nat /\ Size(short) \in Nat /\ Size(fewer) \in Nat
        BY <1>3, <1>4, <1>7, SizeOf
    <2>2. Size(d) <= Size(short) /\ Size(short) <= Size(fewer)
        BY <1>4, <1>7, <2>1 DEF Shrinks
    <2>3. ~(Size(short) <= max) /\ ~(Size(fewer) <= max)
        BY <1>9, <2>1, <2>2
    <2>4. /\ fewer.relations = 0 /\ Len(fewer.evidence) <= 1
          /\ kind = "intent" => Len(fewer.code) = 0
          /\ kind # "intent" => Len(fewer.history) = 0 /\ Len(fewer.code) <= 1
        BY <1>3, <2>3 DEF Fixed
    <2>5. d.relations = 0 /\ Len(d.evidence) <= 1
        BY <1>4, <1>7, <2>4
    <2>6. /\ d.code \in Seq(Code) /\ d.history \in Seq(HistoryChangeContext)
          /\ Len(d.code) \in Nat /\ Len(d.history) \in Nat
        BY <1>7, PartsOf, LenProperties DEF Code
    <2>7. Len(d.code) = Len(fewer.code)
        BY <1>4, <1>7
    <2>8. Len(d.history) <= 1 /\ \A i \in 1 .. Len(d.history) : Bare(d.history[i])
        BY <1>6, <1>9
    <2>9. ASSUME kind = "intent"
          PROVE  /\ d.code = <<>> /\ Len(d.history) <= 1
                 /\ \A i \in DOMAIN d.history : d.history[i].source = 0 /\ d.history[i].diff = 0
        <3>1. d.code = <<>>
            BY <2>4, <2>6, <2>7, <2>9, EmptySeq
        <3>2. DOMAIN d.history = 1 .. Len(d.history)
            BY <2>6, LenProperties
        <3> QED BY <2>8, <3>1, <3>2 DEF Bare
    <2>10. ASSUME kind # "intent"
           PROVE  /\ d.history = <<>> /\ Len(d.code) <= 1
                  /\ \A i \in DOMAIN d.code : d.code[i].chars = 0
        <3>1. Len(fewer.history) = 0 /\ Len(fewer.code) <= 1
            BY <2>4, <2>10
        <3>2. Len(d.history) = 0
            <4>1. Len(d.history) <= 0
                BY <1>4, <1>7, <3>1
            <4> QED BY <2>6, <4>1
        <3>3. d.history = <<>>
            BY <2>6, <3>2, EmptySeq
        <3>4. DOMAIN d.code = 1 .. Len(d.code)
            BY <2>6, LenProperties
        <3>5. Len(d.code) = 0 \/ d.code[Len(d.code)].chars = 0
            BY <1>4, <1>7, <2>3
        <3>6. Len(d.code) <= 1
            BY <2>7, <3>1
        <3>7. \A i \in 1 .. Len(d.code) : Len(d.code) # 0 /\ i = Len(d.code)
            BY <2>6, <3>6
        <3> QED BY <3>3, <3>4, <3>5, <3>6, <3>7
    <2> QED BY <2>5, <2>9, <2>10 DEF Irreducible
<1> QED BY <1>7, <1>8, <1>9

\* The context to ask with again, and that it is smaller when it can be.
LEMMA FallbackSmaller ==
    ASSUME NEW kind, NEW c \in AnswerGenerationContext, MadeHistory(c),
           NEW d, d = Fallback(kind, c)
    PROVE  /\ Size(d) <= FallbackBudget(Size(c)) \/ Irreducible(kind, d)
           /\ Size(c) > MIN_FALLBACK_CONTEXT_CHARS /\ ~Irreducible(kind, c) => Size(d) < Size(c)
<1> DEFINE max == FallbackBudget(Size(c))
<1>1. PICK s \in Nat, l \in Nat, m \in Nat :
          /\ s = Size(c) /\ l = MIN_FALLBACK_CONTEXT_CHARS /\ m = FALLBACK_MAX_CONTEXT_CHARS
          /\ l > 0
    BY SizeOf, ContextAssumption
<1>2. max \in Nat /\ (s > l => max < s)
    <2>1. s \div 2 \in Nat /\ (s > 0 => s \div 2 < s)
        OBVIOUS
    <2>2. PICK h \in Nat : h = s \div 2
        BY <2>1
    <2>3. max = IF (IF h > l THEN h ELSE l) < m THEN (IF h > l THEN h ELSE l) ELSE m
        BY <1>1, <2>2 DEF FallbackBudget
    <2>4. s > 0 => h < s
        BY <2>1, <2>2
    <2> HIDE DEF max
    <2> QED BY <1>1, <2>3, <2>4
<1>3. d = FitBudget(kind, c, max)
    BY DEF Fallback
<1> HIDE DEF max
<1>4. /\ d \in AnswerGenerationContext /\ Shrinks(d, c)
      /\ Size(d) <= max \/ Irreducible(kind, d)
    BY <1>2, <1>3, BudgetKept
<1>5. ASSUME s > l, ~Irreducible(kind, c) PROVE Size(d) < Size(c)
    <2>1. CASE d = c
        BY <1>1, <1>2, <1>4, <1>5, <2>1
    <2>2. CASE Size(d) < Size(c)
        BY <2>2
    <2> QED BY <1>4, <2>1, <2>2 DEF Shrinks
<1> QED BY <1>1, <1>4, <1>5 DEF max

-----------------------------------------------------------------------------
(* What the first context has *)

\* The code begins with the best hit.
LEMMA CompactCodeFirst ==
    ASSUME NEW hits \in Seq(Versions)
    PROVE  /\ CompactCode(hits) \in Seq([version : Versions, chars : Nat])
           /\ hits # <<>> => CompactCode(hits) # <<>> /\ CompactCode(hits)[1].version = hits[1]
<1> DEFINE n == Len(hits)
           X == [version : Versions, chars : Nat]
           item(v) == [version |-> v, chars |-> CodeChars[v]]
           add(code, v) ==
               IF \E i \in DOMAIN code : MethodOf[code[i].version] = MethodOf[v] THEN code
               ELSE Append(code, item(v))
           V == Seq(X)
           Add(code, i) == add(code, hits[i])
           Eq(f) == f = [s \in SUBSET (1 .. n) |->
                           IF s = {} THEN <<>> ELSE Add(f[s \ {Max(s)}], Max(s))]
           G == [p \in V \X (1 .. n) |-> Add(p[1], p[2])]
           kept == CHOOSE f : Eq(f)
<1>1. n \in Nat /\ DOMAIN hits = 1 .. n /\ \A i \in 1 .. n : hits[i] \in Versions
    BY LenProperties, ElementOfSeq
<1>2. CompactCode(hits) = kept[1 .. n]
    <2>1. CompactCode(hits) = FoldLeft(add, <<>>, hits)
        BY DEF CompactCode
    <2> HIDE DEF item, n
    <2>2. FoldLeft(add, <<>>, hits) = kept[1 .. n]
        BY <1>1 DEF FoldLeft, MapThenFoldSet
    <2> QED BY <2>1, <2>2
<1> HIDE DEF n
<1>3. \A v \in Versions : item(v) \in X /\ item(v).version = v
    BY ContextAssumption
<1> HIDE DEF X, item
<1>4. <<>> \in V /\ \A code \in V, i \in 1 .. n : Add(code, i) \in V
    BY <1>1, <1>3
<1>5. PICK f \in [SUBSET (1 .. n) -> V] : FoldOf(f, n, <<>>, G)
    <2> HIDE DEF V, Add
    <2>1. G \in [V \X (1 .. n) -> V]
        BY <1>4
    <2> HIDE DEF G
    <2> QED BY <1>1, <1>4, <2>1, FoldExists
<1>6. \A code \in V, i \in 1 .. n : G[<<code, i>>] = Add(code, i)
    OBVIOUS
<1> HIDE DEF Add, G
<1>7. Eq(f)
    <2> HIDE DEF V
    <2>1. \A s \in SUBSET (1 .. n) : s # {} => Max(s) \in 1 .. n /\ f[s \ {Max(s)}] \in V
        BY <1>1, LastIndex
    <2> QED BY <1>5, <1>6, <2>1 DEF FoldOf
<1>8. Eq(kept)
    <2> HIDE DEF Eq
    <2> QED BY <1>7
<1> HIDE DEF kept
<1> DEFINE S == {s \in SUBSET (1 .. n) :
                    /\ kept[s] \in V
                    /\ 1 \in s => kept[s] # <<>> /\ kept[s][1].version = hits[1]}
<1>9. kept[{}] = <<>>
    <2>1. {} \in SUBSET (1 .. n)
        OBVIOUS
    <2> QED BY <1>8, <2>1
<1>10. {} \in S
    BY <1>4, <1>9
<1>11. ASSUME NEW s \in SUBSET (1 .. n), s # {}, s \ {Max(s)} \in S PROVE s \in S
    <2> DEFINE k == kept[s \ {Max(s)}]
               m == Max(s)
    <2>1. kept[s] = Add(k, m) /\ m \in 1 .. n /\ m \in s
        BY <1>1, <1>8, <1>11, LastIndex
    <2>2. k \in V /\ (1 \in s \ {m} => k # <<>> /\ k[1].version = hits[1])
        BY <1>11
    <2>3. m = 1 => k = <<>>
        <3>1. ASSUME m = 1 PROVE s \ {m} = {}
            <4>1. \A i \in s : i <= m /\ i \in 1 .. n
                BY <1>1, <1>11, LastIndex
            <4> QED BY <3>1, <4>1
        <3> HIDE DEF m
        <3> QED BY <1>9, <3>1 DEF m
    <2>4. kept[s] \in V
        BY <1>4, <2>1, <2>2
    <2> HIDE DEF k, m
    <2>5. ASSUME 1 \in s PROVE kept[s] # <<>> /\ kept[s][1].version = hits[1]
        <3>1. CASE m = 1
            <4>1. kept[s] = Append(<<>>, item(hits[1]))
                BY <2>1, <2>3, <3>1 DEF Add
            <4>2. kept[s] = <<item(hits[1])>>
                BY <4>1
            <4>3. item(hits[1]).version = hits[1]
                BY <1>1, <1>3, <2>1, <3>1
            <4> QED BY <4>2, <4>3
        <3>2. CASE m # 1
            <4>1. k # <<>> /\ k[1].version = hits[1]
                BY <2>2, <2>5, <3>2
            <4>2. kept[s] = k \/ kept[s] = Append(k, item(hits[m]))
                BY <2>1 DEF Add
            <4>3. item(hits[m]) \in X
                BY <1>1, <1>3, <2>1
            <4>4. /\ Append(k, item(hits[m])) # <<>>
                  /\ Append(k, item(hits[m]))[1] = k[1]
                BY <2>2, <4>1, <4>3
            <4> QED BY <4>1, <4>2, <4>4
        <3> QED BY <3>1, <3>2
    <2> QED BY <2>4, <2>5
<1>12. (1 .. n) \in S
    <2> HIDE DEF S
    <2> QED BY <1>1, <1>10, <1>11, IndexInduction
<1>13. hits # <<>> => 1 \in 1 .. n
    BY EmptySeq, <1>1 DEF n
<1> QED BY <1>2, <1>12, <1>13 DEF X

\* The last of a list and another one after it.
LEMMA LastOfConcat ==
    ASSUME NEW X, NEW s \in Seq(X), NEW t \in Seq(X)
    PROVE  /\ s \o t \in Seq(X)
           /\ t # <<>> => s \o t # <<>> /\ Last(s \o t) = Last(t)
           /\ t = <<>> => s \o t = s
<1>1. PICK l \in Nat, n \in Nat : l = Len(s) /\ n = Len(t)
    BY LenProperties
<1>2. /\ s \o t \in Seq(X) /\ Len(s \o t) = l + n
      /\ \A i \in 1 .. l + n : (s \o t)[i] = IF i <= l THEN s[i] ELSE t[i - l]
    BY <1>1, ConcatProperties
<1>3. ASSUME t # <<>> PROVE s \o t # <<>> /\ Last(s \o t) = Last(t)
    <2>1. n # 0
        BY <1>1, <1>3, EmptySeq
    <2>2. l + n \in 1 .. l + n /\ ~(l + n <= l) /\ (l + n) - l = n /\ l + n # 0
        BY <2>1
    <2>3. (s \o t)[l + n] = t[n]
        BY <1>2, <2>2
    <2>4. s \o t # <<>>
        BY <1>2, <2>2, EmptySeq
    <2> QED BY <1>1, <1>2, <2>3, <2>4 DEF Last
<1>4. t = <<>> => s \o t = s
    BY ConcatEmptySeq
<1> QED BY <1>2, <1>3, <1>4

\* The changes of History, after those of commit c: it introduced vs and deleted the
\* method, if gone.
ChangesAfter(before, vs, gone, c) ==
    before \o [i \in 1 .. Cardinality(vs) |-> Introduction(before, SetToSeq(vs)[i], c)]
           \o (IF gone THEN <<Deletion(c)>> ELSE <<>>)

\* Such a change.
MadeChange == {x \in HistoryChangeContext : Made(x)}

\* They are those before, or the last one is of the commit.
LEMMA ChangesOf ==
    ASSUME NEW before \in Seq(MadeChange), NEW c \in Commits,
           NEW vs \in SUBSET Versions, NEW gone \in BOOLEAN,
           NEW after, after = ChangesAfter(before, vs, gone, c)
    PROVE  /\ after \in Seq(MadeChange)
           /\ vs # {} \/ gone => after # <<>> /\ Last(after).commit = c
           /\ vs = {} /\ ~gone => after = before
<1> DEFINE n == Cardinality(vs)
           made == [i \in 1 .. n |-> Introduction(before, SetToSeq(vs)[i], c)]
           end == IF gone THEN <<Deletion(c)>> ELSE <<>>
<1>1. IsFiniteSet(vs)
    BY ContextAssumption, FS_Subset
<1>2. n \in Nat /\ ExistsBijection(1 .. n, vs) /\ (n = 0 <=> vs = {})
    BY <1>1, FS_CardinalityType, FS_EmptySet
<1>3. SetToSeq(vs) \in [1 .. n -> vs]
    <2>1. PICK f \in Bijection(1 .. n, vs) : TRUE
        BY <1>2 DEF ExistsBijection
    <2>2. f \in [1 .. n -> vs] /\ \A i, j \in 1 .. n : f[i] = f[j] => i = j
        BY <2>1 DEF Bijection, Injection, IsInjective
    <2>3. f \in [1 .. n -> vs] /\ IsInjective(f)
        BY <2>2 DEF IsInjective
    <2> QED BY <2>3 DEF SetToSeq
<1> HIDE DEF n
<1>4. \A i \in 1 .. n : /\ Introduction(before, SetToSeq(vs)[i], c) \in MadeChange
                        /\ Introduction(before, SetToSeq(vs)[i], c).commit = c
    <2> SUFFICES ASSUME NEW i \in 1 .. n, NEW v, v = SetToSeq(vs)[i]
                 PROVE  /\ Introduction(before, v, c) \in MadeChange
                        /\ Introduction(before, v, c).commit = c
        OBVIOUS
    <2>1. v \in Versions
        BY <1>3
    <2>2. CodeChars[v] \in Nat /\ DIFF_LINES \in Nat
        BY <2>1, ContextAssumption
    <2>3. 0 <= DIFF_LINES /\ DIFF_LINES <= DIFF_LINES /\ v # None
        BY <2>1, <2>2, ContextAssumption
    <2> QED BY <2>1, <2>2, <2>3 DEF Introduction, Change, HistoryChangeContext, MadeChange, Made
<1>5. /\ made \in Seq(MadeChange) /\ Len(made) = n
      /\ \A i \in 1 .. n : made[i].commit = c
    <2>1. made \in [1 .. n -> MadeChange] /\ \A i \in 1 .. n : made[i].commit = c
        BY <1>4
    <2> HIDE DEF made
    <2>2. made \in Seq(MadeChange) /\ Len(made) = n
        BY <1>2, <2>1
    <2> QED BY <2>1, <2>2
<1>6. Deletion(c) \in MadeChange /\ Deletion(c).commit = c
    <2>1. 0 <= DIFF_LINES
        BY ContextAssumption
    <2> QED BY <2>1 DEF Deletion, Change, HistoryChangeContext, MadeChange, Made
<1>7. /\ end \in Seq(MadeChange)
      /\ gone => Len(end) = 1 /\ end[1].commit = c
      /\ ~gone => end = <<>>
    BY <1>6
<1>8. after = (before \o made) \o end
    BY DEF n, ChangesAfter
<1>9. (n # 0 <=> made # <<>>) /\ (n # 0 => Last(made).commit = c)
    BY <1>2, <1>5, EmptySeq DEF Last
<1>10. (gone <=> end # <<>>) /\ (gone => Last(end).commit = c)
    BY <1>7, EmptySeq DEF Last
<1> HIDE DEF made, end
<1> DEFINE most == before \o made
<1>11. /\ most \in Seq(MadeChange)
       /\ n # 0 => most # <<>> /\ Last(most).commit = c
       /\ n = 0 => most = before
    BY <1>5, <1>9, LastOfConcat
<1> HIDE DEF most
<1>12. /\ most \o end \in Seq(MadeChange)
       /\ gone => most \o end # <<>> /\ Last(most \o end).commit = c
       /\ ~gone => most \o end = most
    BY <1>7, <1>10, <1>11, LastOfConcat
<1>13. after = most \o end
    BY <1>8 DEF most
<1> QED BY <1>2, <1>11, <1>12, <1>13

\* All commits are in order.
LEMMA CommitsOrdered == CommitOrder \in Seq(Commits) /\ ToSet(CommitOrder) = Commits
<1> DEFINE n == Cardinality(Commits)
<1>1. IsFiniteSet(Commits) /\ n \in Nat
    BY ContextAssumption, FS_CardinalityType
<1>2. CommitOrder \in [1 .. n -> Commits] /\ \A i, j \in 1 .. n : i # j => CommitOrder[i] # CommitOrder[j]
    BY ContextAssumption DEF SetToSeqs
<1>3. IsFiniteSet(1 .. n) /\ Cardinality(1 .. n) = n
    BY <1>1, FS_Interval
<1> HIDE DEF n
<1>4. CommitOrder \in Injection(1 .. n, Commits)
    BY <1>2 DEF Injection, IsInjective
<1>5. CommitOrder \in Surjection(1 .. n, Commits)
    BY <1>1, <1>3, <1>4, FS_Injection DEF n
<1>6. \A c \in Commits : \E i \in 1 .. n : CommitOrder[i] = c
    BY <1>5 DEF Surjection
<1>7. DOMAIN CommitOrder = 1 .. n
    BY <1>2
<1> QED BY <1>1, <1>2, <1>6, <1>7 DEF ToSet

\* What a commit introduced, and what commits deleted something, as History reads it.
IntroducedBy(commitOf, c) == {v \in DOMAIN commitOf : commitOf[v] = c}

DeletedFor(edges, commitOf) == IF DOMAIN commitOf = {} THEN {} ELSE DeletingCommits(edges)

ChangingCommits(edges, commitOf) ==
    {c \in Commits : IntroducedBy(commitOf, c) # {} \/ c \in DeletedFor(edges, commitOf)}

\* The history ends with a change of the last commit that changed anything.
LEMMA HistoryEnds ==
    ASSUME NEW edges, NEW commitOf, DOMAIN commitOf \subseteq Versions
    PROVE  /\ History(edges, commitOf) \in Seq(MadeChange)
           /\ ChangingCommits(edges, commitOf) # {} =>
                 /\ History(edges, commitOf) # <<>>
                 /\ Last(History(edges, commitOf)).commit = Last(OnlyIn(CommitOrder, ChangingCommits(edges, commitOf)))
<1> DEFINE n == Len(CommitOrder)
           changes(before, c) ==
               before \o [i \in 1 .. Cardinality(IntroducedBy(commitOf, c)) |->
                             Introduction(before, SetToSeq(IntroducedBy(commitOf, c))[i], c)]
                      \o (IF c \in DeletedFor(edges, commitOf) THEN <<Deletion(c)>> ELSE <<>>)
           T == ChangingCommits(edges, commitOf)
           V == Seq(MadeChange)
           W == Seq(Commits)
           Told(before, i) == changes(before, CommitOrder[i])
           EqT(f) == f = [s \in SUBSET (1 .. n) |->
                           IF s = {} THEN <<>> ELSE Told(f[s \ {Max(s)}], Max(s))]
           GT == [p \in V \X (1 .. n) |-> Told(p[1], p[2])]
           told == CHOOSE f : EqT(f)
           Kept(kept, i) == IF CommitOrder[i] \in T THEN Append(kept, CommitOrder[i]) ELSE kept
           EqK(f) == f = [s \in SUBSET (1 .. n) |->
                           IF s = {} THEN <<>> ELSE Kept(f[s \ {Max(s)}], Max(s))]
           GK == [p \in W \X (1 .. n) |-> Kept(p[1], p[2])]
           kept == CHOOSE f : EqK(f)
<1>1. n \in Nat /\ DOMAIN CommitOrder = 1 .. n /\ \A i \in 1 .. n : CommitOrder[i] \in Commits
    BY CommitsOrdered, LenProperties, ElementOfSeq
<1>2. History(edges, commitOf) = told[1 .. n]
    <2>1. History(edges, commitOf) = FoldLeft(changes, <<>>, CommitOrder)
        BY DEF History, IntroducedBy, DeletedFor
    <2> HIDE DEF n
    <2>2. FoldLeft(changes, <<>>, CommitOrder) = told[1 .. n]
        BY <1>1 DEF FoldLeft, MapThenFoldSet
    <2> QED BY <2>1, <2>2
<1>3. OnlyIn(CommitOrder, T) = kept[1 .. n]
    <2> HIDE DEF n, T
    <2> QED BY <1>1 DEF OnlyIn, FoldLeft, MapThenFoldSet
<1> HIDE DEF n
<1>4. ASSUME NEW before \in V, NEW i \in 1 .. n
      PROVE  /\ Told(before, i) \in V
             /\ CommitOrder[i] \in T => /\ Told(before, i) # <<>>
                                       /\ Last(Told(before, i)).commit = CommitOrder[i]
             /\ CommitOrder[i] \notin T => Told(before, i) = before
    <2> DEFINE c == CommitOrder[i]
               vs == IntroducedBy(commitOf, c)
               gone == c \in DeletedFor(edges, commitOf)
               after == Told(before, i)
    <2>1. c \in Commits /\ vs \in SUBSET Versions /\ gone \in BOOLEAN
        BY <1>1 DEF IntroducedBy
    <2>2. c \in T <=> vs # {} \/ gone
        BY <2>1 DEF ChangingCommits
    <2>3. after = ChangesAfter(before, vs, gone, c)
        BY DEF ChangesAfter
    <2> HIDE DEF c, vs, gone, after, T
    <2>4. /\ after \in V
          /\ vs # {} \/ gone => after # <<>> /\ Last(after).commit = c
          /\ vs = {} /\ ~gone => after = before
        BY <2>1, <2>3, ChangesOf
    <2>5. /\ after \in V
          /\ c \in T => after # <<>> /\ Last(after).commit = c
          /\ c \notin T => after = before
        BY <2>1, <2>2, <2>4
    <2> QED BY <2>5 DEF after, c
<1>5. <<>> \in V /\ <<>> \in W /\ \A k \in W, i \in 1 .. n : Kept(k, i) \in W
    BY <1>1
<1> HIDE DEF Told, Kept, T
<1>6. EqT(told)
    <2> HIDE DEF V
    <2>1. PICK f \in [SUBSET (1 .. n) -> V] : FoldOf(f, n, <<>>, GT)
        <3>1. GT \in [V \X (1 .. n) -> V]
            BY <1>4
        <3> HIDE DEF GT
        <3> QED BY <1>1, <1>5, <3>1, FoldExists
    <2>2. \A k \in V, i \in 1 .. n : GT[<<k, i>>] = Told(k, i)
        OBVIOUS
    <2> HIDE DEF GT
    <2>3. EqT(f)
        <3>1. \A s \in SUBSET (1 .. n) : s # {} => Max(s) \in 1 .. n /\ f[s \ {Max(s)}] \in V
            BY <1>1, LastIndex
        <3> QED BY <2>1, <2>2, <3>1 DEF FoldOf
    <2> HIDE DEF EqT
    <2> QED BY <2>3
<1>7. EqK(kept)
    <2> HIDE DEF W
    <2>1. PICK f \in [SUBSET (1 .. n) -> W] : FoldOf(f, n, <<>>, GK)
        <3>1. GK \in [W \X (1 .. n) -> W]
            BY <1>5
        <3> HIDE DEF GK
        <3> QED BY <1>1, <1>5, <3>1, FoldExists
    <2>2. \A k \in W, i \in 1 .. n : GK[<<k, i>>] = Kept(k, i)
        OBVIOUS
    <2> HIDE DEF GK
    <2>3. EqK(f)
        <3>1. \A s \in SUBSET (1 .. n) : s # {} => Max(s) \in 1 .. n /\ f[s \ {Max(s)}] \in W
            BY <1>1, LastIndex
        <3> QED BY <2>1, <2>2, <3>1 DEF FoldOf
    <2> HIDE DEF EqK
    <2> QED BY <2>3
<1> HIDE DEF told, kept
<1> DEFINE Alike(h, o) == /\ h \in V /\ o \in W
                          /\ o # <<>> => h # <<>> /\ Last(h).commit = Last(o)
           S == {s \in SUBSET (1 .. n) : Alike(told[s], kept[s])}
<1>8. {} \in S
    <2>1. {} \in SUBSET (1 .. n)
        OBVIOUS
    <2>2. told[{}] = <<>> /\ kept[{}] = <<>>
        BY <1>6, <1>7, <2>1
    <2> QED BY <1>5, <2>1, <2>2
<1>9. ASSUME NEW s \in SUBSET (1 .. n), s # {}, s \ {Max(s)} \in S PROVE s \in S
    <2> DEFINE h == told[s \ {Max(s)}]
               o == kept[s \ {Max(s)}]
               m == Max(s)
    <2>1. told[s] = Told(h, m) /\ kept[s] = Kept(o, m) /\ m \in 1 .. n
        BY <1>1, <1>6, <1>7, <1>9, LastIndex
    <2>2. Alike(h, o)
        BY <1>9
    <2> HIDE DEF h, o, m
    <2>3. CASE CommitOrder[m] \in T
        <3>1. Told(h, m) \in V /\ Told(h, m) # <<>> /\ Last(Told(h, m)).commit = CommitOrder[m]
            BY <1>4, <2>1, <2>2, <2>3
        <3>2. kept[s] = Append(o, CommitOrder[m]) /\ CommitOrder[m] \in Commits
            BY <1>1, <2>1, <2>3 DEF Kept
        <3>3. kept[s] \in W /\ kept[s] # <<>> /\ Last(kept[s]) = CommitOrder[m]
            <4>1. o \in W
                BY <2>2
            <4> QED BY <3>2, <4>1 DEF Last
        <3> QED BY <2>1, <3>1, <3>3
    <2>4. CASE CommitOrder[m] \notin T
        <3>1. told[s] = h /\ kept[s] = o
            BY <1>4, <2>1, <2>2, <2>4 DEF Kept
        <3> QED BY <2>2, <3>1
    <2> QED BY <2>3, <2>4
<1>10. Alike(told[1 .. n], kept[1 .. n])
    <2>1. (1 .. n) \in S
        <3> HIDE DEF S
        <3> QED BY <1>1, <1>8, <1>9, IndexInduction
    <2> QED BY <2>1
<1>11. T # {} => OnlyIn(CommitOrder, T) # <<>>
    <2>1. ToSet(OnlyIn(CommitOrder, T)) = Commits \cap T
        BY CommitsOrdered, OnlyInSet
    <2>2. T \subseteq Commits
        BY DEF T, ChangingCommits
    <2>3. ToSet(<<>>) = {}
        BY DEF ToSet
    <2> QED BY <2>1, <2>2, <2>3
<1> QED BY <1>2, <1>3, <1>10, <1>11 DEF T

-----------------------------------------------------------------------------
(* The store, and the graph of a question *)

\* What is embedded is stored, with the number of its import.
StoreInv ==
    /\ calls \in CallGraphs
    /\ stored \subseteq Versions
    /\ chunk \in [Versions -> 0 .. MaxImports]
    /\ Embedded \subseteq stored

LEMMA StoredVersions == stored \subseteq Versions
BY QuestionAssumption DEF stored

\* It is read from what is indexed, and grows with that.
LEMMA StoreStays == indexed' = indexed => stored' = stored
BY DEF stored

LEMMA StoreGrows == indexed \subseteq indexed' => stored \subseteq stored'
BY DEF stored

\* Whatever is analysed, one version after another.
LEMMA StoreHolds == Spec => []StoreInv
<1>1. Init => StoreInv
    <2> SUFFICES ASSUME Init PROVE StoreInv
        OBVIOUS
    <2>1. stored \subseteq Versions /\ calls \in CallGraphs /\ MaxImports \in Nat /\ MaxImports # 0
        BY StoredVersions, QuestionAssumption DEF Init
    <2>a. PICK a \in Analyses \cup {[commits |-> {}, checkout |-> {}]} :
              indexed = a.commits /\ chunk = [v \in Versions |-> IF v \in a.checkout THEN 1 ELSE 0]
        BY DEF Init
    <2>2. chunk = [v \in Versions |-> IF v \in a.checkout THEN 1 ELSE 0] /\ a.checkout \subseteq stored
        <3>1. ASSUME NEW v \in a.checkout PROVE v \in stored
            <4>1. PICK c \in indexed : <<v, c>> \in IntroducedIn
                <5>1. a \in Analyses
                    BY <3>1
                <5>2. \E c \in a.commits : <<v, c>> \in IntroducedIn
                    BY <3>1, <5>1, QuestionAssumption
                <5> QED BY <2>a, <5>2
            <4> DEFINE i == <<v, c>>
            <4>2. i \in {j \in IntroducedIn : j[2] \in indexed} /\ i[1] = v
                BY <4>1
            <4> HIDE DEF i
            <4> QED BY <4>2 DEF stored
        <3> QED BY <2>a, <3>1
    <2>3. 0 \in 0 .. MaxImports /\ 1 \in 0 .. MaxImports
        BY <2>1
    <2>4. chunk \in [Versions -> 0 .. MaxImports]
        BY <2>2, <2>3
    <2>5. Embedded \subseteq stored
        BY <2>2 DEF Embedded
    <2> QED BY <2>1, <2>4, <2>5 DEF StoreInv
<1>2. StoreInv /\ [Next]_vars => StoreInv'
    <2> SUFFICES ASSUME StoreInv, [Next]_vars PROVE StoreInv'
        OBVIOUS
    <2>1. ASSUME UNCHANGED store PROVE StoreInv'
        BY <2>1, StoreStays DEF store, StoreInv, Embedded
    <2>2. ASSUME NEW a \in Analyses, StoreHistory(a.commits) PROVE StoreInv'
        <3>1. stored \subseteq stored' /\ stored' \subseteq Versions
            BY <2>2, StoreGrows, QuestionAssumption DEF StoreHistory, stored
        <3> QED BY <2>2, <3>1 DEF StoreHistory, StoreInv, Embedded
    <2>3. ASSUME NEW vs, StoreChunks(vs) PROVE StoreInv'
        <3> DEFINE import == 1 + Cardinality({chunk[v] : v \in Embedded})
        <3>1. MaxImports \in Nat
            BY QuestionAssumption
        <3>2. import \in 1 .. MaxImports
            <4>1. {chunk[v] : v \in Embedded} \in SUBSET (0 .. MaxImports)
                BY DEF StoreInv, Embedded
            <4>2. IsFiniteSet(0 .. MaxImports)
                BY <3>1, FS_Interval
            <4> DEFINE imports == {chunk[v] : v \in Embedded}
            <4>3. imports \subseteq 0 .. MaxImports
                BY <4>1
            <4>4. import = 1 + Cardinality(imports)
                OBVIOUS
            <4> HIDE DEF imports
            <4>5. IsFiniteSet(imports)
                BY <4>2, <4>3, FS_Subset
            <4>6. Cardinality(imports) \in Nat
                BY <4>5, FS_CardinalityType
            <4>7. import =< MaxImports
                BY <2>3 DEF StoreChunks
            <4> HIDE DEF import
            <4> QED BY <3>1, <4>4, <4>6, <4>7
        <3>3. chunk' = [v \in Versions |-> IF v \in vs \ Embedded THEN import ELSE chunk[v]]
            BY <2>3 DEF StoreChunks
        <3> HIDE DEF import
        <3>4. import \in 0 .. MaxImports
            BY <3>1, <3>2
        <3>5. chunk' \in [Versions -> 0 .. MaxImports]
            BY <3>3, <3>4 DEF StoreInv
        <3>6. \A v \in Versions : chunk'[v] > 0 => v \in vs \/ chunk[v] > 0
            BY <3>3
        <3>7. Embedded' \subseteq stored
            BY <2>3, <3>6 DEF StoreChunks, Embedded, StoreInv
        <3>8. stored' = stored
            BY <2>3, StoreStays DEF StoreChunks
        <3> QED BY <2>3, <3>5, <3>7, <3>8 DEF StoreChunks, StoreInv
    <2>4. CASE UNCHANGED vars
        BY <2>1, <2>4 DEF vars, store
    <2>5. CASE PipelineStep \/ NodeFails \/ \E names \in Questions, ranking \in Rankings : AskAgain(names, ranking)
        BY <2>1, <2>5 DEF PipelineStep, ClassifyQuestion, ResolveEntities, SearchVectorEvidence,
            SelectTarget, SearchGraphEvidence, EnrichCodeEvidence, FuseEvidence, ValidateEvidence,
            ComposeAnswer, ProviderLimit, Answered, NodeFails, AskAgain
    <2> QED BY <2>2, <2>3, <2>4, <2>5 DEF Next
<1> QED BY <1>1, <1>2, PTL DEF Spec

\* All relationships there are.
AllEdges == CallEdges \cup HttpEdges \cup VersionEdges \cup HistoryEdges
              \cup ContainsEdges \cup ExposesEdges

\* A relationship leads from a node to a node.
LEMMA EdgesBetween ==
    ASSUME StoreInv, NEW e \in AllEdges
    PROVE  /\ \E t \in {"CALLS", "HTTP_CALLS", "HAS_VERSION", "INTRODUCED_IN", "DELETED_IN",
                        "CONTAINS", "EXPOSES"},
                a \in Methods \cup Versions \cup Classes,
                b \in Methods \cup Versions \cup Commits \cup Endpoints : e = <<t, a, b>>
           /\ e[1] = "INTRODUCED_IN" => e[2] \in Versions /\ e[3] \in Commits
           /\ e[1] = "DELETED_IN" => e[3] \in Commits
<1>1. /\ stored \subseteq Versions /\ calls.all \subseteq Versions \X Methods
      /\ calls.http \subseteq Versions \X Endpoints
    BY QuestionAssumption DEF StoreInv
<1>2. CASE e \in CallEdges
    <2>1. PICK c \in calls.all : e = <<"CALLS", c[1], c[2]>>
        BY <1>2 DEF CallEdges
    <2> QED BY <1>1, <2>1
<1>3. CASE e \in HttpEdges
    <2>1. PICK c \in calls.http : e = <<"HTTP_CALLS", c[1], c[2]>>
        BY <1>3 DEF HttpEdges
    <2> QED BY <1>1, <2>1
<1>4. CASE e \in VersionEdges
    BY <1>1, <1>4, ContextAssumption DEF VersionEdges
<1>5. CASE e \in HistoryEdges
    <2>1. CASE \E i \in IntroducedIn : e = <<"INTRODUCED_IN", i[1], i[2]>>
        BY <2>1, QuestionAssumption
    <2>2. CASE \E d \in DeletedIn : e = <<"DELETED_IN", d[1], d[2]>>
        BY <2>2, QuestionAssumption
    <2> QED BY <1>5, <2>1, <2>2 DEF HistoryEdges
<1>6. CASE e \in ContainsEdges
    <2>1. PICK v \in stored : e = <<"CONTAINS", ClassOf[MethodOf[v]], MethodOf[v]>>
        BY <1>6 DEF ContainsEdges
    <2>2. MethodOf[v] \in Methods /\ ClassOf[MethodOf[v]] \in Classes
        BY <1>1, ContextAssumption, QuestionAssumption
    <2> QED BY <2>1, <2>2
<1>7. CASE e \in ExposesEdges
    <2>1. PICK x \in Exposed : e = <<"EXPOSES", x[1], x[2]>>
        BY <1>7 DEF ExposesEdges
    <2> QED BY <2>1, QuestionAssumption
<1> QED BY <1>2, <1>3, <1>4, <1>5, <1>6, <1>7 DEF AllEdges

\* There are finitely many.
LEMMA EdgesFinite == ASSUME StoreInv PROVE IsFiniteSet(AllEdges)
<1> DEFINE A == {"CALLS", "HTTP_CALLS", "HAS_VERSION", "INTRODUCED_IN", "DELETED_IN",
                 "CONTAINS", "EXPOSES"}
           B == Methods \cup Versions \cup Classes
           C == Methods \cup Versions \cup Commits \cup Endpoints
           P == (A \X B) \X C
           f == [p \in P |-> <<p[1][1], p[1][2], p[2]>>]
           I == {f[p] : p \in P}
<1>1. IsFiniteSet(B) /\ IsFiniteSet(C)
    BY ContextAssumption, QuestionAssumption, FS_Union
<1>2. IsFiniteSet(A)
    <2>1. A = {} \cup {"CALLS"} \cup {"HTTP_CALLS"} \cup {"HAS_VERSION"} \cup {"INTRODUCED_IN"}
                \cup {"DELETED_IN"} \cup {"CONTAINS"} \cup {"EXPOSES"}
        OBVIOUS
    <2> HIDE DEF A
    <2> QED BY <2>1, FS_EmptySet, FS_AddElement
<1>3. \A e \in AllEdges : \E t \in A, a \in B, b \in C : e = <<t, a, b>>
    BY EdgesBetween
<1> HIDE DEF A, B, C
<1>4. IsFiniteSet(P)
    BY <1>1, <1>2, FS_Product
<1>5. f \in Surjection(P, I)
    BY DEF Surjection
<1>6. IsFiniteSet(I)
    <2> HIDE DEF P, f, I
    <2> QED BY <1>4, <1>5, FS_Surjection
<1>7. ASSUME NEW e \in AllEdges PROVE e \in I
    <2>1. PICK t \in A, a \in B, b \in C : e = <<t, a, b>>
        BY <1>3
    <2>2. <<<<t, a>>, b>> \in P /\ f[<<<<t, a>>, b>>] = e
        BY <2>1
    <2> QED BY <2>2
<1> HIDE DEF I
<1> QED BY <1>6, <1>7, FS_Subset

\* The traversals follow relationships that are there.
LEMMA TraversalFollows ==
    ASSUME NEW kind \in QuestionKind, NEW v PROVE Traversal(kind, v) \subseteq AllEdges
<1>1. CallsBackward(MethodOf[v]) \subseteq AllEdges
    BY DEF CallsBackward, AllEdges
<1>2. ChangedByHistory(MethodOf[v]) \subseteq AllEdges
    BY DEF ChangedByHistory, AllEdges
<1>3. ShallowNeighborhood(MethodOf[v]) \subseteq AllEdges
    BY DEF ShallowNeighborhood, AllEdges
<1>4. \A m : Downstream(m) \subseteq AllEdges
    BY DEF Downstream, AllEdges
<1>5. CallsForward(v) \subseteq AllEdges
    BY <1>4 DEF CallsForward, AllEdges
<1> QED BY <1>1, <1>2, <1>3, <1>5 DEF Traversal, QuestionKind

\* The graph of an intent question that shows a version shows what introduced it:
\* its method is no accessor.
LEMMA IntentGraph ==
    ASSUME StoreInv, NEW v \in Versions,
           NEW paths, paths = ChangedByHistory(MethodOf[v]),
           NEW nodes, nodes = NodesOf(paths, MethodOf[v]), nodes \cap Versions # {}
    PROVE  \E e \in EdgesOf(paths, nodes) : e[1] = "INTRODUCED_IN"
<1> DEFINE m == MethodOf[v]
<1>1. m \in Methods /\ stored \subseteq Versions
    BY ContextAssumption DEF StoreInv
<1>2. /\ Methods \cap Versions = {} /\ (Methods \cup Versions) \cap Commits = {}
      /\ Accessors \subseteq Methods /\ IntroducedIn \subseteq Versions \X Commits
    BY QuestionAssumption
<1>3. \A e \in paths : \/ \E w \in stored : MethodOf[w] = m /\ e = <<"HAS_VERSION", m, w>>
                       \/ \E w \in stored, c \in Commits : /\ MethodOf[w] = m
                                                          /\ e = <<"INTRODUCED_IN", w, c>>
                       \/ \E c \in Commits : e = <<"DELETED_IN", m, c>>
    <2> SUFFICES ASSUME NEW e \in paths
                 PROVE  \/ \E w \in stored : MethodOf[w] = m /\ e = <<"HAS_VERSION", m, w>>
                        \/ \E w \in stored, c \in Commits : /\ MethodOf[w] = m
                                                           /\ e = <<"INTRODUCED_IN", w, c>>
                        \/ \E c \in Commits : e = <<"DELETED_IN", m, c>>
        OBVIOUS
    <2>1. /\ e \in VersionEdges \cup HistoryEdges
          /\ e[2] = m \/ (e[1] = "INTRODUCED_IN" /\ e[2] \in stored /\ MethodOf[e[2]] = m)
        BY DEF ChangedByHistory
    <2>2. CASE e \in VersionEdges
        BY <2>1, <2>2 DEF VersionEdges
    <2>3. CASE \E i \in IntroducedIn : e = <<"INTRODUCED_IN", i[1], i[2]>>
        BY <1>1, <1>2, <2>1, <2>3
    <2>4. CASE \E d \in DeletedIn : e = <<"DELETED_IN", d[1], d[2]>>
        BY <2>1, <2>4, QuestionAssumption
    <2> QED BY <2>1, <2>2, <2>3, <2>4 DEF HistoryEdges
<1>4. PICK w \in nodes \cap Versions : TRUE
    OBVIOUS
<1>5. w \in stored /\ MethodOf[w] = m
    <2>1. PICK e \in paths : w \in {e[2], e[3]}
        BY <1>4 DEF NodesOf
    <2> QED BY <1>1, <1>2, <1>3, <1>4, <2>1
<1>6. PICK c \in indexed : <<w, c>> \in IntroducedIn
    <2>1. PICK i \in IntroducedIn : i[2] \in indexed /\ w = i[1]
        BY <1>5 DEF stored
    <2>2. i = <<w, i[2]>>
        BY <1>2, <2>1
    <2> QED BY <2>1, <2>2
<1> DEFINE e == <<"INTRODUCED_IN", w, c>>
<1>7. <<"HAS_VERSION", m, w>> \in paths /\ e \in paths
    <2>1. e \in HistoryEdges
        BY <1>6 DEF HistoryEdges
    <2>2. <<"HAS_VERSION", m, w>> \in VersionEdges
        BY <1>5 DEF VersionEdges
    <2> QED BY <1>5, <2>1, <2>2 DEF ChangedByHistory
<1>8. m \notin Accessors
    BY <1>1, <1>2, <1>4, <1>7 DEF NodesOf
<1>9. e[2] \in nodes /\ e[3] \in nodes
    <2>1. c \in Commits
        BY <1>2, <1>6
    <2>2. c \notin Accessors /\ ~\E f \in paths : f[1] = "HAS_VERSION" /\ f[3] = c /\ f[2] \in Accessors
        BY <1>1, <1>2, <1>3, <2>1
    <2> QED BY <1>4, <1>7, <2>2 DEF NodesOf
<1>10. ~IsAmbiguousCall(e)
    BY DEF IsAmbiguousCall, CallRelations
<1> QED BY <1>7, <1>9, <1>10 DEF EdgesOf

-----------------------------------------------------------------------------
(* The latest change is told *)

\* The commits a history tells of that keeps one commit of every version, and the
\* last of them.
ToldBy(edges, commitOf) == {commitOf[v] : v \in DOMAIN commitOf} \cup DeletingCommits(edges)

LastTold(edges, commitOf) == Last(OnlyIn(CommitOrder, ToldBy(edges, commitOf)))

\* What a context has to tell of, in the state s of a question, by the commits that
\* may be kept; None if there is nothing.
Latests(s) ==
    IF s.kind = "intent"
    THEN IF s.nodes \cap Versions = {} THEN {None}
         ELSE {LastTold(s.edges, commitOf) : commitOf \in CommitByVersion(s.edges)}
    ELSE IF s.hits = <<>> THEN {None} ELSE {s.hits[1]}

\* An intent question that is shown a version is shown what introduced it.
Introduced(s) ==
    s.kind = "intent" /\ s.nodes \cap Versions # {} => \E e \in s.edges : e[1] = "INTRODUCED_IN"

\* The graph the nodes hand on, and the context made from it.
GraphHandedOn(s) ==
    /\ IsFiniteSet(s.edges)
    /\ \A e \in s.edges : /\ e[1] = "INTRODUCED_IN" => e[2] \in Versions /\ e[3] \in Commits
                          /\ e[1] = "DELETED_IN" => e[3] \in Commits
    /\ s.pc = "analyze" => s.nodes = {}
    /\ Introduced(s)
    /\ s.context = None \/ s.context \in AnswerGenerationContext
    /\ s.pc \in {"ask", "ask_again"} => \E latest \in Latests(s) : s.context \in Telling(s.kind, latest)
    /\ s.pc = "ask" => MadeHistory(s.context)

GraphInv == EvidenceInv /\ StoreInv /\ GraphHandedOn(qa)

\* A question starts without a graph.
LEMMA AskedHandsOnGraph ==
    ASSUME NEW names, NEW ranking PROVE GraphHandedOn(Asked(names, ranking))
<1>1. IsFiniteSet({})
    BY FS_EmptySet
<1> QED BY <1>1 DEF GraphHandedOn, Asked, Introduced

\* A node that leaves the graph and the context alone.
LEMMA GraphStays ==
    ASSUME NEW s, GraphHandedOn(s), NEW t,
           t.kind = s.kind, t.nodes = s.nodes, t.edges = s.edges, t.context = s.context,
           t.pc = "analyze" => s.pc = "analyze",
           t.pc \notin {"ask", "ask_again"}
    PROVE  GraphHandedOn(t)
BY DEF GraphHandedOn, Introduced

\* The commits told are the ones the history has changes of, and there are some.
LEMMA ToldChanges ==
    ASSUME NEW s, GraphHandedOn(s), s.kind = "intent", s.nodes \cap Versions # {},
           NEW commitOf \in CommitByVersion(s.edges)
    PROVE  /\ ToldBy(s.edges, commitOf) = ChangingCommits(s.edges, commitOf)
           /\ ToldBy(s.edges, commitOf) # {} /\ ToldBy(s.edges, commitOf) \subseteq Commits
<1> DEFINE introductions == {e \in s.edges : e[1] = "INTRODUCED_IN"}
<1>1. commitOf \in [{e[2] : e \in introductions} -> Commits] /\ introductions # {}
    BY DEF CommitByVersion, GraphHandedOn, Introduced
<1>2. DOMAIN commitOf # {} /\ \A v \in DOMAIN commitOf : commitOf[v] \in Commits
    BY <1>1
<1>3. DeletedFor(s.edges, commitOf) = DeletingCommits(s.edges)
    BY <1>2 DEF DeletedFor
<1>4. DeletingCommits(s.edges) \subseteq Commits
    BY DEF GraphHandedOn, DeletingCommits
<1>5. ToldBy(s.edges, commitOf) # {} /\ ToldBy(s.edges, commitOf) \subseteq Commits
    BY <1>2, <1>4 DEF ToldBy
<1>6. \A c : IntroducedBy(commitOf, c) # {} <=> c \in {commitOf[v] : v \in DOMAIN commitOf}
    BY DEF IntroducedBy
<1> QED BY <1>3, <1>5, <1>6 DEF ChangingCommits, ToldBy

\* The first context tells of what it has to.
LEMMA ComposeTells ==
    ASSUME NEW s, CodeHandedOn(s), GraphHandedOn(s), NEW commitOf \in CommitByVersion(s.edges),
           NEW c, c = Context(s.kind, s.hits, s.edges, s.evidence, commitOf)
    PROVE  /\ \E latest \in Latests(s) : c \in Telling(s.kind, latest)
           /\ MadeHistory(c)
<1> DEFINE history == History(s.edges, commitOf)
<1>1. /\ s.kind \in QuestionKind /\ s.hits \in Seq(Versions)
      /\ s.evidence \in Seq(Versions \cup Commits)
    BY DEF CodeHandedOn
<1>2. Cardinality({e \in s.edges : e[1] \in RelationsFor(s.kind)}) \in Nat
    <2> DEFINE kept == {e \in s.edges : e[1] \in RelationsFor(s.kind)}
    <2>1. kept \subseteq s.edges /\ IsFiniteSet(s.edges)
        BY DEF GraphHandedOn
    <2> HIDE DEF kept
    <2>2. IsFiniteSet(kept)
        BY <2>1, FS_Subset
    <2> QED BY <2>2, FS_CardinalityType DEF kept
<1>3. /\ CompactCode(s.hits) \in Seq([version : Versions, chars : Nat])
      /\ s.hits # <<>> => CompactCode(s.hits) # <<>> /\ CompactCode(s.hits)[1].version = s.hits[1]
    BY <1>1, CompactCodeFirst
<1>4. /\ history \in Seq(HistoryChangeContext) /\ history \in Seq(MadeChange)
      /\ s.kind = "intent" /\ s.nodes \cap Versions # {} =>
            history # <<>> /\ Last(history).commit = LastTold(s.edges, commitOf)
    <2>1. DOMAIN commitOf \subseteq Versions
        BY DEF GraphHandedOn, CommitByVersion
    <2>2. s.kind = "intent" /\ s.nodes \cap Versions # {} =>
              /\ ToldBy(s.edges, commitOf) = ChangingCommits(s.edges, commitOf)
              /\ ToldBy(s.edges, commitOf) # {}
        BY ToldChanges
    <2>3. /\ history \in Seq(MadeChange)
          /\ ChangingCommits(s.edges, commitOf) # {} =>
                /\ history # <<>>
                /\ Last(history).commit =
                       Last(OnlyIn(CommitOrder, ChangingCommits(s.edges, commitOf)))
        BY <2>1, HistoryEnds
    <2>4. Seq(MadeChange) \subseteq Seq(HistoryChangeContext)
        BY DEF MadeChange
    <2> HIDE DEF history
    <2> QED BY <2>2, <2>3, <2>4 DEF LastTold
<1>5. <<>> \in Seq(HistoryChangeContext)
    OBVIOUS
<1>6. /\ c.code = CompactCode(s.hits) /\ c.evidence = s.evidence
      /\ c.relations = Cardinality({e \in s.edges : e[1] \in RelationsFor(s.kind)})
      /\ c.history = IF s.kind = "intent" THEN history ELSE <<>>
      /\ c = [code |-> c.code, relations |-> c.relations, history |-> c.history,
              evidence |-> c.evidence]
    BY DEF Context
<1> HIDE DEF history
<1>7. c.history \in Seq(HistoryChangeContext)
    BY <1>4, <1>5, <1>6
<1>8. c \in AnswerGenerationContext
    BY <1>1, <1>2, <1>3, <1>6, <1>7 DEF AnswerGenerationContext
<1>9. ASSUME s.kind = "intent" PROVE \E latest \in Latests(s) : c \in Telling(s.kind, latest)
    <2>1. CASE s.nodes \cap Versions = {}
        <3>1. None \in Latests(s)
            BY <1>9, <2>1 DEF Latests
        <3>2. c \in Telling(s.kind, None)
            BY <1>8 DEF Telling
        <3> QED BY <3>1, <3>2
    <2>2. CASE s.nodes \cap Versions # {}
        <3>1. LastTold(s.edges, commitOf) \in Latests(s)
            BY <1>9, <2>2 DEF Latests
        <3>2. c \in Telling(s.kind, LastTold(s.edges, commitOf))
            BY <1>4, <1>6, <1>8, <1>9, <2>2 DEF Telling
        <3> QED BY <3>1, <3>2
    <2> QED BY <2>1, <2>2
<1>10. ASSUME s.kind # "intent" PROVE \E latest \in Latests(s) : c \in Telling(s.kind, latest)
    <2> DEFINE latest == IF s.hits = <<>> THEN None ELSE s.hits[1]
    <2>1. latest \in Latests(s)
        BY <1>10 DEF Latests
    <2>2. latest # None => c.code # <<>> /\ c.code[1].version = latest
        BY <1>3, <1>6
    <2> HIDE DEF latest
    <2>3. c \in Telling(s.kind, latest)
        BY <1>8, <1>10, <2>2 DEF Telling
    <2> QED BY <2>1, <2>3
<1>11. MadeHistory(c)
    <2>1. c.history \in Seq(MadeChange)
        BY <1>4, <1>6
    <2>2. \A i \in 1 .. Len(c.history) : c.history[i] \in MadeChange
        BY <2>1, ElementOfSeq
    <2> QED BY <2>2 DEF MadeHistory, MadeChange
<1> QED BY <1>9, <1>10, <1>11

\* A graph that is followed from the target holds together.
LEMMA GraphFound ==
    ASSUME GraphInv, NEW v \in Versions, NEW kind \in QuestionKind,
           NEW paths, paths = Traversal(kind, v),
           NEW nodes, nodes = NodesOf(paths, StartNode(kind, v)),
           NEW edges, edges = EdgesOf(paths, nodes)
    PROVE  /\ IsFiniteSet(edges)
           /\ \A e \in edges : /\ e[1] = "INTRODUCED_IN" => e[2] \in Versions /\ e[3] \in Commits
                               /\ e[1] = "DELETED_IN" => e[3] \in Commits
           /\ kind = "intent" /\ nodes \cap Versions # {} => \E e \in edges : e[1] = "INTRODUCED_IN"
<1>1. StoreInv
    BY DEF GraphInv
<1>2. edges \subseteq AllEdges
    <2>1. paths \subseteq AllEdges
        BY TraversalFollows
    <2> QED BY <2>1 DEF EdgesOf
<1>3. IsFiniteSet(edges)
    BY <1>1, <1>2, EdgesFinite, FS_Subset
<1>4. \A e \in edges : /\ e[1] = "INTRODUCED_IN" => e[2] \in Versions /\ e[3] \in Commits
                       /\ e[1] = "DELETED_IN" => e[3] \in Commits
    BY <1>1, <1>2, EdgesBetween
<1>5. ASSUME kind = "intent", nodes \cap Versions # {}
      PROVE  \E e \in edges : e[1] = "INTRODUCED_IN"
    <2>1. paths = ChangedByHistory(MethodOf[v]) /\ nodes = NodesOf(paths, MethodOf[v])
        BY <1>5 DEF Traversal, StartNode
    <2> QED BY <1>1, <1>5, <2>1, IntentGraph
<1> QED BY <1>3, <1>4, <1>5

\* Every step keeps the graph and the context together.
LEMMA StepHandsOnGraph == GraphInv /\ [Next]_vars => GraphHandedOn(qa')
<1> SUFFICES ASSUME GraphInv, [Next]_vars PROVE GraphHandedOn(qa')
    OBVIOUS
<1>a. DOMAIN qa = Fields /\ GraphHandedOn(qa) /\ CodeHandedOn(qa)
    BY DEF GraphInv, EvidenceInv, QuestionInv, HandedOn
<1>1. CASE qa' = qa
    BY <1>a, <1>1
<1>2. ASSUME NEW kind \in QuestionKind, ClassifyQuestion(kind) PROVE GraphHandedOn(qa')
    <2>1. /\ qa' = [[qa EXCEPT !.kind = kind] EXCEPT !.pc = "resolve"]
          /\ qa.pc = "analyze" /\ qa.nodes = {}
        BY <1>a, <1>2 DEF ClassifyQuestion, Goto, GraphHandedOn
    <2> QED BY <1>a, <2>1 DEF GraphHandedOn, Introduced, Fields
<1>3. CASE ResolveEntities
    BY <1>a, <1>3, GraphStays DEF ResolveEntities, Goto, Fields
<1>4. CASE SearchVectorEvidence
    BY <1>a, <1>4, GraphStays DEF SearchVectorEvidence, Goto, Fields
<1>5. ASSUME NEW v \in Versions \cup {None}, SelectTarget(v) PROVE GraphHandedOn(qa')
    BY <1>a, <1>5, GraphStays DEF SelectTarget, Goto, Fields
<1>6. CASE SearchGraphEvidence
    <2> DEFINE paths == IF qa.target = None THEN {} ELSE Traversal(qa.kind, qa.target)
               nodes == IF qa.target = None THEN {}
                        ELSE NodesOf(paths, StartNode(qa.kind, qa.target))
               edges == EdgesOf(paths, nodes)
    <2>1. qa' = [[qa EXCEPT !.nodes = nodes, !.edges = edges] EXCEPT !.pc = "enrich"]
        BY <1>6 DEF SearchGraphEvidence, Goto
    <2>2. /\ IsFiniteSet(edges)
          /\ \A e \in edges : /\ e[1] = "INTRODUCED_IN" => e[2] \in Versions /\ e[3] \in Commits
                              /\ e[1] = "DELETED_IN" => e[3] \in Commits
          /\ qa.kind = "intent" /\ nodes \cap Versions # {} => \E e \in edges : e[1] = "INTRODUCED_IN"
        <3>1. CASE qa.target = None
            <4>1. edges = {} /\ nodes = {}
                BY <3>1 DEF EdgesOf
            <4> HIDE DEF edges, nodes
            <4> QED BY <4>1, FS_EmptySet
        <3>2. CASE qa.target # None
            <4>1. qa.target \in Versions /\ qa.kind \in QuestionKind
                BY <1>a, <3>2 DEF CodeHandedOn
            <4>2. /\ paths = Traversal(qa.kind, qa.target)
                  /\ nodes = NodesOf(paths, StartNode(qa.kind, qa.target))
                BY <3>2
            <4> HIDE DEF paths, nodes
            <4> QED BY <4>1, <4>2, GraphFound
        <3> QED BY <3>1, <3>2
    <2> HIDE DEF paths, nodes, edges
    <2>3. /\ qa'.pc = "enrich" /\ qa'.nodes = nodes /\ qa'.edges = edges
          /\ qa'.kind = qa.kind /\ qa'.context = qa.context
        BY <1>a, <2>1 DEF Fields
    <2> QED BY <1>a, <2>2, <2>3 DEF GraphHandedOn, Introduced
<1>7. CASE EnrichCodeEvidence
    BY <1>a, <1>7, GraphStays DEF EnrichCodeEvidence, Goto, Fields
<1>8. CASE FuseEvidence
    <2>1. PICK history \in HistoryOrders :
              qa' = [[qa EXCEPT !.evidence = Fused(history)] EXCEPT !.pc = "validate"]
        BY <1>8 DEF FuseEvidence, Goto
    <2> QED BY <1>a, <2>1, GraphStays DEF Fields
<1>9. CASE ValidateEvidence
    <2>1. /\ qa' = [Validated EXCEPT !.pc = RouteAfterValidation(Validated)]
          /\ qa.pc = "validate" /\ RouteAfterValidation(Validated) \in {"compose", "search"}
        BY <1>9 DEF ValidateEvidence, Goto, RouteAfterValidation
    <2>2. /\ DOMAIN Validated = Fields
          /\ \A f \in Fields \ {"retries", "sufficient", "reason"} : Validated[f] = qa[f]
        BY <1>a DEF Validated, Fields
    <2> HIDE DEF Validated, RouteAfterValidation
    <2> QED BY <1>a, <2>1, <2>2, GraphStays DEF Fields
<1>10. CASE ComposeAnswer
    <2>1. PICK commitOf \in CommitByVersion(qa.edges) :
              qa' = [[qa EXCEPT !.context = Context(qa.kind, qa.hits, qa.edges, qa.evidence, commitOf)]
                        EXCEPT !.pc = "ask"]
        BY <1>10 DEF ComposeAnswer, Goto
    <2> DEFINE context == Context(qa.kind, qa.hits, qa.edges, qa.evidence, commitOf)
    <2>2. (\E latest \in Latests(qa) : context \in Telling(qa.kind, latest)) /\ MadeHistory(context)
        BY <1>a, ComposeTells
    <2> HIDE DEF context
    <2>3. /\ qa'.pc = "ask" /\ qa'.nodes = qa.nodes /\ qa'.edges = qa.edges
          /\ qa'.kind = qa.kind /\ qa'.context = context /\ qa'.hits = qa.hits
        BY <1>a, <2>1 DEF Fields, context
    <2>4. Latests(qa') = Latests(qa)
        BY <2>3 DEF Latests
    <2>5. context \in AnswerGenerationContext
        BY <2>2 DEF Telling
    <2>6. \E latest \in Latests(qa') : qa'.context \in Telling(qa'.kind, latest)
        BY <2>2, <2>3, <2>4
    <2>7. MadeHistory(qa'.context)
        BY <2>2, <2>3
    <2> QED BY <1>a, <2>3, <2>5, <2>6, <2>7 DEF GraphHandedOn, Introduced
<1>11. CASE ProviderLimit
    <2> DEFINE smaller == Fallback(qa.kind, qa.context)
    <2>1. \/ qa' = [[qa EXCEPT !.context = smaller] EXCEPT !.pc = "ask_again"]
          \/ qa' = [qa EXCEPT !.pc = "failed"]
        BY <1>11 DEF ProviderLimit, Goto
    <2>2. qa.pc = "ask"
        BY <1>11 DEF ProviderLimit
    <2>a. PICK latest \in Latests(qa) : qa.context \in Telling(qa.kind, latest)
        BY <1>a, <2>2 DEF GraphHandedOn
    <2>3. smaller \in Telling(qa.kind, latest)
        BY <1>a, <2>2, <2>a, FallbackTells DEF GraphHandedOn
    <2> HIDE DEF smaller
    <2>4. CASE qa' = [qa EXCEPT !.pc = "failed"]
        BY <1>a, <2>4, GraphStays DEF Fields
    <2>5. CASE qa' = [[qa EXCEPT !.context = smaller] EXCEPT !.pc = "ask_again"]
        <3>1. /\ qa'.pc = "ask_again" /\ qa'.nodes = qa.nodes /\ qa'.edges = qa.edges
              /\ qa'.kind = qa.kind /\ qa'.context = smaller /\ qa'.hits = qa.hits
            BY <1>a, <2>5 DEF Fields
        <3>2. Latests(qa') = Latests(qa)
            BY <3>1 DEF Latests
        <3>3. smaller \in AnswerGenerationContext
            BY <2>3 DEF Telling
        <3>4. \E l \in Latests(qa') : qa'.context \in Telling(qa'.kind, l)
            BY <2>3, <3>1, <3>2
        <3> QED BY <1>a, <3>1, <3>3, <3>4 DEF GraphHandedOn, Introduced
    <2> QED BY <2>1, <2>4, <2>5
<1>12. CASE Answered
    <2>1. PICK shown : qa' = [[qa EXCEPT !.shown = shown] EXCEPT !.pc = "answered"]
        BY <1>12 DEF Answered, Goto
    <2> QED BY <1>a, <2>1, GraphStays DEF Fields
<1>13. CASE NodeFails
    BY <1>a, <1>13, GraphStays DEF NodeFails, Goto, Fields
<1>14. ASSUME NEW names, NEW ranking, AskAgain(names, ranking) PROVE GraphHandedOn(qa')
    BY <1>14, AskedHandsOnGraph DEF AskAgain
<1>15. CASE \E a \in Analyses : StoreHistory(a.commits) \/ StoreChunks(a.checkout)
    BY <1>15, <1>1 DEF StoreHistory, StoreChunks
<1> QED
    BY <1>1, <1>2, <1>3, <1>4, <1>5, <1>6, <1>7, <1>8, <1>9, <1>10, <1>11, <1>12, <1>13, <1>14,
       <1>15 DEF Next, PipelineStep, vars

\* Between any two nodes, whatever is analysed meanwhile.
LEMMA GraphHolds == Spec => []GraphInv
<1>1. Init => GraphHandedOn(qa)
    BY AskedHandsOnGraph DEF Init
<1>2. GraphInv /\ [Next]_vars => GraphHandedOn(qa)'
    BY StepHandsOnGraph
<1> QED BY <1>1, <1>2, EvidenceHolds, StoreHolds, PTL DEF Spec, GraphInv

\* However small the context the provider leaves, the language model is told the latest
\* change of the method an intent question is about, and the best hit of another one.
THEOREM LatestTold == Spec => []LatestChangeTold
<1>1. ASSUME GraphInv PROVE LatestChangeTold
    <2> SUFFICES ASSUME qa.pc \in {"ask", "ask_again"}
                 PROVE  /\ qa.kind = "intent" /\ qa.nodes \cap Versions # {} =>
                              \E commitOf \in CommitByVersion(qa.edges) :
                                 /\ qa.context.history # <<>>
                                 /\ Last(qa.context.history).commit = LastTold(qa.edges, commitOf)
                        /\ qa.kind # "intent" /\ qa.hits # <<>> =>
                              qa.context.code # <<>> /\ qa.context.code[1].version = qa.hits[1]
        BY DEF LatestChangeTold, LastTold, ToldBy
    <2>1. GraphHandedOn(qa) /\ qa.hits \in Seq(Versions)
        BY <1>1 DEF GraphInv, EvidenceInv, CodeHandedOn
    <2>2. PICK latest \in Latests(qa) : qa.context \in Telling(qa.kind, latest)
        BY <2>1 DEF GraphHandedOn
    <2>3. ASSUME qa.kind = "intent", qa.nodes \cap Versions # {}
          PROVE  \E commitOf \in CommitByVersion(qa.edges) :
                    /\ qa.context.history # <<>>
                    /\ Last(qa.context.history).commit = LastTold(qa.edges, commitOf)
        <3>1. PICK commitOf \in CommitByVersion(qa.edges) : latest = LastTold(qa.edges, commitOf)
            BY <2>3 DEF Latests
        <3> DEFINE changes == ToldBy(qa.edges, commitOf)
                   told == OnlyIn(CommitOrder, changes)
        <3>2. changes # {} /\ changes \subseteq Commits
            BY <2>1, <2>3, ToldChanges
        <3> HIDE DEF changes
        <3>3. told \in Seq(Commits) /\ ToSet(told) = ToSet(CommitOrder) \cap changes
            BY CommitsOrdered, OnlyInSet
        <3>4. ToSet(told) = changes
            BY <3>2, <3>3, CommitsOrdered
        <3> HIDE DEF told
        <3>5. told # <<>>
            <4>1. ToSet(<<>>) = {}
                BY DEF ToSet
            <4> QED BY <3>2, <3>4, <4>1
        <3>6. Last(told) \in Commits
            <4>1. Len(told) \in 1 .. Len(told)
                BY <3>3, <3>5, LenProperties, EmptySeq
            <4>2. told[Len(told)] \in Commits
                BY <3>3, <4>1, ElementOfSeq
            <4> QED BY <4>2 DEF Last
        <3>7. latest # None
            BY <3>1, <3>6, ContextAssumption DEF told, changes, LastTold
        <3> QED BY <2>2, <2>3, <3>1, <3>7 DEF Telling
    <2>4. ASSUME qa.kind # "intent", qa.hits # <<>>
          PROVE  qa.context.code # <<>> /\ qa.context.code[1].version = qa.hits[1]
        <3>1. latest = qa.hits[1]
            BY <2>4 DEF Latests
        <3>2. qa.hits[1] \in Versions
            <4>1. 1 \in 1 .. Len(qa.hits)
                BY <2>1, <2>4, LenProperties, EmptySeq
            <4> QED BY <2>1, <4>1, ElementOfSeq
        <3>3. latest # None
            BY <3>1, <3>2, ContextAssumption
        <3> QED BY <2>2, <2>4, <3>1, <3>3 DEF Telling
    <2> QED BY <2>3, <2>4
<1> QED BY <1>1, GraphHolds, PTL

\* What FallbackFits says of a step.
FallbackStep ==
    qa.pc = "ask" => \E full \in {qa.context} : \E smaller \in {Fallback(qa.kind, full)} :
        /\ qa'.pc = "ask_again" =>
              \/ Size(qa'.context) =< FallbackBudget(Size(full))
              \/ Irreducible(qa.kind, qa'.context)
        /\ Size(full) > MIN_FALLBACK_CONTEXT_CHARS /\ ~Irreducible(qa.kind, full) =>
              Size(smaller) < Size(full)

\* Only the refusal of the provider has the question asked again, with the smaller context.
LEMMA AskedAgain ==
    ASSUME GraphInv, [Next]_vars, qa.pc = "ask", qa'.pc = "ask_again"
    PROVE  qa'.context = Fallback(qa.kind, qa.context)
<1>a. DOMAIN qa = Fields
    BY DEF GraphInv, EvidenceInv, QuestionInv, HandedOn
<1>1. CASE qa' = qa
    BY <1>1
<1>2. CASE ProviderLimit
    <2> DEFINE smaller == Fallback(qa.kind, qa.context)
    <2>1. \/ qa' = [[qa EXCEPT !.context = smaller] EXCEPT !.pc = "ask_again"]
          \/ qa' = [qa EXCEPT !.pc = "failed"]
        BY <1>2 DEF ProviderLimit, Goto
    <2> HIDE DEF smaller
    <2>2. qa' = [[qa EXCEPT !.context = smaller] EXCEPT !.pc = "ask_again"]
        BY <1>a, <2>1 DEF Fields
    <2>3. qa'.context = smaller
        BY <1>a, <2>2 DEF Fields
    <2> QED BY <2>3 DEF smaller
<1>3. CASE Answered
    <2>1. PICK shown : qa' = [[qa EXCEPT !.shown = shown] EXCEPT !.pc = "answered"]
        BY <1>3 DEF Answered, Goto
    <2> QED BY <1>a, <2>1 DEF Fields
<1>4. CASE NodeFails
    BY <1>a, <1>4 DEF NodeFails, Goto, Fields
<1>5. ASSUME NEW names, NEW ranking, AskAgain(names, ranking) PROVE FALSE
    <2>1. qa'.pc = "analyze"
        BY <1>5 DEF AskAgain, Asked
    <2> QED BY <2>1
<1>6. ~(/\ ~NodeFails /\ ~ProviderLimit /\ ~Answered
        /\ PipelineStep)
    BY DEF PipelineStep, ClassifyQuestion, ResolveEntities, SearchVectorEvidence, SelectTarget,
           SearchGraphEvidence, EnrichCodeEvidence, FuseEvidence, ValidateEvidence, ComposeAnswer
<1>7. CASE \E a \in Analyses : StoreHistory(a.commits) \/ StoreChunks(a.checkout)
    BY <1>1, <1>7 DEF StoreHistory, StoreChunks
<1> QED BY <1>1, <1>2, <1>3, <1>4, <1>5, <1>6, <1>7 DEF Next, vars

\* After the provider found a context too large, the question is asked again within the
\* budget that build_fallback sets, or with a context from which all is taken that may be;
\* and whenever there was anything to take, the context is smaller, so it is asked again.
THEOREM FallbackWithinBudget == Spec => FallbackFits
<1>1. ASSUME GraphInv, [Next]_vars PROVE FallbackStep
    <2> SUFFICES ASSUME qa.pc = "ask" PROVE FallbackStep
        BY DEF FallbackStep
    <2> DEFINE full == qa.context
               smaller == Fallback(qa.kind, full)
    <2>1. full \in AnswerGenerationContext /\ MadeHistory(full)
        <3>1. (\E latest \in Latests(qa) : qa.context \in Telling(qa.kind, latest)) /\ MadeHistory(qa.context)
            BY <1>1 DEF GraphInv, GraphHandedOn
        <3> QED BY <3>1 DEF Telling
    <2>2. qa'.pc = "ask_again" => qa'.context = smaller
        BY <1>1, AskedAgain
    <2>3. smaller = Fallback(qa.kind, full)
        OBVIOUS
    <2> HIDE DEF full, smaller
    <2>4. /\ Size(smaller) =< FallbackBudget(Size(full)) \/ Irreducible(qa.kind, smaller)
          /\ Size(full) > MIN_FALLBACK_CONTEXT_CHARS /\ ~Irreducible(qa.kind, full) =>
                Size(smaller) < Size(full)
        BY <2>1, <2>3, FallbackSmaller
    <2>5. full = qa.context
        BY DEF full
    <2> QED BY <2>2, <2>3, <2>4, <2>5 DEF FallbackStep
<1>2. FallbackFits <=> [][FallbackStep]_vars
    BY PTL DEF FallbackFits, FallbackStep
<1> QED BY <1>1, <1>2, GraphHolds, PTL DEF Spec

\* A list without repetition has as many elements as places.
LEMMA AsManyAsPlaces ==
    ASSUME NEW X, NEW s \in Seq(X), \A i, j \in DOMAIN s : s[i] = s[j] => i = j
    PROVE  Cardinality(ToSet(s)) = Len(s)
<1>1. Len(s) \in Nat /\ DOMAIN s = 1 .. Len(s)
    BY LenProperties
<1> DEFINE n == Len(s)
           f == [i \in 1 .. n |-> s[i]]
<1>2. ToSet(s) = {s[i] : i \in 1 .. n}
    BY <1>1 DEF ToSet
<1> HIDE DEF n
<1>3. f \in [1 .. n -> ToSet(s)] /\ \A i \in 1 .. n : f[i] = s[i]
    BY <1>2
<1>4. \A i, j \in 1 .. n : f[i] = f[j] => i = j
    BY <1>1, <1>3 DEF n
<1>5. \A x \in ToSet(s) : \E i \in 1 .. n : f[i] = x
    BY <1>2, <1>3
<1> HIDE DEF f
<1>6. f \in Bijection(1 .. n, ToSet(s))
    BY <1>3, <1>4, <1>5 DEF Bijection, Injection, Surjection, IsInjective
<1>7. ExistsBijection(1 .. n, ToSet(s))
    BY <1>6 DEF ExistsBijection
<1>8. Cardinality(ToSet(s)) = n
    BY <1>1, <1>7, FS_CountingElements DEF n
<1> QED BY <1>8 DEF n

\* Whatever is asked and analysed: the parts of a question's state have their types, and
\* what an answer shows is bounded and without repetition.
THEOREM ContextTypes == Spec => []QATypeOK
<1>1. ASSUME GraphInv PROVE QATypeOK
    <2>1. /\ calls \in CallGraphs /\ Embedded \subseteq stored
          /\ chunk \in [Versions -> 0 .. MaxImports]
        BY <1>1 DEF GraphInv, StoreInv
    <2>2. DOMAIN qa = DOMAIN Asked({}, <<>>)
        <3>1. DOMAIN Asked({}, <<>>) = Fields
            BY DEF Asked, Fields
        <3> QED BY <1>1, <3>1 DEF GraphInv, EvidenceInv, QuestionInv, HandedOn
    <2>3. qa.retries \in 0 .. MAX_RETRIES
        BY <1>1, QuestionAssumption DEF GraphInv, EvidenceInv, QuestionInv, HandedOn
    <2>4. /\ qa.target \in Versions \cup {None} /\ Len(qa.hits) =< TOP_K
          /\ Len(qa.enriched) =< MAX_ENRICHED_CODE_CONTEXTS
          /\ Len(qa.evidence) =< MaxEvidence[qa.kind]
          /\ qa.evidence \in Seq(Versions \cup Commits)
          /\ \A i, j \in DOMAIN qa.evidence : qa.evidence[i] = qa.evidence[j] => i = j
        BY <1>1 DEF GraphInv, EvidenceInv, CodeHandedOn
    <2>5. Cardinality(ToSet(qa.evidence)) = Len(qa.evidence)
        BY <2>4, AsManyAsPlaces
    <2>6. qa.context = None \/ qa.context \in AnswerGenerationContext
        BY <1>1 DEF GraphInv, GraphHandedOn
    <2> QED BY <2>1, <2>2, <2>3, <2>4, <2>5, <2>6 DEF QATypeOK
<1> QED BY <1>1, GraphHolds, PTL

-----------------------------------------------------------------------------
(* Paths of bounded length *)

\* One hop more from the nodes in reach.
Hop(hops, reach) == reach \cup {h[2] : h \in {g \in hops : g[1] \in reach}}

\* The function Within is folded by, along n hops.
Hops(f, hops, s, n) ==
    f = [x \in SUBSET (1 .. n) |-> IF x = {} THEN {s} ELSE Hop(hops, f[x \ {Max(x)}])]

\* It exists, and Within is its value at the end.
LEMMA WithinFold ==
    ASSUME NEW hops, NEW s, NEW n \in Nat
    PROVE  \E f : Hops(f, hops, s, n) /\ Within(hops, s, n) = f[1 .. n]
<1> DEFINE X == {s} \cup {h[2] : h \in hops}
           V == SUBSET X
           list == [i \in 1 .. n |-> i]
           Add(reach, i) == reach \cup {h[2] : h \in {g \in hops : g[1] \in reach}}
           Eq(f) == f = [x \in SUBSET (1 .. n) |->
                           IF x = {} THEN {s} ELSE Add(f[x \ {Max(x)}], list[Max(x)])]
           G == [p \in V \X (1 .. n) |-> Add(p[1], list[p[2]])]
           kept == CHOOSE f : Eq(f)
<1>1. Within(hops, s, n) = kept[1 .. n]
    <2>1. DOMAIN list = 1 .. n
        OBVIOUS
    <2> HIDE DEF list
    <2>2. FoldLeft(Add, {s}, list) = kept[1 .. n]
        BY <2>1 DEF FoldLeft, MapThenFoldSet
    <2> QED BY <2>2 DEF Within, list
<1>2. {s} \in V
    OBVIOUS
<1>3. \A i : \A reach \in V : Add(reach, i) \in V
    OBVIOUS
<1> HIDE DEF list, V, Add
<1>4. PICK f \in [SUBSET (1 .. n) -> V] : FoldOf(f, n, {s}, G)
    <2>1. G \in [V \X (1 .. n) -> V]
        BY <1>3
    <2> HIDE DEF G
    <2> QED BY <1>2, <2>1, FoldExists
<1>5. \A reach \in V, i \in 1 .. n : G[<<reach, i>>] = Add(reach, list[i])
    OBVIOUS
<1> HIDE DEF G
<1>6. Eq(f)
    <2>1. \A x \in SUBSET (1 .. n) : x # {} => Max(x) \in 1 .. n /\ f[x \ {Max(x)}] \in V
        BY LastIndex
    <2> QED BY <1>4, <1>5, <2>1 DEF FoldOf
<1>7. Eq(kept)
    <2> HIDE DEF Eq
    <2> QED BY <1>6
<1> HIDE DEF kept
<1>8. Hops(kept, hops, s, n)
    BY <1>7 DEF Hops, Hop, Add
<1> QED BY <1>1, <1>8

\* No hop leads nowhere else.
LEMMA WithinNone == ASSUME NEW hops, NEW s PROVE Within(hops, s, 0) = {s}
<1>1. PICK f : Hops(f, hops, s, 0) /\ Within(hops, s, 0) = f[1 .. 0]
    BY WithinFold
<1>2. 1 .. 0 = {}
    OBVIOUS
<1>3. {} \in SUBSET (1 .. 0)
    OBVIOUS
<1> QED BY <1>1, <1>2, <1>3 DEF Hops

\* One more follows those before.
LEMMA WithinNext ==
    ASSUME NEW hops, NEW s, NEW n \in Nat, NEW k, k = n + 1
    PROVE  Within(hops, s, k) = Hop(hops, Within(hops, s, n))
<1>1. PICK f : Hops(f, hops, s, n) /\ Within(hops, s, n) = f[1 .. n]
    BY WithinFold
<1>2. PICK g : Hops(g, hops, s, n + 1) /\ Within(hops, s, n + 1) = g[1 .. (n + 1)]
    <2>1. n + 1 \in Nat
        OBVIOUS
    <2> QED BY <2>1, WithinFold
<1> DEFINE S == {x \in SUBSET (1 .. n) : g[x] = f[x]}
<1>3. SUBSET (1 .. n) \subseteq SUBSET (1 .. (n + 1))
    OBVIOUS
<1>4. {} \in S
    BY <1>1, <1>2 DEF Hops
<1>5. ASSUME NEW x \in SUBSET (1 .. n), x # {}, x \ {Max(x)} \in S PROVE x \in S
    <2>1. f[x] = Hop(hops, f[x \ {Max(x)}])
        BY <1>1, <1>5 DEF Hops
    <2>2. g[x] = Hop(hops, g[x \ {Max(x)}])
        BY <1>2, <1>3, <1>5 DEF Hops
    <2> QED BY <1>5, <2>1, <2>2
<1>6. g[1 .. n] = f[1 .. n]
    <2> HIDE DEF S
    <2>1. SUBSET (1 .. n) \subseteq S
        BY <1>4, <1>5, IndexInduction
    <2> QED BY <2>1 DEF S
<1> DEFINE all == 1 .. (n + 1)
<1>7. all \in SUBSET (1 .. (n + 1)) /\ all # {} /\ n + 1 \in all /\ n + 1 \in Nat
    OBVIOUS
<1>8. Max(all) = n + 1
    <2>1. Max(all) \in all /\ \A i \in all : i <= Max(all)
        BY <1>7, LastIndex
    <2> QED BY <1>7, <2>1
<1>9. all \ {n + 1} = 1 .. n
    OBVIOUS
<1>10. g[all] = Hop(hops, g[all \ {Max(all)}])
    BY <1>2, <1>7 DEF Hops
<1> QED BY <1>1, <1>2, <1>6, <1>8, <1>9, <1>10

\* What one hop leads to.
LEMMA HopTo ==
    ASSUME NEW hops, NEW reach, NEW y
    PROVE  y \in Hop(hops, reach) <=> y \in reach \/ \E h \in hops : h[1] \in reach /\ y = h[2]
BY DEF Hop

-----------------------------------------------------------------------------
(* The callers an impact question finds *)

\* The calls there are, from the method called to the method that calls.
MethodHops == {<<c[2], MethodOf[c[1]]>> : c \in {d \in calls.all : d[1] \in stored}}

\* The stored versions that call a method in ms.
CallersOf(ms) == {c[1] : c \in {d \in calls.all : d[1] \in stored /\ d[2] \in ms}}

\* An odd number of hops backward along the relationships, from version to method and from
\* method to version, are half as many calls, and the last caller's version.
LEMMA CallersReached ==
    ASSUME StoreInv, NEW m \in Methods, NEW n \in Nat
    PROVE  Within(Backward(CallEdges \cup VersionEdges), m, 2 * n + 1)
               = Within(MethodHops, m, n) \cup CallersOf(Within(MethodHops, m, n))
<1> DEFINE back == Backward(CallEdges \cup VersionEdges)
           called(k) == Within(MethodHops, m, k)
           S == {k \in Nat : /\ called(k) \subseteq Methods
                             /\ Within(back, m, 2 * k + 1) = called(k) \cup CallersOf(called(k))}
<1>1. /\ stored \subseteq Versions /\ calls.all \subseteq Versions \X Methods
      /\ Methods \cap Versions = {} /\ MethodOf \in [Versions -> Methods]
    BY QuestionAssumption, ContextAssumption DEF StoreInv
<1>2. /\ \A h \in back : \/ \E c \in calls.all : c[1] \in stored /\ h = <<c[2], c[1]>>
                       \/ \E v \in stored : h = <<v, MethodOf[v]>>
      /\ \A c \in calls.all : c[1] \in stored => <<c[2], c[1]>> \in back
      /\ \A v \in stored : <<v, MethodOf[v]>> \in back
    <2>1. ASSUME NEW h \in back
          PROVE  \/ \E c \in calls.all : c[1] \in stored /\ h = <<c[2], c[1]>>
                 \/ \E v \in stored : h = <<v, MethodOf[v]>>
        <3>1. PICK e \in CallEdges \cup VersionEdges : h = <<e[3], e[2]>>
            BY DEF Backward
        <3>2. CASE e \in CallEdges
            <4>1. PICK c \in calls.all : c[1] \in stored /\ e = <<"CALLS", c[1], c[2]>>
                BY <3>2 DEF CallEdges
            <4> QED BY <3>1, <4>1
        <3>3. CASE e \in VersionEdges
            <4>1. PICK v \in stored : e = <<"HAS_VERSION", MethodOf[v], v>>
                BY <3>3 DEF VersionEdges
            <4> QED BY <3>1, <4>1
        <3> QED BY <3>2, <3>3
    <2>2. ASSUME NEW c \in calls.all, c[1] \in stored PROVE <<c[2], c[1]>> \in back
        <3> DEFINE e == <<"CALLS", c[1], c[2]>>
        <3>1. e \in CallEdges
            BY <2>2 DEF CallEdges
        <3>2. <<e[3], e[2]>> \in back
            BY <3>1 DEF Backward
        <3> QED BY <3>2
    <2>3. ASSUME NEW v \in stored PROVE <<v, MethodOf[v]>> \in back
        <3> DEFINE e == <<"HAS_VERSION", MethodOf[v], v>>
        <3>1. e \in VersionEdges
            BY DEF VersionEdges
        <3>2. <<e[3], e[2]>> \in back
            BY <3>1 DEF Backward
        <3> QED BY <3>2
    <2> HIDE DEF back
    <2> QED BY <2>1, <2>2, <2>3
<1> HIDE DEF back
<1>3. ASSUME NEW ms \in SUBSET Methods
      PROVE  /\ Hop(back, ms) = ms \cup CallersOf(ms)
             /\ Hop(back, ms \cup CallersOf(ms)) = Hop(MethodHops, ms) \cup CallersOf(ms)
             /\ Hop(MethodHops, ms) \subseteq Methods
    <2>1. CallersOf(ms) \subseteq stored /\ \A w \in CallersOf(ms) : MethodOf[w] \in Methods
        BY <1>1 DEF CallersOf
    <2>2. \A c \in calls.all : c[1] \in Versions /\ c[2] \in Methods /\ c = <<c[1], c[2]>>
        BY <1>1
    <2>3. ASSUME NEW h \in back, h[1] \in ms PROVE h[2] \in CallersOf(ms)
        <3>1. h[1] \notin stored
            BY <1>1, <2>3
        <3>2. PICK c \in calls.all : c[1] \in stored /\ h = <<c[2], c[1]>>
            BY <1>2, <3>1
        <3> QED BY <2>3, <3>2 DEF CallersOf
    <2>4. ASSUME NEW w \in CallersOf(ms) PROVE \E h \in back : h[1] \in ms /\ w = h[2]
        <3>1. PICK c \in calls.all : c[1] \in stored /\ c[2] \in ms /\ w = c[1]
            BY DEF CallersOf
        <3>2. <<c[2], c[1]>> \in back
            BY <1>2, <3>1
        <3> QED BY <3>1, <3>2
    <2>5. ASSUME NEW h \in back, h[1] \in CallersOf(ms)
          PROVE  h[1] \in CallersOf(ms) /\ h[2] = MethodOf[h[1]]
        <3>1. h[1] \notin Methods
            BY <1>1, <2>1, <2>5
        <3>2. PICK w \in stored : h = <<w, MethodOf[w]>>
            BY <1>2, <2>2, <3>1
        <3> QED BY <2>5, <3>2
    <2>6. ASSUME NEW w \in CallersOf(ms) PROVE \E h \in MethodHops : h[1] \in ms /\ h[2] = MethodOf[w]
        <3>1. PICK c \in calls.all : c[1] \in stored /\ c[2] \in ms /\ w = c[1]
            BY DEF CallersOf
        <3>2. <<c[2], MethodOf[c[1]]>> \in MethodHops
            BY <3>1 DEF MethodHops
        <3> QED BY <3>1, <3>2
    <2>7. ASSUME NEW h \in MethodHops, h[1] \in ms
          PROVE  \E w \in CallersOf(ms) : h[2] = MethodOf[w]
        <3>1. PICK c \in calls.all : c[1] \in stored /\ h = <<c[2], MethodOf[c[1]]>>
            BY DEF MethodHops
        <3> QED BY <2>7, <3>1 DEF CallersOf
    <2>8. \A w \in CallersOf(ms) : <<w, MethodOf[w]>> \in back
        BY <1>2, <2>1
    <2>9. Hop(back, ms) = ms \cup CallersOf(ms)
        <3>1. \A y : y \in Hop(back, ms) <=> y \in ms \/ \E h \in back : h[1] \in ms /\ y = h[2]
            BY HopTo
        <3>2. \A y : (\E h \in back : h[1] \in ms /\ y = h[2]) <=> y \in CallersOf(ms)
            BY <2>3, <2>4
        <3> QED BY <3>1, <3>2
    <2>10. \A y : (\E h \in back : h[1] \in CallersOf(ms) /\ y = h[2])
                    <=> \E w \in CallersOf(ms) : y = MethodOf[w]
        BY <2>5, <2>8
    <2>11. \A y : (\E h \in MethodHops : h[1] \in ms /\ y = h[2])
                    <=> \E w \in CallersOf(ms) : y = MethodOf[w]
        BY <2>6, <2>7
    <2>12. \A y : y \in Hop(MethodHops, ms) <=> y \in ms \/ \E w \in CallersOf(ms) : y = MethodOf[w]
        <3>1. \A y : y \in Hop(MethodHops, ms)
                       <=> y \in ms \/ \E h \in MethodHops : h[1] \in ms /\ y = h[2]
            BY HopTo
        <3> QED BY <2>11, <3>1
    <2>13. Hop(back, ms \cup CallersOf(ms)) = Hop(MethodHops, ms) \cup CallersOf(ms)
        <3> DEFINE both == ms \cup CallersOf(ms)
        <3>1. \A y : y \in Hop(back, both) <=> y \in both \/ \E h \in back : h[1] \in both /\ y = h[2]
            BY HopTo
        <3>2. \A y : (\E h \in back : h[1] \in both /\ y = h[2])
                        <=> y \in CallersOf(ms) \/ \E w \in CallersOf(ms) : y = MethodOf[w]
            BY <2>3, <2>4, <2>10
        <3> QED BY <2>12, <3>1, <3>2
    <2>14. Hop(MethodHops, ms) \subseteq Methods
        BY <2>1, <2>12
    <2> QED BY <2>9, <2>13, <2>14
<1>4. 0 \in S
    <2>1. called(0) = {m} /\ Within(back, m, 0) = {m}
        BY WithinNone
    <2>2. Within(back, m, 1) = Hop(back, {m})
        <3>1. 1 = 0 + 1
            OBVIOUS
        <3> QED BY <2>1, <3>1, WithinNext
    <2>3. 2 * 0 + 1 = 1
        OBVIOUS
    <2>4. {m} \in SUBSET Methods
        OBVIOUS
    <2>5. Hop(back, {m}) = {m} \cup CallersOf({m})
        BY <1>3, <2>4
    <2> QED BY <2>1, <2>2, <2>3, <2>4, <2>5
<1>5. ASSUME NEW k \in Nat, k \in S PROVE k + 1 \in S
    <2> DEFINE ms == called(k)
               W == Within(back, m, 2 * k + 1)
    <2>1. ms \in SUBSET Methods /\ W = ms \cup CallersOf(ms)
        BY <1>5
    <2>2. called(k + 1) = Hop(MethodHops, ms)
        BY WithinNext
    <2>3. Within(back, m, (2 * k + 1) + 1) = Hop(back, W)
        <3>1. 2 * k + 1 \in Nat
            OBVIOUS
        <3> QED BY <3>1, WithinNext
    <2>4. Within(back, m, ((2 * k + 1) + 1) + 1) = Hop(back, Hop(back, W))
        <3>1. (2 * k + 1) + 1 \in Nat
            OBVIOUS
        <3> QED BY <2>3, <3>1, WithinNext
    <2>5. ((2 * k + 1) + 1) + 1 = 2 * (k + 1) + 1
        OBVIOUS
    <2> HIDE DEF ms, W
    <2> DEFINE next == Hop(MethodHops, ms)
    <2>6. next \in SUBSET Methods /\ Hop(back, W) = next \cup CallersOf(ms)
        BY <1>3, <2>1
    <2>7. ms \subseteq next
        BY DEF Hop
    <2>8. CallersOf(ms) \subseteq CallersOf(next)
        BY <2>7 DEF CallersOf
    <2> HIDE DEF next
    <2>9. Hop(back, next \cup CallersOf(ms)) = next \cup CallersOf(next)
        <3>1. Hop(back, next) = next \cup CallersOf(next)
            BY <1>3, <2>6
        <3>2. Hop(back, next \cup CallersOf(ms)) = Hop(back, next) \cup Hop(back, CallersOf(ms))
            BY DEF Hop
        <3>3. Hop(back, CallersOf(ms)) \subseteq Hop(back, ms \cup CallersOf(ms))
            BY DEF Hop
        <3>4. Hop(back, ms \cup CallersOf(ms)) = next \cup CallersOf(ms)
            BY <2>1, <2>6
        <3> QED BY <2>8, <3>1, <3>2, <3>3, <3>4
    <2>10. Within(back, m, 2 * (k + 1) + 1) = next \cup CallersOf(next)
        BY <2>4, <2>5, <2>6, <2>9
    <2> QED BY <2>2, <2>6, <2>10 DEF next
<1>6. n \in S
    <2> HIDE DEF S
    <2> QED BY <1>4, <1>5, UpwardInduction
<1> QED BY <1>6 DEF back

\* The versions in the graph of an impact question are those of callers.
LEMMA ImpactGraph ==
    ASSUME StoreInv, NEW m \in Methods,
           NEW paths, paths = CallsBackward(m),
           NEW nodes, nodes = NodesOf(paths, m)
    PROVE  nodes \cap Versions =
               {v \in CallersWithin(m, MAX_CALL_DEPTH) : MethodOf[v] \notin Accessors}
<1>1. /\ stored \subseteq Versions /\ calls.all \subseteq Versions \X Methods
      /\ Methods \cap Versions = {} /\ MethodOf \in [Versions -> Methods]
      /\ Accessors \subseteq Methods
    BY QuestionAssumption, ContextAssumption DEF StoreInv
<1>2. PICK n \in Nat : MAX_CALL_DEPTH = n + 1
    <2>1. MAX_CALL_DEPTH \in Nat /\ MAX_CALL_DEPTH # 0
        BY QuestionAssumption
    <2>2. MAX_CALL_DEPTH - 1 \in Nat /\ MAX_CALL_DEPTH = (MAX_CALL_DEPTH - 1) + 1
        BY <2>1
    <2> QED BY <2>2
<1> DEFINE called == Within(MethodHops, m, n)
           reached == called \cup CallersOf(called)
<1>3. CallersWithin(m, MAX_CALL_DEPTH) = CallersOf(called)
    <2>1. MAX_CALL_DEPTH - 1 = n
        BY <1>2
    <2> QED BY <2>1 DEF CallersWithin, CallersOf, MethodHops
<1>4. \A e : e \in paths <=> e \in CallEdges \cup VersionEdges /\ e[3] \in reached
    <2>1. 2 * MAX_CALL_DEPTH - 1 = 2 * n + 1
        BY <1>2
    <2>2. Within(Backward(CallEdges \cup VersionEdges), m, 2 * n + 1) = reached
        BY CallersReached
    <2> HIDE DEF reached
    <2> QED BY <2>1, <2>2 DEF CallsBackward
<1>5. called \subseteq Methods
    <2> DEFINE S == {k \in Nat : Within(MethodHops, m, k) \subseteq Methods}
    <2>1. 0 \in S
        BY WithinNone
    <2>2. ASSUME NEW k \in Nat, k \in S PROVE k + 1 \in S
        <3>1. Within(MethodHops, m, k + 1) = Hop(MethodHops, Within(MethodHops, m, k))
            BY WithinNext
        <3>2. \A h \in MethodHops : h[2] \in Methods
            BY <1>1 DEF MethodHops
        <3> QED BY <2>2, <3>1, <3>2, HopTo
    <2>3. n \in S
        <3> HIDE DEF S
        <3> QED BY <2>1, <2>2, UpwardInduction
    <2> QED BY <2>3
<1> HIDE DEF called
<1>6. CallersOf(called) \subseteq stored
    BY DEF CallersOf
<1>7. ASSUME NEW v \in CallersOf(called)
      PROVE  /\ v \in Versions /\ <<"HAS_VERSION", MethodOf[v], v>> \in paths
             /\ \E e \in paths : v \in {e[2], e[3]}
    <2>1. v \in stored /\ v \in reached
        BY <1>6
    <2> HIDE DEF reached
    <2>2. <<"HAS_VERSION", MethodOf[v], v>> \in VersionEdges
        BY <2>1 DEF VersionEdges
    <2>3. <<"HAS_VERSION", MethodOf[v], v>> \in paths
        BY <1>4, <2>1, <2>2
    <2>4. v \in {<<"HAS_VERSION", MethodOf[v], v>>[2], <<"HAS_VERSION", MethodOf[v], v>>[3]}
        OBVIOUS
    <2> QED BY <1>1, <2>1, <2>3, <2>4
<1>8. ASSUME NEW v \in Versions, NEW e \in paths, v \in {e[2], e[3]} PROVE v \in CallersOf(called)
    <2>1. CASE e \in CallEdges
        <3>1. PICK c \in calls.all : c[1] \in stored /\ e = <<"CALLS", c[1], c[2]>>
            BY <2>1 DEF CallEdges
        <3>2. c[1] \in Versions /\ c[2] \in Methods
            BY <1>1
        <3>3. v = c[1]
            BY <1>1, <1>8, <3>1, <3>2
        <3>4. c[2] \in reached
            BY <1>4, <3>1
        <3>5. c[2] \in called
            BY <1>1, <1>6, <3>2, <3>4
        <3> QED BY <3>1, <3>3, <3>5 DEF CallersOf
    <2>2. CASE e \in VersionEdges
        <3>1. PICK w \in stored : e = <<"HAS_VERSION", MethodOf[w], w>>
            BY <2>2 DEF VersionEdges
        <3>2. v = w
            BY <1>1, <1>8, <3>1
        <3>3. w \in reached
            BY <1>4, <3>1
        <3> QED BY <1>1, <1>5, <3>2, <3>3
    <2> QED BY <1>4, <2>1, <2>2
<1>9. ASSUME NEW v \in CallersOf(called)
      PROVE  v \in nodes <=> MethodOf[v] \notin Accessors
    <2>1. v # m /\ v \notin Accessors /\ v \in Versions
        BY <1>1, <1>7
    <2>2. (\E e \in paths : e[1] = "HAS_VERSION" /\ e[3] = v /\ e[2] \in Accessors)
              <=> MethodOf[v] \in Accessors
        <3>1. ASSUME NEW e \in paths, e[1] = "HAS_VERSION", e[3] = v PROVE e[2] = MethodOf[v]
            <4>1. e \in CallEdges \cup VersionEdges
                BY <1>4
            <4>2. e \in VersionEdges
                BY <3>1, <4>1 DEF CallEdges
            <4> QED BY <3>1, <4>2 DEF VersionEdges
        <3>2. <<"HAS_VERSION", MethodOf[v], v>> \in paths
            BY <1>7
        <3> QED BY <3>1, <3>2
    <2>3. v \in UNION {{e[2], e[3]} : e \in paths}
        BY <1>7
    <2> QED BY <2>1, <2>2, <2>3 DEF NodesOf
<1>10. \A v \in nodes : \E e \in paths : v \in {e[2], e[3]}
    BY DEF NodesOf
<1>11. \A v \in nodes \cap Versions : v \in CallersOf(called)
    BY <1>8, <1>10
<1>12. \A v \in CallersOf(called) : v \in Versions
    BY <1>7
<1> QED BY <1>3, <1>9, <1>11, <1>12

\* For any graph of calls and any depth: the graph an impact question is given has every
\* version that reaches its method in MAX_CALL_DEPTH calls, accessors' apart, and no other.
THEOREM CallersFound == Spec => ImpactFindsCallers
<1> DEFINE Found == qa.pc = "traverse" /\ qa'.pc = "enrich" /\ qa.kind = "impact" /\ qa.target # None
                      => qa'.nodes \cap Versions =
                            {v \in CallersWithin(MethodOf[qa.target], MAX_CALL_DEPTH) :
                                MethodOf[v] \notin Accessors}
<1>1. ASSUME GraphInv, [Next]_vars PROVE [Found]_vars
    <2> SUFFICES ASSUME qa.pc = "traverse", qa'.pc = "enrich", qa.kind = "impact",
                        qa.target # None
                 PROVE  qa'.nodes \cap Versions =
                            {v \in CallersWithin(MethodOf[qa.target], MAX_CALL_DEPTH) :
                                MethodOf[v] \notin Accessors}
        OBVIOUS
    <2>1. StoreInv /\ qa.target \in Versions /\ DOMAIN qa = Fields /\ QuestionInv
        BY <1>1 DEF GraphInv, EvidenceInv, QuestionInv, HandedOn, CodeHandedOn
    <2>2. MethodOf[qa.target] \in Methods
        BY <2>1, ContextAssumption
    <2>3. SearchGraphEvidence
        <3>1. qa' # qa
            OBVIOUS
        <3>2. PipelineStep \/ NodeFails \/ \E names \in Questions, ranking \in Rankings : AskAgain(names, ranking)
            BY <1>1, <3>1 DEF Next, StoreHistory, StoreChunks, vars
        <3>3. ~NodeFails
            BY <2>1 DEF NodeFails, Goto, Fields
        <3> QED BY <3>2, <3>3 DEF PipelineStep, ClassifyQuestion, ResolveEntities, SearchVectorEvidence,
                SelectTarget, EnrichCodeEvidence, FuseEvidence, ValidateEvidence, ComposeAnswer,
                ProviderLimit, Answered, AskAgain
    <2> DEFINE paths == CallsBackward(MethodOf[qa.target])
               nodes == NodesOf(paths, MethodOf[qa.target])
    <2>4. qa' = [[qa EXCEPT !.nodes = nodes, !.edges = EdgesOf(paths, nodes)] EXCEPT !.pc = "enrich"]
        BY <2>3 DEF SearchGraphEvidence, Goto, Traversal, StartNode
    <2>5. nodes \cap Versions =
              {v \in CallersWithin(MethodOf[qa.target], MAX_CALL_DEPTH) : MethodOf[v] \notin Accessors}
        BY <2>1, <2>2, ImpactGraph
    <2> HIDE DEF paths, nodes
    <2>6. qa'.nodes = nodes
        BY <2>1, <2>4 DEF Fields
    <2> QED BY <2>5, <2>6
<1> QED BY <1>1, GraphHolds, PTL DEF Spec, ImpactFindsCallers

-----------------------------------------------------------------------------
(* The retry loop ends *)

\* NodesLeft, of the state s of a question.
Left(s) ==
    CASE s.pc = "analyze" -> 5 + Len(Round) * MAX_RETRIES
      [] s.pc = "resolve" -> 4 + Len(Round) * MAX_RETRIES
      [] s.pc \in ToSet(Round) ->
            4 + Len(Round) * (MAX_RETRIES - s.retries)
              - CHOOSE i \in DOMAIN Round : Round[i] = s.pc
      [] s.pc = "compose" -> 3 [] s.pc = "ask" -> 2 [] s.pc = "ask_again" -> 1
      [] OTHER -> 0

\* The steps left at the i-th node of a round.
LEMMA LeftInRound ==
    ASSUME NEW s, NEW i \in 1 .. 6, s.pc = Round[i]
    PROVE  Left(s) = 4 + 6 * (MAX_RETRIES - s.retries) - i
<1>1. /\ DOMAIN Round = 1 .. 6 /\ Len(Round) = 6
      /\ Round[1] = "search" /\ Round[2] = "select" /\ Round[3] = "traverse"
      /\ Round[4] = "enrich" /\ Round[5] = "fuse" /\ Round[6] = "validate"
    BY DEF Round
<1>2. \A j \in DOMAIN Round : Round[j] = s.pc => j = i
    BY <1>1
<1>3. (CHOOSE j \in DOMAIN Round : Round[j] = s.pc) = i
    BY <1>1, <1>2
<1>4. s.pc \in ToSet(Round) /\ s.pc # "analyze" /\ s.pc # "resolve"
    BY <1>1 DEF ToSet
<1> QED BY <1>1, <1>3, <1>4 DEF Left

\* The steps left at every node.
LEMMA LeftValues ==
    ASSUME NEW s, HandedOn(s)
    PROVE  /\ s.pc = "analyze"   => Left(s) = 5 + 6 * MAX_RETRIES
           /\ s.pc = "resolve"   => Left(s) = 4 + 6 * MAX_RETRIES
           /\ s.pc = "search"    => Left(s) = 3 + 6 * (MAX_RETRIES - s.retries)
           /\ s.pc = "select"    => Left(s) = 2 + 6 * (MAX_RETRIES - s.retries)
           /\ s.pc = "traverse"  => Left(s) = 1 + 6 * (MAX_RETRIES - s.retries)
           /\ s.pc = "enrich"    => Left(s) = 6 * (MAX_RETRIES - s.retries)
           /\ s.pc = "fuse"      => Left(s) = 6 * (MAX_RETRIES - s.retries) - 1
           /\ s.pc = "validate"  => Left(s) = 6 * (MAX_RETRIES - s.retries) - 2
           /\ s.pc = "compose"   => Left(s) = 3
           /\ s.pc = "ask"       => Left(s) = 2
           /\ s.pc = "ask_again" => Left(s) = 1
           /\ s.pc \in {"answered", "failed"} => Left(s) = 0
<1>1. /\ Len(Round) = 6 /\ ToSet(Round) = Rounds
      /\ Round[1] = "search" /\ Round[2] = "select" /\ Round[3] = "traverse"
      /\ Round[4] = "enrich" /\ Round[5] = "fuse" /\ Round[6] = "validate"
    BY DEF Round, ToSet, Rounds
<1>2. MAX_RETRIES \in Nat /\ s.retries \in Nat
    BY QuestionAssumption DEF HandedOn
<1>3. /\ s.pc = "search"   => Left(s) = 3 + 6 * (MAX_RETRIES - s.retries)
      /\ s.pc = "select"   => Left(s) = 2 + 6 * (MAX_RETRIES - s.retries)
      /\ s.pc = "traverse" => Left(s) = 1 + 6 * (MAX_RETRIES - s.retries)
      /\ s.pc = "enrich"   => Left(s) = 6 * (MAX_RETRIES - s.retries)
      /\ s.pc = "fuse"     => Left(s) = 6 * (MAX_RETRIES - s.retries) - 1
      /\ s.pc = "validate" => Left(s) = 6 * (MAX_RETRIES - s.retries) - 2
    BY <1>1, <1>2, LeftInRound
<1>4. /\ s.pc = "analyze" => Left(s) = 5 + 6 * MAX_RETRIES
      /\ s.pc = "resolve" => Left(s) = 4 + 6 * MAX_RETRIES
    BY <1>1 DEF Left, Rounds
<1>5. /\ s.pc = "compose"   => Left(s) = 3
      /\ s.pc = "ask"       => Left(s) = 2
      /\ s.pc = "ask_again" => Left(s) = 1
      /\ s.pc \in {"answered", "failed"} => Left(s) = 0
    BY <1>1 DEF Left, Rounds
<1> QED BY <1>3, <1>4, <1>5

\* The position after every node, and the counter after the validator.
LEMMA StepGoesOn ==
    ASSUME QuestionInv, Next, qa' # qa, qa.pc \notin {"answered", "failed"}
    PROVE  \/ qa'.pc = "failed"
           \/ /\ qa'.retries = qa.retries
              /\ <<qa.pc, qa'.pc>> \in
                    {<<"analyze", "resolve">>, <<"resolve", "search">>, <<"search", "select">>,
                     <<"select", "traverse">>, <<"traverse", "enrich">>, <<"enrich", "fuse">>,
                     <<"fuse", "validate">>, <<"compose", "ask">>, <<"ask", "ask_again">>,
                     <<"ask", "answered">>, <<"ask_again", "answered">>}
           \/ /\ qa.pc = "validate" /\ qa'.pc \in {"search", "compose"}
              /\ qa'.retries = qa.retries + 1
<1> USE DEF QuestionInv, HandedOn, Fields, Goto
<1>1. CASE \E kind \in QuestionKind : ClassifyQuestion(kind)
    BY <1>1 DEF ClassifyQuestion
<1>2. CASE ResolveEntities
    BY <1>2 DEF ResolveEntities
<1>3. CASE SearchVectorEvidence
    BY <1>3 DEF SearchVectorEvidence
<1>4. CASE \E v \in Versions \cup {None} : SelectTarget(v)
    BY <1>4 DEF SelectTarget
<1>5. CASE SearchGraphEvidence
    BY <1>5 DEF SearchGraphEvidence
<1>6. CASE EnrichCodeEvidence
    BY <1>6 DEF EnrichCodeEvidence
<1>7. CASE FuseEvidence
    BY <1>7 DEF FuseEvidence
<1>8. CASE ValidateEvidence
    <2>1. /\ DOMAIN Validated = Fields /\ Validated.retries = qa.retries + 1
          /\ RouteAfterValidation(Validated) \in {"compose", "search"}
        BY DEF Validated, RouteAfterValidation
    <2>2. qa' = [Validated EXCEPT !.pc = RouteAfterValidation(Validated)]
        BY <1>8 DEF ValidateEvidence
    <2> HIDE DEF Validated, RouteAfterValidation
    <2> QED BY <1>8, <2>1, <2>2 DEF ValidateEvidence
<1>9. CASE ComposeAnswer
    BY <1>9 DEF ComposeAnswer
<1>10. CASE ProviderLimit
    <2>1. PICK smaller : qa' \in {[[qa EXCEPT !.context = smaller] EXCEPT !.pc = "ask_again"],
                                  [qa EXCEPT !.pc = "failed"]}
        BY <1>10 DEF ProviderLimit
    <2> QED BY <1>10, <2>1 DEF ProviderLimit
<1>11. CASE Answered
    BY <1>11 DEF Answered
<1>12. CASE NodeFails
    BY <1>12 DEF NodeFails
<1>13. CASE \E names \in Questions, ranking \in Rankings : AskAgain(names, ranking)
    BY <1>13 DEF AskAgain
<1>14. CASE \E a \in Analyses : StoreHistory(a.commits) \/ StoreChunks(a.checkout)
    BY <1>14 DEF StoreHistory, StoreChunks
<1> QED
    BY <1>1, <1>2, <1>3, <1>4, <1>5, <1>6, <1>7, <1>8, <1>9, <1>10, <1>11, <1>12, <1>13, <1>14
       DEF Next, PipelineStep

\* Every node leaves fewer.
LEMMA FewerLeft ==
    ASSUME QuestionInv, QuestionInv', Next, qa' # qa, qa.pc \notin {"answered", "failed"}
    PROVE  Left(qa') < Left(qa) /\ Left(qa') >= 0
<1>1. /\ MAX_RETRIES \in Nat \ {0} /\ qa.retries \in Nat /\ qa'.retries \in Nat
      /\ qa.pc \in Rounds => qa.retries < MAX_RETRIES
      /\ qa'.pc \in Rounds => qa'.retries < MAX_RETRIES
      /\ qa.pc \in {"analyze", "resolve"} => qa.retries = 0
    BY QuestionAssumption DEF QuestionInv, HandedOn
<1>2. HandedOn(qa) /\ HandedOn(qa')
    BY DEF QuestionInv
<1>3. qa.pc \in {"analyze", "resolve"} \cup Rounds \cup Over
    BY DEF QuestionInv, HandedOn
<1>4. CASE qa'.pc = "failed"
    BY <1>1, <1>2, <1>3, <1>4, LeftValues DEF Rounds, Over
<1>5. CASE qa'.retries = qa.retries /\ qa'.pc # "failed"
    BY <1>1, <1>2, <1>5, LeftValues, StepGoesOn DEF Rounds
<1>6. CASE qa.pc = "validate" /\ qa'.pc = "compose" /\ qa'.retries = qa.retries + 1
    BY <1>1, <1>2, <1>6, LeftValues DEF Rounds
<1>7. CASE qa.pc = "validate" /\ qa'.pc = "search" /\ qa'.retries = qa.retries + 1
    BY <1>1, <1>2, <1>7, LeftValues DEF Rounds
<1> QED BY <1>4, <1>5, <1>6, <1>7, StepGoesOn

\* Whatever the searches and the language models answer, and whatever is analysed
\* meanwhile, every step of a question leaves fewer steps, for any MAX_RETRIES.
THEOREM QuestionEnds == Spec => SearchingEnds
<1>1. NodesLeft = Left(qa) /\ NodesLeft' = Left(qa')
    BY DEF NodesLeft, Left
<1>2. QuestionInv /\ QuestionInv' /\ [Next]_vars
        => [qa.pc \notin {"answered", "failed"} /\ qa' # qa
              => NodesLeft' < NodesLeft /\ NodesLeft' >= 0]_vars
    BY <1>1, FewerLeft DEF vars
<1> QED BY <1>2, QuestionHolds, PTL DEF Spec, SearchingEnds

-----------------------------------------------------------------------------
(* Order *)

\* That R orders S, with equals or without.
Ranks(R, S) ==
    /\ \A x, y \in S : <<x, y>> \in R \/ <<y, x>> \in R
    /\ \A x, y, z \in S : <<x, y>> \in R /\ <<y, z>> \in R => <<x, z>> \in R

\* One of finitely many comes before all.
LEMMA FirstOf ==
    ASSUME NEW S, IsFiniteSet(S), S # {}, NEW R, Ranks(R, S)
    PROVE  \E x \in S : \A y \in S : <<x, y>> \in R
<1> DEFINE N == {n \in Nat : \A T \in SUBSET S :
                    Cardinality(T) = n /\ T # {} => \E x \in T : \A y \in T : <<x, y>> \in R}
<1>1. \A T \in SUBSET S : IsFiniteSet(T) /\ Cardinality(T) \in Nat
    BY FS_Subset, FS_CardinalityType
<1>2. 0 \in N
    BY <1>1, FS_EmptySet
<1>3. ASSUME NEW n \in Nat, n \in N PROVE n + 1 \in N
    <2> SUFFICES ASSUME NEW T \in SUBSET S, Cardinality(T) = n + 1
                 PROVE  \E x \in T : \A y \in T : <<x, y>> \in R
        OBVIOUS
    <2>1. T # {}
        BY <1>3, FS_EmptySet
    <2>2. PICK x \in T : TRUE
        BY <2>1
    <2> DEFINE rest == T \ {x}
    <2>3. rest \in SUBSET S /\ Cardinality(rest) = n
        <3>1. Cardinality(rest) = Cardinality(T) - 1
            BY <1>1, FS_RemoveElement
        <3> QED BY <3>1
    <2>4. T = rest \cup {x}
        OBVIOUS
    <2> HIDE DEF rest
    <2>5. <<x, x>> \in R
        BY DEF Ranks
    <2>6. CASE rest = {}
        BY <2>4, <2>5, <2>6
    <2>7. CASE rest # {}
        <3>1. PICK y \in rest : \A z \in rest : <<y, z>> \in R
            BY <1>3, <2>3, <2>7
        <3>2. CASE <<y, x>> \in R
            BY <2>4, <3>1, <3>2
        <3>3. CASE <<x, y>> \in R
            <4>1. \A z \in rest : <<x, z>> \in R
                BY <2>3, <3>1, <3>3 DEF Ranks
            <4> QED BY <2>4, <2>5, <4>1
        <3> QED BY <2>3, <3>2, <3>3 DEF Ranks
    <2> QED BY <2>6, <2>7
<1>4. Nat \subseteq N
    <2> HIDE DEF N
    <2> QED BY <1>2, <1>3, UpwardInduction
<1> QED BY <1>1, <1>4

\* Finitely many can be put in a list in order.
LEMMA InOrder ==
    ASSUME NEW S, IsFiniteSet(S), NEW R, Ranks(R, S)
    PROVE  \E s \in SetToSeqs(S) : \A i, j \in DOMAIN s : i < j => <<s[i], s[j]>> \in R
<1> DEFINE InList(T, s) == /\ s \in SetToSeqs(T)
                           /\ \A i, j \in DOMAIN s : i < j => <<s[i], s[j]>> \in R
           N == {n \in Nat : \A T \in SUBSET S : Cardinality(T) = n => \E s : InList(T, s)}
           Back == {p \in S \X S : <<p[2], p[1]>> \in R}
<1>1. \A T \in SUBSET S : IsFiniteSet(T) /\ Cardinality(T) \in Nat
    BY FS_Subset, FS_CardinalityType
<1>2. \A T \in SUBSET S : Ranks(Back, T)
    <2> SUFFICES ASSUME NEW T \in SUBSET S PROVE Ranks(Back, T)
        OBVIOUS
    <2>1. \A x, y \in S : <<x, y>> \in Back <=> <<y, x>> \in R
        OBVIOUS
    <2> HIDE DEF Back
    <2> QED BY <2>1 DEF Ranks
<1>3. \A T \in SUBSET S : T # {} => \E x \in T : \A y \in T : <<y, x>> \in R
    <2> SUFFICES ASSUME NEW T \in SUBSET S, T # {} PROVE \E x \in T : \A y \in T : <<y, x>> \in R
        OBVIOUS
    <2>1. \E x \in T : \A y \in T : <<x, y>> \in Back
        <3> HIDE DEF Back
        <3> QED BY <1>1, <1>2, FirstOf
    <2> QED BY <2>1
<1> HIDE DEF Back
<1>4. 0 \in N
    <2>1. ASSUME NEW T \in SUBSET S, Cardinality(T) = 0 PROVE \E s : InList(T, s)
        <3>1. T = {}
            BY <1>1, <2>1, FS_EmptySet
        <3>2. Cardinality({}) = 0 /\ 1 .. 0 = {}
            BY FS_EmptySet
        <3> DEFINE s == [i \in 1 .. 0 |-> i]
        <3>3. s \in [1 .. Cardinality(T) -> T] /\ DOMAIN s = {}
            BY <3>1, <3>2
        <3>4. InList(T, s)
            <4> HIDE DEF s
            <4> QED BY <3>2, <3>1, <3>3 DEF SetToSeqs
        <3> QED BY <3>4
    <2> QED BY <2>1
<1>5. ASSUME NEW n \in Nat, n \in N PROVE n + 1 \in N
    <2> SUFFICES ASSUME NEW T \in SUBSET S, Cardinality(T) = n + 1 PROVE \E s : InList(T, s)
        OBVIOUS
    <2>1. T # {}
        BY <1>5, FS_EmptySet
    <2>2. PICK x \in T : \A y \in T : <<y, x>> \in R
        BY <1>3, <2>1
    <2> DEFINE rest == T \ {x}
    <2>3. rest \in SUBSET S /\ Cardinality(rest) = n
        <3>1. Cardinality(rest) = Cardinality(T) - 1
            BY <1>1, FS_RemoveElement
        <3> QED BY <3>1
    <2>4. T = rest \cup {x} /\ x \notin rest
        OBVIOUS
    <2> HIDE DEF rest
    <2>5. PICK r : InList(rest, r)
        BY <1>5, <2>3
    <2>6. r \in [1 .. n -> rest] /\ \A i, j \in 1 .. n : i # j => r[i] # r[j]
        BY <2>3, <2>5 DEF SetToSeqs
    <2> DEFINE s == [i \in 1 .. (n + 1) |-> IF i = n + 1 THEN x ELSE r[i]]
    <2>7. \A i \in 1 .. (n + 1) : i = n + 1 \/ i \in 1 .. n
        OBVIOUS
    <2>8. \A i \in 1 .. n : s[i] = r[i] /\ r[i] \in rest
        BY <2>6
    <2>9. s[n + 1] = x /\ DOMAIN s = 1 .. (n + 1)
        OBVIOUS
    <2>a. \A i \in 1 .. (n + 1) : s[i] \in T
        BY <2>4, <2>7, <2>8, <2>9
    <2>b. s \in [1 .. Cardinality(T) -> T]
        BY <2>a
    <2> HIDE DEF s
    <2>c. \A i, j \in 1 .. (n + 1) : i # j => s[i] # s[j]
        BY <2>4, <2>6, <2>7, <2>8, <2>9
    <2>d. \A i, j \in 1 .. (n + 1) : i < j => <<s[i], s[j]>> \in R
        <3> SUFFICES ASSUME NEW i \in 1 .. (n + 1), NEW j \in 1 .. (n + 1), i < j
                     PROVE  <<s[i], s[j]>> \in R
            OBVIOUS
        <3>1. CASE j = n + 1
            BY <2>2, <2>9, <2>a, <3>1
        <3>2. CASE j # n + 1
            <4>1. i \in 1 .. n /\ j \in 1 .. n
                BY <3>2
            <4> QED BY <2>5, <2>6, <2>8, <4>1
        <3> QED BY <3>1, <3>2
    <2>e. InList(T, s)
        BY <2>9, <2>b, <2>c, <2>d DEF SetToSeqs
    <2> QED BY <2>e
<1>6. Nat \subseteq N
    <2> HIDE DEF N
    <2> QED BY <1>4, <1>5, UpwardInduction
<1>7. \E s : InList(S, s)
    BY <1>1, <1>6
<1> QED BY <1>7

\* A list of all has each at one place.
LEMMA ListOfAll ==
    ASSUME NEW S, IsFiniteSet(S), NEW s \in SetToSeqs(S)
    PROVE  /\ s \in Seq(S) /\ Len(s) = Cardinality(S) /\ DOMAIN s = 1 .. Len(s)
           /\ \A x \in S : \E i \in 1 .. Len(s) : s[i] = x
<1> DEFINE n == Cardinality(S)
<1>1. n \in Nat
    BY FS_CardinalityType
<1>2. s \in [1 .. n -> S] /\ \A i, j \in 1 .. n : i # j => s[i] # s[j]
    BY DEF SetToSeqs
<1>3. IsFiniteSet(1 .. n) /\ Cardinality(1 .. n) = n
    BY <1>1, FS_Interval
<1> HIDE DEF n
<1>4. s \in Injection(1 .. n, S)
    BY <1>2 DEF Injection, IsInjective
<1>5. s \in Surjection(1 .. n, S)
    BY <1>1, <1>3, <1>4, FS_Injection DEF n
<1>6. \A x \in S : \E i \in 1 .. n : s[i] = x
    BY <1>5 DEF Surjection
<1>7. DOMAIN s = 1 .. n
    BY <1>2
<1>8. s \in Seq(S) /\ Len(s) = n
    BY <1>1, <1>2
<1> QED BY <1>6, <1>7, <1>8 DEF n

\* More hops, and more of them, lead further.
LEMMA WithinMore ==
    ASSUME NEW hops, NEW more, hops \subseteq more, NEW s,
           NEW k \in Nat, NEW n \in Nat, k <= n
    PROVE  Within(hops, s, k) \subseteq Within(more, s, n)
<1> DEFINE A == {j \in Nat : Within(hops, s, j) \subseteq Within(more, s, j)}
           B == {j \in Nat : Within(more, s, k) \subseteq Within(more, s, k + j)}
<1>1. 0 \in A
    BY WithinNone
<1>2. ASSUME NEW j \in Nat, j \in A PROVE j + 1 \in A
    <2>1. /\ Within(hops, s, j + 1) = Hop(hops, Within(hops, s, j))
          /\ Within(more, s, j + 1) = Hop(more, Within(more, s, j))
        BY WithinNext
    <2>2. Hop(hops, Within(hops, s, j)) \subseteq Hop(more, Within(more, s, j))
        BY <1>2 DEF Hop
    <2> QED BY <2>1, <2>2
<1>3. k \in A
    <2> HIDE DEF A
    <2> QED BY <1>1, <1>2, UpwardInduction
<1>4. 0 \in B
    OBVIOUS
<1>5. ASSUME NEW j \in Nat, j \in B PROVE j + 1 \in B
    <2>1. k + j \in Nat /\ k + (j + 1) = (k + j) + 1
        OBVIOUS
    <2>2. Within(more, s, k + (j + 1)) = Hop(more, Within(more, s, k + j))
        BY <2>1, WithinNext
    <2> QED BY <1>5, <2>2 DEF Hop
<1>6. n - k \in B /\ k + (n - k) = n
    <2>1. n - k \in Nat /\ k + (n - k) = n
        OBVIOUS
    <2> HIDE DEF B
    <2> QED BY <1>4, <1>5, <2>1, UpwardInduction
<1> QED BY <1>3, <1>6

\* The first and the last of a path: what is not the start is led to, and something
\* leads on from the start.
LEMMA WithinEnds ==
    ASSUME NEW hops, NEW s, NEW n \in Nat, NEW x \in Within(hops, s, n), x # s
    PROVE  (\E h \in hops : h[2] = x) /\ (\E h \in hops : h[1] = s)
<1> DEFINE A == {j \in Nat : \A y \in Within(hops, s, j) : y # s =>
                    (\E h \in hops : h[2] = y) /\ (\E h \in hops : h[1] = s)}
<1>1. 0 \in A
    BY WithinNone
<1>2. ASSUME NEW j \in Nat, j \in A PROVE j + 1 \in A
    <2>1. Within(hops, s, j + 1) = Hop(hops, Within(hops, s, j))
        BY WithinNext
    <2>2. ASSUME NEW y \in Hop(hops, Within(hops, s, j)), y # s
          PROVE  (\E h \in hops : h[2] = y) /\ (\E h \in hops : h[1] = s)
        <3>1. CASE y \in Within(hops, s, j)
            BY <1>2, <2>2, <3>1
        <3>2. CASE \E h \in hops : h[1] \in Within(hops, s, j) /\ y = h[2]
            <4>1. PICK h \in hops : h[1] \in Within(hops, s, j) /\ y = h[2]
                BY <3>2
            <4>2. CASE h[1] = s
                BY <4>1, <4>2
            <4>3. CASE h[1] # s
                BY <1>2, <4>1, <4>3
            <4> QED BY <4>2, <4>3
        <3> QED BY <2>2, <3>1, <3>2, HopTo
    <2> QED BY <2>1, <2>2
<1>3. n \in A
    <2> HIDE DEF A
    <2> QED BY <1>1, <1>2, UpwardInduction
<1> QED BY <1>3

-----------------------------------------------------------------------------
(* The picture of a flow *)

\* What may be drawn.
FlowNodes == Methods \cup Versions \cup Endpoints

\* Relationships between what may be drawn.
FlowEdges(edges) == IsFiniteSet(edges) /\ \A e \in edges : e[2] \in FlowNodes /\ e[3] \in FlowNodes

\* A place among the equals, 0 for what has none.
LEMMA Positions ==
    ASSUME NEW X, NEW order \in Seq(X), NEW n PROVE Position(order, n) \in Nat
<1>1. DOMAIN order = 1 .. Len(order) /\ Len(order) \in Nat
    BY LenProperties
<1>2. CASE Contains(order, n)
    <2>1. \E i \in DOMAIN order : order[i] = n
        BY <1>1, <1>2 DEF Contains
    <2>2. (CHOOSE i \in DOMAIN order : order[i] = n) \in DOMAIN order
        BY <2>1
    <2> QED BY <1>1, <1>2, <2>2 DEF Position
<1>3. CASE ~Contains(order, n)
    BY <1>3 DEF Position
<1> QED BY <1>2, <1>3

\* The name of the method asked about outweighs all other words.
LEMMA RootPriorities ==
    ASSUME NEW n \in FlowNodes, NEW target
    PROVE  /\ Priority[n] \in 0 .. 6 /\ RootPriority(n, target) \in Nat
           /\ (RootPriority(n, target) >= 10) <=> (n \in Mentioned[target])
<1>1. Priority[n] \in 0 .. 6
    BY QuestionAssumption DEF FlowNodes
<1>2. CASE n \in Mentioned[target]
    <2>1. RootPriority(n, target) = Priority[n] + 10
        BY <1>2 DEF RootPriority
    <2> QED BY <1>1, <1>2, <2>1
<1>3. CASE n \notin Mentioned[target]
    <2>1. RootPriority(n, target) = Priority[n] + 0
        BY <1>3 DEF RootPriority
    <2> QED BY <1>1, <1>3, <2>1
<1> QED BY <1>2, <1>3

\* Where a picture may start.
Sources(edges) == {e[2] : e \in edges}
Uncalled(edges) == Sources(edges) \ {e[3] : e \in edges}
Roots(edges) == IF Uncalled(edges) = {} THEN Sources(edges) ELSE Uncalled(edges)

\* The root is one of them, and no other has a better name.
LEMMA RootFound ==
    ASSUME NEW edges, FlowEdges(edges), edges # {}, NEW X, NEW order \in Seq(X), NEW target
    PROVE  /\ Root(edges, target, order) \in Roots(edges)
           /\ \A n \in Roots(edges) :
                 RootPriority(n, target) <= RootPriority(Root(edges, target, order), target)
<1> DEFINE S == Roots(edges)
           better(r, n) == \/ RootPriority(r, target) > RootPriority(n, target)
                           \/ /\ RootPriority(r, target) = RootPriority(n, target)
                              /\ Position(order, r) =< Position(order, n)
           R == {p \in S \X S : better(p[1], p[2])}
<1>1. IsFiniteSet(S) /\ S # {} /\ S \subseteq FlowNodes
    <2> DEFINE f == [e \in edges |-> e[2]]
               sources == Sources(edges)
    <2>1. f \in Surjection(edges, sources)
        BY DEF Surjection, Sources
    <2>2. sources # {} /\ sources \subseteq FlowNodes
        BY DEF Sources, FlowEdges
    <2>3. IsFiniteSet(edges)
        BY DEF FlowEdges
    <2> HIDE DEF f, sources
    <2>4. IsFiniteSet(sources)
        BY <2>1, <2>3, FS_Surjection
    <2>5. S \in SUBSET sources /\ S # {}
        BY <2>2 DEF Roots, Uncalled, sources
    <2> QED BY <2>2, <2>4, <2>5, FS_Subset
<1>2. \A n \in S : RootPriority(n, target) \in Nat /\ Position(order, n) \in Nat
    BY <1>1, Positions, RootPriorities
<1> HIDE DEF S
<1>3. \A x, y \in S : <<x, y>> \in R <=> better(x, y)
    OBVIOUS
<1>4. Ranks(R, S)
    <2>1. \A x, y \in S : better(x, y) \/ better(y, x)
        BY <1>2
    <2>2. \A x, y, z \in S : better(x, y) /\ better(y, z) => better(x, z)
        BY <1>2
    <2> HIDE DEF R, better
    <2> QED BY <1>3, <2>1, <2>2 DEF Ranks
<1>5. \E r \in S : \A n \in S : better(r, n)
    <2> HIDE DEF R, better
    <2>1. PICK r \in S : \A n \in S : <<r, n>> \in R
        BY <1>1, <1>4, FirstOf
    <2> QED BY <1>3, <2>1
<1>6. Root(edges, target, order) = CHOOSE r \in S : \A n \in S \ {r} : better(r, n)
    BY DEF Root, S, Roots, Uncalled, Sources
<1> HIDE DEF better
<1> DEFINE root == Root(edges, target, order)
<1>7. root \in S /\ \A n \in S \ {root} : better(root, n)
    BY <1>5, <1>6
<1> HIDE DEF root
<1>8. \A n \in S : RootPriority(n, target) <= RootPriority(root, target)
    <2> SUFFICES ASSUME NEW n \in S PROVE RootPriority(n, target) <= RootPriority(root, target)
        OBVIOUS
    <2>1. CASE n = root
        BY <1>2, <2>1
    <2>2. CASE n # root
        <3>1. better(root, n)
            BY <1>7, <2>2
        <3> QED BY <1>2, <1>7, <3>1 DEF better
    <2> QED BY <2>1, <2>2
<1> QED BY <1>7, <1>8 DEF S, root

\* What the lists of _select_primary_path hold for n: the nodes next to it and the
\* edges that lead there.
Leading(edges, n) ==
    {<<e[3], e>> : e \in {f \in edges : f[2] = n}}
        \cup {<<e[2], e>> : e \in {f \in edges : f[1] = "HANDLED_BY" /\ f[3] = n}}

\* An edge and its two ends.
LEMMA LeadingFrom ==
    ASSUME NEW edges, NEW n, NEW p \in Leading(edges, n)
    PROVE  /\ p[2] \in edges /\ {p[2][2], p[2][3]} = {n, p[1]}
           /\ p[1] \in Ends(edges)
<1>1. CASE \E e \in edges : e[2] = n /\ p = <<e[3], e>>
    BY <1>1 DEF Ends
<1>2. CASE \E e \in edges : e[3] = n /\ p = <<e[2], e>>
    BY <1>2 DEF Ends
<1> QED BY <1>1, <1>2 DEF Leading

\* Finitely many edges lead to finitely many nodes.
LEMMA LeadingFinite ==
    ASSUME NEW edges, FlowEdges(edges), NEW n PROVE IsFiniteSet(Leading(edges, n))
<1> DEFINE A == {f \in edges : f[2] = n}
           B == {f \in edges : f[1] = "HANDLED_BY" /\ f[3] = n}
           f == [e \in A |-> <<e[3], e>>]
           g == [e \in B |-> <<e[2], e>>]
           I == {<<e[3], e>> : e \in A}
           J == {<<e[2], e>> : e \in B}
<1>1. f \in Surjection(A, I) /\ g \in Surjection(B, J)
    BY DEF Surjection
<1>2. Leading(edges, n) = I \cup J
    BY DEF Leading
<1>3. A \in SUBSET edges /\ B \in SUBSET edges /\ IsFiniteSet(edges)
    BY DEF FlowEdges
<1> HIDE DEF A, B, f, g, I, J
<1>4. IsFiniteSet(A) /\ IsFiniteSet(B)
    BY <1>3, FS_Subset
<1>5. IsFiniteSet(I) /\ IsFiniteSet(J)
    BY <1>1, <1>4, FS_Surjection
<1> QED BY <1>2, <1>5, FS_Union

\* They are sorted.
LEMMA OutgoingList ==
    ASSUME NEW edges, FlowEdges(edges), NEW n, NEW X, NEW order \in Seq(X)
    PROVE  Outgoing(edges, n, order) \in SetToSeqs(Leading(edges, n))
<1> DEFINE S == Leading(edges, n)
           before(p, q) == \/ Priority[p[1]] > Priority[q[1]]
                           \/ /\ Priority[p[1]] = Priority[q[1]]
                              /\ \/ Position(order, p[1]) < Position(order, q[1])
                                 \/ /\ Position(order, p[1]) = Position(order, q[1])
                                    /\ p[2][1] = "HANDLED_BY" => q[2][1] = "HANDLED_BY"
           R == {p \in S \X S : before(p[1], p[2])}
<1>1. IsFiniteSet(S)
    BY LeadingFinite
<1>2. \A p \in S : Priority[p[1]] \in Nat /\ Position(order, p[1]) \in Nat
    <2> SUFFICES ASSUME NEW p \in S PROVE Priority[p[1]] \in Nat /\ Position(order, p[1]) \in Nat
        OBVIOUS
    <2>1. p[1] \in Ends(edges)
        BY LeadingFrom
    <2>2. p[1] \in FlowNodes
        BY <2>1 DEF Ends, FlowEdges
    <2>3. Priority[p[1]] \in 0 .. 6
        BY <2>2, RootPriorities
    <2>4. Position(order, p[1]) \in Nat
        BY Positions
    <2> QED BY <2>3, <2>4
<1>3. Outgoing(edges, n, order) =
          CHOOSE s \in SetToSeqs(S) : \A i, j \in DOMAIN s : i < j => before(s[i], s[j])
    BY DEF Outgoing, Leading
<1> HIDE DEF S
<1>4. \A x, y \in S : <<x, y>> \in R <=> before(x, y)
    OBVIOUS
<1>5. Ranks(R, S)
    <2>1. \A x, y \in S : before(x, y) \/ before(y, x)
        BY <1>2
    <2>2. \A x, y, z \in S : before(x, y) /\ before(y, z) => before(x, z)
        BY <1>2
    <2> HIDE DEF R, before
    <2> QED BY <1>4, <2>1, <2>2 DEF Ranks
<1>6. \E s \in SetToSeqs(S) : \A i, j \in DOMAIN s : i < j => before(s[i], s[j])
    <2> HIDE DEF R, before
    <2>1. PICK s \in SetToSeqs(S) : \A i, j \in DOMAIN s : i < j => <<s[i], s[j]>> \in R
        BY <1>1, <1>5, InOrder
    <2>2. \A i \in DOMAIN s : s[i] \in S
        BY <1>1, ListOfAll
    <2> QED BY <1>4, <2>1, <2>2
<1> HIDE DEF before
<1> QED BY <1>3, <1>6 DEF S

\* Edges that may be walked in both directions.
Both(edges) == edges \cup {<<e[1], e[3], e[2]>> : e \in edges}

\* What the walk from root has drawn: a tree, the nodes in the queue among it.
TreesOf(edges, root) ==
    {s \in [queue : Seq(Ends(edges)), nodes : SUBSET Ends(edges), edges : SUBSET edges] :
        /\ root \in s.nodes /\ ToSet(s.queue) \subseteq s.nodes
        /\ IsFiniteSet(s.nodes) /\ IsFiniteSet(s.edges)
        /\ Cardinality(s.nodes) = Cardinality(s.edges) + 1
        /\ Cardinality(s.nodes) <= MAX_FLOW_NODES
        /\ Ends(s.edges) \subseteq s.nodes
        /\ s.edges # {} => s.nodes \subseteq Ends(s.edges)
        /\ s.nodes \subseteq Within(Forward(Both(s.edges)), root, Cardinality(s.edges))}

\* An edge more leaves a tree.
LEMMA DrawKeeps ==
    ASSUME NEW edges, NEW root, NEW s \in TreesOf(edges, root), NEW n \in s.nodes,
           NEW p \in Leading(edges, n)
    PROVE  /\ Draw(s, p) \in TreesOf(edges, root) /\ s.nodes \subseteq Draw(s, p).nodes
           /\ Cardinality(Draw(s, p).nodes) <= Cardinality(s.nodes) + 1
           /\ Cardinality(s.nodes) < MAX_FLOW_NODES => p[1] \in Draw(s, p).nodes
<1> DEFINE x == p[1]
           e == p[2]
           count == Cardinality(s.edges)
<1>1. /\ s.queue \in Seq(Ends(edges)) /\ s.nodes \subseteq Ends(edges) /\ s.edges \subseteq edges
      /\ root \in s.nodes /\ ToSet(s.queue) \subseteq s.nodes
      /\ IsFiniteSet(s.nodes) /\ IsFiniteSet(s.edges)
      /\ Cardinality(s.nodes) = count + 1
      /\ Cardinality(s.nodes) <= MAX_FLOW_NODES
      /\ Ends(s.edges) \subseteq s.nodes
      /\ s.edges # {} => s.nodes \subseteq Ends(s.edges)
      /\ s.nodes \subseteq Within(Forward(Both(s.edges)), root, count)
    BY DEF TreesOf
<1>2. count \in Nat /\ Cardinality(s.nodes) \in Nat /\ MAX_FLOW_NODES \in Nat
    BY <1>1, FS_CardinalityType, FlowAssumption
<1>3. e \in edges /\ {e[2], e[3]} = {n, x} /\ x \in Ends(edges)
    BY LeadingFrom
<1>4. CASE x \in s.nodes \/ Cardinality(s.nodes) >= MAX_FLOW_NODES
    <2>1. Draw(s, p) = s
        BY <1>4 DEF Draw
    <2> QED BY <1>2, <1>4, <2>1
<1>5. CASE ~(x \in s.nodes \/ Cardinality(s.nodes) >= MAX_FLOW_NODES)
    <2> DEFINE t == [queue |-> Append(s.queue, x), nodes |-> s.nodes \cup {x},
                     edges |-> s.edges \cup {e}]
    <2>1. Draw(s, p) = t
        BY <1>5 DEF Draw
    <2>2. t \in [queue : Seq(Ends(edges)), nodes : SUBSET Ends(edges), edges : SUBSET edges]
        BY <1>1, <1>3
    <2>3. ToSet(t.queue) \subseteq t.nodes /\ root \in t.nodes /\ s.nodes \subseteq t.nodes
        <3>1. ToSet(t.queue) = ToSet(s.queue) \cup {x}
            BY <1>1, AppendSet
        <3> QED BY <1>1, <3>1
    <2>4. e \notin s.edges
        <3> SUFFICES ASSUME e \in s.edges PROVE FALSE
            OBVIOUS
        <3>1. {e[2], e[3]} \subseteq Ends(s.edges)
            BY DEF Ends
        <3> QED BY <1>1, <1>3, <1>5, <3>1
    <2>5. IsFiniteSet(t.nodes) /\ Cardinality(t.nodes) = Cardinality(s.nodes) + 1
        BY <1>1, <1>5, FS_AddElement
    <2>6. IsFiniteSet(t.edges) /\ Cardinality(t.edges) = count + 1
        BY <1>1, <2>4, FS_AddElement
    <2>7. Cardinality(t.nodes) <= MAX_FLOW_NODES
        BY <1>2, <1>5, <2>5
    <2>8. Ends(t.edges) = Ends(s.edges) \cup {n, x}
        <3>1. Ends(t.edges) = Ends(s.edges) \cup {e[2], e[3]}
            BY DEF Ends
        <3> QED BY <1>3, <3>1
    <2>9. Ends(t.edges) \subseteq t.nodes
        BY <1>1, <2>8
    <2>10. t.nodes \subseteq Ends(t.edges)
        <3>1. CASE s.edges # {}
            BY <1>1, <2>8, <3>1
        <3>2. CASE s.edges = {}
            <4>1. Cardinality(s.nodes) = 1
                BY <1>1, <3>2, FS_EmptySet
            <4>2. PICK y : s.nodes = {y}
                BY <1>1, <4>1, FS_Singleton
            <4> QED BY <2>8, <4>2
        <3> QED BY <3>1, <3>2
    <2>11. t.nodes \subseteq Within(Forward(Both(t.edges)), root, count + 1)
        <3> DEFINE less == Forward(Both(s.edges))
                   more == Forward(Both(t.edges))
        <3>1. less \subseteq more
            BY DEF Both, Forward
        <3>2. <<n, x>> \in more
            <4>1. \A a \in t.edges : a \in Both(t.edges) /\ <<a[1], a[3], a[2]>> \in Both(t.edges)
                BY DEF Both
            <4>2. \A a \in Both(t.edges) : <<a[2], a[3]>> \in more
                BY DEF Forward
            <4>3. e \in t.edges
                OBVIOUS
            <4> HIDE DEF more, t
            <4>4. <<e[2], e[3]>> \in more
                BY <4>1, <4>2, <4>3
            <4>5. <<e[3], e[2]>> \in more
                <5> DEFINE a == <<e[1], e[3], e[2]>>
                <5>1. a \in Both(t.edges)
                    BY <4>1, <4>3
                <5>2. <<a[2], a[3]>> \in more
                    BY <4>2, <5>1
                <5> QED BY <5>2
            <4> QED BY <1>3, <4>4, <4>5
        <3> HIDE DEF less, more, t
        <3>3. Within(less, root, count) \subseteq Within(more, root, count)
            BY <1>2, <3>1, WithinMore
        <3>4. Within(more, root, count + 1) = Hop(more, Within(more, root, count))
            BY <1>2, WithinNext
        <3>5. s.nodes \subseteq Within(more, root, count)
            BY <1>1, <3>3 DEF less
        <3>6. x \in Hop(more, Within(more, root, count))
            BY <3>2, <3>5, HopTo
        <3>7. \A y \in s.nodes : y \in Hop(more, Within(more, root, count))
            BY <3>5, HopTo
        <3>8. s.nodes \cup {x} \subseteq Within(more, root, count + 1)
            BY <3>4, <3>6, <3>7
        <3> QED BY <3>8 DEF more, t
    <2>12. t \in TreesOf(edges, root)
        <3>1. Cardinality(t.nodes) = Cardinality(t.edges) + 1
            BY <1>1, <1>2, <2>5, <2>6
        <3>2. t.nodes \subseteq Within(Forward(Both(t.edges)), root, Cardinality(t.edges))
            BY <2>6, <2>11
        <3> HIDE DEF t
        <3> QED BY <2>2, <2>3, <2>5, <2>6, <2>7, <2>9, <2>10, <3>1, <3>2 DEF TreesOf
    <2>13. x \in t.nodes
        OBVIOUS
    <2> HIDE DEF t
    <2> QED BY <1>2, <2>1, <2>3, <2>5, <2>12, <2>13
<1> QED BY <1>4, <1>5

\* The trees while the edges of a list, which lead on from n, are drawn one after the other.
DrawingTo(p, edges, root, s, n, list) ==
    /\ p \in [0 .. Len(list) -> {t \in TreesOf(edges, root) : n \in t.nodes}]
    /\ p[0] = s
    /\ \A k \in 0 .. Len(list) : k < Len(list) => p[k + 1] = Draw(p[k], list[k + 1])

\* There are such trees, and the last is what the fold ends with.
LEMMA Drawing ==
    ASSUME NEW edges, NEW root, NEW s \in TreesOf(edges, root), NEW n \in s.nodes,
           NEW list \in Seq(Leading(edges, n))
    PROVE  \E p : /\ DrawingTo(p, edges, root, s, n, list)
                  /\ p[Len(list)] = FoldLeft(Draw, s, list)
<1> DEFINE m == Len(list)
           V == {t \in TreesOf(edges, root) : n \in t.nodes}
           Add(t, j) == Draw(t, list[j])
           Eq(f) == f = [x \in SUBSET (1 .. m) |->
                           IF x = {} THEN s ELSE Add(f[x \ {Max(x)}], Max(x))]
           G == [y \in V \X (1 .. m) |-> Add(y[1], y[2])]
           kept == CHOOSE f : Eq(f)
<1>1. m \in Nat /\ DOMAIN list = 1 .. m /\ \A j \in 1 .. m : list[j] \in Leading(edges, n)
    OBVIOUS
<1>2. \A j \in 1 .. m : \A t \in V : Add(t, j) \in V
    <2> SUFFICES ASSUME NEW j \in 1 .. m, NEW t \in V PROVE Draw(t, list[j]) \in V
        OBVIOUS
    <2>1. t \in TreesOf(edges, root) /\ n \in t.nodes /\ list[j] \in Leading(edges, n)
        BY <1>1
    <2>2. Draw(t, list[j]) \in TreesOf(edges, root) /\ t.nodes \subseteq Draw(t, list[j]).nodes
        BY <2>1, DrawKeeps
    <2> QED BY <2>1, <2>2
<1>3. FoldLeft(Draw, s, list) = kept[1 .. m]
    BY <1>1 DEF FoldLeft, MapThenFoldSet
<1>4. s \in V
    OBVIOUS
<1> HIDE DEF V, m
<1>5. \A t \in V, j \in 1 .. m : G[<<t, j>>] = Add(t, j)
    OBVIOUS
<1>6. G \in [V \X (1 .. m) -> V]
    BY <1>2
<1> HIDE DEF G, Add
<1>7. PICK f \in [SUBSET (1 .. m) -> V] : FoldOf(f, m, s, G)
    BY <1>1, <1>4, <1>6, FoldExists
<1>a. \A x \in SUBSET (1 .. m) : x # {} => Max(x) \in 1 .. m
    BY <1>1, LastIndex
<1>8. Eq(f)
    <2>1. \A x \in SUBSET (1 .. m) : x # {} => f[x \ {Max(x)}] \in V
        BY <1>7
    <2> QED BY <1>a, <1>5, <1>7, <2>1 DEF FoldOf
<1>9. Eq(kept)
    <2> HIDE DEF Eq
    <2> QED BY <1>8
<1> HIDE DEF kept
<1>10. FoldsBy(kept, m, s, V, G)
    <2>1. kept[{}] = s
        <3>1. {} \in SUBSET (1 .. m)
            OBVIOUS
        <3> QED BY <1>9, <3>1
    <2>2. ASSUME NEW x \in SUBSET (1 .. m), x # {}, kept[x \ {Max(x)}] \in V
          PROVE  kept[x] = G[<<kept[x \ {Max(x)}], Max(x)>>]
        <3>1. kept[x] = Add(kept[x \ {Max(x)}], Max(x))
            BY <1>9, <2>2
        <3> QED BY <1>a, <1>5, <2>2, <3>1
    <2> HIDE DEF Eq
    <2> QED BY <1>1, <1>4, <1>6, <2>1, <2>2 DEF FoldsBy
<1>11. PICK p : Runs(p, m, V, G) /\ p[0] = s /\ p[m] = kept[1 .. m]
    BY <1>10, FoldRuns
<1>12. p \in [0 .. m -> V] /\ \A k \in 0 .. m : k < m => p[k + 1] = G[<<p[k], k + 1>>]
    BY <1>11 DEF Runs
<1>13. \A k \in 0 .. m : k < m => p[k + 1] = Add(p[k], k + 1)
    <2>1. \A k \in 0 .. m : k < m => k + 1 \in 1 .. m /\ p[k] \in V
        BY <1>1, <1>12
    <2> QED BY <1>5, <1>12, <2>1
<1>14. DrawingTo(p, edges, root, s, n, list)
    BY <1>11, <1>12, <1>13 DEF m, V, Add, DrawingTo
<1> QED BY <1>3, <1>11, <1>14 DEF m

\* When there is room for them, all the nodes of a list are drawn.
LEMMA Drawn ==
    ASSUME NEW edges, NEW root, NEW s \in TreesOf(edges, root), NEW n \in s.nodes,
           NEW list \in Seq(Leading(edges, n))
    PROVE  /\ FoldLeft(Draw, s, list) \in TreesOf(edges, root)
           /\ s.nodes \subseteq FoldLeft(Draw, s, list).nodes
           /\ Cardinality(s.nodes) + Len(list) <= MAX_FLOW_NODES =>
                 \A j \in 1 .. Len(list) : list[j][1] \in FoldLeft(Draw, s, list).nodes
<1>0. PICK p : /\ DrawingTo(p, edges, root, s, n, list)
               /\ p[Len(list)] = FoldLeft(Draw, s, list)
    BY Drawing
<1> DEFINE m == Len(list)
           c == Cardinality(s.nodes)
           room == c + m <= MAX_FLOW_NODES
<1>1. /\ p \in [0 .. m -> {t \in TreesOf(edges, root) : n \in t.nodes}]
      /\ p[0] = s /\ p[m] = FoldLeft(Draw, s, list)
      /\ \A k \in 0 .. m : k < m => p[k + 1] = Draw(p[k], list[k + 1])
    BY <1>0 DEF DrawingTo
<1>2. m \in Nat /\ \A j \in 1 .. m : list[j] \in Leading(edges, n)
    OBVIOUS
<1>3. c \in Nat /\ MAX_FLOW_NODES \in Nat
    BY FS_CardinalityType, FlowAssumption DEF TreesOf
<1> DEFINE A == {k \in Nat : k <= m =>
                    /\ s.nodes \subseteq p[k].nodes
                    /\ room => /\ Cardinality(p[k].nodes) <= c + k
                               /\ \A j \in 1 .. k : list[j][1] \in p[k].nodes}
<1> HIDE DEF m, c
<1>4. 0 \in A
    BY <1>1, <1>3 DEF c
<1>5. ASSUME NEW k \in Nat, k \in A PROVE k + 1 \in A
    <2> SUFFICES ASSUME k + 1 <= m
                 PROVE  /\ s.nodes \subseteq p[k + 1].nodes
                        /\ room => /\ Cardinality(p[k + 1].nodes) <= c + (k + 1)
                                   /\ \A j \in 1 .. (k + 1) : list[j][1] \in p[k + 1].nodes
        OBVIOUS
    <2>1. k \in 0 .. m /\ k < m /\ k + 1 \in 1 .. m
        BY <1>2
    <2>2. p[k] \in TreesOf(edges, root) /\ n \in p[k].nodes
        BY <1>1, <2>1
    <2>3. p[k + 1] = Draw(p[k], list[k + 1]) /\ list[k + 1] \in Leading(edges, n)
        BY <1>1, <1>2, <2>1
    <2> DEFINE next == p[k + 1]
    <2>4. /\ p[k].nodes \subseteq next.nodes
          /\ Cardinality(next.nodes) <= Cardinality(p[k].nodes) + 1
          /\ Cardinality(p[k].nodes) < MAX_FLOW_NODES => list[k + 1][1] \in next.nodes
        BY <2>2, <2>3, DrawKeeps
    <2>5. next \in TreesOf(edges, root)
        BY <2>2, <2>3, DrawKeeps
    <2>6. Cardinality(next.nodes) \in Nat /\ Cardinality(p[k].nodes) \in Nat
        BY <2>2, <2>5, FS_CardinalityType DEF TreesOf
    <2> HIDE DEF next
    <2>7. s.nodes \subseteq next.nodes
        BY <1>5, <2>1, <2>4
    <2>8. ASSUME room
          PROVE  /\ Cardinality(next.nodes) <= c + (k + 1)
                 /\ \A j \in 1 .. (k + 1) : list[j][1] \in next.nodes
        <3>1. Cardinality(p[k].nodes) <= c + k /\ \A j \in 1 .. k : list[j][1] \in p[k].nodes
            BY <1>5, <2>1, <2>8
        <3>2. Cardinality(p[k].nodes) < MAX_FLOW_NODES
            BY <1>2, <1>3, <2>1, <2>6, <2>8, <3>1
        <3>3. \A j \in 1 .. (k + 1) : j \in 1 .. k \/ j = k + 1
            OBVIOUS
        <3>4. \A j \in 1 .. (k + 1) : list[j][1] \in next.nodes
            BY <2>4, <3>1, <3>2, <3>3
        <3> QED BY <1>3, <2>4, <2>6, <3>1, <3>4
    <2> QED BY <2>7, <2>8 DEF next
<1>6. m \in A
    <2> HIDE DEF A
    <2> QED BY <1>2, <1>4, <1>5, UpwardInduction
<1>7. p[m] \in TreesOf(edges, root)
    BY <1>1, <1>2
<1> QED BY <1>1, <1>2, <1>6, <1>7 DEF m, c

\* One round of the walk.
OneRound(edges, order, s) ==
    IF s.queue = <<>> THEN s
    ELSE FoldLeft(Draw, [s EXCEPT !.queue = Tail(s.queue)], Outgoing(edges, Head(s.queue), order))

LEMMA RoundKeeps ==
    ASSUME NEW edges, FlowEdges(edges), NEW root, NEW X, NEW order \in Seq(X),
           NEW s \in TreesOf(edges, root)
    PROVE  /\ OneRound(edges, order, s) \in TreesOf(edges, root)
           /\ s.nodes \subseteq OneRound(edges, order, s).nodes
           /\ s.queue # <<>> /\ Cardinality(s.nodes) + Cardinality(Leading(edges, Head(s.queue)))
                                    <= MAX_FLOW_NODES =>
                 \A x \in Leading(edges, Head(s.queue)) : x[1] \in OneRound(edges, order, s).nodes
<1>1. CASE s.queue = <<>>
    BY <1>1 DEF OneRound
<1>2. CASE s.queue # <<>>
    <2> DEFINE n == Head(s.queue)
               t == [s EXCEPT !.queue = Tail(s.queue)]
               list == Outgoing(edges, n, order)
    <2>1. s.queue \in Seq(Ends(edges)) /\ ToSet(s.queue) \subseteq s.nodes
        BY DEF TreesOf
    <2>2. n \in s.nodes /\ Tail(s.queue) \in Seq(Ends(edges)) /\ ToSet(Tail(s.queue)) \subseteq s.nodes
        <3>1. Len(s.queue) \in Nat /\ Len(s.queue) # 0 /\ DOMAIN s.queue = 1 .. Len(s.queue)
            BY <1>2, <2>1, EmptySeq, LenProperties
        <3>2. n = s.queue[1] /\ 1 \in DOMAIN s.queue
            BY <2>1, <3>1
        <3>3. /\ Tail(s.queue) \in Seq(Ends(edges))
              /\ DOMAIN Tail(s.queue) = 1 .. (Len(s.queue) - 1)
              /\ \A i \in 1 .. (Len(s.queue) - 1) : Tail(s.queue)[i] = s.queue[i + 1]
            BY <1>2, <2>1, <3>1
        <3>4. \A i \in 1 .. (Len(s.queue) - 1) : i + 1 \in DOMAIN s.queue
            BY <3>1
        <3> QED BY <2>1, <3>2, <3>3, <3>4 DEF ToSet
    <2>3. t \in TreesOf(edges, root) /\ t.nodes = s.nodes
        BY <2>2 DEF TreesOf
    <2>4. list \in SetToSeqs(Leading(edges, n))
        BY OutgoingList
    <2>5. OneRound(edges, order, s) = FoldLeft(Draw, t, list)
        BY <1>2 DEF OneRound
    <2> HIDE DEF n, t, list
    <2>6. IsFiniteSet(Leading(edges, n))
        BY LeadingFinite
    <2>7. /\ list \in Seq(Leading(edges, n)) /\ Len(list) = Cardinality(Leading(edges, n))
          /\ \A x \in Leading(edges, n) : \E i \in 1 .. Len(list) : list[i] = x
        BY <2>4, <2>6, ListOfAll
    <2>8. n \in t.nodes
        BY <2>2, <2>3
    <2>9. /\ FoldLeft(Draw, t, list) \in TreesOf(edges, root)
          /\ t.nodes \subseteq FoldLeft(Draw, t, list).nodes
          /\ Cardinality(t.nodes) + Len(list) <= MAX_FLOW_NODES =>
                 \A j \in 1 .. Len(list) : list[j][1] \in FoldLeft(Draw, t, list).nodes
        BY <2>3, <2>7, <2>8, Drawn
    <2>10. Cardinality(s.nodes) + Cardinality(Leading(edges, n)) <= MAX_FLOW_NODES =>
              \A x \in Leading(edges, n) : x[1] \in FoldLeft(Draw, t, list).nodes
        BY <2>3, <2>7, <2>9
    <2> QED BY <2>3, <2>5, <2>9, <2>10 DEF n
<1> QED BY <1>1, <1>2

\* The tree there is at first.
LEMMA FirstTree ==
    ASSUME NEW edges, NEW root \in Ends(edges)
    PROVE  [queue |-> <<root>>, nodes |-> {root}, edges |-> {}] \in TreesOf(edges, root)
<1> DEFINE s == [queue |-> <<root>>, nodes |-> {root}, edges |-> {}]
<1>1. s \in [queue : Seq(Ends(edges)), nodes : SUBSET Ends(edges), edges : SUBSET edges]
    OBVIOUS
<1>2. ToSet(<<root>>) = {root}
    BY DEF ToSet
<1>3. /\ IsFiniteSet({root}) /\ IsFiniteSet({}) /\ Cardinality({root}) = 1 /\ Cardinality({}) = 0
    BY FS_Singleton, FS_EmptySet
<1>4. MAX_FLOW_NODES \in Nat /\ 1 <= MAX_FLOW_NODES
    BY FlowAssumption
<1>5. Ends({}) = {}
    BY DEF Ends
<1>6. {root} \subseteq Within(Forward(Both({})), root, 0)
    BY WithinNone
<1>7. /\ s.queue = <<root>> /\ s.nodes = {root} /\ s.edges = {}
    OBVIOUS
<1> HIDE DEF s
<1>8. /\ root \in s.nodes /\ ToSet(s.queue) \subseteq s.nodes
      /\ IsFiniteSet(s.nodes) /\ IsFiniteSet(s.edges)
      /\ Cardinality(s.nodes) = Cardinality(s.edges) + 1
      /\ Cardinality(s.nodes) <= MAX_FLOW_NODES
    BY <1>2, <1>3, <1>4, <1>7
<1>9. /\ Ends(s.edges) \subseteq s.nodes
      /\ s.edges # {} => s.nodes \subseteq Ends(s.edges)
      /\ s.nodes \subseteq Within(Forward(Both(s.edges)), root, Cardinality(s.edges))
    BY <1>3, <1>5, <1>6, <1>7
<1>10. s \in TreesOf(edges, root)
    BY <1>1, <1>8, <1>9 DEF TreesOf
<1> QED BY <1>10 DEF s

\* What is drawn is a tree from the root, and all that is next to the root is in it, if
\* there is room.
LEMMA PathDrawn ==
    ASSUME NEW edges, FlowEdges(edges), NEW X, NEW order \in Seq(X), NEW target,
           NEW root \in Ends(edges), root = Root(edges, target, order)
    PROVE  \E t \in TreesOf(edges, root) :
              /\ SelectPrimaryPath(edges, target, order) = t.edges
              /\ Cardinality(Leading(edges, root)) < MAX_FLOW_NODES =>
                    \A x \in Leading(edges, root) : x[1] \in t.nodes
<1> DEFINE V == TreesOf(edges, root)
           first == [queue |-> <<root>>, nodes |-> {root}, edges |-> {}]
           N == MAX_FLOW_NODES
           list == [i \in 1 .. N |-> i]
           Add(t, i) == IF t.queue = <<>> THEN t
                        ELSE FoldLeft(Draw, [t EXCEPT !.queue = Tail(@)],
                                      Outgoing(edges, Head(t.queue), order))
           Eq(f) == f = [x \in SUBSET (1 .. N) |->
                           IF x = {} THEN first ELSE Add(f[x \ {Max(x)}], list[Max(x)])]
           G == [y \in V \X (1 .. N) |-> Add(y[1], list[y[2]])]
           kept == CHOOSE f : Eq(f)
<1>1. N \in Nat /\ N # 0
    BY FlowAssumption
<1>2. SelectPrimaryPath(edges, target, order) = kept[1 .. N].edges
    <2>1. DOMAIN list = 1 .. N
        OBVIOUS
    <2> HIDE DEF list, N
    <2>2. FoldLeft(Add, first, list) = kept[1 .. N]
        BY <2>1 DEF FoldLeft, MapThenFoldSet
    <2> QED BY <2>2 DEF SelectPrimaryPath, list, N
<1>3. first \in V
    BY FirstTree
<1>4. \A t, i : Add(t, i) = OneRound(edges, order, t)
    BY DEF OneRound
<1>a. first.queue = <<root>> /\ first.nodes = {root}
    OBVIOUS
<1> HIDE DEF first, N, list, Add
<1>5. \A i : \A t \in V : Add(t, i) \in V /\ t.nodes \subseteq Add(t, i).nodes
    BY <1>4, RoundKeeps
<1> HIDE DEF V
<1>6. G \in [V \X (1 .. N) -> V] /\ \A t \in V, i \in 1 .. N : G[<<t, i>>] = Add(t, list[i])
    BY <1>5
<1> HIDE DEF G
<1>7. PICK f \in [SUBSET (1 .. N) -> V] : FoldOf(f, N, first, G)
    BY <1>1, <1>3, <1>6, FoldExists
<1>b. \A x \in SUBSET (1 .. N) : x # {} => Max(x) \in 1 .. N
    BY <1>1, LastIndex
<1>8. Eq(f)
    <2>1. \A x \in SUBSET (1 .. N) : x # {} => f[x \ {Max(x)}] \in V
        BY <1>7
    <2> QED BY <1>b, <1>6, <1>7, <2>1 DEF FoldOf
<1>9. Eq(kept)
    <2> HIDE DEF Eq
    <2> QED BY <1>8
<1> HIDE DEF kept
<1>10. kept[{}] = first
    <2>1. {} \in SUBSET (1 .. N)
        OBVIOUS
    <2> QED BY <1>9, <2>1
<1>11. \A x \in SUBSET (1 .. N) : x # {} => kept[x] = Add(kept[x \ {Max(x)}], list[Max(x)])
    BY <1>9
<1> HIDE DEF Eq
<1> DEFINE near == Cardinality(Leading(edges, root)) < N =>
                      \A x \in Leading(edges, root) : x[1] \in OneRound(edges, order, first).nodes
           next == OneRound(edges, order, first)
           W == {t \in V : t = first \/ next.nodes \subseteq t.nodes}
<1>12. near
    <2>1. Head(first.queue) = root /\ first.queue # <<>>
        BY <1>a
    <2>2. Cardinality(first.nodes) = 1
        BY <1>a, FS_Singleton
    <2>3. Cardinality(Leading(edges, root)) \in Nat
        BY LeadingFinite, FS_CardinalityType
    <2>4. first \in TreesOf(edges, root)
        BY <1>3 DEF V
    <2>5. Cardinality(Leading(edges, root)) < N => 1 + Cardinality(Leading(edges, root)) <= N
        BY <1>1, <2>3
    <2>6. Cardinality(first.nodes) + Cardinality(Leading(edges, root)) <= MAX_FLOW_NODES =>
              \A x \in Leading(edges, root) : x[1] \in OneRound(edges, order, first).nodes
        BY <2>1, <2>4, RoundKeeps
    <2> QED BY <2>2, <2>5, <2>6 DEF N
<1>13. ASSUME NEW x \in SUBSET (1 .. N), x # {}, kept[x \ {Max(x)}] \in W PROVE kept[x] \in W
    <2> DEFINE t == kept[x \ {Max(x)}]
    <2>1. kept[x] = Add(t, list[Max(x)]) /\ t \in V
        BY <1>11, <1>13
    <2> HIDE DEF t
    <2>2. kept[x] \in V /\ t.nodes \subseteq kept[x].nodes
        BY <1>5, <2>1
    <2>3. CASE t = first
        <3>1. kept[x] = next
            BY <1>4, <2>1, <2>3
        <3> QED BY <2>2, <3>1
    <2>4. CASE t # first
        BY <1>13, <2>2, <2>4 DEF t
    <2> QED BY <2>3, <2>4
<1>14. kept[{}] \in W
    BY <1>3, <1>10
<1>15. kept[1 .. N] \in W
    <2> HIDE DEF W
    <2> QED BY <1>1, <1>13, <1>14, FoldKeeps
<1> DEFINE last == kept[1 .. N]
<1>16. last \in V /\ next.nodes \subseteq last.nodes
    <2> DEFINE x == 1 .. N
               t == kept[x \ {Max(x)}]
    <2>1. 1 \in x /\ x \in SUBSET (1 .. N)
        BY <1>1
    <2>2. kept[x] = Add(t, list[Max(x)])
        BY <1>11, <2>1
    <2>3. t \in W
        <3> DEFINE y == x \ {Max(x)}
                   S == {z \in SUBSET (1 .. N) : kept[z] \in W}
        <3>1. {} \in S
            BY <1>14
        <3>2. \A z \in SUBSET (1 .. N) : z # {} /\ z \ {Max(z)} \in S => z \in S
            <4> HIDE DEF W
            <4> QED BY <1>13
        <3>3. y \in S
            <4>1. y \in SUBSET (1 .. N)
                OBVIOUS
            <4> HIDE DEF S
            <4> QED BY <1>1, <3>1, <3>2, <4>1, IndexInduction
        <3> QED BY <3>3
    <2> HIDE DEF x, t
    <2>4. kept[x] \in V /\ t.nodes \subseteq kept[x].nodes
        BY <1>5, <2>2, <2>3
    <2>5. CASE t = first
        <3>1. kept[x] = next
            BY <1>4, <2>2, <2>5
        <3> QED BY <2>4, <3>1 DEF x
    <2>6. CASE t # first
        BY <2>3, <2>4, <2>6 DEF x
    <2> QED BY <2>5, <2>6
<1> HIDE DEF last
<1>17. N = MAX_FLOW_NODES
    BY DEF N
<1>18. SelectPrimaryPath(edges, target, order) = last.edges
    BY <1>2 DEF last
<1>19. Cardinality(Leading(edges, root)) < MAX_FLOW_NODES =>
           \A x \in Leading(edges, root) : x[1] \in last.nodes
    BY <1>12, <1>16, <1>17
<1> QED BY <1>16, <1>18, <1>19 DEF V

-----------------------------------------------------------------------------
(* What may be drawn of the graph of a question *)

\* The call that e is drawn for is one of g's, of a version in S, and sure.
IsSureCall(e, g, S) ==
    \E v \in S : e[2] \in {v, MethodOf[v]} /\ <<v, e[3]>> \in (g.all \cup g.http) \ g.ambiguous

\* What a relationship says of its ends.
IsKnown(e, g, S) ==
    /\ e[1] \in CallRelations =>
          /\ e[2] \in S /\ e[3] \in Methods \cup Endpoints
          /\ <<e[2], e[3]>> \in (g.all \cup g.http) \ g.ambiguous
    /\ e[1] = "HAS_VERSION" => e[3] \in Versions /\ e[2] = MethodOf[e[3]]
    /\ e[1] = "EXPOSES" => e[2] \in Methods /\ e[3] \in Endpoints

GraphKnown(edges, g, S) == IsFiniteSet(edges) /\ \A e \in edges : IsKnown(e, g, S)

\* All that is followed is known, but the ambiguous calls, which are left out.
LEMMA FollowedKnown ==
    ASSUME StoreInv, NEW paths, paths \subseteq AllEdges, NEW nodes
    PROVE  GraphKnown(EdgesOf(paths, nodes), calls, stored)
<1>1. /\ stored \subseteq Versions /\ calls.all \subseteq Versions \X Methods
      /\ calls.http \subseteq Versions \X Endpoints
    BY QuestionAssumption DEF StoreInv
<1>2. ASSUME NEW e \in AllEdges, ~IsAmbiguousCall(e) PROVE IsKnown(e, calls, stored)
    <2>1. CASE e \in CallEdges
        <3>1. PICK c \in calls.all : e = <<"CALLS", c[1], c[2]>> /\ c[1] \in stored
            BY <2>1 DEF CallEdges
        <3>2. c = <<c[1], c[2]>> /\ c[2] \in Methods
            BY <1>1, <3>1
        <3> QED BY <1>2, <3>1, <3>2 DEF IsKnown, IsAmbiguousCall, CallRelations
    <2>2. CASE e \in HttpEdges
        <3>1. PICK c \in calls.http : e = <<"HTTP_CALLS", c[1], c[2]>> /\ c[1] \in stored
            BY <2>2 DEF HttpEdges
        <3>2. c = <<c[1], c[2]>> /\ c[2] \in Endpoints
            BY <1>1, <3>1
        <3> QED BY <1>2, <3>1, <3>2 DEF IsKnown, IsAmbiguousCall, CallRelations
    <2>3. CASE e \in VersionEdges
        BY <1>1, <2>3 DEF VersionEdges, IsKnown, CallRelations
    <2>4. CASE e \in HistoryEdges
        BY <2>4 DEF HistoryEdges, IsKnown, CallRelations
    <2>5. CASE e \in ContainsEdges
        BY <2>5 DEF ContainsEdges, IsKnown, CallRelations
    <2>6. CASE e \in ExposesEdges
        BY <2>6, QuestionAssumption DEF ExposesEdges, IsKnown, CallRelations
    <2> QED BY <1>2, <2>1, <2>2, <2>3, <2>4, <2>5, <2>6 DEF AllEdges
<1>3. EdgesOf(paths, nodes) \subseteq AllEdges /\ \A e \in EdgesOf(paths, nodes) : ~IsAmbiguousCall(e)
    BY DEF EdgesOf
<1>4. IsFiniteSet(EdgesOf(paths, nodes))
    BY <1>3, EdgesFinite, FS_Subset
<1> QED BY <1>2, <1>3, <1>4 DEF GraphKnown

\* A version stands for itself or its method, a method or an endpoint for itself.
LEMMA StandsFor ==
    ASSUME NEW edges, NEW g, NEW S, GraphKnown(edges, g, S)
    PROVE  /\ \A n : MethodByVersion(edges, n) \in {n, MethodOf[n]}
           /\ \A n \in Methods \cup Endpoints : MethodByVersion(edges, n) = n
<1> DEFINE owners(n) == {e[2] : e \in {f \in edges : f[1] = "HAS_VERSION" /\ f[3] = n}}
<1>1. \A n : \A m \in owners(n) : m = MethodOf[n] /\ n \in Versions
    BY DEF GraphKnown, IsKnown
<1>2. \A n : MethodByVersion(edges, n) = IF owners(n) = {} THEN n ELSE CHOOSE m \in owners(n) : TRUE
    BY DEF MethodByVersion
<1> HIDE DEF owners
<1>3. \A n \in Methods \cup Endpoints : n \notin Versions
    BY QuestionAssumption
<1>4. \A n : owners(n) # {} => (CHOOSE m \in owners(n) : TRUE) \in owners(n)
    OBVIOUS
<1> QED BY <1>1, <1>2, <1>3, <1>4

\* What may be drawn is a call that is sure, or leads from an endpoint to a method.
LEMMA MayBeDrawn ==
    ASSUME NEW edges, NEW g, NEW S, S \subseteq Versions, GraphKnown(edges, g, S)
    PROVE  /\ IsFiniteSet(Meaningful(edges))
           /\ \A e \in Meaningful(edges) :
                 \/ e[1] \in CallRelations /\ e[2] \in Methods \cup Versions
                       /\ e[3] \in Methods \cup Endpoints /\ IsSureCall(e, g, S)
                 \/ e[1] = "HANDLED_BY" /\ e[2] \in Endpoints /\ e[3] \in Methods
<1> DEFINE connected == Ends(ProjectedCalls(edges))
           C == {f \in edges : f[1] \in CallRelations}
           X == {f \in edges : f[1] = "EXPOSES" /\ f[2] \in connected}
           call(e) == <<e[1], MethodByVersion(edges, e[2]), MethodByVersion(edges, e[3])>>
           back(e) == <<"HANDLED_BY", e[3], e[2]>>
           p == [e \in C |-> call(e)]
           q == [e \in X |-> back(e)]
           I == {call(e) : e \in C}
           J == {back(e) : e \in X}
<1>1. Meaningful(edges) \subseteq I \cup J
    BY DEF Meaningful, ProjectedCalls, EndpointEdges
<1>2. p \in Surjection(C, I) /\ q \in Surjection(X, J)
    BY DEF Surjection
<1>3. C \in SUBSET edges /\ X \in SUBSET edges /\ IsFiniteSet(edges)
    BY DEF GraphKnown
<1>4. ASSUME NEW e \in I
      PROVE  e[1] \in CallRelations /\ e[2] \in Methods \cup Versions
                 /\ e[3] \in Methods \cup Endpoints /\ IsSureCall(e, g, S)
    <2>1. PICK f \in C : e = call(f)
        OBVIOUS
    <2>2. /\ f[1] \in CallRelations /\ f[2] \in S /\ f[3] \in Methods \cup Endpoints
          /\ <<f[2], f[3]>> \in (g.all \cup g.http) \ g.ambiguous
        BY DEF GraphKnown, IsKnown
    <2>3. MethodByVersion(edges, f[2]) \in {f[2], MethodOf[f[2]]}
        BY StandsFor
    <2>4. MethodByVersion(edges, f[3]) = f[3]
        BY <2>2, StandsFor
    <2>5. e[1] = f[1] /\ e[2] \in {f[2], MethodOf[f[2]]} /\ e[3] = f[3]
        BY <2>1, <2>3, <2>4
    <2>6. f[2] \in Versions /\ MethodOf[f[2]] \in Methods
        BY <2>2, ContextAssumption
    <2>7. IsSureCall(e, g, S)
        BY <2>2, <2>5 DEF IsSureCall
    <2> QED BY <2>2, <2>5, <2>6, <2>7
<1>5. \A e \in J : e[1] = "HANDLED_BY" /\ e[2] \in Endpoints /\ e[3] \in Methods
    <2> SUFFICES ASSUME NEW e \in J PROVE e[1] = "HANDLED_BY" /\ e[2] \in Endpoints /\ e[3] \in Methods
        OBVIOUS
    <2>1. PICK f \in X : e = back(f)
        OBVIOUS
    <2>2. f[2] \in Methods /\ f[3] \in Endpoints
        BY DEF GraphKnown, IsKnown
    <2> QED BY <2>1, <2>2
<1> HIDE DEF C, X, p, q, I, J
<1>6. IsFiniteSet(C) /\ IsFiniteSet(X)
    BY <1>3, FS_Subset
<1>7. IsFiniteSet(I) /\ IsFiniteSet(J)
    BY <1>2, <1>6, FS_Surjection
<1>8. IsFiniteSet(Meaningful(edges))
    BY <1>1, <1>7, FS_Union, FS_Subset
<1> QED BY <1>1, <1>4, <1>5, <1>8

-----------------------------------------------------------------------------
(* The picture holds *)

\* NothingStray, for the method m and the names in about.
AllFromThere(edges, m, about) ==
    \E t \in about \cap Ends(edges) :
        /\ Ends(edges) \cap Mentioned[m] \subseteq about
        /\ \A n \in Ends(edges) :
              \/ n \in Reachable(edges, t)
              \/ /\ <<"HANDLED_BY", n, t>> \in edges
                 /\ Cardinality({e \in edges : e[2] = n}) < MAX_FLOW_NODES

\* What is reached is led to, and something leads on from where it is reached from.
LEMMA ReachedAlong ==
    ASSUME NEW edges, IsFiniteSet(edges), NEW t, NEW n \in Reachable(edges, t), n # t
    PROVE  (\E e \in edges : e[3] = n) /\ (\E e \in edges : e[2] = t)
<1>1. Cardinality(edges) \in Nat
    BY FS_CardinalityType
<1>2. n \in Within(Forward(edges), t, Cardinality(edges))
    BY DEF Reachable
<1>3. (\E h \in Forward(edges) : h[2] = n) /\ (\E h \in Forward(edges) : h[1] = t)
    BY <1>1, <1>2, WithinEnds
<1> QED BY <1>3 DEF Forward

\* The picture begins at the method asked about or next to it: when it does not begin
\* there, it begins at an endpoint that the method handles.
LEMMA BeginsThere ==
    ASSUME NEW edges, FlowEdges(edges),
           \A e \in edges : e[1] = "HANDLED_BY" => e[2] \in Endpoints,
           NEW call \in edges, call[2] \in Methods \cup Versions,
           NEW v \in Versions, NEW m, m = MethodOf[v],
           NEW about, about = {v, m}, AllFromThere(edges, m, about),
           NEW X, NEW order \in Seq(X), NEW root, root = Root(edges, m, order)
    PROVE  \/ root \in about
           \/ \E t \in about : /\ <<"HANDLED_BY", root, t>> \in edges
                               /\ Cardinality(Leading(edges, root)) < MAX_FLOW_NODES
<1>1. m \in Methods /\ v \in Mentioned[m] /\ m \in Mentioned[m]
    BY ContextAssumption, QuestionAssumption
<1>2. edges # {}
    OBVIOUS
<1>3. root \in Roots(edges) /\ \A n \in Roots(edges) : RootPriority(n, m) <= RootPriority(root, m)
    BY <1>2, RootFound
<1>4. PICK t \in about \cap Ends(edges) :
          /\ Ends(edges) \cap Mentioned[m] \subseteq about
          /\ \A n \in Ends(edges) :
                \/ n \in Reachable(edges, t)
                \/ /\ <<"HANDLED_BY", n, t>> \in edges
                   /\ Cardinality({e \in edges : e[2] = n}) < MAX_FLOW_NODES
    BY DEF AllFromThere
<1>5. IsFiniteSet(edges)
    BY DEF FlowEdges
<1>6. SUFFICES ASSUME root \notin about
               PROVE  /\ <<"HANDLED_BY", root, t>> \in edges
                      /\ Cardinality(Leading(edges, root)) < MAX_FLOW_NODES
    OBVIOUS
<1>7. root \in Sources(edges) /\ root \in Ends(edges)
    BY <1>3 DEF Roots, Uncalled, Sources, Ends
<1>8. t \in Sources(edges)
    <2>1. call[2] \in Ends(edges)
        BY DEF Ends
    <2>2. CASE call[2] = t
        BY <2>2 DEF Sources
    <2>3. CASE call[2] \in Reachable(edges, t) /\ call[2] # t
        BY <1>5, <2>3, ReachedAlong DEF Sources
    <2>4. CASE <<"HANDLED_BY", call[2], t>> \in edges
        <3> DEFINE e == <<"HANDLED_BY", call[2], t>>
        <3>1. e \in edges /\ e[1] = "HANDLED_BY" /\ e[2] = call[2]
            BY <2>4
        <3> HIDE DEF e
        <3>2. call[2] \in Endpoints
            BY <3>1
        <3> QED BY <3>2, QuestionAssumption
    <2> QED BY <1>4, <2>1, <2>2, <2>3, <2>4
<1>9. root \notin Mentioned[m]
    BY <1>4, <1>6, <1>7
<1>10. t \notin Roots(edges)
    <2>1. t \in FlowNodes /\ root \in FlowNodes
        BY <1>4, <1>7 DEF Ends, FlowEdges
    <2>2. t \in Mentioned[m]
        BY <1>1, <1>4
    <2>3. /\ RootPriority(t, m) \in Nat /\ RootPriority(root, m) \in Nat
          /\ RootPriority(t, m) >= 10 /\ ~(RootPriority(root, m) >= 10)
        BY <1>9, <2>1, <2>2, RootPriorities
    <2> QED BY <1>3, <2>3
<1>11. \A e \in edges : e[3] # root
    BY <1>3, <1>8, <1>10 DEF Roots, Uncalled
<1>12. root # t
    BY <1>4, <1>6
<1>13. root \notin Reachable(edges, t)
    BY <1>5, <1>11, <1>12, ReachedAlong
<1>14. /\ <<"HANDLED_BY", root, t>> \in edges
       /\ Cardinality({e \in edges : e[2] = root}) < MAX_FLOW_NODES
    BY <1>4, <1>7, <1>13
<1>15. Cardinality(Leading(edges, root)) < MAX_FLOW_NODES
    <2> DEFINE A == {e \in edges : e[2] = root}
               I == {<<e[3], e>> : e \in A}
               f == [e \in A |-> <<e[3], e>>]
    <2>1. Leading(edges, root) = I
        BY <1>11 DEF Leading
    <2>2. f \in Surjection(A, I)
        BY DEF Surjection
    <2>3. A \in SUBSET edges /\ Cardinality(A) < MAX_FLOW_NODES
        BY <1>14
    <2> HIDE DEF A, I, f
    <2>4. IsFiniteSet(A)
        BY <1>5, <2>3, FS_Subset
    <2>5. IsFiniteSet(I) /\ Cardinality(I) <= Cardinality(A)
        BY <2>2, <2>4, FS_Surjection
    <2>6. Cardinality(I) \in Nat /\ Cardinality(A) \in Nat /\ MAX_FLOW_NODES \in Nat
        BY <2>4, <2>5, FS_CardinalityType, FlowAssumption
    <2> QED BY <2>1, <2>3, <2>5, <2>6
<1> QED BY <1>14, <1>15

\* What is shown with the answer to a flow question about the method m, whose version v
\* was found; S is stored, with g's calls.
IsPicture(shown, edges, m, about, g, S) ==
    LET drawn == shown.edges IN
    /\ Ends(drawn) \subseteq shown.nodes
    /\ drawn # {} =>
          /\ Cardinality(shown.nodes) = Cardinality(drawn) + 1
          /\ Cardinality(shown.nodes) =< MAX_FLOW_NODES
          /\ \E r \in shown.nodes : shown.nodes \subseteq Reachable(Both(drawn), r)
          /\ \A e \in drawn : e[1] \in CallRelations => IsSureCall(e, g, S)
          /\ AllFromThere(Meaningful(edges), m, about) => about \cap shown.nodes # {}

\* Of the graph of a question such a picture is drawn.
LEMMA FlowDrawn ==
    ASSUME NEW S, S \subseteq Versions, NEW g, NEW edges, GraphKnown(edges, g, S),
           NEW v \in Versions, NEW m, m = MethodOf[v], NEW about, about = {v, m},
           NEW X, NEW order \in Seq(X)
    PROVE  IsPicture(FilteredFlow(Flow(edges, m, order)), edges, m, about, g, S)
<1> DEFINE M == Meaningful(edges)
           drawn == Flow(edges, m, order)
           root == Root(M, m, order)
           shown == FilteredFlow(drawn)
<1>1. /\ IsFiniteSet(M)
      /\ \A e \in M : \/ e[1] \in CallRelations /\ e[2] \in Methods \cup Versions
                             /\ e[3] \in Methods \cup Endpoints /\ IsSureCall(e, g, S)
                      \/ e[1] = "HANDLED_BY" /\ e[2] \in Endpoints /\ e[3] \in Methods
    BY MayBeDrawn
<1>2. Ends(shown.edges) \subseteq shown.nodes
    BY DEF FilteredFlow
<1>3. CASE drawn = {}
    <2>1. shown.edges = {}
        BY <1>3 DEF FilteredFlow
    <2> QED BY <1>2, <2>1 DEF IsPicture
<1>4. CASE drawn # {}
    <2>1. /\ M # {} /\ drawn = SelectPrimaryPath(M, m, order)
          /\ \E e \in drawn : e[1] \in CallRelations
        BY <1>4 DEF Flow
    <2> HIDE DEF M, drawn, shown
    <2>2. FlowEdges(M)
        BY <1>1 DEF FlowEdges, FlowNodes
    <2>3. root \in Roots(M)
        BY <2>1, <2>2, RootFound
    <2>4. root \in Ends(M)
        BY <2>3 DEF Roots, Uncalled, Sources, Ends
    <2> HIDE DEF root
    <2>5. root = Root(M, m, order)
        BY DEF root
    <2>6. PICK t \in TreesOf(M, root) :
              /\ SelectPrimaryPath(M, m, order) = t.edges
              /\ Cardinality(Leading(M, root)) < MAX_FLOW_NODES =>
                    \A x \in Leading(M, root) : x[1] \in t.nodes
        BY <2>2, <2>4, <2>5, PathDrawn
    <2>7. /\ root \in t.nodes /\ IsFiniteSet(t.edges) /\ t.edges \subseteq M
          /\ Cardinality(t.nodes) = Cardinality(t.edges) + 1
          /\ Cardinality(t.nodes) <= MAX_FLOW_NODES
          /\ Ends(t.edges) \subseteq t.nodes
          /\ t.edges # {} => t.nodes \subseteq Ends(t.edges)
          /\ t.nodes \subseteq Within(Forward(Both(t.edges)), root, Cardinality(t.edges))
        BY DEF TreesOf
    <2>8. drawn = t.edges
        BY <2>1, <2>6
    <2>9. shown.edges = drawn /\ shown.nodes = t.nodes
        <3>1. \A e \in drawn : e[1] \in FlowEdgeTypes
            BY <1>1, <2>7, <2>8 DEF FlowEdgeTypes
        <3>2. shown = [nodes |-> Ends(drawn), edges |-> drawn]
            <4>1. {e \in drawn : e[1] \in FlowEdgeTypes} = drawn
                BY <3>1
            <4> QED BY <4>1 DEF shown, FilteredFlow
        <3>3. Ends(drawn) = t.nodes
            BY <1>4, <2>7, <2>8
        <3> QED BY <3>2, <3>3
    <2>10. t.nodes \subseteq Reachable(Both(drawn), root)
        <3>1. IsFiniteSet(Both(drawn)) /\ drawn \subseteq Both(drawn)
            <4> DEFINE I == {<<e[1], e[3], e[2]>> : e \in drawn}
                       f == [e \in drawn |-> <<e[1], e[3], e[2]>>]
            <4>1. f \in Surjection(drawn, I) /\ Both(drawn) = drawn \cup I
                BY DEF Surjection, Both
            <4> HIDE DEF I, f
            <4>2. IsFiniteSet(drawn)
                BY <2>7, <2>8
            <4>3. IsFiniteSet(I)
                BY <4>1, <4>2, FS_Surjection
            <4> QED BY <4>1, <4>2, <4>3, FS_Union
        <3>2. /\ Cardinality(drawn) \in Nat /\ Cardinality(Both(drawn)) \in Nat
              /\ Cardinality(drawn) <= Cardinality(Both(drawn))
            BY <3>1, FS_Subset, FS_CardinalityType
        <3>3. Within(Forward(Both(drawn)), root, Cardinality(drawn))
                  \subseteq Within(Forward(Both(drawn)), root, Cardinality(Both(drawn)))
            BY <3>2, WithinMore
        <3> QED BY <2>7, <2>8, <3>3 DEF Reachable
    <2>11. \A e \in drawn : e[1] \in CallRelations => IsSureCall(e, g, S)
        <3>1. "HANDLED_BY" \notin CallRelations
            BY DEF CallRelations
        <3> QED BY <1>1, <2>7, <2>8, <3>1
    <2>12. ASSUME AllFromThere(M, m, about) PROVE about \cap t.nodes # {}
        <3>1. PICK call \in M : call[2] \in Methods \cup Versions
            <4>1. PICK e \in drawn : e[1] \in CallRelations
                BY <2>1
            <4>2. "HANDLED_BY" \notin CallRelations
                BY DEF CallRelations
            <4> QED BY <1>1, <2>7, <2>8, <4>1, <4>2
        <3>2. \A e \in M : e[1] = "HANDLED_BY" => e[2] \in Endpoints
            BY <1>1 DEF CallRelations
        <3>3. \/ root \in about
              \/ \E x \in about : /\ <<"HANDLED_BY", root, x>> \in M
                                  /\ Cardinality(Leading(M, root)) < MAX_FLOW_NODES
            BY <2>2, <2>5, <2>12, <3>1, <3>2, BeginsThere
        <3>4. ASSUME NEW x \in about, <<"HANDLED_BY", root, x>> \in M,
                     Cardinality(Leading(M, root)) < MAX_FLOW_NODES
              PROVE  x \in t.nodes
            <4> DEFINE e == <<"HANDLED_BY", root, x>>
            <4>1. e \in M /\ e[2] = root /\ e[3] = x
                BY <3>4
            <4> HIDE DEF e
            <4>2. <<x, e>> \in Leading(M, root)
                BY <4>1 DEF Leading
            <4>3. <<x, e>>[1] \in t.nodes
                BY <2>6, <3>4, <4>2
            <4> QED BY <4>3
        <3> QED BY <2>7, <3>3, <3>4
    <2>13. /\ Cardinality(shown.nodes) = Cardinality(shown.edges) + 1
           /\ Cardinality(shown.nodes) =< MAX_FLOW_NODES
           /\ root \in shown.nodes /\ shown.nodes \subseteq Reachable(Both(shown.edges), root)
           /\ \A e \in shown.edges : e[1] \in CallRelations => IsSureCall(e, g, S)
           /\ AllFromThere(M, m, about) => about \cap shown.nodes # {}
        BY <2>7, <2>8, <2>9, <2>10, <2>11, <2>12
    <2>14. IsPicture(shown, edges, m, about, g, S)
        BY <1>2, <2>13 DEF IsPicture, M
    <2> QED BY <2>14 DEF shown, drawn
<1> QED BY <1>3, <1>4

\* PictureHolds, of the state s of a question, with the calls g of what is in S.
Picture(s, g, S) ==
    s.pc = "answered" =>
        /\ Ends(s.shown.edges) \subseteq s.shown.nodes
        /\ s.kind = "flow" /\ s.shown.edges # {} =>
              /\ Cardinality(s.shown.nodes) = Cardinality(s.shown.edges) + 1
              /\ Cardinality(s.shown.nodes) =< MAX_FLOW_NODES
              /\ \E r \in s.shown.nodes : s.shown.nodes \subseteq Reachable(Both(s.shown.edges), r)
              /\ \A e \in s.shown.edges : e[1] \in CallRelations => IsSureCall(e, g, S)
              /\ AllFromThere(Meaningful(s.edges), MethodOf[s.target], {s.target, MethodOf[s.target]})
                    => {s.target, MethodOf[s.target]} \cap s.shown.nodes # {}

\* It is, before a step and after.
LEMMA PictureIs ==
    /\ PictureHolds <=> Picture(qa, calls, stored)
    /\ PictureHolds' <=> Picture(qa', calls', stored')
BY DEF PictureHolds, Picture, IsSureCall, NothingStray, AllFromThere, AskedAbout, Both

\* The nodes after the traversal, up to the answer.
Traversed == {"enrich", "fuse", "validate", "compose", "ask", "ask_again"}

\* The graph of a question has what is known of the store, and nothing without a target.
SoundGraph(s, g, S) ==
    /\ GraphKnown(s.edges, g, S)
    /\ s.pc \in Traversed /\ s.target = None => s.edges = {}

PictureInv == GraphInv /\ SoundGraph(qa, calls, stored) /\ Picture(qa, calls, stored)

\* A question starts without edges.
LEMMA AskedSound ==
    ASSUME NEW names, NEW ranking, NEW g, NEW S
    PROVE  SoundGraph(Asked(names, ranking), g, S) /\ Picture(Asked(names, ranking), g, S)
<1>1. IsFiniteSet({})
    BY FS_EmptySet
<1>2. Asked(names, ranking).edges = {} /\ Asked(names, ranking).pc = "analyze"
    BY DEF Asked
<1> QED BY <1>1, <1>2 DEF SoundGraph, GraphKnown, Traversed, Picture

\* A node that leaves the graph alone.
LEMMA SoundStays ==
    ASSUME NEW s, NEW g, NEW S, SoundGraph(s, g, S), NEW t, t.edges = s.edges,
           t.pc \in Traversed => s.pc \in Traversed /\ t.target = s.target
    PROVE  SoundGraph(t, g, S)
BY DEF SoundGraph

\* What is known stays known when more is stored.
LEMMA MoreStored ==
    ASSUME NEW s, NEW g, NEW S, NEW T, S \subseteq T, SoundGraph(s, g, S), Picture(s, g, S)
    PROVE  SoundGraph(s, g, T) /\ Picture(s, g, T)
<1>1. \A e : IsSureCall(e, g, S) => IsSureCall(e, g, T)
    BY DEF IsSureCall
<1>2. \A e : IsKnown(e, g, S) => IsKnown(e, g, T)
    BY DEF IsKnown
<1>3. SoundGraph(s, g, T)
    BY <1>2 DEF SoundGraph, GraphKnown
<1>4. Picture(s, g, T)
    BY <1>1 DEF Picture
<1> QED BY <1>3, <1>4

\* What the last node shows.
LEMMA PictureShown ==
    ASSUME PictureInv, qa.pc \in {"ask", "ask_again"}, NEW order \in Orders,
           NEW t, t.pc = "answered", t.kind = qa.kind, t.edges = qa.edges, t.target = qa.target,
           t.shown = GraphFrom(qa.kind, qa.nodes, qa.edges,
                               IF qa.target = None THEN None ELSE MethodOf[qa.target], order)
    PROVE  Picture(t, calls, stored)
<1>1. /\ CodeHandedOn(qa) /\ GraphKnown(qa.edges, calls, stored) /\ stored \subseteq Versions
      /\ qa.target = None => qa.edges = {}
    BY DEF PictureInv, GraphInv, EvidenceInv, StoreInv, SoundGraph, Traversed
<1>2. order \in Seq(Methods \cup Endpoints)
    BY QuestionAssumption
<1>3. CASE qa.kind # "flow"
    <2>1. t.shown = [nodes |-> qa.nodes, edges |-> qa.edges]
        BY <1>3 DEF GraphFrom
    <2>2. Ends(qa.edges) \subseteq qa.nodes
        BY <1>1 DEF Ends, CodeHandedOn
    <2> QED BY <1>3, <2>1, <2>2 DEF Picture
<1>4. CASE qa.kind = "flow" /\ qa.target = None
    <2>1. t.shown = FilteredFlow(Flow(qa.edges, None, order))
        BY <1>4 DEF GraphFrom
    <2>2. Meaningful(qa.edges) = {}
        <3>1. qa.edges = {}
            BY <1>1, <1>4
        <3> QED BY <3>1 DEF Meaningful, ProjectedCalls
    <2>3. Flow(qa.edges, None, order) = {}
        BY <2>2 DEF Flow
    <2>4. t.shown.edges = {} /\ Ends(t.shown.edges) \subseteq t.shown.nodes
        BY <2>1, <2>3 DEF FilteredFlow
    <2> QED BY <2>4 DEF Picture
<1>5. CASE qa.kind = "flow" /\ qa.target # None
    <2> DEFINE m == MethodOf[qa.target]
               about == {qa.target, m}
    <2>1. t.shown = FilteredFlow(Flow(qa.edges, m, order))
        BY <1>5 DEF GraphFrom
    <2>2. qa.target \in Versions
        BY <1>1, <1>5 DEF CodeHandedOn
    <2> HIDE DEF m, about
    <2>3. m = MethodOf[qa.target] /\ about = {qa.target, m}
        BY DEF m, about
    <2>4. IsPicture(t.shown, qa.edges, m, about, calls, stored)
        <3> DEFINE X == Methods \cup Endpoints
        <3>1. stored \subseteq Versions /\ GraphKnown(qa.edges, calls, stored) /\ order \in Seq(X)
            BY <1>1, <1>2
        <3> HIDE DEF X
        <3>2. IsPicture(FilteredFlow(Flow(qa.edges, m, order)), qa.edges, m, about, calls, stored)
            BY <2>2, <2>3, <3>1, FlowDrawn
        <3> QED BY <2>1, <3>2
    <2>5. m = MethodOf[t.target] /\ about = {t.target, MethodOf[t.target]} /\ t.edges = qa.edges
        BY <2>3
    <2> QED BY <2>4, <2>5 DEF IsPicture, Picture
<1> QED BY <1>3, <1>4, <1>5

\* Every step keeps the graph sound and the picture one of it.
LEMMA StepKeepsPicture ==
    PictureInv /\ [Next]_vars => SoundGraph(qa', calls', stored') /\ Picture(qa', calls', stored')
<1> SUFFICES ASSUME PictureInv, [Next]_vars
             PROVE  SoundGraph(qa', calls', stored') /\ Picture(qa', calls', stored')
    OBVIOUS
<1> DEFINE Sound == SoundGraph(qa', calls', stored') /\ Picture(qa', calls', stored')
<1>a. /\ DOMAIN qa = Fields /\ CodeHandedOn(qa) /\ GraphHandedOn(qa) /\ StoreInv
      /\ SoundGraph(qa, calls, stored) /\ Picture(qa, calls, stored)
    BY DEF PictureInv, GraphInv, EvidenceInv, QuestionInv, HandedOn
<1>b. ASSUME UNCHANGED store, qa'.pc # "answered", qa'.edges = qa.edges,
             qa'.pc \in Traversed => qa.pc \in Traversed /\ qa'.target = qa.target
      PROVE  Sound
    <2>1. SoundGraph(qa', calls, stored)
        BY <1>a, <1>b, SoundStays
    <2>2. calls' = calls /\ stored' = stored
        BY <1>b, StoreStays DEF store
    <2> QED BY <1>b, <2>1, <2>2 DEF Picture
<1>c. ASSUME qa' = qa, calls' = calls, stored \subseteq stored' PROVE Sound
    BY <1>a, <1>c, MoreStored
<1>1. CASE UNCHANGED vars
    BY <1>1, <1>c, StoreStays DEF vars
<1>2. ASSUME NEW kind \in QuestionKind, ClassifyQuestion(kind) PROVE Sound
    BY <1>a, <1>2, <1>b DEF ClassifyQuestion, Goto, Fields, Traversed
<1>3. CASE ResolveEntities
    BY <1>a, <1>3, <1>b DEF ResolveEntities, Goto, Fields, Traversed
<1>4. CASE SearchVectorEvidence
    BY <1>a, <1>4, <1>b DEF SearchVectorEvidence, Goto, Fields, Traversed
<1>5. ASSUME NEW v \in Versions \cup {None}, SelectTarget(v) PROVE Sound
    BY <1>a, <1>5, <1>b DEF SelectTarget, Goto, Fields, Traversed
<1>6. CASE SearchGraphEvidence
    <2> DEFINE paths == IF qa.target = None THEN {} ELSE Traversal(qa.kind, qa.target)
               nodes == IF qa.target = None THEN {}
                        ELSE NodesOf(paths, StartNode(qa.kind, qa.target))
               edges == EdgesOf(paths, nodes)
    <2>1. qa' = [[qa EXCEPT !.nodes = nodes, !.edges = edges] EXCEPT !.pc = "enrich"]
        BY <1>6 DEF SearchGraphEvidence, Goto
    <2>2. calls' = calls /\ stored' = stored
        BY <1>6, StoreStays DEF SearchGraphEvidence, store
    <2>3. paths \subseteq AllEdges
        <3>1. qa.kind \in QuestionKind
            BY <1>a DEF CodeHandedOn
        <3> QED BY <3>1, TraversalFollows
    <2>4. qa.target = None => edges = {}
        BY DEF EdgesOf
    <2> HIDE DEF paths, nodes
    <2>5. GraphKnown(edges, calls, stored)
        BY <1>a, <2>3, FollowedKnown
    <2> HIDE DEF edges
    <2>6. qa'.pc = "enrich" /\ qa'.edges = edges /\ qa'.target = qa.target
        BY <1>a, <2>1 DEF Fields
    <2> QED BY <2>2, <2>4, <2>5, <2>6 DEF SoundGraph, Picture
<1>7. CASE EnrichCodeEvidence
    BY <1>a, <1>7, <1>b DEF EnrichCodeEvidence, Goto, Fields, Traversed
<1>8. CASE FuseEvidence
    <2>1. PICK history \in HistoryOrders :
              qa' = [[qa EXCEPT !.evidence = Fused(history)] EXCEPT !.pc = "validate"]
        BY <1>8 DEF FuseEvidence, Goto
    <2>2. UNCHANGED store /\ qa.pc = "fuse"
        BY <1>8 DEF FuseEvidence
    <2> QED BY <1>a, <1>b, <2>1, <2>2 DEF Fields, Traversed
<1>9. CASE ValidateEvidence
    <2>1. /\ qa' = [Validated EXCEPT !.pc = RouteAfterValidation(Validated)]
          /\ qa.pc = "validate" /\ RouteAfterValidation(Validated) \in {"compose", "search"}
          /\ UNCHANGED store
        BY <1>9 DEF ValidateEvidence, Goto, RouteAfterValidation
    <2>2. /\ DOMAIN Validated = Fields
          /\ Validated.edges = qa.edges /\ Validated.target = qa.target
        BY <1>a DEF Validated, Fields
    <2> HIDE DEF Validated, RouteAfterValidation
    <2> QED BY <1>b, <2>1, <2>2 DEF Fields, Traversed
<1>10. CASE ComposeAnswer
    <2>1. PICK context : qa' = [[qa EXCEPT !.context = context] EXCEPT !.pc = "ask"]
        BY <1>10 DEF ComposeAnswer, Goto
    <2>2. UNCHANGED store /\ qa.pc = "compose"
        BY <1>10 DEF ComposeAnswer
    <2> QED BY <1>a, <1>b, <2>1, <2>2 DEF Fields, Traversed
<1>11. CASE ProviderLimit
    <2>1. PICK smaller : qa' \in {[[qa EXCEPT !.context = smaller] EXCEPT !.pc = "ask_again"],
                                  [qa EXCEPT !.pc = "failed"]}
        BY <1>11 DEF ProviderLimit, Goto
    <2>2. UNCHANGED store /\ qa.pc = "ask"
        BY <1>11 DEF ProviderLimit
    <2> QED BY <1>a, <1>b, <2>1, <2>2 DEF Fields, Traversed
<1>12. CASE Answered
    <2>1. /\ qa.pc \in {"ask", "ask_again"} /\ calls' = calls /\ stored' = stored
          /\ \E order \in Orders :
                qa' = [[qa EXCEPT !.shown = GraphFrom(qa.kind, qa.nodes, qa.edges,
                           IF qa.target = None THEN None ELSE MethodOf[qa.target], order)]
                       EXCEPT !.pc = "answered"]
        BY <1>12, StoreStays DEF Answered, Goto, store
    <2>2. PICK order \in Orders :
                qa' = [[qa EXCEPT !.shown = GraphFrom(qa.kind, qa.nodes, qa.edges,
                           IF qa.target = None THEN None ELSE MethodOf[qa.target], order)]
                       EXCEPT !.pc = "answered"]
        BY <2>1
    <2>3. /\ qa'.pc = "answered" /\ qa'.kind = qa.kind /\ qa'.edges = qa.edges
          /\ qa'.target = qa.target
          /\ qa'.shown = GraphFrom(qa.kind, qa.nodes, qa.edges,
                             IF qa.target = None THEN None ELSE MethodOf[qa.target], order)
        BY <1>a, <2>2 DEF Fields
    <2>4. Picture(qa', calls, stored)
        BY <2>1, <2>3, PictureShown
    <2>5. SoundGraph(qa', calls, stored)
        BY <1>a, <2>3, SoundStays DEF Traversed
    <2> QED BY <2>1, <2>4, <2>5
<1>13. CASE NodeFails
    BY <1>a, <1>13, <1>b DEF NodeFails, Goto, Fields, Traversed
<1>14. ASSUME NEW names, NEW ranking, AskAgain(names, ranking) PROVE Sound
    BY <1>14, AskedSound DEF AskAgain
<1>15. CASE \E a \in Analyses : StoreHistory(a.commits) \/ StoreChunks(a.checkout)
    BY <1>15, <1>c, StoreGrows, StoreStays DEF StoreHistory, StoreChunks
<1> QED
    BY <1>1, <1>2, <1>3, <1>4, <1>5, <1>6, <1>7, <1>8, <1>9, <1>10, <1>11, <1>12, <1>13, <1>14,
       <1>15 DEF Next, PipelineStep

\* Whatever the traversal of a flow found, whatever order equals come in and whatever is
\* analysed meanwhile: the picture CallFlowBuilder draws is a tree of at most
\* MAX_FLOW_NODES nodes, its calls are sure ones of stored versions, and the method
\* asked about is in it when all that may be drawn is reached from there; the graph shown
\* with any answer has both ends of its edges.
THEOREM PictureTrue == Spec => []PictureHolds
<1>1. Init => SoundGraph(qa, calls, stored) /\ Picture(qa, calls, stored)
    BY AskedSound DEF Init
<1>2. PictureInv /\ [Next]_vars => (SoundGraph(qa, calls, stored) /\ Picture(qa, calls, stored))'
    BY StepKeepsPicture
<1>3. Spec => []PictureInv
    BY <1>1, <1>2, GraphHolds, PTL DEF Spec, PictureInv
<1>4. PictureInv => PictureHolds
    BY PictureIs DEF PictureInv
<1> QED BY <1>3, <1>4, PTL

-----------------------------------------------------------------------------
(* The breadth first search of the enricher leaves nothing out *)

\* The methods w calls, the versions of m, and what a call of the one leads to as the
\* only one of the other, by the relationships in edges.
CalledFrom(edges, w) == {e[3] : e \in {f \in edges : f[1] = "CALLS" /\ f[2] = w}}
VersionsOf(edges, m) == {e[3] : e \in {f \in edges : f[1] = "HAS_VERSION" /\ f[2] = m}}
LeadsTo(edges, w, x) == \E m \in CalledFrom(edges, w) : VersionsOf(edges, m) = {x}

\* What holds between two visits: whatever a visited method leads to was found.
Settled(edges, v, M, s) ==
    /\ s \in SearchState(edges, v, M)
    /\ v \in s.versions /\ ToSet(s.ordered) = s.versions \ {v}
    /\ \A m \in s.methods : \A x : VersionsOf(edges, m) = {x} => x \in s.versions

\* The state t is s after visits to the methods in C, called from depth d.
Grown(edges, d, s, t, C) ==
    /\ s.versions \subseteq t.versions
    /\ \A x \in t.versions \ s.versions : \E m \in C : VersionsOf(edges, m) = {x}
    /\ \A m \in C : \A x : VersionsOf(edges, m) = {x} => x \in t.versions
    /\ Len(s.queue) <= Len(t.queue)
    /\ \A i \in 1 .. Len(s.queue) : t.queue[i] = s.queue[i]
    /\ \A i \in Len(s.queue) + 1 .. Len(t.queue) :
          t.queue[i][2] = d + 1 /\ t.queue[i][1] \in t.versions \ s.versions
    /\ \A x \in t.versions \ s.versions :
          \E i \in Len(s.queue) + 1 .. Len(t.queue) : t.queue[i][1] = x
    /\ Len(t.queue) + Cardinality(s.versions) = Len(s.queue) + Cardinality(t.versions)

\* The types of a state.
LEMMA StateParts ==
    ASSUME NEW edges, NEW v \in Versions, Versioned(edges) \subseteq Versions, NEW M,
           NEW s \in SearchState(edges, v, M)
    PROVE  /\ s.queue \in Seq(Versions \X Nat) /\ Len(s.queue) \in Nat
           /\ s.versions \subseteq Versions /\ IsFiniteSet(s.versions)
           /\ Cardinality(s.versions) \in Nat /\ Cardinality(s.versions) <= Cardinality(Versions)
<1> DEFINE W == Versioned(edges) \cup {v}
<1>1. s.queue \in Seq(W \X Nat) /\ s.versions \in SUBSET W
    BY DEF SearchState
<1>2. W \subseteq Versions
    OBVIOUS
<1> HIDE DEF W
<1>3. s.queue \in Seq(Versions \X Nat) /\ Len(s.queue) \in Nat
    <2>1. \A i \in 1 .. Len(s.queue) : s.queue[i] \in W \X Nat
        BY <1>1, ElementOfSeq
    <2>2. \A i \in 1 .. Len(s.queue) : s.queue[i] \in Versions \X Nat
        BY <1>2, <2>1
    <2> QED BY <1>1, <2>2
<1>4. IsFiniteSet(Versions)
    BY ContextAssumption
<1>5. s.versions \in SUBSET Versions
    BY <1>1, <1>2
<1> QED BY <1>3, <1>4, <1>5, FS_Subset, FS_CardinalityType

\* Before any visit.
LEMMA GrownNot ==
    ASSUME NEW edges, NEW v \in Versions, Versioned(edges) \subseteq Versions, NEW M,
           NEW s \in SearchState(edges, v, M), NEW d \in Nat
    PROVE  Grown(edges, d, s, s, {})
<1>1. Len(s.queue) \in Nat /\ Cardinality(s.versions) \in Nat
    BY StateParts
<1> QED BY <1>1 DEF Grown

\* Visits after visits.
LEMMA GrownOn ==
    ASSUME NEW edges, NEW v \in Versions, Versioned(edges) \subseteq Versions, NEW M,
           NEW s \in SearchState(edges, v, M), NEW t \in SearchState(edges, v, M),
           NEW u \in SearchState(edges, v, M), NEW d \in Nat, NEW C, NEW D, NEW E, E = C \cup D,
           Grown(edges, d, s, t, C), Grown(edges, d, t, u, D)
    PROVE  Grown(edges, d, s, u, E)
<1> DEFINE k == Len(s.queue)
           m == Len(t.queue)
           n == Len(u.queue)
           a == Cardinality(s.versions)
           b == Cardinality(t.versions)
           c == Cardinality(u.versions)
<1>1. k \in Nat /\ m \in Nat /\ n \in Nat /\ a \in Nat /\ b \in Nat /\ c \in Nat
    BY StateParts
<1>2. /\ s.versions \subseteq t.versions
      /\ \A x \in t.versions \ s.versions : \E y \in C : VersionsOf(edges, y) = {x}
      /\ \A y \in C : \A x : VersionsOf(edges, y) = {x} => x \in t.versions
      /\ k <= m
      /\ \A i \in 1 .. k : t.queue[i] = s.queue[i]
      /\ \A i \in k + 1 .. m : t.queue[i][2] = d + 1 /\ t.queue[i][1] \in t.versions \ s.versions
      /\ \A x \in t.versions \ s.versions : \E i \in k + 1 .. m : t.queue[i][1] = x
      /\ m + a = k + b
    BY DEF Grown
<1>3. /\ t.versions \subseteq u.versions
      /\ \A x \in u.versions \ t.versions : \E y \in D : VersionsOf(edges, y) = {x}
      /\ \A y \in D : \A x : VersionsOf(edges, y) = {x} => x \in u.versions
      /\ m <= n
      /\ \A i \in 1 .. m : u.queue[i] = t.queue[i]
      /\ \A i \in m + 1 .. n : u.queue[i][2] = d + 1 /\ u.queue[i][1] \in u.versions \ t.versions
      /\ \A x \in u.versions \ t.versions : \E i \in m + 1 .. n : u.queue[i][1] = x
      /\ n + b = m + c
    BY DEF Grown
<1> HIDE DEF k, m, n, a, b, c
<1>4. \A i \in 1 .. k : u.queue[i] = s.queue[i]
    BY <1>1, <1>2, <1>3
<1>5. \A i \in k + 1 .. n : u.queue[i][2] = d + 1 /\ u.queue[i][1] \in u.versions \ s.versions
    <2> SUFFICES ASSUME NEW i \in k + 1 .. n
                 PROVE  u.queue[i][2] = d + 1 /\ u.queue[i][1] \in u.versions \ s.versions
        OBVIOUS
    <2>1. CASE i \in k + 1 .. m
        <3>1. u.queue[i] = t.queue[i]
            BY <1>1, <1>3, <2>1
        <3> QED BY <1>2, <1>3, <2>1, <3>1
    <2>2. CASE i \in m + 1 .. n
        BY <1>2, <1>3, <2>2
    <2> QED BY <1>1, <1>2, <1>3, <2>1, <2>2
<1>6. \A x \in u.versions \ s.versions : \E i \in k + 1 .. n : u.queue[i][1] = x
    <2> SUFFICES ASSUME NEW x \in u.versions \ s.versions
                 PROVE  \E i \in k + 1 .. n : u.queue[i][1] = x
        OBVIOUS
    <2>1. CASE x \in t.versions
        <3>1. PICK i \in k + 1 .. m : t.queue[i][1] = x
            BY <1>2, <2>1
        <3>2. i \in k + 1 .. n /\ i \in 1 .. m
            BY <1>1, <1>3
        <3>3. u.queue[i] = t.queue[i]
            BY <1>3, <3>2
        <3> QED BY <3>1, <3>2, <3>3
    <2>2. CASE x \notin t.versions
        <3>1. PICK i \in m + 1 .. n : u.queue[i][1] = x
            BY <1>3, <2>2
        <3>2. i \in k + 1 .. n
            BY <1>1, <1>2
        <3> QED BY <3>1, <3>2
    <2> QED BY <2>1, <2>2
<1>7. \A x \in u.versions \ s.versions : \E y \in E : VersionsOf(edges, y) = {x}
    BY <1>2, <1>3
<1>8. \A y \in E : \A x : VersionsOf(edges, y) = {x} => x \in u.versions
    BY <1>2, <1>3
<1>9. k <= n /\ n + a = k + c /\ s.versions \subseteq u.versions
    BY <1>1, <1>2, <1>3
<1> QED BY <1>4, <1>5, <1>6, <1>7, <1>8, <1>9 DEF Grown, k, m, n, a, b, c

\* One visit.
LEMMA VisitGrows ==
    ASSUME NEW edges, NEW v \in Versions, Versioned(edges) \subseteq Versions, NEW M,
           NEW d \in Nat, NEW m \in M, NEW s, Settled(edges, v, M, s)
    PROVE  /\ Settled(edges, v, M, Visit(edges, d, s, m))
           /\ Grown(edges, d, s, Visit(edges, d, s, m), {m})
<1> DEFINE versions == VersionsOf(edges, m)
           w == CHOOSE x \in versions : TRUE
           t == Visit(edges, d, s, m)
<1>1. /\ s \in SearchState(edges, v, M) /\ v \in s.versions /\ ToSet(s.ordered) = s.versions \ {v}
      /\ \A y \in s.methods : \A x : VersionsOf(edges, y) = {x} => x \in s.versions
    BY DEF Settled
<1>2. /\ DOMAIN s = {"queue", "methods", "versions", "ordered"}
      /\ s.ordered \in Seq(Versioned(edges)) /\ s.methods \subseteq M
    BY <1>1 DEF SearchState
<1>3. /\ s.queue \in Seq(Versions \X Nat) /\ Len(s.queue) \in Nat
      /\ s.versions \subseteq Versions /\ IsFiniteSet(s.versions)
      /\ Cardinality(s.versions) \in Nat
    BY <1>1, StateParts
<1>4. t \in SearchState(edges, v, M)
    BY <1>1, VisitKeeps
<1>5. versions \subseteq Versioned(edges)
    BY DEF Versioned, VersionsOf
<1>6. t = IF m \in s.methods THEN s
          ELSE IF Cardinality(versions) # 1 \/ versions \subseteq s.versions
               THEN [s EXCEPT !.methods = s.methods \cup {m}]
               ELSE [queue    |-> Append(s.queue, <<w, d + 1>>),
                     methods  |-> s.methods \cup {m},
                     versions |-> s.versions \cup {w},
                     ordered  |-> Append(s.ordered, w)]
    BY DEF Visit, VersionsOf
<1> HIDE DEF versions, t
<1>7. \A x : versions = {x} => Cardinality(versions) = 1
    BY FS_Singleton
<1>8. Cardinality(versions) = 1 => w \in versions /\ versions = {w}
    <2>1. IsFiniteSet(versions)
        BY <1>5, ContextAssumption, FS_Subset
    <2>2. Cardinality(versions) = 1 => \E x : versions = {x}
        BY <2>1, FS_Singleton
    <2>3. versions # {} => w \in versions
        OBVIOUS
    <2> HIDE DEF w
    <2> QED BY <2>2, <2>3
<1> HIDE DEF w
<1>9. versions = VersionsOf(edges, m)
    BY DEF versions
<1>10. CASE m \in s.methods
    <2>1. t = s
        BY <1>6, <1>10
    <2>2. \A x : VersionsOf(edges, m) = {x} => x \in s.versions
        BY <1>1, <1>10
    <2>3. Grown(edges, d, s, s, {m})
        BY <1>3, <2>2 DEF Grown
    <2> QED BY <2>1, <2>3 DEF t
<1>11. CASE m \notin s.methods /\ (Cardinality(versions) # 1 \/ versions \subseteq s.versions)
    <2>1. t = [s EXCEPT !.methods = s.methods \cup {m}]
        BY <1>6, <1>11
    <2>2. /\ t.queue = s.queue /\ t.versions = s.versions /\ t.ordered = s.ordered
          /\ t.methods = s.methods \cup {m}
        BY <1>2, <2>1
    <2>3. \A x : VersionsOf(edges, m) = {x} => x \in s.versions
        BY <1>7, <1>9, <1>11
    <2>4. \A y \in t.methods : \A x : VersionsOf(edges, y) = {x} => x \in t.versions
        BY <1>1, <2>2, <2>3
    <2>5. Settled(edges, v, M, t)
        BY <1>1, <1>4, <2>2, <2>4 DEF Settled
    <2>6. Grown(edges, d, s, t, {m})
        BY <1>3, <2>2, <2>3 DEF Grown
    <2> QED BY <2>5, <2>6 DEF t
<1>12. CASE m \notin s.methods /\ ~(Cardinality(versions) # 1 \/ versions \subseteq s.versions)
    <2>1. /\ t.queue = Append(s.queue, <<w, d + 1>>) /\ t.methods = s.methods \cup {m}
          /\ t.versions = s.versions \cup {w} /\ t.ordered = Append(s.ordered, w)
        BY <1>6, <1>12
    <2>2. versions = {w} /\ w \in Versioned(edges) /\ w \notin s.versions /\ w \in Versions
        BY <1>5, <1>8, <1>12
    <2>3. ToSet(t.ordered) = ToSet(s.ordered) \cup {w}
        BY <1>2, <2>1, <2>2, AppendSet
    <2>4. \A y \in t.methods : \A x : VersionsOf(edges, y) = {x} => x \in t.versions
        <3>1. \A x : VersionsOf(edges, m) = {x} => x = w
            BY <1>9, <2>2
        <3> QED BY <1>1, <2>1, <3>1
    <2>5. Settled(edges, v, M, t)
        <3>1. v \in t.versions /\ ToSet(t.ordered) = t.versions \ {v}
            BY <1>1, <2>1, <2>2, <2>3
        <3> QED BY <1>4, <2>4, <3>1 DEF Settled
    <2>6. Cardinality(t.versions) = Cardinality(s.versions) + 1
        BY <1>3, <2>1, <2>2, FS_AddElement
    <2>7. /\ Len(t.queue) = Len(s.queue) + 1
          /\ t.queue[Len(s.queue) + 1] = <<w, d + 1>>
          /\ \A i \in 1 .. Len(s.queue) : t.queue[i] = s.queue[i]
        BY <1>3, <2>1
    <2>8. t.versions \ s.versions = {w}
        BY <2>1, <2>2
    <2>9. \A i \in Len(s.queue) + 1 .. Len(t.queue) : i = Len(s.queue) + 1
        BY <1>3, <2>7
    <2>a. Len(s.queue) + 1 \in Len(s.queue) + 1 .. Len(t.queue)
        BY <1>3, <2>7
    <2>10. \A i \in Len(s.queue) + 1 .. Len(t.queue) :
              t.queue[i][2] = d + 1 /\ t.queue[i][1] \in t.versions \ s.versions
        BY <2>7, <2>8, <2>9
    <2>11. \A x \in t.versions \ s.versions :
              \E i \in Len(s.queue) + 1 .. Len(t.queue) : t.queue[i][1] = x
        BY <2>7, <2>8, <2>a
    <2>12. \A y \in {m} : \A x : VersionsOf(edges, y) = {x} => x \in t.versions
        BY <1>9, <2>1, <2>2
    <2>13. \A x \in t.versions \ s.versions : \E y \in {m} : VersionsOf(edges, y) = {x}
        BY <1>9, <2>2, <2>8
    <2>14. /\ s.versions \subseteq t.versions /\ Len(s.queue) <= Len(t.queue)
           /\ Len(t.queue) + Cardinality(s.versions) = Len(s.queue) + Cardinality(t.versions)
        <3>1. s.versions \subseteq t.versions
            BY <2>1
        <3> DEFINE a == Len(s.queue)
                   b == Cardinality(s.versions)
        <3>2. Len(t.queue) = a + 1 /\ Cardinality(t.versions) = b + 1 /\ a \in Nat /\ b \in Nat
            BY <1>3, <2>6, <2>7
        <3> HIDE DEF a, b
        <3>3. a <= a + 1 /\ (a + 1) + b = a + (b + 1)
            BY <3>2
        <3> QED BY <3>1, <3>2, <3>3 DEF a, b
    <2>15. Grown(edges, d, s, t, {m})
        BY <2>7, <2>10, <2>11, <2>12, <2>13, <2>14 DEF Grown
    <2> QED BY <2>5, <2>15 DEF t
<1> QED BY <1>10, <1>11, <1>12

\* The methods of a list are visited, and the states meanwhile.
VisitAll(edges, d, s, list) == FoldLeft(LAMBDA t, m : Visit(edges, d, t, m), s, list)

VisitingTo(p, edges, v, M, d, s, list) ==
    /\ p \in [0 .. Len(list) -> SearchState(edges, v, M)]
    /\ p[0] = s
    /\ \A k \in 0 .. Len(list) : k < Len(list) => p[k + 1] = Visit(edges, d, p[k], list[k + 1])

\* There are such states, and the last is what the fold ends with.
LEMMA Visiting ==
    ASSUME NEW edges, NEW v, NEW M, NEW d \in Nat, NEW s \in SearchState(edges, v, M),
           NEW list \in Seq(M)
    PROVE  \E p : /\ VisitingTo(p, edges, v, M, d, s, list)
                  /\ p[Len(list)] = VisitAll(edges, d, s, list)
<1> DEFINE n == Len(list)
           V == SearchState(edges, v, M)
           Add(t, j) == Visit(edges, d, t, list[j])
           Eq(f) == f = [x \in SUBSET (1 .. n) |->
                           IF x = {} THEN s ELSE Add(f[x \ {Max(x)}], Max(x))]
           G == [y \in V \X (1 .. n) |-> Add(y[1], y[2])]
           kept == CHOOSE f : Eq(f)
<1>1. n \in Nat /\ DOMAIN list = 1 .. n /\ \A j \in 1 .. n : list[j] \in M
    OBVIOUS
<1>2. \A j \in 1 .. n : \A t \in V : Add(t, j) \in V
    BY <1>1, VisitKeeps
<1>3. VisitAll(edges, d, s, list) = kept[1 .. n]
    BY <1>1 DEF VisitAll, FoldLeft, MapThenFoldSet
<1>4. s \in V
    OBVIOUS
<1> HIDE DEF V, n
<1>5. \A t \in V, j \in 1 .. n : G[<<t, j>>] = Add(t, j)
    OBVIOUS
<1>6. G \in [V \X (1 .. n) -> V]
    BY <1>2
<1> HIDE DEF G, Add
<1>7. PICK f \in [SUBSET (1 .. n) -> V] : FoldOf(f, n, s, G)
    BY <1>1, <1>4, <1>6, FoldExists
<1>a. \A x \in SUBSET (1 .. n) : x # {} => Max(x) \in 1 .. n
    BY <1>1, LastIndex
<1>8. Eq(f)
    <2>1. \A x \in SUBSET (1 .. n) : x # {} => f[x \ {Max(x)}] \in V
        BY <1>7
    <2> QED BY <1>a, <1>5, <1>7, <2>1 DEF FoldOf
<1>9. Eq(kept)
    <2> HIDE DEF Eq
    <2> QED BY <1>8
<1> HIDE DEF kept
<1>10. FoldsBy(kept, n, s, V, G)
    <2>1. kept[{}] = s
        <3>1. {} \in SUBSET (1 .. n)
            OBVIOUS
        <3> QED BY <1>9, <3>1
    <2>2. ASSUME NEW x \in SUBSET (1 .. n), x # {}, kept[x \ {Max(x)}] \in V
          PROVE  kept[x] = G[<<kept[x \ {Max(x)}], Max(x)>>]
        <3>1. kept[x] = Add(kept[x \ {Max(x)}], Max(x))
            BY <1>9, <2>2
        <3> QED BY <1>a, <1>5, <2>2, <3>1
    <2> HIDE DEF Eq
    <2> QED BY <1>1, <1>4, <1>6, <2>1, <2>2 DEF FoldsBy
<1>11. PICK p : Runs(p, n, V, G) /\ p[0] = s /\ p[n] = kept[1 .. n]
    BY <1>10, FoldRuns
<1>12. p \in [0 .. n -> V] /\ \A k \in 0 .. n : k < n => p[k + 1] = G[<<p[k], k + 1>>]
    BY <1>11 DEF Runs
<1>13. \A k \in 0 .. n : k < n => p[k + 1] = Add(p[k], k + 1)
    <2>1. \A k \in 0 .. n : k < n => k + 1 \in 1 .. n /\ p[k] \in V
        BY <1>1, <1>12
    <2> QED BY <1>5, <1>12, <2>1
<1>14. VisitingTo(p, edges, v, M, d, s, list)
    BY <1>11, <1>12, <1>13 DEF n, V, Add, VisitingTo
<1>15. p[Len(list)] = VisitAll(edges, d, s, list)
    BY <1>3, <1>11 DEF n
<1> QED BY <1>14, <1>15

\* All methods of a list are visited.
LEMMA AllVisited ==
    ASSUME NEW edges, NEW v \in Versions, Versioned(edges) \subseteq Versions, NEW M,
           NEW d \in Nat, NEW s, Settled(edges, v, M, s), NEW list \in Seq(M),
           NEW t, t = VisitAll(edges, d, s, list)
    PROVE  Settled(edges, v, M, t) /\ Grown(edges, d, s, t, ToSet(list))
<1>1. s \in SearchState(edges, v, M)
    BY DEF Settled
<1>2. PICK p : VisitingTo(p, edges, v, M, d, s, list) /\ p[Len(list)] = t
    BY <1>1, Visiting
<1> DEFINE n == Len(list)
           C(k) == {list[i] : i \in 1 .. k}
           A == {k \in Nat : k <= n => Settled(edges, v, M, p[k]) /\ Grown(edges, d, s, p[k], C(k))}
<1>3. n \in Nat /\ \A j \in 1 .. n : list[j] \in M
    OBVIOUS
<1>4. 0 \in A
    <2>1. C(0) = {} /\ p[0] = s
        BY <1>2 DEF VisitingTo
    <2>2. Grown(edges, d, s, s, {})
        BY <1>1, GrownNot
    <2> HIDE DEF C
    <2> QED BY <2>1, <2>2
<1>5. ASSUME NEW k \in Nat, k \in A PROVE k + 1 \in A
    <2> SUFFICES ASSUME k + 1 <= n
                 PROVE  Settled(edges, v, M, p[k + 1]) /\ Grown(edges, d, s, p[k + 1], C(k + 1))
        OBVIOUS
    <2>1. k \in 0 .. n /\ k < n /\ k + 1 \in 1 .. n /\ k <= n
        BY <1>3
    <2>2. Settled(edges, v, M, p[k]) /\ Grown(edges, d, s, p[k], C(k))
        BY <1>5, <2>1
    <2> DEFINE m == list[k + 1]
    <2>3. p[k + 1] = Visit(edges, d, p[k], m) /\ m \in M
        BY <1>2, <1>3, <2>1 DEF VisitingTo
    <2>4. C(k + 1) = C(k) \cup {m}
        <3>1. \A i \in 1 .. (k + 1) : i \in 1 .. k \/ i = k + 1
            OBVIOUS
        <3>2. k + 1 \in 1 .. (k + 1) /\ \A i \in 1 .. k : i \in 1 .. (k + 1)
            OBVIOUS
        <3> QED BY <3>1, <3>2
    <2> HIDE DEF m, C, n
    <2>5. Settled(edges, v, M, p[k + 1]) /\ Grown(edges, d, p[k], p[k + 1], {m})
        BY <2>2, <2>3, VisitGrows
    <2>6. p[k] \in SearchState(edges, v, M) /\ p[k + 1] \in SearchState(edges, v, M)
        BY <2>2, <2>5 DEF Settled
    <2>7. Grown(edges, d, s, p[k + 1], C(k + 1))
        BY <1>1, <2>2, <2>4, <2>5, <2>6, GrownOn
    <2> QED BY <2>5, <2>7
<1>6. n \in A
    <2> HIDE DEF A
    <2> QED BY <1>3, <1>4, <1>5, UpwardInduction
<1>7. C(n) = ToSet(list)
    BY DEF ToSet
<1> HIDE DEF C
<1> QED BY <1>2, <1>3, <1>6, <1>7

\* The state t is s after the head of the queue, w from depth d, was expanded.
Expanded(edges, w, d, s, t) ==
    /\ Len(t.queue) \in Nat /\ Len(s.queue) \in Nat /\ Len(s.queue) # 0
    /\ Len(s.queue) - 1 <= Len(t.queue)
    /\ \A i \in 1 .. Len(s.queue) - 1 : t.queue[i] = s.queue[i + 1]
    /\ \A i \in Len(s.queue) .. Len(t.queue) :
          t.queue[i][2] = d + 1 /\ t.queue[i][1] \in t.versions \ s.versions
    /\ \A x \in t.versions \ s.versions :
          \E i \in Len(s.queue) .. Len(t.queue) : t.queue[i][1] = x
    /\ s.versions \subseteq t.versions
    /\ \A x \in t.versions \ s.versions : d < MAX_CALL_DEPTH /\ LeadsTo(edges, w, x)
    /\ d < MAX_CALL_DEPTH => \A x : LeadsTo(edges, w, x) => x \in t.versions
    /\ Len(t.queue) + Cardinality(s.versions) + 1 = Len(s.queue) + Cardinality(t.versions)

\* The head of the queue is expanded: all it calls is visited.
LEMMA ExpandGrows ==
    ASSUME NEW edges, NEW v \in Versions, Versioned(edges) \subseteq Versions, NEW M,
           NEW order \in Seq(M), NEW s, Settled(edges, v, M, s), s.queue # <<>>,
           NEW w, w = Head(s.queue)[1], NEW d, d = Head(s.queue)[2],
           CalledFrom(edges, w) \subseteq ToSet(order),
           NEW t, t = Expand(edges, order, s)
    PROVE  /\ Settled(edges, v, M, t)
           /\ Expanded(edges, w, d, s, t)
<1> DEFINE rest == [s EXCEPT !.queue = Tail(s.queue)]
           called == OnlyIn(order, CalledFrom(edges, w))
<1>1. /\ s \in SearchState(edges, v, M) /\ v \in s.versions /\ ToSet(s.ordered) = s.versions \ {v}
      /\ \A m \in s.methods : \A x : VersionsOf(edges, m) = {x} => x \in s.versions
    BY DEF Settled
<1>2. /\ s.queue \in Seq(Versions \X Nat) /\ Len(s.queue) \in Nat /\ Cardinality(s.versions) \in Nat
    BY <1>1, StateParts
<1>3. Len(s.queue) # 0 /\ d \in Nat
    BY <1>2
<1>4. /\ Len(Tail(s.queue)) = Len(s.queue) - 1
      /\ \A i \in 1 .. Len(s.queue) - 1 : Tail(s.queue)[i] = s.queue[i + 1]
    BY <1>2, <1>3
<1>5. /\ rest.queue = Tail(s.queue) /\ rest.methods = s.methods /\ rest.versions = s.versions
      /\ rest.ordered = s.ordered
    BY <1>1 DEF SearchState
<1>6. rest \in SearchState(edges, v, M)
    <2>1. s.queue \in Seq((Versioned(edges) \cup {v}) \X Nat)
        BY <1>1 DEF SearchState
    <2>2. Tail(s.queue) \in Seq((Versioned(edges) \cup {v}) \X Nat)
        BY <2>1
    <2> QED BY <1>1, <2>2 DEF SearchState
<1>7. t = IF d >= MAX_CALL_DEPTH THEN rest ELSE VisitAll(edges, d, rest, called)
    <2> DEFINE there == OnlyIn(order, {e[3] : e \in {f \in edges : f[1] = "CALLS" /\ f[2] = Head(s.queue)[1]}})
    <2>1. there = called
        BY DEF CalledFrom
    <2> HIDE DEF called, there
    <2>2. Expand(edges, order, s) =
              IF Head(s.queue)[2] >= MAX_CALL_DEPTH THEN rest
              ELSE FoldLeft(LAMBDA u, m : Visit(edges, Head(s.queue)[2], u, m), rest, there)
        BY DEF Expand, there
    <2>3. Expand(edges, order, s) =
              IF Head(s.queue)[2] >= MAX_CALL_DEPTH THEN rest
              ELSE VisitAll(edges, Head(s.queue)[2], rest, there)
        BY <2>2 DEF VisitAll
    <2> QED BY <2>1, <2>3
<1>8. called \in Seq(M) /\ ToSet(called) = CalledFrom(edges, w)
    <2> DEFINE T == CalledFrom(edges, w)
    <2>1. T \subseteq ToSet(order)
        OBVIOUS
    <2> HIDE DEF T
    <2>2. OnlyIn(order, T) \in Seq(M) /\ ToSet(OnlyIn(order, T)) = ToSet(order) \cap T
        BY OnlyInSet
    <2> QED BY <2>1, <2>2 DEF T
<1>9. MAX_CALL_DEPTH \in Nat
    BY QuestionAssumption
<1> HIDE DEF rest, called
<1>10. Settled(edges, v, M, rest)
    BY <1>1, <1>5, <1>6 DEF Settled
<1>11. CASE d >= MAX_CALL_DEPTH
    <2>1. t = rest /\ ~(d < MAX_CALL_DEPTH)
        BY <1>3, <1>7, <1>9, <1>11
    <2>2. t.versions = s.versions /\ t.queue = Tail(s.queue)
        BY <1>5, <2>1
    <2>3. \A i : i \notin Len(s.queue) .. Len(t.queue)
        BY <1>2, <1>4, <2>2
    <2>4. t.versions \ s.versions = {}
        BY <2>2
    <2> DEFINE a == Len(s.queue)
               b == Cardinality(s.versions)
    <2>5. Len(t.queue) = a - 1 /\ Cardinality(t.versions) = b /\ a \in Nat /\ b \in Nat /\ a # 0
        BY <1>2, <1>3, <1>4, <2>2
    <2>6. \A i \in 1 .. Len(s.queue) - 1 : t.queue[i] = s.queue[i + 1]
        BY <1>4, <2>2
    <2> HIDE DEF a, b
    <2>7. a - 1 \in Nat /\ (a - 1) + b + 1 = a + b
        BY <2>5
    <2>8. Len(t.queue) + Cardinality(s.versions) + 1 = Len(s.queue) + Cardinality(t.versions)
        BY <2>5, <2>7 DEF a, b
    <2>9. Len(t.queue) \in Nat /\ Len(s.queue) - 1 <= Len(t.queue)
        BY <2>5, <2>7 DEF a
    <2> QED BY <1>2, <1>3, <1>10, <2>1, <2>2, <2>3, <2>4, <2>6, <2>8, <2>9 DEF Expanded
<1>12. CASE ~(d >= MAX_CALL_DEPTH)
    <2>1. t = VisitAll(edges, d, rest, called) /\ d < MAX_CALL_DEPTH
        BY <1>3, <1>7, <1>9, <1>12
    <2>2. Settled(edges, v, M, t) /\ Grown(edges, d, rest, t, CalledFrom(edges, w))
        BY <1>3, <1>8, <1>10, <2>1, AllVisited
    <2>3. t \in SearchState(edges, v, M)
        BY <2>2 DEF Settled
    <2>4. Len(t.queue) \in Nat /\ Cardinality(t.versions) \in Nat
        BY <2>3, StateParts
    <2> DEFINE a == Len(s.queue) - 1
    <2>5. a \in Nat /\ Len(s.queue) = a + 1 /\ Len(rest.queue) = a
        BY <1>2, <1>3, <1>4, <1>5
    <2> HIDE DEF a
    <2>6. /\ s.versions \subseteq t.versions
          /\ \A x \in t.versions \ s.versions : \E m \in CalledFrom(edges, w) : VersionsOf(edges, m) = {x}
          /\ \A m \in CalledFrom(edges, w) : \A x : VersionsOf(edges, m) = {x} => x \in t.versions
          /\ a <= Len(t.queue)
          /\ \A i \in 1 .. a : t.queue[i] = rest.queue[i]
          /\ \A i \in a + 1 .. Len(t.queue) :
                t.queue[i][2] = d + 1 /\ t.queue[i][1] \in t.versions \ s.versions
          /\ \A x \in t.versions \ s.versions : \E i \in a + 1 .. Len(t.queue) : t.queue[i][1] = x
          /\ Len(t.queue) + Cardinality(s.versions) = a + Cardinality(t.versions)
        BY <1>5, <2>2, <2>5 DEF Grown
    <2>7. \A i \in 1 .. a : t.queue[i] = s.queue[i + 1]
        BY <1>4, <1>5, <2>6 DEF a
    <2>8. Len(t.queue) + Cardinality(s.versions) + 1 = Len(s.queue) + Cardinality(t.versions)
        BY <1>2, <2>4, <2>5, <2>6
    <2>9. \A x : LeadsTo(edges, w, x) <=> \E m \in CalledFrom(edges, w) : VersionsOf(edges, m) = {x}
        BY DEF LeadsTo
    <2>10. /\ \A x \in t.versions \ s.versions : d < MAX_CALL_DEPTH /\ LeadsTo(edges, w, x)
           /\ \A x : LeadsTo(edges, w, x) => x \in t.versions
        BY <2>1, <2>6, <2>9
    <2>11. Len(s.queue) - 1 = a
        BY DEF a
    <2> QED BY <1>2, <1>3, <2>2, <2>4, <2>5, <2>6, <2>7, <2>8, <2>10, <2>11 DEF Expanded
<1> QED BY <1>11, <1>12

\* One hop more.
LEMMA WithinStep ==
    ASSUME NEW X, NEW hops, hops \subseteq X \X X, NEW v, NEW n \in Nat, NEW y
    PROVE  y \in Within(hops, v, n + 1) <=>
               y \in Within(hops, v, n) \/ \E u \in Within(hops, v, n) : <<u, y>> \in hops
<1> DEFINE near == Within(hops, v, n)
<1>1. Within(hops, v, n + 1) = Hop(hops, near)
    BY WithinNext
<1> HIDE DEF near
<1>2. y \in Hop(hops, near) <=> y \in near \/ \E h \in hops : h[1] \in near /\ y = h[2]
    BY HopTo
<1>3. (\E h \in hops : h[1] \in near /\ y = h[2]) <=> \E u \in near : <<u, y>> \in hops
    <2>1. ASSUME NEW h \in hops, h[1] \in near, y = h[2] PROVE \E u \in near : <<u, y>> \in hops
        <3>1. h = <<h[1], y>>
            BY <2>1
        <3> QED BY <2>1, <3>1
    <2>2. ASSUME NEW u \in near, <<u, y>> \in hops PROVE \E h \in hops : h[1] \in near /\ y = h[2]
        <3> DEFINE h == <<u, y>>
        <3>1. h \in hops /\ h[1] = u /\ h[2] = y
            BY <2>2
        <3> HIDE DEF h
        <3> QED BY <3>1
    <2> QED BY <2>1, <2>2
<1> QED BY <1>1, <1>2, <1>3 DEF near

\* w is n hops from v, and no fewer.
IsAt(hops, v, w, n) == w \in Within(hops, v, n) /\ \A k \in Nat : k < n => w \notin Within(hops, v, k)

\* Whatever is a hop from u is in vs, if u is reached with a hop to spare.
IsLeft(hops, v, u, vs) ==
    \A n \in Nat : n < MAX_CALL_DEPTH /\ u \in Within(hops, v, n) =>
        \A x : <<u, x>> \in hops => x \in vs

\* The relationships in edges lead along hops, as far as the search goes.
Follows(edges, hops, v) ==
    /\ hops \subseteq Versions \X Versions
    /\ \A n \in Nat : n < MAX_CALL_DEPTH =>
          \A w \in Within(hops, v, n) : \A x : LeadsTo(edges, w, x) <=> <<w, x>> \in hops

\* What holds between two rounds of the search: the queue holds what was found of two
\* layers, the nearer one first, and before it all nearer ones have been expanded.
Layered(edges, v, M, hops, s) ==
    /\ Settled(edges, v, M, s)
    /\ s.versions \subseteq Within(hops, v, MAX_CALL_DEPTH)
    /\ \A i \in 1 .. Len(s.queue) : /\ s.queue[i][1] \in s.versions
                                    /\ s.queue[i][2] \in Nat /\ s.queue[i][2] <= MAX_CALL_DEPTH
                                    /\ IsAt(hops, v, s.queue[i][1], s.queue[i][2])
    /\ \A i, j \in 1 .. Len(s.queue) :
          i <= j => s.queue[i][2] <= s.queue[j][2] /\ s.queue[j][2] <= s.queue[i][2] + 1
    /\ Len(s.queue) # 0 => Within(hops, v, s.queue[1][2]) \subseteq s.versions
    /\ \A u \in s.versions :
          (\E i \in 1 .. Len(s.queue) : s.queue[i][1] = u) \/ IsLeft(hops, v, u, s.versions)

\* A round keeps the layers.
LEMMA ExpandLayered ==
    ASSUME NEW edges, NEW v \in Versions, Versioned(edges) \subseteq Versions, NEW M,
           NEW hops, Follows(edges, hops, v),
           NEW order \in Seq(M), NEW s, Layered(edges, v, M, hops, s), s.queue # <<>>,
           \A w : CalledFrom(edges, w) \subseteq ToSet(order),
           NEW t, t = Expand(edges, order, s)
    PROVE  /\ Layered(edges, v, M, hops, t)
           /\ Len(t.queue) + Cardinality(s.versions) + 1 = Len(s.queue) + Cardinality(t.versions)
<1> DEFINE w == Head(s.queue)[1]
           d == Head(s.queue)[2]
           k == Len(s.queue)
           n == Len(t.queue)
           near(i) == Within(hops, v, i)
<1>1. /\ Settled(edges, v, M, s)
      /\ s.versions \subseteq near(MAX_CALL_DEPTH)
      /\ \A i \in 1 .. k : /\ s.queue[i][1] \in s.versions
                           /\ s.queue[i][2] \in Nat /\ s.queue[i][2] <= MAX_CALL_DEPTH
                           /\ IsAt(hops, v, s.queue[i][1], s.queue[i][2])
      /\ \A i, j \in 1 .. k :
            i <= j => s.queue[i][2] <= s.queue[j][2] /\ s.queue[j][2] <= s.queue[i][2] + 1
      /\ k # 0 => near(s.queue[1][2]) \subseteq s.versions
      /\ \A u \in s.versions :
            (\E i \in 1 .. k : s.queue[i][1] = u) \/ IsLeft(hops, v, u, s.versions)
    BY DEF Layered
<1>2. w = s.queue[1][1] /\ d = s.queue[1][2]
    OBVIOUS
<1>3. CalledFrom(edges, w) \subseteq ToSet(order) /\ w = Head(s.queue)[1] /\ d = Head(s.queue)[2]
    OBVIOUS
<1>a. Settled(edges, v, M, s)
    BY DEF Layered
<1> HIDE DEF w, d
<1>4. /\ Settled(edges, v, M, t)
      /\ n \in Nat /\ k \in Nat /\ k # 0
      /\ k - 1 <= n
      /\ \A i \in 1 .. k - 1 : t.queue[i] = s.queue[i + 1]
      /\ \A i \in k .. n : t.queue[i][2] = d + 1 /\ t.queue[i][1] \in t.versions \ s.versions
      /\ \A x \in t.versions \ s.versions : \E i \in k .. n : t.queue[i][1] = x
      /\ s.versions \subseteq t.versions
      /\ \A x \in t.versions \ s.versions : d < MAX_CALL_DEPTH /\ LeadsTo(edges, w, x)
      /\ d < MAX_CALL_DEPTH => \A x : LeadsTo(edges, w, x) => x \in t.versions
      /\ Len(t.queue) + Cardinality(s.versions) + 1 = Len(s.queue) + Cardinality(t.versions)
    <2>1. Settled(edges, v, M, t) /\ Expanded(edges, w, d, s, t)
        BY <1>3, <1>a, ExpandGrows
    <2> QED BY <2>1 DEF Expanded, k, n
<1> HIDE DEF k, n
<1>5. MAX_CALL_DEPTH \in Nat
    BY QuestionAssumption
<1>6. d \in Nat /\ d <= MAX_CALL_DEPTH /\ IsAt(hops, v, w, d) /\ near(d) \subseteq s.versions
    BY <1>1, <1>2, <1>4
<1>7. /\ hops \subseteq Versions \X Versions
      /\ \A i \in Nat : i < MAX_CALL_DEPTH =>
            \A u \in near(i) : \A x : LeadsTo(edges, u, x) <=> <<u, x>> \in hops
    BY DEF Follows
<1>8. \A i, j \in Nat : i <= j => near(i) \subseteq near(j)
    BY WithinMore
<1>9. w \in near(d)
    BY <1>6 DEF IsAt
<1>10. \A i \in Nat : \A y : y \in near(i + 1) <=> y \in near(i) \/ \E u \in near(i) : <<u, y>> \in hops
    <2>1. ASSUME NEW i \in Nat, NEW y
          PROVE  y \in near(i + 1) <=> y \in near(i) \/ \E u \in near(i) : <<u, y>> \in hops
        BY <1>7, WithinStep
    <2> QED BY <2>1
<1> HIDE DEF near
<1>11. \A x \in t.versions \ s.versions :
          d < MAX_CALL_DEPTH /\ x \in near(d + 1) /\ IsAt(hops, v, x, d + 1)
    <2> SUFFICES ASSUME NEW x \in t.versions \ s.versions
                 PROVE  d < MAX_CALL_DEPTH /\ x \in near(d + 1) /\ IsAt(hops, v, x, d + 1)
        OBVIOUS
    <2>1. d < MAX_CALL_DEPTH /\ <<w, x>> \in hops
        BY <1>4, <1>6, <1>7, <1>9
    <2>2. x \in near(d + 1)
        BY <1>6, <1>9, <1>10, <2>1
    <2>3. ASSUME NEW i \in Nat, i < d + 1 PROVE x \notin near(i)
        <3>1. i <= d
            BY <1>6, <2>3
        <3> QED BY <1>6, <1>8, <3>1
    <2> QED BY <2>1, <2>2, <2>3 DEF IsAt, near
<1>12. t.versions \subseteq near(MAX_CALL_DEPTH)
    <2> SUFFICES ASSUME NEW x \in t.versions \ s.versions PROVE x \in near(MAX_CALL_DEPTH)
        BY <1>1
    <2>1. d + 1 \in Nat /\ d + 1 <= MAX_CALL_DEPTH
        BY <1>5, <1>6, <1>11
    <2> QED BY <1>5, <1>8, <1>11, <2>1
<1>13. \A i \in 1 .. n : \/ i \in 1 .. k - 1 /\ i + 1 \in 1 .. k /\ t.queue[i] = s.queue[i + 1]
                         \/ i \in k .. n /\ i \notin 1 .. k - 1
    BY <1>4
<1>14. \A i \in 1 .. n : /\ t.queue[i][1] \in t.versions
                         /\ t.queue[i][2] \in Nat /\ t.queue[i][2] <= MAX_CALL_DEPTH
                         /\ IsAt(hops, v, t.queue[i][1], t.queue[i][2])
                         /\ d <= t.queue[i][2] /\ t.queue[i][2] <= d + 1
    <2> SUFFICES ASSUME NEW i \in 1 .. n
                 PROVE  /\ t.queue[i][1] \in t.versions
                        /\ t.queue[i][2] \in Nat /\ t.queue[i][2] <= MAX_CALL_DEPTH
                        /\ IsAt(hops, v, t.queue[i][1], t.queue[i][2])
                        /\ d <= t.queue[i][2] /\ t.queue[i][2] <= d + 1
        OBVIOUS
    <2>1. CASE i \in 1 .. k - 1 /\ i + 1 \in 1 .. k /\ t.queue[i] = s.queue[i + 1]
        <3>1. 1 \in 1 .. k /\ 1 <= i + 1
            BY <1>4, <2>1
        <3>2. d <= s.queue[i + 1][2] /\ s.queue[i + 1][2] <= d + 1
            BY <1>1, <1>2, <2>1, <3>1
        <3> QED BY <1>1, <1>4, <2>1, <3>2
    <2>2. CASE i \in k .. n
        <3>1. t.queue[i][2] = d + 1 /\ t.queue[i][1] \in t.versions \ s.versions
            BY <1>4, <2>2
        <3>2. d < MAX_CALL_DEPTH /\ IsAt(hops, v, t.queue[i][1], d + 1)
            BY <1>11, <3>1
        <3> QED BY <1>5, <1>6, <3>1, <3>2
    <2> QED BY <1>13, <2>1, <2>2
<1>15. ASSUME NEW i \in 1 .. n, NEW j \in 1 .. n, i <= j
       PROVE  t.queue[i][2] <= t.queue[j][2] /\ t.queue[j][2] <= t.queue[i][2] + 1
    <2>1. CASE i \in 1 .. k - 1 /\ j \in 1 .. k - 1
        <3>1. i + 1 \in 1 .. k /\ j + 1 \in 1 .. k /\ i + 1 <= j + 1
            BY <1>4, <1>15, <2>1
        <3>2. t.queue[i] = s.queue[i + 1] /\ t.queue[j] = s.queue[j + 1]
            BY <1>4, <2>1
        <3> QED BY <1>1, <3>1, <3>2
    <2>2. CASE j \notin 1 .. k - 1
        <3>1. t.queue[j][2] = d + 1
            BY <1>4, <1>13, <2>2
        <3> QED BY <1>6, <1>14, <3>1
    <2>3. CASE i \notin 1 .. k - 1
        <3>1. j \notin 1 .. k - 1
            BY <1>4, <1>15, <2>3
        <3> QED BY <2>2, <3>1
    <2> QED BY <2>1, <2>2, <2>3
<1>16. ASSUME NEW u \in s.versions, NEW i \in 1 .. k, s.queue[i][1] = u
       PROVE  u = w \/ \E j \in 1 .. n : t.queue[j] = s.queue[i] /\ t.queue[j][1] = u
    <2>1. CASE i = 1
        BY <1>2, <1>16, <2>1
    <2>2. CASE i # 1
        <3>1. i - 1 \in 1 .. k - 1 /\ i - 1 \in 1 .. n /\ (i - 1) + 1 = i
            BY <1>4, <2>2
        <3>2. t.queue[i - 1] = s.queue[i]
            BY <1>4, <3>1
        <3> QED BY <1>16, <3>1, <3>2
    <2> QED BY <2>1, <2>2
<1>17. IsLeft(hops, v, w, t.versions)
    <2> SUFFICES ASSUME NEW i \in Nat, i < MAX_CALL_DEPTH, w \in near(i), NEW x, <<w, x>> \in hops
                 PROVE  x \in t.versions
        BY DEF IsLeft, near
    <2>1. ~(i < d)
        BY <1>6 DEF IsAt, near
    <2>2. d < MAX_CALL_DEPTH
        BY <1>5, <1>6, <2>1
    <2> QED BY <1>4, <1>6, <1>7, <1>9, <2>2
<1>18. ASSUME n # 0 PROVE near(t.queue[1][2]) \subseteq t.versions
    <2>1. 1 \in 1 .. n
        BY <1>4, <1>18
    <2>2. t.queue[1][2] = d \/ t.queue[1][2] = d + 1
        BY <1>6, <1>14, <2>1
    <2>3. CASE t.queue[1][2] = d
        BY <1>4, <1>6, <2>3
    <2>4. CASE t.queue[1][2] = d + 1
        <3>1. d < MAX_CALL_DEPTH
            BY <1>5, <1>6, <1>14, <2>1, <2>4
        <3>2. ASSUME NEW u \in near(d), NEW y, <<u, y>> \in hops PROVE y \in t.versions
            <4>1. u \in s.versions
                BY <1>6
            <4>2. CASE IsLeft(hops, v, u, s.versions)
                BY <1>4, <1>6, <3>1, <3>2, <4>2 DEF IsLeft, near
            <4>3. CASE u = w
                BY <1>6, <1>17, <3>1, <3>2, <4>3 DEF IsLeft, near
            <4>4. ASSUME NEW j \in 1 .. n, t.queue[j][1] = u PROVE FALSE
                <5>1. t.queue[1][2] <= t.queue[j][2] /\ t.queue[j][2] \in Nat
                    BY <1>14, <1>15, <2>1
                <5>2. d < t.queue[j][2]
                    BY <1>6, <2>4, <5>1
                <5>3. IsAt(hops, v, u, t.queue[j][2])
                    BY <1>14, <4>4
                <5> QED BY <1>6, <3>2, <5>2, <5>3 DEF IsAt, near
            <4> QED BY <1>1, <1>16, <4>1, <4>2, <4>3, <4>4
        <3>3. near(d) \subseteq t.versions
            BY <1>4, <1>6
        <3> QED BY <1>6, <1>10, <2>4, <3>2, <3>3
    <2> QED BY <2>2, <2>3, <2>4
<1>19. ASSUME NEW u \in t.versions
       PROVE  (\E i \in 1 .. n : t.queue[i][1] = u) \/ IsLeft(hops, v, u, t.versions)
    <2>1. CASE u \notin s.versions
        <3>1. PICK i \in k .. n : t.queue[i][1] = u
            BY <1>4, <2>1
        <3>2. i \in 1 .. n
            BY <1>4
        <3> QED BY <3>1, <3>2
    <2>2. CASE u \in s.versions
        <3>1. CASE IsLeft(hops, v, u, s.versions)
            BY <1>4, <3>1 DEF IsLeft
        <3> QED BY <1>1, <1>16, <1>17, <2>2, <3>1
    <2> QED BY <2>1, <2>2
<1>20. Layered(edges, v, M, hops, t)
    BY <1>4, <1>12, <1>14, <1>15, <1>18, <1>19 DEF Layered, n, near
<1> QED BY <1>4, <1>20 DEF n, k

\* The rounds of the search.
Beginning(v) == [queue |-> <<<<v, 0>>>>, methods |-> {}, versions |-> {v}, ordered |-> <<>>]
SearchRound(edges, order, s) == IF s.queue = <<>> THEN s ELSE Expand(edges, order, s)

SearchingTo(p, edges, order, v, M) ==
    /\ p \in [0 .. Cardinality(Versions) -> SearchState(edges, v, M)]
    /\ p[0] = Beginning(v)
    /\ \A k \in 0 .. Cardinality(Versions) :
          k < Cardinality(Versions) => p[k + 1] = SearchRound(edges, order, p[k])

\* There are such states, and the last is what the search ends with.
LEMMA SearchRounds ==
    ASSUME NEW edges, NEW v, NEW M, NEW order \in Seq(M)
    PROVE  \E p : /\ SearchingTo(p, edges, order, v, M)
                  /\ p[Cardinality(Versions)].ordered = BfsVersions(edges, order, v)
<1> DEFINE V == SearchState(edges, v, M)
           first == [queue |-> <<<<v, 0>>>>, methods |-> {}, versions |-> {v}, ordered |-> <<>>]
           n == Cardinality(Versions)
           list == [i \in 1 .. n |-> i]
           Add(t, i) == IF t.queue = <<>> THEN t ELSE Expand(edges, order, t)
           Eq(f) == f = [x \in SUBSET (1 .. n) |->
                           IF x = {} THEN first ELSE Add(f[x \ {Max(x)}], list[Max(x)])]
           G == [y \in V \X (1 .. n) |-> Add(y[1], list[y[2]])]
           kept == CHOOSE f : Eq(f)
<1>1. n \in Nat
    BY ContextAssumption, FS_CardinalityType
<1>2. BfsVersions(edges, order, v) = kept[1 .. n].ordered
    <2>1. DOMAIN list = 1 .. n
        OBVIOUS
    <2> HIDE DEF list, n
    <2>2. FoldLeft(Add, first, list) = kept[1 .. n]
        BY <2>1 DEF FoldLeft, MapThenFoldSet
    <2> QED BY <2>2 DEF BfsVersions, list, n
<1>3. first \in V
    <2>1. <<<<v, 0>>>> \in Seq((Versioned(edges) \cup {v}) \X Nat)
        OBVIOUS
    <2>2. <<>> \in Seq(Versioned(edges))
        OBVIOUS
    <2> QED BY <2>1, <2>2 DEF SearchState
<1>a. first = Beginning(v)
    BY DEF Beginning
<1> HIDE DEF first, n, list
<1>4. \A i : \A t \in V : Add(t, i) \in V
    BY ExpandKeeps
<1>b. \A i, t : Add(t, i) = SearchRound(edges, order, t)
    BY DEF SearchRound
<1> HIDE DEF V, Add
<1>5. G \in [V \X (1 .. n) -> V] /\ \A t \in V, i \in 1 .. n : G[<<t, i>>] = Add(t, list[i])
    BY <1>4
<1> HIDE DEF G
<1>6. PICK f \in [SUBSET (1 .. n) -> V] : FoldOf(f, n, first, G)
    BY <1>1, <1>3, <1>5, FoldExists
<1>c. \A x \in SUBSET (1 .. n) : x # {} => Max(x) \in 1 .. n
    BY <1>1, LastIndex
<1>7. Eq(f)
    <2>1. \A x \in SUBSET (1 .. n) : x # {} => f[x \ {Max(x)}] \in V
        BY <1>6
    <2> QED BY <1>c, <1>5, <1>6, <2>1 DEF FoldOf
<1>8. Eq(kept)
    <2> HIDE DEF Eq
    <2> QED BY <1>7
<1> HIDE DEF kept
<1>9. FoldsBy(kept, n, first, V, G)
    <2>1. kept[{}] = first
        <3>1. {} \in SUBSET (1 .. n)
            OBVIOUS
        <3> QED BY <1>8, <3>1
    <2>2. ASSUME NEW x \in SUBSET (1 .. n), x # {}, kept[x \ {Max(x)}] \in V
          PROVE  kept[x] = G[<<kept[x \ {Max(x)}], Max(x)>>]
        <3>1. kept[x] = Add(kept[x \ {Max(x)}], list[Max(x)])
            BY <1>8, <2>2
        <3> QED BY <1>c, <1>5, <2>2, <3>1
    <2> HIDE DEF Eq
    <2> QED BY <1>1, <1>3, <1>5, <2>1, <2>2 DEF FoldsBy
<1> HIDE DEF Eq
<1>10. PICK p : Runs(p, n, V, G) /\ p[0] = first /\ p[n] = kept[1 .. n]
    BY <1>9, FoldRuns
<1>11. p \in [0 .. n -> V] /\ \A k \in 0 .. n : k < n => p[k + 1] = G[<<p[k], k + 1>>]
    BY <1>10 DEF Runs
<1>12. \A k \in 0 .. n : k < n => p[k + 1] = SearchRound(edges, order, p[k])
    <2>1. \A k \in 0 .. n : k < n => k + 1 \in 1 .. n /\ p[k] \in V
        BY <1>1, <1>11
    <2> QED BY <1>5, <1>11, <1>b, <2>1
<1>13. SearchingTo(p, edges, order, v, M)
    BY <1>10, <1>11, <1>12, <1>a DEF n, V, SearchingTo
<1>14. p[Cardinality(Versions)].ordered = BfsVersions(edges, order, v)
    BY <1>2, <1>10 DEF n
<1> QED BY <1>13, <1>14

\* The layers at first.
LEMMA LayeredFirst ==
    ASSUME NEW edges, NEW v \in Versions, NEW M, NEW hops,
           Beginning(v) \in SearchState(edges, v, M)
    PROVE  /\ Layered(edges, v, M, hops, Beginning(v))
           /\ Len(Beginning(v).queue) = 1 /\ Cardinality(Beginning(v).versions) = 1
<1> DEFINE s == Beginning(v)
<1>1. /\ s.queue = <<<<v, 0>>>> /\ s.methods = {} /\ s.versions = {v} /\ s.ordered = <<>>
    BY DEF Beginning
<1> HIDE DEF s
<1>2. /\ Len(s.queue) = 1 /\ s.queue[1] = <<v, 0>> /\ s.queue[1][1] = v /\ s.queue[1][2] = 0
      /\ \A i \in 1 .. Len(s.queue) : i = 1
    BY <1>1
<1>3. Within(hops, v, 0) = {v}
    BY WithinNone
<1>4. MAX_CALL_DEPTH \in Nat
    BY QuestionAssumption
<1>5. v \in Within(hops, v, MAX_CALL_DEPTH)
    BY <1>3, <1>4, WithinMore
<1>6. IsAt(hops, v, v, 0)
    BY <1>3 DEF IsAt
<1>7. Settled(edges, v, M, s)
    <2>1. ToSet(s.ordered) = {}
        BY <1>1 DEF ToSet
    <2>2. s \in SearchState(edges, v, M)
        BY DEF s
    <2> QED BY <1>1, <2>1, <2>2 DEF Settled
<1>8. Layered(edges, v, M, hops, s)
    <2>1. \A i \in 1 .. Len(s.queue) : /\ s.queue[i][1] \in s.versions
                                       /\ s.queue[i][2] \in Nat /\ s.queue[i][2] <= MAX_CALL_DEPTH
                                       /\ IsAt(hops, v, s.queue[i][1], s.queue[i][2])
        BY <1>1, <1>2, <1>4, <1>6
    <2>2. \A i, j \in 1 .. Len(s.queue) :
             i <= j => s.queue[i][2] <= s.queue[j][2] /\ s.queue[j][2] <= s.queue[i][2] + 1
        BY <1>2
    <2>3. Within(hops, v, s.queue[1][2]) \subseteq s.versions
        BY <1>1, <1>2, <1>3
    <2>4. \A u \in s.versions : \E i \in 1 .. Len(s.queue) : s.queue[i][1] = u
        BY <1>1, <1>2
    <2> QED BY <1>1, <1>5, <1>7, <2>1, <2>2, <2>3, <2>4 DEF Layered
<1>9. Cardinality(s.versions) = 1
    BY <1>1, FS_Singleton
<1> QED BY <1>2, <1>8, <1>9 DEF s

\* The search finds whatever is within its depth, and nothing else.
LEMMA BfsReaches ==
    ASSUME NEW edges, NEW v \in Versions, Versioned(edges) \subseteq Versions, NEW M,
           NEW hops, Follows(edges, hops, v), NEW order \in Seq(M),
           \A w : CalledFrom(edges, w) \subseteq ToSet(order)
    PROVE  ToSet(BfsVersions(edges, order, v)) = Within(hops, v, MAX_CALL_DEPTH) \ {v}
<1> DEFINE N == Cardinality(Versions)
<1>1. N \in Nat
    BY ContextAssumption, FS_CardinalityType
<1>2. PICK p : /\ SearchingTo(p, edges, order, v, M)
               /\ p[Cardinality(Versions)].ordered = BfsVersions(edges, order, v)
    BY SearchRounds
<1>3. /\ p \in [0 .. N -> SearchState(edges, v, M)]
      /\ p[0] = Beginning(v)
      /\ \A k \in 0 .. N : k < N => p[k + 1] = SearchRound(edges, order, p[k])
    BY <1>2 DEF SearchingTo
<1>4. p[N].ordered = BfsVersions(edges, order, v)
    BY <1>2
<1> HIDE DEF N
<1> DEFINE Counted(k, s) == s.queue = <<>> \/ Len(s.queue) + k = Cardinality(s.versions)
           A == {k \in Nat : k <= N => Layered(edges, v, M, hops, p[k]) /\ Counted(k, p[k])}
<1>5. 0 \in A
    <2>1. Beginning(v) \in SearchState(edges, v, M)
        BY <1>1, <1>3
    <2>2. /\ Layered(edges, v, M, hops, Beginning(v))
          /\ Len(Beginning(v).queue) = 1 /\ Cardinality(Beginning(v).versions) = 1
        BY <2>1, LayeredFirst
    <2>3. Len(Beginning(v).queue) + 0 = Cardinality(Beginning(v).versions)
        BY <2>2
    <2>4. Counted(0, Beginning(v))
        BY <2>3
    <2> HIDE DEF Counted
    <2> QED BY <1>3, <2>2, <2>4
<1>6. ASSUME NEW k \in Nat, k \in A PROVE k + 1 \in A
    <2> SUFFICES ASSUME k + 1 <= N
                 PROVE  Layered(edges, v, M, hops, p[k + 1]) /\ Counted(k + 1, p[k + 1])
        OBVIOUS
    <2> DEFINE s == p[k]
               t == p[k + 1]
    <2>1. k \in 0 .. N /\ k < N /\ k <= N
        BY <1>1
    <2>2. t = SearchRound(edges, order, s) /\ Layered(edges, v, M, hops, s)
        BY <1>3, <1>6, <2>1
    <2>a. s.queue = <<>> \/ Len(s.queue) + k = Cardinality(s.versions)
        BY <1>6, <2>1
    <2> HIDE DEF s, t, A
    <2>3. CASE s.queue = <<>>
        <3>1. t = s
            BY <2>2, <2>3 DEF SearchRound
        <3> QED BY <2>2, <2>3, <3>1 DEF t
    <2>4. CASE s.queue # <<>>
        <3>1. t = Expand(edges, order, s)
            BY <2>2, <2>4 DEF SearchRound
        <3>2. /\ Layered(edges, v, M, hops, t)
              /\ Len(t.queue) + Cardinality(s.versions) + 1 = Len(s.queue) + Cardinality(t.versions)
            BY <2>2, <2>4, <3>1, ExpandLayered
        <3>3. s \in SearchState(edges, v, M) /\ t \in SearchState(edges, v, M)
            BY <2>2, <3>2 DEF Layered, Settled
        <3>4. /\ Len(s.queue) \in Nat /\ Cardinality(s.versions) \in Nat
              /\ Len(t.queue) \in Nat /\ Cardinality(t.versions) \in Nat
            BY <3>3, StateParts
        <3>5. Len(t.queue) + (k + 1) = Cardinality(t.versions)
            <4> DEFINE a == Len(s.queue)
                       b == Cardinality(s.versions)
                       c == Len(t.queue)
                       e == Cardinality(t.versions)
            <4>1. c + b + 1 = a + e /\ a + k = b /\ a \in Nat /\ b \in Nat /\ c \in Nat /\ e \in Nat
                BY <2>a, <2>4, <3>2, <3>4
            <4> HIDE DEF a, b, c, e
            <4>2. c + (k + 1) = e
                BY <4>1
            <4> QED BY <4>2 DEF c, e
        <3> QED BY <3>2, <3>5 DEF t
    <2> QED BY <2>3, <2>4
<1>7. N \in A
    <2> HIDE DEF A
    <2> QED BY <1>1, <1>5, <1>6, UpwardInduction
<1> DEFINE s == p[N]
<1>8. Layered(edges, v, M, hops, s) /\ (s.queue = <<>> \/ Len(s.queue) + N = Cardinality(s.versions))
    BY <1>1, <1>7
<1>a. s.ordered = BfsVersions(edges, order, v)
    BY <1>4
<1> HIDE DEF s, A
<1>9. Settled(edges, v, M, s)
    BY <1>8 DEF Layered
<1>10. s \in SearchState(edges, v, M) /\ ToSet(s.ordered) = s.versions \ {v} /\ v \in s.versions
    BY <1>9 DEF Settled
<1>11. Len(s.queue) = 0
    <2>1. Len(s.queue) \in Nat /\ Cardinality(s.versions) \in Nat /\ Cardinality(s.versions) <= N
        BY <1>10, StateParts DEF N
    <2>2. CASE s.queue = <<>>
        BY <2>2
    <2>3. CASE Len(s.queue) + N = Cardinality(s.versions)
        <3> DEFINE a == Len(s.queue)
                   b == Cardinality(s.versions)
        <3>1. a + N = b /\ b <= N /\ a \in Nat /\ b \in Nat
            BY <2>1, <2>3
        <3> HIDE DEF a, b
        <3>2. a = 0
            BY <1>1, <3>1
        <3> QED BY <3>2 DEF a
    <2> QED BY <1>8, <2>2, <2>3
<1>12. /\ s.versions \subseteq Within(hops, v, MAX_CALL_DEPTH)
       /\ \A u \in s.versions : IsLeft(hops, v, u, s.versions)
    BY <1>8, <1>11 DEF Layered
<1> DEFINE B == {n \in Nat : n <= MAX_CALL_DEPTH => Within(hops, v, n) \subseteq s.versions}
<1>13. MAX_CALL_DEPTH \in Nat
    BY QuestionAssumption
<1>14. 0 \in B
    BY <1>10, WithinNone
<1>15. ASSUME NEW n \in Nat, n \in B PROVE n + 1 \in B
    <2> SUFFICES ASSUME n + 1 <= MAX_CALL_DEPTH, NEW y \in Within(hops, v, n + 1)
                 PROVE  y \in s.versions
        OBVIOUS
    <2>1. n < MAX_CALL_DEPTH /\ Within(hops, v, n) \subseteq s.versions
        BY <1>13, <1>15
    <2>2. hops \subseteq Versions \X Versions
        BY DEF Follows
    <2>3. y \in Within(hops, v, n) \/ \E u \in Within(hops, v, n) : <<u, y>> \in hops
        BY <2>2, WithinStep
    <2> QED BY <1>12, <2>1, <2>3 DEF IsLeft
<1>16. MAX_CALL_DEPTH \in B
    <2> HIDE DEF B
    <2> QED BY <1>13, <1>14, <1>15, UpwardInduction
<1>17. s.versions = Within(hops, v, MAX_CALL_DEPTH)
    <2>1. Within(hops, v, MAX_CALL_DEPTH) \subseteq s.versions
        BY <1>13, <1>16
    <2>2. s.versions \subseteq Within(hops, v, MAX_CALL_DEPTH)
        BY <1>12
    <2> QED BY <2>1, <2>2
<1> QED BY <1>10, <1>17, <1>a

-----------------------------------------------------------------------------
(* The code a flow question finds *)

\* The calls the enricher may follow, from version to version.
SureHops ==
    {p \in stored \X stored :
        /\ <<p[1], MethodOf[p[2]]>> \in calls.all \ calls.ambiguous
        /\ MethodOf[p[2]] \notin Accessors
        /\ {y \in stored : MethodOf[y] = MethodOf[p[2]]} = {p[2]}}

\* The relationships the paths from a version are made of.
FlowRelations == CallEdges \cup HttpEdges \cup VersionEdges

\* A call is two relationships.
LEMMA TwoPerCall ==
    ASSUME NEW v, NEW n \in Nat, NEW w \in Within(SureHops, v, n)
    PROVE  w \in Within(Forward(FlowRelations), v, 2 * n)
<1> DEFINE two(k) == Within(Forward(FlowRelations), v, k)
           A == {k \in Nat : Within(SureHops, v, k) \subseteq two(2 * k)}
<1>1. 0 \in A
    BY WithinNone
<1>2. ASSUME NEW k \in Nat, k \in A PROVE k + 1 \in A
    <2>1. Within(SureHops, v, k + 1) = Hop(SureHops, Within(SureHops, v, k))
        BY WithinNext
    <2>2. 2 * k \in Nat /\ 2 * k + 1 \in Nat /\ 2 * (k + 1) = (2 * k + 1) + 1
        OBVIOUS
    <2>3. /\ two(2 * k + 1) = Hop(Forward(FlowRelations), two(2 * k))
          /\ two(2 * (k + 1)) = Hop(Forward(FlowRelations), two(2 * k + 1))
        BY <2>2, WithinNext
    <2> HIDE DEF two
    <2>4. ASSUME NEW y \in Hop(SureHops, Within(SureHops, v, k)) PROVE y \in two(2 * (k + 1))
        <3>1. CASE y \in Within(SureHops, v, k)
            BY <1>2, <2>3, <3>1, HopTo
        <3>2. CASE \E h \in SureHops : h[1] \in Within(SureHops, v, k) /\ y = h[2]
            <4>1. PICK h \in SureHops : h[1] \in Within(SureHops, v, k) /\ y = h[2]
                BY <3>2
            <4> DEFINE m == MethodOf[y]
                       c == <<h[1], m>>
            <4>2. h[1] \in stored /\ y \in stored /\ <<h[1], m>> \in calls.all
                BY <4>1 DEF SureHops
            <4>3. <<"CALLS", h[1], m>> \in FlowRelations
                <5>1. c[1] = h[1] /\ c[2] = m /\ c \in calls.all
                    BY <4>2
                <5> HIDE DEF c
                <5> QED BY <4>2, <5>1 DEF FlowRelations, CallEdges
            <4>4. <<"HAS_VERSION", m, y>> \in FlowRelations
                BY <4>2 DEF FlowRelations, VersionEdges
            <4> HIDE DEF m, c
            <4>5. <<h[1], m>> \in Forward(FlowRelations) /\ <<m, y>> \in Forward(FlowRelations)
                BY <4>3, <4>4 DEF Forward
            <4>6. m \in two(2 * k + 1)
                <5> DEFINE g == <<h[1], m>>
                <5>1. g \in Forward(FlowRelations) /\ g[1] \in two(2 * k) /\ m = g[2]
                    BY <1>2, <4>1, <4>5
                <5> HIDE DEF g
                <5> QED BY <2>3, <5>1, HopTo
            <4> DEFINE g == <<m, y>>
            <4>7. g \in Forward(FlowRelations) /\ g[1] \in two(2 * k + 1) /\ y = g[2]
                BY <4>5, <4>6
            <4> HIDE DEF g
            <4> QED BY <2>3, <4>7, HopTo
        <3> QED BY <3>1, <3>2, HopTo
    <2> QED BY <2>1, <2>4
<1>3. n \in A
    <2> HIDE DEF A
    <2> QED BY <1>1, <1>2, UpwardInduction
<1> QED BY <1>3

\* The paths from a version: all relationships from what is near it, and no others
\* than there are.
LEMMA FlowPaths ==
    ASSUME NEW v
    PROVE  /\ CallsForward(v) \subseteq FlowRelations \cup ExposesEdges
           /\ \A e \in FlowRelations :
                 e[2] \in Within(Forward(FlowRelations), v, 2 * MAX_CALL_DEPTH - 1)
                     => e \in CallsForward(v)
<1> DEFINE near == Within(Forward(FlowRelations), v, 2 * MAX_CALL_DEPTH - 1)
           paths == {e \in FlowRelations : e[2] \in near}
           handled == {x \in ExposesEdges : x[3] \in Ends(paths)}
<1>1. CallsForward(v) =
          IF paths = {} THEN {}
          ELSE paths \cup {e \in VersionEdges : e[3] = v}
               \cup {x \in ExposesEdges : x[2] = MethodOf[v]}
               \cup handled \cup UNION {Downstream(x[2]) : x \in handled}
    BY DEF CallsForward, FlowRelations
<1>2. \A m : Downstream(m) \subseteq FlowRelations
    BY DEF Downstream, FlowRelations
<1>3. VersionEdges \subseteq FlowRelations
    BY DEF FlowRelations
<1>4. \A e \in FlowRelations : e[2] \in near => e \in paths
    OBVIOUS
<1>5. paths \subseteq FlowRelations /\ handled \subseteq ExposesEdges
    OBVIOUS
<1> HIDE DEF paths, handled
<1>6. paths \subseteq CallsForward(v)
    BY <1>1
<1>7. CallsForward(v) \subseteq FlowRelations \cup ExposesEdges
    <2> DEFINE down == UNION {Downstream(x[2]) : x \in handled}
    <2>1. down \subseteq FlowRelations
        BY <1>2
    <2>2. \/ CallsForward(v) = {}
          \/ CallsForward(v) = paths \cup {e \in VersionEdges : e[3] = v}
                                 \cup {x \in ExposesEdges : x[2] = MethodOf[v]} \cup handled \cup down
        BY <1>1
    <2> HIDE DEF down
    <2> QED BY <1>3, <1>5, <2>1, <2>2
<1>8. \A e \in FlowRelations : e[2] \in near => e \in CallsForward(v)
    BY <1>4, <1>6
<1> QED BY <1>7, <1>8

\* What w calls, and the versions of that, by the graph of a flow question from v.
LEMMA FlowCalls ==
    ASSUME StoreInv, NEW v \in Versions,
           NEW paths, paths = CallsForward(v), NEW nodes, nodes = NodesOf(paths, v),
           NEW edges, edges = EdgesOf(paths, nodes),
           NEW n \in Nat, n < MAX_CALL_DEPTH, NEW w \in Within(SureHops, v, n)
    PROVE  /\ \A m : m \in CalledFrom(edges, w) <=>
                        /\ w \in stored /\ <<w, m>> \in calls.all \ calls.ambiguous
                        /\ m \notin Accessors
           /\ \A m \in CalledFrom(edges, w) :
                 VersionsOf(edges, m) = {y \in stored : MethodOf[y] = m}
<1> DEFINE near == Within(Forward(FlowRelations), v, 2 * MAX_CALL_DEPTH - 1)
<1>1. /\ stored \subseteq Versions /\ calls.all \subseteq Versions \X Methods
      /\ Methods \cap Versions = {} /\ MethodOf \in [Versions -> Methods]
      /\ Accessors \subseteq Methods
    BY QuestionAssumption, ContextAssumption DEF StoreInv
<1>2. /\ paths \subseteq FlowRelations \cup ExposesEdges
      /\ \A e \in FlowRelations : e[2] \in near => e \in paths
    BY FlowPaths
<1>3. /\ \A e : e \in edges <=> e \in paths /\ ~IsAmbiguousCall(e) /\ e[2] \in nodes /\ e[3] \in nodes
      /\ \A x : x \in nodes <=>
            /\ \E e \in paths : x \in {e[2], e[3]}
            /\ \/ x = v
               \/ ~(x \in Accessors \/ \E e \in paths :
                       e[1] = "HAS_VERSION" /\ e[3] = x /\ e[2] \in Accessors)
    BY DEF EdgesOf, NodesOf
<1>4. /\ w \in Within(Forward(FlowRelations), v, 2 * n)
      /\ w \in near
      /\ 2 * n \in Nat /\ 2 * n + 1 \in Nat /\ 2 * MAX_CALL_DEPTH - 1 \in Nat
      /\ 2 * n + 1 <= 2 * MAX_CALL_DEPTH - 1
    <2>1. MAX_CALL_DEPTH \in Nat
        BY QuestionAssumption
    <2>2. /\ 2 * n \in Nat /\ 2 * n + 1 \in Nat /\ 2 * MAX_CALL_DEPTH - 1 \in Nat
          /\ 2 * n + 1 <= 2 * MAX_CALL_DEPTH - 1 /\ 2 * n <= 2 * MAX_CALL_DEPTH - 1
        BY <2>1
    <2>3. w \in Within(Forward(FlowRelations), v, 2 * n)
        BY TwoPerCall
    <2> QED BY <2>2, <2>3, WithinMore
<1>5. \A m : <<"CALLS", w, m>> \in FlowRelations => m \in near
    <2> SUFFICES ASSUME NEW m, <<"CALLS", w, m>> \in FlowRelations PROVE m \in near
        OBVIOUS
    <2> DEFINE g == <<w, m>>
    <2>1. g \in Forward(FlowRelations) /\ g[1] = w /\ m = g[2]
        BY DEF Forward
    <2>2. Within(Forward(FlowRelations), v, 2 * n + 1)
              = Hop(Forward(FlowRelations), Within(Forward(FlowRelations), v, 2 * n))
        BY <1>4, WithinNext
    <2> HIDE DEF g
    <2>3. m \in Within(Forward(FlowRelations), v, 2 * n + 1)
        BY <1>4, <2>1, <2>2, HopTo
    <2> QED BY <1>4, <2>3, WithinMore
<1> HIDE DEF near
<1>6. w \in Versions /\ (w # v => MethodOf[w] \notin Accessors)
    <2>1. CASE w # v
        <3>1. PICK h \in SureHops : h[2] = w
            BY <2>1, WithinEnds
        <3> QED BY <1>1, <3>1 DEF SureHops
    <2> QED BY <2>1
<1>7. \A e \in paths : e[1] = "HAS_VERSION" => \E y \in stored : e = <<"HAS_VERSION", MethodOf[y], y>>
    BY <1>2 DEF FlowRelations, CallEdges, HttpEdges, VersionEdges, ExposesEdges
<1>8. \A e \in paths : e[1] = "CALLS" => \E c \in calls.all : c[1] \in stored /\ e = <<"CALLS", c[1], c[2]>>
    BY <1>2 DEF FlowRelations, CallEdges, HttpEdges, VersionEdges, ExposesEdges
<1>9. \A e \in paths : e[1] = "HAS_VERSION" => e[3] \in stored /\ e[2] = MethodOf[e[3]]
    BY <1>7
<1>10. \A x \in Versions : (\E e \in paths : x \in {e[2], e[3]}) /\ (x # v => MethodOf[x] \notin Accessors)
          => x \in nodes
    BY <1>1, <1>3, <1>9
<1>11. \A m \in Methods : m \in nodes <=> (\E e \in paths : m \in {e[2], e[3]}) /\ m \notin Accessors
    BY <1>1, <1>3, <1>9
<1>12. ASSUME NEW m, m \in CalledFrom(edges, w)
       PROVE  /\ w \in stored /\ <<w, m>> \in calls.all \ calls.ambiguous
              /\ m \in Methods /\ m \notin Accessors /\ m \in near /\ m \in nodes
    <2>1. PICK e \in edges : e[1] = "CALLS" /\ e[2] = w /\ e[3] = m
        BY <1>12 DEF CalledFrom
    <2>2. e \in paths /\ ~IsAmbiguousCall(e) /\ m \in nodes
        BY <1>3, <2>1
    <2>3. PICK c \in calls.all : c[1] \in stored /\ e = <<"CALLS", c[1], c[2]>>
        BY <1>8, <2>1, <2>2
    <2>4. c[1] = w /\ c[2] = m /\ c = <<w, m>> /\ m \in Methods
        BY <1>1, <2>1, <2>3
    <2>5. <<w, m>> \notin calls.ambiguous
        BY <2>1, <2>2 DEF IsAmbiguousCall, CallRelations
    <2>6. <<"CALLS", w, m>> \in FlowRelations
        BY <2>3, <2>4 DEF FlowRelations, CallEdges
    <2>7. m \in near
        BY <1>5, <2>6
    <2>8. m \notin Accessors
        BY <1>11, <2>2, <2>4
    <2> QED BY <2>2, <2>3, <2>4, <2>5, <2>7, <2>8
<1>13. ASSUME NEW m, w \in stored, <<w, m>> \in calls.all \ calls.ambiguous, m \notin Accessors
       PROVE  m \in CalledFrom(edges, w)
    <2> DEFINE e == <<"CALLS", w, m>>
               c == <<w, m>>
    <2>1. c[1] = w /\ c[2] = m /\ c \in calls.all /\ m \in Methods
        BY <1>1, <1>13
    <2>2. e \in FlowRelations
        <3> HIDE DEF c
        <3> QED BY <1>13, <2>1 DEF FlowRelations, CallEdges
    <2>3. e[1] = "CALLS" /\ e[2] = w /\ e[3] = m
        OBVIOUS
    <2>4. ~IsAmbiguousCall(e)
        BY <1>13 DEF IsAmbiguousCall
    <2> HIDE DEF e
    <2>5. e \in paths
        BY <1>2, <1>4, <2>2, <2>3
    <2>6. w \in nodes /\ m \in nodes
        BY <1>6, <1>10, <1>11, <1>13, <2>1, <2>3, <2>5
    <2>7. e \in edges
        BY <1>3, <2>3, <2>4, <2>5, <2>6
    <2> QED BY <2>3, <2>7 DEF CalledFrom
<1>14. ASSUME NEW m, m \in CalledFrom(edges, w), NEW y
       PROVE  y \in VersionsOf(edges, m) <=> y \in stored /\ MethodOf[y] = m
    <2>1. m \in Methods /\ m \notin Accessors /\ m \in near /\ m \in nodes
        BY <1>12, <1>14
    <2>2. ASSUME y \in VersionsOf(edges, m) PROVE y \in stored /\ MethodOf[y] = m
        <3>1. PICK e \in edges : e[1] = "HAS_VERSION" /\ e[2] = m /\ e[3] = y
            BY <2>2 DEF VersionsOf
        <3> QED BY <1>3, <1>9, <3>1
    <2>3. ASSUME y \in stored, MethodOf[y] = m PROVE y \in VersionsOf(edges, m)
        <3> DEFINE e == <<"HAS_VERSION", m, y>>
        <3>1. e \in FlowRelations
            BY <2>3 DEF FlowRelations, VersionEdges
        <3>2. e[1] = "HAS_VERSION" /\ e[2] = m /\ e[3] = y
            OBVIOUS
        <3>3. ~IsAmbiguousCall(e)
            BY DEF IsAmbiguousCall, CallRelations
        <3> HIDE DEF e
        <3>4. e \in paths
            BY <1>2, <2>1, <3>1, <3>2
        <3>5. y \in nodes
            BY <1>1, <1>10, <2>1, <2>3, <3>2, <3>4
        <3>6. e \in edges
            BY <1>3, <2>1, <3>2, <3>3, <3>4, <3>5
        <3> QED BY <3>2, <3>6 DEF VersionsOf
    <2> QED BY <2>2, <2>3
<1>15. \A m : m \in CalledFrom(edges, w) <=>
                 /\ w \in stored /\ <<w, m>> \in calls.all \ calls.ambiguous
                 /\ m \notin Accessors
    BY <1>12, <1>13
<1>16. \A m \in CalledFrom(edges, w) : VersionsOf(edges, m) = {y \in stored : MethodOf[y] = m}
    BY <1>14
<1> QED BY <1>15, <1>16

\* The graph of a flow question leads along the calls that are sure, as far as the
\* search for code goes.
LEMMA FlowFollows ==
    ASSUME StoreInv, NEW v \in Versions,
           NEW paths, paths = CallsForward(v), NEW nodes, nodes = NodesOf(paths, v),
           NEW edges, edges = EdgesOf(paths, nodes)
    PROVE  /\ Follows(edges, SureHops, v)
           /\ Versioned(edges) \subseteq Versions
           /\ \A w : CalledFrom(edges, w) \subseteq Methods
<1>1. /\ stored \subseteq Versions /\ calls.all \subseteq Versions \X Methods
      /\ MethodOf \in [Versions -> Methods]
    BY QuestionAssumption, ContextAssumption DEF StoreInv
<1>2. edges \subseteq FlowRelations \cup ExposesEdges
    BY FlowPaths DEF EdgesOf
<1>3. Versioned(edges) \subseteq Versions
    <2> SUFFICES ASSUME NEW e \in edges, e[1] = "HAS_VERSION" PROVE e[3] \in Versions
        BY DEF Versioned
    <2>1. e \in VersionEdges
        BY <1>2 DEF FlowRelations, CallEdges, HttpEdges, ExposesEdges
    <2> QED BY <1>1, <2>1 DEF VersionEdges
<1>4. ASSUME NEW w PROVE CalledFrom(edges, w) \subseteq Methods
    <2> SUFFICES ASSUME NEW e \in edges, e[1] = "CALLS" PROVE e[3] \in Methods
        BY DEF CalledFrom
    <2>1. e \in CallEdges
        BY <1>2 DEF FlowRelations, HttpEdges, VersionEdges, ExposesEdges
    <2> QED BY <1>1, <2>1 DEF CallEdges
<1>5. SureHops \subseteq Versions \X Versions
    BY <1>1 DEF SureHops
<1>6. ASSUME NEW n \in Nat, n < MAX_CALL_DEPTH, NEW w \in Within(SureHops, v, n), NEW x
      PROVE  LeadsTo(edges, w, x) <=> <<w, x>> \in SureHops
    <2>1. /\ \A m : m \in CalledFrom(edges, w) <=>
                       /\ w \in stored /\ <<w, m>> \in calls.all \ calls.ambiguous
                       /\ m \notin Accessors
          /\ \A m \in CalledFrom(edges, w) :
                VersionsOf(edges, m) = {y \in stored : MethodOf[y] = m}
        BY <1>6, FlowCalls
    <2> DEFINE p == <<w, x>>
    <2>2. p[1] = w /\ p[2] = x /\ (p \in stored \X stored <=> w \in stored /\ x \in stored)
        OBVIOUS
    <2> HIDE DEF p
    <2>3. p \in SureHops <=>
             /\ w \in stored /\ x \in stored
             /\ <<w, MethodOf[x]>> \in calls.all \ calls.ambiguous
             /\ MethodOf[x] \notin Accessors
             /\ {y \in stored : MethodOf[y] = MethodOf[x]} = {x}
        BY <2>2 DEF SureHops
    <2>4. ASSUME LeadsTo(edges, w, x) PROVE p \in SureHops
        <3>1. PICK m \in CalledFrom(edges, w) : VersionsOf(edges, m) = {x}
            BY <2>4 DEF LeadsTo
        <3>2. {y \in stored : MethodOf[y] = m} = {x}
            BY <2>1, <3>1
        <3>3. x \in stored /\ MethodOf[x] = m
            BY <3>2
        <3> QED BY <2>1, <2>3, <3>1, <3>2, <3>3
    <2>5. ASSUME p \in SureHops PROVE LeadsTo(edges, w, x)
        <3> DEFINE m == MethodOf[x]
        <3>1. m \in CalledFrom(edges, w)
            BY <2>1, <2>3, <2>5
        <3>2. VersionsOf(edges, m) = {y \in stored : MethodOf[y] = m}
            BY <2>1, <3>1
        <3>3. VersionsOf(edges, m) = {x}
            BY <2>3, <2>5, <3>2
        <3> QED BY <3>1, <3>3 DEF LeadsTo
    <2> QED BY <2>4, <2>5 DEF p
<1>7. Follows(edges, SureHops, v)
    BY <1>5, <1>6 DEF Follows
<1> QED BY <1>3, <1>4, <1>7

\* For any calls, sure or not, and any depth: in the graph a flow question is given, the
\* search for code finds the versions within MAX_CALL_DEPTH sure calls, and no others.
THEOREM CodeFound == Spec => FlowFindsCalledCode
<1> DEFINE Found == qa.pc = "traverse" /\ qa'.pc = "enrich" /\ qa.kind = "flow" /\ qa.target # None
                      => \A edges \in {qa'.edges}, order \in Orders :
                            ToSet(BfsVersions(edges, order, qa.target))
                                = CalledWithin(qa.target, MAX_CALL_DEPTH)
<1>1. ASSUME GraphInv, [Next]_vars PROVE [Found]_vars
    <2> SUFFICES ASSUME qa.pc = "traverse", qa'.pc = "enrich", qa.kind = "flow",
                        qa.target # None, NEW order \in Orders
                 PROVE  ToSet(BfsVersions(qa'.edges, order, qa.target))
                            = CalledWithin(qa.target, MAX_CALL_DEPTH)
        OBVIOUS
    <2>1. StoreInv /\ qa.target \in Versions /\ DOMAIN qa = Fields /\ QuestionInv
        BY <1>1 DEF GraphInv, EvidenceInv, QuestionInv, HandedOn, CodeHandedOn
    <2>2. SearchGraphEvidence
        <3>1. qa' # qa
            OBVIOUS
        <3>2. PipelineStep \/ NodeFails \/ \E names \in Questions, ranking \in Rankings : AskAgain(names, ranking)
            BY <1>1, <3>1 DEF Next, StoreHistory, StoreChunks, vars
        <3>3. ~NodeFails
            BY <2>1 DEF NodeFails, Goto, Fields
        <3> QED BY <3>2, <3>3 DEF PipelineStep, ClassifyQuestion, ResolveEntities, SearchVectorEvidence,
                SelectTarget, EnrichCodeEvidence, FuseEvidence, ValidateEvidence, ComposeAnswer,
                ProviderLimit, Answered, AskAgain
    <2> DEFINE v == qa.target
               paths == CallsForward(v)
               nodes == NodesOf(paths, v)
               edges == EdgesOf(paths, nodes)
    <2>3. qa' = [[qa EXCEPT !.nodes = nodes, !.edges = edges] EXCEPT !.pc = "enrich"]
        BY <2>2 DEF SearchGraphEvidence, Goto, Traversal, StartNode
    <2>4. v \in Versions
        BY <2>1
    <2> HIDE DEF v
    <2>5. /\ Follows(edges, SureHops, v)
          /\ Versioned(edges) \subseteq Versions
          /\ \A w : CalledFrom(edges, w) \subseteq Methods
        BY <2>1, <2>4, FlowFollows
    <2> HIDE DEF paths, nodes, edges
    <2>6. qa'.edges = edges
        BY <2>1, <2>3 DEF Fields
    <2>7. order \in Seq(Methods \cup Endpoints) /\ Methods \subseteq ToSet(order)
        BY QuestionAssumption
    <2>8. \A w : CalledFrom(edges, w) \subseteq ToSet(order)
        BY <2>5, <2>7
    <2>9. ToSet(BfsVersions(edges, order, v)) = Within(SureHops, v, MAX_CALL_DEPTH) \ {v}
        BY <2>4, <2>5, <2>7, <2>8, BfsReaches
    <2>10. CalledWithin(v, MAX_CALL_DEPTH) = Within(SureHops, v, MAX_CALL_DEPTH) \ {v}
        BY DEF CalledWithin, SureHops
    <2> QED BY <2>6, <2>9, <2>10 DEF v
<1> QED BY <1>1, GraphHolds, PTL DEF Spec, FlowFindsCalledCode
================================================================================
