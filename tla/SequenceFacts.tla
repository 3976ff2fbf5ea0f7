---------------------------- MODULE SequenceFacts ----------------------------
(***************************************************************************)
(* Induction over the natural numbers and over the length of a sequence,   *)
(* stated with sets; what FlattenSeq does: a file is the concatenation of  *)
(* what landed of its frames, whose number has no bound; and sums.         *)
(***************************************************************************)
EXTENDS SequencesExt, Integers, WellFoundedInduction, SequenceTheorems, TLAPS

(* A set of natural numbers that is not empty has a least element. *)
LEMMA LeastNatural ==
  ASSUME NEW S \in SUBSET Nat, S # {}
  PROVE  \E m \in S : \A k \in S : m <= k
<1> DEFINE Less == {ss \in Nat \X Nat : ss[1] < ss[2]}
<1>1. IsWellFoundedOn(Less, Nat)
  BY NatLessThanWellFounded DEF OpToRel
<1>2. PICK m \in S : \A k \in S : <<k, m>> \notin Less
  <2> HIDE DEF Less
  <2> QED BY <1>1, WFMin
<1>3. ASSUME NEW k \in S PROVE m <= k
  <2>1. k \in Nat /\ m \in Nat
    OBVIOUS
  <2>2. k < m => <<k, m>> \in Less
    BY <2>1
  <2> QED BY <1>2, <2>1, <2>2
<1> QED BY <1>3

(* Induction up to n: a set with 0 that is closed under the next number holds 0 .. n. *)
LEMMA InductionUpTo ==
  ASSUME NEW n \in Nat, NEW S, 0 \in S,
         \A i \in 0 .. n - 1 : i \in S => i + 1 \in S
  PROVE  \A i \in 0 .. n : i \in S
<1> DEFINE Out == {i \in 0 .. n : i \notin S}
<1> SUFFICES ASSUME Out # {} PROVE FALSE
  OBVIOUS
<1>1. PICK m \in Out : \A k \in Out : m <= k
  <2>1. Out \in SUBSET Nat
    OBVIOUS
  <2> HIDE DEF Out
  <2> QED BY <2>1, LeastNatural
<1>2. m \in 1 .. n /\ m - 1 \notin Out
  BY <1>1
<1>3. m - 1 \in 0 .. n - 1 /\ m - 1 \in S
  BY <1>2
<1>4. (m - 1) + 1 \in S
  BY <1>3
<1> QED BY <1>1, <1>2, <1>4

(* Where the elements of two sequences are in the joined one. *)
LEMMA ConcatAt ==
  ASSUME NEW T, NEW a \in Seq(T), NEW b \in Seq(T), NEW c, c = a \o b
  PROVE  /\ c \in Seq(T) /\ Len(c) = Len(a) + Len(b)
         /\ Len(a) \in Nat /\ Len(b) \in Nat /\ Len(c) \in Nat
         /\ \A n \in 1 .. Len(a) : n \in 1 .. Len(c) /\ c[n] = a[n]
         /\ \A n \in 1 .. Len(b) : Len(a) + n \in 1 .. Len(c) /\ c[Len(a) + n] = b[n]
  OBVIOUS

-----------------------------------------------------------------------------
(* The function that FlattenSeq is defined by: the first i sequences of s joined. *)
Joins(s, n, f) == f = [i \in 1 .. n |-> IF i = 1 THEN s[1] ELSE f[i - 1] \o s[i]]

(* There is such a function. *)
LEMMA JoinsExists ==
  ASSUME NEW s, NEW n \in Nat
  PROVE  \E f : Joins(s, n, f)
<1> DEFINE S == {i \in Nat : \E f : Joins(s, i, f)}
<1>1. 0 \in S
  <2>1. Joins(s, 0, [i \in 1 .. 0 |-> s])
    BY DEF Joins
  <2> QED BY <2>1
<1>2. ASSUME NEW i \in 0 .. n - 1, i \in S PROVE i + 1 \in S
  <2>1. PICK f : Joins(s, i, f)
    BY <1>2
  <2> DEFINE g == [j \in 1 .. i + 1 |->
                     IF j = 1 THEN s[1] ELSE IF j <= i THEN f[j] ELSE f[i] \o s[j]]
  <2>2. i \in Nat /\ \A j \in 1 .. i + 1 : j # 1 => j - 1 \in 1 .. i
    OBVIOUS
  <2>3. \A j \in 1 .. i : g[j] = f[j]
    BY <2>1, <2>2 DEF Joins
  <2>4. ASSUME NEW j \in 1 .. i + 1
        PROVE  g[j] = IF j = 1 THEN s[1] ELSE g[j - 1] \o s[j]
    <3>1. CASE j = 1
      BY <3>1
    <3>2. CASE j # 1 /\ j <= i
      <4>1. j - 1 \in 1 .. i /\ j \in 1 .. i
        BY <3>2
      <4>2. g[j - 1] = f[j - 1] /\ g[j] = f[j]
        BY <2>3, <4>1
      <4>3. f[j] = f[j - 1] \o s[j]
        BY <2>1, <3>2, <4>1 DEF Joins
      <4> QED BY <3>2, <4>2, <4>3
    <3>3. CASE j # 1 /\ j = i + 1
      <4>1. i \in 1 .. i /\ j - 1 = i
        BY <3>3
      <4>2. g[i] = f[i]
        BY <2>3, <4>1
      <4>3. g[j] = f[i] \o s[j]
        <5>1. j # 1 /\ ~(j <= i) /\ j \in 1 .. i + 1
          BY <2>2, <3>3
        <5> QED BY <5>1, Zenon
      <4> QED BY <3>3, <4>1, <4>2, <4>3
    <3> QED BY <2>2, <3>1, <3>2, <3>3
  <2>5. Joins(s, i + 1, g)
    BY <2>4 DEF Joins
  <2> QED BY <2>2, <2>5
<1>3. \A i \in 0 .. n : i \in S
  <2> HIDE DEF S
  <2> QED BY <1>1, <1>2, InductionUpTo
<1> QED BY <1>3

(* The function is determined up to where two sequences agree. *)
LEMMA JoinsAgree ==
  ASSUME NEW s, NEW t, NEW m \in Nat, NEW n \in Nat, m <= n,
         \A i \in 1 .. m : s[i] = t[i],
         NEW f, Joins(s, m, f), NEW g, Joins(t, n, g)
  PROVE  \A i \in 1 .. m : f[i] = g[i]
<1> DEFINE S == {i \in Nat : i = 0 \/ f[i] = g[i]}
<1>1. ASSUME NEW i \in 0 .. m - 1, i \in S PROVE i + 1 \in S
  <2>1. i + 1 \in 1 .. m /\ i + 1 \in 1 .. n /\ i \in Nat
    OBVIOUS
  <2>2. /\ f[i + 1] = IF i + 1 = 1 THEN s[1] ELSE f[(i + 1) - 1] \o s[i + 1]
        /\ g[i + 1] = IF i + 1 = 1 THEN t[1] ELSE g[(i + 1) - 1] \o t[i + 1]
    BY <2>1 DEF Joins
  <2>3. s[i + 1] = t[i + 1] /\ (i + 1) - 1 = i
    BY <2>1
  <2>4. CASE i = 0
    BY <2>1, <2>2, <2>3, <2>4
  <2>5. CASE i # 0
    <3>1. f[i] = g[i] /\ i + 1 # 1
      BY <1>1, <2>1, <2>5
    <3>2. f[i + 1] = f[i] \o s[i + 1] /\ g[i + 1] = g[i] \o t[i + 1]
      BY <2>2, <2>3, <3>1, Zenon
    <3>3. f[i + 1] = g[i + 1]
      BY <2>3, <3>1, <3>2, Zenon
    <3> QED BY <2>1, <3>3
  <2> QED BY <2>4, <2>5
<1>2. \A i \in 0 .. m : i \in S
  <2>1. 0 \in S
    OBVIOUS
  <2> HIDE DEF S
  <2> QED BY <1>1, <2>1, InductionUpTo
<1> QED BY <1>2

(* One more sequence does not change what is joined before it. *)
LEMMA JoinsNext ==
  ASSUME NEW s, NEW t, NEW n \in Nat \ {0}, \A i \in 1 .. n : s[i] = t[i],
         NEW f, Joins(s, n, f), NEW g, Joins(t, n + 1, g)
  PROVE  f[n] = g[n]
<1>1. PICK k \in Nat : k = n + 1
  OBVIOUS
<1>2. n \in Nat /\ n <= k /\ n \in 1 .. n /\ Joins(t, k, g)
  BY <1>1
<1>3. \A i \in 1 .. n : f[i] = g[i]
  BY <1>2, JoinsAgree
<1> QED BY <1>2, <1>3

(* FlattenSeq is the last value of that function. *)
LEMMA FlattenJoins ==
  ASSUME NEW s, Len(s) \in Nat, Len(s) # 0
  PROVE  \E f : Joins(s, Len(s), f) /\ FlattenSeq(s) = f[Len(s)]
<1> DEFINE h == CHOOSE f : f = [i \in 1 .. Len(s) |-> IF i = 1 THEN s[i] ELSE f[i - 1] \o s[i]]
<1>1. \E f : f = [i \in 1 .. Len(s) |-> IF i = 1 THEN s[i] ELSE f[i - 1] \o s[i]]
  <2>1. PICK f : Joins(s, Len(s), f)
    BY JoinsExists
  <2>2. f = [i \in 1 .. Len(s) |-> IF i = 1 THEN s[i] ELSE f[i - 1] \o s[i]]
    BY <2>1, Zenon DEF Joins
  <2> QED BY <2>2
<1>2. h = [i \in 1 .. Len(s) |-> IF i = 1 THEN s[i] ELSE h[i - 1] \o s[i]]
  BY <1>1, Zenon
<1>3. FlattenSeq(s) = h[Len(s)]
  BY Zenon DEF FlattenSeq
<1>4. Joins(s, Len(s), h)
  BY <1>2, ZenonT(60) DEF Joins
<1> QED BY <1>3, <1>4

-----------------------------------------------------------------------------
(* FlattenSeq of no sequence is empty. *)
LEMMA FlattenEmpty == FlattenSeq(<< >>) = << >>
  BY DEF FlattenSeq

(* A sequence of sequences with one more at the end, whatever it was built from. *)
LEMMA FlattenLast ==
  ASSUME NEW s, NEW t, NEW n \in Nat \ {0}, Len(s) = n, Len(t) = n + 1,
         \A i \in 1 .. n : s[i] = t[i]
  PROVE  FlattenSeq(t) = FlattenSeq(s) \o t[n + 1]
<1>1. PICK f : Joins(s, n, f) /\ FlattenSeq(s) = f[n]
  BY FlattenJoins
<1>2. PICK g : Joins(t, n + 1, g) /\ FlattenSeq(t) = g[n + 1]
  BY FlattenJoins
<1>3. f[n] = g[n]
  BY <1>1, <1>2, JoinsNext
<1>4. n + 1 \in 1 .. n + 1 /\ (n + 1) - 1 = n /\ n + 1 # 1
  OBVIOUS
<1>5. g[n + 1] = IF n + 1 = 1 THEN t[1] ELSE g[(n + 1) - 1] \o t[n + 1]
  BY <1>2, <1>4 DEF Joins
<1>6. g[n + 1] = g[n] \o t[n + 1]
  BY <1>4, <1>5, Zenon
<1> QED BY <1>1, <1>2, <1>3, <1>6

(* FlattenSeq of one sequence is that sequence. *)
LEMMA FlattenSingle ==
  ASSUME NEW t, Len(t) = 1
  PROVE  FlattenSeq(t) = t[1]
<1>1. Len(t) \in Nat /\ Len(t) # 0
  OBVIOUS
<1>2. PICK f : Joins(t, Len(t), f) /\ FlattenSeq(t) = f[Len(t)]
  BY <1>1, FlattenJoins, Zenon
<1> QED BY <1>2 DEF Joins

(* A sequence appended is joined at the end: one more frame behind the file. *)
LEMMA FlattenAppend ==
  ASSUME NEW T, NEW s \in Seq(Seq(T)), NEW x \in Seq(T)
  PROVE  FlattenSeq(Append(s, x)) = FlattenSeq(s) \o x
<1>1. PICK t : t = Append(s, x)
  OBVIOUS
<1>2. PICK n : n = Len(s)
  OBVIOUS
<1>3. /\ n \in Nat /\ Len(t) = n + 1
      /\ \A i \in 1 .. n : s[i] = t[i]
      /\ t[n + 1] = x
  BY <1>1, <1>2, AppendProperties
<1>4. CASE n = 0
  <2>1. s = << >>
    BY <1>2, <1>4, EmptySeq
  <2>2. Len(t) = 1 /\ t[1] = x
    BY <1>3, <1>4
  <2>3. FlattenSeq(t) = x
    BY <2>2, FlattenSingle
  <2>4. << >> \o x = x
    BY ConcatEmptySeq
  <2> QED BY <1>1, <2>1, <2>3, <2>4, FlattenEmpty
<1>5. CASE n # 0
  <2>1. n \in Nat \ {0} /\ Len(s) = n
    BY <1>2, <1>3, <1>5
  <2>2. FlattenSeq(t) = FlattenSeq(s) \o t[n + 1]
    BY ONLY <1>3, <2>1, FlattenLast
  <2> QED BY <1>1, <1>3, <2>2
<1> QED BY <1>4, <1>5

(* It joins sequences over a set to a sequence over that set. *)
LEMMA FlattenType ==
  ASSUME NEW T, NEW s \in Seq(Seq(T))
  PROVE  FlattenSeq(s) \in Seq(T)
<1> DEFINE S == {n \in Nat : \A r \in Seq(Seq(T)) : Len(r) = n => FlattenSeq(r) \in Seq(T)}
<1>1. 0 \in S
  <2>1. \A r \in Seq(Seq(T)) : Len(r) = 0 => r = << >>
    BY EmptySeq
  <2>2. << >> \in Seq(T)
    BY EmptySeq
  <2> QED BY <2>1, <2>2, FlattenEmpty
<1>2. ASSUME NEW n \in 0 .. Len(s) - 1, n \in S PROVE n + 1 \in S
  <2>1. SUFFICES ASSUME NEW r \in Seq(Seq(T)), Len(r) = n + 1
                 PROVE  FlattenSeq(r) \in Seq(T)
    BY LenProperties
  <2>2. PICK q \in Seq(Seq(T)), x \in Seq(T) : r = Append(q, x)
    <3>1. r # << >>
      BY <2>1, LenProperties
    <3> QED BY <3>1, SequenceEmptyOrAppend
  <2>3. Len(q) = n
    BY <2>1, <2>2, AppendProperties, LenProperties
  <2>4. FlattenSeq(q) \in Seq(T)
    BY <1>2, <2>3
  <2>5. FlattenSeq(r) = FlattenSeq(q) \o x
    BY <2>2, FlattenAppend
  <2> QED BY <2>4, <2>5, ConcatProperties
<1>3. Len(s) \in Nat
  BY LenProperties
<1>4. \A n \in 0 .. Len(s) : n \in S
  <2> HIDE DEF S
  <2> QED BY <1>1, <1>2, <1>3, InductionUpTo
<1>5. Len(s) \in S
  BY <1>3, <1>4
<1> QED BY <1>5

-----------------------------------------------------------------------------
(* Where in the joined sequence the i-th sequence of s starts (the cells before it). *)
Joined(s, i) == FlattenSeq(SubSeq(s, 1, i))
Start(s, i) == Len(Joined(s, i - 1))

(* The first i sequences joined are the first i - 1 joined and the i-th. *)
LEMMA JoinedNext ==
  ASSUME NEW T, NEW s \in Seq(Seq(T)), NEW i \in 1 .. Len(s)
  PROVE  /\ Joined(s, i) = Joined(s, i - 1) \o s[i]
         /\ Joined(s, i - 1) \in Seq(T) /\ Joined(s, i) \in Seq(T)
<1>1. s[i] \in Seq(T)
  BY ElementOfSeq
<1>2. PICK q : q = SubSeq(s, 1, i - 1)
  OBVIOUS
<1>3. q \in Seq(Seq(T)) /\ SubSeq(s, 1, i) = Append(q, s[i])
  <2>1. Len(s) \in Nat
    BY LenProperties
  <2>2. \A j \in 1 .. i - 1 : s[j] \in Seq(T)
    BY <2>1, ElementOfSeq
  <2>3. SubSeq(s, 1, i - 1) \in Seq(Seq(T))
    BY <2>2, SubSeqProperties
  <2>4. 1 \in 1 .. Len(s) /\ i \in 1 .. Len(s) /\ i \in 1 .. i
    BY <2>1
  <2>5. SubSeq(s, 1, i) = SubSeq(s, 1, i - 1) \o << s[i] >>
    BY <2>4, SubSeqRecursiveSecond
  <2>6. Append(SubSeq(s, 1, i - 1), s[i]) = SubSeq(s, 1, i - 1) \o << s[i] >>
    BY <1>1, <2>3, AppendIsConcat
  <2> QED BY <1>2, <2>3, <2>5, <2>6
<1>4. FlattenSeq(Append(q, s[i])) = FlattenSeq(q) \o s[i]
  BY <1>1, <1>3, FlattenAppend
<1>5. FlattenSeq(q) \in Seq(T)
  BY <1>3, FlattenType
<1>6. FlattenSeq(q) \o s[i] \in Seq(T)
  BY <1>1, <1>5, ConcatProperties
<1> QED BY <1>2, <1>3, <1>4, <1>5, <1>6 DEF Joined

(* The first sequence starts at the front. *)
LEMMA StartFirst ==
  ASSUME NEW T, NEW s \in Seq(Seq(T))
  PROVE  Start(s, 1) = 0
<1>1. SubSeq(s, 1, 0) = << >>
  BY SubSeqEmpty
<1>2. Joined(s, 1 - 1) = << >>
  <2>1. 1 - 1 = 0
    OBVIOUS
  <2> QED BY <1>1, <2>1, FlattenEmpty, Zenon DEF Joined
<1> QED BY <1>2 DEF Start

(* The next sequence starts where the one before it ends. *)
LEMMA StartNext ==
  ASSUME NEW T, NEW s \in Seq(Seq(T)), NEW i \in 1 .. Len(s)
  PROVE  /\ Start(s, i) \in Nat /\ Start(s, i + 1) \in Nat /\ Len(s[i]) \in Nat
         /\ Start(s, i + 1) = Start(s, i) + Len(s[i])
<1>1. s[i] \in Seq(T)
  BY ElementOfSeq
<1>2. (i + 1) - 1 = i
  OBVIOUS
<1>3. Len(Joined(s, i - 1) \o s[i]) = Len(Joined(s, i - 1)) + Len(s[i])
  BY <1>1, JoinedNext, ConcatProperties
<1> QED BY <1>1, <1>2, <1>3, JoinedNext, LenProperties DEF Start

(* Behind the last sequence is the end. *)
LEMMA StartLast ==
  ASSUME NEW T, NEW s \in Seq(Seq(T))
  PROVE  Start(s, Len(s) + 1) = Len(FlattenSeq(s)) /\ Start(s, Len(s) + 1) \in Nat
<1>1. Len(s) \in Nat /\ (Len(s) + 1) - 1 = Len(s)
  BY LenProperties
<1>2. SubSeq(s, 1, Len(s)) = s
  BY SubSeqFull
<1>3. Len(FlattenSeq(s)) \in Nat
  BY FlattenType, LenProperties
<1> QED BY <1>1, <1>2, <1>3 DEF Start, Joined

(* Sequences start in order. *)
LEMMA StartMonotone ==
  ASSUME NEW T, NEW s \in Seq(Seq(T)),
         NEW i \in 1 .. Len(s) + 1, NEW j \in 1 .. Len(s) + 1, i <= j
  PROVE  Start(s, i) \in Nat /\ Start(s, j) \in Nat /\ Start(s, i) <= Start(s, j)
<1>1. Len(s) \in Nat
  BY LenProperties
<1>2. \A m \in 1 .. Len(s) : Start(s, m) \in Nat /\ Start(s, m + 1) \in Nat
                              /\ Start(s, m) <= Start(s, m + 1)
  <2> SUFFICES ASSUME NEW m \in 1 .. Len(s)
               PROVE  /\ Start(s, m) \in Nat /\ Start(s, m + 1) \in Nat
                      /\ Start(s, m) <= Start(s, m + 1)
    OBVIOUS
  <2>1. /\ Start(s, m) \in Nat /\ Start(s, m + 1) \in Nat /\ Len(s[m]) \in Nat
        /\ Start(s, m + 1) = Start(s, m) + Len(s[m])
    BY StartNext
  <2>2. PICK x, y, z : x = Start(s, m) /\ y = Start(s, m + 1) /\ z = Len(s[m])
    OBVIOUS
  <2>3. x \in Nat /\ y \in Nat /\ x <= y
    BY ONLY <2>1, <2>2
  <2> QED BY ONLY <2>2, <2>3
<1>3. ASSUME NEW m \in 1 .. Len(s) + 1 PROVE Start(s, m) \in Nat
  <2>1. m \in 1 .. Len(s) \/ m = Len(s) + 1
    BY <1>1
  <2> QED BY <1>2, <2>1, StartLast
<1> DEFINE S == {d \in Nat : i + d <= Len(s) + 1 => Start(s, i) <= Start(s, i + d)}
<1>4. 0 \in S
  BY <1>3
<1>5. ASSUME NEW d \in 0 .. (j - i) - 1, d \in S PROVE d + 1 \in S
  <2>1. i + d \in 1 .. Len(s) /\ i + (d + 1) = (i + d) + 1
    BY <1>1
  <2>2. Start(s, i) <= Start(s, i + d) /\ Start(s, i + d) <= Start(s, (i + d) + 1)
    BY <1>1, <1>2, <1>5, <2>1
  <2>3. Start(s, i) \in Nat /\ Start(s, i + d) \in Nat /\ Start(s, (i + d) + 1) \in Nat
    BY <1>2, <1>3, <2>1
  <2> QED BY <2>1, <2>2, <2>3
<1>6. j - i \in Nat
  BY <1>1
<1>7. \A d \in 0 .. j - i : d \in S
  <2> HIDE DEF S
  <2> QED BY <1>4, <1>5, <1>6, InductionUpTo
<1>8. i + (j - i) = j /\ j <= Len(s) + 1 /\ j - i \in 0 .. j - i
  BY <1>1, <1>6
<1>9. PICK d \in S : d = j - i
  <2> HIDE DEF S
  <2> QED BY <1>7, <1>8
<1>10. Start(s, i) <= Start(s, i + d) /\ i + d = j
  BY <1>8, <1>9
<1> QED BY <1>3, <1>10

(* The k-th element of the i-th sequence is where it is expected. *)
LEMMA FlattenAt ==
  ASSUME NEW T, NEW s \in Seq(Seq(T)), NEW i \in 1 .. Len(s), NEW k \in 1 .. Len(s[i])
  PROVE  FlattenSeq(s)[Start(s, i) + k] = s[i][k]
<1>1. Len(s) \in Nat /\ s[i] \in Seq(T) /\ Len(s[i]) \in Nat
  BY LenProperties, ElementOfSeq
<1>2. PICK at : at = Start(s, i) + k
  OBVIOUS
<1> DEFINE S == {d \in Nat : i + d <= Len(s) => /\ at \in 1 .. Len(Joined(s, i + d))
                                                /\ Joined(s, i + d)[at] = s[i][k]}
<1>3. 0 \in S
  <2>1. /\ Joined(s, i) = Joined(s, i - 1) \o s[i]
        /\ Joined(s, i - 1) \in Seq(T)
    BY JoinedNext
  <2>2. at = Len(Joined(s, i - 1)) + k
    BY <1>2 DEF Start
  <2>3. at \in 1 .. Len(Joined(s, i)) /\ Joined(s, i)[at] = s[i][k]
    <3>1. PICK a, b, c : a = Joined(s, i - 1) /\ b = s[i] /\ c = Joined(s, i)
      OBVIOUS
    <3>2. a \in Seq(T) /\ b \in Seq(T) /\ c = a \o b /\ k \in 1 .. Len(b) /\ at = Len(a) + k
      BY <1>1, <2>1, <2>2, <3>1
    <3>3. at \in 1 .. Len(c) /\ c[at] = b[k]
      BY ONLY <3>2, ConcatAt
    <3> QED BY <3>1, <3>3
  <2>4. i + 0 = i
    OBVIOUS
  <2> QED BY <2>3, <2>4
<1>4. ASSUME NEW d \in 0 .. (Len(s) - i) - 1, d \in S PROVE d + 1 \in S
  <2>1. i + (d + 1) \in 1 .. Len(s) /\ (i + (d + 1)) - 1 = i + d /\ i + d <= Len(s)
    BY <1>1
  <2>2. at \in 1 .. Len(Joined(s, i + d)) /\ Joined(s, i + d)[at] = s[i][k]
    BY <1>4, <2>1
  <2>3. PICK m \in 1 .. Len(s) : m = i + (d + 1)
    BY <2>1
  <2>4. /\ Joined(s, m) = Joined(s, i + d) \o s[m]
        /\ Joined(s, i + d) \in Seq(T) /\ s[m] \in Seq(T)
    BY <2>1, <2>3, JoinedNext, ElementOfSeq
  <2>5. at \in 1 .. Len(Joined(s, m)) /\ Joined(s, m)[at] = s[i][k]
    <3>1. PICK a, b, c : a = Joined(s, i + d) /\ b = s[m] /\ c = Joined(s, m)
      OBVIOUS
    <3>2. /\ a \in Seq(T) /\ b \in Seq(T) /\ c = a \o b
          /\ at \in 1 .. Len(a) /\ a[at] = s[i][k]
      BY <2>2, <2>4, <3>1
    <3>3. at \in 1 .. Len(c) /\ c[at] = s[i][k]
      BY ONLY <3>2, ConcatAt
    <3> QED BY <3>1, <3>3
  <2> QED BY <2>3, <2>5
<1>5. Len(s) - i \in Nat
  BY <1>1
<1>6. \A d \in 0 .. Len(s) - i : d \in S
  <2> HIDE DEF S
  <2> QED BY <1>3, <1>4, <1>5, InductionUpTo
<1>7. PICK d \in S : d = Len(s) - i
  <2>1. Len(s) - i \in 0 .. Len(s) - i
    BY <1>5
  <2> HIDE DEF S
  <2> QED BY <1>6, <2>1
<1>8. i + d = Len(s) /\ i + d <= Len(s)
  BY <1>1, <1>7
<1>9. Joined(s, i + d)[at] = s[i][k]
  BY <1>7, <1>8
<1>10. Joined(s, Len(s)) = FlattenSeq(s)
  BY SubSeqFull DEF Joined
<1> QED BY <1>2, <1>8, <1>9, <1>10

(* Every element of the joined sequence belongs to one of the sequences. *)
LEMMA FlattenCovers ==
  ASSUME NEW T, NEW s \in Seq(Seq(T)), NEW j \in 1 .. Len(FlattenSeq(s))
  PROVE  \E i \in 1 .. Len(s) : \E k \in 1 .. Len(s[i]) : j = Start(s, i) + k
<1>1. Len(s) \in Nat
  BY LenProperties
<1> DEFINE S == {m \in Nat : m <= Len(s) /\ j <= Start(s, m + 1)}
<1>2. Len(s) \in S
  BY <1>1, StartLast
<1>3. PICK m \in S : \A i \in S : m <= i
  <2>1. S \in SUBSET Nat /\ S # {}
    BY <1>2
  <2> HIDE DEF S
  <2> QED BY <2>1, LeastNatural
<1>4. m # 0
  BY StartFirst
<1>5. m \in 1 .. Len(s) /\ m - 1 \in Nat /\ (m - 1) + 1 = m /\ m - 1 \notin S
  <2>1. m \in Nat /\ m <= Len(s)
    OBVIOUS
  <2>2. m \in 1 .. Len(s) /\ m - 1 \in Nat /\ (m - 1) + 1 = m /\ ~(m <= m - 1)
    BY <1>1, <1>4, <2>1
  <2> HIDE DEF S
  <2> QED BY <1>3, <2>2
<1>6. ~(j <= Start(s, m))
  BY <1>1, <1>5
<1>7. /\ Start(s, m) \in Nat /\ Len(s[m]) \in Nat
      /\ j <= Start(s, m) + Len(s[m])
  BY <1>3, <1>5, StartNext
<1>8. j - Start(s, m) \in 1 .. Len(s[m])
  BY <1>6, <1>7
<1>9. j = Start(s, m) + (j - Start(s, m))
  BY <1>7
<1> QED BY <1>5, <1>8, <1>9

-----------------------------------------------------------------------------
(* The function that sums are defined by: the sum of the first i numbers of s. *)
Sums(s, n, f) == f = [i \in 0 .. n |-> IF i = 0 THEN 0 ELSE f[i - 1] + s[i]]

(* There is such a function. *)
LEMMA SumsExist ==
  ASSUME NEW s, NEW n \in Nat
  PROVE  \E f : Sums(s, n, f)
<1> DEFINE S == {i \in Nat : \E f : Sums(s, i, f)}
<1>1. 0 \in S
  <2>1. Sums(s, 0, [i \in 0 .. 0 |-> 0])
    BY DEF Sums
  <2> QED BY <2>1
<1>2. ASSUME NEW i \in 0 .. n - 1, i \in S PROVE i + 1 \in S
  <2>1. PICK f : Sums(s, i, f)
    BY <1>2
  <2> DEFINE g == [j \in 0 .. i + 1 |-> IF j <= i THEN f[j] ELSE f[i] + s[j]]
  <2>2. i \in Nat /\ i + 1 \in Nat
    OBVIOUS
  <2>3. \A j \in 0 .. i : g[j] = f[j] /\ f[j] = IF j = 0 THEN 0 ELSE f[j - 1] + s[j]
    BY <2>1, <2>2 DEF Sums
  <2>4. ASSUME NEW j \in 0 .. i + 1
        PROVE  g[j] = IF j = 0 THEN 0 ELSE g[j - 1] + s[j]
    <3>1. CASE j = 0
      <4>1. j \in 0 .. i
        BY <2>2, <3>1
      <4> QED BY <2>3, <3>1, <4>1
    <3>2. CASE j # 0 /\ j <= i
      <4>1. j - 1 \in 0 .. i /\ j \in 0 .. i
        BY <2>2, <3>2
      <4>2. g[j - 1] = f[j - 1] /\ g[j] = f[j]
        BY <2>3, <4>1
      <4>3. f[j] = f[j - 1] + s[j]
        BY <2>3, <3>2, <4>1
      <4> QED BY <3>2, <4>2, <4>3
    <3>3. CASE j = i + 1
      <4>1. i \in 0 .. i /\ j - 1 = i /\ ~(j <= i) /\ j # 0
        BY <2>2, <3>3
      <4>2. g[i] = f[i]
        BY <2>3, <4>1
      <4>3. g[j] = f[i] + s[j]
        BY <4>1, Zenon
      <4> QED BY <4>1, <4>2, <4>3
    <3> QED BY <2>2, <3>1, <3>2, <3>3
  <2>5. Sums(s, i + 1, g)
    BY <2>4 DEF Sums
  <2> QED BY <2>2, <2>5
<1>3. \A i \in 0 .. n : i \in S
  <2> HIDE DEF S
  <2> QED BY <1>1, <1>2, InductionUpTo
<1> QED BY <1>3

=============================================================================
