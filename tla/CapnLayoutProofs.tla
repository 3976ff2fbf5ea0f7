--------------------------- MODULE CapnLayoutProofs ---------------------------
(***************************************************************************)
(* Lemmas about the structs of the messages, for any number of values of a *)
(* byte: a field that is set holds its number byte by byte, leaves the     *)
(* fields apart from it alone, and is read as the number, but for what it  *)
(* cannot hold.                                                            *)
(***************************************************************************)
EXTENDS CapnLayout, SequenceFacts

-----------------------------------------------------------------------------
(* Quotient and remainder, *)
LEMMA DivMod ==
  ASSUME NEW a \in Nat, NEW b \in Nat \ {0}
  PROVE  /\ a \div b \in Nat /\ a % b \in Nat /\ a % b < b
         /\ a = b * (a \div b) + (a % b)
<1>1. a \div b \in Nat
  OBVIOUS
<1>2. a % b \in Nat /\ a % b < b
  OBVIOUS
<1>3. a = b * (a \div b) + (a % b)
  OBVIOUS
<1> QED BY <1>1, <1>2, <1>3

(* products in order, *)
LEMMA ProductsInOrder ==
  ASSUME NEW b \in Nat \ {0}, NEW p \in Nat, NEW q \in Nat, p < q
  PROVE  b * p \in Nat /\ b * q \in Nat /\ b * p + b <= b * q
  OBVIOUS

(* and that there is only one quotient with a remainder. *)
LEMMA DivUnique ==
  ASSUME NEW a \in Nat, NEW b \in Nat \ {0}, NEW q \in Nat, NEW r \in Nat, r < b, a = b * q + r
  PROVE  a \div b = q /\ a % b = r
<1>1. PICK p, s : p = a \div b /\ s = a % b
  OBVIOUS
<1>2. p \in Nat /\ s \in Nat /\ s < b /\ a = b * p + s
  BY <1>1, DivMod
<1>3. ~(p < q)
  <2> SUFFICES ASSUME p < q PROVE FALSE
    OBVIOUS
  <2>1. b * p \in Nat /\ b * q \in Nat /\ b * p + b <= b * q
    BY <1>2, ProductsInOrder
  <2> QED BY <1>2, <2>1
<1>4. ~(q < p)
  <2> SUFFICES ASSUME q < p PROVE FALSE
    OBVIOUS
  <2>1. b * p \in Nat /\ b * q \in Nat /\ b * q + b <= b * p
    BY <1>2, ProductsInOrder
  <2> QED BY <1>2, <2>1
<1>5. p = q
  BY ONLY <1>2, <1>3, <1>4, q \in Nat
<1> QED BY <1>1, <1>2, <1>5

(* The remainder of a product, in two parts. *)
LEMMA RemainderJoins ==
  ASSUME NEW v \in Nat, NEW m \in Nat \ {0}, NEW n \in Nat \ {0}
  PROVE  v % (m * n) = (v % m) + ((v \div m) % n) * m
<1>1. PICK q, r, p, s : q = v \div m /\ r = v % m /\ p = q \div n /\ s = q % n
  OBVIOUS
<1>2. q \in Nat /\ r \in Nat /\ r < m /\ v = m * q + r
  BY <1>1, DivMod
<1>3. p \in Nat /\ s \in Nat /\ s < n /\ q = n * p + s
  BY <1>1, <1>2, DivMod
<1>4. m * s \in Nat /\ m * s + m <= m * n
  BY <1>3, ProductsInOrder
<1>5. m * n \in Nat \ {0}
  BY <1>4
<1>6. v = (m * n) * p + (r + m * s)
  <2>1. v = m * (n * p + s) + r
    BY <1>2, <1>3
  <2> QED BY ONLY <1>2, <1>3, <2>1, m \in Nat, n \in Nat
<1>7. r + m * s \in Nat /\ r + m * s < m * n
  BY ONLY <1>2, <1>4, <1>5, m \in Nat
<1>8. v % (m * n) = r + m * s
  <2>1. PICK b, t : b = m * n /\ t = r + m * s
    OBVIOUS
  <2>2. b \in Nat \ {0} /\ t \in Nat /\ t < b /\ v = b * p + t
    BY <1>5, <1>6, <1>7, <2>1
  <2>3. v % b = t
    BY <1>3, <2>2, DivUnique
  <2> QED BY <2>1, <2>3
<1>9. m * s = s * m
  BY ONLY <1>3, m \in Nat
<1> QED BY <1>1, <1>8, <1>9

(* Products with the same factor keep their order. *)
LEMMA ProductsKeepOrder ==
  ASSUME NEW c \in Nat, NEW a \in Nat, NEW b \in Nat, a <= b
  PROVE  c * a \in Nat /\ c * b \in Nat /\ c * a <= c * b
  OBVIOUS

-----------------------------------------------------------------------------
(* The sum of the first numbers of s, one number after the other. *)
LEMMA TotalIs ==
  ASSUME NEW s, NEW n \in Nat
  PROVE  \E f : Sums(s, n, f) /\ Total(s, n) = f[n]
<1> DEFINE h == CHOOSE f : f = [i \in 0 .. n |-> IF i = 0 THEN 0 ELSE f[i - 1] + s[i]]
<1>1. \E f : f = [i \in 0 .. n |-> IF i = 0 THEN 0 ELSE f[i - 1] + s[i]]
  <2>1. PICK f : Sums(s, n, f)
    BY SumsExist
  <2> QED BY <2>1, Zenon DEF Sums
<1>2. h = [i \in 0 .. n |-> IF i = 0 THEN 0 ELSE h[i - 1] + s[i]]
  BY <1>1, Zenon
<1>3. Total(s, n) = h[n]
  BY Zenon DEF Total
<1>4. Sums(s, n, h)
  BY <1>2, Zenon DEF Sums
<1> QED BY <1>3, <1>4

(* Joined sequences are no longer than the sum of numbers that bound each of them. *)
LEMMA JoinedWithin ==
  ASSUME NEW T, NEW s \in Seq(Seq(T)), NEW c,
         \A i \in 1 .. Len(s) : c[i] \in Nat /\ Len(s[i]) <= c[i]
  PROVE  Total(c, Len(s)) \in Nat /\ Len(FlattenSeq(s)) <= Total(c, Len(s))
<1>1. PICK n : n = Len(s)
  OBVIOUS
<1>2. n \in Nat
  BY <1>1, LenProperties
<1>3. PICK f : Sums(c, n, f) /\ Total(c, n) = f[n]
  BY <1>2, TotalIs
<1>4. \A i \in 0 .. n : f[i] = IF i = 0 THEN 0 ELSE f[i - 1] + c[i]
  BY <1>2, <1>3 DEF Sums
<1> DEFINE S == {i \in Nat : f[i] \in Nat /\ Start(s, i + 1) <= f[i]}
<1>5. 0 \in S
  <2>1. Start(s, 0 + 1) = 0
    BY StartFirst
  <2>2. f[0] = 0
    BY <1>2, <1>4
  <2> QED BY <2>1, <2>2
<1>6. ASSUME NEW i \in 0 .. n - 1, i \in S PROVE i + 1 \in S
  <2>1. i \in Nat /\ i + 1 \in 1 .. n /\ i + 1 \in 0 .. n /\ (i + 1) - 1 = i /\ i + 1 # 0
    BY <1>2
  <2>2. f[i + 1] = f[i] + c[i + 1]
    BY <1>4, <2>1
  <2>3. c[i + 1] \in Nat /\ Len(s[i + 1]) <= c[i + 1]
    BY <1>1, <2>1
  <2>4. /\ Start(s, i + 1) \in Nat /\ Start(s, (i + 1) + 1) \in Nat /\ Len(s[i + 1]) \in Nat
        /\ Start(s, (i + 1) + 1) = Start(s, i + 1) + Len(s[i + 1])
    BY <1>1, <2>1, StartNext
  <2>5. PICK a, b, x, y, z : /\ a = f[i] /\ b = c[i + 1] /\ x = Start(s, i + 1)
                             /\ y = Len(s[i + 1]) /\ z = Start(s, (i + 1) + 1)
    OBVIOUS
  <2>6. a \in Nat /\ x <= a
    BY <1>6, <2>5
  <2>7. b \in Nat /\ y \in Nat /\ y <= b /\ x \in Nat /\ z = x + y
    BY <2>3, <2>4, <2>5
  <2>8. a + b \in Nat /\ z <= a + b
    BY ONLY <2>6, <2>7
  <2> QED BY <2>1, <2>2, <2>5, <2>8
<1>7. \A i \in 0 .. n : i \in S
  <2> HIDE DEF S
  <2> QED BY <1>2, <1>5, <1>6, InductionUpTo
<1>8. n \in 0 .. n
  BY <1>2
<1>9. f[n] \in Nat /\ Start(s, n + 1) <= f[n]
  BY <1>7, <1>8
<1>10. Start(s, n + 1) = Len(FlattenSeq(s))
  BY <1>1, StartLast
<1> QED BY <1>1, <1>3, <1>9, <1>10

(* A sum of exact lengths is where the next sequence starts. *)
LEMMA TotalIsStart ==
  ASSUME NEW T, NEW s \in Seq(Seq(T)), NEW c, NEW m \in 0 .. Len(s),
         \A i \in 1 .. m : c[i] = Len(s[i])
  PROVE  Total(c, m) = Start(s, m + 1)
<1>1. m \in Nat /\ \A i \in 1 .. m : i \in 1 .. Len(s)
  BY LenProperties
<1>2. PICK f : Sums(c, m, f) /\ Total(c, m) = f[m]
  BY <1>1, TotalIs
<1>3. \A i \in 0 .. m : f[i] = IF i = 0 THEN 0 ELSE f[i - 1] + c[i]
  BY <1>1, <1>2 DEF Sums
<1> DEFINE S == {i \in Nat : f[i] = Start(s, i + 1)}
<1>4. 0 \in S
  <2>1. Start(s, 0 + 1) = 0
    BY StartFirst
  <2> QED BY <1>1, <1>3, <2>1
<1>5. ASSUME NEW i \in 0 .. m - 1, i \in S PROVE i + 1 \in S
  <2>1. i \in Nat /\ i + 1 \in 1 .. m /\ i + 1 \in 0 .. m /\ (i + 1) - 1 = i /\ i + 1 # 0
    BY <1>1
  <2>2. f[i + 1] = f[i] + c[i + 1] /\ c[i + 1] = Len(s[i + 1])
    BY <1>3, <2>1
  <2>3. Start(s, (i + 1) + 1) = Start(s, i + 1) + Len(s[i + 1])
    BY <1>1, <2>1, StartNext
  <2> QED BY <1>5, <2>1, <2>2, <2>3
<1>6. \A i \in 0 .. m : i \in S
  <2> HIDE DEF S
  <2> QED BY <1>1, <1>4, <1>5, InductionUpTo
<1> QED BY <1>1, <1>2, <1>6

-----------------------------------------------------------------------------
(* How many values so many bytes have. *)
LEMMA ValuesAre ==
  /\ \A k \in 0 .. 4 : Values(k) \in Nat \ {0}
  /\ \A k \in 0 .. 3 : Values(k + 1) = Values(k) * BYTE
  /\ Values(0) = 1
<1>1. PICK b : b = BYTE
  OBVIOUS
<1>2. b \in Nat \ {0}
  BY <1>1, LayoutAssumption
<1>3. /\ Values(0) = 1 /\ Values(1) = b /\ Values(2) = b * b /\ Values(3) = b * b * b
      /\ Values(4) = b * b * b * b
  BY <1>1 DEF Values
<1>4. b * b \in Nat \ {0}
  BY ONLY <1>2
<1>5. (b * b) * b \in Nat \ {0}
  BY ONLY <1>2, <1>4
<1>6. ((b * b) * b) * b \in Nat \ {0}
  BY ONLY <1>2, <1>5
<1>7. ASSUME NEW k \in 0 .. 4 PROVE Values(k) \in Nat \ {0}
  <2>1. k \in {0, 1, 2, 3, 4}
    OBVIOUS
  <2> QED BY <1>2, <1>3, <1>4, <1>5, <1>6, <2>1
<1>8. ASSUME NEW k \in 0 .. 3 PROVE Values(k + 1) = Values(k) * BYTE
  <2>1. \/ (k = 0 /\ k + 1 = 1)
        \/ (k = 1 /\ k + 1 = 2)
        \/ (k = 2 /\ k + 1 = 3)
        \/ (k = 3 /\ k + 1 = 4)
    OBVIOUS
  <2>2. 1 * b = b
    BY <1>2
  <2> QED BY <1>1, <1>3, <2>1, <2>2
<1> QED BY <1>3, <1>7, <1>8

(* A struct with n bytes of data, a field that lies in them, *)
IsStruct(struct, n) == {"data", "pointers"} \subseteq DOMAIN struct /\ struct.data \in [1 .. n -> Nat]
LiesIn(field, n) == field.from \in Nat /\ field.size \in 1 .. 4 /\ field.from + field.size <= n

(* fields that share no byte, *)
Apart(field, other) ==
  field.from + field.size <= other.from \/ other.from + other.size <= field.from

(* and a field in whose bytes a number is, as far as they hold it. *)
Holds(struct, field, v) ==
  \A k \in 1 .. field.size : struct.data[field.from + k] = (v \div Values(k - 1)) % BYTE

(* A new struct. *)
LEMMA BlankIs ==
  ASSUME NEW type \in DOMAIN Layout
  PROVE  /\ Blank(type, 0).pointers = [p \in 0 .. Layout[type].pointers - 1 |-> << >>]
         /\ {"data", "pointers"} \subseteq DOMAIN Blank(type, 0)
         /\ Layout[type].words = 1 => IsStruct(Blank(type, 0), 8)
<1>1. type \notin DOMAIN Width
  BY DEF Layout, Width
<1>2. /\ Blank(type, 0).pointers = [p \in 0 .. Layout[type].pointers - 1 |-> << >>]
      /\ {"data", "pointers"} \subseteq DOMAIN Blank(type, 0)
      /\ Blank(type, 0).data = [b \in 1 .. WORD * Layout[type].words |-> 0]
  BY <1>1 DEF Blank
<1>3. ASSUME Layout[type].words = 1
      PROVE  Blank(type, 0).data \in [1 .. 8 -> Nat]
  <2>1. PICK data, n : data = Blank(type, 0).data /\ n = WORD * Layout[type].words
    OBVIOUS
  <2>2. n = 8
    BY <1>3, <2>1 DEF WORD
  <2>3. data = [b \in 1 .. n |-> 0]
    BY <1>2, <2>1
  <2>4. data \in [1 .. 8 -> Nat]
    BY ONLY <2>2, <2>3
  <2> QED BY <2>1, <2>4
<1> QED BY <1>2, <1>3 DEF IsStruct

(* A field that is set holds its number, and the others what they held. *)
LEMMA SetHolds ==
  ASSUME NEW n \in Nat, NEW struct, IsStruct(struct, n), NEW field, LiesIn(field, n), NEW v \in Nat,
         NEW set, set = SetData(struct, field, v)
  PROVE  /\ IsStruct(set, n) /\ set.pointers = struct.pointers
         /\ Holds(set, field, v)
         /\ \A other, w : LiesIn(other, n) /\ Apart(field, other) /\ Holds(struct, other, w)
                           => Holds(set, other, w)
<1> DEFINE byte(b) == IF b \in field.from + 1 .. field.from + field.size
                      THEN (v \div Values(b - field.from - 1)) % BYTE ELSE struct.data[b]
<1>1. set.data = [b \in 1 .. n |-> byte(b)] /\ set.pointers = struct.pointers
      /\ {"data", "pointers"} \subseteq DOMAIN set
  BY DEF SetData, IsStruct
<1>2. \A k \in 1 .. field.size :
        /\ field.from + k \in field.from + 1 .. field.from + field.size
        /\ field.from + k \in 1 .. n /\ (field.from + k) - field.from - 1 = k - 1
  BY DEF LiesIn
<1>3. \A k \in 1 .. field.size : (v \div Values(k - 1)) % BYTE \in Nat
  <2> SUFFICES ASSUME NEW k \in 1 .. field.size PROVE (v \div Values(k - 1)) % BYTE \in Nat
    OBVIOUS
  <2>1. k - 1 \in 0 .. 4
    BY DEF LiesIn
  <2>2. Values(k - 1) \in Nat \ {0} /\ BYTE \in Nat \ {0}
    BY <2>1, ValuesAre, LayoutAssumption
  <2>3. v \div Values(k - 1) \in Nat
    BY <2>2, DivMod
  <2> QED BY <2>2, <2>3, DivMod
<1>4. \A b \in 1 .. n : byte(b) \in Nat
  <2> SUFFICES ASSUME NEW b \in 1 .. n PROVE byte(b) \in Nat
    OBVIOUS
  <2>1. CASE b \in field.from + 1 .. field.from + field.size
    <3>1. b - field.from \in 1 .. field.size
      BY <2>1 DEF LiesIn
    <3>2. (v \div Values(b - field.from - 1)) % BYTE \in Nat
      BY <1>3, <3>1
    <3> QED BY <2>1, <3>2
  <2>2. CASE b \notin field.from + 1 .. field.from + field.size
    BY <2>2 DEF IsStruct
  <2> QED BY <2>1, <2>2
<1>5. IsStruct(set, n)
  <2> HIDE DEF byte
  <2> QED BY <1>1, <1>4 DEF IsStruct
<1>6. Holds(set, field, v)
  <2> SUFFICES ASSUME NEW k \in 1 .. field.size
               PROVE  set.data[field.from + k] = (v \div Values(k - 1)) % BYTE
    BY DEF Holds
  <2>1. set.data[field.from + k] = byte(field.from + k)
    BY <1>1, <1>2
  <2>2. byte(field.from + k) = (v \div Values((field.from + k) - field.from - 1)) % BYTE
    BY <1>2
  <2> QED BY <1>2, <2>1, <2>2
<1>7. ASSUME NEW other, NEW w, LiesIn(other, n), Apart(field, other), Holds(struct, other, w)
      PROVE  Holds(set, other, w)
  <2> SUFFICES ASSUME NEW k \in 1 .. other.size
               PROVE  set.data[other.from + k] = (w \div Values(k - 1)) % BYTE
    BY DEF Holds
  <2>1. /\ other.from + k \in 1 .. n
        /\ other.from + k \notin field.from + 1 .. field.from + field.size
    BY <1>7 DEF LiesIn, Apart
  <2>2. set.data[other.from + k] = struct.data[other.from + k]
    BY <1>1, <2>1
  <2> QED BY <1>7, <2>2 DEF Holds
<1> QED BY <1>1, <1>5, <1>6, <1>7

(* A number is read as it was set, but for what its field cannot hold. *)
LEMMA HeldIsRead ==
  ASSUME NEW n \in Nat, NEW struct, IsStruct(struct, n), NEW field, LiesIn(field, n), NEW v \in Nat,
         Holds(struct, field, v)
  PROVE  GetData(struct, field) = v % Values(field.size)
<1>1. PICK size, s : /\ size = field.size
                     /\ s = [k \in 1 .. field.size |-> struct.data[field.from + k] * Values(k - 1)]
  OBVIOUS
<1>2. size \in 1 .. 4 /\ size \in Nat
  BY <1>1 DEF LiesIn
<1>3. GetData(struct, field) = Total(s, size)
  <2>1. Len(struct.data) = n
    BY LenProperties DEF IsStruct
  <2>2. ~(field.from + field.size > Len(struct.data))
    BY <2>1 DEF LiesIn
  <2> QED BY <1>1, <2>2 DEF GetData
<1>4. \A k \in 1 .. size : s[k] = ((v \div Values(k - 1)) % BYTE) * Values(k - 1)
  BY <1>1 DEF Holds
<1>5. PICK f : Sums(s, size, f) /\ Total(s, size) = f[size]
  BY <1>2, TotalIs
<1>6. \A k \in 0 .. size : f[k] = IF k = 0 THEN 0 ELSE f[k - 1] + s[k]
  BY <1>2, <1>5 DEF Sums
<1> DEFINE S == {k \in Nat : f[k] = v % Values(k)}
<1>7. 0 \in S
  <2>1. v % 1 = 0
    OBVIOUS
  <2> QED BY <1>2, <1>6, <2>1, ValuesAre
<1>8. ASSUME NEW k \in 0 .. size - 1, k \in S PROVE k + 1 \in S
  <2>1. k \in 0 .. 3 /\ k \in 0 .. 4 /\ k + 1 \in 1 .. size /\ k + 1 \in 0 .. size /\ (k + 1) - 1 = k /\ k + 1 # 0
    BY <1>2
  <2>2. PICK m, q : m = Values(k) /\ q = BYTE
    OBVIOUS
  <2>3. m \in Nat \ {0} /\ q \in Nat \ {0} /\ Values(k + 1) = m * q
    BY <2>1, <2>2, ValuesAre, LayoutAssumption
  <2>4. f[k + 1] = f[k] + s[k + 1] /\ s[k + 1] = ((v \div m) % q) * m /\ f[k] = v % m
    BY <1>4, <1>6, <1>8, <2>1, <2>2
  <2>5. v % (m * q) = (v % m) + ((v \div m) % q) * m
    BY <2>3, RemainderJoins
  <2>6. f[k + 1] = v % Values(k + 1)
    BY <2>3, <2>4, <2>5
  <2> QED BY <2>1, <2>6
<1>9. \A k \in 0 .. size : k \in S
  <2> HIDE DEF S
  <2> QED BY <1>2, <1>7, <1>8, InductionUpTo
<1>10. f[size] = v % Values(size)
  BY <1>2, <1>9
<1> QED BY <1>1, <1>3, <1>5, <1>10

(* A number is read as before when a field apart from it is set. *)
LEMMA SetLeaves ==
  ASSUME NEW n \in Nat, NEW struct, IsStruct(struct, n), NEW field, LiesIn(field, n), NEW v \in Nat,
         NEW other, LiesIn(other, n), Apart(field, other),
         NEW set, set = SetData(struct, field, v)
  PROVE  GetData(set, other) = GetData(struct, other)
<1>1. IsStruct(set, n)
  BY SetHolds
<1>2. Len(set.data) = n /\ Len(struct.data) = n
  BY <1>1, LenProperties DEF IsStruct
<1>3. ASSUME NEW k \in 1 .. other.size
      PROVE  set.data[other.from + k] = struct.data[other.from + k]
  <2>1. /\ other.from + k \in 1 .. n
        /\ other.from + k \notin field.from + 1 .. field.from + field.size
    BY DEF LiesIn, Apart
  <2> QED BY <2>1 DEF SetData, IsStruct
<1>4. [k \in 1 .. other.size |-> set.data[other.from + k] * Values(k - 1)]
      = [k \in 1 .. other.size |-> struct.data[other.from + k] * Values(k - 1)]
  BY <1>3
<1> QED BY <1>2, <1>4 DEF GetData

==============================================================================
