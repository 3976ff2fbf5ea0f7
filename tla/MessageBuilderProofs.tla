------------------------- MODULE MessageBuilderProofs -------------------------
(***************************************************************************)
(* Proof that the generated builders implement the schema, whatever is     *)
(* called in which order on however many messages in the same buffer.      *)
(***************************************************************************)
EXTENDS MessageBuilder, CapnLayoutProofs, FiniteSetTheorems

(* What may hang behind a pointer, and what a list may hold. *)
PointerTo(of, Item) == {<< >>} \cup {<< l >> : l \in [of : {of}, items : Seq(Item)]}

Text == PointerTo("Char", Nat)

Struct(type) ==
  [data : [1 .. WORD * Layout[type].words -> Nat],
   pointers : [0 .. Layout[type].pointers - 1 -> Text]]

Item(of) == IF of \in DOMAIN Width THEN Nat ELSE Struct(of)

Lists(of) == PointerTo(of, Item(of))

Messages(k) ==
  {r \in [data : [1 .. 0 -> Nat], pointers : [0 .. 2 -> UNION {Lists(Layout[k].lists[f].of) : f \in Fields(k)}]] :
     \A f \in Fields(k) : r.pointers[Layout[k].lists[f].slot] \in Lists(Layout[k].lists[f].of)}

Orphans(k) ==
  {o \in [DOMAIN NoOrphans -> UNION {Lists(of) : of \in {"Char"} \cup {Layout[k].lists[f].of : f \in Fields(k)}}] :
     /\ o["name"] \in Text
     /\ \A f \in Fields(k) : o[f] \in Lists(Layout[k].lists[f].of)}

(***************************************************************************)
(* Types, and the reason why new memory holds zeros: no word is dirty but  *)
(* those that the builder has handed out.                                  *)
(***************************************************************************)
MemoryInv == used \in Nat /\ dirty \subseteq 0 .. used - 1

BInv ==
  /\ kind \in Roots /\ root \in Messages(kind) /\ orphans \in Orphans(kind)
  /\ MemoryInv

(* What the abstract message has for value and for held. *)
ValueOf(k, r) == [f \in Fields(k) |-> Shown(r.pointers[Layout[k].lists[f].slot])]
HeldOf(o) == [f \in DOMAIN o |-> Shown(o[f])]

-----------------------------------------------------------------------------
(* The lists of a root have pointers of their own, and the types that the schema says. *)
LEMMA RootLists ==
  ASSUME NEW k \in Roots
  PROVE  /\ Fields(k) = DOMAIN Abstract!Schema[k] /\ "name" \notin Fields(k)
         /\ \A f \in Fields(k) : /\ Layout[k].lists[f].slot \in 0 .. 2
                                 /\ Layout[k].lists[f].of = Abstract!Schema[k][f]
         /\ \A f, g \in Fields(k) : Layout[k].lists[f].slot = Layout[k].lists[g].slot => f = g
         /\ Layout[k].words = 0 /\ Layout[k].pointers = 3 /\ k \notin DOMAIN Width
<1>1. CASE k = "Header"
  <2>1. Layout[k] = HeaderLayout /\ k \notin DOMAIN Width
    BY <1>1 DEF Layout, Width
  <2>2. Abstract!Schema[k] = [doubles |-> "DoubleSided", singles |-> "SingleSided", signals |-> "Signal"]
    BY <1>1 DEF Abstract!Schema
  <2> QED BY <2>1, <2>2 DEF HeaderLayout, Pointer, Fields
<1>2. CASE k = "PackedEvent"
  <2>1. Layout[k] = PackedEventLayout /\ k \notin DOMAIN Width
    BY <1>2 DEF Layout, Width
  <2>2. Abstract!Schema[k] = [mul |-> "UInt8", data |-> "Data", signal |-> "UInt32"]
    BY <1>2 DEF Abstract!Schema
  <2> QED BY <2>1, <2>2 DEF PackedEventLayout, Pointer, Fields
<1> QED BY <1>1, <1>2 DEF Roots

Structs == {"Data", "DoubleSided", "SingleSided", "Signal"}

(* A list of a root has numbers or structs. *)
LEMMA RootItems ==
  ASSUME NEW k \in Roots, NEW f \in Fields(k)
  PROVE  Layout[k].lists[f].of \in {"UInt8", "UInt32"} \cup Structs
<1>1. CASE k = "Header"
  <2>1. Layout[k] = HeaderLayout
    BY <1>1 DEF Layout
  <2> QED BY <2>1 DEF HeaderLayout, Pointer, Fields, Structs
<1>2. CASE k = "PackedEvent"
  <2>1. Layout[k] = PackedEventLayout
    BY <1>2 DEF Layout
  <2> QED BY <2>1 DEF PackedEventLayout, Pointer, Fields, Structs
<1> QED BY <1>1, <1>2 DEF Roots

(* The fields of the structs in lists lie in their data, apart from each other. *)
LEMMA StructFields ==
  ASSUME NEW t \in Structs
  PROVE  /\ Layout[t].words \in Nat /\ t \notin DOMAIN Width /\ t \in DOMAIN Abstract!Schema
         /\ t \notin DOMAIN Abstract!Limits
         /\ Fields(t) = IF t = "Data" THEN {} ELSE {"name"}
         /\ Fields(t) \cap DOMAIN Layout[t].data = {}
         /\ DOMAIN Abstract!Schema[t] = DOMAIN Layout[t].data \cup Fields(t)
         /\ \A f \in Fields(t) : /\ Layout[t].lists[f].slot = 0 /\ Layout[t].pointers = 1
                                 /\ Abstract!Schema[t][f] = "Text"
         /\ \A d \in DOMAIN Layout[t].data :
              /\ LiesIn(Layout[t].data[d], WORD * Layout[t].words)
              /\ Abstract!Schema[t][d] # "Text"
              /\ Abstract!Limits[Abstract!Schema[t][d]] = Values(Layout[t].data[d].size)
              /\ \A e \in DOMAIN Layout[t].data \ {d} : Apart(Layout[t].data[d], Layout[t].data[e])
<1>1. /\ Values(1) = BYTE /\ Values(2) = BYTE * BYTE /\ Values(4) = BYTE * BYTE * BYTE * BYTE
  BY DEF Values
<1>2. /\ Abstract!Limits["UInt8"] = BYTE /\ Abstract!Limits["UInt16"] = BYTE * BYTE
      /\ Abstract!Limits["Float32"] = BYTE * BYTE * BYTE * BYTE
      /\ DOMAIN Abstract!Limits = {"UInt8", "UInt16", "UInt32", "Float32"}
  BY DEF Abstract!Limits
<1>3. CASE t = "Data"
  <2>1. Layout[t] = DataLayout /\ t \notin DOMAIN Width
    BY <1>3 DEF Layout, Width
  <2>2. Abstract!Schema[t] = [energy |-> "Float32", strip |-> "UInt8", time |-> "UInt16"]
        /\ t \in DOMAIN Abstract!Schema
    BY <1>3 DEF Abstract!Schema
  <2> QED BY <1>1, <1>2, <1>3, <2>1, <2>2 DEF DataLayout, Field, Fields, LiesIn, Apart, WORD
<1>4. CASE t = "DoubleSided"
  <2>1. Layout[t] = DoubleSidedLayout /\ t \notin DOMAIN Width
    BY <1>4 DEF Layout, Width
  <2>2. Abstract!Schema[t] = [name |-> "Text", frontStrips |-> "UInt16", backStrips |-> "UInt16"]
        /\ t \in DOMAIN Abstract!Schema
    BY <1>4 DEF Abstract!Schema
  <2> QED BY <1>1, <1>2, <1>4, <2>1, <2>2 DEF DoubleSidedLayout, Pointer, Field, Fields, LiesIn, Apart, WORD
<1>5. CASE t = "SingleSided"
  <2>1. Layout[t] = SingleSidedLayout /\ t \notin DOMAIN Width
    BY <1>5 DEF Layout, Width
  <2>2. Abstract!Schema[t] = [name |-> "Text", strips |-> "UInt16"] /\ t \in DOMAIN Abstract!Schema
    BY <1>5 DEF Abstract!Schema
  <2> QED BY <1>1, <1>2, <1>5, <2>1, <2>2 DEF SingleSidedLayout, Pointer, Field, Fields, LiesIn, Apart, WORD
<1>6. CASE t = "Signal"
  <2>1. Layout[t] = SignalLayout /\ t \notin DOMAIN Width
    BY <1>6 DEF Layout, Width
  <2>2. Abstract!Schema[t] = [name |-> "Text"] /\ t \in DOMAIN Abstract!Schema
    BY <1>6 DEF Abstract!Schema
  <2> QED BY <1>1, <1>2, <1>6, <2>1, <2>2 DEF SignalLayout, Pointer, Fields, WORD
<1> QED BY <1>3, <1>4, <1>5, <1>6 DEF Structs

-----------------------------------------------------------------------------
(* A text is shown as its bytes. *)
LEMMA TextShown ==
  ASSUME NEW p \in Text
  PROVE  ShownText(p) = Shown(p)
<1>1. CASE p = << >>
  BY <1>1 DEF ShownText, Shown
<1>2. CASE p # << >>
  <2>1. PICK l \in [of : {"Char"}, items : Seq(Nat)] : p = << l >>
    BY <1>2 DEF Text, PointerTo
  <2>2. \A i \in DOMAIN l.items : ShownItem(l.of, l.items[i]) = l.items[i]
    BY <2>1 DEF ShownItem, Width
  <2>3. [i \in DOMAIN l.items |-> ShownItem(l.of, l.items[i])] = l.items
    BY <2>1, <2>2
  <2>4. p # << >> /\ p[1] = l
    BY <2>1
  <2> QED BY <2>3, <2>4 DEF ShownText, Shown
<1> QED BY <1>1, <1>2

(* What is behind a pointer that is not null, and how it is shown. *)
LEMMA ListShown ==
  ASSUME NEW of, NEW items, items \in Seq(Item(of)), NEW p, p = << [of |-> of, items |-> items] >>
  PROVE  /\ p \in Lists(of) /\ p # << >> /\ p[1].of = of /\ p[1].items = items /\ Items(p) = items
         /\ Shown(p) = << [i \in DOMAIN items |-> ShownItem(of, items[i])] >>
<1>1. PICK l : l = [of |-> of, items |-> items]
  OBVIOUS
<1>2. p = << l >> /\ l \in [of : {of}, items : Seq(Item(of))] /\ l.of = of /\ l.items = items
  BY <1>1
<1>3. p # << >> /\ p[1] = l
  BY <1>2
<1>4. p \in Lists(of)
  BY <1>2 DEF Lists, PointerTo
<1>5. Shown(p) = << [i \in DOMAIN items |-> ShownItem(of, items[i])] >>
  BY <1>2, <1>3 DEF Shown
<1> QED BY <1>2, <1>3, <1>4, <1>5 DEF Items

(* There is nothing else behind a pointer. *)
LEMMA ListIs ==
  ASSUME NEW of, NEW p \in Lists(of)
  PROVE  \/ p = << >> /\ Items(p) = << >> /\ Shown(p) = << >>
         \/ /\ p # << >> /\ Items(p) \in Seq(Item(of))
            /\ p = << [of |-> of, items |-> Items(p)] >>
            /\ Shown(p) = << [i \in DOMAIN Items(p) |-> ShownItem(of, Items(p)[i])] >>
<1>1. CASE p = << >>
  BY <1>1 DEF Items, Shown
<1>2. CASE p # << >>
  <2>1. PICK l \in [of : {of}, items : Seq(Item(of))] : p = << l >>
    BY <1>2 DEF Lists, PointerTo
  <2>2. l = [of |-> of, items |-> l.items] /\ l.items \in Seq(Item(of))
    BY <2>1
  <2>3. Items(p) = l.items
    BY <2>1, <2>2, ListShown
  <2>4. p = << [of |-> of, items |-> Items(p)] >>
    BY <2>1, <2>2, <2>3
  <2> QED BY <1>2, <2>2, <2>3, <2>4, ListShown
<1> QED BY <1>1, <1>2

(* A list of the root in place of another. *)
LEMMA ListReplaced ==
  ASSUME NEW k, k \in Roots, NEW r, r \in Messages(k), NEW f, f \in Fields(k),
         NEW q, q \in Lists(Layout[k].lists[f].of),
         NEW set, set = [r EXCEPT !.pointers[Layout[k].lists[f].slot] = q]
  PROVE  /\ set \in Messages(k)
         /\ ValueOf(k, set) = [ValueOf(k, r) EXCEPT ![f] = Shown(q)]
<1> DEFINE slot(g) == Layout[k].lists[g].slot
           of(g) == Layout[k].lists[g].of
           Every == UNION {Lists(of(g)) : g \in Fields(k)}
<1>1. \A g \in Fields(k) : slot(g) \in 0 .. 2 /\ (g # f => slot(g) # slot(f))
  BY RootLists
<1>2. q \in Every
  OBVIOUS
<1>3. /\ r \in [data : [1 .. 0 -> Nat], pointers : [0 .. 2 -> Every]]
      /\ \A g \in Fields(k) : r.pointers[slot(g)] \in Lists(of(g))
  BY DEF Messages
<1> HIDE DEF Every
<1>4. /\ set \in [data : [1 .. 0 -> Nat], pointers : [0 .. 2 -> Every]]
      /\ \A g \in Fields(k) : set.pointers[slot(g)] = IF g = f THEN q ELSE r.pointers[slot(g)]
  BY <1>1, <1>2, <1>3
<1>5. \A g \in Fields(k) : set.pointers[slot(g)] \in Lists(of(g))
  BY <1>3, <1>4
<1>6. set \in Messages(k)
  BY <1>4, <1>5 DEF Messages, Every
<1>7. \A g \in Fields(k) : Shown(set.pointers[slot(g)])
                           = IF g = f THEN Shown(q) ELSE Shown(r.pointers[slot(g)])
  <2> SUFFICES ASSUME NEW g \in Fields(k)
               PROVE  Shown(set.pointers[slot(g)])
                        = IF g = f THEN Shown(q) ELSE Shown(r.pointers[slot(g)])
    OBVIOUS
  <2>1. set.pointers[slot(g)] = IF g = f THEN q ELSE r.pointers[slot(g)]
    BY <1>4
  <2> QED BY ONLY <2>1
<1> QED BY <1>6, <1>7 DEF ValueOf

-----------------------------------------------------------------------------
(* An item of a list in place of another. *)
LEMMA ItemReplaced ==
  ASSUME NEW of, NEW items \in Seq(Item(of)), NEW i \in DOMAIN items, NEW x \in Item(of),
         NEW set, set = [items EXCEPT ![i] = x]
  PROVE  /\ set \in Seq(Item(of))
         /\ [j \in DOMAIN set |-> ShownItem(of, set[j])]
              = [[j \in DOMAIN items |-> ShownItem(of, items[j])] EXCEPT ![i] = ShownItem(of, x)]
<1>1. DOMAIN set = DOMAIN items /\ \A j \in DOMAIN items : set[j] = IF j = i THEN x ELSE items[j]
  OBVIOUS
<1>2. set \in Seq(Item(of))
  <2>1. PICK n, T : n = Len(items) /\ T = Item(of)
    OBVIOUS
  <2>2. n \in Nat /\ DOMAIN items = 1 .. n /\ items \in [1 .. n -> T]
    BY <2>1, LenProperties
  <2>3. set \in [1 .. n -> T]
    BY <2>1, <2>2
  <2> QED BY <2>1, <2>2, <2>3, SeqDef
<1>3. \A j \in DOMAIN items : ShownItem(of, set[j]) = IF j = i THEN ShownItem(of, x) ELSE ShownItem(of, items[j])
  BY <1>1
<1> QED BY <1>1, <1>2, <1>3

(* A field of a struct is shown as it is set, the others as before, *)
LEMMA FieldSet ==
  ASSUME NEW t \in Structs, NEW s \in Struct(t), NEW part \in DOMAIN Layout[t].data, NEW v \in Nat,
         NEW set, set = SetData(s, Layout[t].data[part], v)
  PROVE  /\ set \in Struct(t)
         /\ ShownItem(t, set)
              = [ShownItem(t, s) EXCEPT ![part] = v % Abstract!Limits[Abstract!Schema[t][part]]]
<1>1. PICK n, field, D : n = WORD * Layout[t].words /\ field = Layout[t].data[part] /\ D = DOMAIN Layout[t].data
  OBVIOUS
<1>2. /\ n \in Nat /\ LiesIn(field, n)
      /\ \A d \in D : LiesIn(Layout[t].data[d], n) /\ (d # part => Apart(field, Layout[t].data[d]))
  <2>1. n \in Nat
    <3>1. PICK w : w = Layout[t].words
      OBVIOUS
    <3>2. w \in Nat
      BY <3>1, StructFields
    <3> QED BY <1>1, <3>1, <3>2 DEF WORD
  <2>2. \A d \in D : LiesIn(Layout[t].data[d], n)
    BY <1>1, StructFields
  <2>3. \A d \in D : d # part => Apart(field, Layout[t].data[d])
    BY <1>1, StructFields
  <2> QED BY <1>1, <2>1, <2>2, <2>3
<1>3. s = [data |-> s.data, pointers |-> s.pointers] /\ s.data \in [1 .. n -> Nat]
      /\ s.pointers \in [0 .. Layout[t].pointers - 1 -> Text]
  BY <1>1 DEF Struct
<1>4. IsStruct(s, n)
  <2>1. {"data", "pointers"} \subseteq DOMAIN s
    BY <1>3
  <2> QED BY <1>3, <2>1 DEF IsStruct
<1>5. IsStruct(set, n) /\ set.pointers = s.pointers /\ Holds(set, field, v)
  BY <1>1, <1>2, <1>4, SetHolds
<1>6. set \in Struct(t)
  <2>1. set = [data |-> set.data, pointers |-> set.pointers]
    BY <1>3 DEF SetData
  <2>2. set.data \in [1 .. n -> Nat]
    BY <1>5 DEF IsStruct
  <2>3. set.pointers \in [0 .. Layout[t].pointers - 1 -> Text]
    BY <1>3, <1>5
  <2> QED BY <1>1, <2>1, <2>2, <2>3 DEF Struct
<1>7. GetData(set, field) = v % Abstract!Limits[Abstract!Schema[t][part]]
  <2>1. GetData(set, field) = v % Values(field.size)
    BY <1>2, <1>5, HeldIsRead
  <2> QED BY <1>1, <2>1, StructFields
<1>8. ASSUME NEW d \in D, d # part
      PROVE  GetData(set, Layout[t].data[d]) = GetData(s, Layout[t].data[d])
  BY <1>1, <1>2, <1>4, <1>8, SetLeaves
<1>9. Fields(t) \cap D = {} /\ t \notin DOMAIN Width
  BY <1>1, StructFields
<1> DEFINE Part(x, f) == IF f \in Fields(t) THEN ShownText(x.pointers[Layout[t].lists[f].slot])
                         ELSE GetData(x, Layout[t].data[f])
<1>10. /\ ShownItem(t, set) = [f \in D \cup Fields(t) |-> Part(set, f)]
       /\ ShownItem(t, s) = [f \in D \cup Fields(t) |-> Part(s, f)]
  BY <1>1, <1>9 DEF ShownItem
<1>11. /\ Part(set, part) = v % Abstract!Limits[Abstract!Schema[t][part]]
       /\ \A f \in D \cup Fields(t) : f # part => Part(set, f) = Part(s, f)
  BY <1>1, <1>5, <1>7, <1>8, <1>9
<1> HIDE DEF Part
<1>12. PICK w : w = v % Abstract!Limits[Abstract!Schema[t][part]]
  OBVIOUS
<1>13. PICK F, G, S : F = ShownItem(t, set) /\ G = ShownItem(t, s) /\ S = D \cup Fields(t)
  OBVIOUS
<1>14. /\ F = [f \in S |-> Part(set, f)] /\ G = [f \in S |-> Part(s, f)]
       /\ Part(set, part) = w /\ \A f \in S : f # part => Part(set, f) = Part(s, f)
  BY <1>10, <1>11, <1>12, <1>13
<1>15. F = [G EXCEPT ![part] = w]
  BY ONLY <1>14
<1> QED BY <1>6, <1>12, <1>13, <1>15

(* and so is its text. *)
LEMMA NameSet ==
  ASSUME NEW t \in Structs, "name" \in Fields(t), NEW s \in Struct(t), NEW p \in Text,
         NEW set, set = [s EXCEPT !.pointers = [@ EXCEPT ![Layout[t].lists.name.slot] = p]]
  PROVE  /\ set \in Struct(t)
         /\ ShownItem(t, set) = [ShownItem(t, s) EXCEPT !.name = Shown(p)]
<1>1. PICK n, D : n = 1 .. WORD * Layout[t].words /\ D = DOMAIN Layout[t].data
  OBVIOUS
<1>2. /\ Fields(t) = {"name"} /\ "name" \notin D /\ t \notin DOMAIN Width
      /\ Layout[t].lists["name"].slot = 0 /\ Layout[t].pointers = 1
  BY <1>1, StructFields
<1>3. s \in [data : [n -> Nat], pointers : [{0} -> Text]]
  <2>1. 0 .. Layout[t].pointers - 1 = {0}
    BY <1>2
  <2> QED BY <1>1, <2>1 DEF Struct
<1>4. /\ set \in [data : [n -> Nat], pointers : [{0} -> Text]]
      /\ set.data = s.data /\ set.pointers[0] = p
  BY <1>2, <1>3
<1>5. set \in Struct(t)
  <2>1. 0 .. Layout[t].pointers - 1 = {0}
    BY <1>2
  <2> QED BY <1>1, <1>4, <2>1 DEF Struct
<1> DEFINE Part(x, f) == IF f \in Fields(t) THEN ShownText(x.pointers[Layout[t].lists[f].slot])
                         ELSE GetData(x, Layout[t].data[f])
<1>6. /\ ShownItem(t, set) = [f \in D \cup Fields(t) |-> Part(set, f)]
      /\ ShownItem(t, s) = [f \in D \cup Fields(t) |-> Part(s, f)]
  BY <1>1, <1>2 DEF ShownItem
<1>7. /\ Part(set, "name") = Shown(p)
      /\ \A f \in D \cup Fields(t) : f # "name" => Part(set, f) = Part(s, f)
  BY <1>2, <1>4, TextShown DEF GetData
<1> HIDE DEF Part
<1> QED BY <1>2, <1>5, <1>6, <1>7

-----------------------------------------------------------------------------
(* A new item is what the schema says of a list that was not written to. *)
LEMMA BlankShown ==
  ASSUME NEW of \in {"UInt8", "UInt32", "Char"} \cup Structs
  PROVE  /\ Blank(of, 0) \in Item(of)
         /\ ShownItem(of, Blank(of, 0)) = IF of = "Char" THEN 0 ELSE Abstract!Default(of)
<1>1. CASE of \in {"UInt8", "UInt32", "Char"}
  <2>1. of \in DOMAIN Width
    BY <1>1 DEF Width
  <2>2. Blank(of, 0) = 0
    <3>1. PICK a, b, q : a = Values(Width[of]) - 1 /\ b = BYTE - 1 /\ q = a \div b
      OBVIOUS
    <3>2. a \in Int /\ b \in Nat \ {0}
      <4>1. Width[of] \in {1, 4}
        BY <1>1 DEF Width
      <4>2. Values(Width[of]) \in Nat
        BY <4>1, ValuesAre
      <4> QED BY <3>1, <4>2, LayoutAssumption
    <3>3. q \in Int
      BY ONLY <3>1, <3>2
    <3>4. 0 * q = 0
      BY ONLY <3>3
    <3> QED BY <2>1, <3>1, <3>4 DEF Blank, Repeated
  <2>3. of # "Char" => of \in DOMAIN Abstract!Limits
    BY <1>1 DEF Abstract!Limits
  <2> QED BY <2>1, <2>2, <2>3 DEF Item, ShownItem, Abstract!Default
<1>2. CASE of \in Structs
  <2>1. PICK n, D, P : n = WORD * Layout[of].words /\ D = DOMAIN Layout[of].data /\ P = 0 .. Layout[of].pointers - 1
    OBVIOUS
  <2>2. /\ n \in Nat /\ of \notin DOMAIN Width /\ of \notin DOMAIN Abstract!Limits /\ of # "Char"
        /\ \A d \in D : LiesIn(Layout[of].data[d], n)
    <3>1. PICK w : w = Layout[of].words
      OBVIOUS
    <3>2. w \in Nat
      BY <1>2, <3>1, StructFields
    <3>3. n \in Nat
      BY <2>1, <3>1, <3>2 DEF WORD
    <3>4. of \notin DOMAIN Width /\ of \notin DOMAIN Abstract!Limits
      BY <1>2, StructFields
    <3>5. \A d \in D : LiesIn(Layout[of].data[d], n)
      BY <1>2, <2>1, StructFields
    <3> QED BY <1>2, <3>3, <3>4, <3>5 DEF Structs
  <2>3. Blank(of, 0) = [data |-> [b \in 1 .. n |-> 0], pointers |-> [p \in P |-> << >>]]
    BY <2>1, <2>2 DEF Blank
  <2>4. Blank(of, 0) \in Struct(of)
    <3>1. << >> \in Text
      BY DEF Text, PointerTo
    <3> QED BY <2>1, <2>3, <3>1 DEF Struct
  <2>5. ASSUME NEW d \in D PROVE GetData(Blank(of, 0), Layout[of].data[d]) = 0
    <3>1. IsStruct(Blank(of, 0), n)
      BY <2>3 DEF IsStruct
    <3>2. PICK field : field = Layout[of].data[d]
      OBVIOUS
    <3>3. LiesIn(field, n)
      BY <2>2, <3>2
    <3>4. ASSUME NEW k \in 1 .. field.size PROVE Blank(of, 0).data[field.from + k] = (0 \div Values(k - 1)) % BYTE
      <4>1. k - 1 \in 0 .. 4 /\ field.from + k \in 1 .. n
        BY <2>2, <3>3 DEF LiesIn
      <4>2. Values(k - 1) \in Nat \ {0} /\ BYTE \in Nat \ {0}
        BY <4>1, ValuesAre, LayoutAssumption
      <4>3. (0 \div Values(k - 1)) = 0
        BY ONLY <4>2
      <4>4. 0 % BYTE = 0
        BY ONLY <4>2
      <4>5. PICK b : b = field.from + k
        OBVIOUS
      <4>6. Blank(of, 0).data = [c \in 1 .. n |-> 0]
        BY <2>1, <2>2 DEF Blank
      <4>7. Blank(of, 0).data[b] = 0
        BY <4>1, <4>5, <4>6
      <4> QED BY <4>3, <4>4, <4>5, <4>7
    <3>5. GetData(Blank(of, 0), field) = 0 % Values(field.size)
      BY <2>2, <3>1, <3>3, <3>4, HeldIsRead DEF Holds
    <3>6. Values(field.size) \in Nat \ {0}
      BY <3>3, ValuesAre DEF LiesIn
    <3>7. 0 % Values(field.size) = 0
      BY ONLY <3>6
    <3> QED BY <3>2, <3>5, <3>7
  <2>6. ASSUME NEW f \in Fields(of)
        PROVE  ShownText(Blank(of, 0).pointers[Layout[of].lists[f].slot]) = << >>
    <3>1. Layout[of].lists[f].slot = 0 /\ Layout[of].pointers = 1
      BY <1>2, StructFields
    <3>2. 0 \in P
      BY <2>1, <3>1
    <3> QED BY <2>3, <3>1, <3>2 DEF ShownText
  <2>7. /\ DOMAIN Abstract!Schema[of] = D \cup Fields(of) /\ D \cap Fields(of) = {}
        /\ \A f \in Fields(of) : Abstract!Schema[of][f] = "Text"
        /\ \A d \in D : Abstract!Schema[of][d] # "Text"
    BY <1>2, <2>1, StructFields
  <2>8. ShownItem(of, Blank(of, 0)) = [f \in D \cup Fields(of) |-> IF f \in Fields(of) THEN << >> ELSE 0]
    BY <2>1, <2>2, <2>5, <2>6 DEF ShownItem
  <2>9. Abstract!Default(of) = [f \in D \cup Fields(of) |-> IF f \in Fields(of) THEN << >> ELSE 0]
    BY <2>2, <2>7 DEF Abstract!Default
  <2> QED BY <2>2, <2>4, <2>8, <2>9 DEF Item
<1> QED BY <1>1, <1>2

(* A new list. *)
LEMMA NewListShown ==
  ASSUME NEW of \in {"UInt8", "UInt32", "Char"} \cup Structs, NEW n \in Nat,
         NEW p, p = << NewList(of, n, 0) >>
  PROVE  /\ p \in Lists(of)
         /\ Shown(p) = << [i \in 1 .. n |-> IF of = "Char" THEN 0 ELSE Abstract!Default(of)] >>
<1>1. PICK items : items = [i \in 1 .. n |-> Blank(of, 0)]
  OBVIOUS
<1>2. items \in Seq(Item(of)) /\ DOMAIN items = 1 .. n
  <2>1. PICK b, T : b = Blank(of, 0) /\ T = Item(of)
    OBVIOUS
  <2>2. b \in T
    BY <2>1, BlankShown
  <2> QED BY <1>1, <2>1, <2>2
<1>3. p = << [of |-> of, items |-> items] >>
  BY <1>1 DEF NewList
<1>4. p \in Lists(of) /\ Shown(p) = << [i \in DOMAIN items |-> ShownItem(of, items[i])] >>
  <2>1. items \in Seq(Item(of))
    BY <1>2
  <2> QED BY ONLY <1>3, <2>1, ListShown
<1>5. [i \in DOMAIN items |-> ShownItem(of, items[i])]
      = [i \in 1 .. n |-> IF of = "Char" THEN 0 ELSE Abstract!Default(of)]
  BY <1>1, <1>2, BlankShown
<1> QED BY <1>4, <1>5

-----------------------------------------------------------------------------
Typed == kind \in Roots /\ root \in Messages(kind)

(* The list of a root's field. *)
LEMMA ListTyped ==
  ASSUME Typed, NEW f \in Fields(kind)
  PROVE  /\ List(f) \in Lists(Of(f)) /\ Of(f) \in {"UInt8", "UInt32"} \cup Structs
         /\ ValueOf(kind, root) = [g \in Fields(kind) |-> Shown(List(g))]
         /\ ValueOf(kind, root)[f] = Shown(List(f))
<1>1. List(f) \in Lists(Of(f))
  BY DEF Typed, Messages, List, Of
<1>2. Of(f) \in {"UInt8", "UInt32"} \cup Structs
  BY RootItems DEF Typed, Of
<1>3. ValueOf(kind, root) = [g \in Fields(kind) |-> Shown(List(g))]
  BY DEF ValueOf, List
<1> QED BY <1>1, <1>2, <1>3

(* A pointer of a message is a root's list, or the name of an item of one. *)
TopSlot(slot, f) ==
  f \in Fields(kind) /\ slot = << f >> /\ ~Nested(slot) /\ Last(slot) = f /\ TypeAt(slot) = Of(f)

ItemSlot(slot, f, i) ==
  /\ f \in Fields(kind) /\ Of(f) \in Structs /\ "name" \in Fields(Of(f))
  /\ i \in DOMAIN Items(List(f))
  /\ slot = << f, i, "name" >> /\ Nested(slot) /\ Last(slot) = "name" /\ TypeAt(slot) = "Char"

(* There are no others. *)
LEMMA SlotIs ==
  ASSUME Typed, NEW slot \in Slots
  PROVE  \E f : TopSlot(slot, f) \/ \E i : ItemSlot(slot, f, i)
<1>1. CASE slot \in {<< f >> : f \in Fields(kind)}
  <2>1. PICK f \in Fields(kind) : slot = << f >>
    BY <1>1
  <2>2. Len(slot) = 1 /\ slot[1] = f
    BY <2>1
  <2>3. ~Nested(slot) /\ Last(slot) = f /\ TypeAt(slot) = Of(f)
    BY <2>2 DEF Nested, Last, TypeAt
  <2> QED BY <2>1, <2>3 DEF TopSlot
<1>2. CASE slot \in UNION {{<< f, i, "name" >> : i \in DOMAIN Items(List(f))} :
                            f \in {g \in Fields(kind) : Of(g) \notin DOMAIN Width /\ "name" \in Fields(Of(g))}}
  <2>1. PICK f \in Fields(kind) : /\ Of(f) \notin DOMAIN Width /\ "name" \in Fields(Of(f))
                                 /\ slot \in {<< f, i, "name" >> : i \in DOMAIN Items(List(f))}
    BY <1>2
  <2>2. PICK i \in DOMAIN Items(List(f)) : slot = << f, i, "name" >>
    BY <2>1
  <2>3. Of(f) \in Structs
    BY <2>1, ListTyped DEF Width
  <2>4. Len(slot) = 3 /\ slot[3] = "name"
    BY <2>2
  <2>5. Nested(slot) /\ Last(slot) = "name" /\ TypeAt(slot) = "Char"
    BY <2>4 DEF Nested, Last, TypeAt
  <2> QED BY <2>1, <2>2, <2>3, <2>5 DEF ItemSlot
<1> QED BY <1>1, <1>2 DEF Slots

(* The items of a list that is not empty. *)
LEMMA ItemsAre ==
  ASSUME Typed, NEW f \in Fields(kind), NEW i \in DOMAIN Items(List(f))
  PROVE  /\ Items(List(f)) \in Seq(Item(Of(f))) /\ Items(List(f))[i] \in Item(Of(f))
         /\ List(f) = << [of |-> Of(f), items |-> Items(List(f))] >>
         /\ Shown(List(f)) = << [j \in DOMAIN Items(List(f)) |-> ShownItem(Of(f), Items(List(f))[j])] >>
<1>1. List(f) \in Lists(Of(f))
  BY ListTyped
<1>2. Items(List(f)) # << >>
  OBVIOUS
<1>3. Items(List(f)) \in Seq(Item(Of(f)))
  BY <1>1, <1>2, ListIs
<1> QED BY <1>1, <1>2, <1>3, ListIs

(* The message and its value have the same pointers. *)
LEMMA SlotsAgree ==
  ASSUME Typed
  PROVE  /\ Abstract!Slots = Slots
         /\ \A f \in Fields(kind) : DOMAIN Abstract!ItemsOf(f) = DOMAIN Items(List(f))
<1>1. PICK V : V = ValueOf(kind, root)
  OBVIOUS
<1>2. V = [f \in Fields(kind) |-> Shown(List(f))]
  BY <1>1 DEF ValueOf, List
<1>3. ASSUME NEW f \in Fields(kind)
      PROVE  DOMAIN Abstract!ItemsOf(f) = DOMAIN Items(List(f))
  <2>1. Abstract!ItemsOf(f) = IF Shown(List(f)) = << >> THEN << >> ELSE Shown(List(f))[1]
    BY DEF Abstract!ItemsOf
  <2>2. List(f) \in Lists(Of(f))
    BY ListTyped
  <2>3. CASE List(f) = << >> /\ Items(List(f)) = << >> /\ Shown(List(f)) = << >>
    BY <2>1, <2>3
  <2>4. CASE Shown(List(f)) = << [i \in DOMAIN Items(List(f)) |-> ShownItem(Of(f), Items(List(f))[i])] >>
    BY <2>1, <2>4
  <2> QED BY <2>2, <2>3, <2>4, ListIs
<1>4. ASSUME NEW g \in Fields(kind)
      PROVE  (Abstract!Schema[kind][g] \in DOMAIN Abstract!Schema
               /\ "name" \in DOMAIN Abstract!Schema[Abstract!Schema[kind][g]])
             <=> (Of(g) \notin DOMAIN Width /\ "name" \in Fields(Of(g)))
  <2>1. Abstract!Schema[kind][g] = Of(g) /\ Of(g) \in {"UInt8", "UInt32"} \cup Structs
    BY RootLists, ListTyped DEF Typed, Of
  <2>2. CASE Of(g) \in {"UInt8", "UInt32"}
    BY <2>1, <2>2 DEF Width, Abstract!Schema
  <2>3. CASE Of(g) \in Structs
    <3>1. /\ Of(g) \notin DOMAIN Width /\ Of(g) \in DOMAIN Abstract!Schema
          /\ Fields(Of(g)) = IF Of(g) = "Data" THEN {} ELSE {"name"}
      BY <2>3, StructFields
    <3>2. "name" \in DOMAIN Abstract!Schema[Of(g)] <=> "name" \in Fields(Of(g))
      BY <2>3, <3>1 DEF Abstract!Schema, Structs
    <3> QED BY <2>1, <3>1, <3>2
  <2> QED BY <2>1, <2>2, <2>3
<1>5. Abstract!Slots =
        {<< f >> : f \in Fields(kind)} \cup
        UNION {{<< f, i, "name" >> : i \in DOMAIN Abstract!ItemsOf(f)} :
                 f \in {g \in Fields(kind) : Abstract!Schema[kind][g] \in DOMAIN Abstract!Schema
                           /\ "name" \in DOMAIN Abstract!Schema[Abstract!Schema[kind][g]]}}
  BY DEF Abstract!Slots
<1>6. {g \in Fields(kind) : Abstract!Schema[kind][g] \in DOMAIN Abstract!Schema
                           /\ "name" \in DOMAIN Abstract!Schema[Abstract!Schema[kind][g]]}
      = {g \in Fields(kind) : Of(g) \notin DOMAIN Width /\ "name" \in Fields(Of(g))}
  BY <1>4
<1>7. \A f \in Fields(kind) : {<< f, i, "name" >> : i \in DOMAIN Abstract!ItemsOf(f)}
                             = {<< f, i, "name" >> : i \in DOMAIN Items(List(f))}
  BY <1>3
<1>8. Abstract!Slots = Slots
  BY <1>5, <1>6, <1>7 DEF Slots
<1> QED BY <1>3, <1>8

-----------------------------------------------------------------------------
(* What is at a slot is shown as the value's. *)
LEMMA SlotShown ==
  ASSUME Typed, NEW slot \in Slots
  PROVE  At(slot) \in Lists(TypeAt(slot)) /\ Abstract!At(slot) = Shown(At(slot))
<1>1. CASE \E f : TopSlot(slot, f)
  <2>1. PICK f : TopSlot(slot, f)
    BY <1>1
  <2>2. Len(slot) = 1 /\ slot[1] = f /\ f \in Fields(kind)
    BY <2>1 DEF TopSlot
  <2>3. At(slot) = List(f) /\ TypeAt(slot) = Of(f)
    BY <2>1, <2>2 DEF At, TopSlot
  <2>4. Abstract!At(slot) = Shown(List(f))
    BY <2>2 DEF Abstract!At
  <2> QED BY <2>2, <2>3, <2>4, ListTyped
<1>2. CASE \E f, i : ItemSlot(slot, f, i)
  <2>1. PICK f, i : ItemSlot(slot, f, i)
    BY <1>2
  <2>2. Len(slot) = 3 /\ slot[1] = f /\ slot[2] = i /\ f \in Fields(kind) /\ i \in DOMAIN Items(List(f))
        /\ Of(f) \in Structs /\ "name" \in Fields(Of(f)) /\ TypeAt(slot) = "Char"
    BY <2>1 DEF ItemSlot
  <2>3. PICK t, item, n : t = Of(f) /\ item = Items(List(f))[i] /\ n = Layout[t].lists["name"].slot
    OBVIOUS
  <2>4. n = 0 /\ Layout[t].pointers = 1 /\ t \notin DOMAIN Width
    BY <2>2, <2>3, StructFields
  <2>5. item \in Struct(t)
    BY <2>2, <2>3, <2>4, ItemsAre DEF Item
  <2>6. item.pointers[n] \in Text
    BY <2>4, <2>5 DEF Struct
  <2>7. At(slot) = item.pointers[n]
    BY <2>1, <2>2, <2>3 DEF At, ItemSlot, NameSlot
  <2>8. Shown(List(f)) = << [j \in DOMAIN Items(List(f)) |-> ShownItem(t, Items(List(f))[j])] >>
    BY <2>2, <2>3, ItemsAre
  <2>9. Shown(List(f))[1][i] = ShownItem(t, item)
    BY <2>2, <2>3, <2>8
  <2>10. ShownItem(t, item).name = ShownText(item.pointers[n])
    BY <2>2, <2>3, <2>4 DEF ShownItem
  <2>11. Abstract!At(slot) = Shown(List(f))[1][i].name
    BY <2>2 DEF Abstract!At
  <2>12. Abstract!At(slot) = Shown(item.pointers[n])
    BY <2>6, <2>9, <2>10, <2>11, TextShown
  <2> QED BY <2>2, <2>6, <2>7, <2>12 DEF Lists, Text, Item, Width
<1> QED BY <1>1, <1>2, SlotIs

(* An item in place of another, in a list of the root. *)
LEMMA RootItemReplaced ==
  ASSUME Typed, NEW f \in Fields(kind), NEW i \in DOMAIN Items(List(f)), NEW x \in Item(Of(f)),
         NEW set,
         set = [root EXCEPT !.pointers[Layout[kind].lists[f].slot] =
                  << [of |-> Of(f), items |-> [Items(List(f)) EXCEPT ![i] = x]] >>]
  PROVE  /\ set \in Messages(kind)
         /\ ValueOf(kind, set) =
              [ValueOf(kind, root) EXCEPT ![f] =
                 << [ValueOf(kind, root)[f][1] EXCEPT ![i] = ShownItem(Of(f), x)] >>]
<1>1. PICK t, items, new : t = Of(f) /\ items = Items(List(f)) /\ new = [items EXCEPT ![i] = x]
  OBVIOUS
<1>2. items \in Seq(Item(t)) /\ i \in DOMAIN items /\ x \in Item(t)
  BY <1>1, ItemsAre
<1>3. /\ new \in Seq(Item(t))
      /\ [j \in DOMAIN new |-> ShownItem(t, new[j])]
           = [[j \in DOMAIN items |-> ShownItem(t, items[j])] EXCEPT ![i] = ShownItem(t, x)]
  BY <1>1, <1>2, ItemReplaced
<1>4. PICK q : q = << [of |-> t, items |-> new] >>
  OBVIOUS
<1>5. q \in Lists(t) /\ Shown(q) = << [j \in DOMAIN new |-> ShownItem(t, new[j])] >>
  BY <1>3, <1>4, ListShown
<1>6. set = [root EXCEPT !.pointers[Layout[kind].lists[f].slot] = q]
  BY <1>1, <1>4
<1>7. set \in Messages(kind) /\ ValueOf(kind, set) = [ValueOf(kind, root) EXCEPT ![f] = Shown(q)]
  <2>1. q \in Lists(Layout[kind].lists[f].of)
    BY <1>1, <1>5 DEF Of
  <2> QED BY <1>6, <2>1, ListReplaced DEF Typed
<1>8. ValueOf(kind, root)[f] = << [j \in DOMAIN items |-> ShownItem(t, items[j])] >>
  BY <1>1, ListTyped, ItemsAre
<1>9. ValueOf(kind, root)[f][1] = [j \in DOMAIN items |-> ShownItem(t, items[j])]
  BY <1>8
<1>10. Shown(q) = << [ValueOf(kind, root)[f][1] EXCEPT ![i] = ShownItem(t, x)] >>
  BY <1>3, <1>5, <1>9
<1> QED BY <1>1, <1>7, <1>10

(* What is put at a slot is shown there, and nothing else changes. *)
LEMMA SlotSet ==
  ASSUME Typed, NEW slot \in Slots, NEW p \in Lists(TypeAt(slot))
  PROVE  /\ With(slot, p) \in Messages(kind)
         /\ ValueOf(kind, With(slot, p)) = Abstract!With(slot, Shown(p))
<1>1. CASE \E f : TopSlot(slot, f)
  <2>1. PICK f : TopSlot(slot, f)
    BY <1>1
  <2>2. Len(slot) = 1 /\ slot[1] = f /\ f \in Fields(kind) /\ TypeAt(slot) = Of(f) /\ ~Nested(slot)
    BY <2>1 DEF TopSlot
  <2>3. With(slot, p) = [root EXCEPT !.pointers[Layout[kind].lists[f].slot] = p]
    BY <2>2 DEF With
  <2>4. Abstract!With(slot, Shown(p)) = [ValueOf(kind, root) EXCEPT ![f] = Shown(p)]
    BY <2>2, ListTyped DEF Abstract!With
  <2>5. p \in Lists(Layout[kind].lists[f].of)
    BY <2>2 DEF Of
  <2>6. PICK set : set = With(slot, p)
    OBVIOUS
  <2>7. set \in Messages(kind) /\ ValueOf(kind, set) = [ValueOf(kind, root) EXCEPT ![f] = Shown(p)]
    BY <2>2, <2>3, <2>5, <2>6, ListReplaced DEF Typed
  <2> QED BY <2>4, <2>6, <2>7
<1>2. CASE \E f, i : ItemSlot(slot, f, i)
  <2>1. PICK f, i : ItemSlot(slot, f, i)
    BY <1>2
  <2>2. Len(slot) = 3 /\ slot[1] = f /\ slot[2] = i /\ f \in Fields(kind) /\ i \in DOMAIN Items(List(f))
        /\ Of(f) \in Structs /\ "name" \in Fields(Of(f)) /\ TypeAt(slot) = "Char" /\ Nested(slot)
    BY <2>1 DEF ItemSlot
  <2>3. PICK t, items, item, n, s : /\ t = Of(f) /\ items = Items(List(f)) /\ item = items[i]
                                  /\ n = Layout[t].lists["name"].slot /\ s = Layout[kind].lists[f].slot
    OBVIOUS
  <2>4. item \in Struct(t) /\ p \in Text
    <3>1. t \notin DOMAIN Width
      BY <2>2, <2>3, StructFields
    <3>2. item \in Struct(t)
      BY <2>2, <2>3, <3>1, ItemsAre DEF Item
    <3> QED BY <2>2, <3>2 DEF Lists, Text, Item, Width
  <2>5. PICK x : x = [item EXCEPT !.pointers = [@ EXCEPT ![n] = p]]
    OBVIOUS
  <2>6. x \in Struct(t) /\ ShownItem(t, x) = [ShownItem(t, item) EXCEPT !.name = Shown(p)]
    BY <2>2, <2>3, <2>4, <2>5, NameSet
  <2>7. x \in Item(t)
    BY <2>2, <2>3, <2>6, StructFields DEF Item
  <2>8. PICK set : set = [root EXCEPT !.pointers[s] = << [of |-> t, items |-> [items EXCEPT ![i] = x]] >>]
    OBVIOUS
  <2>9. /\ set \in Messages(kind)
        /\ ValueOf(kind, set) =
              [ValueOf(kind, root) EXCEPT ![f] = << [ValueOf(kind, root)[f][1] EXCEPT ![i] = ShownItem(t, x)] >>]
    BY <2>2, <2>3, <2>7, <2>8, RootItemReplaced
  <2>10. With(slot, p) = set
    <3>1. With(slot, p) = [root EXCEPT !.pointers[s][1].items[i].pointers[n] = p]
      BY <2>2, <2>3 DEF With, NameSlot
    <3>2. root.pointers[s] = << [of |-> t, items |-> items] >>
      BY <2>2, <2>3, ItemsAre DEF List
    <3>3. PICK q : q = root.pointers[s]
      OBVIOUS
    <3>4. [q EXCEPT ![1].items[i].pointers[n] = p] = << [of |-> t, items |-> [items EXCEPT ![i] = x]] >>
      <4>1. PICK y : y = [of |-> t, items |-> items]
        OBVIOUS
      <4>2. [y EXCEPT !.items[i].pointers[n] = p] = [of |-> t, items |-> [items EXCEPT ![i] = x]]
        <5>1. [items EXCEPT ![i].pointers[n] = p] = [items EXCEPT ![i] = x]
          BY <2>3, <2>5
        <5> QED BY <4>1, <5>1
      <4>3. q = << y >>
        BY <3>2, <3>3, <4>1
      <4> QED BY ONLY <4>2, <4>3
    <3> QED BY <2>8, <3>1, <3>3, <3>4
  <2>11. Abstract!With(slot, Shown(p)) = [ValueOf(kind, root) EXCEPT ![f][1][i].name = Shown(p)]
    BY <2>2, ListTyped DEF Abstract!With
  <2>12. PICK V : V = ValueOf(kind, root)
    OBVIOUS
  <2>13. PICK shown : V[f] = << shown >> /\ shown[i] = ShownItem(t, item) /\ i \in DOMAIN shown
    <3>1. V[f] = << [j \in DOMAIN items |-> ShownItem(t, items[j])] >>
      BY <2>2, <2>3, <2>12, ListTyped, ItemsAre
    <3> QED BY <2>2, <2>3, <3>1
  <2>14. [V EXCEPT ![f][1][i].name = Shown(p)] = [V EXCEPT ![f] = << [shown EXCEPT ![i] = [shown[i] EXCEPT !.name = Shown(p)]] >>]
    <3>1. PICK u : u = V[f]
      OBVIOUS
    <3>2. [u EXCEPT ![1][i].name = Shown(p)] = << [shown EXCEPT ![i] = [shown[i] EXCEPT !.name = Shown(p)]] >>
      BY <2>13, <3>1
    <3> QED BY <3>1, <3>2
  <2> QED BY <2>6, <2>9, <2>10, <2>11, <2>12, <2>13, <2>14
<1> QED BY <1>1, <1>2, SlotIs

-----------------------------------------------------------------------------
(* The type of what is disowned from a slot of that name. *)
PlaceType(k, place) == IF place = "name" THEN "Char" ELSE Layout[k].lists[place].of

(* What is kept, with p under the name of a place. *)
Filed(o, place, p) == [o EXCEPT ![place] = p]

(* It is of the type of the place. *)
LEMMA OrphanSet ==
  ASSUME NEW k, k \in Roots, NEW o, o \in Orphans(k),
         NEW place, place \in Fields(k) \cup {"name"},
         NEW p, p \in Lists(PlaceType(k, place)),
         NEW set, set = Filed(o, place, p)
  PROVE  /\ set \in Orphans(k) /\ o[place] \in Lists(PlaceType(k, place))
         /\ HeldOf(set) = [HeldOf(o) EXCEPT ![place] = Shown(p)]
         /\ HeldOf(o)[place] = Shown(o[place])
<1> DEFINE Every == UNION {Lists(of) : of \in {"Char"} \cup {Layout[k].lists[f].of : f \in Fields(k)}}
           P == DOMAIN NoOrphans
<1>1. P = (UNION {Fields(r) : r \in Roots}) \cup {"name"} /\ place \in P /\ "name" \notin Fields(k)
  BY RootLists DEF NoOrphans
<1>2. p \in Every
  BY DEF PlaceType
<1>3. Lists("Char") = Text
  BY DEF Lists, Text, Item, Width
<1>4. /\ o \in [P -> Every] /\ o["name"] \in Text
      /\ \A f \in Fields(k) : o[f] \in Lists(Layout[k].lists[f].of)
  BY DEF Orphans
<1>5. o[place] \in Lists(PlaceType(k, place))
  BY <1>1, <1>3, <1>4 DEF PlaceType
<1> HIDE DEF Every, P
<1>6. set \in [P -> Every] /\ \A f \in P : set[f] = IF f = place THEN p ELSE o[f]
  BY <1>1, <1>2, <1>4 DEF Filed
<1>7. Fields(k) \subseteq P /\ "name" \in P
  BY <1>1
<1>8. set["name"] \in Text /\ \A f \in Fields(k) : set[f] \in Lists(Layout[k].lists[f].of)
  BY <1>1, <1>3, <1>4, <1>6, <1>7 DEF PlaceType
<1>9. set \in Orphans(k)
  BY <1>6, <1>8 DEF Orphans, Every, P
<1>10. /\ HeldOf(set) = [f \in P |-> Shown(set[f])]
       /\ HeldOf(o) = [f \in P |-> Shown(o[f])]
  BY <1>4, <1>6 DEF HeldOf
<1>11. \A f \in P : Shown(set[f]) = IF f = place THEN Shown(p) ELSE Shown(o[f])
  BY <1>6
<1>12. HeldOf(set) = [HeldOf(o) EXCEPT ![place] = Shown(p)]
  BY <1>10, <1>11
<1>13. HeldOf(o)[place] = Shown(o[place])
  BY <1>1, <1>10 DEF P
<1> QED BY <1>5, <1>9, <1>12, <1>13

(* The name of a slot. *)
LEMMA SlotPlace ==
  ASSUME Typed, NEW slot \in Slots
  PROVE  Last(slot) \in Fields(kind) \cup {"name"} /\ PlaceType(kind, Last(slot)) = TypeAt(slot)
         /\ TypeAt(slot) \in {"UInt8", "UInt32", "Char"} \cup Structs
<1>1. CASE \E f : TopSlot(slot, f)
  <2>1. PICK f : TopSlot(slot, f)
    BY <1>1
  <2>2. f # "name"
    BY <2>1, RootLists DEF Typed, TopSlot
  <2> QED BY <2>1, <2>2, ListTyped DEF TopSlot, PlaceType, Of
<1>2. CASE \E f, i : ItemSlot(slot, f, i)
  BY <1>2 DEF ItemSlot, PlaceType
<1> QED BY <1>1, <1>2, SlotIs

-----------------------------------------------------------------------------
(* Words of a list. *)
LEMMA WordsType ==
  ASSUME NEW of \in {"UInt8", "UInt32", "Char"} \cup Structs, NEW n \in Nat
  PROVE  Words(of, n) \in Nat
<1>1. CASE of \in {"UInt8", "UInt32"}
  <2>1. PICK w : w = n * Width[of] + WORD - 1
    OBVIOUS
  <2>2. w \in Nat
    BY <1>1, <2>1 DEF Width, WORD
  <2>3. w \div 8 \in Nat
    BY ONLY <2>2
  <2> QED BY <1>1, <2>1, <2>3 DEF Words, WORD
<1>2. CASE of = "Char"
  <2>1. n \div 8 \in Nat
    OBVIOUS
  <2> QED BY <1>2, <2>1 DEF Words, WORD
<1>3. CASE of \in Structs
  <2>1. PICK w : w = Layout[of].words + Layout[of].pointers
    OBVIOUS
  <2>2. w \in Nat
    BY <1>3, <2>1 DEF Structs, Layout, DataLayout, DoubleSidedLayout, SingleSidedLayout, SignalLayout
  <2>3. 1 + n * w \in Nat
    BY ONLY <2>2, n \in Nat
  <2>4. of \notin {"UInt8", "UInt32"} /\ of # "Char"
    BY <1>3 DEF Structs
  <2> QED BY <2>1, <2>3, <2>4 DEF Words
<1> QED BY <1>1, <1>2, <1>3

(* Memory that is handed out holds zeros, and is what may be dirty afterwards. *)
LEMMA FreshMemory ==
  ASSUME MemoryInv, NEW words \in Nat
  PROVE  /\ Found(words) = 0
         /\ Allocate(words) => MemoryInv'
<1>1. CASE Taken(words) = {}
  <2>1. Cardinality(Taken(words)) = 0
    BY <1>1, FS_EmptySet
  <2>2. Allocate(words) => MemoryInv'
    BY <1>1, <2>1 DEF Allocate, MemoryInv
  <2> QED BY <1>1, <2>2 DEF Found
<1>2. CASE Taken(words) = used .. used + words - 1
  <2>1. used \in Nat /\ dirty \subseteq 0 .. used - 1
    BY DEF MemoryInv
  <2>2. Taken(words) \cap dirty = {}
    BY <1>2, <2>1
  <2>3. Cardinality(Taken(words)) = words
    <3>1. PICK a, b : a = used /\ b = used + words - 1
      OBVIOUS
    <3>2. a \in Int /\ b \in Int /\ b - a + 1 = words /\ (a > b => words = 0)
      BY <2>1, <3>1
    <3> QED BY <1>2, <3>1, <3>2, FS_Interval
  <2>4. Allocate(words) => MemoryInv'
    BY <1>2, <2>1, <2>3 DEF Allocate, MemoryInv
  <2> QED BY <2>2, <2>4 DEF Found
<1> QED BY <1>1, <1>2 DEF Taken

-----------------------------------------------------------------------------
(***************************************************************************)
(* A call that puts p at a slot, and perhaps something else where disowned *)
(* lists are kept: the abstract message follows.                           *)
(***************************************************************************)
LEMMA SlotCall ==
  ASSUME BInv, NEW slot \in Slots, NEW p \in Lists(TypeAt(slot)), root' = With(slot, p), kind' = kind
  PROVE  /\ root' \in Messages(kind')
         /\ Abstract!With(slot, Shown(p)) = ValueOf(kind', root')
<1>1. Typed
  BY DEF BInv, Typed
<1>2. PICK k, r : k = kind /\ r = With(slot, p)
  OBVIOUS
<1>3. r \in Messages(k) /\ ValueOf(k, r) = Abstract!With(slot, Shown(p))
  BY <1>1, <1>2, SlotSet
<1> QED BY <1>2, <1>3

(* The value and the lists held of the abstract message after a step. *)
LEMMA ValueNext ==
  /\ [f \in Fields(kind) |-> Shown(List(f))]' = ValueOf(kind', root')
  /\ [f \in DOMAIN orphans |-> Shown(orphans[f])]' = HeldOf(orphans')
  BY DEF ValueOf, HeldOf, List, Fields, Shown, ShownItem, ShownText

(* What the abstract message holds under the name of a slot. *)
LEMMA HeldAt ==
  ASSUME BInv, NEW slot \in Slots
  PROVE  /\ orphans[Last(slot)] \in Lists(TypeAt(slot))
         /\ HeldOf(orphans)[Last(slot)] = Shown(orphans[Last(slot)])
<1>1. Typed /\ orphans \in Orphans(kind)
  BY DEF BInv, Typed
<1>2. << >> \in Lists(PlaceType(kind, Last(slot)))
  BY DEF Lists, PointerTo
<1>3. PICK set : set = Filed(orphans, Last(slot), << >>)
  OBVIOUS
<1> QED BY <1>1, <1>2, <1>3, SlotPlace, OrphanSet DEF Typed

(* init *)
LEMMA InitFollows ==
  ASSUME BInv, NEW slot \in Slots, NEW n \in 0 .. MAX_LENGTH, InitSlot(slot, n)
  PROVE  BInv' /\ Abstract!InitSlot(slot, n)
<1>1. PICK w, of, p : w = Words(TypeAt(slot), n) /\ of = TypeAt(slot) /\ p = << NewList(TypeAt(slot), n, 0) >>
  OBVIOUS
<1>2. Typed /\ n \in Nat /\ of \in {"UInt8", "UInt32", "Char"} \cup Structs
  BY <1>1, SlotPlace DEF BInv, Typed
<1>3. w \in Nat
  BY <1>1, <1>2, WordsType
<1>4. Found(w) = 0 /\ MemoryInv'
  BY <1>1, <1>3, FreshMemory DEF BInv, InitSlot
<1>5. root' = With(slot, p) /\ kind' = kind /\ orphans' = orphans /\ call' = << "init", slot, n >>
  BY <1>1, <1>4 DEF InitSlot, Called
<1>6. /\ p \in Lists(of)
      /\ Shown(p) = << [i \in 1 .. n |-> IF of = "Char" THEN 0 ELSE Abstract!Default(of)] >>
  BY <1>1, <1>2, NewListShown
<1>7. root' \in Messages(kind') /\ Abstract!With(slot, Shown(p)) = ValueOf(kind', root')
  BY <1>1, <1>5, <1>6, SlotCall
<1>8. BInv'
  BY <1>4, <1>5, <1>7 DEF BInv
<1>9. Abstract!NewItems(slot, n) = [i \in 1 .. n |-> IF of = "Char" THEN 0 ELSE Abstract!Default(of)]
  <2>1. CASE \E f : TopSlot(slot, f)
    <3>1. PICK f : TopSlot(slot, f)
      BY <2>1
    <3>2. Len(slot) = 1 /\ slot[1] = f /\ of = Of(f) /\ Of(f) = Abstract!Schema[kind][f]
      BY <1>1, <1>2, <3>1, RootLists DEF TopSlot, Of, Typed
    <3>3. of # "Char"
      BY <1>2, <3>1, <3>2, ListTyped DEF TopSlot, Structs
    <3> QED BY <3>2, <3>3 DEF Abstract!NewItems
  <2>2. CASE \E f, i : ItemSlot(slot, f, i)
    <3>1. Len(slot) = 3 /\ of = "Char"
      BY <1>1, <2>2 DEF ItemSlot
    <3> QED BY <3>1 DEF Abstract!NewItems
  <2> QED BY <1>2, <2>1, <2>2, SlotIs
<1>10. Shown(p) = << Abstract!NewItems(slot, n) >>
  BY <1>6, <1>9
<1>11. Abstract!InitSlot(slot, n)
  BY <1>5, <1>7, <1>10, ValueNext DEF Abstract!InitSlot
<1> QED BY <1>8, <1>11

(* disown *)
LEMMA DisownFollows ==
  ASSUME BInv, NEW slot \in Slots, Disown(slot)
  PROVE  BInv' /\ Abstract!Disown(slot)
<1>1. PICK k, o, p, place, none : /\ k = kind /\ o = orphans /\ p = At(slot) /\ place = Last(slot)
                                /\ none = << >>
  OBVIOUS
<1>2. Typed /\ k \in Roots /\ o \in Orphans(k)
  BY <1>1 DEF BInv, Typed
<1>3. p \in Lists(PlaceType(k, place)) /\ place \in Fields(k) \cup {"name"} /\ Abstract!At(slot) = Shown(p)
  BY <1>1, <1>2, SlotShown, SlotPlace
<1>4. PICK set : set = Filed(o, place, p)
  OBVIOUS
<1>5. set \in Orphans(k) /\ HeldOf(set) = [HeldOf(o) EXCEPT ![place] = Shown(p)]
  BY <1>2, <1>3, <1>4, OrphanSet
<1>6. /\ root' = With(slot, none) /\ orphans' = set /\ kind' = k /\ UNCHANGED << used, dirty >>
      /\ call' = << "disown", slot >>
  BY <1>1, <1>4 DEF Disown, Called, Filed
<1>7. none \in Lists(TypeAt(slot)) /\ Shown(none) = << >>
  BY <1>1 DEF Lists, PointerTo, Shown
<1>8. root' \in Messages(kind') /\ Abstract!With(slot, Shown(none)) = ValueOf(kind', root')
  BY <1>1, <1>6, <1>7, SlotCall
<1>9. BInv'
  BY <1>2, <1>5, <1>6, <1>8 DEF BInv, MemoryInv
<1>10. Abstract!Disown(slot)
  BY <1>1, <1>3, <1>5, <1>6, <1>7, <1>8, ValueNext DEF Abstract!Disown, HeldOf, Last, Abstract!Last
<1> QED BY <1>9, <1>10

(* adopt *)
LEMMA AdoptFollows ==
  ASSUME BInv, NEW slot \in Slots, Adopt(slot)
  PROVE  BInv' /\ Abstract!Adopt(slot)
<1>1. PICK k, o, p, place, none : /\ k = kind /\ o = orphans /\ p = orphans[Last(slot)] /\ place = Last(slot)
                                /\ none = << >>
  OBVIOUS
<1>2. Typed /\ k \in Roots /\ o \in Orphans(k)
  BY <1>1 DEF BInv, Typed
<1>3. /\ p \in Lists(TypeAt(slot)) /\ HeldOf(o)[place] = Shown(p)
      /\ place \in Fields(k) \cup {"name"}
  BY <1>1, <1>2, HeldAt, SlotPlace
<1>4. PICK set : set = Filed(o, place, none)
  OBVIOUS
<1>5. set \in Orphans(k) /\ HeldOf(set) = [HeldOf(o) EXCEPT ![place] = << >>]
  <2>1. none \in Lists(PlaceType(k, place)) /\ Shown(none) = << >>
    BY <1>1 DEF Lists, PointerTo, Shown
  <2> QED BY <1>2, <1>3, <1>4, <2>1, OrphanSet
<1>6. /\ root' = With(slot, p) /\ orphans' = set /\ kind' = k /\ UNCHANGED << used, dirty >>
      /\ call' = << "adopt", slot >>
  BY <1>1, <1>4 DEF Adopt, Called, Filed
<1>7. root' \in Messages(kind') /\ Abstract!With(slot, Shown(p)) = ValueOf(kind', root')
  BY <1>1, <1>3, <1>6, SlotCall
<1>8. BInv'
  BY <1>2, <1>5, <1>6, <1>7 DEF BInv, MemoryInv
<1>9. Abstract!Adopt(slot)
  BY <1>1, <1>3, <1>5, <1>6, <1>7, ValueNext DEF Abstract!Adopt, HeldOf, Last, Abstract!Last
<1> QED BY <1>8, <1>9

(* set *)
LEMMA SetFollows ==
  ASSUME BInv, NEW slot \in Slots, SetSlot(slot)
  PROVE  BInv' /\ Abstract!Copy(slot)
<1>1. PICK of, o, items, p : /\ of = TypeAt(slot) /\ o = orphans[Last(slot)] /\ items = Items(o)
                           /\ p = << [of |-> of, items |-> items] >>
  OBVIOUS
<1>2. /\ Typed /\ of \in {"UInt8", "UInt32", "Char"} \cup Structs
      /\ o \in Lists(of) /\ HeldOf(orphans)[Last(slot)] = Shown(o)
  BY <1>1, HeldAt, SlotPlace DEF BInv, Typed
<1>3. /\ items \in Seq(Item(of)) /\ p \in Lists(of)
      /\ Shown(p) = IF Shown(o) = << >> THEN << << >> >> ELSE Shown(o)
  <2>1. CASE o = << >> /\ Items(o) = << >> /\ Shown(o) = << >>
    <3>1. items \in Seq(Item(of)) /\ DOMAIN items = {}
      <4>1. PICK T : T = Item(of)
        OBVIOUS
      <4>2. items = << >>
        BY <1>1, <2>1
      <4>3. items \in Seq(T) /\ DOMAIN items = {}
        BY ONLY <4>2
      <4> QED BY <4>1, <4>3
    <3>2. p \in Lists(of) /\ Shown(p) = << [i \in DOMAIN items |-> ShownItem(of, items[i])] >>
      BY <1>1, <3>1, ListShown
    <3>3. [i \in DOMAIN items |-> ShownItem(of, items[i])] = << >>
      BY <3>1
    <3> QED BY <2>1, <3>1, <3>2, <3>3
  <2>2. CASE /\ Items(o) \in Seq(Item(of)) /\ o = << [of |-> of, items |-> Items(o)] >>
             /\ Shown(o) = << [i \in DOMAIN Items(o) |-> ShownItem(of, Items(o)[i])] >>
    <3>1. p = o /\ Shown(o) # << >>
      BY <1>1, <2>2
    <3> QED BY <1>1, <1>2, <2>2, <3>1
  <2> QED BY <1>2, <2>1, <2>2, ListIs
<1>4. MemoryInv'
  <2>1. PICK n, w : n = Len(items) /\ w = Words(of, n)
    OBVIOUS
  <2>2. n \in Nat
    BY <1>3, <2>1
  <2>3. w \in Nat
    BY <1>2, <2>1, <2>2, WordsType
  <2>4. Allocate(w)
    BY <1>1, <2>1 DEF SetSlot
  <2> QED BY <2>3, <2>4, FreshMemory DEF BInv
<1>5. root' = With(slot, p) /\ orphans' = orphans /\ kind' = kind /\ call' = << "set", slot >>
  BY <1>1 DEF SetSlot, Called
<1>6. root' \in Messages(kind') /\ Abstract!With(slot, Shown(p)) = ValueOf(kind', root')
  BY <1>1, <1>3, <1>5, SlotCall
<1>7. BInv'
  BY <1>4, <1>5, <1>6 DEF BInv
<1>8. Abstract!Copy(slot)
  BY <1>2, <1>3, <1>5, <1>6, ValueNext DEF Abstract!Copy, HeldOf, Last, Abstract!Last
<1> QED BY <1>7, <1>8

(* What can be set in an item. *)
LEMMA PartsAgree ==
  ASSUME Typed, NEW f \in Fields(kind)
  PROVE  Abstract!Parts(f) = Parts(Of(f))
<1>1. Abstract!Schema[kind][f] = Of(f) /\ Of(f) \in {"UInt8", "UInt32"} \cup Structs
  BY RootLists, ListTyped DEF Typed, Of
<1>2. CASE Of(f) \in {"UInt8", "UInt32"}
  BY <1>1, <1>2 DEF Abstract!Parts, Parts, Abstract!Limits, Width
<1>3. CASE Of(f) \in Structs
  <2>1. PICK t, D : t = Of(f) /\ D = DOMAIN Layout[t].data
    OBVIOUS
  <2>2. /\ t \notin DOMAIN Width /\ t \notin DOMAIN Abstract!Limits
        /\ DOMAIN Abstract!Schema[t] = D \cup Fields(t) /\ D \cap Fields(t) = {}
        /\ \A g \in Fields(t) : Abstract!Schema[t][g] = "Text"
        /\ \A g \in D : Abstract!Schema[t][g] # "Text"
    BY <1>3, <2>1, StructFields
  <2>3. Abstract!Parts(f) = {g \in DOMAIN Abstract!Schema[t] : Abstract!Schema[t][g] # "Text"}
    BY <1>1, <2>1, <2>2 DEF Abstract!Parts
  <2>4. Parts(t) = D
    BY <2>1, <2>2 DEF Parts
  <2> QED BY <2>1, <2>2, <2>3, <2>4
<1> QED BY <1>1, <1>2, <1>3

(* The setters of items. *)
LEMMA PutFollows ==
  ASSUME BInv, NEW f \in Fields(kind), NEW i \in DOMAIN Items(List(f)), NEW part \in Parts(Of(f)),
         NEW v \in Nat, Put(f, i, part, v)
  PROVE  BInv' /\ Abstract!Put(f, i, part)
<1>1. PICK k, t, s, items, V : /\ k = kind /\ t = Of(f) /\ s = Layout[kind].lists[f].slot
                             /\ items = Items(List(f)) /\ V = ValueOf(kind, root)
  OBVIOUS
<1>2. PICK x : x = SetItem(t, items[i], part, v)
  OBVIOUS
<1>3. Typed /\ t = Abstract!Schema[k][f] /\ t \in {"UInt8", "UInt32"} \cup Structs
  BY <1>1, RootLists, ListTyped DEF BInv, Typed, Of
<1>4. items[i] \in Item(t) /\ root.pointers[s] = << [of |-> t, items |-> items] >>
  BY <1>1, <1>3, ItemsAre DEF List
<1>5. PICK shown : V[f] = << shown >> /\ shown[i] = ShownItem(t, items[i])
  <2>1. V[f] = << [j \in DOMAIN items |-> ShownItem(t, items[j])] >>
    BY <1>1, <1>3, ListTyped, ItemsAre
  <2> QED BY <1>1, <2>1
<1>6. /\ x \in Item(t)
      /\ ShownItem(t, x) = IF t \in DOMAIN Abstract!Limits THEN v % Abstract!Limits[t]
                          ELSE [shown[i] EXCEPT ![part] = v % Abstract!Limits[Abstract!Schema[t][part]]]
  <2>1. CASE t \in {"UInt8", "UInt32"}
    <3>1. t \in DOMAIN Width /\ t \in DOMAIN Abstract!Limits
      BY <2>1 DEF Width, Abstract!Limits
    <3>2. Width[t] \in {1, 4} /\ Abstract!Limits[t] = Values(Width[t])
      BY <2>1 DEF Width, Abstract!Limits, Values
    <3>3. PICK m : m = Values(Width[t])
      OBVIOUS
    <3>4. m \in Nat \ {0}
      BY <3>2, <3>3, ValuesAre
    <3>5. v % m \in Nat
      BY ONLY <3>4, v \in Nat
    <3>6. x = v % m
      BY <1>2, <3>1, <3>3 DEF SetItem
    <3> QED BY <3>1, <3>2, <3>3, <3>5, <3>6 DEF Item, ShownItem
  <2>2. CASE t \in Structs
    <3>1. t \notin DOMAIN Width /\ t \notin DOMAIN Abstract!Limits
      BY <2>2, StructFields
    <3>2. items[i] \in Struct(t) /\ part \in DOMAIN Layout[t].data
      BY <1>1, <1>4, <3>1 DEF Item, Parts
    <3>3. x = SetData(items[i], Layout[t].data[part], v)
      BY <1>2, <3>1 DEF SetItem
    <3>4. /\ x \in Struct(t)
          /\ ShownItem(t, x) = [ShownItem(t, items[i]) EXCEPT ![part] = v % Abstract!Limits[Abstract!Schema[t][part]]]
      BY <2>2, <3>2, <3>3, FieldSet
    <3> QED BY <1>5, <3>1, <3>4 DEF Item
  <2> QED BY <1>3, <2>1, <2>2
<1>7. PICK set : set = [root EXCEPT !.pointers[s] = << [of |-> t, items |-> [items EXCEPT ![i] = x]] >>]
  OBVIOUS
<1>8. set \in Messages(k) /\ ValueOf(k, set) = [V EXCEPT ![f] = << [shown EXCEPT ![i] = ShownItem(t, x)] >>]
  <2>1. x \in Item(Of(f))
    BY <1>1, <1>6
  <2>2. set = [root EXCEPT !.pointers[Layout[kind].lists[f].slot] =
                 << [of |-> Of(f), items |-> [Items(List(f)) EXCEPT ![i] = x]] >>]
    BY <1>1, <1>7
  <2>3. /\ set \in Messages(kind)
        /\ ValueOf(kind, set) =
             [ValueOf(kind, root) EXCEPT ![f] =
                << [ValueOf(kind, root)[f][1] EXCEPT ![i] = ShownItem(Of(f), x)] >>]
    BY <1>3, <2>1, <2>2, RootItemReplaced
  <2>4. V[f][1] = shown
    BY <1>5
  <2> QED BY <1>1, <2>3, <2>4
<1>9. root' = set
  <2>1. root' = [root EXCEPT !.pointers[s][1].items[i] = SetItem(t, @, part, v)]
    BY <1>1 DEF Put
  <2>2. PICK q : q = root.pointers[s]
    OBVIOUS
  <2>3. [q EXCEPT ![1].items[i] = SetItem(t, @, part, v)] = << [of |-> t, items |-> [items EXCEPT ![i] = x]] >>
    BY <1>2, <1>4, <2>2
  <2> QED BY <1>7, <2>1, <2>2, <2>3
<1>10. kind' = k /\ UNCHANGED << orphans, used, dirty >> /\ call' = << "put", << f, i, part >>, v >>
  BY <1>1 DEF Put, Called
<1>11. BInv'
  BY <1>1, <1>8, <1>9, <1>10 DEF BInv, MemoryInv
<1>12. ValueOf(kind', root') = [V EXCEPT ![f] = << [shown EXCEPT ![i] = ShownItem(t, x)] >>]
  BY <1>8, <1>9, <1>10
<1>13. PICK u : u = V[f]
  OBVIOUS
<1>14. call'[1] = "put" /\ call'[2] = << f, i, part >> /\ call'[3] = v
  BY <1>10
<1>15. Abstract!Put(f, i, part) <=>
         /\ call'[1] = "put" /\ call'[2] = << f, i, part >>
         /\ ValueOf(kind', root') =
              IF t \in DOMAIN Abstract!Limits THEN [V EXCEPT ![f][1][i] = call'[3] % Abstract!Limits[t]]
              ELSE [V EXCEPT ![f][1][i][part] = call'[3] % Abstract!Limits[Abstract!Schema[t][part]]]
         /\ kind' = kind /\ HeldOf(orphans') = HeldOf(orphans)
  BY <1>1, <1>3, ListTyped, ValueNext DEF Abstract!Put, HeldOf
<1>16. CASE t \in DOMAIN Abstract!Limits
  <2>1. PICK w : w = v % Abstract!Limits[t]
    OBVIOUS
  <2>2. [u EXCEPT ![1][i] = w] = << [shown EXCEPT ![i] = w] >>
    BY <1>5, <1>13
  <2>3. [V EXCEPT ![f][1][i] = w] = [V EXCEPT ![f] = << [shown EXCEPT ![i] = w] >>]
    BY <1>13, <2>2
  <2> QED BY <1>1, <1>6, <1>10, <1>11, <1>12, <1>14, <1>15, <1>16, <2>1, <2>3
<1>17. CASE t \notin DOMAIN Abstract!Limits
  <2>1. PICK w : w = v % Abstract!Limits[Abstract!Schema[t][part]]
    OBVIOUS
  <2>2. [u EXCEPT ![1][i][part] = w] = << [shown EXCEPT ![i] = [shown[i] EXCEPT ![part] = w]] >>
    BY <1>5, <1>13
  <2>3. [V EXCEPT ![f][1][i][part] = w] = [V EXCEPT ![f] = << [shown EXCEPT ![i] = [shown[i] EXCEPT ![part] = w]] >>]
    BY <1>13, <2>2
  <2> QED BY <1>1, <1>6, <1>10, <1>11, <1>12, <1>14, <1>15, <1>17, <2>1, <2>3
<1> QED BY <1>16, <1>17

-----------------------------------------------------------------------------
(* A message at its start shows nothing, and nothing is kept of an earlier one. *)
LEMMA FreshMessage ==
  ASSUME NEW k, k \in Roots
  PROVE  /\ Blank(k, 0) \in Messages(k) /\ NoOrphans \in Orphans(k)
         /\ ValueOf(k, Blank(k, 0)) = [f \in DOMAIN Abstract!Schema[k] |-> << >>]
         /\ HeldOf(NoOrphans) = Abstract!NothingHeld
<1>1. PICK r : r = Blank(k, 0)
  OBVIOUS
<1>2. r = [data |-> [b \in 1 .. 0 |-> 0], pointers |-> [p \in 0 .. 2 |-> << >>]]
  <2>1. Layout[k].words = 0 /\ Layout[k].pointers = 3 /\ k \notin DOMAIN Width
    BY RootLists
  <2>2. WORD * Layout[k].words = 0 /\ Layout[k].pointers - 1 = 2
    BY <2>1 DEF WORD
  <2> QED BY <1>1, <2>1, <2>2 DEF Blank
<1>3. \A of : << >> \in Lists(of)
  BY DEF Lists, PointerTo
<1>4. /\ Fields(k) = DOMAIN Abstract!Schema[k]
      /\ \A f \in Fields(k) : r.pointers[Layout[k].lists[f].slot] = << >>
  <2>1. r.pointers = [p \in 0 .. 2 |-> << >>]
    BY <1>2
  <2> QED BY <2>1, RootLists
<1>5. r \in Messages(k)
  <2>1. PICK Every : Every = UNION {Lists(Layout[k].lists[f].of) : f \in Fields(k)}
    OBVIOUS
  <2>2. << >> \in Every
    <3>1. Fields(k) # {}
      BY <1>4 DEF Roots, Abstract!Schema
    <3> QED BY <1>3, <2>1, <3>1
  <2>3. r \in [data : [1 .. 0 -> Nat], pointers : [0 .. 2 -> Every]]
    BY <1>2, <2>2
  <2> QED BY <1>3, <1>4, <2>1, <2>3 DEF Messages
<1>6. NoOrphans \in Orphans(k)
  <2>1. PICK Every, P : /\ P = DOMAIN NoOrphans
                      /\ Every = UNION {Lists(of) : of \in {"Char"} \cup {Layout[k].lists[f].of : f \in Fields(k)}}
    OBVIOUS
  <2>2. << >> \in Every
    BY <1>3, <2>1
  <2>3. NoOrphans = [f \in P |-> << >>] /\ P = (UNION {Fields(t) : t \in Roots}) \cup {"name"}
    BY <2>1 DEF NoOrphans
  <2>4. NoOrphans \in [P -> Every] /\ \A f \in Fields(k) \cup {"name"} : NoOrphans[f] = << >>
    BY <2>2, <2>3
  <2>5. << >> \in Text
    BY DEF Text, PointerTo
  <2> QED BY <1>3, <2>1, <2>4, <2>5 DEF Orphans
<1>7. Shown(<< >>) = << >>
  BY DEF Shown
<1>8. ValueOf(k, r) = [f \in DOMAIN Abstract!Schema[k] |-> << >>]
  BY <1>4, <1>7 DEF ValueOf
<1>9. HeldOf(NoOrphans) = Abstract!NothingHeld
  <2>1. UNION {Fields(t) : t \in Roots} = UNION {DOMAIN Abstract!Schema[t] : t \in Roots}
    BY RootLists
  <2>2. Abstract!Roots = Roots
    BY DEF Abstract!Roots, Roots
  <2>3. DOMAIN NoOrphans = Abstract!Places
    BY <2>1, <2>2 DEF NoOrphans, Abstract!Places
  <2>4. \A f \in DOMAIN NoOrphans : Shown(NoOrphans[f]) = << >>
    BY <1>7 DEF NoOrphans
  <2> QED BY <2>3, <2>4 DEF HeldOf, Abstract!NothingHeld
<1> QED BY <1>1, <1>5, <1>6, <1>8, <1>9

(* The buffer begins with the root, if that is an event. *)
LEMMA RootMemory ==
  ASSUME NEW k, k \in Roots
  PROVE  /\ Cardinality(RootTaken(k)) \in Nat
         /\ RootTaken(k) \subseteq 0 .. Cardinality(RootTaken(k)) - 1
<1>1. CASE k = "PackedEvent"
  <2>1. Layout[k].words + Layout[k].pointers = 3
    <3>1. Layout[k] = PackedEventLayout
      BY <1>1 DEF Layout
    <3> QED BY <3>1 DEF PackedEventLayout
  <2>2. RootTaken(k) = 0 .. 3
    BY <1>1, <2>1 DEF RootTaken
  <2>3. Cardinality(0 .. 3) = 4
    <3>1. PICK a, b : a = 0 /\ b = 3
      OBVIOUS
    <3>2. a \in Int /\ b \in Int /\ b - a + 1 = 4 /\ ~(a > b)
      BY <3>1
    <3> QED BY <3>1, <3>2, FS_Interval
  <2> QED BY <2>2, <2>3
<1>2. CASE k = "Header"
  <2>1. RootTaken(k) = {}
    BY <1>2 DEF RootTaken
  <2> QED BY <2>1, FS_EmptySet
<1> QED BY <1>1, <1>2 DEF Roots

(* The first message, *)
LEMMA StartFollows ==
  ASSUME BInit
  PROVE  BInv /\ Abstract!SchemaInit
<1>1. PICK k : k = kind
  OBVIOUS
<1>2. k \in Roots /\ root = Blank(k, 0) /\ orphans = NoOrphans /\ call = << "root", k >>
  BY <1>1 DEF BInit
<1>3. MemoryInv
  <2>1. used = Cardinality(RootTaken(k)) /\ dirty = RootTaken(k)
    BY <1>1 DEF BInit, BufferFilled
  <2> QED BY <1>2, <2>1, RootMemory DEF MemoryInv
<1>4. BInv
  BY <1>1, <1>2, <1>3, FreshMessage DEF BInv
<1>5. /\ [f \in Fields(kind) |-> Shown(List(f))] = ValueOf(k, root)
      /\ [f \in DOMAIN orphans |-> Shown(orphans[f])] = HeldOf(orphans)
  BY <1>1 DEF ValueOf, HeldOf, List
<1>6. Abstract!InitMessage(k)
  BY <1>1, <1>2, <1>5, FreshMessage DEF Abstract!InitMessage
<1>7. k \in Abstract!Roots
  BY <1>2 DEF Abstract!Roots, Roots
<1> QED BY <1>2, <1>4, <1>6, <1>7 DEF Abstract!SchemaInit

(* and the next one, for which the buffer is as good as new. *)
LEMMA NextMessageFollows ==
  ASSUME BInv, NEW k, k \in Roots, NextMessage(k)
  PROVE  BInv' /\ Abstract!Root(k)
<1>1. kind' = k /\ root' = Blank(k, 0) /\ orphans' = NoOrphans /\ call' = << "root", k >>
  BY DEF NextMessage
<1>2. MemoryInv'
  <2>1. used' = Cardinality(RootTaken(k)) /\ dirty' = (dirty \ (0 .. used - 1)) \cup RootTaken(k)
    BY DEF NextMessage
  <2>2. dirty' = RootTaken(k)
    BY <2>1 DEF BInv, MemoryInv
  <2> QED BY <2>1, <2>2, RootMemory DEF MemoryInv
<1>3. BInv'
  BY <1>1, <1>2, FreshMessage DEF BInv
<1>4. /\ ValueOf(kind', root') = [f \in DOMAIN Abstract!Schema[k] |-> << >>]
      /\ HeldOf(orphans') = Abstract!NothingHeld
  BY <1>1, FreshMessage
<1>5. Abstract!Root(k)
  BY <1>1, <1>4, ValueNext DEF Abstract!Root, Abstract!InitMessage
<1> QED BY <1>3, <1>5

-----------------------------------------------------------------------------
(* Every step is one of the schema's, or changes nothing that is shown. *)
LEMMA StepFollows ==
  ASSUME BInv, [BNext]_bvars
  PROVE  BInv' /\ [Abstract!SchemaNext]_(Abstract!svars)
<1>1. Typed /\ Abstract!Slots = Slots /\ Abstract!Roots = Roots
  BY SlotsAgree DEF BInv, Typed, Abstract!Roots, Roots
<1>2. CASE \E k \in Roots : NextMessage(k)
  BY <1>1, <1>2, NextMessageFollows DEF Abstract!SchemaNext
<1>3. ASSUME NEW slot \in Slots, NEW n \in 0 .. MAX_LENGTH, InitSlot(slot, n)
      PROVE  BInv' /\ Abstract!SchemaNext
  BY <1>1, <1>3, InitFollows DEF Abstract!SchemaNext
<1>4. ASSUME NEW slot \in Slots, Disown(slot)
      PROVE  BInv' /\ Abstract!SchemaNext
  BY <1>1, <1>4, DisownFollows DEF Abstract!SchemaNext
<1>5. ASSUME NEW slot \in Slots, Adopt(slot)
      PROVE  BInv' /\ Abstract!SchemaNext
  BY <1>1, <1>5, AdoptFollows DEF Abstract!SchemaNext
<1>6. ASSUME NEW slot \in Slots, SetSlot(slot)
      PROVE  BInv' /\ Abstract!SchemaNext
  BY <1>1, <1>6, SetFollows DEF Abstract!SchemaNext
<1>7. ASSUME NEW f \in Fields(kind), NEW i \in DOMAIN Items(List(f)), NEW part \in Parts(Of(f)),
             NEW v \in Numbers, Put(f, i, part, v)
      PROVE  BInv' /\ Abstract!SchemaNext
  <2>1. BInv' /\ Abstract!Put(f, i, part)
    BY <1>7, PutFollows, BuilderAssumption
  <2>2. i \in DOMAIN Abstract!ItemsOf(f) /\ part \in Abstract!Parts(f)
    BY <1>1, SlotsAgree, PartsAgree
  <2>3. f \in DOMAIN [g \in Fields(kind) |-> Shown(List(g))]
    OBVIOUS
  <2> QED BY <2>1, <2>2, <2>3 DEF Abstract!SchemaNext
<1>8. CASE UNCHANGED bvars
  <2>1. BInv'
    BY <1>8 DEF BInv, bvars, MemoryInv
  <2>2. UNCHANGED Abstract!svars
    BY <1>8 DEF bvars, Abstract!svars, List, Fields, Shown, ShownItem, ShownText
  <2> QED BY <2>1, <2>2
<1> QED BY <1>2, <1>3, <1>4, <1>5, <1>6, <1>7, <1>8 DEF BNext

(***************************************************************************)
(* The generated builders implement the schema: in any sequence of calls   *)
(* and messages each call changes what it names and nothing else, numbers  *)
(* are cut to their type, and new lists have default values although the   *)
(* memory they lie in was used before and is not initialised.              *)
(***************************************************************************)
THEOREM BuilderImplementsSchema == BSpec => ImplementsSchema
<1>1. BInit => BInv /\ Abstract!SchemaInit
  BY StartFollows
<1>2. BInv /\ [BNext]_bvars => BInv' /\ [Abstract!SchemaNext]_(Abstract!svars)
  BY StepFollows
<1> QED BY <1>1, <1>2, PTL DEF BSpec, ImplementsSchema, Abstract!SchemaSpec

==============================================================================
