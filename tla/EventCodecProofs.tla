---------------------------- MODULE EventCodecProofs ----------------------------
(***************************************************************************)
(* Proofs about what the messages carry, for every setup, multiplicity and *)
(* size of a byte: hits come back to their own detectors and stay inside   *)
(* of their list, a header tells the setup, and it is refused where an     *)
(* event is expected.                                                      *)
(***************************************************************************)
EXTENDS EventCodec, CapnLayoutProofs, FiniteSetTheorems

-----------------------------------------------------------------------------
(* Behind the pointer of a root's list is that list. *)
LEMMA MessageAt ==
  ASSUME NEW type \in {"Header", "PackedEvent"}, NEW items, DOMAIN items = DOMAIN Layout[type].lists,
         NEW g \in DOMAIN items
  PROVE  Message(type, items).pointers[Layout[type].lists[g].slot] =
           << [of |-> Layout[type].lists[g].of, items |-> items[g]] >>
<1>1. PICK lists, slot : lists = Layout[type].lists /\ slot = lists[g].slot
  OBVIOUS
<1>2. /\ slot \in 0 .. 2
      /\ \A f \in DOMAIN lists : lists[f].slot = slot <=> f = g
      /\ Layout[type].pointers = 3 /\ type \notin DOMAIN Width
  <2>1. CASE type = "Header"
    <3>1. lists = HeaderLayout.lists
      BY <1>1, <2>1 DEF Layout
    <3>2. /\ DOMAIN lists = {"doubles", "singles", "signals"}
          /\ lists["doubles"].slot = 0 /\ lists["singles"].slot = 1 /\ lists["signals"].slot = 2
      BY <3>1 DEF HeaderLayout, Pointer
    <3>3. Layout[type].pointers = 3 /\ type \notin DOMAIN Width
      BY <2>1 DEF Layout, HeaderLayout, Width
    <3> QED BY <1>1, <3>2, <3>3
  <2>2. CASE type = "PackedEvent"
    <3>1. lists = PackedEventLayout.lists
      BY <1>1, <2>2 DEF Layout
    <3>2. /\ DOMAIN lists = {"mul", "data", "signal"}
          /\ lists["mul"].slot = 0 /\ lists["data"].slot = 1 /\ lists["signal"].slot = 2
      BY <3>1 DEF PackedEventLayout, Pointer
    <3>3. Layout[type].pointers = 3 /\ type \notin DOMAIN Width
      BY <2>2 DEF Layout, PackedEventLayout, Width
    <3> QED BY <1>1, <3>2, <3>3
  <2> QED BY <2>1, <2>2
<1>3. (CHOOSE f \in DOMAIN items : lists[f].slot = slot) = g
  BY <1>1, <1>2
<1>4. PICK blank : blank = Blank(type, 0)
  OBVIOUS
<1>5. DOMAIN blank.pointers = 0 .. 2 /\ "pointers" \in DOMAIN blank
  BY <1>2, <1>4 DEF Blank
<1>6. Message(type, items).pointers =
        [p \in 0 .. 2 |->
           LET f == CHOOSE h \in DOMAIN items : lists[h].slot = p
           IN << [of |-> lists[f].of, items |-> items[f]] >>]
  BY <1>1, <1>4, <1>5 DEF Message
<1> DEFINE chosen == CHOOSE f \in DOMAIN items : lists[f].slot = slot
<1>7. Message(type, items).pointers[slot] = << [of |-> lists[chosen].of, items |-> items[chosen]] >>
  BY <1>2, <1>6
<1> HIDE DEF chosen
<1>8. chosen = g
  BY <1>3 DEF chosen
<1> QED BY <1>1, <1>7, <1>8

(* A getter of the event's throws when it is asked of a header: a signal's struct has no data. *)
LEMMA HeaderIsRefused ==
  ASSUME NEW setup
  PROVE  GetterThrows(BuildHeader(setup))
<1>1. PICK a, b, c : BuildHeader(setup) = Message("Header", [doubles |-> a, singles |-> b, signals |-> c])
  BY Zenon DEF BuildHeader
<1>2. PICK items : items = [doubles |-> a, singles |-> b, signals |-> c]
  OBVIOUS
<1>3. /\ DOMAIN items = DOMAIN Layout["Header"].lists /\ "signals" \in DOMAIN items
      /\ Layout["Header"].lists["signals"].slot = 2 /\ Layout["Header"].lists["signals"].of = "Signal"
  BY <1>2 DEF Layout, HeaderLayout, Pointer
<1>4. BuildHeader(setup).pointers[2] = << [of |-> "Signal", items |-> items["signals"]] >>
  BY <1>1, <1>2, <1>3, MessageAt
<1>5. PointerTo(BuildHeader(setup), "signal") = << [of |-> "Signal", items |-> items["signals"]] >>
  BY <1>4 DEF PointerTo, PackedEventLayout, Pointer
<1>6. Refused(<< [of |-> "Signal", items |-> items["signals"]] >>, "UInt32")
  BY DEF Refused, Width, Layout, SignalLayout
<1> QED BY <1>5, <1>6 DEF GetterThrows, PackedEventLayout, Pointer

(* What is behind a list's pointer. *)
LEMMA ItemsAre ==
  ASSUME NEW of, NEW items
  PROVE  Items(<< [of |-> of, items |-> items] >>) = items
  BY DEF Items

(* A struct with a name, *)
LEMMA NamedIs ==
  ASSUME NEW of \in {"DoubleSided", "SingleSided", "Signal"}, NEW name
  PROVE  /\ of # "Signal" => IsStruct(Named(of, name), 8)
         /\ Items(Named(of, name).pointers[0]) = name
<1>1. /\ of \in DOMAIN Layout /\ Layout[of].pointers = 1 /\ Layout[of].lists.name.slot = 0
      /\ of # "Signal" => Layout[of].words = 1
  BY DEF Layout, DoubleSidedLayout, SingleSidedLayout, SignalLayout, Pointer
<1>2. PICK blank : blank = Blank(of, 0)
  OBVIOUS
<1>3. /\ blank.pointers = [p \in 0 .. 0 |-> << >>] /\ {"data", "pointers"} \subseteq DOMAIN blank
      /\ of # "Signal" => blank.data \in [1 .. 8 -> Nat]
  <2>1. /\ blank.pointers = [p \in 0 .. Layout[of].pointers - 1 |-> << >>]
        /\ {"data", "pointers"} \subseteq DOMAIN blank
        /\ of # "Signal" => IsStruct(blank, 8)
    BY <1>1, <1>2, BlankIs
  <2>2. Layout[of].pointers - 1 = 0
    BY <1>1
  <2> QED BY <2>1, <2>2 DEF IsStruct
<1>4. Named(of, name) = [blank EXCEPT !.pointers[0] = << [of |-> "Char", items |-> name] >>]
  BY <1>1, <1>2 DEF Named
<1>5. /\ Named(of, name).data = blank.data
      /\ Named(of, name).pointers[0] = << [of |-> "Char", items |-> name] >>
      /\ {"data", "pointers"} \subseteq DOMAIN Named(of, name)
  BY <1>3, <1>4
<1> QED BY <1>3, <1>5, ItemsAre DEF IsStruct

(* what the header says of a double-sided detector, *)
LEMMA DoubleIs ==
  ASSUME NEW d, d.front \in Nat, d.back \in Nat
  PROVE  /\ Items(DoubleItem(d).pointers[0]) = d.name
         /\ GetData(DoubleItem(d), DoubleSidedLayout.data.frontStrips) = d.front % Values(2)
         /\ GetData(DoubleItem(d), DoubleSidedLayout.data.backStrips) = d.back % Values(2)
<1>1. PICK front, back : /\ front = DoubleSidedLayout.data.frontStrips
                         /\ back = DoubleSidedLayout.data.backStrips
  OBVIOUS
<1>2. /\ front.from = 0 /\ front.size = 2 /\ back.from = 2 /\ back.size = 2
      /\ front = Layout["DoubleSided"].data["frontStrips"]
      /\ back = Layout["DoubleSided"].data["backStrips"]
      /\ "DoubleSided" \notin DOMAIN Width
  BY <1>1 DEF DoubleSidedLayout, Field, Layout, Width
<1>3. LiesIn(front, 8) /\ LiesIn(back, 8) /\ Apart(front, back)
  BY <1>2 DEF LiesIn, Apart
<1>4. PICK named, backed, full : /\ named = Named("DoubleSided", d.name)
                                 /\ backed = SetData(named, back, d.back)
                                 /\ full = SetData(backed, front, d.front)
  OBVIOUS
<1>5. DoubleItem(d) = full
  BY <1>2, <1>4 DEF DoubleItem, SetItem
<1>6. IsStruct(named, 8) /\ Items(named.pointers[0]) = d.name
  BY <1>4, NamedIs
<1>7. IsStruct(backed, 8) /\ backed.pointers = named.pointers /\ Holds(backed, back, d.back)
  BY <1>3, <1>4, <1>6, SetHolds
<1>8. /\ IsStruct(full, 8) /\ full.pointers = backed.pointers
      /\ Holds(full, front, d.front) /\ Holds(full, back, d.back)
  BY <1>3, <1>4, <1>7, SetHolds
<1>9. /\ GetData(full, front) = d.front % Values(front.size)
      /\ GetData(full, back) = d.back % Values(back.size)
  BY <1>3, <1>8, HeldIsRead
<1> QED BY <1>1, <1>2, <1>5, <1>6, <1>7, <1>8, <1>9

(* and of a single-sided one. *)
LEMMA SingleIs ==
  ASSUME NEW d, d.strips \in Nat
  PROVE  /\ Items(SingleItem(d).pointers[0]) = d.name
         /\ GetData(SingleItem(d), SingleSidedLayout.data.strips) = d.strips % Values(2)
<1>1. PICK strips : strips = SingleSidedLayout.data.strips
  OBVIOUS
<1>2. /\ strips.from = 0 /\ strips.size = 2
      /\ strips = Layout["SingleSided"].data["strips"]
      /\ "SingleSided" \notin DOMAIN Width
  BY <1>1 DEF SingleSidedLayout, Field, Layout, Width
<1>3. LiesIn(strips, 8)
  BY <1>2 DEF LiesIn
<1>4. PICK named, full : /\ named = Named("SingleSided", d.name)
                         /\ full = SetData(named, strips, d.strips)
  OBVIOUS
<1>5. SingleItem(d) = full
  BY <1>2, <1>4 DEF SingleItem, SetItem
<1>6. IsStruct(named, 8) /\ Items(named.pointers[0]) = d.name
  BY <1>4, NamedIs
<1>7. IsStruct(full, 8) /\ full.pointers = named.pointers /\ Holds(full, strips, d.strips)
  BY <1>3, <1>4, <1>6, SetHolds
<1>8. GetData(full, strips) = d.strips % Values(strips.size)
  BY <1>3, <1>7, HeldIsRead
<1> QED BY <1>1, <1>2, <1>5, <1>6, <1>7, <1>8
(***************************************************************************)
(* What the getters show of a header is the setup it was built of, with    *)
(* the strips as far as 16 bits hold them.                                 *)
(***************************************************************************)
LEMMA HeaderShows ==
  ASSUME NEW setup \in Setups
  PROVE  ReadHeader(BuildHeader(setup)) = InTheFile(setup)
<1>1. PICK doubles, singles, signals : doubles = setup.doubles /\ singles = setup.singles /\ signals = setup.signals
  OBVIOUS
<1>2. /\ setup = [doubles |-> doubles, singles |-> singles, signals |-> signals]
      /\ doubles \in Seq([name : Name, front : Nat, back : Nat])
      /\ singles \in Seq([name : Name, strips : Nat])
      /\ signals \in Seq(Name)
  BY <1>1, CodecAssumption
<1>3. PICK message, a, b, c :
        /\ message = BuildHeader(setup)
        /\ a = [i \in DOMAIN doubles |-> DoubleItem(doubles[i])]
        /\ b = [i \in DOMAIN singles |-> SingleItem(singles[i])]
        /\ c = [i \in DOMAIN signals |-> Named("Signal", signals[i])]
  OBVIOUS
<1>4. message = Message("Header", [doubles |-> a, singles |-> b, signals |-> c])
  BY <1>1, <1>3, Zenon DEF BuildHeader
<1>5. PICK items : items = [doubles |-> a, singles |-> b, signals |-> c]
  OBVIOUS
<1>6. /\ DOMAIN items = DOMAIN Layout["Header"].lists
      /\ DOMAIN items = {"doubles", "singles", "signals"}
      /\ Layout["Header"].lists = HeaderLayout.lists
  BY <1>5 DEF Layout, HeaderLayout
<1>7. \A g \in DOMAIN items : Items(message.pointers[HeaderLayout.lists[g].slot]) = items[g]
  <2> SUFFICES ASSUME NEW g \in DOMAIN items
               PROVE  Items(message.pointers[HeaderLayout.lists[g].slot]) = items[g]
    OBVIOUS
  <2>1. message = Message("Header", items)
    BY <1>4, <1>5
  <2>2. message.pointers[Layout["Header"].lists[g].slot] =
          << [of |-> Layout["Header"].lists[g].of, items |-> items[g]] >>
    BY <1>6, <2>1, MessageAt
  <2> QED BY <1>6, <2>2, ItemsAre
<1>8. /\ Items(message.pointers[HeaderLayout.lists["doubles"].slot]) = a
      /\ Items(message.pointers[HeaderLayout.lists["singles"].slot]) = b
      /\ Items(message.pointers[HeaderLayout.lists["signals"].slot]) = c
  BY <1>5, <1>6, <1>7
<1> DEFINE DoubleShown(i) == [name |-> Items(a[i].pointers[0]),
                        front |-> GetData(a[i], DoubleSidedLayout.data.frontStrips),
                        back |-> GetData(a[i], DoubleSidedLayout.data.backStrips)]
           SingleShown(i) == [name |-> Items(b[i].pointers[0]),
                         strips |-> GetData(b[i], SingleSidedLayout.data.strips)]
<1>9. ReadHeader(message) =
        [doubles |-> [i \in DOMAIN a |-> DoubleShown(i)],
         singles |-> [i \in DOMAIN b |-> SingleShown(i)],
         signals |-> [i \in DOMAIN c |-> Items(c[i].pointers[0])]]
  BY <1>8 DEF ReadHeader
<1>10. ASSUME NEW i \in DOMAIN doubles
       PROVE  DoubleShown(i) = [name |-> doubles[i].name, front |-> doubles[i].front % Values(2),
                          back |-> doubles[i].back % Values(2)]
  <2>1. doubles[i] \in [name : Name, front : Nat, back : Nat]
    BY <1>2, ElementOfSeq, LenProperties
  <2>2. a[i] = DoubleItem(doubles[i]) /\ doubles[i].front \in Nat /\ doubles[i].back \in Nat
    BY <1>3, <2>1
  <2> QED BY <2>2, DoubleIs
<1>11. ASSUME NEW i \in DOMAIN singles
       PROVE  SingleShown(i) = [name |-> singles[i].name, strips |-> singles[i].strips % Values(2)]
  <2>1. singles[i] \in [name : Name, strips : Nat]
    BY <1>2, ElementOfSeq, LenProperties
  <2>2. b[i] = SingleItem(singles[i]) /\ singles[i].strips \in Nat
    BY <1>3, <2>1
  <2> QED BY <2>2, SingleIs
<1>12. ASSUME NEW i \in DOMAIN signals
       PROVE  Items(c[i].pointers[0]) = signals[i]
  BY <1>3, NamedIs
<1>13. DOMAIN a = DOMAIN doubles /\ DOMAIN b = DOMAIN singles /\ DOMAIN c = DOMAIN signals
  BY <1>3
<1> HIDE DEF DoubleShown, SingleShown
<1>14. [i \in DOMAIN a |-> DoubleShown(i)] =
         [i \in DOMAIN doubles |-> [name |-> doubles[i].name, front |-> doubles[i].front % Values(2),
                                    back |-> doubles[i].back % Values(2)]]
  BY <1>10, <1>13
<1>15. [i \in DOMAIN b |-> SingleShown(i)] =
         [i \in DOMAIN singles |-> [name |-> singles[i].name, strips |-> singles[i].strips % Values(2)]]
  BY <1>11, <1>13
<1>16. [i \in DOMAIN c |-> Items(c[i].pointers[0])] = signals
  <2>1. signals = [i \in DOMAIN signals |-> signals[i]]
    BY <1>2
  <2> QED BY <1>12, <1>13, <2>1
<1> QED BY <1>1, <1>3, <1>9, <1>14, <1>15, <1>16 DEF InTheFile

-----------------------------------------------------------------------------
(* A setup has a number of detectors, and each detector one side or two. *)
LEMMA DetectorsAre ==
  ASSUME NEW setup \in Setups
  PROVE  \E n \in Nat : /\ Detectors(setup) = 1 .. n /\ Cardinality(Detectors(setup)) = n
                        /\ \A d \in 1 .. n : Len(Sides(setup, d)) \in {1, 2}
<1>1. Len(setup.doubles) \in Nat /\ Len(setup.singles) \in Nat
  BY CodecAssumption, LenProperties
<1>2. PICK a, b, n : a = Len(setup.doubles) /\ b = Len(setup.singles) /\ n = a + b
  OBVIOUS
<1>3. n \in Nat /\ Detectors(setup) = 1 .. n
  <2>1. Detectors(setup) = 1 .. a + b
    BY <1>2, Zenon DEF Detectors
  <2>2. a \in Nat /\ b \in Nat
    BY <1>1, <1>2, Zenon
  <2>3. n = a + b
    BY <1>2, Zenon
  <2>4. n \in Nat
    BY ONLY <2>2, <2>3
  <2> QED BY <2>1, <2>3, <2>4, Zenon
<1>4. Cardinality(1 .. n) = n
  BY <1>3, FS_Interval
<1>5. \A d \in 1 .. n : Len(Sides(setup, d)) \in {1, 2}
  BY DEF Sides
<1> QED BY <1>3, <1>4, <1>5

(* A loop that runs to the multiplicity in the list runs no further than to the real one. *)
LEMMA CutIsLess ==
  ASSUME NEW m \in Nat
  PROVE  m % BYTE \in Nat /\ m % BYTE <= m
  BY LayoutAssumption

(* A hit whose energy a Float32 holds. *)
HitType == [time : Nat, energy : {e \in Nat : Float(e) < Values(4)}, segment : Nat]

(* An event as the writer's detectors give it. *)
IsOutput(out) ==
  /\ out.mul \in [Detectors(writer) -> Multiplicities]
  /\ Len(out.signal) = Len(writer.signals)
  /\ \A d \in Detectors(writer) : out.hit[d] \in [Hits -> HitType]

(* A hit that is packed and read again. *)
LEMMA HitReadsBack ==
  ASSUME NEW hit \in HitType
  PROVE  ReadHit(Packed(hit)) = Narrowed(hit)
<1>1. PICK time, energy, strip : /\ time = DataLayout.data.time
                                 /\ energy = DataLayout.data.energy
                                 /\ strip = DataLayout.data.strip
  OBVIOUS
<1>2. /\ energy.from = 0 /\ energy.size = 4 /\ strip.from = 4 /\ strip.size = 1
      /\ time.from = 6 /\ time.size = 2
      /\ time = Layout["Data"].data["time"] /\ energy = Layout["Data"].data["energy"]
      /\ strip = Layout["Data"].data["strip"] /\ "Data" \notin DOMAIN Width
  BY <1>1 DEF DataLayout, Field, Layout, Width
<1>3. /\ LiesIn(time, 8) /\ LiesIn(energy, 8) /\ LiesIn(strip, 8)
      /\ Apart(energy, time) /\ Apart(strip, time) /\ Apart(strip, energy)
  BY <1>2 DEF LiesIn, Apart
<1>4. PICK t, e, g, blank : /\ t = hit.time /\ e = Float(hit.energy) /\ g = hit.segment
                            /\ blank = Blank("Data", 0)
  OBVIOUS
<1>5. /\ t \in Nat /\ g \in Nat /\ hit.energy \in Nat /\ e \in Nat /\ e < Values(4)
      /\ GRAIN \in Nat \ {0}
  <2>1. GRAIN \in Nat \ {0}
    BY CodecAssumption
  <2>2. hit.time \in Nat /\ hit.segment \in Nat /\ hit.energy \in Nat /\ Float(hit.energy) < Values(4)
    BY DEF HitType
  <2>3. hit.energy \div GRAIN \in Nat
    BY <2>1, <2>2, DivMod
  <2> QED BY <1>4, <2>1, <2>2, <2>3 DEF Float
<1>6. IsStruct(blank, 8)
  <2>1. "Data" \in DOMAIN Layout /\ Layout["Data"].words = 1
    BY DEF Layout, DataLayout
  <2> QED BY <1>4, <2>1, BlankIs
<1>7. PICK timed, full, all : /\ timed = SetData(blank, time, t)
                              /\ full = SetData(timed, energy, e)
                              /\ all = SetData(full, strip, g)
  OBVIOUS
<1>8. Packed(hit) = all
  BY <1>2, <1>4, <1>7 DEF Packed, SetItem
<1>9. IsStruct(timed, 8) /\ Holds(timed, time, t)
  BY <1>3, <1>5, <1>6, <1>7, SetHolds
<1>10. IsStruct(full, 8) /\ Holds(full, time, t) /\ Holds(full, energy, e)
  BY <1>3, <1>5, <1>7, <1>9, SetHolds
<1>11. IsStruct(all, 8) /\ Holds(all, time, t) /\ Holds(all, energy, e) /\ Holds(all, strip, g)
  BY <1>3, <1>5, <1>7, <1>10, SetHolds
<1>12. /\ GetData(all, time) = t % Values(2)
       /\ GetData(all, energy) = e % Values(4)
       /\ GetData(all, strip) = g % Values(1)
  BY <1>2, <1>3, <1>5, <1>11, HeldIsRead
<1>13. e % Values(4) = e
  <2>1. PICK m : m = Values(4)
    OBVIOUS
  <2>2. m \in Nat \ {0} /\ e < m
    BY <1>5, <2>1, ValuesAre
  <2>3. e = m * 0 + e
    BY <1>5, <2>2
  <2>4. e % m = e
    BY ONLY <1>5, <2>2, <2>3, DivUnique
  <2> QED BY <2>1, <2>4
<1>14. Double(e) = hit.energy - (hit.energy % GRAIN)
  <2>1. PICK x, b, r : x = hit.energy /\ b = GRAIN /\ r = hit.energy % GRAIN
    OBVIOUS
  <2>2. x = b * e + r /\ r \in Nat
    BY <1>4, <1>5, <2>1, DivMod DEF Float
  <2>3. b * e \in Nat
    BY <1>5, <2>1
  <2>4. b * e = x - r
    BY <1>5, <2>1, <2>2, <2>3
  <2> QED BY <2>1, <2>4 DEF Double
<1>15. Values(1) = BYTE
  BY DEF Values
<1> QED BY <1>1, <1>4, <1>8, <1>12, <1>13, <1>14, <1>15 DEF ReadHit, Narrowed

(* The block of a detector with w sides and v hits a side: each hit in its place. *)
HasHits(block, out, d, w, v) ==
  /\ w \in {1, 2} /\ v \in Nat /\ v = out.mul[d] % BYTE /\ v <= out.mul[d]
  /\ w * v \in Nat /\ w * v <= w * out.mul[d]
  /\ DOMAIN block = 1 .. w * v
  /\ \A slot \in Nat, side \in {"front", "back"} :
       slot < v /\ Place(side) <= w =>
         /\ w * slot + Place(side) \in 1 .. w * v
         /\ block[w * slot + Place(side)] = Packed(out.hit[d][<< slot, side >>])

(* The hits of a detector as they are written. *)
LEMMA BlockIs ==
  ASSUME NEW setup \in Setups, NEW out, out.mul \in [Detectors(setup) -> Multiplicities],
         NEW d \in Detectors(setup), NEW w, w = Len(Sides(setup, d)),
         NEW v, v = MulList(out)[d], NEW block, block = Block(setup, out, d)
  PROVE  HasHits(block, out, d, w, v)
<1>1. w \in {1, 2}
  BY DEF Sides
<1>2. v = out.mul[d] % BYTE
  BY DEF MulList, SetItem, Width, Values
<1>3. PICK m : m = out.mul[d]
  OBVIOUS
<1>4. m \in Nat /\ v \in Nat /\ v <= m
  BY <1>2, <1>3, CodecAssumption, CutIsLess
<1>5. w * v \in Nat /\ w * v <= w * m
  BY ONLY <1>1, <1>4
<1>6. block = [k \in 1 .. w * v |->
                 Packed(out.hit[d][<< (k - 1) \div w, Sides(setup, d)[((k - 1) % w) + 1] >>])]
  BY DEF Block, HitsWritten
<1>7. ASSUME NEW slot \in Nat, NEW side \in {"front", "back"}, slot < v, Place(side) <= w
      PROVE  /\ w * slot + Place(side) \in 1 .. w * v
             /\ block[w * slot + Place(side)] = Packed(out.hit[d][<< slot, side >>])
  <2>1. PICK p, k : p = Place(side) /\ k = w * slot + Place(side)
    OBVIOUS
  <2>2. p \in 1 .. w
    BY <1>1, <1>7, <2>1 DEF Place
  <2>3. k = w * slot + p /\ slot < v /\ slot \in Nat
    BY <1>7, <2>1
  <2>4. k \in 1 .. w * v /\ (k - 1) \div w = slot /\ (k - 1) % w = p - 1
    <3>1. w * slot + w <= w * v /\ w * slot \in Nat
      BY ONLY <1>1, <1>4, <2>3
    <3>2. k \in 1 .. w * v
      BY ONLY <1>1, <1>5, <2>2, <2>3, <3>1
    <3>3. k - 1 \in Nat /\ k - 1 = w * slot + (p - 1) /\ p - 1 \in Nat /\ p - 1 < w /\ w \in Nat \ {0}
      BY ONLY <1>1, <2>2, <2>3, <3>1
    <3>4. (k - 1) \div w = slot /\ (k - 1) % w = p - 1
      BY ONLY <2>3, <3>3, DivUnique
    <3> QED BY <3>2, <3>4
  <2>5. (p - 1) + 1 = p
    BY <1>1, <2>2
  <2>6. Sides(setup, d)[p] = side
    BY <1>1, <1>7, <2>1 DEF Sides, Place
  <2>7. block[k] = Packed(out.hit[d][<< slot, side >>])
    BY <1>6, <2>4, <2>5, <2>6
  <2> QED BY <2>1, <2>4, <2>7
<1> QED BY <1>1, <1>2, <1>3, <1>4, <1>5, <1>6, <1>7 DEF HasHits

(* The getters show the lists of an event as they were built, and none of them throws. *)
LEMMA EventIsRead ==
  ASSUME NEW out, NEW message, message = BuildEvent(writer, out)
  PROVE  /\ ~GetterThrows(message)
         /\ Get(message, "mul") = MulList(out)
         /\ Get(message, "data") = DataList(writer, out)
         /\ Get(message, "signal") = out.signal
<1>1. PICK a, b, items : /\ a = MulList(out) /\ b = DataList(writer, out)
                         /\ items = [mul |-> a, data |-> b, signal |-> out.signal]
  OBVIOUS
<1>2. message = Message("PackedEvent", items)
  BY <1>1, Zenon DEF BuildEvent
<1>3. /\ DOMAIN items = DOMAIN Layout["PackedEvent"].lists
      /\ DOMAIN items = DOMAIN PackedEventLayout.lists
      /\ DOMAIN items = {"mul", "data", "signal"}
      /\ Layout["PackedEvent"].lists = PackedEventLayout.lists
  BY <1>1 DEF Layout, PackedEventLayout
<1>4. ASSUME NEW g \in DOMAIN items
      PROVE  Get(message, g) = items[g] /\ ~Refused(PointerTo(message, g), PackedEventLayout.lists[g].of)
  <2>1. PICK of : of = PackedEventLayout.lists[g].of
    OBVIOUS
  <2>2. message.pointers[Layout["PackedEvent"].lists[g].slot] =
          << [of |-> Layout["PackedEvent"].lists[g].of, items |-> items[g]] >>
    BY <1>2, <1>3, MessageAt
  <2>3. PointerTo(message, g) = << [of |-> of, items |-> items[g]] >>
    BY <1>3, <2>1, <2>2 DEF PointerTo
  <2>4. PICK pointer : pointer = PointerTo(message, g)
    OBVIOUS
  <2>5. pointer # << >> /\ pointer[1].of = of /\ pointer[1].items = items[g]
    BY <2>3, <2>4
  <2> QED BY <2>1, <2>4, <2>5 DEF Get, ReadAs, Refused
<1>5. ~GetterThrows(message)
  BY <1>3, <1>4 DEF GetterThrows
<1> QED BY <1>1, <1>3, <1>4, <1>5

(* The detectors' blocks of hits are sequences as long as the hits that the list says. *)
AreBlocks(s, setup, out) ==
  /\ \E T : s \in Seq(Seq(T))
  /\ DOMAIN s = 1 .. Len(s) /\ Detectors(setup) = 1 .. Len(s) /\ Len(s) \in Nat
  /\ Cardinality(Detectors(setup)) = Len(s)
  /\ Entries(setup, out) = FlattenSeq(s)
  /\ \A d \in 1 .. Len(s) : Len(s[d]) = Len(Sides(setup, d)) * MulList(out)[d]

(* The blocks of an event, one for each detector. *)
LEMMA BlocksAre ==
  ASSUME NEW setup \in Setups, NEW out, out.mul \in [Detectors(setup) -> Multiplicities],
         NEW s, s = [d \in Detectors(setup) |-> Block(setup, out, d)]
  PROVE  AreBlocks(s, setup, out)
<1>1. PICK n \in Nat : Detectors(setup) = 1 .. n /\ Cardinality(Detectors(setup)) = n
  BY DetectorsAre
<1> DEFINE T == {s[d][k] : d \in 1 .. n, k \in Nat}
<1>2. ASSUME NEW d \in 1 .. n
      PROVE  s[d] \in Seq(T) /\ Len(s[d]) = Len(Sides(setup, d)) * MulList(out)[d]
  <2>1. PICK w, v, m : w = Len(Sides(setup, d)) /\ v = MulList(out)[d] /\ m = w * v
    OBVIOUS
  <2>2. s[d] = Block(setup, out, d) /\ d \in Detectors(setup)
    BY <1>1
  <2>3. m \in Nat /\ DOMAIN s[d] = 1 .. m
    BY <2>1, <2>2, BlockIs DEF HasHits
  <2>4. s[d] = [k \in 1 .. m |-> s[d][k]]
    <3>1. Block(setup, out, d) = [k \in DOMAIN Block(setup, out, d) |-> Block(setup, out, d)[k]]
      BY DEF Block
    <3> QED BY <2>2, <2>3, <3>1
  <2>5. \A k \in 1 .. m : s[d][k] \in T
    BY <2>3
  <2> HIDE DEF T
  <2>6. PICK g : g = s[d]
    OBVIOUS
  <2>7. g = [k \in 1 .. m |-> g[k]]
    BY ONLY <2>4, <2>6, Zenon
  <2>8. \A k \in 1 .. m : g[k] \in T
    BY ONLY <2>5, <2>6, Zenon
  <2>9. g \in Seq(T) /\ Len(g) = m
    BY ONLY <2>3, <2>7, <2>8
  <2> QED BY <2>1, <2>6, <2>9
<1> HIDE DEF T
<1>3. s \in Seq(Seq(T)) /\ Len(s) = n
  BY <1>1, <1>2
<1> QED BY <1>1, <1>2, <1>3 DEF AreBlocks, Entries

(* The hits of an event fit the list that is made for them. *)
LEMMA HitsFit ==
  ASSUME NEW setup \in Setups, NEW out, out.mul \in [Detectors(setup) -> Multiplicities]
  PROVE  DataSize(setup, out) \in Nat /\ Len(Entries(setup, out)) <= DataSize(setup, out)
<1>1. PICK s, c, n : /\ s = [d \in Detectors(setup) |-> Block(setup, out, d)]
                     /\ c = HitCounts(setup, out.mul) /\ n = Len(s)
  OBVIOUS
<1>2. AreBlocks(s, setup, out)
  BY <1>1, BlocksAre
<1>3. PICK T : s \in Seq(Seq(T))
  BY <1>2 DEF AreBlocks
<1>4. /\ Detectors(setup) = 1 .. n /\ Cardinality(Detectors(setup)) = n
      /\ Entries(setup, out) = FlattenSeq(s)
      /\ \A d \in 1 .. n : Len(s[d]) = Len(Sides(setup, d)) * MulList(out)[d]
  BY ONLY <1>2, <1>1 DEF AreBlocks
<1>5. ASSUME NEW d \in 1 .. n
      PROVE  c[d] \in Nat /\ Len(s[d]) <= c[d]
  <2>1. PICK w, v, m, block : /\ w = Len(Sides(setup, d)) /\ v = MulList(out)[d] /\ m = out.mul[d]
                              /\ block = Block(setup, out, d)
    OBVIOUS
  <2>2. HasHits(block, out, d, w, v)
    BY <1>4, <2>1, BlockIs
  <2>3. w \in {1, 2} /\ w * v <= w * m /\ m \in Nat
    BY <1>4, <2>1, <2>2, CodecAssumption DEF HasHits
  <2>4. c[d] = w * m /\ Len(s[d]) = w * v
    BY <1>1, <1>4, <2>1 DEF HitCounts
  <2> QED BY <2>3, <2>4
<1>6. Total(c, Len(s)) \in Nat /\ Len(FlattenSeq(s)) <= Total(c, Len(s))
  BY <1>1, <1>3, <1>5, JoinedWithin
<1> QED BY <1>1, <1>4, <1>6 DEF DataSize

(* The setups of the writer and of a reader whose detectors are the first of the writer's. *)
SetupsAgree == writer \in Setups /\ reader \in Setups /\ Leads(reader, writer)

(* The reader finds in the lists what the writer put there, detector by detector. *)
CountsTo(mul, data, out) ==
  /\ InLists(mul, data, out.signal)
  /\ \A d \in Detectors(reader) :
       /\ d \in Detectors(writer) /\ mul[d] = out.mul[d] % BYTE /\ mul[d] <= out.mul[d]
       /\ \A slot \in Nat, side \in {"front", "back"} :
            slot < mul[d] /\ Place(side) <= Len(Sides(reader, d)) =>
              data[Count(mul, d) + Len(Sides(reader, d)) * slot + Place(side)] =
                Packed(out.hit[d][<< slot, side >>])

(***************************************************************************)
(* The reader's count comes to each detector where the writer's did, so    *)
(* that it stays inside the list and finds the detector's own hits.        *)
(***************************************************************************)
LEMMA CountsAgree ==
  ASSUME SetupsAgree, NEW out, IsOutput(out),
         NEW mul, mul = MulList(out), NEW data, data = DataList(writer, out)
  PROVE  CountsTo(mul, data, out)
<1>1. PICK s, n, c : /\ s = [d \in Detectors(writer) |-> Block(writer, out, d)]
                     /\ n = Len(s) /\ c = HitCounts(reader, mul)
  OBVIOUS
<1>2. AreBlocks(s, writer, out)
  BY <1>1, BlocksAre DEF SetupsAgree, IsOutput
<1>3. PICK T : s \in Seq(Seq(T))
  BY <1>2 DEF AreBlocks
<1>4. /\ DOMAIN s = 1 .. n /\ Detectors(writer) = 1 .. n /\ n \in Nat
      /\ Cardinality(Detectors(writer)) = n
      /\ Entries(writer, out) = FlattenSeq(s)
      /\ \A d \in 1 .. n : Len(s[d]) = Len(Sides(writer, d)) * mul[d]
  <2>1. mul = MulList(out)
    OBVIOUS
  <2> QED BY ONLY <1>2, <1>1, <2>1 DEF AreBlocks
<1>5. PICK m \in Nat : Detectors(reader) = 1 .. m /\ Cardinality(Detectors(reader)) = m
  BY DetectorsAre DEF SetupsAgree
<1>6. m <= n /\ m \in 0 .. n
  <2>1. 1 .. m \subseteq 1 .. n
    BY <1>4, <1>5 DEF SetupsAgree, Leads
  <2>2. m = 0 \/ m \in 1 .. n
    BY <1>5, <2>1
  <2> QED BY <1>4, <1>5, <2>2
<1>7. \A d \in 1 .. m : c[d] = Len(s[d]) /\ d \in 1 .. n /\ Sides(reader, d) = Sides(writer, d)
  <2>1. \A d \in 1 .. m : Sides(reader, d) = Sides(writer, d) /\ d \in 1 .. n
    BY <1>4, <1>5, <1>6 DEF SetupsAgree, Leads
  <2>2. \A d \in 1 .. m : c[d] = Len(Sides(reader, d)) * mul[d]
    BY <1>1, <1>5 DEF HitCounts
  <2> QED BY <1>4, <2>1, <2>2
<1>8. ASSUME NEW d \in 1 .. m + 1
      PROVE  Count(mul, d) = Start(s, d)
  <2>1. PICK k : k = d - 1
    OBVIOUS
  <2>2. k \in 0 .. n /\ k + 1 = d /\ \A i \in 1 .. k : i \in 1 .. m
    BY <1>4, <1>5, <1>6, <2>1
  <2>3. Total(c, k) = Start(s, k + 1)
    BY <1>1, <1>3, <1>7, <2>2, TotalIsStart
  <2> QED BY <1>1, <2>1, <2>2, <2>3 DEF Count
<1>9. PICK entries, size : entries = Entries(writer, out) /\ size = DataSize(writer, out)
  OBVIOUS
<1>10. size \in Nat /\ Len(entries) <= size /\ Len(entries) = Start(s, n + 1)
  <2>1. size \in Nat /\ Len(entries) <= size
    BY <1>9, HitsFit DEF SetupsAgree, IsOutput
  <2> QED BY <1>1, <1>3, <1>4, <1>9, <2>1, StartLast
<1>11. \A k \in 1 .. size : k <= Len(entries) => data[k] = entries[k]
  BY <1>9 DEF DataList
<1>12. InLists(mul, data, out.signal)
  <2>1. Len(mul) = n
    <3>1. mul = [d \in 1 .. n |-> SetItem("UInt8", 0, "value", out.mul[d])]
      BY <1>4 DEF MulList, IsOutput
    <3> QED BY <1>4, <3>1, LenProperties
  <2>2. Len(data) = size
    <3>1. data = [k \in 1 .. size |-> IF k <= Len(entries) THEN entries[k] ELSE Blank("Data", 0)]
      BY <1>9 DEF DataList
    <3> QED BY <1>10, <3>1, LenProperties
  <2>3. Start(s, m + 1) <= Start(s, n + 1) /\ Start(s, m + 1) \in Nat /\ Start(s, n + 1) \in Nat
    <3>1. m + 1 \in 1 .. n + 1 /\ n + 1 \in 1 .. n + 1 /\ m + 1 <= n + 1
      BY <1>4, <1>6
    <3> QED BY <1>1, <1>3, <3>1, StartMonotone
  <2>4. Count(mul, m + 1) = Start(s, m + 1)
    BY <1>5, <1>8
  <2>5. Len(out.signal) >= Len(reader.signals)
    BY DEF IsOutput, SetupsAgree, Leads
  <2> QED BY <1>4, <1>5, <1>6, <1>10, <2>1, <2>2, <2>3, <2>4, <2>5 DEF InLists
<1>13. ASSUME NEW d \in 1 .. m
       PROVE  /\ d \in Detectors(writer) /\ mul[d] = out.mul[d] % BYTE /\ mul[d] <= out.mul[d]
              /\ \A slot \in Nat, side \in {"front", "back"} :
                   slot < mul[d] /\ Place(side) <= Len(Sides(reader, d)) =>
                     data[Count(mul, d) + Len(Sides(reader, d)) * slot + Place(side)] =
                       Packed(out.hit[d][<< slot, side >>])
  <2>1. PICK w, v, block, first :
          /\ w = Len(Sides(writer, d)) /\ v = MulList(out)[d]
          /\ block = Block(writer, out, d) /\ first = Start(s, d)
    OBVIOUS
  <2>2. /\ d \in Detectors(writer) /\ s[d] = block /\ mul[d] = v /\ Len(Sides(reader, d)) = w
        /\ d \in 1 .. n /\ Count(mul, d) = first /\ Len(s[d]) = w * v
    <3>1. d \in 1 .. n /\ d \in 1 .. m + 1 /\ Sides(reader, d) = Sides(writer, d)
      BY <1>5, <1>7
    <3>2. Count(mul, d) = first
      BY <1>8, <2>1, <3>1
    <3>3. s[d] = block /\ d \in Detectors(writer)
      BY <1>1, <1>4, <2>1, <3>1
    <3>4. mul[d] = v /\ Len(Sides(reader, d)) = w
      BY <2>1, <3>1
    <3>5. Len(s[d]) = w * v
      BY <1>4, <2>1, <3>1, <3>4
    <3> QED BY <3>1, <3>2, <3>3, <3>4, <3>5
  <2>3. /\ w \in {1, 2} /\ v \in Nat /\ v = out.mul[d] % BYTE /\ v <= out.mul[d]
        /\ w * v \in Nat
        /\ \A slot \in Nat, side \in {"front", "back"} :
             slot < v /\ Place(side) <= w =>
               /\ w * slot + Place(side) \in 1 .. w * v
               /\ block[w * slot + Place(side)] = Packed(out.hit[d][<< slot, side >>])
    <3>1. writer \in Setups /\ out.mul \in [Detectors(writer) -> Multiplicities]
      BY DEF SetupsAgree, IsOutput
    <3>2. d \in Detectors(writer)
      BY <2>2
    <3>3. HasHits(block, out, d, w, v)
      BY <2>1, <3>1, <3>2, BlockIs
    <3> QED BY ONLY <3>3 DEF HasHits
  <2>4. /\ first \in Nat /\ Start(s, d + 1) \in Nat /\ Start(s, n + 1) \in Nat
        /\ Start(s, d + 1) = first + w * v /\ Start(s, d + 1) <= Start(s, n + 1)
    <3>1. d + 1 \in 1 .. n + 1 /\ n + 1 \in 1 .. n + 1 /\ d + 1 <= n + 1
      BY <1>4, <2>2
    <3>2. Start(s, d + 1) <= Start(s, n + 1) /\ Start(s, d + 1) \in Nat /\ Start(s, n + 1) \in Nat
      BY <1>1, <1>3, <3>1, StartMonotone
    <3>3. Start(s, d) \in Nat /\ Start(s, d + 1) = Start(s, d) + Len(s[d])
      BY <1>1, <1>3, <2>2, StartNext
    <3> QED BY <2>1, <2>2, <3>2, <3>3
  <2>5. ASSUME NEW slot \in Nat, NEW side \in {"front", "back"}, slot < v, Place(side) <= w
        PROVE  data[first + w * slot + Place(side)] = Packed(out.hit[d][<< slot, side >>])
    <3>1. PICK j : j = w * slot + Place(side)
      OBVIOUS
    <3>2. j \in 1 .. w * v /\ block[j] = Packed(out.hit[d][<< slot, side >>])
      BY <2>3, <2>5, <3>1
    <3>3. FlattenSeq(s)[first + j] = block[j]
      <4>1. j \in 1 .. Len(s[d]) /\ d \in 1 .. Len(s)
        BY <1>1, <2>2, <3>2
      <4> QED BY <1>3, <2>1, <2>2, <4>1, FlattenAt
    <3>4. PICK k : k = first + j
      OBVIOUS
    <3>5. k \in 1 .. size /\ k <= Len(entries)
      <4>1. PICK a, b, e, l : a = w * v /\ b = Start(s, n + 1) /\ e = Start(s, d + 1) /\ l = Len(entries)
        OBVIOUS
      <4>2. /\ j \in 1 .. a /\ a \in Nat /\ first \in Nat /\ e = first + a /\ e <= b /\ b \in Nat
            /\ e \in Nat /\ l = b /\ l <= size /\ size \in Nat
        BY <1>10, <2>3, <2>4, <3>2, <4>1
      <4>3. k \in 1 .. size /\ k <= l
        BY ONLY <3>4, <4>2
      <4> QED BY <4>1, <4>3
    <3>6. data[k] = entries[k] /\ entries = FlattenSeq(s)
      BY <1>4, <1>9, <1>11, <3>5
    <3>7. first + w * slot + Place(side) = k
      <4>1. PICK x, y : x = w * slot /\ y = Place(side)
        OBVIOUS
      <4>2. x \in Nat /\ y \in Nat /\ j = x + y
        BY <2>3, <3>1, <4>1 DEF Place
      <4>3. first + x + y = k
        BY ONLY <2>4, <3>4, <4>2
      <4> QED BY <4>1, <4>3
    <3> QED BY <3>2, <3>3, <3>4, <3>6, <3>7
  <2> QED BY <2>2, <2>3, <2>5
<1> QED BY <1>5, <1>12, <1>13 DEF CountsTo

-----------------------------------------------------------------------------
(* The energies that the detectors are given are those a Float32 holds. *)
LEMMA ReadingFits ==
  ASSUME writer \in Setups, NEW n \in 1 .. MAX_EVENTS, NEW d \in Detectors(writer), NEW x \in Hits
  PROVE  Reading(n, d, x) \in HitType
<1>1. MAX_MUL \in Nat
  BY CodecAssumption DEF MAX_MUL, Max
<1>2. PICK k \in Nat : Detectors(writer) = 1 .. k /\ Cardinality(Detectors(writer)) = k
  BY DetectorsAre
<1>3. PICK e, slot, p, m, g : /\ e = MAX_EVENTS /\ slot = x[1] /\ p = Place(x[2]) /\ m = MAX_MUL
                              /\ g = GRAIN
  OBVIOUS
<1>4. /\ e \in Nat /\ n \in 1 .. e /\ d \in 1 .. k /\ m \in Nat /\ slot \in 0 .. m - 1
      /\ p \in {1, 2} /\ g \in Nat \ {0}
  BY <1>1, <1>2, <1>3, CodecAssumption DEF Hits, Place
<1>5. PICK a, b, top : a = 2 * slot + p /\ b = 2 * m /\ top = k * (2 * m + 1)
  OBVIOUS
<1>6. a \in Nat /\ b \in Nat /\ a <= b
  BY ONLY <1>4, <1>5
<1>7. k * a \in Nat /\ k * b \in Nat /\ k * a <= k * b
  BY <1>6, ProductsKeepOrder
<1>8. top = k * b + k /\ top \in Nat
  <2>1. top = k * (b + 1)
    BY <1>5
  <2> QED BY ONLY <1>6, <2>1, k \in Nat
<1>9. PICK y : y = d + k * a
  OBVIOUS
<1>10. y \in Nat /\ y <= top
  BY ONLY <1>4, <1>7, <1>8, <1>9, k \in Nat
<1>11. e * y \in Nat /\ e * top \in Nat /\ e * y <= e * top
  BY <1>4, <1>8, <1>10, ProductsKeepOrder
<1>12. PICK v : v = n + e * y
  OBVIOUS
<1>13. v \in Nat /\ v <= e + e * top
  BY ONLY <1>4, <1>11, <1>12
<1>14. e + e * top = e * (1 + top)
  BY ONLY <1>4, <1>8
<1>15. v + 1 < Values(4)
  <2>1. 1 + e * (1 + top) < Values(4)
    BY <1>2, <1>3, <1>5, FloatAssumption
  <2>2. PICK z, l : z = e * (1 + top) /\ l = Values(4)
    OBVIOUS
  <2>3. z \in Nat /\ v <= z /\ 1 + z < l
    <3>1. e * (1 + top) \in Nat
      BY ONLY <1>4, <1>8
    <3> QED BY <1>13, <1>14, <2>1, <2>2, <3>1
  <2>4. l \in Nat
    BY <2>2, ValuesAre
  <2> QED BY ONLY <1>13, <2>2, <2>3, <2>4
<1>16. Reading(n, d, x) = [time |-> v, energy |-> g * v + 1, segment |-> v]
  BY <1>2, <1>3, <1>5, <1>9, <1>12 DEF Reading
<1>17. PICK q, en : en = g * v + 1 /\ q = Float(en)
  OBVIOUS
<1>18. en \in Nat
  BY <1>4, <1>13, <1>17
<1>19. q \in Nat /\ q <= v + 1
  <2>1. q = en \div g
    BY <1>3, <1>17 DEF Float
  <2>2. q \in Nat /\ en % g \in Nat /\ en = g * q + (en % g)
    BY <1>4, <1>18, <2>1, DivMod
  <2>3. PICK r : r = en % g
    OBVIOUS
  <2>4. en = g * q + r /\ r \in Nat /\ g * q \in Nat
    BY <1>4, <2>2, <2>3
  <2> SUFFICES ASSUME v + 1 < q PROVE FALSE
    BY <1>13, <2>2
  <2>5. g * (v + 1) \in Nat /\ g * (v + 1) + g <= g * q
    BY <1>4, <1>13, <2>2, ProductsInOrder
  <2>6. g * (v + 1) = g * v + g /\ g * v \in Nat
    BY ONLY <1>4, <1>13
  <2> QED BY ONLY <1>4, <1>13, <1>17, <2>4, <2>5, <2>6
<1>20. q < Values(4)
  <2>1. PICK l : l = Values(4)
    OBVIOUS
  <2>2. l \in Nat
    BY <2>1, ValuesAre
  <2> QED BY <1>13, <1>15, <1>19, <2>1, <2>2
<1> QED BY <1>13, <1>16, <1>17, <1>18, <1>20 DEF HitType

(* What the writer is given. *)
LEMMA EventIs ==
  ASSUME writer \in Setups, NEW n \in 1 .. MAX_EVENTS,
         NEW mul \in [Detectors(writer) -> Multiplicities]
  PROVE  IsOutput(Event(n, mul))
<1>1. Event(n, mul).mul = mul
  BY DEF Event
<1>2. Len(Event(n, mul).signal) = Len(writer.signals)
  <2>1. PICK signals : signals = writer.signals
    OBVIOUS
  <2>2. signals \in Seq(Name)
    BY <2>1, CodecAssumption
  <2>3. DOMAIN signals = 1 .. Len(signals) /\ Len(signals) \in Nat
    BY <2>2, LenProperties
  <2>4. Event(n, mul).signal = [s \in 1 .. Len(signals) |-> n + s]
    BY <2>1, <2>3 DEF Event
  <2> QED BY <2>1, <2>3, <2>4, LenProperties
<1>3. ASSUME NEW d \in Detectors(writer)
      PROVE  Event(n, mul).hit[d] \in [Hits -> HitType]
  <2>1. Event(n, mul).hit[d] = [x \in Hits |-> Reading(n, d, x)]
    BY DEF Event
  <2> QED BY <2>1, ReadingFits
<1> QED BY <1>1, <1>2, <1>3 DEF IsOutput

-----------------------------------------------------------------------------
(* The message that a call of the ProtoWriter is turned into. *)
MessageOf(note) == IF IsEvent(note) THEN BuildEvent(writer, note.event) ELSE BuildHeader(writer)

(* What it was called with. *)
Recorded(note) == IsEvent(note) => IsOutput(note.event)

(* Every call has led to its message, the first to a header, and run is no further than they are. *)
CodecInv ==
  /\ writer \in Setups /\ reader \in Setups
  /\ \E S : given \in Seq(S)
  /\ \E S : messages \in Seq(S)
  /\ Len(messages) = Len(given)
  /\ \A n \in 1 .. Len(given) : Recorded(given[n]) /\ messages[n] = MessageOf(given[n])
  /\ Len(given) > 0 => ~IsEvent(given[1])
  /\ taken \in 0 .. Len(messages)

(* Nothing has been given to a new writer. *)
LEMMA CodecStarts ==
  ASSUME CInit
  PROVE  CodecInv
<1>1. given = << >> /\ messages = << >> /\ taken = 0 /\ writer \in Setups /\ reader \in Setups
  BY DEF CInit
<1>2. << >> \in Seq({}) /\ Len(<< >>) = 0
  OBVIOUS
<1> QED BY <1>1, <1>2 DEF CodecInv

(* One more call, and its message. *)
LEMMA CodecGrows ==
  ASSUME CodecInv, NEW note, Recorded(note), given = << >> => ~IsEvent(note), UNCHANGED << writer, reader, taken >>,
         given' = Append(given, note), messages' = Append(messages, MessageOf(note))
  PROVE  /\ CodecInv' /\ \A n \in 1 .. taken : given'[n] = given[n]
<1>1. PICK S : given \in Seq(S)
  BY DEF CodecInv
<1>2. PICK M : messages \in Seq(M)
  BY DEF CodecInv
<1>3. PICK k : k = Len(given)
  OBVIOUS
<1>4. /\ k \in Nat /\ Len(messages) = k /\ taken \in 0 .. k
      /\ \A n \in 1 .. k : Recorded(given[n]) /\ messages[n] = MessageOf(given[n])
  BY <1>1, <1>3, LenProperties DEF CodecInv
<1>5. PICK message : message = MessageOf(note)
  OBVIOUS
<1>6. /\ given' \in Seq(S \cup {note}) /\ Len(given') = k + 1
      /\ given'[k + 1] = note /\ \A n \in 1 .. k : given'[n] = given[n]
  <2>1. given \in Seq(S \cup {note})
    BY <1>1
  <2> QED BY <1>3, <2>1, AppendProperties
<1>7. /\ messages' \in Seq(M \cup {message}) /\ Len(messages') = k + 1
      /\ messages'[k + 1] = message /\ \A n \in 1 .. k : messages'[n] = messages[n]
  <2>1. messages \in Seq(M \cup {message})
    BY <1>2
  <2> QED BY <1>4, <1>5, <2>1, AppendProperties
<1>8. \A n \in 1 .. Len(given') : Recorded(given[n])' /\ (messages[n] = MessageOf(given[n]))'
  <2> SUFFICES ASSUME NEW n \in 1 .. k + 1
               PROVE  Recorded(given[n])' /\ (messages[n] = MessageOf(given[n]))'
    BY <1>6
  <2>1. n \in 1 .. k \/ n = k + 1
    BY <1>4
  <2> QED BY <1>4, <1>5, <1>6, <1>7, <2>1 DEF Recorded, IsOutput, MessageOf
<1>9. taken' \in 0 .. Len(messages') /\ Len(messages') = Len(given')
  BY <1>4, <1>6, <1>7
<1>10. ~IsEvent(given'[1])
  <2>1. CASE k = 0
    <3>1. given = << >>
      BY <1>1, <1>3, <2>1, EmptySeq
    <3>2. given'[1] = note
      BY <1>6, <2>1
    <3> QED BY <3>1, <3>2
  <2>2. CASE k > 0
    <3>1. ~IsEvent(given[1]) /\ 1 \in 1 .. k
      BY <1>3, <1>4, <2>2 DEF CodecInv
    <3>2. given'[1] = given[1]
      BY <1>6, <3>1
    <3> QED BY <3>1, <3>2 DEF IsEvent
  <2> QED BY <1>4, <2>1, <2>2
<1> QED BY <1>4, <1>6, <1>7, <1>8, <1>9, <1>10 DEF CodecInv, IsEvent

(* The calls. *)
LEMMA CodecKeeps ==
  ASSUME CodecInv, [CNext]_codecVars
  PROVE  CodecInv' /\ \A n \in 1 .. taken : given'[n] = given[n]
<1>1. CASE Setup
  <2>1. PICK note : note = [kind |-> "setup"]
    OBVIOUS
  <2>2. ~IsEvent(note)
    BY <2>1 DEF IsEvent
  <2> QED BY <1>1, <2>1, <2>2, CodecGrows DEF Setup, Recorded, MessageOf
<1>2. CASE Analyze
  <2>1. PICK mul, event :
          /\ mul \in [Detectors(writer) -> Multiplicities]
          /\ event = Event(EventsGiven + 1, mul)
          /\ given' = Append(given, [kind |-> "event", event |-> event])
          /\ messages' = Append(messages, BuildEvent(writer, event))
    BY <1>2 DEF Analyze
  <2>2. PICK note : note = [kind |-> "event", event |-> event]
    OBVIOUS
  <2>3. IsEvent(note) /\ note.event = event
    BY <2>2 DEF IsEvent
  <2>4. EventsGiven + 1 \in 1 .. MAX_EVENTS
    <3>1. EventsGiven \in Nat
      <4>1. PICK k : k = Len(given) /\ k \in Nat /\ DOMAIN given = 1 .. k
        BY LenProperties DEF CodecInv
      <4>2. IsFiniteSet(1 .. k)
        BY <4>1, FS_Interval
      <4>3. IsFiniteSet({n \in DOMAIN given : IsEvent(given[n])})
        BY <4>1, <4>2, FS_Subset
      <4> QED BY <4>3, FS_CardinalityType DEF EventsGiven
    <3>2. EventsGiven < MAX_EVENTS /\ MAX_EVENTS \in Nat
      BY <1>2, CodecAssumption DEF Analyze
    <3> QED BY <3>1, <3>2
  <2>5. Recorded(note) /\ MessageOf(note) = BuildEvent(writer, event)
    <3>1. IsOutput(event)
      BY <2>1, <2>4, EventIs DEF CodecInv
    <3> QED BY <2>3, <3>1 DEF Recorded, MessageOf
  <2> QED BY <1>2, <2>1, <2>2, <2>5, CodecGrows DEF Analyze
<1>3. CASE UNCHANGED << writer, reader, given, messages >> /\ taken' \in 0 .. Len(messages)
  BY <1>3 DEF CodecInv, Recorded, IsOutput, MessageOf
<1>4. Len(messages) \in Nat /\ taken \in 0 .. Len(messages)
  BY LenProperties DEF CodecInv
<1>5. SkipHeader \/ Read => UNCHANGED << writer, reader, given, messages >> /\ taken' \in 0 .. Len(messages)
  <2>1. messages # << >> => Len(messages) # 0
    BY EmptySeq DEF CodecInv
  <2> QED BY <1>4, <2>1 DEF SkipHeader, Read
<1>6. UNCHANGED codecVars => UNCHANGED << writer, reader, given, messages >> /\ taken' \in 0 .. Len(messages)
  BY <1>4 DEF codecVars
<1> QED BY <1>1, <1>2, <1>3, <1>5, <1>6 DEF CNext

(***************************************************************************)
(* Every call given to the writer has become its message, whatever its     *)
(* setup and what its detectors saw.                                       *)
(***************************************************************************)
THEOREM CodecInvariant == CSpec => []CodecInv
<1>1. CInit => CodecInv
  BY CodecStarts
<1>2. CodecInv /\ [CNext]_codecVars => CodecInv'
  BY CodecKeeps
<1> QED BY <1>1, <1>2, PTL DEF CSpec

(***************************************************************************)
(* No hit is written beyond the end of the list that buildEvent allocates  *)
(* with the sums of the whole multiplicities, although the loops run to    *)
(* multiplicities cut to 8 bits.                                           *)
(***************************************************************************)
THEOREM HitsInTheList == CSpec => []NoHitOutsideTheList
<1>1. CodecInv => NoHitOutsideTheList
  <2> SUFFICES ASSUME CodecInv, NEW n \in DOMAIN given, IsEvent(given[n])
               PROVE  Len(Entries(writer, given[n].event)) <= DataSize(writer, given[n].event)
    BY DEF NoHitOutsideTheList
  <2>1. n \in 1 .. Len(given)
    BY LenProperties DEF CodecInv
  <2>2. writer \in Setups /\ given[n].event.mul \in [Detectors(writer) -> Multiplicities]
    BY <2>1 DEF CodecInv, Recorded, IsOutput
  <2> QED BY <2>2, HitsFit
<1> QED BY <1>1, CodecInvariant, PTL

(***************************************************************************)
(* A header in the middle of a file is never shown to the analyzers as an  *)
(* event: whatever the two setups, the getters throw.                      *)
(***************************************************************************)
THEOREM HeaderNotShown == CSpec => []HeaderIsNoEvent
<1>1. CInit => HeaderIsNoEvent
  BY DEF CInit, HeaderIsNoEvent
<1>2. CodecInv /\ HeaderIsNoEvent /\ [CNext]_codecVars => HeaderIsNoEvent'
  <2> SUFFICES ASSUME CodecInv, HeaderIsNoEvent, [CNext]_codecVars,
                      NEW n \in 2 .. taken', ~IsEvent(given'[n])
               PROVE  outcome' = "threw" /\ taken' = n
    BY DEF HeaderIsNoEvent
  <2>1. /\ \A m \in 1 .. taken : given'[m] = given[m]
        /\ taken \in Nat /\ Len(messages) \in Nat /\ Len(messages) = Len(given)
    BY CodecKeeps, LenProperties DEF CodecInv
  <2>2. CASE Read
    <3>1. outcome = "running" /\ taken' = taken + 1 /\ given' = given /\ taken < Len(messages)
      BY <2>2 DEF Read
    <3>2. n = taken + 1
      BY <2>1, <3>1 DEF HeaderIsNoEvent
    <3>3. taken + 1 \in 1 .. Len(given) /\ messages[taken + 1] = MessageOf(given[taken + 1])
      BY <2>1, <3>1 DEF CodecInv
    <3>4. messages[taken + 1] = BuildHeader(writer)
      BY <3>1, <3>2, <3>3 DEF MessageOf
    <3>5. GetterThrows(messages[taken + 1])
      BY <3>4, HeaderIsRefused
    <3> QED BY <2>2, <3>1, <3>2, <3>5 DEF Read
  <2>3. CASE SkipHeader
    BY <2>3 DEF SkipHeader
  <2>4. CASE UNCHANGED << taken, outcome >>
    BY <2>1, <2>4 DEF HeaderIsNoEvent
  <2> QED BY <2>2, <2>3, <2>4 DEF CNext, Setup, Analyze, codecVars
<1> QED BY <1>1, <1>2, CodecInvariant, PTL DEF CSpec

(***************************************************************************)
(* The header tells the setup it was written with: what its getters show   *)
(* is every detector and signal with its name, in order, and its strips as *)
(* 16 bits hold them.                                                      *)
(***************************************************************************)
THEOREM HeaderIsComplete == CSpec => []HeaderTellsSetup
<1>1. CodecInv => HeaderTellsSetup
  <2> SUFFICES ASSUME CodecInv, NEW n \in DOMAIN given, ~IsEvent(given[n])
               PROVE  messages[n] = BuildHeader(writer) /\ writer \in Setups
    BY HeaderShows DEF HeaderTellsSetup
  <2>1. n \in 1 .. Len(given)
    BY LenProperties DEF CodecInv
  <2> QED BY <2>1 DEF CodecInv, MessageOf
<1> QED BY <1>1, CodecInvariant, PTL

(* What the reader's loops put into a slot that its analyzers can see. *)
LEMMA UnpackedIs ==
  ASSUME SetupsAgree, NEW out, IsOutput(out),
         NEW mul, mul = MulList(out), NEW data, data = DataList(writer, out),
         NEW d \in Detectors(reader), NEW x \in Hits,
         x[1] < mul[d], Place(x[2]) <= Len(Sides(reader, d))
  PROVE  Unpacked(mul, data, d, x[1], x[2]) = Narrowed(out.hit[d][x])
<1>1. PICK slot, side : slot = x[1] /\ side = x[2]
  OBVIOUS
<1>2. MAX_MUL \in Nat
  BY CodecAssumption DEF MAX_MUL, Max
<1>3. slot \in Nat /\ side \in {"front", "back"} /\ x = << slot, side >>
  BY <1>1, <1>2 DEF Hits
<1>4. CountsTo(mul, data, out)
  BY CountsAgree
<1>5. d \in Detectors(writer) /\
      data[Count(mul, d) + Len(Sides(reader, d)) * slot + Place(side)] = Packed(out.hit[d][<< slot, side >>])
  BY <1>4, <1>1, <1>3 DEF CountsTo
<1>6. out.hit[d][x] \in HitType
  BY <1>5 DEF IsOutput
<1>7. Unpacked(mul, data, d, slot, side) = ReadHit(Packed(out.hit[d][x]))
  BY <1>1, <1>3, <1>5 DEF Unpacked
<1> QED BY <1>1, <1>6, <1>7, HitReadsBack

(* What the analyzers are shown of an event. *)
ShowsHits(event) ==
  /\ outcome = "running"
  /\ \A s \in DOMAIN reader.signals : output.signal[s] = event.signal[s]
  /\ \A d \in Detectors(reader) :
       /\ event.mul[d] < BYTE =>
            /\ output.mul[d] = event.mul[d]
            /\ Visible(reader, output, d) =
                 [x \in DOMAIN Visible(writer, event, d) |-> Narrowed(event.hit[d][x])]
       /\ \A x \in DOMAIN Visible(reader, output, d) : output.hit[d][x] = Narrowed(event.hit[d][x])

(* A round of the loop on an event. *)
LEMMA EventShows ==
  ASSUME CodecInv, Leads(reader, writer), Read, IsEvent(given[taken + 1]), NEW out, out = given[taken + 1].event
  PROVE  ShowsHits(out)'
<1>1. SetupsAgree
  BY DEF CodecInv, SetupsAgree
<1>2. taken + 1 \in 1 .. Len(given) /\ outcome = "running"
  BY LenProperties DEF CodecInv, Read
<1>3. IsOutput(out) /\ messages[taken + 1] = BuildEvent(writer, out)
  BY <1>2 DEF CodecInv, Recorded, MessageOf
<1>4. PICK message, mul, data : /\ message = messages[taken + 1]
                                /\ mul = MulList(out) /\ data = DataList(writer, out)
  OBVIOUS
<1>5. /\ ~GetterThrows(message) /\ Get(message, "mul") = mul /\ Get(message, "data") = data
      /\ Get(message, "signal") = out.signal
  BY <1>3, <1>4, EventIsRead
<1>6. CountsTo(mul, data, out)
  BY <1>1, <1>3, <1>4, CountsAgree
<1>7. InLists(mul, data, out.signal)
  BY <1>6 DEF CountsTo
<1>8. /\ ReadEvent(mul, data, out.signal) /\ outcome' = "running"
      /\ UNCHANGED << writer, reader >>
  BY <1>2, <1>4, <1>5, <1>7 DEF Read
<1>9. \A s \in DOMAIN reader.signals : output'.signal[s] = out.signal[s]
  BY <1>8 DEF ReadEvent
<1>10. ASSUME NEW d \in Detectors(reader)
      PROVE  /\ out.mul[d] < BYTE =>
                  /\ output'.mul[d] = out.mul[d]
                  /\ Visible(reader, output', d) =
                       [x \in DOMAIN Visible(writer, out, d) |-> Narrowed(out.hit[d][x])]
             /\ \A x \in DOMAIN Visible(reader, output', d) : output'.hit[d][x] = Narrowed(out.hit[d][x])
  <2>1. d \in Detectors(writer) /\ mul[d] = out.mul[d] % BYTE
    BY <1>6 DEF CountsTo
  <2>2. Sides(reader, d) = Sides(writer, d)
    BY DEF Leads
  <2>3. /\ output'.mul[d] = mul[d]
        /\ output'.hit[d] = [x \in Hits |-> Unpacked(mul, data, d, x[1], x[2])]
    BY <1>8 DEF ReadEvent
  <2>4. PICK shown : shown = {y \in Hits : y[1] < mul[d] /\ Place(y[2]) <= Len(Sides(reader, d))}
    OBVIOUS
  <2>5. /\ DOMAIN Visible(reader, output', d) = shown
        /\ Visible(reader, output', d) = [x \in shown |-> output'.hit[d][x]]
    BY <2>3, <2>4 DEF Visible
  <2>6. \A x \in shown : output'.hit[d][x] = Narrowed(out.hit[d][x])
    BY <1>1, <1>3, <1>4, <2>3, <2>4, UnpackedIs
  <2>7. ASSUME out.mul[d] < BYTE
        PROVE  output'.mul[d] = out.mul[d] /\ DOMAIN Visible(writer, out, d) = shown
    <3>1. out.mul[d] \in Nat /\ BYTE \in Nat \ {0}
      BY <1>3, <2>1, CodecAssumption, LayoutAssumption DEF IsOutput
    <3>2. PICK m, b : m = out.mul[d] /\ b = BYTE
      OBVIOUS
    <3>3. m % b = m
      <4>1. m \in Nat /\ b \in Nat \ {0} /\ m < b /\ m = b * 0 + m
        BY <2>7, <3>1, <3>2
      <4> QED BY ONLY <4>1, DivUnique
    <3>4. mul[d] = out.mul[d]
      BY <2>1, <3>2, <3>3
    <3> QED BY <2>2, <2>3, <2>4, <3>4 DEF Visible
  <2> QED BY <2>5, <2>6, <2>7
<1> QED BY <1>8, <1>9, <1>10 DEF ShowsHits

(***************************************************************************)
(* After each event the reader's detectors show their own hits of it, and  *)
(* nothing of an earlier event, for every setup of the writer that the     *)
(* reader's leads, all multiplicities and every size of a byte.            *)
(***************************************************************************)
THEOREM HitsComeHome == CSpec => []HitsStayHome
<1>1. CInit => HitsStayHome
  BY DEF CInit, HitsStayHome
<1>2. CodecInv /\ HitsStayHome /\ [CNext]_codecVars => HitsStayHome'
  <2> SUFFICES ASSUME CodecInv, HitsStayHome, [CNext]_codecVars,
                      Leads(reader, writer)', taken' > 1, IsEvent(given'[taken'])
               PROVE  ShowsHits(given[taken].event)'
    BY DEF HitsStayHome, ShownAsGiven, ShowsHits
  <2>1. /\ \A m \in 1 .. taken : given'[m] = given[m]
        /\ taken \in Nat
    BY CodecKeeps, LenProperties DEF CodecInv
  <2>2. CASE Read
    <3>1. taken' = taken + 1 /\ UNCHANGED << writer, reader, given >>
      BY <2>2 DEF Read
    <3>2. PICK out : out = given[taken + 1].event
      OBVIOUS
    <3>3. Leads(reader, writer) /\ IsEvent(given[taken + 1])
      BY <3>1 DEF Leads
    <3>4. ShowsHits(out)'
      BY <2>2, <3>2, <3>3, EventShows
    <3>5. given'[taken'].event = out
      BY <3>1, <3>2
    <3> QED BY <3>4, <3>5 DEF ShowsHits
  <2>3. CASE SkipHeader
    BY <2>3 DEF SkipHeader
  <2>4. CASE UNCHANGED << writer, reader, taken, output, outcome >>
    <3>1. taken \in 1 .. taken /\ given'[taken] = given[taken]
      BY <2>1, <2>4
    <3>2. Leads(reader, writer) /\ taken > 1 /\ IsEvent(given[taken])
      BY <2>4, <3>1 DEF Leads
    <3>3. ShowsHits(given[taken].event)
      BY <3>2 DEF HitsStayHome, ShownAsGiven, ShowsHits
    <3>4. PICK event : event = given[taken].event
      OBVIOUS
    <3>5. given'[taken'].event = event
      BY <2>4, <3>1, <3>4
    <3> QED BY <2>4, <3>3, <3>4, <3>5 DEF ShowsHits
  <2> QED BY <2>2, <2>3, <2>4 DEF CNext, Setup, Analyze, codecVars
<1> QED BY <1>1, <1>2, CodecInvariant, PTL DEF CSpec

(* The header in the file counts like the setup it was built of. *)
LEMMA HeaderLeads ==
  ASSUME NEW mine, NEW theirs \in Setups
  PROVE  Leads(mine, InTheFile(theirs)) <=> Leads(mine, theirs)
<1>1. PICK shown : shown = InTheFile(theirs)
  OBVIOUS
<1>2. PICK a, b : a = Len(theirs.doubles) /\ b = Len(theirs.singles)
  OBVIOUS
<1>3. /\ DOMAIN theirs.doubles = 1 .. a /\ a \in Nat
      /\ DOMAIN theirs.singles = 1 .. b /\ b \in Nat
  BY <1>2, CodecAssumption, LenProperties
<1>4. /\ shown.doubles = [i \in 1 .. a |->
           [name |-> theirs.doubles[i].name, front |-> theirs.doubles[i].front % Values(2),
            back |-> theirs.doubles[i].back % Values(2)]]
      /\ shown.singles = [i \in 1 .. b |->
           [name |-> theirs.singles[i].name, strips |-> theirs.singles[i].strips % Values(2)]]
      /\ shown.signals = theirs.signals
  BY <1>1, <1>3 DEF InTheFile
<1>5. Len(shown.doubles) = a /\ Len(shown.singles) = b
  BY <1>3, <1>4, LenProperties
<1>6. Detectors(shown) = Detectors(theirs) /\ \A d : Sides(shown, d) = Sides(theirs, d)
  BY <1>2, <1>5 DEF Detectors, Sides
<1> QED BY <1>1, <1>4, <1>6 DEF Leads

(***************************************************************************)
(* Whenever a setup that was given to the reader makes it show hits as the *)
(* writer did not see them, or read outside of a list, it does not lead    *)
(* the setup in the header that run skipped: for all setups, of reader and *)
(* of writer, comparing the two would be enough.                           *)
(***************************************************************************)
THEOREM HeaderWarns == CSpec => []HeaderWouldTell
<1>1. CodecInv /\ HeaderTellsSetup /\ HitsStayHome => HeaderWouldTell
  <2> SUFFICES ASSUME CodecInv, HeaderTellsSetup, HitsStayHome,
                      taken > 1, IsEvent(given[taken]), ~ShownAsGiven(given[taken].event)
               PROVE  ~Leads(reader, ReadHeader(messages[1]))
    BY DEF HeaderWouldTell
  <2>1. 1 \in DOMAIN given /\ ~IsEvent(given[1])
    BY LenProperties DEF CodecInv
  <2>2. ReadHeader(messages[1]) = InTheFile(writer)
    BY <2>1 DEF HeaderTellsSetup
  <2>3. ~Leads(reader, writer)
    BY DEF HitsStayHome
  <2>4. writer \in Setups
    BY DEF CodecInv
  <2> QED BY <2>2, <2>3, <2>4, HeaderLeads
<1> QED BY <1>1, CodecInvariant, HeaderIsComplete, HitsComeHome, PTL

================================================================================
