----------------------------- MODULE CapnLayout -----------------------------
(***************************************************************************)
(* The messages' structs as the code that Cap'n Proto generated lays them  *)
(* out (include/ausa/buf/Header.capn.h and PackedEvent.capn.h): a section  *)
(* of data words and a section of pointers.  Numbers are bytes in the data *)
(* section, lists and texts are behind a pointer.                          *)
(***************************************************************************)
EXTENDS Integers, Sequences, SequencesExt, FiniteSetsExt

CONSTANT BYTE  \* the values of a byte (256)

ASSUME LayoutAssumption == BYTE \in Nat \ {0, 1}

WORD == 8  \* bytes of a word

(***************************************************************************)
(* getDataField<T>(element * ELEMENTS): the place is counted in elements   *)
(* of the field's own size.  getPointerField(slot * POINTERS).             *)
(***************************************************************************)
Field(element, size) == [from |-> element * size, size |-> size]
Pointer(slot, of) == [slot |-> slot, of |-> of]

PackedEventLayout ==
  [words |-> 0, pointers |-> 3, data |-> << >>,
   lists |-> [mul |-> Pointer(0, "UInt8"), data |-> Pointer(1, "Data"),
              signal |-> Pointer(2, "UInt32")]]

DataLayout ==
  [words |-> 1, pointers |-> 0, lists |-> << >>,
   data |-> [energy |-> Field(0, 4), strip |-> Field(4, 1), time |-> Field(3, 2)]]

HeaderLayout ==
  [words |-> 0, pointers |-> 3, data |-> << >>,
   lists |-> [doubles |-> Pointer(0, "DoubleSided"), singles |-> Pointer(1, "SingleSided"),
              signals |-> Pointer(2, "Signal")]]

DoubleSidedLayout ==
  [words |-> 1, pointers |-> 1, lists |-> [name |-> Pointer(0, "Char")],
   data |-> [frontStrips |-> Field(0, 2), backStrips |-> Field(1, 2)]]

SingleSidedLayout ==
  [words |-> 1, pointers |-> 1, lists |-> [name |-> Pointer(0, "Char")],
   data |-> [strips |-> Field(0, 2)]]

(* Deliberate error, for HeaderIsNoEvent: a signal gets a number. *)
SignalLayoutNumbered ==
  [words |-> 1, pointers |-> 1, data |-> << >>, lists |-> [name |-> Pointer(0, "Char")]]

SignalLayout ==
  [words |-> 0, pointers |-> 1, data |-> << >>, lists |-> [name |-> Pointer(0, "Char")]]

Layout ==
  [PackedEvent |-> PackedEventLayout, Data |-> DataLayout, Header |-> HeaderLayout,
   DoubleSided |-> DoubleSidedLayout, SingleSided |-> SingleSidedLayout, Signal |-> SignalLayout]

(* Bytes of the elements of lists that are not lists of structs. *)
Width == [UInt8 |-> 1, UInt32 |-> 4, Char |-> 1]

-----------------------------------------------------------------------------
(* Values.  A pointer is << >> when it is null, else << list >>. *)

(* The sum of the first n numbers of s. *)
Total(s, n) ==
  LET sum[i \in 0 .. n] == IF i = 0 THEN 0 ELSE sum[i - 1] + s[i]
  IN sum[n]

(* The values of so many bytes, up to 4: no number of a message is longer. *)
Values(size) == << 1, BYTE, BYTE * BYTE, BYTE * BYTE * BYTE, BYTE * BYTE * BYTE * BYTE >>[size + 1]

(* size bytes that are all alike *)
Repeated(byte, size) == byte * ((Values(size) - 1) \div (BYTE - 1))

(* An element in memory whose bytes are all alike: 0, unless memory was used before. *)
Blank(of, byte) ==
  IF of \in DOMAIN Width THEN Repeated(byte, Width[of])
  ELSE [data     |-> [b \in 1 .. WORD * Layout[of].words |-> byte],
        pointers |-> [p \in 0 .. Layout[of].pointers - 1 |-> << >>]]

NewList(of, n, byte) == [of |-> of, items |-> [i \in 1 .. n |-> Blank(of, byte)]]

(* setDataField: little-endian, and what the field cannot hold is cut off. *)
SetData(struct, field, v) ==
  [struct EXCEPT !.data = [b \in DOMAIN @ |->
     IF b \in field.from + 1 .. field.from + field.size
     THEN (v \div Values(b - field.from - 1)) % BYTE ELSE @[b]]]

(* getDataField of a reader: a field beyond the struct's data reads as 0. *)
GetData(struct, field) ==
  IF field.from + field.size > Len(struct.data) THEN 0
  ELSE Total([k \in 1 .. field.size |-> struct.data[field.from + k] * Values(k - 1)], field.size)

SetItem(of, item, part, v) ==
  IF of \in DOMAIN Width THEN v % Values(Width[of]) ELSE SetData(item, Layout[of].data[part], v)

Items(pointer) == IF pointer = << >> THEN << >> ELSE pointer[1].items

(***************************************************************************)
(* A list is read as one of another type: numbers can be read from structs *)
(* that start with data, and the library throws when there is none.        *)
(***************************************************************************)
Refused(pointer, of) ==
  /\ pointer # << >> /\ of \in DOMAIN Width
  /\ pointer[1].of \notin DOMAIN Width /\ Layout[pointer[1].of].words = 0

ReadAs(pointer, of) ==
  IF pointer = << >> THEN << >>
  ELSE IF of \in DOMAIN Width /\ pointer[1].of \notin DOMAIN Width
  THEN [i \in DOMAIN pointer[1].items |-> GetData(pointer[1].items[i], Field(0, Width[of]))]
  ELSE pointer[1].items

==============================================================================
