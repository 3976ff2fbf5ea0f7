--------------------------- MODULE MessageBuilder ---------------------------
(***************************************************************************)
(* Building messages with the generated code: MallocMessageBuilder in      *)
(* ProtoWriter::setup and ProtoWriter::analyze, and the calls has, get,    *)
(* set, init, adopt and disown of the generated builders and readers.      *)
(*                                                                         *)
(* Events are built in the one buffer the ProtoWriter allocates and fills  *)
(* with zeros when it is made; what does not fit there, and headers, are   *)
(* built in memory of their own.  New structs and lists are not            *)
(* initialised: they are what the memory holds.                            *)
(***************************************************************************)
EXTENDS CapnLayout

CONSTANTS
  SCRATCH,     \* words of ProtoWriter's buffer
  Numbers,     \* numbers the callers set
  MAX_LENGTH,  \* bound: items of a list
  MAX_CALLS    \* bound: calls on one message

ASSUME BuilderAssumption ==
  /\ {SCRATCH, MAX_LENGTH, MAX_CALLS} \subseteq Nat
  /\ Numbers \subseteq Nat

VARIABLES
  kind,     \* type of the message's root
  root,     \* the root struct with all that hangs on it
  orphans,  \* what was disowned, by the name of its field
  used,     \* words of the buffer that the builder has handed out
  dirty,    \* words of the buffer that may hold something else than zeros
  call,     \* the last call, with its arguments
  calls     \* number of calls on the message

bvars == << kind, root, orphans, used, dirty, call, calls >>

Buffer == 0 .. SCRATCH - 1

Roots == {"PackedEvent", "Header"}

Fields(type) == DOMAIN Layout[type].lists

NoOrphans == [f \in (UNION {Fields(r) : r \in Roots}) \cup {"name"} |-> << >>]

-----------------------------------------------------------------------------
(* Memory. *)

(* Words of a list of n: packed numbers, text with a zero behind it, a tag and structs. *)
Words(of, n) ==
  CASE of \in {"UInt8", "UInt32"} -> (n * Width[of] + WORD - 1) \div WORD
    [] of = "Char" -> n \div WORD + 1
    [] OTHER -> 1 + n * (Layout[of].words + Layout[of].pointers)

Size == IF kind = "PackedEvent" THEN SCRATCH ELSE 0

Taken(words) == IF used + words <= Size THEN used .. used + words - 1 ELSE {}

(* The byte that fills memory just handed out: any other than 0 stands for what was left there. *)
Found(words) == IF Taken(words) \cap dirty = {} THEN 0 ELSE BYTE - 1

Allocate(words) ==
  /\ used' = used + Cardinality(Taken(words))
  /\ dirty' = dirty \cup Taken(words)

-----------------------------------------------------------------------------
(* A slot is << field >> of the root, or << field, i, "name" >> of an item. *)
List(field) == root.pointers[Layout[kind].lists[field].slot]

Of(field) == Layout[kind].lists[field].of

Slots ==
  {<< f >> : f \in Fields(kind)} \cup
  UNION {{<< f, i, "name" >> : i \in DOMAIN Items(List(f))} :
           f \in {g \in Fields(kind) : Of(g) \notin DOMAIN Width /\ "name" \in Fields(Of(g))}}

Nested(slot) == Len(slot) = 3

NameSlot(slot) == Layout[Of(slot[1])].lists.name.slot

At(slot) ==
  IF Nested(slot) THEN Items(List(slot[1]))[slot[2]].pointers[NameSlot(slot)] ELSE List(slot[1])

With(slot, pointer) ==
  LET field == Layout[kind].lists[slot[1]].slot IN
  IF Nested(slot)
  THEN [root EXCEPT !.pointers[field][1].items[slot[2]].pointers[NameSlot(slot)] = pointer]
  ELSE [root EXCEPT !.pointers[field] = pointer]

TypeAt(slot) == IF Nested(slot) THEN "Char" ELSE Of(slot[1])

-----------------------------------------------------------------------------
(* Deliberate error, for ImplementsSchema: the buffer is left as it is. *)
BufferUnfilled == Buffer

(* The constructor of ProtoWriter fills the buffer with zeros. *)
BufferFilled == {}

(* Words of the buffer that initRoot hands out: the root's pointer and the root. *)
RootTaken(k) ==
  IF k = "PackedEvent" THEN 0 .. Layout[k].words + Layout[k].pointers ELSE {}

BInit ==
  /\ kind \in Roots
  /\ root = Blank(kind, 0)
  /\ orphans = NoOrphans
  /\ used = Cardinality(RootTaken(kind))
  /\ dirty = BufferFilled \cup RootTaken(kind)
  /\ call = << "root", kind >>
  /\ calls = 0

(***************************************************************************)
(* setup or analyze returns, and another call begins a message.  In        *)
(* between ~MallocMessageBuilder zeroes what it used of the buffer.        *)
(***************************************************************************)
NextMessage(k) ==
  /\ kind' = k
  /\ root' = Blank(k, 0)
  /\ orphans' = NoOrphans
  /\ used' = Cardinality(RootTaken(k))
  /\ dirty' = (dirty \ (0 .. used - 1)) \cup RootTaken(k)
  /\ call' = << "root", k >>
  /\ calls' = 0

-----------------------------------------------------------------------------
Called(c) == call' = c /\ calls' = calls + 1

(* init: the list or text that was there is dropped. *)
InitSlot(slot, n) ==
  LET words == Words(TypeAt(slot), n) IN
  /\ root' = With(slot, << NewList(TypeAt(slot), n, Found(words)) >>)
  /\ Allocate(words)
  /\ Called(<< "init", slot, n >>)
  /\ UNCHANGED << kind, orphans >>

Disown(slot) ==
  /\ orphans' = [orphans EXCEPT ![Last(slot)] = At(slot)]
  /\ root' = With(slot, << >>)
  /\ Called(<< "disown", slot >>)
  /\ UNCHANGED << kind, used, dirty >>

Adopt(slot) ==
  /\ root' = With(slot, orphans[Last(slot)])
  /\ orphans' = [orphans EXCEPT ![Last(slot)] = << >>]
  /\ Called(<< "adopt", slot >>)
  /\ UNCHANGED << kind, used, dirty >>

(* set, from the reader of what was disowned: a copy with all that hangs on it. *)
SetSlot(slot) ==
  LET items == Items(orphans[Last(slot)]) IN
  /\ root' = With(slot, << [of |-> TypeAt(slot), items |-> items] >>)
  /\ Allocate(Words(TypeAt(slot), Len(items)))
  /\ Called(<< "set", slot >>)
  /\ UNCHANGED << kind, orphans >>

(* set of a list of numbers, or a setter of an item. *)
Put(field, i, part, v) ==
  LET slot == Layout[kind].lists[field].slot IN
  /\ root' = [root EXCEPT !.pointers[slot][1].items[i] = SetItem(Of(field), @, part, v)]
  /\ Called(<< "put", << field, i, part >>, v >>)
  /\ UNCHANGED << kind, orphans, used, dirty >>

Parts(of) == IF of \in DOMAIN Width THEN {"value"} ELSE DOMAIN Layout[of].data

BNext ==
  \/ \E k \in Roots : NextMessage(k)
  \/ /\ calls < MAX_CALLS
     /\ \/ \E slot \in Slots : \/ \E n \in 0 .. MAX_LENGTH : InitSlot(slot, n)
                               \/ Disown(slot) \/ Adopt(slot) \/ SetSlot(slot)
        \/ \E field \in Fields(kind) : \E i \in DOMAIN Items(List(field)), part \in Parts(Of(field)),
             v \in Numbers : Put(field, i, part, v)

BSpec == BInit /\ [][BNext]_bvars

-----------------------------------------------------------------------------
(***************************************************************************)
(* What the getters show: has is that a pointer is not null, the rest is   *)
(* read field by field.                                                    *)
(***************************************************************************)
ShownText(pointer) == IF pointer = << >> THEN << >> ELSE << pointer[1].items >>

ShownItem(of, item) ==
  IF of \in DOMAIN Width THEN item
  ELSE [f \in DOMAIN Layout[of].data \cup Fields(of) |->
          IF f \in Fields(of) THEN ShownText(item.pointers[Layout[of].lists[f].slot])
          ELSE GetData(item, Layout[of].data[f])]

Shown(pointer) ==
  IF pointer = << >> THEN << >>
  ELSE << [i \in DOMAIN pointer[1].items |-> ShownItem(pointer[1].of, pointer[1].items[i])] >>

Abstract == INSTANCE MessageSchema WITH
  value <- [f \in Fields(kind) |-> Shown(List(f))],
  held  <- [f \in DOMAIN orphans |-> Shown(orphans[f])]

(***************************************************************************)
(* The generated code and the reused buffer keep what the schema promises: *)
(* fields do not touch each other wherever their bytes are, a new list is  *)
(* blank although the memory was used for an earlier event, and what is    *)
(* disowned, adopted and copied neither changes nor is shared.             *)
(***************************************************************************)
ImplementsSchema == Abstract!SchemaSpec

==============================================================================
