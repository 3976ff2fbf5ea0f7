---------------------------- MODULE MessageSchema ----------------------------
(***************************************************************************)
(* What a message promises its users (messages/Header.capn and             *)
(* PackedEvent.capn): a record of lists whose items have the fields that   *)
(* the schema gives them.  A call changes the one thing it names, a number *)
(* is cut to its type, a new list has default values, and a list that is   *)
(* disowned is kept whole until it is adopted or copied.                   *)
(***************************************************************************)
EXTENDS Integers, Sequences, SequencesExt

CONSTANTS
  BYTE,        \* the values of a byte
  MAX_LENGTH   \* bound: items of a list

Schema ==
  [PackedEvent |-> [mul |-> "UInt8", data |-> "Data", signal |-> "UInt32"],
   Data        |-> [energy |-> "Float32", strip |-> "UInt8", time |-> "UInt16"],
   Header      |-> [doubles |-> "DoubleSided", singles |-> "SingleSided", signals |-> "Signal"],
   DoubleSided |-> [name |-> "Text", frontStrips |-> "UInt16", backStrips |-> "UInt16"],
   SingleSided |-> [name |-> "Text", strips |-> "UInt16"],
   Signal      |-> [name |-> "Text"]]

(* How many values a number has. *)
Limits ==
  [UInt8 |-> BYTE, UInt16 |-> BYTE * BYTE,
   UInt32 |-> BYTE * BYTE * BYTE * BYTE, Float32 |-> BYTE * BYTE * BYTE * BYTE]

Roots == {"PackedEvent", "Header"}

(* The lists of a message and the texts in its items, as the callers name them. *)
Places == (UNION {DOMAIN Schema[r] : r \in Roots}) \cup {"name"}

VARIABLES
  call,   \* the call that was made, with its arguments
  kind,   \* the message's root
  value,  \* its lists: << >> for one that is not set, else << items >>
  held    \* what was disowned, by place

svars == << call, kind, value, held >>

-----------------------------------------------------------------------------
Default(type) ==
  IF type \in DOMAIN Limits THEN 0
  ELSE [f \in DOMAIN Schema[type] |-> IF Schema[type][f] = "Text" THEN << >> ELSE 0]

(* The items of list, and the pointers to lists that there are in a message. *)
ItemsOf(list) == IF value[list] = << >> THEN << >> ELSE value[list][1]

Slots ==
  {<< f >> : f \in DOMAIN value} \cup
  UNION {{<< f, i, "name" >> : i \in DOMAIN ItemsOf(f)} :
           f \in {g \in DOMAIN value : Schema[kind][g] \in DOMAIN Schema
                                         /\ "name" \in DOMAIN Schema[Schema[kind][g]]}}

At(slot) == IF Len(slot) = 1 THEN value[slot[1]] ELSE value[slot[1]][1][slot[2]].name

With(slot, pointer) ==
  IF Len(slot) = 1 THEN [value EXCEPT ![slot[1]] = pointer]
  ELSE [value EXCEPT ![slot[1]][1][slot[2]].name = pointer]

NewItems(slot, n) ==
  [i \in 1 .. n |-> IF Len(slot) = 1 THEN Default(Schema[kind][slot[1]]) ELSE 0]

-----------------------------------------------------------------------------
NothingHeld == [p \in Places |-> << >>]

InitMessage(k) ==
  /\ kind = k
  /\ value = [f \in DOMAIN Schema[k] |-> << >>]
  /\ held = NothingHeld

SchemaInit == \E k \in Roots : call = << "root", k >> /\ InitMessage(k)

Root(k) == call' = << "root", k >> /\ InitMessage(k)'

InitSlot(slot, n) ==
  /\ call' = << "init", slot, n >>
  /\ value' = With(slot, << NewItems(slot, n) >>)
  /\ UNCHANGED << kind, held >>

Disown(slot) ==
  /\ call' = << "disown", slot >>
  /\ held' = [held EXCEPT ![Last(slot)] = At(slot)]
  /\ value' = With(slot, << >>)
  /\ UNCHANGED kind

Adopt(slot) ==
  /\ call' = << "adopt", slot >>
  /\ value' = With(slot, held[Last(slot)])
  /\ held' = [held EXCEPT ![Last(slot)] = << >>]
  /\ UNCHANGED kind

Copy(slot) ==
  /\ call' = << "set", slot >>
  /\ value' = With(slot, IF held[Last(slot)] = << >> THEN << << >> >> ELSE held[Last(slot)])
  /\ UNCHANGED << kind, held >>

Put(list, i, part) ==
  LET type == Schema[kind][list] IN
  /\ call'[1] = "put" /\ call'[2] = << list, i, part >>
  /\ value' = IF type \in DOMAIN Limits
              THEN [value EXCEPT ![list][1][i] = call'[3] % Limits[type]]
              ELSE [value EXCEPT ![list][1][i][part] = call'[3] % Limits[Schema[type][part]]]
  /\ UNCHANGED << kind, held >>

Parts(list) ==
  LET type == Schema[kind][list] IN
  IF type \in DOMAIN Limits THEN {"value"} ELSE {f \in DOMAIN Schema[type] : Schema[type][f] # "Text"}

SchemaNext ==
  \/ \E k \in Roots : Root(k)
  \/ \E slot \in Slots : \/ \E n \in 0 .. MAX_LENGTH : InitSlot(slot, n)
                         \/ Disown(slot) \/ Adopt(slot) \/ Copy(slot)
  \/ \E list \in DOMAIN value : \E i \in DOMAIN ItemsOf(list), part \in Parts(list) :
       Put(list, i, part)

SchemaSpec == SchemaInit /\ [][SchemaNext]_svars

==============================================================================
