------------------------------ MODULE EventCodec ------------------------------
(***************************************************************************)
(* What the messages carry: buildHeader (include/ausa/buf/HeaderBuilder.h) *)
(* describes the setup, buildEvent (source/EventBuilder.cpp) packs what    *)
(* the detectors saw, and ProtoReader::run unpacks it into the one output  *)
(* its analyzers look at, event after event.                               *)
(*                                                                         *)
(* An event has one list of hits for all detectors.  Which hit belongs to  *)
(* which detector follows from the multiplicities and the setup alone, and *)
(* both sides count through the list on their own: the writer with its     *)
(* setup, the reader with the one it was given.                            *)
(***************************************************************************)
EXTENDS CapnLayout

CONSTANTS
  Setups,          \* setups that writer and reader may have
  Multiplicities,  \* multiplicities of the events
  GRAIN,           \* energies that differ by less may be the same as a Float32
  MAX_EVENTS,      \* bound: events that are packed
  MAX_RUNS         \* bound: how often the provider runs

(* Names are sequences of characters; detectors and signals are in order. *)
Name == Seq(Nat)

ASSUME CodecAssumption ==
  /\ Setups \subseteq [doubles : Seq([name : Name, front : Nat, back : Nat]),
                       singles : Seq([name : Name, strips : Nat]), signals : Seq(Name)]
  /\ Multiplicities \subseteq Nat /\ \E m \in Multiplicities : \A n \in Multiplicities : n <= m
  /\ GRAIN \in Nat \ {0}
  /\ {MAX_EVENTS, MAX_RUNS} \subseteq Nat

VARIABLES
  writer,    \* the setup of the file's writer
  reader,    \* the setup the reader was given
  given,     \* history: what the ProtoWriter was called with
  messages,  \* the messages built of it
  taken,     \* messages the reader is done with
  output,    \* the reader's SetupOutput
  outcome    \* of the reader: "running", "threw" or "outside" a list

codecVars == << writer, reader, given, messages, taken, output, outcome >>

(***************************************************************************)
(* A SetupOutput: each detector's multiplicity and its hits, slot by slot. *)
(* Slots from the multiplicity on hold what earlier events left there.  A  *)
(* double-sided detector has as many hits at the back as at the front.     *)
(***************************************************************************)
Detectors(setup) == 1 .. Len(setup.doubles) + Len(setup.singles)

MAX_MUL == Max(Multiplicities)

Sides(setup, d) == IF d <= Len(setup.doubles) THEN << "front", "back" >> ELSE << "front" >>
Hits == (0 .. MAX_MUL - 1) \X {"front", "back"}

(* A Float32 holds the energies of all events. *)
ASSUME FloatAssumption ==
  \A s \in Setups :
    1 + MAX_EVENTS * (1 + Cardinality(Detectors(s)) * (2 * MAX_MUL + 1)) < Values(4)

NoHit == [time |-> 0, energy |-> 0, segment |-> 0]

FreshOutput(setup) ==
  [mul    |-> [d \in Detectors(setup) |-> 0],
   hit    |-> [d \in Detectors(setup) |-> [x \in Hits |-> NoHit]],
   signal |-> [s \in DOMAIN setup.signals |-> 0]]

-----------------------------------------------------------------------------
(* initRoot and the lists of the root. *)
Message(type, items) ==
  [Blank(type, 0) EXCEPT !.pointers = [p \in DOMAIN @ |->
     LET f == CHOOSE g \in DOMAIN items : Layout[type].lists[g].slot = p
     IN << [of |-> Layout[type].lists[f].of, items |-> items[f]] >>]]

(* A double as the bits of a Float32, and back. *)
Float(energy) == energy \div GRAIN
Double(float) == GRAIN * float

(* writeOutput *)
Packed(hit) ==
  LET timed == SetItem("Data", Blank("Data", 0), "time", hit.time)
      full  == SetItem("Data", timed, "energy", Float(hit.energy))
  IN SetItem("Data", full, "strip", hit.segment)

(* writeMul: a multiplicity is cast to uint8_t in the list ... *)
MulList(out) == [d \in DOMAIN out.mul |-> SetItem("UInt8", 0, "value", out.mul[d])]

(* The hits of each detector, on all its sides, when these are the multiplicities. *)
HitCounts(setup, mul) == [d \in Detectors(setup) |-> Len(Sides(setup, d)) * mul[d]]

(* Deliberate error, for NoHitOutsideTheList: one hit for each double-sided pair. *)
DataSizeSingle(setup, out) == Total(out.mul, Cardinality(Detectors(setup)))

(* ... and whole in the sums that size the list of hits. *)
DataSize(setup, out) == Total(HitCounts(setup, out.mul), Cardinality(Detectors(setup)))

(* Deliberate error, for HitsStayHome: the loop runs to the detector's own multiplicity. *)
WrittenUncut(out, d) == out.mul[d]

(* The loops run to the multiplicity as it stands in the list. *)
HitsWritten(out, d) == MulList(out)[d]

(* The hits of one detector as they are written: slot by slot, front before back. *)
Block(setup, out, d) ==
  LET sides == Sides(setup, d) IN
  [k \in 1 .. Len(sides) * HitsWritten(out, d) |->
     Packed(out.hit[d][<< (k - 1) \div Len(sides), sides[((k - 1) % Len(sides)) + 1] >>])]

Entries(setup, out) == FlattenSeq([d \in Detectors(setup) |-> Block(setup, out, d)])

(* data: the list is as long as DataSize says and starts as default values. *)
DataList(setup, out) ==
  LET entries == Entries(setup, out) IN
  [k \in 1 .. DataSize(setup, out) |-> IF k <= Len(entries) THEN entries[k] ELSE Blank("Data", 0)]

BuildEvent(setup, out) ==
  Message("PackedEvent",
    [mul |-> MulList(out), data |-> DataList(setup, out), signal |-> out.signal])

-----------------------------------------------------------------------------
(* buildHeader *)
Named(of, name) ==
  [Blank(of, 0) EXCEPT !.pointers[Layout[of].lists.name.slot] = << [of |-> "Char", items |-> name] >>]

(* Deliberate error, for HeaderTellsSetup: front and back are exchanged. *)
DoubleItemSwapped(d) ==
  LET backed == SetItem("DoubleSided", Named("DoubleSided", d.name), "backStrips", d.front)
  IN SetItem("DoubleSided", backed, "frontStrips", d.back)

DoubleItem(d) ==
  LET backed == SetItem("DoubleSided", Named("DoubleSided", d.name), "backStrips", d.back)
  IN SetItem("DoubleSided", backed, "frontStrips", d.front)

SingleItem(d) == SetItem("SingleSided", Named("SingleSided", d.name), "strips", d.strips)

(* Deliberate error, for HeaderWouldTell: the list of signals is initialised one too long. *)
BuildHeaderLong(setup) ==
  Message("Header",
    [doubles |-> [i \in DOMAIN setup.doubles |-> DoubleItem(setup.doubles[i])],
     singles |-> [i \in DOMAIN setup.singles |-> SingleItem(setup.singles[i])],
     signals |-> [i \in 1 .. Len(setup.signals) + 1 |->
                    IF i \in DOMAIN setup.signals THEN Named("Signal", setup.signals[i])
                                                  ELSE Named("Signal", << >>)]])

BuildHeader(setup) ==
  Message("Header",
    [doubles |-> [i \in DOMAIN setup.doubles |-> DoubleItem(setup.doubles[i])],
     singles |-> [i \in DOMAIN setup.singles |-> SingleItem(setup.singles[i])],
     signals |-> [i \in DOMAIN setup.signals |-> Named("Signal", setup.signals[i])]])

-----------------------------------------------------------------------------
(* getMul, getData and getSignal, on whatever the root of the message is. *)
PointerTo(message, list) == message.pointers[PackedEventLayout.lists[list].slot]

Get(message, list) == ReadAs(PointerTo(message, list), PackedEventLayout.lists[list].of)

GetterThrows(message) ==
  \E list \in DOMAIN PackedEventLayout.lists :
    Refused(PointerTo(message, list), PackedEventLayout.lists[list].of)

(* The free function read. *)
ReadHit(item) ==
  [time |-> GetData(item, DataLayout.data.time),
   energy |-> Double(GetData(item, DataLayout.data.energy)),
   segment |-> GetData(item, DataLayout.data.strip)]

(* count in run, when it comes to detector d. *)
Count(mul, d) == Total(HitCounts(reader, mul), d - 1)

(* Where the side of a hit is, counted from the detector's first. *)
Place(side) == IF side = "back" THEN 2 ELSE 1

(* The loops of run stay in the lists; no bound is checked when they do not. *)
InLists(mul, data, signal) ==
  /\ Len(mul) >= Cardinality(Detectors(reader))
  /\ Len(data) >= Count(mul, Cardinality(Detectors(reader)) + 1)
  /\ Len(signal) >= Len(reader.signals)

(* The slot's value after the loops; a slot the loops do not reach keeps its value. *)
Unpacked(mul, data, d, slot, side) ==
  LET width == Len(Sides(reader, d)) IN
  IF slot < mul[d] /\ Place(side) <= width
  THEN ReadHit(data[Count(mul, d) + width * slot + Place(side)])
  ELSE output.hit[d][<< slot, side >>]

ReadEvent(mul, data, signal) ==
  output' = [mul    |-> [d \in Detectors(reader) |-> mul[d]],
             hit    |-> [d \in Detectors(reader) |-> [x \in Hits |->
                           Unpacked(mul, data, d, x[1], x[2])]],
             signal |-> [s \in DOMAIN reader.signals |-> signal[s]]]

-----------------------------------------------------------------------------
(***************************************************************************)
(* The events given to the writer.  No two hits of an event are alike, nor *)
(* are the same slots of two events; values go beyond the fields' widths.  *)
(***************************************************************************)
Reading(n, d, x) ==
  LET v == n + MAX_EVENTS * (d + Cardinality(Detectors(writer)) * (2 * x[1] + Place(x[2])))
  IN [time |-> v, energy |-> GRAIN * v + 1, segment |-> v]

Event(n, mul) ==
  [mul    |-> mul,
   hit    |-> [d \in Detectors(writer) |-> [x \in Hits |-> Reading(n, d, x)]],
   signal |-> [s \in DOMAIN writer.signals |-> n + s]]

IsEvent(x) == x.kind = "event"
EventsGiven == Cardinality({n \in DOMAIN given : IsEvent(given[n])})
RunsGiven == Len(given) - EventsGiven

CInit ==
  /\ writer \in Setups /\ reader \in Setups
  /\ given = << >> /\ messages = << >>
  /\ taken = 0
  /\ output = FreshOutput(reader)
  /\ outcome = "running"

(* ProtoWriter::setup, as far as the message goes; a provider may run again. *)
Setup ==
  /\ RunsGiven < MAX_RUNS
  /\ given' = Append(given, [kind |-> "setup"])
  /\ messages' = Append(messages, BuildHeader(writer))
  /\ UNCHANGED << writer, reader, taken, output, outcome >>

(* ProtoWriter::analyze *)
Analyze ==
  /\ given # << >> /\ EventsGiven < MAX_EVENTS
  /\ \E mul \in [Detectors(writer) -> Multiplicities] :
       LET event == Event(EventsGiven + 1, mul) IN
       /\ given' = Append(given, [kind |-> "event", event |-> event])
       /\ messages' = Append(messages, BuildEvent(writer, event))
  /\ UNCHANGED << writer, reader, taken, output, outcome >>

(* The first message is the header: run looks at its root only. *)
SkipHeader ==
  /\ taken = 0 /\ messages # << >>
  /\ taken' = 1
  /\ UNCHANGED << writer, reader, given, messages, output, outcome >>

(* One round of the loop in run.  What is read outside of a list is anything. *)
Read ==
  /\ outcome = "running" /\ taken > 0 /\ taken < Len(messages)
  /\ taken' = taken + 1
  /\ LET message == messages[taken + 1]
         mul == Get(message, "mul")
         data == Get(message, "data")
         signal == Get(message, "signal")
     IN \/ /\ GetterThrows(message)
           /\ outcome' = "threw" /\ UNCHANGED output
        \/ /\ ~GetterThrows(message) /\ InLists(mul, data, signal)
           /\ ReadEvent(mul, data, signal) /\ UNCHANGED outcome
        \/ /\ ~GetterThrows(message) /\ ~InLists(mul, data, signal)
           /\ outcome' = "outside" /\ UNCHANGED output
  /\ UNCHANGED << writer, reader, given, messages >>

CNext == Setup \/ Analyze \/ SkipHeader \/ Read

CSpec == CInit /\ [][CNext]_codecVars

-----------------------------------------------------------------------------
(* What an analyzer looks at: the slots below the multiplicity. *)
Visible(setup, out, d) ==
  [x \in {y \in Hits : y[1] < out.mul[d] /\ Place(y[2]) <= Len(Sides(setup, d))} |-> out.hit[d][x]]

(* A hit as the fields of the message can hold it. *)
Narrowed(hit) ==
  [time |-> hit.time % Values(2), energy |-> hit.energy - (hit.energy % GRAIN),
   segment |-> hit.segment % BYTE]

(* One setup's detectors are the first of another's, by their kinds, and so are its signals. *)
Leads(mine, theirs) ==
  /\ Len(mine.signals) <= Len(theirs.signals)
  /\ Detectors(mine) \subseteq Detectors(theirs)
  /\ \A d \in Detectors(mine) : Sides(mine, d) = Sides(theirs, d)

(* The reader's output shows this event. *)
ShownAsGiven(event) ==
  /\ outcome = "running"
  /\ \A s \in DOMAIN reader.signals : output.signal[s] = event.signal[s]
  /\ \A d \in Detectors(reader) :
       /\ event.mul[d] < BYTE =>
            /\ output.mul[d] = event.mul[d]
            /\ Visible(reader, output, d) =
                 [x \in DOMAIN Visible(writer, event, d) |-> Narrowed(event.hit[d][x])]
       /\ \A x \in DOMAIN Visible(reader, output, d) : output.hit[d][x] = Narrowed(event.hit[d][x])

(***************************************************************************)
(* After an event is unpacked each detector shows its own hits of that     *)
(* event and nothing of an earlier one, front and back not exchanged, and  *)
(* narrowed only as the fields are: whatever the other detectors saw, even *)
(* when one of them had more hits than a multiplicity can say.  Then the   *)
(* writer's and the reader's count through the list still agree.  It takes *)
(* no more of the reader's setup than that it leads the writer's: the      *)
(* header is not compared, and with any other setup hits go astray.        *)
(***************************************************************************)
HitsStayHome ==
  Leads(reader, writer) /\ taken > 1 /\ IsEvent(given[taken]) => ShownAsGiven(given[taken].event)

(* No hit is written beyond the end of the list that was allocated for it. *)
NoHitOutsideTheList ==
  \A n \in DOMAIN given :
    IsEvent(given[n]) =>
      Len(Entries(writer, given[n].event)) <= DataSize(writer, given[n].event)

(***************************************************************************)
(* The header in the file is enough to tell the writer's setup from any    *)
(* other that would count differently: its getters show every detector and *)
(* signal by name, in order, with its strips as 16 bits hold them.  (A     *)
(* TODO in ProtoReader wants it to be read; nothing does yet.)             *)
(***************************************************************************)
ReadHeader(message) ==
  LET items(list) == Items(message.pointers[HeaderLayout.lists[list].slot])
      name(item) == Items(item.pointers[0])
  IN [doubles |-> [i \in DOMAIN items("doubles") |->
                     LET d == items("doubles")[i] IN
                     [name |-> name(d), front |-> GetData(d, DoubleSidedLayout.data.frontStrips),
                      back |-> GetData(d, DoubleSidedLayout.data.backStrips)]],
      singles |-> [i \in DOMAIN items("singles") |->
                     LET d == items("singles")[i] IN
                     [name |-> name(d), strips |-> GetData(d, SingleSidedLayout.data.strips)]],
      signals |-> [i \in DOMAIN items("signals") |-> name(items("signals")[i])]]

InTheFile(setup) ==
  [doubles |-> [i \in DOMAIN setup.doubles |->
                  LET d == setup.doubles[i] IN
                  [name |-> d.name, front |-> d.front % Values(2), back |-> d.back % Values(2)]],
   singles |-> [i \in DOMAIN setup.singles |->
                  LET d == setup.singles[i] IN [name |-> d.name, strips |-> d.strips % Values(2)]],
   signals |-> setup.signals]

HeaderTellsSetup ==
  \A n \in DOMAIN given : ~IsEvent(given[n]) => ReadHeader(messages[n]) = InTheFile(writer)

(***************************************************************************)
(* A header in the middle of a file, from a provider that ran twice, is    *)
(* not taken for an event by whatever the layouts have in common: run      *)
(* throws, and the analyzers are not shown something that never happened.  *)
(***************************************************************************)
HeaderIsNoEvent ==
  \A n \in 2 .. taken : ~IsEvent(given[n]) => outcome = "threw" /\ taken = n

(***************************************************************************)
(* Whenever the setup the reader was given makes it show an event as the   *)
(* writer did not see it, or read outside of a list, the header it skipped *)
(* would have told so: the reader's setup does not lead what is in the     *)
(* file.  What run does not compare ("One should probably read the headers *)
(* here") is there to be compared, and numbers and kinds are enough.       *)
(***************************************************************************)
HeaderWouldTell ==
  taken > 1 /\ IsEvent(given[taken]) /\ ~ShownAsGiven(given[taken].event) =>
    ~Leads(reader, ReadHeader(messages[1]))

==============================================================================
